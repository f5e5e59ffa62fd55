----------------------------- MODULE Reporting ------------------------------
(***************************************************************************)
(* Acquisition over an association that is set up, lost and set up again   *)
(* (src/src/tase2_client_connection.cpp): when it is established the thread*)
(* creates the dynamic data sets, reserves and enables a transfer set for  *)
(* each configured one, installs the handlers of reports, and only then    *)
(* polls.  The server goes on meanwhile: it changes values, reports them   *)
(* through the transfer sets already enabled, refuses requests, and the    *)
(* link may be lost between any two steps.  The handles that the client    *)
(* keeps of transfer sets and data sets, and what the clean-up does to     *)
(* them, are in ClientConnection and ConnectionThread.                     *)
(*                                                                         *)
(* The names of data sets stand for their domain too.  A static data set   *)
(* that the server has, has the entries that are configured.               *)
(***************************************************************************)
EXTENDS Acquisition

CONSTANTS
    Pool,      \* the transfer sets a server has for one association
    MaxLosses  \* bound: how often the link is lost

ASSUME PoolAssumption == Pool \in Nat
ASSUME MaxLossesAssumption == MaxLosses \in Nat

VARIABLES
    link,      \* the endpoint's state is CONNECTED
    step,      \* the thread: "closed", "setup" or "service"
    toCreate,  \* the dynamic data sets m_configDatasets has still to create
    toEnable,  \* the transfer sets m_configDsts has still to enable
    known,     \* the configured data sets that the server has
    reserved,  \* the transfer sets that got one of the server's in this association
    enabled,   \* those the server accepted with all that was written to them
    refused,   \* those for which it refused a request it could have granted
    losses,    \* how often the link was lost
    fresh      \* the points that changed in this service

serverSets == <<reserved, enabled, refused>>
linkVars == <<link, step, toCreate, toEnable, known, serverSets, losses, fresh>>
vars == <<acquisitionVars, linkVars>>

Dynamic == {n \in DOMAIN m_config.datasets : m_config.datasets[n].dynamic}
Static == DOMAIN m_config.datasets \ Dynamic

Init ==
    /\ AcquisitionInit
    /\ link = FALSE /\ step = "closed"
    /\ toCreate = {} /\ toEnable = {}
    /\ known \in SUBSET Static
    /\ reserved = {} /\ enabled = {} /\ refused = {}
    /\ losses = 0 /\ fresh = {}

-----------------------------------------------------------------------------
(* Setting up an association                                                *)

\* An import that threw or was aborted has ended the start of the plugin.
Runs ==
    m_config.outcome \in {"complete", "incomplete"} /\ m_config.connections # <<>>

\* The association is established, with all transfer sets of the server free.
Connect ==
    /\ step = "closed" /\ Runs
    /\ link' = TRUE /\ step' = "setup"
    /\ toCreate' = Dynamic
    /\ toEnable' = DOMAIN m_config.transferSets
    /\ reserved' = {} /\ enabled' = {} /\ refused' = {}
    /\ UNCHANGED <<acquisitionVars, known, losses, fresh>>

\* m_configDatasets: an error, also for a data set that is still there, is logged.
CreateDataset(n) ==
    /\ step = "setup"
    /\ n \in toCreate
    /\ toCreate' = toCreate \ {n}
    /\ \/ UNCHANGED known
       \/ link /\ known' = known \cup {n}
    /\ UNCHANGED <<acquisitionVars, link, step, toEnable, serverSets, losses, fresh>>

\* Seeded bug: the transfer sets do not wait for the data sets.
EnablingEarly(t) ==
    /\ step = "setup"
    /\ t \in toEnable
    /\ toEnable' = toEnable \ {t}
    /\ UNCHANGED <<config, value, reports, pollVars, out>>
    /\ UNCHANGED <<link, step, toCreate, known, losses, fresh>>

\* m_configDsts, once per configured transfer set, in arbitrary order.
Enabling(t) ==
    /\ step = "setup" /\ toCreate = {}
    /\ t \in toEnable
    /\ toEnable' = toEnable \ {t}
    /\ UNCHANGED <<config, value, reports, pollVars, out>>
    /\ UNCHANGED <<link, step, toCreate, known, losses, fresh>>

DatasetOf(t) == m_config.transferSets[t].dataset
Exhausted == Cardinality(reserved) >= Pool

\* GetNextDSTransferSet fails: the link is lost, none is left, or the server refuses.
NoTransferSet(t) ==
    /\ Enabling(t)
    /\ refused' = IF link /\ ~Exhausted THEN refused \cup {t} ELSE refused
    /\ UNCHANGED <<granted, reserved, enabled>>

\* The data set is not there, or cannot be read: the transfer set stays reserved.
DatasetMissing(t) ==
    /\ Enabling(t)
    /\ link /\ ~Exhausted
    /\ reserved' = reserved \cup {t}
    /\ refused' = IF DatasetOf(t) \in known THEN refused \cup {t} ELSE refused
    /\ UNCHANGED <<granted, enabled>>

\* The transfer set reports on change, or again and again: at its interval, or
\* with an integrity check, which is given the value of rbe.
ReportsChanges(t) == "change" \in m_config.transferSets[t].conditions
Repeats(t) ==
    LET ts == m_config.transferSets[t] IN
    \/ "interval" \in ts.conditions /\ ts.interval > 0
    \/ "integrity" \in ts.conditions /\ ts.rbe

\* The transfer set is written; a server that refuses it is logged.
Enable(t) ==
    /\ Enabling(t)
    /\ link /\ ~Exhausted
    /\ DatasetOf(t) \in known
    /\ reserved' = reserved \cup {t}
    /\ \/ refused' = refused \cup {t} /\ UNCHANGED <<granted, enabled>>
       \/ LET points == m_config.datasets[DatasetOf(t)].entries \cap Refs IN
          /\ enabled' = enabled \cup {t}
          /\ onChange' = onChange \cup (IF ReportsChanges(t) THEN points ELSE {})
          /\ repeated' = repeated \cup (IF Repeats(t) THEN points ELSE {})
          /\ UNCHANGED refused

\* The handlers are installed and the connection is CON_STATE_CONNECTED.
InstallHandlers ==
    /\ step = "setup" /\ toCreate = {} /\ toEnable = {}
    /\ step' = "service"
    /\ fresh' = {}
    /\ UNCHANGED <<acquisitionVars, link, toCreate, toEnable, known, serverSets, losses>>

Setup ==
    \/ Connect \/ InstallHandlers
    \/ \E n \in toCreate : CreateDataset(n)
    \/ \E t \in toEnable : NoTransferSet(t) \/ DatasetMissing(t) \/ Enable(t)

-----------------------------------------------------------------------------
(* In service                                                               *)

\* A pass of the thread that finds the endpoint connected.
Polling ==
    /\ step = "service"
    /\ \/ link /\ BeginPoll
       \/ BeginSending \/ SendData \/ EndPoll
       \/ \E r \in todo : link /\ ReadPoint(r)
       \/ \E r \in todo : (~link \/ ReadsFail) /\ FailRead(r)
    /\ UNCHANGED linkVars

\* A pass that finds it lost: the clean-up destroys the client and what it holds.
NoticeLoss ==
    /\ step = "service" /\ ~link /\ poll = "idle"
    /\ step' = "closed"
    /\ reports' = <<>> /\ fresh' = {}
    /\ UNCHANGED <<config, granted, value, pollVars, out>>
    /\ UNCHANGED <<link, toCreate, toEnable, known, serverSets, losses>>

\* The thread of the library gives a report to the handler, once there is one.
ValueHandler ==
    /\ step = "service"
    /\ HandleReport
    /\ UNCHANGED linkVars

DiscardReport ==
    /\ step = "setup"
    /\ reports # <<>>
    /\ reports' = Tail(reports)
    /\ UNCHANGED <<config, granted, value, pollVars, out, linkVars>>

-----------------------------------------------------------------------------
(* The server and the link                                                  *)

ServerChange(r) ==
    /\ Change(r)
    /\ fresh' = IF link /\ step = "service" THEN fresh \cup {r} ELSE fresh
    /\ UNCHANGED <<link, step, toCreate, toEnable, known, serverSets, losses>>

ServerRepeat(r) == Repeat(r) /\ UNCHANGED linkVars

\* The link is lost, with the last of the reports; the server ends the transfer sets
\* and may forget the data sets that were created.
Lose ==
    /\ link /\ losses < MaxLosses
    /\ losses' = losses + 1
    /\ link' = FALSE
    /\ \E n \in 0 .. Len(reports) : reports' = SubSeq(reports, 1, n)
    /\ onChange' = {} /\ repeated' = {}
    /\ known' \in {known, known \cap Static}
    /\ UNCHANGED <<config, value, pollVars, out>>
    /\ UNCHANGED <<step, toCreate, toEnable, serverSets, fresh>>

ThreadNext == Setup \/ Polling \/ NoticeLoss

Next ==
    \/ ThreadNext
    \/ ValueHandler \/ DiscardReport
    \/ \E r \in Refs : ServerChange(r) \/ ServerRepeat(r)
    \/ Lose

(***************************************************************************)
(* Fairness: the threads of the connection and of the library go on, a     *)
(* server repeats what a transfer set asks for, and reading a point does   *)
(* not fail for ever.                                                      *)
(***************************************************************************)
Fairness ==
    /\ WF_vars(ThreadNext)
    /\ WF_vars(ValueHandler)
    /\ \A i \in 1 .. MaxEntries :
           /\ SF_vars(i \in DOMAIN doc /\ ServerRepeat(doc[i].ref))
           /\ SF_vars(Polling /\ i \in DOMAIN doc /\ ReadPoint(doc[i].ref))

Spec == Init /\ [][Next]_vars /\ Fairness

-----------------------------------------------------------------------------
(* What it promises                                                         *)

\* Every variable has a value of its type; a server gives no more transfer sets than it
\* has.
TypeOK ==
    /\ AcquisitionTypeOK
    /\ step \in {"closed", "setup", "service"}
    /\ toCreate \subseteq Dynamic
    /\ toEnable \cup reserved \cup enabled \cup refused \subseteq DOMAIN m_config.transferSets
    /\ Cardinality(reserved) <= Pool
    /\ known \subseteq DOMAIN m_config.datasets
    /\ onChange \cup repeated \cup fresh \subseteq Refs

\* A connection is imported as it is written: in the order of the document, with its
\* own port, and with selectors whose bytes are the numbers of the document and fit the
\* buffers they are stored in.
Written(group, c) ==
    /\ c.port = {group.port}
    /\ group.tls = (c.tls = "true")
    /\ group.osi = {} <=> c.osi = {}
    /\ \A parsed \in group.osi, osi \in c.osi : \A k \in DOMAIN osi.selectors :
           /\ [i \in DOMAIN parsed[k].bytes |-> {parsed[k].bytes[i]}] = osi.selectors[k]
           /\ Len(parsed[k].bytes) <= IF k \in {"localT", "remoteT"} THEN 4 ELSE 16

ImportedAsWritten ==
    LET imported == m_config.connections IN
    Runs => \E at \in [DOMAIN imported -> DOMAIN stack.connections] :
        /\ \A i, j \in DOMAIN imported : i < j => at[i] < at[j]
        /\ \A i \in DOMAIN imported : Written(imported[i], stack.connections[at[i]])

\* Once an association that still holds is in service, a configured transfer set that the
\* server does not report through was refused by it, has no data set there, or found all
\* of its transfer sets reserved by others: neither the order of the set-up nor what was
\* left of an earlier association keeps one from being enabled.
EnabledUnlessRefused ==
    link /\ step = "service" =>
        \A t \in DOMAIN m_config.transferSets \ enabled :
            t \in refused \/ DatasetOf(t) \notin known \/ (t \notin reserved /\ Exhausted)

Defined(r) == \E i \in Defining(doc, Indications \cup Commands) : doc[i].ref = r

\* A change in service of a point that is reported on change is ingested or on its
\* way, as long as the link holds: no report is dropped for a point that the exchange
\* defines, whether it is polled as well or not.  What changes before the handlers are
\* installed is not in service yet.
ReportedChangesArrive ==
    link /\ step = "service" =>
        \A r \in fresh \cap onChange : Defined(r) =>
            \/ lastReported[r] = value[r]
            \/ \E i \in DOMAIN reports : reports[i] = [ref |-> r, version |-> value[r]]

\* A point is acquired by polling when it is indicated and no data set takes it out, and
\* by reports when a transfer set repeats it and the exchange has it.
AcquiredByPolling(r) ==
    /\ Runs /\ m_config.outcome = "complete"
    /\ Indicated(r) /\ \E p \in stack.polling : p > 0
    /\ ~\E d \in Listing(r) : d.spelled

AcquiredByReports(r) == r \in repeated /\ Defined(r)

\* The latest value of every acquired point is ingested in the end, by each of the ways
\* it is acquired in, whatever reads fail, reports are discarded or associations lost on
\* the way.
Delivered ==
    \A i \in 1 .. MaxEntries :
        /\ <>[](i \in DOMAIN doc /\ AcquiredByPolling(doc[i].ref))
               => <>[](i \in DOMAIN doc => lastPolled[doc[i].ref] = value[doc[i].ref])
        /\ <>[](i \in DOMAIN doc /\ AcquiredByReports(doc[i].ref))
               => <>[](i \in DOMAIN doc => lastReported[doc[i].ref] = value[doc[i].ref])

=============================================================================
