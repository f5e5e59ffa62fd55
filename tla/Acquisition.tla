---------------------------- MODULE Acquisition -----------------------------
(***************************************************************************)
(* How the values of the server's data points become readings: polling by  *)
(* the thread of the connection in service (executePeriodicTasks,          *)
(* TASE2Client::handleAllValues) and reports in the thread of the library  *)
(* (dsTransferSetValueHandler, TASE2Client::handleValue).  The two share   *)
(* nothing but the configuration and the ingest callback, and interleave.  *)
(*                                                                         *)
(* The association under them, and the transfer sets, are in Reporting.    *)
(***************************************************************************)
EXTENDS Configuration, DataObject

CONSTANTS
    MaxEntries,      \* bound: how long an exchange document is
    Configurations,  \* what may be configured: pairs of a document and a stack
    MaxVersion,      \* bound: how often the server changes a value
    ReadsFail        \* reading a point may fail

\* Documents and their lists are sequences, and connections what they should be.
ASSUME ConfigurationsAssumption ==
    /\ MaxEntries \in Nat
    /\ \A c \in Configurations :
        /\ Len(c[1]) <= MaxEntries
        /\ \A list \in {c[1], c[2].connections, c[2].datasets, c[2].transferSets} :
               Len(list) \in Nat /\ DOMAIN list = 1 .. Len(list)
        /\ \A i \in DOMAIN c[2].connections : IsConnection(c[2].connections[i])
ASSUME MaxVersionAssumption == MaxVersion \in Nat \ {0}
ASSUME ReadsFailAssumption == ReadsFail \in BOOLEAN

VARIABLES
    doc,          \* the exchanged data
    stack,        \* the protocol stack
    m_config,     \* what the imports made of the two
    onChange,     \* the refs whose changes a transfer set of the server reports
    repeated,     \* the refs a transfer set reports again without a change
    value,        \* by ref, the version of the server's value, from 1
    reports,      \* values reported and not yet handled, in order
    poll,         \* handleAllValues: "idle", "reading" or "sending"
    todo,         \* the points it has still to read
    labels,       \* its vector of labels
    datapoints,   \* its vector of data points: [ref, version, type]
    sent,         \* how many of them sendData has ingested
    lastPolled,   \* by ref, the version last ingested by polling, 0 for none
    lastReported, \* by ref, the version last ingested from a report, 0 for none
    reading       \* the last reading, {} or {[label, ref, object]}

config == <<doc, stack, m_config>>
granted == <<onChange, repeated>>
server == <<granted, value, reports>>
pollVars == <<poll, todo, labels, datapoints, sent>>
out == <<lastPolled, lastReported, reading>>
acquisitionVars == <<config, server, pollVars, out>>

Refs == {doc[i].ref : i \in DOMAIN doc}
Definitions == m_config.definitions
Polled == m_config.polled

\* A configuration, and a server whose points have a first value.
AcquisitionInit ==
    /\ \E c \in Configurations : doc = c[1] /\ stack = c[2]
    /\ m_config = setJsonConfig(doc, stack)
    /\ onChange = {} /\ repeated = {}
    /\ value = [r \in Refs |-> 1]
    /\ reports = <<>>
    /\ poll = "idle" /\ todo = {}
    /\ labels = <<>> /\ datapoints = <<>> /\ sent = 0
    /\ lastPolled = [r \in Refs |-> 0] /\ lastReported = [r \in Refs |-> 0]
    /\ reading = {}

\* TASE2::ingest, through the callback of the south service.
Ingest(label, type, point) ==
    reading' = {[label |-> label, ref |-> point.ref, object |-> createDataObject(type)]}

\* What is left to tell which way a value came.
FromPoll(point) ==
    /\ lastPolled' = [lastPolled EXCEPT ![point.ref] = point.version]
    /\ UNCHANGED lastReported
FromReport(point) ==
    /\ lastReported' = [lastReported EXCEPT ![point.ref] = point.version]
    /\ UNCHANGED lastPolled

-----------------------------------------------------------------------------
(* Polling                                                                  *)

\* Seeded bug: the data points of the last poll are still in the vector.
BeginPollKeepsDatapoints ==
    /\ poll = "idle"
    /\ m_config.polling > 0
    /\ poll' = "reading"
    /\ todo' = DOMAIN Polled
    /\ labels' = <<>> /\ sent' = 0
    /\ UNCHANGED <<config, server, datapoints, out>>

\* executePeriodicTasks finds that there is a polling interval and it has passed.
BeginPoll ==
    /\ poll = "idle"
    /\ m_config.polling > 0
    /\ poll' = "reading"
    /\ todo' = DOMAIN Polled
    /\ labels' = <<>> /\ datapoints' = <<>> /\ sent' = 0
    /\ UNCHANGED <<config, server, out>>

\* One turn of the loop: the label is taken, then the value read.  The order of
\* m_polledDatapoints is arbitrary.
ReadPoint(r) ==
    /\ poll = "reading"
    /\ r \in todo
    /\ todo' = todo \ {r}
    /\ labels' = Append(labels, Polled[r].label)
    /\ datapoints' =
           Append(datapoints, [ref |-> r, version |-> value[r], type |-> Polled[r].type])
    /\ UNCHANGED <<config, server, poll, sent, out>>

\* The read fails: the label was taken all the same.
FailRead(r) ==
    /\ poll = "reading"
    /\ r \in todo
    /\ todo' = todo \ {r}
    /\ labels' = Append(labels, Polled[r].label)
    /\ UNCHANGED <<config, server, poll, datapoints, sent, out>>

BeginSending ==
    /\ poll = "reading"
    /\ todo = {}
    /\ poll' = "sending"
    /\ UNCHANGED <<config, server, todo, labels, datapoints, sent, out>>

\* Seeded bug: the labels are taken from the second one on.
SendDataOffByOne ==
    /\ poll = "sending"
    /\ sent < Len(datapoints)
    /\ sent' = sent + 1
    /\ LET point == datapoints[sent']
       IN  /\ Ingest(labels[(sent' % Len(labels)) + 1], point.type, point)
           /\ FromPoll(point)
    /\ UNCHANGED <<config, server, poll, todo, labels, datapoints>>

\* sendData: the i-th data point goes out under the i-th label.
SendData ==
    /\ poll = "sending"
    /\ sent < Len(datapoints)
    /\ sent' = sent + 1
    /\ Ingest(labels[sent'], datapoints[sent'].type, datapoints[sent'])
    /\ FromPoll(datapoints[sent'])
    /\ UNCHANGED <<config, server, poll, todo, labels, datapoints>>

EndPoll ==
    /\ poll = "sending"
    /\ sent = Len(datapoints)
    /\ poll' = "idle"
    /\ UNCHANGED <<config, server, todo, labels, datapoints, sent, out>>

-----------------------------------------------------------------------------
(* Reports                                                                  *)

\* The server's value changes; a transfer set with the point may report it.
Change(r) ==
    /\ value[r] < MaxVersion
    /\ value' = [value EXCEPT ![r] = @ + 1]
    /\ reports' = IF r \in onChange
                  THEN Append(reports, [ref |-> r, version |-> value'[r]])
                  ELSE reports
    /\ UNCHANGED <<config, granted, pollVars, out>>

\* A transfer set reports a point without a change: at its interval, or with an
\* integrity check.
Repeat(r) ==
    /\ r \in repeated
    /\ reports = <<>>
    /\ reports' = <<[ref |-> r, version |-> value[r]]>>
    /\ UNCHANGED <<config, granted, value, pollVars, out>>

\* Seeded bug: the definition is looked up among the polled points.
HandleReportOfPolled ==
    /\ reports # <<>>
    /\ reports' = Tail(reports)
    /\ LET point == Head(reports) IN
       IF point.ref \in DOMAIN Polled
       THEN /\ Ingest(Polled[point.ref].label, Polled[point.ref].type, point)
            /\ FromReport(point)
       ELSE UNCHANGED out
    /\ UNCHANGED <<config, granted, value, pollVars>>

\* Seeded bug: the latest report is handled first.
HandleReportNewestFirst ==
    /\ reports # <<>>
    /\ reports' = Front(reports)
    /\ LET point == Last(reports) IN
       IF point.ref \in DOMAIN Definitions
       THEN /\ Ingest(Definitions[point.ref].label, Definitions[point.ref].type, point)
            /\ FromReport(point)
       ELSE UNCHANGED out
    /\ UNCHANGED <<config, granted, value, pollVars>>

\* The library hands a value to the client: ingested under the label of its
\* definition, dropped when the exchange does not have the point.
HandleReport ==
    /\ reports # <<>>
    /\ reports' = Tail(reports)
    /\ LET point == Head(reports) IN
       IF point.ref \in DOMAIN Definitions
       THEN /\ Ingest(Definitions[point.ref].label, Definitions[point.ref].type, point)
            /\ FromReport(point)
       ELSE UNCHANGED out
    /\ UNCHANGED <<config, granted, value, pollVars>>

-----------------------------------------------------------------------------
(* What acquisition promises                                                *)

\* Every variable has a value of its type; labels.at (i) is never out of range,
\* which would end the thread of the connection.
AcquisitionTypeOK ==
    /\ poll \in {"idle", "reading", "sending"}
    /\ todo \subseteq DOMAIN Polled
    /\ sent <= Len(datapoints) /\ Len(datapoints) <= Len(labels)
    /\ \A r \in Refs : value[r] \in 1 .. MaxVersion
    /\ \A r \in Refs : {lastPolled[r], lastReported[r]} \subseteq 0 .. MaxVersion

\* A point an entry of the document defines as an indication, and the data sets of
\* the document that list it.
Indicated(r) == \E i \in Defining(doc, Indications) : doc[i].ref = r
Listing(r) == {d \in Range(stack.datasets) : d.name # "" /\ r \in d.entries}

SpelledOnly(r) == \A d \in Listing(r) : d.spelled

\* Neither the polls nor the reports of a point go back to an older value, whatever is
\* read, queued, discarded or lost on the way, and however the two interleave.  Between
\* the two there is no order: a poll may ingest what it read before a newer report.
NeverOlder ==
    [][\A r \in Refs :
          lastPolled'[r] >= lastPolled[r] /\ lastReported'[r] >= lastReported[r]
      ]_acquisitionVars

\* That does not matter to a point that the data sets spell as the exchange does: it is
\* acquired in one way only, by a poll or by reports, and so never goes back at all.
\* Spelled "domain/name" in a data set it may come in both ways, out of order.
AcquiredOneWay ==
    \A r \in Refs : SpelledOnly(r) => lastPolled[r] = 0 \/ lastReported[r] = 0

\* The label and the type of a reading are those an entry of the exchange gives to
\* the point it was read from.
Labelled(readings) ==
    \A r \in readings : \E i \in Defining(doc, Indications \cup Commands) :
        /\ doc[i].label = r.label /\ doc[i].ref = r.ref
        /\ dpTypeToStr(doc[i].type) = r.object.do_type

\* Every reading is ingested under the label of its own point.
ReadingsLabelled == Labelled(reading)

\* A reading carries the label of another point only in a poll in which a read
\* has failed.
MislabelledAfterFailure ==
    [][out' # out /\ ~Labelled(reading')
          => poll = "sending" /\ Len(datapoints) < Len(labels)]_acquisitionVars

\* The data object of every reading, polled or reported, has the members and the
\* value that the type it names announces, and is of a type the exchange gives to
\* the point, whatever label it went out under.
ObjectsAsDefined ==
    \A r \in reading :
        /\ AsNamed(r.object)
        /\ \E i \in Defining(doc, Indications \cup Commands) :
               doc[i].ref = r.ref /\ dpTypeToStr(doc[i].type) = r.object.do_type

=============================================================================
