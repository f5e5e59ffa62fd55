------------------------------- MODULE Client -------------------------------
(***************************************************************************)
(* TASE2Client and the start and stop of TASE2 (src/src/tase2_client.cpp,  *)
(* src/src/tase2.cpp): the monitoring thread that keeps one connection of  *)
(* the redundancy group in service, composed with the connections of       *)
(* ClientConnection.  The monitoring thread takes one step per statement   *)
(* that reads or writes state it shares with a connection.                 *)
(***************************************************************************)
EXTENDS ClientConnection

CONSTANT Polling   \* m_config->getPollingInterval () > 0

ASSUME PollingAssumption == Polling \in BOOLEAN

MonitorSteps == {"none", "starting", "check", "try", "setActive", "wait",
                 "expired", "cleaning", "drop", "deleting", "joining", "ended"}

VARIABLES
    plugin,    \* TASE2: "stopped" (m_client is null), "running", "stopping"
    started,   \* TASE2Client::m_started
    mon,       \* where the monitoring thread is
    next,      \* its loop variable clientConnection
    active     \* m_active_connection, 0 for nullptr

monVars == <<plugin, started, mon, next, active>>

vars == <<connVars, reachable, fault, monVars>>

-----------------------------------------------------------------------------

Init ==
    /\ NewConnections
    /\ reachable \in SUBSET Conn
    /\ fault = "none"
    /\ plugin = "stopped"
    /\ started = FALSE
    /\ mon = "none"
    /\ next = 1
    /\ active = 0

-----------------------------------------------------------------------------
(* TASE2::start, TASE2::stop                                                *)

\* A new TASE2Client with its connections; its start launches the monitor.  The
\* service starts a plugin only when it is not running.
StartPlugin ==
    /\ Defined
    /\ plugin = "stopped"
    /\ plugin' = "running"
    /\ started' = TRUE
    /\ mon' = "starting"
    /\ next' = 1
    /\ active' = 0
    /\ prepareConnections
    /\ UNCHANGED <<reachable, fault>>

\* TASE2Client::stop resets the flag; the monitor sees it at its next check.
RequestStop ==
    /\ Defined
    /\ plugin = "running"
    /\ plugin' = "stopping"
    /\ started' = FALSE
    /\ UNCHANGED <<connVars, reachable, fault, mon, next, active>>

\* The monitor is joined and the client deleted.
FinishStop ==
    /\ Defined
    /\ plugin = "stopping"
    /\ mon = "ended"
    /\ plugin' = "stopped"
    /\ UNCHANGED <<connVars, reachable, fault, started, mon, next, active>>

-----------------------------------------------------------------------------
(* TASE2Client::_monitoringThread                                           *)

\* The monitoring thread is about to execute a step.
At(step) == Defined /\ mon = step

\* The connections' threads are started, unless stop came first.
MonStart ==
    /\ At("starting")
    /\ mon' = "check"
    /\ life' = [c \in Conn |-> IF started THEN "loop" ELSE life[c]]
    /\ UNCHANGED <<connect, connecting, connected, conState, endpoint,
                   tase2client, sets, reachable, fault>>
    /\ UNCHANGED <<plugin, started, next, active>>

\* Seeded bug: a connection that is reconnecting counts as lost.
NeedsConnectionUnlessSettled ==
    active # 0 => connecting[active] \/ Disconnected(active)

\* No active connection, or one that is neither connected nor connecting.
NeedsConnection == active # 0 => Disconnected(active)

\* Seeded bug: the monitor ends as soon as its connection is lost.
MonCheckGivesUp ==
    /\ At("check")
    /\ \/ /\ ~started \/ (active # 0 /\ NeedsConnection)
          /\ mon' = IF N = 0 THEN "ended" ELSE "deleting"
          /\ next' = 1
       \/ /\ started
          /\ active = 0
          /\ mon' = "try"
          /\ next' = 1
    /\ UNCHANGED <<connVars, reachable, fault, plugin, started, active>>

\* The head of the while loop: leave it, look for a connection, or sleep.
MonCheck ==
    /\ At("check")
    /\ \/ /\ ~started
          /\ mon' = IF N = 0 THEN "ended" ELSE "deleting"
          /\ next' = 1
       \/ /\ started
          /\ N > 0
          /\ NeedsConnection
          /\ mon' = "try"
          /\ next' = 1
    /\ UNCHANGED <<connVars, reachable, fault, plugin, started, active>>

MonConnect ==
    /\ At("try")
    /\ mon' = "setActive"
    /\ Connect(next)
    /\ UNCHANGED <<reachable, fault, plugin, started, next, active>>

\* Seeded bug: only a null m_active_connection is replaced.
MonSetActiveIfNull ==
    /\ At("setActive")
    /\ mon' = "wait"
    /\ active' = IF active = 0 THEN next ELSE active
    /\ UNCHANGED <<connVars, reachable, fault, plugin, started, next>>

MonSetActive ==
    /\ At("setActive")
    /\ mon' = "wait"
    /\ active' = next
    /\ UNCHANGED <<connVars, reachable, fault, plugin, started, next>>

\* The wait ends because the connection is in service.
MonSettle ==
    /\ At("wait")
    /\ Connected(next)
    /\ mon' = "check"
    /\ UNCHANGED <<connVars, reachable, fault, plugin, started, next, active>>

\* Seeded bug: m_active_connection is reset before the connection is disconnected.
MonExpireDropsFirst ==
    /\ At("wait")
    /\ ~Connected(next)
    /\ mon' = "expired"
    /\ active' = 0
    /\ UNCHANGED <<connVars, reachable, fault, plugin, started, next>>

\* The backup timeout passed while the connection was not in service.  Whatever
\* happens to it before the next statement, it is disconnected.
MonExpire ==
    /\ At("wait")
    /\ ~Connected(next)
    /\ mon' = "expired"
    /\ UNCHANGED <<connVars, reachable, fault, plugin, started, next, active>>

\* Disconnect meeting a pass of the thread, which nothing prevents, is left to
\* ConnectionThread.
MonDisconnect ==
    /\ At("expired")
    /\ life[next] = "loop"
    /\ mon' = "cleaning"
    /\ Disconnect(next)
    /\ UNCHANGED <<reachable, fault, plugin, started, next, active>>

MonCleanUp ==
    /\ At("cleaning")
    /\ mon' = "drop"
    /\ EndDisconnect(next)
    /\ UNCHANGED <<reachable, plugin, started, next, active>>

\* Seeded bug: the loop does not stop at the last connection.
MonDropUnbounded ==
    /\ At("drop")
    /\ active' = 0
    /\ mon' = "try"
    /\ next' = next + 1
    /\ UNCHANGED <<connVars, reachable, fault, plugin, started>>

\* Seeded bug: the same server is tried again.
MonDropRetries ==
    /\ At("drop")
    /\ active' = 0
    /\ mon' = "try"
    /\ UNCHANGED <<connVars, reachable, fault, plugin, started, next>>

\* No active connection any more; the next one is tried, after the last one the
\* while loop goes round.
MonDrop ==
    /\ At("drop")
    /\ active' = 0
    /\ \/ next < N /\ mon' = "try" /\ next' = next + 1
       \/ next = N /\ mon' = "check" /\ UNCHANGED next
    /\ UNCHANGED <<connVars, reachable, fault, plugin, started>>

\* The next connection to delete, or the end of the thread.
NextDeletion ==
    \/ next < N /\ mon' = "deleting" /\ next' = next + 1
    \/ next = N /\ mon' = "ended" /\ UNCHANGED next

\* delete clientConnection: its destructor stops the thread...
MonDelete ==
    /\ At("deleting")
    /\ \/ /\ life[next] = "loop"
          /\ Stop(next)
          /\ mon' = "joining"
          /\ UNCHANGED next
       \/ /\ life[next] = "created"
          /\ Deleted(next)
          /\ NextDeletion
    /\ UNCHANGED <<reachable, fault, plugin, started, active>>

\* ... and joins it.
MonJoin ==
    /\ At("joining")
    /\ life[next] = "ended"
    /\ Deleted(next)
    /\ NextDeletion
    /\ UNCHANGED <<reachable, fault, plugin, started, active>>

MonStep ==
    \/ MonStart \/ MonCheck \/ MonConnect \/ MonSetActive \/ MonSettle
    \/ MonExpire \/ MonDisconnect \/ MonCleanUp \/ MonDrop \/ MonDelete \/ MonJoin

-----------------------------------------------------------------------------
(* Periodic tasks of a connection: TASE2Client::handleAllValues             *)

\* What goes wrong when connection c polls now: the values are read through
\* m_active_connection, not through c.
PollFault ==
    IF active = 0 THEN "pollNoActive"
    ELSE IF tase2client[active] # "live" THEN "pollDeadHandle"
    ELSE "none"

\* Polling in service; reading the points leaves the connections as they are.
Poll(c) ==
    /\ Polling
    /\ Passing(c, "CONNECTED")
    /\ endpoint[c] = "connected"
    /\ fault' = PollFault
    /\ UNCHANGED <<connVars, reachable, monVars>>

-----------------------------------------------------------------------------

ConnStep(c) == ThreadStep(c) /\ UNCHANGED <<reachable, monVars>>

Environment(c) ==
    \/ LinkUp(c) /\ UNCHANGED <<reachable, monVars>>
    \/ LinkDown(c) /\ UNCHANGED <<reachable, monVars>>
    \/ ServerChanges(c) /\ UNCHANGED monVars

\* The process is gone: nothing more happens.
Crashed ==
    /\ ~Defined
    /\ UNCHANGED vars

Next ==
    \/ StartPlugin \/ RequestStop \/ FinishStop
    \/ MonStep
    \/ \E c \in Conn : ConnStep(c) \/ Poll(c) \/ Environment(c)
    \/ Crashed

Spec == Init /\ [][Next]_vars

(***************************************************************************)
(* Fairness.  The threads are scheduled and their timers run out, and a    *)
(* server that stays reachable answers (WF); what is read of the           *)
(* uninitialised `error', or a creation call, is not bad without end (SF). *)
(* Disconnect and Stop are made between two passes: the thread sleeps for  *)
(* 50 ms there, so the monitor gets its turn however many passes follow    *)
(* each other (SF).  Nothing is assumed of the servers, of the links       *)
(* breaking, or of the service asking for a stop.                          *)
(***************************************************************************)
Fairness ==
    /\ WF_vars(MonStep)
    /\ SF_vars(MonDisconnect)
    /\ SF_vars(MonDelete)
    /\ WF_vars(FinishStop)
    /\ \A c \in Conn :
          /\ WF_vars(ConnStep(c))
          /\ WF_vars(LinkUp(c) /\ UNCHANGED <<reachable, monVars>>)
          /\ SF_vars(OpenAssociation(c, "ok") /\ UNCHANGED <<reachable, monVars>>)

FairSpec == Spec /\ Fairness

-----------------------------------------------------------------------------
(* What the redundancy group promises                                       *)

\* Every variable has a value of its type: the monitor's loop variable stays an
\* index of m_connections and m_active_connection one of its elements or null.
TypeOK ==
    /\ life \in [Conn -> Lives]
    /\ connect \in [Conn -> BOOLEAN]
    /\ connecting \in [Conn -> BOOLEAN]
    /\ connected \in [Conn -> BOOLEAN]
    /\ conState \in [Conn -> ConStates]
    /\ endpoint \in [Conn -> EndpointStates]
    /\ tase2client \in [Conn -> Clients]
    /\ sets \in [Conn -> SetStates]
    /\ reachable \subseteq Conn
    /\ fault \in Faults
    /\ plugin \in {"stopped", "running", "stopping"}
    /\ started \in BOOLEAN
    /\ mon \in MonitorSteps
    /\ next \in Conn \cup {1}
    /\ active \in Conn \cup {0}

\* Connection c gives up by its own timer: it is in its own Disconnect, or about to be.
Leaving(c) == life[c] \in {"expiring", "releasing", "cleaning"}

\* Connection c holds an endpoint, and has not reset its flags to release it.
Holds(c) == endpoint[c] # "null" /\ life[c] \notin {"releasing", "cleaning"}

\* At most one connection of the group holds an endpoint, however the timers of the
\* monitor (5 s) and of the connection (10 s) interleave: the failover releases what it
\* gives up before it tries another server.  Connections that have given up by
\* themselves may still be releasing theirs: their flags are reset first.
SingleAssociation ==
    \A c, d \in Conn : Holds(c) /\ Holds(d) => c = d

\* The connection that holds an endpoint is the one commands and polls go to,
\* except between Connect () and the assignment of m_active_connection.
OpenIsActive ==
    \A c \in Conn :
        Holds(c) => active = c \/ (mon = "setActive" /\ next = c)

\* When the monitoring thread has ended nothing is left behind: every thread is
\* joined, no endpoint is open and no transfer set is still held.
NothingLeft ==
    mon = "ended" =>
        \A c \in Conn :
            life[c] = "deleted" /\ endpoint[c] = "null" /\ sets[c] # "live"

\* No transfer set or data set is destroyed twice.
NoDoubleDestroy == fault # "destroyTwice"

\* A connection without OSI parameters is opened without reading them.
OsiNotDereferenced == fault # "osiNull"

\* The monitor leaves a server only once that connection reports neither connected
\* nor connecting: a connection that is reconnecting by itself is not abandoned.
StaysWithServer ==
    [][plugin # "stopped" /\ active # 0 /\ active' # active
          => Disconnected(active)]_vars

\* The library is handed a null client to destroy only when creating the client
\* itself had failed: the endpoint cleaned up was never opened.
NullClientOnlyAfterFailedCreate ==
    [][fault' # fault /\ fault' = "freeNullClient"
          => \E c \in Conn :
                 /\ endpoint[c] = "idle"
                 /\ conState[c] = "FATAL_ERROR" \/ life[c] = "closing"]_vars

\* A poll through a null or dead connection can only happen between Connect ()
\* and the assignment of m_active_connection.
PollRacesOnlySelection ==
    [][fault' # fault /\ fault' \in {"pollNoActive", "pollDeadHandle"}
          => mon = "setActive"]_vars

\* The steps the monitor has left, at most, once it has been told to stop: it does not
\* look at m_started before the search is over, one server after the other, and then
\* stops and joins the connections one by one.
Remaining ==
    LET rest == N - next
        search == 2 * N + 2 + 6 * rest
    IN  CASE mon = "starting"  -> 2 * N + 2
          [] mon = "check"     -> 2 * N + 1
          [] mon = "try"       -> search + 5
          [] mon = "setActive" -> search + 4
          [] mon = "wait"      -> search + 3
          [] mon = "expired"   -> search + 2
          [] mon = "cleaning"  -> search + 1
          [] mon = "drop"      -> search
          [] mon = "deleting"  -> 2 * rest + 2
          [] mon = "joining"   -> 2 * rest + 1
          [] OTHER             -> 0

\* The monitor goes through all of its code in a bounded number of steps when it is told
\* to stop, whatever the servers and the threads of the connections do meanwhile: nothing
\* it finds makes it search again.
StopBounded ==
    [][plugin = "stopping" /\ <<mon, next>>' # <<mon, next>>
          => Remaining' \in 0 .. (Remaining - 1)]_vars

\* Where the monitor waits for the thread of a connection, that thread is on its way: a
\* join waits for one that was told to stop, Disconnect and Stop at most for the end of
\* a pass.
StopNotBlocked ==
    /\ mon = "joining" => life[next] \in {"stopping", "ended"}
    /\ mon \in {"expired", "deleting"} => life[next] \in {"created", "loop"} \cup Passes

\* The active connection has an association and is in service.
Serving ==
    /\ active # 0
    /\ conState[active] = "CONNECTED"
    /\ endpoint[active] = "connected"

\* The next pass or the server's answer brings connection c nearer to service.
Progressing(c) ==
    \/ connect[c] /\ conState[c] = "IDLE"
    \/ endpoint[c] = "connected"
    \/ endpoint[c] = "opening" /\ c \in reachable

\* The timer of the monitor or of the connection's thread runs out.
GivesUp(c) ==
    \/ mon = "wait" /\ mon' = "expired" /\ next = c
    \/ life[c] = "loop" /\ life'[c] = "expiring"

\* From some time on answers come within the timeouts (5 s and 10 s) ...
Timely == <>[][\A c \in Conn : GivesUp(c) => ~Progressing(c)]_vars

\* ... and links do not break.
LinksHold == <>[][\A c \in Conn : endpoint[c] = "connected"
                                   => endpoint'[c] # "closed"]_vars

\* While the plugin runs and some server stays reachable, whatever went wrong
\* before, the group ends up in service for good once answers are timely and links
\* hold: no sequence of failures leaves the failover stuck.
Recovery ==
    /\ \E c \in Conn : <>[](c \in reachable)
    /\ <>[](plugin = "running")
    /\ Timely
    /\ LinksHold
    => <>[]Serving

\* A stop always completes, in whatever state the monitor and the connections are.
StopTerminates == plugin = "stopping" ~> plugin = "stopped"

-----------------------------------------------------------------------------
(* Why it holds: the inductive invariant                                    *)

\* The loop variable is an element of m_connections while it is used.
LoopVariable ==
    mon \notin {"none", "starting", "check", "ended"} => next \in Conn

\* An endpoint belongs to a running thread whose owner asked for service, unless a
\* Disconnect is about to release it, and comes with a client unless creating that
\* failed.
Handles ==
    \A c \in Conn :
        /\ endpoint[c] # "null" =>
              \/ life[c] \in {"releasing", "cleaning", "closing"}
              \/ connect[c] /\ life[c] \notin {"created", "ended", "deleted"}
        /\ endpoint[c] \notin {"null", "idle"} => tase2client[c] = "live"
        /\ endpoint[c] = "idle" /\ Defined
              => conState[c] = "FATAL_ERROR" \/ life[c] = "closing"
        /\ sets[c] = "live" => life[c] \notin {"created", "ended", "deleted"}
                                /\ endpoint[c] # "null"
        /\ conState[c] = "IDLE" /\ Defined
              => endpoint[c] = "null" \/ life[c] \in {"cleaning", "closing"}
        /\ conState[c] \in {"CONNECTING", "CONNECTED"} /\ life[c] \in {"loop"} \cup Passes
              => endpoint[c] # "null"

\* What the thread found when it began its pass.
PassStates ==
    \A c \in Conn :
        /\ life[c] \in {"created", "cleaning", "closing"} => conState[c] = "IDLE"
        /\ life[c] \in {"installing", "expiring", "releasing"} => conState[c] = "CONNECTING"
        /\ life[c] = "settling" => conState[c] = "CONNECTED"
        /\ life[c] \in {"installing", "settling", "expiring"} => connect[c]
        /\ life[c] \in {"releasing", "cleaning", "closing"} => Disconnected(c)
        /\ life[c] = "closing" => mon = "cleaning" /\ next = c

\* Connection c works or will work for the owner's request.
Wants(c) == connect[c] /\ life[c] \notin {"releasing", "deleted"}

\* Which connections may want service, by where the monitor is.
Wanted ==
    /\ mon \in {"none", "starting", "try", "cleaning", "drop"}
          => \A c \in Conn : ~Wants(c)
    /\ mon \in {"setActive", "wait", "expired"}
          => \A c \in Conn : Wants(c) => c = next
    /\ mon \in {"check", "deleting", "joining", "ended"}
          => \A c \in Conn : Wants(c) => c = active /\ connected[c]

\* What m_active_connection is, by where the monitor is.
ActiveConnection ==
    /\ mon = "starting" => active = 0
    /\ mon \in {"wait", "expired", "cleaning", "drop"} => active = next
    /\ mon = "cleaning" => life[next] = "closing"
    /\ mon = "drop" => life[next] = "loop" /\ Disconnected(next)
    /\ mon = "try" /\ active # 0 => Disconnected(active)
    /\ mon = "setActive" /\ active \notin {0, next} => Disconnected(active)

\* How far starting and deleting the connections has come.
ThreadLives ==
    /\ plugin = "stopped" => mon \in {"none", "ended"}
    /\ mon \in {"none", "starting"} => \A c \in Conn : life[c] = "created"
    /\ mon \in {"deleting", "joining"} => \A c \in Conn : c < next => life[c] = "deleted"
    /\ mon = "ended" => \A c \in Conn : life[c] = "deleted"
    /\ started <=> plugin = "running"
    /\ mon \in {"deleting", "joining"} => plugin = "stopping"
    /\ mon = "ended" => plugin # "running"
    /\ mon \notin {"deleting", "joining", "ended"}
          => \A c \in Conn : life[c] # "deleted"

\* Together: the inductive invariant behind the properties above.
IInv ==
    /\ TypeOK
    /\ LoopVariable
    /\ Handles
    /\ PassStates
    /\ Wanted
    /\ ActiveConnection
    /\ ThreadLives

-----------------------------------------------------------------------------
(* The abstract redundancy group this implements                            *)

Searching == {"try", "setActive", "wait", "expired", "cleaning", "drop"}

Phase ==
    CASE mon = "starting" -> "idle"
      [] mon = "check" -> IF NeedsConnection THEN "idle" ELSE "serving"
      [] mon \in Searching -> "trying"
      [] mon \in {"deleting", "joining"} -> "closing"
      [] OTHER -> "off"

Selected ==
    CASE Phase = "trying" -> next
      [] Phase \in {"serving", "closing"} /\ ~NeedsConnection -> active
      [] OTHER -> 0

Associated == {c \in Conn : endpoint[c] = "connected"}

\* The servers given up by the timer of their connection.
GivenUp == {c \in Conn : Leaving(c)}

Group == INSTANCE Failover
            WITH phase <- Phase, selected <- Selected, assoc <- Associated,
                 leaving <- GivenUp

\* The monitor and the connections together implement the redundancy group: one
\* server at a time, in order, left only when lost, none after the shutdown.
ImplementsFailover == Group!Spec

=============================================================================
