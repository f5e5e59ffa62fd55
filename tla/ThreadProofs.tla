---------------------------- MODULE ThreadProofs ----------------------------
(* Proofs about one connection, statement by statement.                      *)
EXTENDS ConnectionThread, TLAPS

-----------------------------------------------------------------------------
(* Types                                                                    *)

Places == InPass \cup {"none", "top", "exit", "cleanup", "ended"}
Calls == {"new", "idle", "wait", "expired", "disconnect", "join", "deleted"}
ReleasePlaces == {"none", "connecting", "connected", "connect", "state",
                  "sets", "client", "endpoint", "nulls", "tls"}
ClientHandles == {"unset", "null", "live", "freed"}

Types ==
    /\ th \in Places /\ own \in Calls
    /\ at \in [Threads -> ReleasePlaces]
    /\ started \in BOOLEAN
    /\ connect \in BOOLEAN /\ connecting \in BOOLEAN /\ connected \in BOOLEAN
    /\ conState \in {"IDLE", "CONNECTING", "CONNECTED", "FATAL_ERROR"}
    /\ endpoint \in {"null", "idle", "opening", "connected", "closed", "freed"}
    /\ tase2client \in ClientHandles /\ before \in ClientHandles
    /\ sets \in {"none", "live", "destroyed"}
    /\ m_tlsConfig \in {"null", "live"}
    /\ reachable \in BOOLEAN
    /\ fault \in {"none", "useNull", "useFreed", "destroyTwice", "freeNullClient", "osiNull"}

-----------------------------------------------------------------------------
(* The TLS configuration                                                    *)

\* No call of the monitor meets the creation of an endpoint.
CreationUndisturbed == Overlaps \cap {"destroy", "create"} = {}

\* Who is in a clean-up.
CleaningUp ==
    /\ at["monitor"] # "none" => own = "disconnect"
    /\ at["thread"] # "none" => th \in {"timeout", "lost", "cleanup"}
    /\ own = "new" => th = "none"

\* A pass begins to create an endpoint only when nothing is left of the last one ...
NothingKept ==
    /\ th \in {"destroy", "create"} => own # "disconnect" /\ m_tlsConfig = "null"
    /\ /\ conState = "IDLE" /\ th \notin {"setOsi", "createEx", "mark", "fatal"}
       /\ (\A t \in Threads : at[t] = "none")
       => m_tlsConfig = "null"

\* ... for a clean-up leaves nothing ...
CleanedUp ==
    /\ th \in {"timeout", "lost", "cleanup"} /\ at["thread"] = "none" => m_tlsConfig = "null"
    /\ th = "ended" => m_tlsConfig = "null"

\* ... and destroys the configuration after the endpoint.
EndpointFirst ==
    \A t \in Threads : at[t] \in {"nulls", "tls"} => endpoint \in {"null", "freed"}

TlsInv ==
    /\ Types
    /\ CleaningUp
    /\ NothingKept
    /\ CleanedUp
    /\ EndpointFirst
    /\ TlsOutlivesEndpoint
    /\ leaked \subseteq {"rejected"}

-----------------------------------------------------------------------------
(* Calls between the passes                                                 *)

NoOverlap == Overlaps = {}

\* An endpoint that was opened, and one that got no client.
Open == endpoint \in {"opening", "connected", "closed"} /\ tase2client = "live"
Clientless == endpoint = "idle" /\ tase2client = "null"

\* Where the owner is decides where the thread may be.
Lives ==
    /\ own = "new" <=> th = "none"
    /\ started <=> own \in {"idle", "wait", "expired", "disconnect"}
    /\ th \in {"exit", "cleanup", "ended"} => own \in {"join", "deleted"}
    /\ own = "deleted" => th = "ended"
    /\ own = "disconnect" => th = "top"
    /\ at["monitor"] # "none" => own = "disconnect"
    /\ at["thread"] # "none" => th \in {"timeout", "lost", "cleanup"}
    /\ th \in InPass \ {"timeout"} => connect

\* What the flags and handles are where the thread is.
Between ==
    th \in {"none", "top", "switch", "exit"} /\ own # "disconnect" =>
        /\ conState = "IDLE" => endpoint = "null" /\ ~connecting
        /\ conState = "CONNECTING" => Open /\ connecting
        /\ conState = "CONNECTED" => Open /\ ~connecting /\ connected
        /\ conState = "FATAL_ERROR" => endpoint = "null" \/ Clientless \/ Open

Opening ==
    /\ th \in {"destroy", "create"} => conState = "IDLE" /\ endpoint = "null" /\ ~connecting
    /\ th \in {"create", "setOsi"} => before = tase2client
    /\ th \in {"setOsi", "createEx"} => conState = "IDLE" /\ endpoint = "idle" /\ ~connecting
    /\ th = "mark" => conState = "IDLE" /\ endpoint = "idle" /\ ~connecting /\ tase2client = "live"
    /\ th = "connectEx" => conState = "CONNECTING" /\ endpoint = "idle" /\ connecting /\ tase2client = "live"
    /\ th = "fatal" => \/ conState = "IDLE" /\ (endpoint = "null" \/ Clientless) /\ ~connecting
                       \/ conState = "CONNECTING" /\ Open /\ connecting

Serving ==
    /\ th \in {"poll", "install", "setState"} => conState = "CONNECTING" /\ Open /\ connecting
    /\ th = "resetConnecting" => conState = "CONNECTED" /\ Open /\ connecting
    /\ th = "setConnected" => conState = "CONNECTED" /\ Open /\ ~connecting
    /\ th = "inService" => conState = "CONNECTED" /\ Open /\ connected /\ ~connecting
    /\ th = "lost" => conState = "CONNECTED" /\ connected /\ ~connecting

\* Transfer sets live only while the association they were created on is in service.
SetsInService ==
    /\ conState # "CONNECTED" /\ th # "setState" /\ own # "disconnect" /\ th # "cleanup"
          => sets # "live"
    /\ \A t \in Threads :
          InRelease(t) /\ at[t] \in {"client", "endpoint", "nulls", "tls", "none"}
             => sets # "live"

\* An association that was up is not opened again, and does not come back once it is lost.
LostAssociation ==
    /\ conState = "CONNECTED" \/ th \in {"install", "setState"} => endpoint # "opening"
    /\ th = "lost" => endpoint # "connected"

\* An association is opened only with OSI parameters, and has sets only if there are any.
OsiThere ==
    th \in {"createEx", "mark", "connectEx"} => Osi \/ fault = "osiNull"
SetsThere == sets = "live" => TransferSets

\* What is left in a clean-up.
ReleaseHandles ==
    /\ tase2client = "freed" => \E t \in Threads : at[t] \in {"endpoint", "nulls"}
    /\ \A t \in Threads :
          /\ at[t] \in {"connecting", "connected", "connect", "state", "sets", "client"}
                => endpoint = "null" \/ Clientless \/ Open
          /\ at[t] = "endpoint"
                => endpoint \notin {"null", "freed"} /\ tase2client = "freed"
          /\ at[t] = "nulls" => endpoint = "freed" /\ tase2client = "freed"
          /\ at[t] = "tls" => endpoint = "null"
          /\ at[t] = "none" /\ InRelease(t) => endpoint = "null"

ReleaseFlags ==
    /\ th \in {"lost", "cleanup"}
          => at["thread"] \in {"sets", "client", "endpoint", "nulls", "tls", "none"}
    /\ th = "timeout" /\ at["thread"] \in {"connecting", "connected", "connect", "state"}
          => conState = "CONNECTING" /\ Open
    /\ th = "timeout" /\ at["thread"] = "connecting" => connecting
    /\ \A t \in Threads :
        (IF t = "monitor" THEN own = "disconnect" ELSE th = "timeout") =>
        /\ at[t] # "connecting" => ~connecting
        /\ at[t] \notin {"connecting", "connected"} => ~connected
        /\ at[t] \notin {"connecting", "connected", "connect", "state"} => conState = "IDLE"
    /\ own = "disconnect" /\ at["monitor"] \notin {"connecting", "connected", "connect"} => ~connect

PassInv ==
    /\ Types
    /\ Lives
    /\ Between
    /\ Opening
    /\ Serving
    /\ SetsInService
    /\ LostAssociation
    /\ OsiThere
    /\ SetsThere
    /\ ReleaseHandles
    /\ ReleaseFlags
    /\ th = "ended" => endpoint = "null"
    /\ NoStaleHandle

-----------------------------------------------------------------------------
(* Steps                                                                    *)

\* Where a clean-up goes on.
LEMMA AfterPlace ==
    ASSUME NEW p \in ReleasePlaces, p # "none"
    PROVE  /\ NextPlace[p] \in ReleasePlaces
           /\ p = "connecting" => NextPlace[p] = "connected"
           /\ p = "connected" => NextPlace[p] = "connect"
           /\ p = "connect" => NextPlace[p] = "state"
           /\ p = "state" => NextPlace[p] = "sets"
           /\ p = "sets" => NextPlace[p] = "client"
           /\ p = "client" => NextPlace[p] = IF endpoint = "null" THEN "tls" ELSE "endpoint"
           /\ p = "endpoint" => NextPlace[p] = "nulls"
           /\ p = "nulls" => NextPlace[p] = "tls"
           /\ p = "tls" => NextPlace[p] = "none"
  BY DEF ReleasePlaces, NextPlace

\* Every step keeps every variable in its type.
LEMMA TypesStep == Types /\ [Next]_vars => Types'
  <1> SUFFICES ASSUME Types, [Next]_vars
               PROVE  Types'
    OBVIOUS
  <1> USE DEF Types, Places, Calls, ClientHandles, InPass, Thread, Monitor, flags, handles, tls
  <1>1. ASSUME NEW t \in Threads, Release(t)
        PROVE  Types'
    <2>1. NextPlace[at[t]] \in ReleasePlaces
      BY <1>1, AfterPlace DEF Release
    <2>2. at' \in [Threads -> ReleasePlaces]
      BY <1>1, <2>1 DEF Release
    <2>3. QED
      BY <1>1, <2>2 DEF Release, ReleaseFault, UseFault
  <1>2. CASE Top \/ Switch \/ DestroyOld \/ RejectFiles \/ MarkFatal
    BY <1>2 DEF Top, Switch, DestroyOld, RejectFiles, MarkFatal
  <1>3. CASE CreateEndpoint \/ SetOsi \/ CreateClient \/ MarkConnecting
    BY <1>3 DEF CreateEndpoint, SetOsi, CreateClient, MarkConnecting, UseFault
  <1>4. ASSUME NEW error \in ErrorReads, ConnectEx(error)
        PROVE  Types'
    BY <1>4 DEF ConnectEx, UseFault
  <1>5. CASE PollEndpoint \/ CheckService \/ CleanUpAfterLoop
    BY <1>5 DEF PollEndpoint, CheckService, CleanUpAfterLoop, Begin, UseFault, Threads, ReleasePlaces
  <1>6. CASE Install \/ SetState \/ ResetConnecting \/ SetConnected \/ Released
    BY <1>6 DEF Install, SetState, ResetConnecting, SetConnected, Released, UseFault
  <1>7. CASE Start \/ Connect \/ Settle \/ Expire \/ Disconnected \/ Stop \/ Join
    BY <1>7 DEF Start, Connect, Settle, Expire, Disconnected, Stop, Join
  <1>8. CASE Disconnect
    BY <1>8 DEF Disconnect, Begin, Threads, ReleasePlaces
  <1>9. CASE LinkChanges \/ ServerChanges \/ UNCHANGED vars
    BY <1>9 DEF LinkChanges, ServerChanges, vars
  <1>10. QED
    BY <1>1, <1>2, <1>3, <1>4, <1>5, <1>6, <1>7, <1>8, <1>9
       DEF Next, ThreadNext, MonitorNext, Threads, Crashed

-----------------------------------------------------------------------------
(* The TLS configuration is released with its endpoint                      *)

\* A new connection has no TLS configuration.
LEMMA TlsInit == Init => TlsInv
  BY DEF Init, TlsInv, Types, Places, Calls, ReleasePlaces, ClientHandles, InPass, Threads,
         CleaningUp, NothingKept, CleanedUp, EndpointFirst, TlsOutlivesEndpoint

\* A statement of a clean-up, in either thread.
LEMMA TlsRelease ==
    ASSUME TlsInv, NEW t \in Threads, Release(t)
    PROVE  TlsInv'
  <1>1. Types'
    BY TypesStep DEF TlsInv, Next, ThreadNext, MonitorNext, Threads
  <1>2. at[t] \in ReleasePlaces /\ at[t] # "none" /\ at' = [at EXCEPT ![t] = NextPlace[at[t]]]
    BY DEF TlsInv, Types, Release
  <1>3. \A s \in Threads : s # t => at'[s] = at[s]
    BY <1>2 DEF TlsInv, Types
  <1>4. at'[t] = NextPlace[at[t]]
    BY <1>2 DEF TlsInv, Types
  <1>5. /\ at[t] = "connecting" => at'[t] = "connected"
        /\ at[t] = "connected" => at'[t] = "connect"
        /\ at[t] = "connect" => at'[t] = "state"
        /\ at[t] = "state" => at'[t] = "sets"
        /\ at[t] = "sets" => at'[t] = "client"
        /\ at[t] = "client" => at'[t] = IF endpoint = "null" THEN "tls" ELSE "endpoint"
        /\ at[t] = "endpoint" => at'[t] = "nulls"
        /\ at[t] = "nulls" => at'[t] = "tls"
        /\ at[t] = "tls" => at'[t] = "none"
    BY <1>2, <1>4, AfterPlace
  <1> USE <1>2, <1>3, <1>5 DEF TlsInv, Types, Release, CleaningUp, Threads
  <1>6. CleaningUp'
    OBVIOUS
  <1>7. NothingKept'
    BY DEF NothingKept, ReleasePlaces
  <1>8. CleanedUp'
    BY DEF CleanedUp, ReleasePlaces
  <1>9. EndpointFirst' /\ TlsOutlivesEndpoint'
    BY DEF EndpointFirst, TlsOutlivesEndpoint, ReleasePlaces
  <1>10. QED
    BY <1>1, <1>6, <1>7, <1>8, <1>9

\* The other steps of the thread.
LEMMA TlsThread ==
    ASSUME TlsInv, CreationUndisturbed, ThreadNext, ~Release("thread")
    PROVE  TlsInv'
  <1>1. Types'
    BY TypesStep DEF TlsInv, Next
  <1> USE <1>1, TlsAssumption
      DEF TlsInv, Types, CleaningUp, NothingKept, CleanedUp, EndpointFirst,
          TlsOutlivesEndpoint, Threads, Thread, flags, handles, tls, InPass
  <1>2. CASE Top \/ Switch
    BY <1>2 DEF Top, Switch, CreationUndisturbed
  <1>3. CASE DestroyOld \/ RejectFiles
    BY <1>3 DEF DestroyOld, RejectFiles
  <1>4. CASE CreateEndpoint
    BY <1>4 DEF CreateEndpoint
  <1>5. CASE SetOsi \/ CreateClient \/ MarkConnecting \/ MarkFatal
    BY <1>5 DEF SetOsi, CreateClient, MarkConnecting, MarkFatal
  <1>6. ASSUME NEW error \in ErrorReads, ConnectEx(error)
        PROVE  TlsInv'
    BY <1>6 DEF ConnectEx
  <1>7. CASE PollEndpoint \/ CheckService \/ CleanUpAfterLoop
    BY <1>7 DEF PollEndpoint, CheckService, CleanUpAfterLoop, Begin
  <1>8. CASE Install \/ SetState \/ ResetConnecting \/ SetConnected
    BY <1>8 DEF Install, SetState, ResetConnecting, SetConnected
  <1>9. CASE Released
    BY <1>9 DEF Released
  <1>10. QED
    BY <1>2, <1>3, <1>4, <1>5, <1>6, <1>7, <1>8, <1>9 DEF ThreadNext

\* The other steps of the monitor, and of the network.
LEMMA TlsOthers ==
    ASSUME TlsInv, CreationUndisturbed,
           \/ MonitorNext /\ ~Release("monitor")
           \/ Defined /\ (LinkChanges \/ ServerChanges)
           \/ UNCHANGED vars
    PROVE  TlsInv'
  <1>1. Types'
    BY TypesStep DEF TlsInv, Next, MonitorNext
  <1> USE <1>1 
      DEF TlsInv, Types, CleaningUp, NothingKept, CleanedUp, EndpointFirst,
          TlsOutlivesEndpoint, Threads, Monitor, flags, handles, tls
  <1>2. CASE Start \/ Stop
    BY <1>2 DEF Start, Stop
  <1>3. CASE Connect \/ Settle \/ Expire
    BY <1>3 DEF Connect, Settle, Expire
  <1>4. CASE Disconnect
    BY <1>4 DEF Disconnect, Begin, MayCall, CreationUndisturbed, InPass
  <1>5. CASE Disconnected \/ Join
    BY <1>5 DEF Disconnected, Join
  <1>6. CASE LinkChanges
    BY <1>6 DEF LinkChanges
  <1>7. CASE ServerChanges
    BY <1>7 DEF ServerChanges
  <1>8. CASE UNCHANGED vars
    BY <1>8 DEF vars
  <1>9. QED
    BY <1>2, <1>3, <1>4, <1>5, <1>6, <1>7, <1>8 DEF MonitorNext

\* Every step keeps the TLS configuration with its endpoint, whatever passes the calls of
\* the monitor meet, except the creation of an endpoint.
LEMMA TlsStep == CreationUndisturbed /\ TlsInv /\ [Next]_vars => TlsInv'
  BY TlsRelease, TlsThread, TlsOthers DEF Next, ThreadNext, MonitorNext, Threads, Crashed

\* As long as no call meets the creation of an endpoint, a clean-up leaves nothing of the
\* TLS configuration and a pass creates one only where none is left.
THEOREM TlsInvariance == CreationUndisturbed => (Spec => []TlsInv)
  <1>1. SUFFICES ASSUME CreationUndisturbed PROVE Spec => []TlsInv
    OBVIOUS
  <1>2. TlsInv /\ [Next]_vars => TlsInv'
    BY <1>1, TlsStep
  <1>3. QED
    BY <1>2, TlsInit, PTL DEF Spec

\* The TLS configuration given to Tase2_Endpoint_create is not destroyed before the
\* endpoint, in cleanUp or on any other way out of a pass.
THEOREM TlsLives == CreationUndisturbed => (Spec => []TlsOutlivesEndpoint)
  <1>1. TlsInv => TlsOutlivesEndpoint
    BY DEF TlsInv
  <1>2. QED
    BY <1>1, TlsInvariance, PTL

\* No TLS configuration is replaced without being destroyed, and none is left when the
\* thread has ended; only prepareConnection, rejecting a file, forgets one.
THEOREM TlsGoes == CreationUndisturbed => (Spec => []TlsReleased)
  <1>1. TlsInv => TlsReleased
    BY DEF TlsInv, TlsReleased, CleanedUp
  <1>2. QED
    BY <1>1, TlsInvariance, PTL

-----------------------------------------------------------------------------
(* Passes that no call meets use no handle that is gone                     *)

\* A new connection has no handles.
LEMMA PassInit == Init => PassInv
  BY DEF Init, PassInv, Types, Places, Calls, ReleasePlaces, ClientHandles, InPass, Threads,
         Lives, Between, Opening, Serving, SetsInService, LostAssociation, OsiThere,
         SetsThere, ReleaseHandles, ReleaseFlags, InRelease, NoStaleHandle

\* A statement of a clean-up, in either thread.
LEMMA PassRelease ==
    ASSUME PassInv, NEW t \in Threads, Release(t)
    PROVE  PassInv'
  <1>1. Types'
    BY TypesStep DEF PassInv, Next, ThreadNext, MonitorNext, Threads
  <1>2. at[t] \in ReleasePlaces /\ at[t] # "none" /\ at' = [at EXCEPT ![t] = NextPlace[at[t]]]
    BY DEF PassInv, Types, Release
  <1>3. \A s \in Threads : s # t => at[s] = "none" /\ at'[s] = "none"
    BY <1>2 DEF PassInv, Types, Threads, Lives
  <1>4. at'[t] = NextPlace[at[t]]
    BY <1>2 DEF PassInv, Types
  <1>5. /\ at[t] = "connecting" => at'[t] = "connected"
        /\ at[t] = "connected" => at'[t] = "connect"
        /\ at[t] = "connect" => at'[t] = "state"
        /\ at[t] = "state" => at'[t] = "sets"
        /\ at[t] = "sets" => at'[t] = "client"
        /\ at[t] = "client" => at'[t] = IF endpoint = "null" THEN "tls" ELSE "endpoint"
        /\ at[t] = "endpoint" => at'[t] = "nulls"
        /\ at[t] = "nulls" => at'[t] = "tls"
        /\ at[t] = "tls" => at'[t] = "none"
    BY <1>2, <1>4, AfterPlace
  <1>6. IF t = "monitor" THEN own = "disconnect" /\ th = "top"
                         ELSE own # "disconnect" /\ th \in {"timeout", "lost", "cleanup"}
    BY <1>2 DEF PassInv, Lives, Threads
  <1> USE <1>2, <1>3, <1>5, <1>6 DEF PassInv, Types, Release, Threads
  <1>7. Lives'
    BY DEF Lives, ReleaseFlags, InPass
  <1>8. Between' /\ Opening'
    BY DEF Between, Opening
  <1>9. Serving'
    BY DEF Serving, ReleaseFlags
  <1>10. ReleaseHandles'
    BY DEF ReleaseHandles, InRelease, Open, Clientless, ReleasePlaces
  <1>11. ReleaseFlags'
    <2>1. CASE t = "monitor"
      BY <2>1 DEF ReleaseFlags, ReleasePlaces
    <2>2. CASE t = "thread"
      BY <2>2 DEF ReleaseFlags, ReleasePlaces, Open
    <2>3. QED
      BY <2>1, <2>2
  <1>12. NoStaleHandle'
    BY DEF NoStaleHandle, ReleaseHandles, ReleaseFault, UseFault, Open, Clientless
  <1>13. SetsInService'
    BY DEF SetsInService, InRelease, ReleaseFlags, ReleasePlaces
  <1>14. LostAssociation' /\ OsiThere' /\ SetsThere'
    BY DEF LostAssociation, OsiThere, SetsThere
  <1>15. th' = "ended" => endpoint' = "null"
    OBVIOUS
  <1>16. QED
    BY <1>1, <1>7, <1>8, <1>9, <1>10, <1>11, <1>12, <1>13, <1>14, <1>15

\* The other steps of the thread.
LEMMA PassThread ==
    ASSUME PassInv, NoOverlap, ThreadNext, ~Release("thread")
    PROVE  PassInv'
  <1>1. Types'
    BY TypesStep DEF PassInv, Next
  <1> USE <1>1
      DEF PassInv, Types, Lives, Between, Opening, Serving, SetsInService,
          LostAssociation, OsiThere, SetsThere, ReleaseHandles, ReleaseFlags, InRelease, NoStaleHandle, Open, Clientless, UseFault, Threads, Thread, flags, handles, tls, InPass
  <1>2. CASE Top
    <2>1. th = "top" /\ own # "disconnect"
      <3>1. th = "top" /\ (own = "disconnect" => th' \in {})
        BY <1>2 DEF Top, NoOverlap
      <3>2. QED
        BY <3>1
    <2>2. CASE th' = "exit"
      <3>1. ~started
        BY <1>2, <2>2 DEF Top
      <3>2. own = "join"
        BY <2>1, <3>1 DEF Calls
      <3>3. UNCHANGED <<own, at, started, connect, connecting, connected, conState, endpoint,
                        tase2client, sets, before, fault>>
        BY <1>2 DEF Top
      <3>4. Lives' /\ Between'
        BY <2>1, <2>2, <3>2, <3>3
      <3>5. Opening' /\ Serving' /\ SetsInService' /\ LostAssociation' /\ OsiThere' /\ SetsThere'
        BY <2>1, <2>2, <3>2, <3>3
      <3>6. ReleaseHandles' /\ ReleaseFlags'
        BY <2>1, <2>2, <3>2, <3>3
      <3>7. QED
        BY <2>2, <3>3, <3>4, <3>5, <3>6
    <2>3. CASE th' = "switch"
      BY <1>2, <2>1, <2>3 DEF Top
    <2>4. QED
      BY <1>2, <2>2, <2>3 DEF Top
  <1>3. CASE Switch
    BY <1>3 DEF Switch, NoOverlap
  <1>4. CASE DestroyOld \/ RejectFiles
    BY <1>4 DEF DestroyOld, RejectFiles
  <1>5. CASE CreateEndpoint
    BY <1>5 DEF CreateEndpoint
  <1>6. CASE SetOsi \/ CreateClient \/ MarkConnecting
    <2>1. CASE SetOsi
      BY <2>1 DEF SetOsi
    <2>2. CASE CreateClient
      <3>1. th = "createEx" /\ fault = "none" /\ Osi /\ fault' = "none" /\ endpoint = "idle"
        BY <2>2 DEF CreateClient, Defined
      <3>2. /\ UNCHANGED <<own, at, started, connect, connecting, connected, conState, endpoint,
                           sets, before>>
            /\ \/ th' = "mark" /\ tase2client' = "live"
               \/ th' = "fatal" /\ tase2client' = "null"
        BY <2>2 DEF CreateClient
      <3>3. QED
        BY <3>1, <3>2
    <2>3. CASE MarkConnecting
      BY <2>3 DEF MarkConnecting
    <2>4. QED
      BY <1>6, <2>1, <2>2, <2>3
  <1>7. CASE MarkFatal
    BY <1>7 DEF MarkFatal
  <1>8. ASSUME NEW error \in ErrorReads, ConnectEx(error)
        PROVE  PassInv'
    BY <1>8 DEF ConnectEx
  <1>9. CASE PollEndpoint
    BY <1>9 DEF PollEndpoint, Begin
  <1>10. CASE CheckService
    BY <1>10 DEF CheckService, Begin
  <1>11. CASE CleanUpAfterLoop
    BY <1>11 DEF CleanUpAfterLoop, Begin
  <1>12. CASE Install \/ SetState \/ ResetConnecting \/ SetConnected
    BY <1>12 DEF Install, SetState, ResetConnecting, SetConnected
  <1>13. CASE Released
    BY <1>13 DEF Released
  <1>14. QED
    BY <1>2, <1>3, <1>4, <1>5, <1>6, <1>7, <1>8, <1>9, <1>10, <1>11, <1>12, <1>13 DEF ThreadNext

\* The other steps of the monitor, and of the network.
LEMMA PassOthers ==
    ASSUME PassInv, NoOverlap,
           \/ MonitorNext /\ ~Release("monitor")
           \/ Defined /\ (LinkChanges \/ ServerChanges)
           \/ UNCHANGED vars
    PROVE  PassInv'
  <1>1. Types'
    BY TypesStep DEF PassInv, Next, MonitorNext
  <1> USE <1>1
      DEF PassInv, Types, Lives, Between, Opening, Serving, SetsInService,
          LostAssociation, OsiThere, SetsThere, ReleaseHandles, ReleaseFlags, InRelease, NoStaleHandle, Open, Clientless, Threads, Monitor, flags, handles, tls, InPass
  <1>2. CASE Start
    BY <1>2 DEF Start
  <1>3. CASE Connect
    BY <1>3 DEF Connect, MayCall, NoOverlap
  <1>4. CASE Settle \/ Expire \/ Stop
    BY <1>4 DEF Settle, Expire, Stop
  <1>5. CASE Disconnected
    BY <1>5 DEF Disconnected
  <1>6. CASE Join
    BY <1>6 DEF Join
  <1>7. CASE Disconnect
    <2>1. th = "top" /\ own' = "disconnect"
      BY <1>7 DEF Disconnect, MayCall, NoOverlap, Places
    <2>2. at["thread"] = "none" /\ at'["thread"] = "none" /\ at'["monitor"] = "connecting"
      BY <1>7, <2>1 DEF Disconnect, Begin
    <2>3. QED
      BY <1>7, <2>1, <2>2 DEF Disconnect
  <1>8. CASE LinkChanges
    BY <1>8 DEF LinkChanges
  <1>9. CASE ServerChanges \/ UNCHANGED vars
    BY <1>9 DEF ServerChanges, vars
  <1>10. QED
    BY <1>2, <1>3, <1>4, <1>5, <1>6, <1>7, <1>8, <1>9 DEF MonitorNext

\* Every step keeps flags and handles as the place of the thread, and of a clean-up, says,
\* as long as no call runs into a pass.
LEMMA PassStep == NoOverlap /\ PassInv /\ [Next]_vars => PassInv'
  BY PassRelease, PassThread, PassOthers DEF Next, ThreadNext, MonitorNext, Threads, Crashed

\* Where the thread is, and how far a clean-up has come, decides what the flags and the
\* handles are, as long as no call runs into a pass.
THEOREM PassInvariance == NoOverlap => (Spec => []PassInv)
  <1>1. SUFFICES ASSUME NoOverlap PROVE Spec => []PassInv
    OBVIOUS
  <1>2. PassInv /\ [Next]_vars => PassInv'
    BY <1>1, PassStep
  <1>3. QED
    BY <1>2, PassInit, PTL DEF Spec

\* Passes that no call meets give the library no endpoint and no client that _conThread,
\* Disconnect or cleanUp has released, whatever creation fails and with or without OSI
\* parameters and transfer sets: the sets of m_dsts, destroyed twice, and the client that
\* was never created are the only handles gone wrong that cleanUp gives it.
THEOREM NoStaleHandles == NoOverlap => (Spec => []NoStaleHandle)
  <1>1. PassInv => NoStaleHandle
    BY DEF PassInv
  <1>2. QED
    BY <1>1, PassInvariance, PTL

=============================================================================
