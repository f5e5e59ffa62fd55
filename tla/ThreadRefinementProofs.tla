----------------------- MODULE ThreadRefinementProofs -----------------------
(* One connection, statement by statement, implements the steps of           *)
(* ClientConnection as long as no call of the monitor meets a pass.          *)
EXTENDS ThreadProofs

CoarseStep == [Coarse!ConnNext]_Coarse!groupVars

-----------------------------------------------------------------------------
(* Steps of ClientConnection, by what they do to the one connection         *)

\* A step that shows nothing of the connection is a stuttering step.
LEMMA Stutters ==
    ASSUME UNCHANGED <<Life, Requested, Connecting, Connected, ConState, Endpoint,
                       ClientHandle, Sets, reachable, fault>>
    PROVE  CoarseStep
  BY DEF CoarseStep, Coarse!groupVars, Coarse!connVars

\* The owner's calls: Start, Connect, the first half of Disconnect, Stop and the
\* destructor.
LEMMA Calling ==
    ASSUME fault = "none", reachable' = reachable, fault' = "none",
           UNCHANGED <<Endpoint, ClientHandle, Sets>>,
           \/ /\ UNCHANGED <<Connecting, Connected, ConState>>
              /\ \/ Life = "created" /\ Life' = "loop" /\ Requested' = Requested
                 \/ /\ Life \in {"loop", "expiring", "releasing", "cleaning"}
                    /\ Life' = Life /\ Requested' = TRUE
                 \/ Life = "loop" /\ Life' = "stopping" /\ Requested' = Requested
                 \/ Life \in {"created", "ended"} /\ Life' = "deleted" /\ Requested' = Requested
           \/ /\ Life = "loop" /\ Life' = "closing"
              /\ Requested' = FALSE /\ Connecting' = FALSE /\ Connected' = FALSE
              /\ ConState' = "IDLE"
    PROVE  CoarseStep
  <1>1. Coarse!Call(1)
    BY DEF Coarse!Call, Coarse!Start, Coarse!Connect, Coarse!Disconnect, Coarse!Stop,
           Coarse!Deleted, Coarse!Defined
  <1>2. QED
    BY <1>1 DEF CoarseStep, Coarse!ConnNext, Coarse!Conn

\* A clean-up: what it finds decides what goes wrong, and it leaves no endpoint, no client
\* and no living sets.
CleansUp ==
    /\ fault' = IF Sets = "destroyed" THEN "destroyTwice"
                ELSE IF Endpoint # "null" /\ ClientHandle # "live" THEN "freeNullClient"
                ELSE "none"
    /\ Sets' = IF Sets = "none" THEN "none" ELSE "destroyed"
    /\ Endpoint' = "null"
    /\ ClientHandle' = IF Endpoint = "null" THEN ClientHandle ELSE "null"

\* Where it ends: the Disconnect of the owner, that of the thread, a lost association,
\* the end of the thread.
LEMMA Frees ==
    ASSUME fault = "none", reachable' = reachable, CleansUp,
           UNCHANGED <<Requested, Connecting, Connected>>,
           \/ Life \in {"closing", "cleaning"} /\ Life' = "loop" /\ ConState' = ConState
           \/ /\ Life = "loop" /\ Life' = "loop" /\ Requested = TRUE /\ Endpoint # "connected"
              /\ ConState = "CONNECTED" /\ ConState' = "IDLE"
           \/ Life = "stopping" /\ Life' = "ended" /\ ConState' = ConState
    PROVE  CoarseStep
  <1>1. Coarse!cleanUp(1)
    BY DEF CleansUp, Coarse!cleanUp, Coarse!CleanUpFault
  <1>2. CASE Life = "closing"
    <2>1. Coarse!Call(1)
      BY <1>1, <1>2 DEF Coarse!Call, Coarse!EndDisconnect, Coarse!Defined
    <2>2. QED
      BY <2>1 DEF CoarseStep, Coarse!ConnNext, Coarse!Conn
  <1>3. CASE Life # "closing"
    <2>1. CASE Life = "cleaning"
      BY <1>1, <2>1 DEF Coarse!ReleaseEndpoint, Coarse!EndDisconnect, Coarse!Defined,
                        Coarse!ThreadStep, CoarseStep, Coarse!ConnNext, Coarse!Conn
    <2>2. CASE Life = "loop"
      <3>1. Coarse!ReopenAfterLoss(1)
        BY <1>1, <2>2 DEF Coarse!ReopenAfterLoss, Coarse!Passing, Coarse!Defined
      <3>2. QED
        BY <3>1 DEF Coarse!ThreadStep, CoarseStep, Coarse!ConnNext, Coarse!Conn
    <2>3. CASE Life = "stopping"
      <3>1. Coarse!ThreadExit(1)
        BY <1>1, <2>3 DEF Coarse!ThreadExit, Coarse!Defined
      <3>2. QED
        BY <3>1 DEF Coarse!ThreadStep, CoarseStep, Coarse!ConnNext, Coarse!Conn
    <2>4. QED
      BY <1>3, <2>1, <2>2, <2>3
  <1>4. QED
    BY <1>2, <1>3

\* The steps that prepare a connection: no endpoint, an endpoint without a client, the
\* OSI parameters that are not there, an association opened.
LEMMA Prepares ==
    ASSUME fault = "none", reachable' = reachable,
           Life = "loop", Life' = "loop", Requested = TRUE, Requested' = TRUE,
           ConState = "IDLE", Connected' = Connected, Sets' = Sets,
           \/ /\ fault' = "none" /\ ConState' = "FATAL_ERROR" /\ Connecting' = Connecting
              /\ \/ /\ "endpoint" \in Failures \/ Tls
                    /\ Endpoint' = "null" /\ ClientHandle' = ClientHandle
                 \/ /\ "client" \in Failures /\ Osi
                    /\ Endpoint' = "idle" /\ ClientHandle' = "null"
           \/ /\ fault' = "osiNull" /\ ~Osi /\ ConState' = "IDLE" /\ Connecting' = Connecting
              /\ Endpoint' = "idle" /\ ClientHandle' = ClientHandle
           \/ /\ fault' = "none" /\ Osi /\ Connecting' = TRUE
              /\ \E error \in ErrorReads :
                     ConState' = IF error = "ok" THEN "CONNECTING" ELSE "FATAL_ERROR"
              /\ Endpoint' = "opening" /\ ClientHandle' = "live"
    PROVE  CoarseStep
  <1> USE DEF Coarse!Passing, Coarse!Defined
  <1>1. CASE fault' = "none" /\ Endpoint' \in {"null", "idle"}
    <2>1. Coarse!PrepareFails(1)
      BY <1>1 DEF Coarse!PrepareFails
    <2>2. QED
      BY <2>1 DEF Coarse!ThreadStep, CoarseStep, Coarse!ConnNext, Coarse!Conn
  <1>2. CASE fault' = "osiNull"
    <2>1. Coarse!PrepareWithoutOsi(1)
      BY <1>2 DEF Coarse!PrepareWithoutOsi
    <2>2. QED
      BY <2>1 DEF Coarse!ThreadStep, CoarseStep, Coarse!ConnNext, Coarse!Conn
  <1>3. CASE Endpoint' = "opening"
    <2>1. PICK error \in ErrorReads :
                   ConState' = IF error = "ok" THEN "CONNECTING" ELSE "FATAL_ERROR"
      BY <1>3
    <2>2. Coarse!OpenAssociation(1, error)
      BY <1>3, <2>1 DEF Coarse!OpenAssociation
    <2>3. QED
      BY <2>2 DEF Coarse!ThreadStep, CoarseStep, Coarse!ConnNext, Coarse!Conn
  <1>4. QED
    BY <1>1, <1>2, <1>3

\* The other steps of the thread that the owner can tell apart: an association is there,
\* its handlers are installed, it is in service; the timer has expired, the flags and the
\* request are reset.
LEMMA Proceeds ==
    ASSUME fault = "none", reachable' = reachable, fault' = "none",
           UNCHANGED <<Endpoint, ClientHandle>>,
           \/ /\ Life = "loop" /\ Life' = "installing" /\ Requested = TRUE
              /\ ConState = "CONNECTING" /\ Endpoint = "connected"
              /\ UNCHANGED <<Requested, Connecting, Connected, ConState, Sets>>
           \/ /\ Life = "installing" /\ Life' = "settling"
              /\ \E granted \in {FALSE, TransferSets} :
                     Sets' = IF granted /\ Sets = "none" THEN "live" ELSE Sets
              /\ ConState' = "CONNECTED" /\ Connecting' = FALSE
              /\ UNCHANGED <<Requested, Connected>>
           \/ /\ Life = "settling" /\ Life' = "loop" /\ Connected' = TRUE
              /\ UNCHANGED <<Requested, Connecting, ConState, Sets>>
           \/ /\ Life = "loop" /\ Life' = "expiring" /\ Requested = TRUE
              /\ ConState = "CONNECTING" /\ Endpoint # "connected"
              /\ UNCHANGED <<Requested, Connecting, Connected, ConState, Sets>>
           \/ /\ Life = "expiring" /\ Life' = "releasing"
              /\ Connecting' = FALSE /\ Connected' = FALSE
              /\ UNCHANGED <<Requested, ConState, Sets>>
           \/ /\ Life = "releasing" /\ Life' = "cleaning"
              /\ Requested' = FALSE /\ ConState' = "IDLE"
              /\ UNCHANGED <<Connecting, Connected, Sets>>
    PROVE  CoarseStep
  <1> USE DEF Coarse!Passing, Coarse!Defined
  <1>1. Coarse!ThreadStep(1)
    <2>1. CASE Life' = "installing"
      BY <2>1 DEF Coarse!Associate, Coarse!ThreadStep
    <2>2. CASE Life' = "settling"
      BY <2>2 DEF Coarse!Install, Coarse!ThreadStep
    <2>3. CASE Life' = "loop"
      BY <2>3 DEF Coarse!Serve, Coarse!ThreadStep
    <2>4. CASE Life' = "expiring"
      BY <2>4 DEF Coarse!ConnectTimeout, Coarse!ThreadStep
    <2>5. CASE Life' = "releasing"
      BY <2>5 DEF Coarse!ResetFlags, Coarse!ThreadStep
    <2>6. CASE Life' = "cleaning"
      BY <2>6 DEF Coarse!ResetRequest, Coarse!ThreadStep
    <2>7. QED
      BY <2>1, <2>2, <2>3, <2>4, <2>5, <2>6
  <1>2. QED
    BY <1>1 DEF CoarseStep, Coarse!ConnNext, Coarse!Conn

\* An association comes up, is refused or breaks.
LEMMA LinkMoves ==
    ASSUME fault = "none", reachable' = reachable, fault' = "none",
           UNCHANGED <<Life, Requested, Connecting, Connected, ConState, ClientHandle, Sets>>,
           \/ Endpoint = "opening" /\ reachable /\ Endpoint' = "connected"
           \/ Endpoint = "opening" /\ ~reachable /\ Endpoint' = "closed"
           \/ Endpoint = "connected" /\ Endpoint' = "closed"
    PROVE  CoarseStep
  <1>1. Coarse!LinkUp(1) \/ Coarse!LinkDown(1)
    BY DEF Coarse!LinkUp, Coarse!LinkDown, Coarse!Defined
  <1>2. QED
    BY <1>1 DEF CoarseStep, Coarse!ConnNext, Coarse!Conn

\* A server starts or stops accepting associations.
LEMMA ServerMoves ==
    ASSUME fault = "none", fault' = "none", reachable \in BOOLEAN, reachable' = ~reachable,
           UNCHANGED <<Life, Requested, Connecting, Connected, ConState, Endpoint,
                       ClientHandle, Sets>>
    PROVE  CoarseStep
  <1>1. Coarse!ServerChanges(1)
    BY DEF Coarse!ServerChanges, Coarse!Defined, Coarse!connVars
  <1>2. QED
    BY <1>1 DEF CoarseStep, Coarse!ConnNext, Coarse!Conn

-----------------------------------------------------------------------------
(* What shows of the connection, by where the thread is                     *)

Flags(l, r, ci, cd, s) ==
    /\ Life = l /\ Requested = r /\ Connecting = ci /\ Connected = cd /\ ConState = s

\* The handles as they are, as they were before a clean-up, and after it.
Plain == Endpoint = endpoint /\ ClientHandle = tase2client /\ Sets = sets
Held(t) ==
    /\ Endpoint = endpoint
    /\ ClientHandle = IF tase2client = "freed" THEN "live" ELSE tase2client
    /\ Sets = IF sets = "destroyed" /\ at[t] \in {"client", "endpoint"} THEN "live" ELSE sets
Gone ==
    /\ Endpoint = "null"
    /\ ClientHandle = IF endpoint = "null" THEN tase2client ELSE "null"
    /\ Sets = sets

\* Outside the clean-ups.
ShownInPass ==
    /\ th \in {"top", "switch", "destroy", "poll", "inService"} /\ own # "disconnect"
          => Plain /\ Flags("loop", connect, connecting, connected, conState)
    /\ th \in {"none", "exit", "ended"}
          => /\ Plain
             /\ Flags(CASE th = "none" -> "created"
                        [] th = "exit" -> "stopping"
                        [] OTHER -> IF own = "deleted" THEN "deleted" ELSE "ended",
                      connect, connecting, connected, conState)
    /\ Preparing
          => /\ Endpoint = "null" /\ ClientHandle = before /\ Sets = sets
             /\ Flags("loop", TRUE, FALSE, connected, "IDLE")
    /\ ~Defined /\ th = "createEx"
          => Plain /\ Flags("loop", TRUE, connecting, connected, conState)
    /\ th = "fatal"
          => Plain /\ Flags("loop", TRUE, connecting, connected, "FATAL_ERROR")
    /\ Installing
          => /\ Endpoint = endpoint /\ ClientHandle = tase2client
             /\ Sets = IF sets = "live" THEN "none" ELSE sets
             /\ Flags("installing", TRUE, TRUE, connected, "CONNECTING")
    /\ th = "setConnected"
          => Plain /\ Flags("settling", TRUE, FALSE, connected, "CONNECTED")

\* Inside them.
ShownInRelease ==
    /\ own = "disconnect" /\ ~Over("monitor")
          => Held("monitor") /\ Flags("closing", FALSE, FALSE, FALSE, "IDLE")
    /\ own = "disconnect" /\ Over("monitor")
          => Gone /\ Flags("loop", FALSE, FALSE, FALSE, "IDLE")
    /\ Defined /\ Expiring
          => Held("thread") /\ Flags("expiring", connect, TRUE, connected, "CONNECTING")
    /\ Defined /\ Releasing
          => Held("thread") /\ Flags("releasing", connect, FALSE, FALSE, "CONNECTING")
    /\ Defined /\ Cleaning
          => Held("thread") /\ Flags("cleaning", connect, FALSE, FALSE, "IDLE")
    /\ /\ th = "timeout" /\ Over("thread")
       /\ at["thread"] \notin {"connecting", "connected", "connect", "state"}
       => Gone /\ Flags("loop", connect, FALSE, FALSE, "IDLE")
    /\ th = "lost" /\ ~Over("thread")
          => Held("thread") /\ Flags("loop", TRUE, FALSE, TRUE, "CONNECTED")
    /\ th = "lost" /\ Over("thread")
          => Gone /\ Flags("loop", TRUE, FALSE, TRUE, "IDLE")
    /\ th = "cleanup" /\ ~Over("thread")
          => Held("thread") /\ Flags("stopping", connect, connecting, connected, conState)
    /\ th = "cleanup" /\ Over("thread")
          => Gone /\ Flags("ended", connect, connecting, connected, conState)

Shown == ShownInPass /\ ShownInRelease

\* What shows follows from the place of the thread and of a clean-up.
LEMMA ShownNow == PassInv => Shown
  <1> SUFFICES ASSUME PassInv PROVE Shown
    OBVIOUS
  <1> USE DEF PassInv, Types, Lives, Threads, Places, InPass, Calls, InRelease, Over,
              CleanedUpBy, Cleaned, InCleanUp, Closing, Expiring, Releasing, Cleaning,
              Preparing, Installing, Defined
  <1>1. ShownInPass
    <2>1. Installing \/ th = "setConnected" \/ th = "fatal" => own # "disconnect" /\ connect
      OBVIOUS
    <2>2. (~Cleaned /\ ~InCleanUp) \/ InRelease("monitor") \/ InRelease("thread")
      OBVIOUS
    <2> USE <2>1, <2>2
        DEF ShownInPass, Plain, Flags, Life, Requested, Connecting, Connected, ConState,
            Endpoint, ClientHandle, Sets
    <2>3. CASE th \in {"top", "switch", "destroy", "poll", "inService"}
      BY <2>3 DEF Opening, Serving, SetsInService
    <2>4. CASE th \in {"none", "exit", "ended"}
      <3>1. CASE th = "none"
        BY <3>1
      <3>2. CASE th = "exit"
        BY <3>2
      <3>3. CASE th = "ended"
        BY <3>3
      <3>4. QED
        BY <2>4, <3>1, <3>2, <3>3
    <2>5. CASE th \in {"create", "setOsi", "createEx", "mark", "connectEx"}
      BY <2>5 DEF Opening, SetsInService
    <2>6. CASE th = "fatal"
      BY <2>6
    <2>7. CASE th \in {"install", "setState"}
      BY <2>7 DEF Serving, SetsInService
    <2>8. CASE th \in {"resetConnecting", "setConnected"}
      BY <2>8 DEF Serving
    <2>9. CASE th \in {"timeout", "lost", "cleanup"}
      BY <2>9
    <2>10. QED
      BY <2>3, <2>4, <2>5, <2>6, <2>7, <2>8, <2>9
  <1>2. ShownInRelease
    BY DEF ShownInRelease, Held, Gone, Flags, Life, Requested, Connecting, Connected, ConState,
           Endpoint, ClientHandle, Sets, Serving, SetsInService, ReleaseHandles, ReleaseFlags
  <1>3. QED
    BY <1>1, <1>2 DEF Shown

-----------------------------------------------------------------------------
(* The statements of a clean-up                                             *)

\* How a clean-up goes on, and where it is to be seen.
Proceeding(t) ==
    /\ Defined
    /\ at[t] \in ReleasePlaces \ {"none"}
    /\ at'[t] = NextPlace[at[t]]
    /\ UNCHANGED <<th, own, reachable, before>>
    /\ \A s \in Threads : s # t => at[s] = "none" /\ at'[s] = "none"
    /\ IF t = "monitor" THEN own = "disconnect" /\ th = "top"
                        ELSE own # "disconnect" /\ th \in {"timeout", "lost", "cleanup"}

LEMMA ReleaseProceeds ==
    ASSUME PassInv, NEW t \in Threads, Release(t)
    PROVE  Proceeding(t)
  <1>1. at[t] \in ReleasePlaces /\ at[t] # "none" /\ at' = [at EXCEPT ![t] = NextPlace[at[t]]]
        /\ UNCHANGED <<th, own, reachable, before>> /\ Defined
    BY DEF PassInv, Types, Release
  <1>2. /\ \A s \in Threads : s # t => at[s] = "none" /\ at'[s] = "none"
        /\ at'[t] = NextPlace[at[t]]
    BY <1>1 DEF PassInv, Types, Threads, Lives
  <1>3. QED
    BY <1>1, <1>2 DEF Proceeding, PassInv, Lives, Threads

\* Before the endpoint is gone a statement shows nothing of the handles ...
LEMMA HeldOn ==
    ASSUME PassInv, NEW t \in Threads, Release(t), ~Over(t), ~Over(t)',
           Held(t), Held(t)'
    PROVE  UNCHANGED <<Endpoint, ClientHandle, Sets>>
  <1>1. Proceeding(t)
    BY ReleaseProceeds
  <1>2. at[t] \in {"connecting", "connected", "connect", "state", "sets", "client"}
    BY <1>1, AfterPlace DEF Over, Proceeding, ReleasePlaces
  <1>3. at'[t] = NextPlace[at[t]] /\ Defined'
    BY <1>1 DEF Proceeding, Over
  <1>4. CASE at[t] \in {"connecting", "connected", "connect", "state"}
    BY <1>3, <1>4, AfterPlace DEF Release, Held, ReleasePlaces
  <1>5. CASE at[t] = "sets"
    <2>1. at'[t] = "client" /\ sets # "destroyed"
      BY <1>3, <1>5, AfterPlace DEF Release, ReleaseFault, Defined, ReleasePlaces
    <2>2. QED
      BY <1>5, <2>1 DEF Release, Held, PassInv, Types
  <1>6. CASE at[t] = "client"
    <2>1. endpoint # "null" /\ tase2client = "live" /\ at'[t] = "endpoint"
      <3>1. at'[t] = IF endpoint = "null" THEN "tls" ELSE "endpoint"
        BY <1>3, <1>6, AfterPlace DEF ReleasePlaces
      <3>2. endpoint # "null"
        BY <3>1 DEF Over
      <3>3. fault' = IF tase2client \in {"null", "unset"} THEN "freeNullClient"
                     ELSE UseFault(tase2client)
        BY <1>6, <3>2 DEF Release, ReleaseFault
      <3>4. QED
        BY <1>3, <3>1, <3>2, <3>3 DEF UseFault, Defined, PassInv, Types, ClientHandles
    <2>2. QED
      BY <1>6, <2>1 DEF Release, Held
  <1>7. QED
    BY <1>2, <1>4, <1>5, <1>6

\* ... the one that destroys it is the clean-up, and so is one that goes wrong before ...
LEMMA HeldGone ==
    ASSUME PassInv, NEW t \in Threads, Release(t), ~Over(t), Over(t)', Held(t), Gone'
    PROVE  CleansUp
  <1>1. Proceeding(t)
    BY ReleaseProceeds
  <1>2. InRelease(t)
    BY <1>1 DEF Proceeding, InRelease, Threads
  <1>3. CASE at[t] = "endpoint"
    <2>1. endpoint \notin {"null", "freed"} /\ tase2client = "freed" /\ sets # "live"
      BY <1>2, <1>3 DEF PassInv, ReleaseHandles, SetsInService
    <2>2. endpoint' = "freed" /\ tase2client' = "freed" /\ sets' = sets /\ fault' = "none"
      BY <1>3, <2>1 DEF Release, ReleaseFault, UseFault, PassInv, Types
    <2>3. QED
      BY <1>3, <2>1, <2>2 DEF CleansUp, Held, Gone, PassInv, Types
  <1>4. CASE at[t] = "client"
    <2>1. tase2client # "freed" /\ sets # "live"
      BY <1>1, <1>2, <1>4 DEF PassInv, ReleaseHandles, SetsInService, Proceeding, Threads
    <2>2. at'[t] = IF endpoint = "null" THEN "tls" ELSE "endpoint"
      BY <1>1, <1>4, AfterPlace DEF Proceeding, ReleasePlaces
    <2>3. CASE endpoint = "null"
      BY <1>4, <2>1, <2>3 DEF CleansUp, Held, Gone, Release, ReleaseFault, PassInv, Types
    <2>4. CASE endpoint # "null"
      <3>1. ~Defined'
        BY <2>2, <2>4 DEF Over
      <3>2. fault' = IF tase2client \in {"null", "unset"} THEN "freeNullClient"
                     ELSE UseFault(tase2client)
        BY <1>4, <2>4 DEF Release, ReleaseFault
      <3>3. tase2client \in {"null", "unset"} /\ fault' = "freeNullClient"
        BY <2>1, <3>1, <3>2 DEF Defined, UseFault, PassInv, Types, ClientHandles
      <3>4. endpoint' = endpoint /\ tase2client' = "freed" /\ sets' = sets
        BY <1>4, <2>4 DEF Release
      <3>5. QED
        BY <1>4, <2>1, <2>4, <3>3, <3>4 DEF CleansUp, Held, Gone, PassInv, Types
    <2>5. QED
      BY <2>3, <2>4
  <1>5. CASE at[t] \in {"connecting", "connected", "connect", "state", "sets"}
    <2>1. at'[t] \in {"connected", "connect", "state", "sets", "client"}
      BY <1>1, <1>5, AfterPlace DEF Proceeding, ReleasePlaces
    <2>2. ~Defined'
      BY <2>1 DEF Over
    <2>3. at[t] = "sets" /\ sets = "destroyed" /\ fault' = "destroyTwice"
      BY <1>5, <2>2 DEF Release, ReleaseFault, Defined
    <2>4. UNCHANGED <<endpoint, tase2client, sets>>
      BY <2>3 DEF Release
    <2>5. tase2client # "freed"
      BY <1>1, <2>3 DEF PassInv, ReleaseHandles, Proceeding, Threads
    <2>6. QED
      BY <2>3, <2>4, <2>5 DEF CleansUp, Held, Gone
  <1>6. QED
    BY <1>1, <1>3, <1>4, <1>5 DEF Proceeding, Over, ReleasePlaces

\* ... and nothing shows of what follows it.
LEMMA GoneOn ==
    ASSUME PassInv, NEW t \in Threads, Release(t), Over(t), Gone, Gone'
    PROVE  fault' = "none" /\ Over(t)' /\ UNCHANGED <<Endpoint, ClientHandle, Sets>>
  <1>1. Proceeding(t)
    BY ReleaseProceeds
  <1>2. CASE at[t] = "nulls"
    <2>1. endpoint = "freed" /\ at'[t] = "tls"
      BY <1>1, <1>2, AfterPlace DEF PassInv, ReleaseHandles, Proceeding, ReleasePlaces
    <2>2. QED
      BY <1>2, <2>1 DEF Release, ReleaseFault, Gone, Over, PassInv, Types
  <1>3. CASE at[t] = "tls"
    <2>1. at'[t] = "none"
      BY <1>1, <1>3, AfterPlace DEF Proceeding, ReleasePlaces
    <2>2. QED
      BY <1>3, <2>1 DEF Release, ReleaseFault, Gone, Over, PassInv, Types
  <1>4. QED
    BY <1>1, <1>2, <1>3 DEF Proceeding, Over

\* The flags of a clean-up of its own are reset by the thread while the owner may look.
LEMMA TimeoutRefines ==
    ASSUME PassInv, Release("thread"), th = "timeout", Shown, Shown',
           ~Over("thread"), ~Over("thread")'
    PROVE  CoarseStep
  <1>1. Proceeding("thread")
    BY ReleaseProceeds DEF Threads
  <1>2. /\ fault = "none" /\ fault' = "none" /\ th' = "timeout" /\ reachable' = reachable
        /\ at["thread"] \in ReleasePlaces /\ at'["thread"] = NextPlace[at["thread"]]
    BY <1>1 DEF Proceeding, Over, Defined
  <1>3. /\ connecting \in BOOLEAN /\ connected \in BOOLEAN /\ connect \in BOOLEAN
        /\ at["thread"] # "connecting" => ~connecting
        /\ at["thread"] \notin {"connecting", "connected"} => ~connected
    BY <1>2 DEF PassInv, Types, ReleaseFlags, Threads
  <1> USE <1>2, <1>3 DEF Defined, Shown, ShownInRelease, Flags
  <1>4. CASE at["thread"] = "connecting"
    <2>1. at'["thread"] = "connected" /\ UNCHANGED <<connect, connected, conState>>
      BY <1>4, AfterPlace DEF Release
    <2>2. Held("thread") /\ Held("thread")' /\ Flags("expiring", connect, TRUE, connected, "CONNECTING")
      BY <1>4, <2>1 DEF Expiring, Releasing
    <2>3. UNCHANGED <<Endpoint, ClientHandle, Sets>>
      BY <2>2, HeldOn DEF Threads
    <2>4. CASE connected
      <3>1. Flags("expiring", connect, TRUE, connected, "CONNECTING")'
        BY <2>1, <2>4 DEF Expiring
      <3>2. QED
        BY <2>1, <2>2, <2>3, <3>1, Stutters
    <2>5. CASE ~connected
      <3>1. Flags("releasing", connect, FALSE, FALSE, "CONNECTING")'
        BY <2>1, <2>5 DEF Expiring, Releasing
      <3>2. QED
        BY <2>1, <2>2, <2>3, <3>1, Proceeds
    <2>6. QED
      BY <2>4, <2>5
  <1>5. CASE at["thread"] = "connected"
    <2>1. at'["thread"] = "connect" /\ connect' = connect /\ connected' = FALSE
      BY <1>5, AfterPlace DEF Release
    <2>2. Held("thread") /\ Held("thread")' /\ Flags("releasing", connect, FALSE, FALSE, "CONNECTING")'
      BY <1>5, <2>1 DEF Expiring, Releasing
    <2>3. UNCHANGED <<Endpoint, ClientHandle, Sets>>
      BY <2>2, HeldOn DEF Threads
    <2>4. CASE connected
      <3>1. Flags("expiring", connect, TRUE, connected, "CONNECTING")
        BY <1>5, <2>4 DEF Expiring
      <3>2. QED
        BY <2>1, <2>2, <2>3, <3>1, Proceeds
    <2>5. CASE ~connected
      <3>1. Flags("releasing", connect, FALSE, FALSE, "CONNECTING")
        BY <1>5, <2>5 DEF Expiring, Releasing
      <3>2. QED
        BY <2>1, <2>2, <2>3, <3>1, Stutters
    <2>6. QED
      BY <2>4, <2>5
  <1>6. CASE at["thread"] = "connect"
    <2>1. at'["thread"] = "state" /\ connect' = FALSE
      BY <1>6, AfterPlace DEF Release
    <2>2. /\ Held("thread") /\ Flags("releasing", connect, FALSE, FALSE, "CONNECTING")
          /\ Held("thread")' /\ Flags("cleaning", connect, FALSE, FALSE, "IDLE")'
      BY <1>6, <2>1 DEF Expiring, Releasing, Cleaning
    <2>3. UNCHANGED <<Endpoint, ClientHandle, Sets>>
      BY <2>2, HeldOn DEF Threads
    <2>4. QED
      BY <2>1, <2>2, <2>3, Proceeds
  <1>7. CASE at["thread"] \in {"state", "sets", "client"}
    <2>1. at'["thread"] \in {"sets", "client", "endpoint", "tls"} /\ connect' = connect
      BY <1>7, AfterPlace DEF Release
    <2>2. /\ Held("thread") /\ Flags("cleaning", connect, FALSE, FALSE, "IDLE")
          /\ Held("thread")' /\ Flags("cleaning", connect, FALSE, FALSE, "IDLE")'
      BY <1>7, <2>1 DEF Expiring, Releasing, Cleaning
    <2>3. UNCHANGED <<Endpoint, ClientHandle, Sets>>
      BY <2>2, HeldOn DEF Threads
    <2>4. QED
      BY <2>1, <2>2, <2>3, Stutters
  <1>8. CASE at["thread"] = "endpoint"
    BY <1>8, AfterPlace DEF Over
  <1>9. QED
    BY <1>4, <1>5, <1>6, <1>7, <1>8 DEF Over, ReleasePlaces

\* A statement of a clean-up.
LEMMA ReleaseRefines ==
    ASSUME PassInv, NEW t \in Threads, Release(t), Shown, Shown'
    PROVE  CoarseStep
  <1>1. Proceeding(t)
    BY ReleaseProceeds
  <1>2. /\ fault = "none" /\ th' = th /\ own' = own /\ reachable' = reachable
        /\ at[t] \in ReleasePlaces \ {"none"} /\ at'[t] = NextPlace[at[t]]
    BY <1>1 DEF Proceeding, Defined
  <1>3. Over(t) => Over(t)'
    BY <1>2, AfterPlace DEF Over, ReleasePlaces, Defined
  <1>4. Over(t) => at[t] \in {"nulls", "tls"} /\ at'[t] \in {"tls", "none"}
    BY <1>2, AfterPlace DEF Over, ReleasePlaces, Defined
  <1>5. ~Over(t)' => fault' = "none"
    BY DEF Over, Defined
  <1> USE <1>2, <1>3, <1>5 DEF Shown, ShownInRelease
  <1>6. CASE t = "monitor"
    <2>1. own = "disconnect" /\ th = "top"
      BY <1>1, <1>6 DEF Proceeding
    <2>2. CASE ~Over(t)'
      <3>1. /\ Held(t) /\ Flags("closing", FALSE, FALSE, FALSE, "IDLE")
            /\ Held(t)' /\ Flags("closing", FALSE, FALSE, FALSE, "IDLE")'
        BY <1>6, <2>1, <2>2
      <3>2. QED
        BY <2>2, <3>1, HeldOn, Stutters DEF Flags
    <2>3. CASE ~Over(t) /\ Over(t)'
      <3>1. /\ Held(t) /\ Flags("closing", FALSE, FALSE, FALSE, "IDLE")
            /\ Gone' /\ Flags("loop", FALSE, FALSE, FALSE, "IDLE")'
        BY <1>6, <2>1, <2>3
      <3>2. QED
        BY <2>3, <3>1, HeldGone, Frees DEF Flags
    <2>4. CASE Over(t)
      <3>1. /\ Gone /\ Flags("loop", FALSE, FALSE, FALSE, "IDLE")
            /\ Gone' /\ Flags("loop", FALSE, FALSE, FALSE, "IDLE")'
        BY <1>6, <2>1, <2>4
      <3>2. QED
        BY <2>4, <3>1, GoneOn, Stutters DEF Flags
    <2>5. QED
      BY <2>2, <2>3, <2>4
  <1>7. CASE t = "thread" /\ th = "timeout"
    <2>1. CASE ~Over(t)'
      BY <1>7, <2>1, TimeoutRefines
    <2>2. CASE ~Over(t) /\ Over(t)'
      <3>1. at[t] \in {"sets", "client", "endpoint"}
        <4>1. at[t] \notin {"connecting", "connected", "connect", "state"}
          <5>1. SUFFICES ASSUME at[t] \in {"connecting", "connected", "connect", "state"}
                         PROVE  FALSE
            OBVIOUS
          <5>2. at'[t] \in {"connected", "connect", "state", "sets"} /\ fault' = "none"
            BY <5>1, AfterPlace DEF Release, ReleaseFault
          <5>3. QED
            BY <2>2, <5>2 DEF Over, Defined
        <4>2. QED
          BY <2>2, <4>1 DEF Over, ReleasePlaces
      <3>2. at'[t] \in {"client", "endpoint", "tls", "nulls"} /\ connect' = connect
        BY <3>1, AfterPlace DEF Release, ReleasePlaces, PassInv, Types
      <3>3. /\ Held(t) /\ Flags("cleaning", connect, FALSE, FALSE, "IDLE")
            /\ Gone' /\ Flags("loop", connect, FALSE, FALSE, "IDLE")'
        BY <1>7, <2>2, <3>1, <3>2 DEF Cleaning, Expiring, Releasing, Defined
      <3>4. QED
        BY <2>2, <3>2, <3>3, HeldGone, Frees DEF Flags
    <2>3. CASE Over(t)
      <3>1. connect' = connect
        BY <1>4, <2>3 DEF Release, PassInv, Types
      <3>2. /\ Gone /\ Flags("loop", connect, FALSE, FALSE, "IDLE")
            /\ Gone' /\ Flags("loop", connect, FALSE, FALSE, "IDLE")'
        BY <1>4, <1>7, <2>3
      <3>3. QED
        BY <2>3, <3>1, <3>2, GoneOn, Stutters DEF Flags
    <2>4. QED
      BY <2>1, <2>2, <2>3
  <1>8. CASE t = "thread" /\ th = "lost"
    <2>1. CASE ~Over(t)'
      <3>1. /\ Held(t) /\ Flags("loop", TRUE, FALSE, TRUE, "CONNECTED")
            /\ Held(t)' /\ Flags("loop", TRUE, FALSE, TRUE, "CONNECTED")'
        BY <1>8, <2>1
      <3>2. QED
        BY <2>1, <3>1, HeldOn, Stutters DEF Flags
    <2>2. CASE ~Over(t) /\ Over(t)'
      <3>1. /\ Held(t) /\ Flags("loop", TRUE, FALSE, TRUE, "CONNECTED")
            /\ Gone' /\ Flags("loop", TRUE, FALSE, TRUE, "IDLE")'
        BY <1>8, <2>2
      <3>2. endpoint # "connected"
        BY <1>8 DEF PassInv, LostAssociation
      <3>3. QED
        BY <2>2, <3>1, <3>2, HeldGone, Frees DEF Flags, Held
    <2>3. CASE Over(t)
      <3>1. /\ Gone /\ Flags("loop", TRUE, FALSE, TRUE, "IDLE")
            /\ Gone' /\ Flags("loop", TRUE, FALSE, TRUE, "IDLE")'
        BY <1>8, <2>3
      <3>2. QED
        BY <2>3, <3>1, GoneOn, Stutters DEF Flags
    <2>4. QED
      BY <2>1, <2>2, <2>3
  <1>9. CASE t = "thread" /\ th = "cleanup"
    <2>1. UNCHANGED <<connect, connecting, connected, conState>>
          /\ connect \in BOOLEAN /\ connecting \in BOOLEAN /\ connected \in BOOLEAN
      BY <1>9 DEF Release, PassInv, Types, ReleaseFlags, Threads
    <2>2. CASE ~Over(t)'
      <3>1. /\ Held(t) /\ Flags("stopping", connect, connecting, connected, conState)
            /\ Held(t)' /\ Flags("stopping", connect, connecting, connected, conState)'
        BY <1>9, <2>2
      <3>2. QED
        BY <2>1, <2>2, <3>1, HeldOn, Stutters DEF Flags
    <2>3. CASE ~Over(t) /\ Over(t)'
      <3>1. /\ Held(t) /\ Flags("stopping", connect, connecting, connected, conState)
            /\ Gone' /\ Flags("ended", connect, connecting, connected, conState)'
        BY <1>9, <2>3
      <3>2. QED
        BY <2>1, <2>3, <3>1, HeldGone, Frees DEF Flags
    <2>4. CASE Over(t)
      <3>1. /\ Gone /\ Flags("ended", connect, connecting, connected, conState)
            /\ Gone' /\ Flags("ended", connect, connecting, connected, conState)'
        BY <1>9, <2>4
      <3>2. QED
        BY <2>1, <2>4, <3>1, GoneOn, Stutters DEF Flags
    <2>5. QED
      BY <2>2, <2>3, <2>4
  <1>10. QED
    BY <1>1, <1>6, <1>7, <1>8, <1>9 DEF Proceeding, Threads

-----------------------------------------------------------------------------
(* The other statements of the thread                                       *)

\* Those that set up an association.
LEMMA PreparingRefines ==
    ASSUME PassInv, PassInv', Shown, Shown', reachable' = reachable,
           \/ DestroyOld \/ RejectFiles \/ CreateEndpoint \/ SetOsi \/ CreateClient
           \/ MarkConnecting \/ MarkFatal
           \/ \E error \in ErrorReads : ConnectEx(error)
    PROVE  CoarseStep
  <1>1. /\ th \in InPass \ {"timeout", "lost"} => own # "disconnect" /\ connect = TRUE
        /\ connect \in BOOLEAN /\ connecting \in BOOLEAN /\ connected \in BOOLEAN
    BY DEF PassInv, Types, Lives, InPass
  <1> USE <1>1 DEF Thread, Shown, ShownInPass, Plain, Flags, Preparing, Defined, InPass, flags,
                   handles, tls
  <1>2. CASE DestroyOld
    <2>1. th = "destroy" /\ ~connecting /\ conState = "IDLE" /\ endpoint = "null"
      BY <1>2 DEF DestroyOld, PassInv, Opening
    <2>2. th' = "create" /\ fault = "none" /\ fault' = "none" /\ before' = tase2client
          /\ UNCHANGED <<connect, connecting, connected, conState, tase2client, sets>>
      BY <1>2, <2>1 DEF DestroyOld
    <2>3. QED
      BY <2>1, <2>2, Stutters
  <1>3. CASE RejectFiles
    <2>1. th = "create" /\ ~connecting /\ endpoint = "null" /\ before = tase2client
      BY <1>3 DEF RejectFiles, PassInv, Opening
    <2>2. Tls /\ th' = "fatal" /\ fault = "none" /\ fault' = "none"
          /\ UNCHANGED <<connect, connecting, connected, endpoint, tase2client, sets>>
      BY <1>3 DEF RejectFiles
    <2>3. QED
      BY <2>1, <2>2, Prepares
  <1>4. CASE CreateEndpoint
    <2>1. th = "create" /\ ~connecting /\ before = tase2client
      BY <1>4 DEF CreateEndpoint, PassInv, Opening
    <2>2. fault = "none" /\ fault' = "none" /\ before' = before
          /\ UNCHANGED <<connect, connecting, connected, tase2client, sets>>
          /\ \/ th' = "setOsi"
             \/ th' = "fatal" /\ "endpoint" \in Failures /\ endpoint' = "null"
      BY <1>4 DEF CreateEndpoint
    <2>3. CASE th' = "setOsi"
      BY <2>1, <2>2, <2>3, Stutters
    <2>4. CASE th' = "fatal"
      BY <2>1, <2>2, <2>4, Prepares
    <2>5. QED
      BY <2>2, <2>3, <2>4
  <1>5. CASE SetOsi
    <2>1. /\ th = "setOsi" /\ ~connecting /\ before = tase2client /\ endpoint = "idle"
          /\ conState = "IDLE"
      BY <1>5 DEF SetOsi, PassInv, Opening
    <2>2. /\ th' = "createEx" /\ fault = "none" /\ before' = before
          /\ UNCHANGED <<connect, connecting, connected, conState, endpoint, tase2client, sets>>
          /\ fault' = IF Osi THEN "none" ELSE "osiNull"
      BY <1>5, <2>1 DEF SetOsi, UseFault
    <2>3. CASE Osi
      BY <2>1, <2>2, <2>3, Stutters
    <2>4. CASE ~Osi
      BY <2>1, <2>2, <2>4, Prepares
    <2>5. QED
      BY <2>3, <2>4
  <1>6. CASE CreateClient
    <2>1. /\ th = "createEx" /\ ~connecting /\ endpoint = "idle" /\ Osi
      BY <1>6 DEF CreateClient, PassInv, Opening, OsiThere
    <2>2. /\ fault = "none" /\ fault' = "none" /\ before' = before
          /\ UNCHANGED <<connect, connecting, connected, conState, endpoint, sets>>
          /\ \/ th' = "mark"
             \/ th' = "fatal" /\ "client" \in Failures /\ tase2client' = "null"
      BY <1>6, <2>1 DEF CreateClient, UseFault
    <2>3. CASE th' = "mark"
      <3>1. Preparing /\ Preparing'
        BY <2>1, <2>2, <2>3
      <3>2. QED
        BY <2>2, <3>1, Stutters
    <2>4. CASE th' = "fatal"
      BY <2>1, <2>2, <2>4, Prepares
    <2>5. QED
      BY <2>2, <2>3, <2>4
  <1>7. CASE MarkConnecting
    <2>1. /\ th = "mark" /\ th' = "connectEx" /\ fault = "none" /\ fault' = "none"
          /\ UNCHANGED <<connect, connected, sets, before>>
      BY <1>7 DEF MarkConnecting
    <2>2. QED
      BY <2>1, Stutters
  <1>8. CASE MarkFatal
    <2>1. /\ th = "fatal" /\ th' = "top" /\ fault = "none" /\ fault' = "none"
          /\ conState' = "FATAL_ERROR"
          /\ UNCHANGED <<own, connect, connecting, connected, endpoint, tase2client, sets>>
      BY <1>8 DEF MarkFatal
    <2>2. QED
      BY <2>1, Stutters
  <1>9. ASSUME NEW error \in ErrorReads, ConnectEx(error)
        PROVE  CoarseStep
    <2>1. /\ th = "connectEx" /\ connecting = TRUE /\ conState = "CONNECTING" /\ endpoint = "idle"
          /\ tase2client = "live" /\ Osi
      BY <1>9 DEF ConnectEx, PassInv, Opening, OsiThere
    <2>2. /\ fault = "none" /\ fault' = "none" /\ endpoint' = "opening"
          /\ th' = (IF error = "ok" THEN "top" ELSE "fatal")
          /\ UNCHANGED <<own, connect, connecting, connected, conState, tase2client, sets>>
      BY <1>9, <2>1 DEF ConnectEx, UseFault
    <2>3. /\ Life = "loop" /\ Life' = "loop" /\ Requested = TRUE /\ Requested' = TRUE
          /\ ConState = "IDLE" /\ ConState' = IF error = "ok" THEN "CONNECTING" ELSE "FATAL_ERROR"
          /\ Connecting' = TRUE
      BY <2>1, <2>2
    <2>4. /\ Connected' = Connected /\ Sets' = Sets
          /\ Endpoint' = "opening" /\ ClientHandle' = "live"
      BY <2>1, <2>2
    <2>5. QED
      BY <2>1, <2>2, <2>3, <2>4, Prepares
  <1>10. QED
    BY <1>2, <1>3, <1>4, <1>5, <1>6, <1>7, <1>8, <1>9

\* Those of an association that is there, and of one that is not.
LEMMA ServingRefines ==
    ASSUME PassInv, PassInv', Shown, Shown', reachable' = reachable,
           PollEndpoint \/ Install \/ SetState \/ ResetConnecting \/ SetConnected \/ CheckService
    PROVE  CoarseStep
  <1>1. /\ th \in InPass \ {"timeout", "lost"} => own # "disconnect" /\ connect = TRUE
        /\ connect \in BOOLEAN /\ connecting \in BOOLEAN /\ connected \in BOOLEAN
        /\ at["thread"] # "none" => th \in {"timeout", "lost", "cleanup"}
    BY DEF PassInv, Types, Lives, InPass
  <1> USE <1>1 DEF Thread, Shown, ShownInPass, ShownInRelease, Plain, Flags, Installing, Defined,
                   InPass, flags, handles, tls, Serving, UseFault, Open
  <1>2. CASE PollEndpoint
    <2>1. th = "poll" /\ connecting = TRUE /\ conState = "CONNECTING" /\ Open
      BY <1>2 DEF PollEndpoint, PassInv
    <2>2. /\ fault = "none" /\ fault' = "none"
          /\ UNCHANGED <<own, connect, connecting, connected, conState, endpoint, tase2client, sets>>
          /\ \/ th' = "install" /\ endpoint = "connected"
             \/ th' = "top"
             \/ th' = "timeout" /\ endpoint # "connected"
      BY <1>2, <2>1 DEF PollEndpoint
    <2>3. sets # "live"
      BY <2>1 DEF PassInv, SetsInService
    <2>4. CASE th' = "install"
      BY <2>1, <2>2, <2>3, <2>4, Proceeds
    <2>5. CASE th' = "top"
      BY <2>1, <2>2, <2>5, Stutters
    <2>6. CASE th' = "timeout"
      <3>1. at'["thread"] = "connecting"
        BY <1>2, <2>6 DEF PollEndpoint, Begin, Threads, PassInv, Types
      <3>2. Expiring'
        BY <2>6, <3>1 DEF Expiring
      <3>3. /\ Held("thread")' /\ Flags("expiring", connect, TRUE, connected, "CONNECTING")'
        BY <2>2, <3>2
      <3>4. UNCHANGED <<Endpoint, ClientHandle, Sets>>
        BY <2>1, <2>2, <3>1, <3>3 DEF Held
      <3>5. QED
        BY <2>1, <2>2, <2>6, <3>3, <3>4, Proceeds
    <2>7. QED
      BY <2>2, <2>4, <2>5, <2>6
  <1>3. CASE Install \/ SetState
    <2>1. /\ Installing /\ Installing' /\ fault = "none" /\ fault' = "none"
          /\ UNCHANGED <<connected, endpoint, tase2client>>
          /\ Sets' = Sets
      <3>1. th \in {"install", "setState"} /\ Open
        BY <1>3 DEF Install, SetState, PassInv
      <3>2. Installing /\ Installing' /\ fault = "none" /\ fault' = "none"
            /\ UNCHANGED <<connected, endpoint, tase2client>>
        BY <1>3, <3>1 DEF Install, SetState
      <3>3. th = "install" => sets # "live"
        BY <3>1 DEF PassInv, SetsInService
      <3>4. Sets' = Sets
        BY <1>3, <3>2, <3>3 DEF Install, SetState, PassInv, Types
      <3>5. QED
        BY <3>2, <3>4
    <2>2. QED
      BY <2>1, Stutters
  <1>4. CASE ResetConnecting
    <2>1. /\ Installing /\ th' = "setConnected" /\ fault = "none" /\ fault' = "none"
          /\ UNCHANGED <<connected, endpoint, tase2client, sets>>
      BY <1>4 DEF ResetConnecting
    <2>2. sets = "live" => TransferSets = TRUE
      BY ThreadTransferSetsAssumption DEF PassInv, SetsThere
    <2>3. \E granted \in {FALSE, TransferSets} :
              Sets' = IF granted /\ Sets = "none" THEN "live" ELSE Sets
      <3>1. Sets' = sets /\ Sets = IF sets = "live" THEN "none" ELSE sets
        BY <2>1
      <3>2. CASE sets = "live"
        BY <2>2, <3>1, <3>2
      <3>3. CASE sets # "live"
        BY <3>1, <3>3
      <3>4. QED
        BY <3>2, <3>3
    <2>4. QED
      BY <2>1, <2>3, Proceeds
  <1>5. CASE SetConnected
    <2>1. /\ th = "setConnected" /\ th' = "top" /\ conState = "CONNECTED" /\ connecting = FALSE
          /\ fault = "none" /\ fault' = "none" /\ connected' = TRUE
          /\ UNCHANGED <<own, connect, connecting, conState, endpoint, tase2client, sets>>
      BY <1>5 DEF SetConnected, PassInv
    <2>2. QED
      BY <2>1, Proceeds
  <1>6. CASE CheckService
    <2>1. /\ th = "inService" /\ connecting = FALSE /\ connected = TRUE /\ conState = "CONNECTED"
          /\ Open
      BY <1>6 DEF CheckService, PassInv
    <2>2. /\ fault = "none" /\ fault' = "none"
          /\ UNCHANGED <<own, connect, connecting, connected, conState, endpoint, tase2client, sets>>
          /\ th' \in {"top", "lost"}
      BY <1>6, <2>1 DEF CheckService
    <2>3. CASE th' = "top"
      BY <2>1, <2>2, <2>3, Stutters
    <2>4. CASE th' = "lost"
      <3>1. at'["thread"] = "sets"
        BY <1>6, <2>4 DEF CheckService, Begin, Threads, PassInv, Types
      <3>2. Held("thread")' /\ Flags("loop", TRUE, FALSE, TRUE, "CONNECTED")'
        BY <2>2, <2>4, <3>1 DEF Over
      <3>3. UNCHANGED <<Endpoint, ClientHandle, Sets>>
        BY <2>1, <2>2, <3>1, <3>2 DEF Held
      <3>4. QED
        BY <2>1, <2>2, <3>2, <3>3, Stutters
    <2>5. QED
      BY <2>2, <2>3, <2>4
  <1>7. QED
    BY <1>2, <1>3, <1>4, <1>5, <1>6

\* Those between the passes.
LEMMA LoopRefines ==
    ASSUME PassInv, PassInv', Shown, Shown', NoOverlap, reachable' = reachable,
           Top \/ Switch \/ Released \/ CleanUpAfterLoop
    PROVE  CoarseStep
  <1>1. /\ connect \in BOOLEAN /\ connecting \in BOOLEAN /\ connected \in BOOLEAN
        /\ th # "top" => own # "disconnect"
        /\ own = "deleted" => th = "ended"
    BY DEF PassInv, Types, Lives
  <1> USE <1>1 DEF Thread, Shown, ShownInPass, ShownInRelease, Plain, Flags, Defined,
                   flags, handles, tls
  <1>2. CASE Top
    <2>1. th = "top" /\ th' \in {"exit", "switch"} /\ own # "disconnect"
          /\ fault = "none" /\ fault' = "none"
          /\ UNCHANGED <<own, connect, connecting, connected, conState, endpoint, tase2client, sets>>
      BY <1>2 DEF Top, NoOverlap
    <2>2. CASE th' = "exit"
      BY <2>1, <2>2, Calling
    <2>3. CASE th' = "switch"
      BY <2>1, <2>3, Stutters
    <2>4. QED
      BY <2>1, <2>2, <2>3
  <1>3. CASE Switch
    <2>1. /\ th = "switch" /\ th' \in {"destroy", "poll", "inService", "top"}
          /\ own # "disconnect" /\ fault = "none" /\ fault' = "none"
          /\ UNCHANGED <<own, connect, connecting, connected, conState, endpoint, tase2client, sets>>
      BY <1>3 DEF Switch
    <2>2. QED
      BY <2>1, Stutters
  <1>4. CASE Released
    <2>1. /\ at["thread"] = "none" /\ at'["thread"] = "none" /\ fault = "none" /\ fault' = "none"
          /\ UNCHANGED <<own, connect, connecting, connected, endpoint, tase2client, sets>>
          /\ \/ th = "timeout" /\ th' = "top" /\ conState' = conState
             \/ th = "lost" /\ th' = "top" /\ conState' = "IDLE"
             \/ th = "cleanup" /\ th' = "ended" /\ conState' = conState
      BY <1>4 DEF Released
    <2>2. Over("thread") /\ endpoint = "null" /\ own # "disconnect"
      BY <2>1 DEF Over, PassInv, ReleaseHandles, InRelease, Threads
    <2>3. CASE th = "timeout"
      <3>1. conState = "IDLE" /\ connecting = FALSE /\ connected = FALSE
        BY <2>1, <2>3 DEF PassInv, ReleaseFlags, Threads
      <3>2. Gone /\ Flags("loop", connect, FALSE, FALSE, "IDLE")
        BY <2>1, <2>2, <2>3
      <3>3. QED
        BY <2>1, <2>2, <2>3, <3>1, <3>2, Stutters DEF Gone
    <2>4. CASE th = "lost"
      <3>1. connecting = FALSE /\ connected = TRUE /\ connect = TRUE
        BY <2>4 DEF PassInv, Serving, Lives, InPass
      <3>2. Gone /\ Flags("loop", TRUE, FALSE, TRUE, "IDLE")
        BY <2>1, <2>2, <2>4
      <3>3. QED
        BY <2>1, <2>2, <2>4, <3>1, <3>2, Stutters DEF Gone
    <2>5. CASE th = "cleanup"
      <3>1. Gone /\ Flags("ended", connect, connecting, connected, conState)
        BY <2>1, <2>2, <2>5
      <3>2. QED
        BY <2>1, <2>2, <2>5, <3>1, Stutters DEF Gone
    <2>6. QED
      BY <2>1, <2>3, <2>4, <2>5
  <1>5. CASE CleanUpAfterLoop
    <2>1. /\ th = "exit" /\ th' = "cleanup" /\ fault = "none" /\ fault' = "none"
          /\ UNCHANGED <<own, connect, connecting, connected, conState, endpoint, tase2client, sets>>
          /\ at'["thread"] = "sets"
      BY <1>5 DEF CleanUpAfterLoop, Begin, Threads, PassInv, Types
    <2>2. Held("thread")' /\ Flags("stopping", connect, connecting, connected, conState)'
      BY <2>1 DEF Over
    <2>3. tase2client # "freed"
      BY <2>1 DEF PassInv, ReleaseHandles, Lives, Threads
    <2>4. QED
      BY <2>1, <2>2, <2>3, Stutters DEF Held
  <1>6. QED
    BY <1>2, <1>3, <1>4, <1>5

-----------------------------------------------------------------------------
(* The monitor, and everything else                                         *)

\* The other steps of the monitor.
LEMMA MonitorRefines ==
    ASSUME PassInv, PassInv', Shown, Shown', NoOverlap, MonitorNext, ~Release("monitor")
    PROVE  CoarseStep
  <1>1. /\ connect \in BOOLEAN /\ connecting \in BOOLEAN /\ connected \in BOOLEAN
        /\ th # "top" => own # "disconnect"
        /\ own = "deleted" => th = "ended"
        /\ reachable' = reachable /\ fault = "none" /\ fault' = "none"
    BY DEF PassInv, Types, Lives, MonitorNext, Start, Connect, Settle, Expire, Disconnect,
           Disconnected, Stop, Join, Monitor, Defined
  <1> USE <1>1 DEF Monitor, flags, handles, tls
  <1>2. CASE Start
    <2>1. /\ th = "none" /\ th' = "top" /\ own' = "idle"
          /\ UNCHANGED <<connect, connecting, connected, conState, endpoint, tase2client, sets>>
      BY <1>2 DEF Start, PassInv, Lives
    <2>2. QED
      BY <2>1, Calling DEF Shown, ShownInPass, Plain, Flags
  <1>3. CASE Connect
    <2>1. /\ own = "idle" /\ own' = "wait" /\ connect' = TRUE
          /\ UNCHANGED <<th, at, connecting, connected, conState, endpoint, tase2client, sets, before>>
      BY <1>3 DEF Connect
    <2>2. th \in {"top", "timeout"}
      BY <1>3, <2>1 DEF Connect, MayCall, NoOverlap, PassInv, Types, Lives, Places
    <2>3. /\ Life' = Life /\ ConState' = ConState /\ Endpoint' = Endpoint
          /\ ClientHandle' = ClientHandle /\ Sets' = Sets
          /\ (Connecting' <=> Connecting) /\ (Connected' <=> Connected)
      BY <2>1, <2>2 DEF Life, Connecting, Connected, ConState, Endpoint, ClientHandle, Sets,
             Preparing, Installing, InRelease, Over, CleanedUpBy, Cleaned, InCleanUp, Closing,
             Expiring, Releasing, Cleaning, Defined
    <2>4. Connecting' = Connecting /\ Connected' = Connected /\ Requested' = TRUE
      BY <2>1, <2>3 DEF Connecting, Connected, Requested
    <2>5. Life \in {"loop", "expiring", "releasing", "cleaning"}
      BY <2>1, <2>2 DEF Life, PassInv, Lives, Installing, Closing, InRelease, Threads
    <2>6. QED
      BY <2>3, <2>4, <2>5, Calling
  <1>4. CASE Settle \/ Expire \/ Stop
    <2>1. /\ own \in {"wait", "idle"} /\ own' \in {"idle", "expired", "join"}
          /\ UNCHANGED <<th, at, connect, connecting, connected, conState, endpoint, tase2client, sets, before>>
      BY <1>4 DEF Settle, Expire, Stop
    <2>2. /\ Life' = Life /\ ConState' = ConState /\ Endpoint' = Endpoint
          /\ ClientHandle' = ClientHandle /\ Sets' = Sets
      BY <2>1 DEF Life, ConState, Endpoint, ClientHandle, Sets,
             Preparing, Installing, InRelease, Over, CleanedUpBy, Cleaned, InCleanUp, Closing,
             Expiring, Releasing, Cleaning, Defined
    <2>3. (Requested' <=> Requested) /\ (Connecting' <=> Connecting) /\ (Connected' <=> Connected)
      BY <2>1 DEF Requested, Connecting, Connected, Expiring, Preparing, Defined
    <2>4. Requested' = Requested /\ Connecting' = Connecting /\ Connected' = Connected
      BY <2>3 DEF Requested, Connecting, Connected
    <2>5. QED
      BY <2>2, <2>4, Stutters
  <1>5. CASE Disconnected
    <2>1. /\ own = "disconnect" /\ own' = "idle" /\ at["monitor"] = "none" 
          /\ th = "top" /\ th' = "top" /\ at' = at
          /\ UNCHANGED <<connect, connecting, connected, conState, endpoint, tase2client, sets>>
      BY <1>5 DEF Disconnected, PassInv, Lives
    <2>2. /\ endpoint = "null" /\ connect = FALSE /\ connecting = FALSE /\ connected = FALSE
          /\ conState = "IDLE"
      BY <2>1 DEF PassInv, ReleaseHandles, ReleaseFlags, InRelease, Threads
    <2>3. Gone /\ Flags("loop", FALSE, FALSE, FALSE, "IDLE")
      BY <2>1 DEF Shown, ShownInRelease, Over
    <2>4. Plain' /\ Flags("loop", FALSE, FALSE, FALSE, "IDLE")'
      BY <2>1, <2>2 DEF Shown, ShownInPass, Flags
    <2>5. QED
      BY <2>1, <2>2, <2>3, <2>4, Stutters DEF Gone, Plain, Flags
  <1>6. CASE Join
    <2>1. /\ own = "join" /\ own' = "deleted" /\ th = "ended" /\ th' = "ended"
          /\ UNCHANGED <<connect, connecting, connected, conState, endpoint, tase2client, sets>>
      BY <1>6 DEF Join
    <2>2. QED
      BY <2>1, Calling DEF Shown, ShownInPass, Plain, Flags
  <1>7. CASE Disconnect
    <2>1. /\ own = "expired" /\ own' = "disconnect" /\ th = "top" /\ th' = "top"
          /\ UNCHANGED <<connect, connecting, connected, conState, endpoint, tase2client, sets>>
      BY <1>7 DEF Disconnect, MayCall, NoOverlap, PassInv, Types, Lives, Places
    <2>2. at'["monitor"] = "connecting"
      BY <1>7 DEF Disconnect, Begin, Threads, PassInv, Types
    <2>3. Plain /\ Flags("loop", connect, connecting, connected, conState)
      BY <2>1 DEF Shown, ShownInPass
    <2>4. Held("monitor")' /\ Flags("closing", FALSE, FALSE, FALSE, "IDLE")'
      BY <2>1, <2>2 DEF Shown, ShownInRelease, Over, Defined
    <2>5. tase2client # "freed"
      BY <2>1 DEF PassInv, ReleaseHandles, Lives, Threads
    <2>6. UNCHANGED <<Endpoint, ClientHandle, Sets>>
      BY <2>1, <2>2, <2>3, <2>4, <2>5 DEF Plain, Held
    <2>7. QED
      BY <2>3, <2>4, <2>6, Calling DEF Flags
  <1>8. QED
    BY <1>2, <1>3, <1>4, <1>5, <1>6, <1>7 DEF MonitorNext

\* The library, the network, and no step at all.
LEMMA OthersRefine ==
    ASSUME PassInv, PassInv',
           \/ Defined /\ (LinkChanges \/ ServerChanges)
           \/ UNCHANGED vars
    PROVE  CoarseStep
  <1>1. /\ reachable \in BOOLEAN
        /\ UNCHANGED <<th, own, at, connect, connecting, connected, conState, tase2client, sets,
                       before, fault>>
    BY DEF PassInv, Types, LinkChanges, ServerChanges, vars, flags, handles
  <1> USE DEF Preparing, Installing, InRelease, Over, CleanedUpBy, Cleaned, InCleanUp, Closing,
              Expiring, Releasing, Cleaning, Defined
  <1>2. Life' = Life /\ ConState' = ConState /\ Sets' = Sets
    BY <1>1 DEF Life, ConState, Sets
  <1>3. (Requested' <=> Requested) /\ (Connecting' <=> Connecting) /\ (Connected' <=> Connected)
    BY <1>1 DEF Requested, Connecting, Connected
  <1>4. Requested' = Requested /\ Connecting' = Connecting /\ Connected' = Connected
    BY <1>3 DEF Requested, Connecting, Connected
  <1>5. CASE Defined /\ LinkChanges
    <2>1. /\ reachable' = reachable /\ endpoint # "null" /\ endpoint' # "null" /\ fault = "none"
          /\ \/ endpoint = "opening" /\ reachable /\ endpoint' = "connected"
             \/ endpoint = "opening" /\ ~reachable /\ endpoint' = "closed"
             \/ endpoint = "connected" /\ endpoint' = "closed"
      BY <1>5 DEF LinkChanges
    <2>2. ClientHandle' = ClientHandle
      BY <1>1, <2>1 DEF ClientHandle
    <2>3. CASE Cleaned \/ Preparing
      <3>1. Endpoint' = Endpoint
        BY <1>1, <2>3 DEF Endpoint
      <3>2. QED
        BY <1>1, <1>2, <1>4, <2>1, <2>2, <3>1, Stutters
    <2>4. CASE ~(Cleaned \/ Preparing)
      <3>1. Endpoint = endpoint /\ Endpoint' = endpoint'
        BY <1>1, <2>4 DEF Endpoint
      <3>2. QED
        BY <1>1, <1>2, <1>4, <2>1, <2>2, <3>1, LinkMoves
    <2>5. QED
      BY <2>3, <2>4
  <1>6. CASE Defined /\ ServerChanges
    <2>1. reachable' = ~reachable /\ endpoint' = endpoint /\ fault = "none"
      BY <1>6 DEF ServerChanges, handles
    <2>2. Endpoint' = Endpoint /\ ClientHandle' = ClientHandle
      BY <1>1, <2>1 DEF Endpoint, ClientHandle
    <2>3. QED
      BY <1>1, <1>2, <1>4, <2>1, <2>2, ServerMoves
  <1>7. CASE UNCHANGED vars
    <2>1. reachable' = reachable /\ endpoint' = endpoint
      BY <1>7 DEF vars, handles
    <2>2. Endpoint' = Endpoint /\ ClientHandle' = ClientHandle
      BY <1>1, <2>1 DEF Endpoint, ClientHandle
    <2>3. QED
      BY <1>1, <1>2, <1>4, <2>1, <2>2, Stutters
  <1>8. QED
    BY <1>5, <1>6, <1>7

\* Every statement is a step of ClientConnection or a stutter.
LEMMA StepRefines ==
    NoOverlap /\ PassInv /\ PassInv' /\ Shown /\ Shown' /\ [Next]_vars
        => [Coarse!ConnNext]_Coarse!groupVars
  <1> SUFFICES ASSUME NoOverlap, PassInv, PassInv', Shown, Shown', [Next]_vars
               PROVE  CoarseStep
    BY DEF CoarseStep
  <1>1. CASE ThreadNext /\ ~Release("thread")
    <2>1. reachable' = reachable
      BY <1>1 DEF ThreadNext, Top, Switch, DestroyOld, RejectFiles, CreateEndpoint, SetOsi,
             CreateClient, MarkConnecting, ConnectEx, MarkFatal, PollEndpoint, Install, SetState,
             ResetConnecting, SetConnected, CheckService, Released, CleanUpAfterLoop, Thread
    <2>2. QED
      BY <1>1, <2>1, PreparingRefines, ServingRefines, LoopRefines DEF ThreadNext
  <1>2. CASE Release("thread") \/ Release("monitor")
    BY <1>2, ReleaseRefines DEF Threads
  <1>3. CASE MonitorNext /\ ~Release("monitor")
    BY <1>3, MonitorRefines
  <1>4. CASE (Defined /\ (LinkChanges \/ ServerChanges)) \/ UNCHANGED vars
    BY <1>4, OthersRefine
  <1>5. QED
    BY <1>1, <1>2, <1>3, <1>4 DEF Next, Crashed, ThreadNext, MonitorNext

\* A new connection is a new connection.
LEMMA InitRefines == Init => Coarse!ConnInit
  <1> SUFFICES ASSUME Init PROVE Coarse!ConnInit
    OBVIOUS
  <1>1. Shown /\ th = "none"
    BY PassInit, ShownNow DEF Init
  <1>2. /\ Life = "created" /\ ConState = "IDLE" /\ Endpoint = "null" /\ ClientHandle = "unset"
        /\ Requested = FALSE /\ Connecting = FALSE /\ Connected = FALSE /\ Sets = "none"
    BY <1>1 DEF Init, Shown, ShownInPass, Plain, Flags
  <1>3. Coarse!Conn = {1}
    BY DEF Coarse!Conn
  <1>4. Coarse!NewConnections
    BY <1>2, <1>3 DEF Coarse!NewConnections
  <1>5. QED
    BY <1>3, <1>4 DEF Init, Coarse!ConnInit

\* As long as no call of the monitor runs into a pass, _conThread and the calls of the
\* owner, statement by statement, are the passes and calls of ClientConnection, whatever
\* creation fails, with and without TLS, OSI parameters and transfer sets, and they go
\* wrong where those do.
THEOREM ConnectionRefinement == NoOverlap => (Spec => ImplementsConnection)
  <1>1. SUFFICES ASSUME NoOverlap PROVE Spec => ImplementsConnection
    OBVIOUS
  <1>2. PassInv /\ PassInv' /\ Shown /\ Shown' /\ [Next]_vars => [Coarse!ConnNext]_Coarse!groupVars
    BY <1>1, StepRefines
  <1>3. Spec => []PassInv
    BY <1>1, PassInvariance
  <1>4. QED
    BY <1>2, <1>3, ShownNow, InitRefines, PTL
       DEF Spec, ImplementsConnection, Coarse!ConnSpec

=============================================================================
