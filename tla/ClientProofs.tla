---------------------------- MODULE ClientProofs ----------------------------
(* Proofs that Client keeps its promises for every number of connections.   *)
EXTENDS Client, TLAPS

\* What the inductive invariant says beyond the types.
Structure ==
    LoopVariable /\ Handles /\ PassStates /\ Wanted /\ ActiveConnection /\ ThreadLives

\* The initial state satisfies the inductive invariant.
LEMMA InitInv == Init => IInv
  <1> SUFFICES ASSUME Init PROVE IInv
    OBVIOUS
  <1> USE NAssumption DEF Init, NewConnections, Conn
  <1>1. TypeOK
    BY DEF TypeOK, Lives, Passes, ConStates, EndpointStates, Clients, SetStates, Faults,
           MonitorSteps
  <1>2. Structure
    BY DEF Structure, LoopVariable, Handles, PassStates, Wanted, Wants, ActiveConnection,
           ThreadLives
  <1>3. QED
    BY <1>1, <1>2 DEF IInv, Structure

-----------------------------------------------------------------------------
(* Type correctness of every action                                         *)

LEMMA TypeStep == TypeOK /\ LoopVariable /\ [Next]_vars => TypeOK'
  <1> SUFFICES ASSUME TypeOK, LoopVariable, [Next]_vars
               PROVE  TypeOK'
    OBVIOUS
  <1> USE NAssumption
      DEF TypeOK, Lives, Passes, ConStates, EndpointStates, Clients, SetStates, Faults,
          MonitorSteps
  <1>1. CASE StartPlugin
    BY <1>1 DEF StartPlugin, prepareConnections, Conn
  <1>2. CASE RequestStop
    BY <1>2 DEF RequestStop, connVars
  <1>3. CASE FinishStop
    BY <1>3 DEF FinishStop, connVars
  <1>4. CASE MonStep
    <2>1. CASE MonStart
      BY <2>1 DEF MonStart, At
    <2>2. CASE MonCheck
      BY <2>2 DEF MonCheck, At, connVars, Conn
    <2>3. CASE MonConnect
      BY <2>3 DEF MonConnect, At, Connect
    <2>4. CASE MonSetActive
      BY <2>4 DEF MonSetActive, At, connVars, LoopVariable
    <2>5. CASE MonSettle \/ MonExpire
      BY <2>5 DEF MonSettle, MonExpire, At, connVars
    <2>6. CASE MonDisconnect
      BY <2>6 DEF MonDisconnect, At, Disconnect
    <2>11. CASE MonCleanUp
      BY <2>11 DEF MonCleanUp, At, EndDisconnect, cleanUp, CleanUpFault
    <2>7. CASE MonDrop
      BY <2>7 DEF MonDrop, At, connVars, LoopVariable, Conn
    <2>8. CASE MonDelete
      <3>1. CASE Stop(next) /\ mon' = "joining" /\ UNCHANGED next
        BY <2>8, <3>1 DEF MonDelete, At, Stop, LoopVariable, Conn
      <3>2. CASE Deleted(next) /\ NextDeletion
        BY <2>8, <3>2 DEF MonDelete, At, Deleted, NextDeletion, LoopVariable, Conn
      <3>3. QED
        BY <2>8, <3>1, <3>2 DEF MonDelete
    <2>9. CASE MonJoin
      BY <2>9 DEF MonJoin, At, Deleted, NextDeletion, LoopVariable, Conn
    <2>10. QED
      BY <1>4, <2>1, <2>2, <2>3, <2>4, <2>5, <2>6, <2>7, <2>8, <2>9, <2>11
         DEF MonStep
  <1>5. ASSUME NEW c \in Conn, ConnStep(c)
        PROVE  TypeOK'
    <2> USE <1>5 DEF ConnStep, monVars, Passing
    <2>1. CASE PrepareFails(c)
      BY <2>1 DEF PrepareFails
    <2>2. CASE PrepareWithoutOsi(c)
      BY <2>2 DEF PrepareWithoutOsi
    <2>3. ASSUME NEW error \in ErrorReads, OpenAssociation(c, error)
          PROVE  TypeOK'
      BY <2>3 DEF OpenAssociation
    <2>4. CASE Associate(c) \/ ConnectTimeout(c)
      BY <2>4 DEF Associate, ConnectTimeout
    <2>5. CASE Install(c)
      BY <2>5, TransferSetsAssumption DEF Install
    <2>10. CASE Serve(c)
      BY <2>10 DEF Serve
    <2>11. CASE ResetFlags(c)
      BY <2>11 DEF ResetFlags
    <2>12. CASE ResetRequest(c)
      BY <2>12 DEF ResetRequest
    <2>6. CASE ReopenAfterLoss(c)
      BY <2>6 DEF ReopenAfterLoss, cleanUp, CleanUpFault
    <2>7. CASE ThreadExit(c)
      BY <2>7 DEF ThreadExit, cleanUp, CleanUpFault
    <2>8. CASE ReleaseEndpoint(c)
      BY <2>8 DEF ReleaseEndpoint, EndDisconnect, cleanUp, CleanUpFault
    <2>9. QED
      BY <2>1, <2>2, <2>3, <2>4, <2>5, <2>6, <2>7, <2>8, <2>10, <2>11, <2>12
         DEF ThreadStep
  <1>6. ASSUME NEW c \in Conn, Poll(c)
        PROVE  TypeOK'
    BY <1>6 DEF Poll, PollFault, connVars, monVars
  <1>7. ASSUME NEW c \in Conn, Environment(c)
        PROVE  TypeOK'
    BY <1>7 DEF Environment, LinkUp, LinkDown, ServerChanges, connVars, monVars
  <1>8. CASE Crashed \/ UNCHANGED vars
    BY <1>8 DEF Crashed, vars, connVars, monVars
  <1>9. QED
    BY <1>1, <1>2, <1>3, <1>4, <1>5, <1>6, <1>7, <1>8 DEF Next

-----------------------------------------------------------------------------
(* Every action preserves the inductive invariant                           *)

\* The passes of a connection's thread.
LEMMA ThreadInv ==
    ASSUME IInv, NEW c \in Conn, ConnStep(c)
    PROVE  Structure'
  <1> USE NAssumption
      DEF IInv, TypeOK, Structure, LoopVariable, Handles, PassStates, Passes, Wanted, Wants,
          ActiveConnection, ThreadLives, ConnStep, monVars, Passing, Conn, Defined,
          Disconnected
  <1>1. CASE PrepareFails(c)
    BY <1>1 DEF PrepareFails
  <1>2. CASE PrepareWithoutOsi(c)
    BY <1>2 DEF PrepareWithoutOsi
  <1>3. ASSUME NEW error \in ErrorReads, OpenAssociation(c, error)
        PROVE  Structure'
    BY <1>3 DEF OpenAssociation
  <1>4. CASE Associate(c)
    BY <1>4 DEF Associate
  <1>5. CASE Install(c)
    BY <1>5, TransferSetsAssumption DEF Install
  <1>6. CASE Serve(c)
    BY <1>6 DEF Serve
  <1>7. CASE ConnectTimeout(c)
    BY <1>7 DEF ConnectTimeout
  <1>8. CASE ResetFlags(c)
    BY <1>8 DEF ResetFlags
  <1>9. CASE ResetRequest(c)
    BY <1>9 DEF ResetRequest
  <1>10. CASE ReleaseEndpoint(c)
    BY <1>10 DEF ReleaseEndpoint, EndDisconnect, cleanUp, CleanUpFault
  <1>11. CASE ReopenAfterLoss(c)
    BY <1>11 DEF ReopenAfterLoss, cleanUp, CleanUpFault
  <1>12. CASE ThreadExit(c)
    BY <1>12 DEF ThreadExit, cleanUp, CleanUpFault
  <1>13. QED
    BY <1>1, <1>2, <1>3, <1>4, <1>5, <1>6, <1>7, <1>8, <1>9, <1>10, <1>11, <1>12
       DEF ThreadStep

\* The steps of the monitoring thread.
LEMMA MonInv ==
    ASSUME IInv, MonStep
    PROVE  Structure'
  <1> USE NAssumption
      DEF IInv, TypeOK, Structure, LoopVariable, Handles, PassStates, Passes, Wanted, Wants,
          ActiveConnection, ThreadLives, At, connVars, Conn, Defined, Disconnected
  <1>1. CASE MonStart
    BY <1>1 DEF MonStart
  <1>2. CASE MonCheck
    BY <1>2 DEF MonCheck, NeedsConnection
  <1>3. CASE MonConnect
    BY <1>3 DEF MonConnect, Connect
  <1>4. CASE MonSetActive
    BY <1>4 DEF MonSetActive
  <1>5. CASE MonSettle
    BY <1>5 DEF MonSettle, Connected
  <1>6. CASE MonExpire
    BY <1>6 DEF MonExpire
  <1>7. CASE MonDisconnect
    BY <1>7 DEF MonDisconnect, Disconnect
  <1>8. CASE MonCleanUp
    <2> USE <1>8 DEF MonCleanUp, EndDisconnect, cleanUp
    <2>1. LoopVariable' /\ ActiveConnection' /\ ThreadLives'
      OBVIOUS
    <2>2. Handles'
      OBVIOUS
    <2>3. PassStates'
      OBVIOUS
    <2>4. Wanted'
      OBVIOUS
    <2>5. QED
      BY <2>1, <2>2, <2>3, <2>4
  <1>9. CASE MonDrop
    BY <1>9 DEF MonDrop
  <1>10. CASE MonDelete
    <2>1. CASE life[next] = "loop" /\ Stop(next) /\ mon' = "joining" /\ UNCHANGED next
      BY <1>10, <2>1 DEF MonDelete, Stop
    <2>2. CASE life[next] = "created" /\ Deleted(next) /\ NextDeletion
      <3>1. LoopVariable' /\ Wanted' /\ ActiveConnection'
        BY <1>10, <2>2 DEF MonDelete, Deleted, NextDeletion
      <3>2. Handles' /\ PassStates'
        BY <1>10, <2>2 DEF MonDelete, Deleted
      <3>3. ThreadLives'
        BY <1>10, <2>2 DEF MonDelete, Deleted, NextDeletion
      <3>4. QED
        BY <3>1, <3>2, <3>3
    <2>3. QED
      BY <1>10, <2>1, <2>2 DEF MonDelete
  <1>11. CASE MonJoin
    <2>1. LoopVariable' /\ Wanted' /\ ActiveConnection'
      BY <1>11 DEF MonJoin, Deleted, NextDeletion
    <2>2. Handles' /\ PassStates'
      BY <1>11 DEF MonJoin, Deleted
    <2>3. ThreadLives'
      BY <1>11 DEF MonJoin, Deleted, NextDeletion
    <2>4. QED
      BY <2>1, <2>2, <2>3
  <1>12. QED
    BY <1>1, <1>2, <1>3, <1>4, <1>5, <1>6, <1>7, <1>8, <1>9, <1>10, <1>11 DEF MonStep

\* Every step of the system.
LEMMA StepInv == IInv /\ [Next]_vars => IInv'
  <1> SUFFICES ASSUME IInv, [Next]_vars PROVE IInv'
    OBVIOUS
  <1>1. TypeOK'
    BY TypeStep DEF IInv
  <1>2. Structure'
    <2> USE NAssumption
        DEF IInv, TypeOK, Structure, LoopVariable, Handles, PassStates, Passes, Wanted,
            Wants, ActiveConnection, ThreadLives, connVars, monVars, Conn, Defined,
            Disconnected
    <2>1. CASE StartPlugin
      BY <2>1 DEF StartPlugin, prepareConnections
    <2>2. CASE RequestStop
      BY <2>2 DEF RequestStop
    <2>3. CASE FinishStop
      BY <2>3 DEF FinishStop
    <2>4. CASE MonStep
      BY <2>4, MonInv
    <2>5. ASSUME NEW c \in Conn, ConnStep(c)
          PROVE  Structure'
      BY <2>5, ThreadInv
    <2>6. ASSUME NEW c \in Conn, Poll(c)
          PROVE  Structure'
      BY <2>6 DEF Poll, Passing
    <2>7. ASSUME NEW c \in Conn, Environment(c)
          PROVE  Structure'
      BY <2>7 DEF Environment, LinkUp, LinkDown, ServerChanges
    <2>8. CASE Crashed \/ UNCHANGED vars
      BY <2>8 DEF Crashed, vars
    <2>9. QED
      BY <2>1, <2>2, <2>3, <2>4, <2>5, <2>6, <2>7, <2>8 DEF Next
  <1>3. QED
    BY <1>1, <1>2 DEF IInv, Structure

\* The inductive invariant holds in every reachable state.
THEOREM Invariance == Spec => []IInv
  BY InitInv, StepInv, PTL DEF Spec

-----------------------------------------------------------------------------
(* The safety properties                                                    *)

\* Every variable keeps its type: in particular the monitor never leaves the
\* vector of connections.
THEOREM TypeCorrect == Spec => []TypeOK
  <1>1. IInv => TypeOK
    BY DEF IInv
  <1>2. QED
    BY <1>1, Invariance, PTL

\* Commands and polls go to the connection that holds an endpoint, if it has not given
\* up by itself.
THEOREM OpenEndpointIsActive == Spec => []OpenIsActive
  <1>1. IInv => OpenIsActive
    BY DEF IInv, TypeOK, Handles, PassStates, Wanted, Wants, ActiveConnection, OpenIsActive,
           Holds, MonitorSteps
  <1>2. QED
    BY <1>1, Invariance, PTL

\* The group never holds two endpoints at once, except for what connections that gave
\* up by themselves are still releasing.
THEOREM ExclusiveAssociation == Spec => []SingleAssociation
  <1>1. IInv => SingleAssociation
    BY DEF IInv, TypeOK, Handles, PassStates, Wanted, Wants, SingleAssociation, Holds,
           MonitorSteps
  <1>2. QED
    BY <1>1, Invariance, PTL

\* A monitoring thread that has ended leaves no thread, endpoint or transfer set.
THEOREM CleanShutdown == Spec => []NothingLeft
  <1>1. IInv => NothingLeft
    BY DEF IInv, Handles, ThreadLives, NothingLeft
  <1>2. QED
    BY <1>1, Invariance, PTL

-----------------------------------------------------------------------------
(* The action properties                                                    *)

\* Only an assignment of the monitor, or a new start, changes the active connection.
LEMMA ActiveChanges ==
    ASSUME [Next]_vars, active' # active
    PROVE  StartPlugin \/ MonSetActive \/ MonDrop
  <1> USE DEF connVars, monVars
  <1>1. CASE RequestStop \/ FinishStop
    BY <1>1 DEF RequestStop, FinishStop
  <1>2. CASE MonStep
    BY <1>2 DEF MonStep, MonStart, MonCheck, MonConnect, MonSettle, MonExpire,
                MonDisconnect, MonCleanUp, MonDelete, MonJoin
  <1>3. CASE \E c \in Conn : ConnStep(c) \/ Poll(c) \/ Environment(c)
    BY <1>3 DEF ConnStep, Poll, Environment
  <1>4. CASE Crashed \/ UNCHANGED vars
    BY <1>4 DEF Crashed, vars
  <1>5. QED
    BY <1>1, <1>2, <1>3, <1>4 DEF Next

\* A server is left only when its connection is neither connected nor connecting.
THEOREM LeavesOnlyLostServers == Spec => StaysWithServer
  <1>1. ASSUME IInv, [Next]_vars,
               plugin # "stopped", active # 0, active' # active
        PROVE  Disconnected(active)
    <2>1. CASE StartPlugin
      BY <1>1, <2>1 DEF StartPlugin
    <2>2. CASE MonSetActive
      BY <1>1, <2>2 DEF MonSetActive, At, IInv, ActiveConnection
    <2>3. CASE MonDrop
      BY <1>1, <2>3 DEF MonDrop, At, IInv, ActiveConnection
    <2>4. QED
      BY <1>1, <2>1, <2>2, <2>3, ActiveChanges
  <1>2. IInv /\ [Next]_vars
          => [plugin # "stopped" /\ active # 0 /\ active' # active
                => Disconnected(active)]_vars
    BY <1>1
  <1>3. QED
    BY <1>2, Invariance, PTL DEF Spec, StaysWithServer

\* Outside the selection window a poll goes through the poller's own live client.
LEMMA PollIsSafe ==
    ASSUME IInv, NEW c \in Conn, Poll(c), mon # "setActive"
    PROVE  fault' = "none"
  <1>1. connect[c] /\ endpoint[c] = "connected"
    BY DEF Poll, Passing
  <1>2. active = c
    BY <1>1 DEF Poll, Passing, IInv, TypeOK, MonitorSteps, Wanted, Wants, ActiveConnection
  <1>3. tase2client[active] = "live"
    BY <1>1, <1>2 DEF IInv, Handles
  <1>4. QED
    BY <1>2, <1>3 DEF Poll, PollFault, Conn

\* A fault of a poll comes from Poll, one of a null client from a clean-up.
LEMMA FaultOrigin ==
    ASSUME [Next]_vars, fault' # fault
    PROVE  \/ \E c \in Conn : Poll(c)
           \/ fault' = "osiNull"
           \/ \E c \in Conn : Defined /\ fault' = CleanUpFault(c)
           \/ MonCleanUp /\ fault' = CleanUpFault(next)
  <1> USE DEF connVars, monVars
  <1>1. CASE StartPlugin \/ RequestStop \/ FinishStop
    BY <1>1 DEF StartPlugin, RequestStop, FinishStop
  <1>2. CASE MonStep
    BY <1>2 DEF MonStep, MonStart, MonCheck, MonConnect, MonSetActive, MonSettle,
                MonExpire, MonDisconnect, MonCleanUp, MonDrop, MonDelete, MonJoin,
                EndDisconnect, cleanUp
  <1>3. ASSUME NEW c \in Conn, ConnStep(c)
        PROVE  fault' = "osiNull" \/ (Defined /\ fault' = CleanUpFault(c))
    <2>1. CASE \/ PrepareFails(c) \/ Associate(c) \/ Install(c) \/ Serve(c)
               \/ ConnectTimeout(c) \/ ResetFlags(c) \/ ResetRequest(c)
      BY <2>1 DEF PrepareFails, Associate, Install, Serve, ConnectTimeout, ResetFlags,
                  ResetRequest
    <2>2. CASE PrepareWithoutOsi(c)
      BY <2>2 DEF PrepareWithoutOsi
    <2>3. ASSUME NEW error \in ErrorReads, OpenAssociation(c, error)
          PROVE  FALSE
      BY <2>3 DEF OpenAssociation
    <2>4. CASE ReleaseEndpoint(c) \/ ReopenAfterLoss(c) \/ ThreadExit(c)
      BY <2>4 DEF ReleaseEndpoint, EndDisconnect, ReopenAfterLoss, ThreadExit, Passing,
                  cleanUp
    <2>5. QED
      BY <1>3, <2>1, <2>2, <2>3, <2>4 DEF ConnStep, ThreadStep
  <1>4. ASSUME NEW c \in Conn, Environment(c)
        PROVE  FALSE
    BY <1>4 DEF Environment, LinkUp, LinkDown, ServerChanges
  <1>5. CASE Crashed \/ UNCHANGED vars
    BY <1>5 DEF Crashed, vars
  <1>6. QED
    BY <1>1, <1>2, <1>3, <1>4, <1>5 DEF Next

\* Polling misses its connection only in the window of the selection.
THEOREM PollRaceWindow == Spec => PollRacesOnlySelection
  <1>1. ASSUME IInv, [Next]_vars, fault' # fault,
               fault' \in {"pollNoActive", "pollDeadHandle"}
        PROVE  mon = "setActive"
    <2>1. \E c \in Conn : Poll(c)
      BY <1>1, FaultOrigin DEF CleanUpFault
    <2>2. QED
      BY <1>1, <2>1, PollIsSafe
  <1>2. IInv /\ [Next]_vars
          => [fault' # fault /\ fault' \in {"pollNoActive", "pollDeadHandle"}
                => mon = "setActive"]_vars
    BY <1>1
  <1>3. QED
    BY <1>2, Invariance, PTL DEF Spec, PollRacesOnlySelection

\* A null client is handed to the library only after creating it had failed.
THEOREM NullClientCause == Spec => NullClientOnlyAfterFailedCreate
  <1>1. ASSUME IInv, [Next]_vars, fault' # fault, fault' = "freeNullClient"
        PROVE  \E c \in Conn :
                  /\ endpoint[c] = "idle"
                  /\ conState[c] = "FATAL_ERROR" \/ life[c] = "closing"
    <2>1. ~(\E c \in Conn : Poll(c))
      BY <1>1 DEF Poll, PollFault
    <2>2. PICK c \in Conn : Defined /\ fault' = CleanUpFault(c)
      BY <1>1, <2>1, FaultOrigin DEF MonCleanUp, At, IInv, LoopVariable
    <2>3. endpoint[c] # "null" /\ tase2client[c] # "live"
      BY <1>1, <2>2 DEF CleanUpFault
    <2>4. endpoint[c] = "idle"
      BY <1>1, <2>3 DEF IInv, Handles
    <2>5. QED
      BY <1>1, <2>2, <2>4 DEF IInv, Handles
  <1>2. IInv /\ [Next]_vars
          => [fault' # fault /\ fault' = "freeNullClient"
                => \E c \in Conn :
                      /\ endpoint[c] = "idle"
                      /\ conState[c] = "FATAL_ERROR" \/ life[c] = "closing"]_vars
    BY <1>1
  <1>3. QED
    BY <1>2, Invariance, PTL DEF Spec, NullClientOnlyAfterFailedCreate

-----------------------------------------------------------------------------
(* Stopping                                                                  *)

\* Only the connection the monitor is joining was told to stop, and those still to be
\* deleted are there.
DeletionOrder ==
    /\ \A c \in Conn : life[c] \in {"stopping", "ended"} => mon = "joining" /\ c = next
    /\ mon = "joining" => life[next] \in {"stopping", "ended"}
    /\ mon \in {"deleting", "joining"} => \A c \in Conn : c >= next => life[c] # "deleted"

\* The steps of the monitor keep the order of the deletions.
LEMMA MonDeletionOrder ==
    ASSUME IInv, DeletionOrder, MonStep
    PROVE  DeletionOrder'
  <1> USE DEF DeletionOrder, IInv, TypeOK, LoopVariable, ThreadLives, At, connVars, Conn
  <1>1. CASE MonStart \/ MonConnect \/ MonSetActive
    BY <1>1 DEF MonStart, MonConnect, MonSetActive, Connect
  <1>2. CASE MonCheck
    BY <1>2, NAssumption DEF MonCheck
  <1>3. CASE MonSettle \/ MonExpire \/ MonDisconnect \/ MonCleanUp \/ MonDrop
    BY <1>3 DEF MonSettle, MonExpire, MonDisconnect, MonCleanUp, MonDrop, Disconnect,
                EndDisconnect, ActiveConnection
  <1>4. CASE MonDelete
    <2>1. CASE life[next] = "loop" /\ Stop(next) /\ mon' = "joining" /\ UNCHANGED next
      BY <1>4, <2>1 DEF MonDelete, Stop
    <2>2. CASE life[next] = "created" /\ Deleted(next) /\ NextDeletion
      BY <1>4, <2>2, NAssumption DEF MonDelete, Deleted, NextDeletion
    <2>3. QED
      BY <1>4, <2>1, <2>2 DEF MonDelete
  <1>5. CASE MonJoin
    BY <1>5, NAssumption DEF MonJoin, Deleted, NextDeletion
  <1>6. QED
    BY <1>1, <1>2, <1>3, <1>4, <1>5 DEF MonStep

\* Every step does.
LEMMA DeletionOrderStep == IInv /\ DeletionOrder /\ [Next]_vars => DeletionOrder'
  <1> SUFFICES ASSUME IInv, DeletionOrder, [Next]_vars PROVE DeletionOrder'
    OBVIOUS
  <1> USE DEF DeletionOrder, IInv, TypeOK, ThreadLives, connVars, monVars, Conn
  <1>1. CASE StartPlugin \/ RequestStop \/ FinishStop
    BY <1>1 DEF StartPlugin, RequestStop, FinishStop, prepareConnections
  <1>2. CASE MonStep
    BY <1>2, MonDeletionOrder
  <1>3. ASSUME NEW c \in Conn, ConnStep(c)
        PROVE  DeletionOrder'
    <2> USE <1>3 DEF ConnStep, Passing
    <2>1. CASE \/ PrepareFails(c) \/ PrepareWithoutOsi(c) \/ ReopenAfterLoss(c)
               \/ \E error \in ErrorReads : OpenAssociation(c, error)
      BY <2>1 DEF PrepareFails, PrepareWithoutOsi, ReopenAfterLoss, OpenAssociation
    <2>2. CASE \/ Associate(c) \/ Install(c) \/ Serve(c) \/ ConnectTimeout(c)
               \/ ResetFlags(c) \/ ResetRequest(c) \/ ReleaseEndpoint(c)
      <3>1. life[c] \in {"loop"} \cup Passes /\ mon' = mon /\ next' = next
        BY <2>2 DEF Associate, Install, Serve, ConnectTimeout, ResetFlags, ResetRequest,
                    ReleaseEndpoint, EndDisconnect, Passes
      <3>2. \E l \in {"loop"} \cup Passes : life' = [life EXCEPT ![c] = l]
        BY <2>2 DEF Associate, Install, Serve, ConnectTimeout, ResetFlags, ResetRequest,
                    ReleaseEndpoint, EndDisconnect, Passes
      <3>3. QED
        BY <3>1, <3>2 DEF Passes
    <2>3. CASE ThreadExit(c)
      BY <2>3 DEF ThreadExit
    <2>4. QED
      BY <2>1, <2>2, <2>3 DEF ThreadStep
  <1>4. ASSUME NEW c \in Conn, Poll(c) \/ Environment(c)
        PROVE  DeletionOrder'
    BY <1>4 DEF Poll, Environment, LinkUp, LinkDown, ServerChanges
  <1>5. CASE Crashed \/ UNCHANGED vars
    BY <1>5 DEF Crashed, vars
  <1>6. QED
    BY <1>1, <1>2, <1>3, <1>4, <1>5 DEF Next

\* A stop never waits for a thread that is not on its way: the monitor joins a connection
\* only when its m_started was reset, and no connection is stopped twice.
THEOREM StopIsNotBlocked == Spec => []StopNotBlocked
  <1>1. Init => DeletionOrder
    BY DEF Init, NewConnections, DeletionOrder
  <1>2. Spec => []DeletionOrder
    BY <1>1, DeletionOrderStep, Invariance, PTL DEF Spec
  <1>3. IInv /\ DeletionOrder => StopNotBlocked
    BY DEF IInv, TypeOK, Lives, LoopVariable, PassStates, ThreadLives, DeletionOrder,
           StopNotBlocked, Conn
  <1>4. QED
    BY <1>2, <1>3, Invariance, PTL

\* What is left of the monitor's way is a number of steps.
LEMMA RemainingNat == IInv => Remaining \in Nat
  <1> SUFFICES ASSUME IInv PROVE Remaining \in Nat
    OBVIOUS
  <1>1. N \in Nat /\ next \in Nat /\ mon \in MonitorSteps
    BY NAssumption DEF IInv, TypeOK, Conn
  <1>2. mon \notin {"none", "starting", "check", "ended"} => N - next \in Nat
    BY <1>1 DEF IInv, LoopVariable, Conn
  <1>3. CASE mon \in {"none", "starting", "check", "ended"}
    BY <1>1, <1>3 DEF Remaining
  <1>4. CASE mon \in {"try", "setActive", "wait", "expired", "cleaning", "drop",
                   "deleting", "joining"}
    <2> DEFINE rest == N - next
    <2>1. N \in Nat /\ rest \in Nat
      BY <1>1, <1>2, <1>4
    <2>2. Remaining \in {2 * N + 2 + 6 * rest + 5, 2 * N + 2 + 6 * rest + 4,
                         2 * N + 2 + 6 * rest + 3, 2 * N + 2 + 6 * rest + 2,
                         2 * N + 2 + 6 * rest + 1, 2 * N + 2 + 6 * rest,
                         2 * rest + 2, 2 * rest + 1}
      BY <1>4 DEF Remaining
    <2> HIDE DEF rest
    <2>3. QED
      BY <2>1, <2>2
  <1>5. QED
    BY <1>1, <1>3, <1>4 DEF MonitorSteps

\* A step of the monitor, told to stop, brings it nearer to its end.
LEMMA MonitorAdvances ==
    ASSUME IInv, plugin = "stopping", MonStep
    PROVE  Remaining' < Remaining
  <1>1. ~started /\ N \in Nat /\ next \in Nat
    BY NAssumption DEF IInv, TypeOK, ThreadLives, Conn
  <1> USE <1>1 DEF Remaining, At
  <1>2. CASE \/ MonStart \/ MonConnect \/ MonSetActive
             \/ MonExpire \/ MonDisconnect \/ MonCleanUp
    BY <1>2 DEF MonStart, MonConnect, MonSetActive, MonExpire, MonDisconnect, MonCleanUp
  <1>3. CASE MonCheck
    BY <1>3 DEF MonCheck
  <1>4. CASE MonSettle
    BY <1>4 DEF MonSettle, IInv, LoopVariable, Conn
  <1>5. CASE MonDrop
    BY <1>5 DEF MonDrop
  <1>6. CASE MonDelete \/ MonJoin
    <2>1. mon' \in {"joining", "deleting", "ended"} /\ mon \in {"deleting", "joining"} /\ next \in 1 .. N
      BY <1>6 DEF MonDelete, MonJoin, NextDeletion, IInv, LoopVariable, Conn
    <2>2. \/ mon = "deleting" /\ mon' = "joining" /\ next' = next
          \/ next < N /\ mon' = "deleting" /\ next' = next + 1
          \/ mon' = "ended"
      BY <1>6 DEF MonDelete, MonJoin, NextDeletion
    <2>3. QED
      BY <2>1, <2>2
  <1>7. QED
    BY <1>2, <1>3, <1>4, <1>5, <1>6 DEF MonStep

\* From the request on the monitor takes a bounded number of steps: it may try the servers
\* that its search has left, then deletes the connections.
THEOREM StopIsBounded == Spec => StopBounded
  <1>1. ASSUME IInv, Remaining \in Nat, Remaining' \in Nat, [Next]_vars,
               plugin = "stopping", <<mon, next>>' # <<mon, next>>
        PROVE  Remaining' \in 0 .. (Remaining - 1)
    <2>1. CASE MonStep
      <3>1. Remaining' < Remaining
        BY <1>1, <2>1, MonitorAdvances
      <3>2. QED
        BY <1>1, <3>1
    <2>2. CASE StartPlugin \/ RequestStop \/ FinishStop
      BY <1>1, <2>2 DEF StartPlugin, RequestStop, FinishStop
    <2>3. CASE \E c \in Conn : ConnStep(c) \/ Poll(c) \/ Environment(c)
      BY <1>1, <2>3 DEF ConnStep, Poll, Environment, monVars
    <2>4. CASE Crashed \/ UNCHANGED vars
      BY <1>1, <2>4 DEF Crashed, vars, monVars
    <2>5. QED
      BY <1>1, <2>1, <2>2, <2>3, <2>4 DEF Next
  <1>2. IInv /\ Remaining \in Nat /\ (Remaining \in Nat)' /\ [Next]_vars
          => [plugin = "stopping" /\ <<mon, next>>' # <<mon, next>>
                => Remaining' \in 0 .. (Remaining - 1)]_vars
    BY <1>1
  <1>3. QED
    BY <1>2, RemainingNat, Invariance, PTL DEF Spec, StopBounded

=============================================================================
