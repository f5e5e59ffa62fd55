--------------------------- MODULE ControlProofs ----------------------------
(* Proofs about control operations, resting on the invariant of Client.     *)
EXTENDS Control, ClientProofs

\* Operations leave the rest of the system to its own steps.
LEMMA ClientStep == [ControlNext]_controlVars => [Next]_vars
  BY DEF ControlNext, OpNext, Operation, FindDefinition, TestActive, Send, Answer,
         Acknowledge, Orphaned, SystemNext, OpCrashed, controlVars, opVars

-----------------------------------------------------------------------------
(* Where an operation is, and what it waits for                              *)

\* While an operation is inside a client that is not deleted, the plugin has one; the
\* client of the library that it waits in is open.
Inside ==
    /\ op \in InClient => plugin # "stopped"
    /\ target # 0 => op = "sending" /\ tase2client[target] = "live"

LEMMA InsideStep ==
    ASSUME Inside, [ControlNext]_controlVars
    PROVE  Inside'
  <1> USE DEF Inside, InClient
  <1>1. CASE OpNext
    <2>1. UNCHANGED <<plugin, tase2client>>
      BY <1>1 DEF OpNext, Operation, FindDefinition, TestActive, Send, Answer,
                  Acknowledge, Orphaned, vars, monVars, connVars
    <2>2. CASE Send
      BY <2>1, <2>2 DEF Send, OpAt, SendFault
    <2>3. CASE ~Send
      BY <1>1, <2>1, <2>3 DEF OpNext, Operation, FindDefinition, TestActive, Answer,
                              Acknowledge, Orphaned, OpAt
    <2>4. QED
      BY <2>2, <2>3
  <1>2. CASE SystemNext
    <2>1. CASE FinishStop
      BY <1>2, <2>1 DEF SystemNext, Orphaning
    <2>2. CASE ~FinishStop
      <3>1. op' = op
        BY <1>2, <2>2 DEF SystemNext, Orphaning
      <3>2. plugin' = "stopped" => plugin = "stopped"
        BY <1>2, <2>2 DEF SystemNext, Next, StartPlugin, RequestStop, MonStep, MonStart,
           MonCheck, MonConnect, MonSetActive, MonSettle, MonExpire, MonDisconnect,
           MonCleanUp, MonDrop, MonDelete, MonJoin, ConnStep, Poll, Environment, Crashed,
           vars, monVars
      <3>3. target' # 0 => target' = target /\ tase2client'[target] = "live"
        BY <1>2 DEF SystemNext
      <3>4. QED
        BY <3>1, <3>2, <3>3
    <2>3. QED
      BY <2>1, <2>2
  <1>3. CASE OpCrashed \/ UNCHANGED controlVars
    BY <1>3 DEF OpCrashed, controlVars, opVars, vars, monVars, connVars
  <1>4. QED
    BY <1>1, <1>2, <1>3 DEF ControlNext

-----------------------------------------------------------------------------
(* An operation in service                                                   *)

\* As long as nothing disturbs an operation, the plugin is in service, and the client it
\* waits in is that of the active connection.
InCalm ==
    calm => /\ plugin = "running"
            /\ Serving
            /\ opFault = "none"
            /\ op # "orphan"
            /\ op = "sending" => target = active

\* A connection in service has a thread and a client of the library.
LEMMA ServingConnection ==
    ASSUME IInv, Serving
    PROVE  /\ active \in Conn
           /\ life[active] # "deleted"
           /\ tase2client[active] = "live"
  <1>1. active \in Conn
    BY DEF Serving, IInv, TypeOK
  <1>2. QED
    BY <1>1 DEF Serving, IInv, Handles

\* The monitoring thread leaves m_active_connection alone as long as the connection is in
\* service, wherever it is itself.
LEMMA ActiveStays ==
    ASSUME IInv, Serving, plugin = "running", [Next]_vars
    PROVE  active' = active
  <1>1. active \in Conn /\ endpoint[active] = "connected" /\ conState[active] = "CONNECTED"
    BY DEF Serving, IInv, TypeOK
  <1>2. life[active] \notin {"releasing", "cleaning", "closing"}
    BY <1>1 DEF IInv, PassStates
  <1>3. Wants(active)
    BY <1>1, <1>2 DEF IInv, Handles, Wants
  <1>4. mon \notin {"none", "starting", "try", "cleaning", "drop"}
    BY <1>1, <1>3 DEF IInv, Wanted
  <1>5. mon \in {"setActive", "wait", "expired"} => active = next
    BY <1>1, <1>3 DEF IInv, Wanted
  <1>6. CASE MonSetActive
    BY <1>6, <1>5 DEF MonSetActive, At
  <1>7. CASE MonDrop \/ StartPlugin
    BY <1>7, <1>4 DEF MonDrop, At, StartPlugin
  <1>8. CASE [Next]_vars /\ ~MonSetActive /\ ~MonDrop /\ ~StartPlugin
    BY <1>8 DEF Next, RequestStop, FinishStop, MonStep, MonStart, MonCheck, MonConnect,
       MonSettle, MonExpire, MonDisconnect, MonCleanUp, MonDelete, MonJoin, ConnStep, Poll,
       Environment, Crashed, vars, monVars
  <1>9. QED
    BY <1>6, <1>7, <1>8

LEMMA InCalmStep ==
    ASSUME IInv, IInv', InCalm, [ControlNext]_controlVars
    PROVE  InCalm'
  <1> USE DEF InCalm
  <1>1. CASE OpNext
    <2>1. UNCHANGED vars
      BY <1>1 DEF OpNext, Operation, FindDefinition, TestActive, Send, Answer,
                  Acknowledge, Orphaned
    <2>2. UNCHANGED <<plugin, active>> /\ Serving' = Serving
      BY <2>1 DEF vars, monVars, connVars, Serving
    <2>3. CASE Operation
      BY <2>2, <2>3 DEF Operation, OpAt
    <2>4. CASE Send
      <3>1. calm => SendFault(active) = "none"
        BY ServingConnection DEF SendFault, Serving
      <3>2. QED
        BY <2>2, <2>4, <3>1 DEF Send, OpAt
    <2>5. CASE Answer
      <3>1. calm => target # 0
        BY <2>5 DEF Answer, OpAt, Serving
      <3>2. QED
        BY <2>2, <2>5, <3>1 DEF Answer, OpAt
    <2>6. CASE FindDefinition \/ TestActive \/ Acknowledge \/ Orphaned
      BY <2>2, <2>6 DEF FindDefinition, TestActive, Acknowledge, Orphaned, OpAt
    <2>7. QED
      BY <1>1, <2>3, <2>4, <2>5, <2>6 DEF OpNext
  <1>2. CASE SystemNext
    <2> SUFFICES ASSUME calm'
                 PROVE  /\ plugin' = "running" /\ Serving'
                        /\ opFault' = "none" /\ op' # "orphan"
                        /\ op' = "sending" => target' = active'
      OBVIOUS
    <2>1. calm /\ plugin' = "running" /\ Serving'
      BY <1>2 DEF SystemNext
    <2>2. op' = op /\ ~Orphaning
      BY <1>2, <2>1 DEF SystemNext, Orphaning, FinishStop
    <2>3. active' = active
      BY <1>2, <2>1, ActiveStays DEF SystemNext
    <2>4. tase2client'[active'] = "live"
      <3>1. active' \in Conn /\ endpoint'[active'] = "connected"
        BY <2>1 DEF Serving, IInv, TypeOK
      <3>2. QED
        BY <3>1 DEF IInv, Handles
    <2>5. opFault' = "none"
      BY <1>2, <2>1 DEF SystemNext
    <2>6. op' = "sending" => target' = active'
      BY <1>2, <2>1, <2>2, <2>3, <2>4 DEF SystemNext
    <2>7. QED
      BY <2>1, <2>2, <2>5, <2>6
  <1>3. CASE OpCrashed \/ UNCHANGED controlVars
    BY <1>3 DEF OpCrashed, controlVars, opVars, vars, monVars, connVars, Serving
  <1>4. QED
    BY <1>1, <1>2, <1>3 DEF ControlNext

-----------------------------------------------------------------------------

ControlInv == IInv /\ Inside /\ InCalm

THEOREM ControlInvariance == ControlSpec => []ControlInv
  <1>1. ControlInit => ControlInv
    BY InitInv DEF ControlInit, ControlInv, Inside, InCalm, InClient
  <1>2. ControlInv /\ [ControlNext]_controlVars => ControlInv'
    BY StepInv, ClientStep, InsideStep, InCalmStep DEF ControlInv
  <1>3. QED
    BY <1>1, <1>2, PTL DEF ControlSpec

\* An operation that no stop and no loss of the association disturbs finds everything it
\* uses, from its call to its answer: the monitoring thread does not take the connection
\* in service, or its client, away between two of its steps.
THEOREM OperationsInService == ControlSpec => []UndisturbedOperations
  <1>1. ControlInv => UndisturbedOperations
    BY DEF ControlInv, InCalm, UndisturbedOperations
  <1>2. QED
    BY <1>1, ControlInvariance, PTL

\* What an operation can have run into, step by step.
LEMMA OpFaultOrigin ==
    ASSUME [ControlNext]_controlVars, opFault' # opFault
    PROVE  \/ plugin = "stopped" /\ opFault' = "nullClient"
           \/ op = "orphan" /\ opFault' = "deletedClient"
           \/ op = "sending" /\ opFault' = "freedClient"
           \/ op = "guarded" /\ opFault' = SendFault(active) /\ opFault' # "none"
  BY DEF ControlNext, OpNext, Operation, FindDefinition, TestActive, Send, Answer,
         Acknowledge, Orphaned, OpAt, SystemNext, OpCrashed, controlVars, opVars

\* A deleted connection is met only by an operation the stop overtakes.
THEOREM DeletedConnections == ControlSpec => DeletedOnlyByStop
  <1>1. ASSUME ControlInv, [ControlNext]_controlVars, opFault' # opFault,
               opFault' = "deletedConnection"
        PROVE  plugin = "stopping"
    <2>1. op = "guarded" /\ active # 0 /\ life[active] = "deleted"
      BY <1>1, OpFaultOrigin DEF SendFault
    <2>2. active \in Conn
      BY <1>1, <2>1 DEF ControlInv, IInv, TypeOK
    <2>3. plugin # "stopped"
      BY <1>1, <2>1 DEF ControlInv, Inside, InClient
    <2>4. plugin # "running"
      BY <1>1, <2>1, <2>2 DEF ControlInv, IInv, ThreadLives
    <2>5. QED
      BY <1>1, <2>3, <2>4 DEF ControlInv, IInv, TypeOK
  <1>2. ControlInv /\ [ControlNext]_controlVars
          => [opFault' # opFault /\ opFault' = "deletedConnection"
                => plugin = "stopping"]_controlVars
    BY <1>1
  <1>3. QED
    BY <1>2, ControlInvariance, PTL DEF ControlSpec, DeletedOnlyByStop

=============================================================================
