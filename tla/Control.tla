------------------------------ MODULE Control -------------------------------
(***************************************************************************)
(* Control operations (TASE2::operation, TASE2Client::sendCommand,         *)
(* sendSetPointReal, sendSetPointDiscrete) while the monitoring thread and *)
(* the connections of Client go on.  An operation runs in a thread of the  *)
(* service and takes no lock: it tests m_client, then uses it; it tests    *)
(* m_active_connection, then reads it again; it reads m_tase2client and    *)
(* waits in the library for the answer.  The three kinds of command take   *)
(* the same steps.                                                         *)
(***************************************************************************)
EXTENDS Client

VARIABLES
    op,       \* where the operation is; "orphan": its TASE2Client was deleted
    target,   \* the connection whose client it waits in, 0 once that was destroyed
    opFault,  \* what the operation used that was not there, or "none"
    calm      \* history: the plugin has run, and been in service, since it began

opVars == <<op, target, opFault>>
controlVars == <<vars, opVars, calm>>

ControlInit ==
    /\ Init
    /\ op = "idle"
    /\ target = 0
    /\ opFault = "none"
    /\ calm = FALSE

\* The process is still there, and the operation at a step.
OpAt(step) == Defined /\ opFault = "none" /\ op = step

-----------------------------------------------------------------------------
(* The steps of one operation                                               *)

\* TASE2::operation: refused without a client.
Operation ==
    /\ OpAt("idle")
    /\ plugin # "stopped"
    /\ op' = "entered"
    /\ calm' = (plugin = "running" /\ Serving)
    /\ UNCHANGED <<vars, target, opFault>>

\* m_client is read again to call it; the point is in the exchange or is refused.
FindDefinition ==
    /\ OpAt("entered")
    /\ \/ plugin = "stopped" /\ opFault' = "nullClient" /\ UNCHANGED op
       \/ plugin # "stopped" /\ op' \in {"found", "idle"} /\ UNCHANGED opFault
    /\ UNCHANGED <<vars, target, calm>>

\* Without an active connection the command fails.
TestActive ==
    /\ OpAt("found")
    /\ op' = IF active # 0 THEN "guarded" ELSE "idle"
    /\ UNCHANGED <<vars, target, opFault, calm>>

\* What sending over connection c runs into.
SendFault(c) ==
    IF c = 0 THEN "nullConnection"
    ELSE IF life[c] = "deleted" THEN "deletedConnection"
    ELSE IF tase2client[c] # "live" THEN "noHandle"
    ELSE "none"

\* Seeded bug: the first connection of the group is taken for the active one.
SendOverFirst ==
    /\ OpAt("guarded")
    /\ opFault' = SendFault(1)
    /\ IF opFault' = "none" THEN op' = "sending" /\ target' = 1 ELSE UNCHANGED <<op, target>>
    /\ UNCHANGED <<vars, calm>>

\* m_active_connection is read again, and its m_tase2client given to the library.
Send ==
    /\ OpAt("guarded")
    /\ opFault' = SendFault(active)
    /\ IF opFault' = "none" THEN op' = "sending" /\ target' = active
                            ELSE UNCHANGED <<op, target>>
    /\ UNCHANGED <<vars, calm>>

\* The call returns: the server accepted the command, or refused it, or did not answer.
Answer ==
    /\ OpAt("sending")
    /\ \/ /\ target = 0
          /\ opFault' = "freedClient"
          /\ UNCHANGED <<op, target>>
       \/ /\ target # 0
          /\ op' \in IF endpoint[target] = "connected" THEN {"acked", "idle"} ELSE {"idle"}
          /\ target' = 0
          /\ UNCHANGED opFault
    /\ UNCHANGED <<vars, calm>>

\* An accepted command is ingested as a reading of its data point.
Acknowledge ==
    /\ OpAt("acked")
    /\ op' = "idle"
    /\ UNCHANGED <<vars, target, opFault, calm>>

\* The operation goes on in a TASE2Client that is gone.
Orphaned ==
    /\ OpAt("orphan")
    /\ opFault' = "deletedClient"
    /\ UNCHANGED <<vars, op, target, calm>>

OpNext ==
    \/ Operation \/ FindDefinition \/ TestActive \/ Send \/ Answer \/ Acknowledge
    \/ Orphaned

\* Where an operation is inside the TASE2Client.
InClient == {"found", "guarded", "sending", "acked"}

\* Deleting the TASE2Client orphans an operation inside it.
Orphaning == FinishStop /\ op \in InClient

\* A step of the rest.  It may destroy the library's client that an operation waits in.
SystemNext ==
    /\ opFault = "none"
    /\ Next
    /\ op' = IF Orphaning THEN "orphan" ELSE op
    /\ target' = IF target # 0 /\ (Orphaning \/ tase2client'[target] # "live")
                 THEN 0 ELSE target
    /\ calm' = (calm /\ plugin' = "running" /\ Serving')
    /\ UNCHANGED opFault

\* The process is gone: nothing more happens.
OpCrashed == opFault # "none" /\ UNCHANGED controlVars

ControlNext == OpNext \/ SystemNext \/ OpCrashed

ControlSpec == ControlInit /\ [][ControlNext]_controlVars

-----------------------------------------------------------------------------
(* What an operation can and cannot run into                                *)

\* An operation that is disturbed neither by a stop nor by a loss of the association
\* from its call to its answer finds a client, a connection and an open handle at every
\* step: it takes no lock and reads m_active_connection twice, and the monitoring thread
\* neither replaces nor cleans up a connection in service.  An operation that is overtaken
\* by a stop or a failover has no such promise: see CommandHasClient.
UndisturbedOperations == calm => opFault = "none"

\* A stop reaches an operation only through objects that were there when the
\* operation began: a deleted connection is met only while the plugin stops.
DeletedOnlyByStop ==
    [][opFault' # opFault /\ opFault' = "deletedConnection"
          => plugin = "stopping"]_controlVars

\* Commands are sent "over active connection": one that passed the test for an active
\* connection finds it when it reads m_active_connection again, and has a TASE.2 client to
\* be sent with until the answer is there.
CommandHasClient == opFault \notin {"nullConnection", "noHandle", "freedClient"}

=============================================================================
