-------------------------- MODULE RefinementProofs --------------------------
(* Proof that Client implements the abstract redundancy group of Failover.  *)
EXTENDS ClientProofs

\* The abstract state, by where the monitor is.
Mapping ==
    /\ mon = "starting" => Phase = "idle" /\ Selected = 0
    /\ mon = "check" /\ NeedsConnection => Phase = "idle" /\ Selected = 0
    /\ mon = "check" /\ ~NeedsConnection => Phase = "serving" /\ Selected = active
    /\ mon \in Searching => Phase = "trying" /\ Selected = next
    /\ mon \in {"deleting", "joining"}
          => Phase = "closing" /\ Selected = IF NeedsConnection THEN 0 ELSE active
    /\ mon \in {"none", "ended"} => Phase = "off" /\ Selected = 0

LEMMA MappingNow == TypeOK => Mapping
  BY DEF Mapping, Phase, Selected, Searching, TypeOK, MonitorSteps

LEMMA MappingNext == TypeOK' => Mapping'
  BY DEF Mapping, Phase, Selected, Searching, TypeOK, MonitorSteps

-----------------------------------------------------------------------------
(* Facts about the abstract state                                           *)

\* There is at most one association with a server not given up, the selected one's.
Exclusive ==
    /\ mon \in {"none", "starting", "try", "drop", "ended"} => Associated \subseteq GivenUp
    /\ mon \in {"setActive", "wait", "expired", "cleaning"}
          => Associated \subseteq GivenUp \cup {next}
    /\ mon \in {"check", "deleting", "joining"}
          => /\ Associated \subseteq GivenUp \cup {active}
             /\ ~(Associated \subseteq GivenUp) => ~NeedsConnection

LEMMA ExclusiveNow == IInv => Exclusive
  BY DEF IInv, TypeOK, Handles, PassStates, Wanted, Wants, ActiveConnection, ThreadLives,
         Exclusive, Associated, GivenUp, Leaving, NeedsConnection, Disconnected, Conn

LEMMA ExclusiveNext == IInv' => Exclusive'
  BY DEF IInv, TypeOK, Handles, PassStates, Wanted, Wants, ActiveConnection, ThreadLives,
         Exclusive, Associated, GivenUp, Leaving, NeedsConnection, Disconnected, Conn

\* Nothing is left of a group that is off.
LEMMA OffIsEmpty ==
    ASSUME IInv, mon \in {"none", "starting", "ended"}
    PROVE  GivenUp = {} /\ Associated = {}
  <1>1. GivenUp = {}
    BY DEF IInv, ThreadLives, GivenUp, Leaving
  <1>2. QED
    BY <1>1, ExclusiveNow DEF Exclusive

\* The abstract phase and selection depend on these alone.
LEMMA SameSelection ==
    ASSUME TypeOK, TypeOK', UNCHANGED <<mon, next, active>>,
           NeedsConnection' <=> NeedsConnection
    PROVE  Phase' = Phase /\ Selected' = Selected
  BY MappingNow, MappingNext
     DEF Mapping, Searching, TypeOK, MonitorSteps

\* A connection that wants service is the one selected.
LEMMA WantedIsSelected ==
    ASSUME IInv, NEW c \in Conn, Wants(c)
    PROVE  \/ mon \in {"setActive", "wait", "expired"} /\ c = next
           \/ mon \in {"check", "deleting", "joining"} /\ c = active /\ ~NeedsConnection
  <1>1. mon \in {"setActive", "wait", "expired"} => c = next
    BY DEF IInv, Wanted
  <1>2. mon \in {"check", "deleting", "joining", "ended"} => c = active /\ ~NeedsConnection
    BY DEF IInv, Wanted, NeedsConnection, Disconnected, Conn
  <1>3. mon # "ended"
    BY DEF IInv, ThreadLives, Wants, Handles, Wanted
  <1>4. QED
    BY <1>1, <1>2, <1>3 DEF IInv, Wanted, TypeOK, MonitorSteps

-----------------------------------------------------------------------------
(* Every step maps to a step of the group or to a stutter                   *)

GroupStep == [Group!Next]_(Group!group)

\* The monitoring thread.
LEMMA MonRefines ==
    ASSUME IInv, IInv', MonStep
    PROVE  GroupStep
  <1>1. /\ Mapping /\ Mapping' /\ Exclusive /\ Exclusive' /\ TypeOK /\ TypeOK'
        /\ NAssumption
    BY MappingNow, MappingNext, ExclusiveNow, ExclusiveNext, NAssumption DEF IInv
  <1>2. CASE MonStart
    <2>1. active = 0 /\ NeedsConnection /\ NeedsConnection'
      BY <1>2 DEF MonStart, At, IInv, ActiveConnection, NeedsConnection
    <2>2. Phase' = Phase /\ Selected' = Selected
      BY <1>1, <1>2, <2>1 DEF MonStart, At, Mapping
    <2>3. GivenUp = {} /\ GivenUp' = {}
      BY <1>2, OffIsEmpty DEF MonStart, At, GivenUp, Leaving, IInv, ThreadLives
    <2>4. QED
      BY <1>2, <2>2, <2>3 DEF MonStart, Associated, GroupStep, Group!group
  <1>3. CASE MonCheck
    <2>1. Associated' = Associated /\ GivenUp' = GivenUp /\ (NeedsConnection' <=> NeedsConnection)
      BY <1>3 DEF MonCheck, connVars, Associated, GivenUp, Leaving, NeedsConnection,
                  Disconnected
    <2>2. CASE mon' = "try"
      <3>1. Phase = "idle" /\ Phase' = "trying" /\ Selected' = 1 /\ N > 0
        BY <1>1, <1>3, <2>2 DEF MonCheck, At, Mapping, Searching
      <3>2. QED
        BY <2>1, <3>1 DEF GroupStep, Group!Next, Group!Search
    <2>3. CASE mon' = "deleting"
      <3>1. Phase \in {"idle", "serving"} /\ Phase' = "closing" /\ Selected' = Selected
        BY <1>1, <1>3, <2>1, <2>3 DEF MonCheck, At, Mapping
      <3>2. QED
        BY <2>1, <3>1 DEF GroupStep, Group!Next, Group!Close
    <2>4. CASE mon' = "ended"
      <3>1. N = 0 /\ active = 0
        BY <1>3, <2>4, NAssumption DEF MonCheck, IInv, TypeOK, Conn
      <3>2. Phase = "idle" /\ Phase' = "off" /\ Selected' = 0
        BY <1>1, <1>3, <2>4, <3>1 DEF MonCheck, At, Mapping, NeedsConnection
      <3>3. Associated = {} /\ GivenUp = {}
        BY <3>1 DEF Associated, GivenUp, Conn
      <3>4. QED
        BY <2>1, <3>1, <3>2, <3>3 DEF GroupStep, Group!Next, Group!SwitchOff
    <2>5. QED
      BY <1>3, <2>2, <2>3, <2>4 DEF MonCheck
  <1>4. CASE MonConnect \/ MonSetActive \/ MonExpire
    <2>1. Phase' = Phase /\ Selected' = Selected
      BY <1>1, <1>4 DEF MonConnect, MonSetActive, MonExpire, At, Mapping, Searching
    <2>2. Associated' = Associated /\ GivenUp' = GivenUp
      BY <1>4 DEF MonConnect, Connect, MonSetActive, MonExpire, connVars, Associated,
                  GivenUp, Leaving
    <2>3. QED
      BY <2>1, <2>2 DEF GroupStep, Group!group
  <1>5. CASE MonSettle
    <2>1. active = next /\ next \in Conn /\ connected'[next]
      BY <1>5 DEF MonSettle, At, Connected, connVars, IInv, LoopVariable, ActiveConnection
    <2>2. ~NeedsConnection'
      BY <1>5, <2>1 DEF MonSettle, connVars, NeedsConnection, Disconnected, Conn
    <2>3. Phase = "trying" /\ Phase' = "serving" /\ Selected' = Selected
      BY <1>1, <1>5, <2>1, <2>2 DEF MonSettle, At, Mapping, Searching
    <2>4. Associated' = Associated /\ GivenUp' = GivenUp
      BY <1>5 DEF MonSettle, connVars, Associated, GivenUp, Leaving
    <2>5. QED
      BY <2>3, <2>4 DEF GroupStep, Group!Next, Group!Settle
  <1>6. CASE MonDisconnect
    <2>1. Phase' = Phase /\ Selected' = Selected
      BY <1>1, <1>6 DEF MonDisconnect, At, Mapping, Searching
    <2>2. Associated' = Associated /\ GivenUp' = GivenUp
      BY <1>1, <1>6 DEF MonDisconnect, Disconnect, Associated, GivenUp, Leaving, TypeOK
    <2>3. QED
      BY <2>1, <2>2 DEF GroupStep, Group!group
  <1>7. CASE MonCleanUp
    <2>1. Phase' = Phase /\ Selected' = Selected
      BY <1>1, <1>7 DEF MonCleanUp, At, Mapping, Searching
    <2>2. next \in Conn /\ life[next] = "closing"
      BY <1>7 DEF MonCleanUp, At, IInv, LoopVariable, ActiveConnection
    <2>3. GivenUp' = GivenUp
      BY <1>1, <1>7, <2>2 DEF MonCleanUp, EndDisconnect, GivenUp, Leaving, TypeOK
    <2>4. Associated' = Associated \ {next}
      BY <1>1, <1>7 DEF MonCleanUp, EndDisconnect, cleanUp, Associated, TypeOK
    <2>5. QED
      BY <2>1, <2>2, <2>3, <2>4
         DEF GroupStep, Group!Next, Group!Release, Group!group, Conn
  <1>8. CASE MonDrop
    <2>1. Phase = "trying" /\ Selected = next /\ Associated \subseteq GivenUp
      BY <1>1, <1>8 DEF MonDrop, At, Mapping, Searching, Exclusive
    <2>2. Associated' = Associated /\ GivenUp' = GivenUp /\ next \notin GivenUp
      BY <1>8 DEF MonDrop, At, connVars, Associated, GivenUp, Leaving, IInv, ActiveConnection
    <2>3. CASE next < N /\ mon' = "try" /\ next' = next + 1
      BY <1>1, <2>1, <2>2, <2>3 DEF Mapping, Searching, GroupStep, Group!Next, Group!TryNext
    <2>4. CASE next = N /\ mon' = "check"
      <3>1. Phase' = "idle" /\ Selected' = 0
        BY <1>1, <1>8, <2>4 DEF MonDrop, Mapping, NeedsConnection
      <3>2. QED
        BY <2>1, <2>2, <2>4, <3>1 DEF GroupStep, Group!Next, Group!TryNext
    <2>5. QED
      BY <1>8, <2>3, <2>4 DEF MonDrop
  <1>9. CASE MonDelete \/ MonJoin
    <2>1. Associated' = Associated /\ (NeedsConnection' <=> NeedsConnection)
      BY <1>9 DEF MonDelete, MonJoin, Stop, Deleted, Associated, NeedsConnection,
                  Disconnected
    <2>2. mon \in {"deleting", "joining"} /\ active' = active
      BY <1>9 DEF MonDelete, MonJoin, At
    <2>3. GivenUp' = GivenUp
      BY <1>1, <1>9 DEF MonDelete, MonJoin, Stop, Deleted, GivenUp, Leaving, TypeOK
    <2>4. CASE mon' \in {"deleting", "joining"}
      <3>1. Phase' = Phase /\ Selected' = Selected
        BY <1>1, <2>1, <2>2, <2>4 DEF Mapping
      <3>2. QED
        BY <2>1, <2>3, <3>1 DEF GroupStep, Group!group
    <2>5. CASE mon' = "ended"
      <3>1. Phase = "closing" /\ Phase' = "off" /\ Selected' = 0
        BY <1>1, <2>2, <2>5 DEF Mapping
      <3>2. GivenUp' = {}
        BY <2>5 DEF IInv, ThreadLives, GivenUp, Leaving
      <3>3. Associated' = {}
        BY <1>1, <2>5, <3>2 DEF Exclusive
      <3>4. QED
        BY <2>1, <2>3, <3>1, <3>2, <3>3 DEF GroupStep, Group!Next, Group!SwitchOff
    <2>6. QED
      BY <1>9, <2>4, <2>5 DEF MonDelete, MonJoin, NextDeletion
  <1>10. QED
    BY <1>2, <1>3, <1>4, <1>5, <1>6, <1>7, <1>8, <1>9 DEF MonStep

\* The passes of a connection's thread.
LEMMA ThreadRefines ==
    ASSUME IInv, IInv', NEW c \in Conn, ConnStep(c)
    PROVE  GroupStep
  <1>1. Mapping /\ Mapping' /\ Exclusive /\ Exclusive' /\ TypeOK /\ TypeOK'
    BY MappingNow, MappingNext, ExclusiveNow, ExclusiveNext DEF IInv
  <1>2. UNCHANGED <<mon, next, active>>
    BY DEF ConnStep, monVars
  <1>3. ASSUME Associated' = Associated, GivenUp' = GivenUp,
               NeedsConnection' <=> NeedsConnection
        PROVE  GroupStep
    BY <1>1, <1>2, <1>3, SameSelection DEF GroupStep, Group!group
  \* The flags of the connection that works for the owner show only outside a search.
  <1>4. ASSUME Wants(c), connected'[c] \/ connecting'[c],
               connected[c] => connected'[c]
        PROVE  Phase' = Phase /\ Selected' = Selected
    <2>1. CASE mon \in {"setActive", "wait", "expired"}
      BY <1>1, <1>2, <2>1 DEF Mapping, Searching
    <2>2. CASE mon \in {"check", "deleting", "joining"} /\ c = active /\ ~NeedsConnection
      <3>1. ~NeedsConnection'
        BY <1>2, <1>4, <2>2 DEF NeedsConnection, Disconnected
      <3>2. QED
        BY <1>1, <1>2, <2>2, <3>1, SameSelection
    <2>3. QED
      BY <1>4, <2>1, <2>2, WantedIsSelected
  <1>5. CASE PrepareFails(c) \/ PrepareWithoutOsi(c)
    <2>1. endpoint[c] = "null" /\ endpoint'[c] \in {"null", "idle"}
      BY <1>1, <1>5 DEF PrepareFails, PrepareWithoutOsi, Passing, IInv, Handles, TypeOK
    <2>2. UNCHANGED <<connecting, connected, life>>
      BY <1>5 DEF PrepareFails, PrepareWithoutOsi
    <2>3. \A d \in Conn : d # c => endpoint'[d] = endpoint[d]
      BY <1>1, <1>5 DEF PrepareFails, PrepareWithoutOsi, TypeOK
    <2>4. QED
      BY <1>2, <1>3, <2>1, <2>2, <2>3
         DEF Associated, GivenUp, Leaving, NeedsConnection, Disconnected
  <1>6. ASSUME NEW error \in ErrorReads, OpenAssociation(c, error)
        PROVE  GroupStep
    <2>1. Wants(c) /\ endpoint[c] = "null"
      BY <1>6 DEF OpenAssociation, Passing, IInv, Handles, Wants
    <2>2. Associated' = Associated /\ GivenUp' = GivenUp
      BY <1>1, <1>6, <2>1 DEF OpenAssociation, Associated, GivenUp, Leaving, TypeOK
    <2>3. connecting'[c] /\ connected' = connected
      BY <1>1, <1>6 DEF OpenAssociation, TypeOK
    <2>4. QED
      BY <1>4, <2>1, <2>2, <2>3 DEF GroupStep, Group!group
  <1>7. CASE Associate(c)
    <2>1. Associated' = Associated /\ (NeedsConnection' <=> NeedsConnection)
      BY <1>2, <1>7 DEF Associate, Associated, NeedsConnection, Disconnected
    <2>2. GivenUp' = GivenUp
      BY <1>1, <1>7 DEF Associate, Passing, GivenUp, Leaving, TypeOK
    <2>3. QED
      BY <1>3, <2>1, <2>2
  <1>8. CASE Install(c)
    <2>1. Wants(c)
      BY <1>8 DEF Install, IInv, PassStates, Wants
    <2>2. Associated' = Associated /\ GivenUp' = GivenUp
      BY <1>1, <1>8 DEF Install, Associated, GivenUp, Leaving, TypeOK
    <2>3. CASE mon \in {"setActive", "wait", "expired"}
      <3>1. Phase' = Phase /\ Selected' = Selected
        BY <1>1, <1>2, <2>3 DEF Mapping, Searching
      <3>2. QED
        BY <2>2, <3>1 DEF GroupStep, Group!group
    <2>4. CASE mon \in {"check", "deleting", "joining"} /\ c = active
      <3>1. connected[c] /\ connected' = connected
        BY <1>8, <2>1, <2>4 DEF Install, IInv, Wanted
      <3>2. ~NeedsConnection /\ ~NeedsConnection'
        BY <1>2, <2>4, <3>1 DEF NeedsConnection, Disconnected, Conn
      <3>3. QED
        BY <1>3, <2>2, <3>2
    <2>5. QED
      BY <2>1, <2>3, <2>4, WantedIsSelected
  <1>9. CASE Serve(c)
    <2>1. Wants(c)
      BY <1>9 DEF Serve, IInv, PassStates, Wants
    <2>2. Associated' = Associated /\ GivenUp' = GivenUp
      BY <1>1, <1>9 DEF Serve, Associated, GivenUp, Leaving, TypeOK
    <2>3. connected'[c]
      BY <1>1, <1>9 DEF Serve, TypeOK
    <2>4. QED
      BY <1>4, <2>1, <2>2, <2>3 DEF GroupStep, Group!group
  <1>10. CASE ConnectTimeout(c)
    <2>1. Wants(c) /\ c \notin Associated
      BY <1>10 DEF ConnectTimeout, Passing, Wants, Associated
    <2>2. Associated' = Associated /\ (NeedsConnection' <=> NeedsConnection)
      BY <1>2, <1>10 DEF ConnectTimeout, Associated, NeedsConnection, Disconnected
    <2>3. GivenUp' = GivenUp \cup {c}
      BY <1>1, <1>10 DEF ConnectTimeout, GivenUp, Leaving, TypeOK
    <2>4. Phase \in {"trying", "serving", "closing"} /\ Selected = c /\ c # 0
      BY <1>1, <2>1, WantedIsSelected DEF Mapping, Searching, Conn
    <2>5. Phase' = Phase /\ Selected' = Selected
      BY <1>1, <1>2, <2>2, SameSelection
    <2>6. QED
      BY <2>1, <2>2, <2>3, <2>4, <2>5 DEF GroupStep, Group!Next, Group!GiveUp
  <1>11. CASE ResetFlags(c)
    <2>1. Wants(c) /\ c \in GivenUp
      BY <1>11 DEF ResetFlags, IInv, PassStates, Wants, GivenUp, Leaving
    <2>2. Associated' = Associated /\ GivenUp' = GivenUp
      BY <1>1, <1>11 DEF ResetFlags, Associated, GivenUp, Leaving, TypeOK
    <2>3. CASE mon \in {"setActive", "wait", "expired"}
      <3>1. Phase' = Phase /\ Selected' = Selected
        BY <1>1, <1>2, <2>3 DEF Mapping, Searching
      <3>2. QED
        BY <2>2, <3>1 DEF GroupStep, Group!group
    <2>4. CASE mon \in {"check", "deleting", "joining"} /\ c = active /\ ~NeedsConnection
      <3>1. NeedsConnection'
        BY <1>1, <1>2, <1>11, <2>4 DEF ResetFlags, NeedsConnection, Disconnected, TypeOK
      <3>2. /\ Phase \in {"serving", "closing"} /\ Selected = c /\ Selected' = 0
            /\ Phase' = IF Phase = "serving" THEN "idle" ELSE "closing"
        BY <1>1, <1>2, <2>4, <3>1 DEF Mapping
      <3>3. QED
        BY <2>1, <2>2, <3>2 DEF GroupStep, Group!Next, Group!Lose
    <2>5. QED
      BY <2>1, <2>3, <2>4, WantedIsSelected
  <1>12. CASE ResetRequest(c)
    <2>1. Associated' = Associated /\ (NeedsConnection' <=> NeedsConnection)
      BY <1>2, <1>12 DEF ResetRequest, Associated, NeedsConnection, Disconnected
    <2>2. GivenUp' = GivenUp
      BY <1>1, <1>12 DEF ResetRequest, GivenUp, Leaving, TypeOK
    <2>3. QED
      BY <1>3, <2>1, <2>2
  <1>13. CASE ReleaseEndpoint(c)
    <2>1. Phase' = Phase /\ Selected' = Selected
      BY <1>1, <1>2, <1>13, SameSelection
         DEF ReleaseEndpoint, EndDisconnect, NeedsConnection, Disconnected
    <2>2. c \in GivenUp /\ GivenUp' = GivenUp \ {c}
      BY <1>1, <1>13 DEF ReleaseEndpoint, EndDisconnect, GivenUp, Leaving, TypeOK
    <2>3. Associated' = Associated \ {c}
      BY <1>1, <1>13 DEF ReleaseEndpoint, EndDisconnect, cleanUp, Associated, TypeOK
    <2>4. QED
      BY <2>1, <2>2, <2>3 DEF GroupStep, Group!Next, Group!Leave, Conn
  <1>14. CASE ReopenAfterLoss(c)
    <2>1. Associated' = Associated /\ GivenUp' = GivenUp
      BY <1>1, <1>14 DEF ReopenAfterLoss, cleanUp, Associated, GivenUp, Leaving, TypeOK
    <2>2. NeedsConnection' <=> NeedsConnection
      BY <1>2, <1>14 DEF ReopenAfterLoss, NeedsConnection, Disconnected
    <2>3. QED
      BY <1>3, <2>1, <2>2
  <1>15. CASE ThreadExit(c)
    <2>1. Phase' = Phase /\ Selected' = Selected
      BY <1>1, <1>2, <1>15, SameSelection DEF ThreadExit, NeedsConnection, Disconnected
    <2>2. GivenUp' = GivenUp
      BY <1>1, <1>15 DEF ThreadExit, GivenUp, Leaving, TypeOK
    <2>3. Associated' = Associated \ {c}
      BY <1>1, <1>15 DEF ThreadExit, cleanUp, Associated, TypeOK
    <2>4. QED
      BY <2>1, <2>2, <2>3 DEF GroupStep, Group!Next, Group!Release, Group!group, Conn
  <1>16. QED
    BY <1>5, <1>6, <1>7, <1>8, <1>9, <1>10, <1>11, <1>12, <1>13, <1>14, <1>15
       DEF ConnStep, ThreadStep

\* Answers of the servers and breaking links.
LEMMA EnvironmentRefines ==
    ASSUME IInv, IInv', NEW c \in Conn, Environment(c)
    PROVE  GroupStep
  <1>1. Mapping /\ Mapping' /\ Exclusive /\ Exclusive' /\ TypeOK /\ TypeOK'
    BY MappingNow, MappingNext, ExclusiveNow, ExclusiveNext DEF IInv
  <1>2. UNCHANGED <<mon, next, active, connecting, connected, life>>
    BY DEF Environment, LinkUp, LinkDown, ServerChanges, connVars, monVars
  <1>3. Phase' = Phase /\ Selected' = Selected /\ GivenUp' = GivenUp
    BY <1>1, <1>2, SameSelection DEF NeedsConnection, Disconnected, GivenUp, Leaving
  <1>4. CASE LinkUp(c)
    <2>1. Associated' = Associated \cup {c} /\ c \notin Associated
      BY <1>1, <1>4 DEF LinkUp, Associated, TypeOK
    <2>2. CASE c \in GivenUp
      BY <1>3, <2>1, <2>2 DEF GroupStep, Group!Next, Group!AnswerLate, Conn
    <2>3. CASE c \notin GivenUp
      <3>1. mon \in Searching => c = next
        BY <1>1, <1>2, <1>3, <2>1, <2>3 DEF Exclusive, Searching
      <3>2. mon \notin Searching
              => mon \in {"check", "deleting", "joining"} /\ c = active /\ ~NeedsConnection
        BY <1>1, <1>2, <1>3, <2>1, <2>3
           DEF Exclusive, Searching, TypeOK, MonitorSteps, NeedsConnection, Disconnected
      <3>3. Phase \in {"trying", "serving", "closing"} /\ Selected = c /\ c # 0
        BY <1>1, <3>1, <3>2 DEF Mapping, Conn
      <3>4. Associated \subseteq GivenUp
        BY <1>1, <2>1, <3>1, <3>2 DEF Exclusive, Searching
      <3>5. QED
        BY <1>3, <2>1, <3>3, <3>4 DEF GroupStep, Group!Next, Group!Associate
    <2>4. QED
      BY <2>2, <2>3
  <1>5. CASE LinkDown(c)
    <2>1. Associated' = Associated \ {c}
      BY <1>1, <1>5 DEF LinkDown, Associated, TypeOK
    <2>2. QED
      BY <1>3, <2>1 DEF GroupStep, Group!Next, Group!Release, Group!group, Conn
  <1>6. CASE ServerChanges(c)
    BY <1>3, <1>6 DEF ServerChanges, connVars, Associated, GroupStep, Group!group
  <1>7. QED
    BY <1>4, <1>5, <1>6 DEF Environment

\* Client implements Failover: whatever the threads, timers, servers and links do, an
\* observer of the group sees one association at a time apart from those given up, with
\* the server selected, servers tried in order and left only when lost.
THEOREM Refinement == Spec => ImplementsFailover
  <1>1. Init => Group!Init
    BY MappingNow, InitInv, OffIsEmpty
       DEF Init, Mapping, IInv, Group!Init
  <1>2. ASSUME IInv, IInv', [Next]_vars
        PROVE  GroupStep
    <2> USE DEF GroupStep, Group!group
    <2>1. Mapping /\ Mapping' /\ Exclusive /\ TypeOK /\ TypeOK'
      BY <1>2, MappingNow, MappingNext, ExclusiveNow DEF IInv
    <2>2. CASE StartPlugin
      <3>1. mon \in {"none", "ended"} /\ Phase = "off" /\ Selected = 0
        BY <1>2, <2>1, <2>2 DEF StartPlugin, IInv, ThreadLives, Mapping
      <3>2. Associated = {} /\ GivenUp = {}
        BY <1>2, <3>1, OffIsEmpty
      <3>3. Phase' = "idle" /\ Selected' = 0
        BY <2>1, <2>2 DEF StartPlugin, Mapping
      <3>4. Associated' = {} /\ GivenUp' = {}
        BY <2>2 DEF StartPlugin, prepareConnections, Associated, GivenUp, Leaving
      <3>5. QED
        BY <3>1, <3>2, <3>3, <3>4 DEF Group!Next, Group!SwitchOn
    <2>3. ASSUME UNCHANGED <<mon, next, active, connecting, connected, endpoint, life>>
          PROVE  GroupStep
      BY <2>1, <2>3, SameSelection
         DEF NeedsConnection, Disconnected, Associated, GivenUp, Leaving
    <2>4. CASE RequestStop \/ FinishStop \/ Crashed \/ UNCHANGED vars
      BY <2>3, <2>4 DEF RequestStop, FinishStop, Crashed, vars, connVars, monVars
    <2>5. CASE MonStep
      BY <1>2, <2>5, MonRefines
    <2>6. ASSUME NEW c \in Conn, ConnStep(c)
          PROVE  GroupStep
      BY <1>2, <2>6, ThreadRefines
    <2>7. ASSUME NEW c \in Conn, Poll(c)
          PROVE  GroupStep
      BY <2>3, <2>7 DEF Poll, connVars, monVars
    <2>8. ASSUME NEW c \in Conn, Environment(c)
          PROVE  GroupStep
      BY <1>2, <2>8, EnvironmentRefines
    <2>9. QED
      BY <1>2, <2>2, <2>4, <2>5, <2>6, <2>7, <2>8 DEF Next
  <1>3. IInv /\ IInv' /\ [Next]_vars => [Group!Next]_(Group!group)
    BY <1>2 DEF GroupStep
  <1>4. QED
    BY <1>1, <1>3, Invariance, PTL DEF Spec, ImplementsFailover, Group!Spec

=============================================================================
