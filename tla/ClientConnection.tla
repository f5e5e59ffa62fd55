-------------------------- MODULE ClientConnection --------------------------
(***************************************************************************)
(* TASE2ClientConnection (src/src/tase2_client_connection.cpp): the        *)
(* connections of one redundancy group.  Each connection has a thread,     *)
(* _conThread, that makes one pass over its state machine every 50 ms, and *)
(* flags that the monitoring thread of TASE2Client sets and reads.         *)
(*                                                                         *)
(* One action is one pass of the thread (the body of the while loop between*)
(* two sleeps), or one call the owner makes.  Where the owner can look at  *)
(* the flags or make a call in the middle of one, it has several actions,  *)
(* and life says how far it has come: setting up an association, and       *)
(* Disconnect, which resets the flags long before the endpoint is gone.    *)
(* The library's endpoint and the network are the environment: LinkUp,     *)
(* LinkDown and ServerChanges.                                             *)
(* Once the code has done something with an undefined outcome (fault) no   *)
(* later state is defined, and every action is disabled.                   *)
(***************************************************************************)
EXTENDS Naturals

CONSTANTS
    N,             \* number of connections configured for the group
    OsiConn,       \* the connections with an "osi" object (m_osiParameters)
    TransferSets,  \* the exchange configures DS transfer sets
    Failures,      \* creation calls that may fail: "endpoint", "client"
    ErrorReads     \* what the uninitialised `error' may read as: "ok", "error"

ASSUME NAssumption == N \in Nat
ASSUME TransferSetsAssumption == TransferSets \in BOOLEAN
ASSUME FailuresAssumption == Failures \subseteq {"endpoint", "client"}
ASSUME ErrorReadsAssumption == ErrorReads \subseteq {"ok", "error"}

\* The connections, in the order of m_connections; 0 is the null pointer.
Conn == 1 .. N

ASSUME OsiAssumption == OsiConn \subseteq Conn

\* The places of a pass that the owner may find the thread in.
Passes == {"installing", "settling", "expiring", "releasing", "cleaning"}
Lives == {"created", "loop", "closing", "stopping", "ended", "deleted"} \cup Passes
ConStates == {"IDLE", "CONNECTING", "CONNECTED", "FATAL_ERROR"}
EndpointStates == {"null", "idle", "opening", "connected", "closed"}
Clients == {"unset", "null", "live"}
SetStates == {"none", "live", "destroyed"}
Faults == {"none", "destroyTwice", "freeNullClient", "osiNull",
           "pollNoActive", "pollDeadHandle"}

VARIABLES
    life,          \* "loop": m_started, thread between two passes; "closing": in
                   \* the owner's Disconnect; "stopping": m_started reset; Passes
    connect,       \* m_connect: the owner wants this connection
    connecting,    \* m_connecting
    connected,     \* m_connected
    conState,      \* m_connectionState (CLOSED and WAIT_FOR_RECONNECT: never set)
    endpoint,      \* m_endpoint, with the state the library reports of it
    tase2client,   \* m_tase2client, not initialised by the constructor
    sets,          \* m_dsts and m_datasets: empty, valid, or holding freed entries
    reachable,     \* the servers that accept associations
    fault          \* the first use of a handle the code may not use, or "none"

connVars == <<life, connect, connecting, connected, conState, endpoint,
              tase2client, sets>>
groupVars == <<connVars, reachable, fault>>

\* The guard of every action: what happened so far is defined behaviour.
Defined == fault = "none"

-----------------------------------------------------------------------------
(* State the owner reads                                                    *)

Disconnected(c) == ~connecting[c] /\ ~connected[c]

Connected(c) == connected[c]

\* No connection objects yet, or the state their constructor leaves.
NewConnections ==
    /\ life = [c \in Conn |-> "created"]
    /\ connect = [c \in Conn |-> FALSE]
    /\ connecting = [c \in Conn |-> FALSE]
    /\ connected = [c \in Conn |-> FALSE]
    /\ conState = [c \in Conn |-> "IDLE"]
    /\ endpoint = [c \in Conn |-> "null"]
    /\ tase2client = [c \in Conn |-> "unset"]
    /\ sets = [c \in Conn |-> "none"]

\* TASE2Client::prepareConnections: a new object per configured connection.
prepareConnections ==
    /\ life' = [c \in Conn |-> "created"]
    /\ connect' = [c \in Conn |-> FALSE]
    /\ connecting' = [c \in Conn |-> FALSE]
    /\ connected' = [c \in Conn |-> FALSE]
    /\ conState' = [c \in Conn |-> "IDLE"]
    /\ endpoint' = [c \in Conn |-> "null"]
    /\ tase2client' = [c \in Conn |-> "unset"]
    /\ sets' = [c \in Conn |-> "none"]

-----------------------------------------------------------------------------
(* Releasing what a connection holds                                        *)

\* What goes wrong when connection c is cleaned up now: the entries of m_dsts
\* and m_datasets are destroyed but stay in the vectors, so a second clean-up
\* destroys them again; with an endpoint but no client, the library is handed a
\* null client to disconnect and destroy.
CleanUpFault(c) ==
    IF sets[c] = "destroyed" THEN "destroyTwice"
    ELSE IF endpoint[c] # "null" /\ tase2client[c] # "live" THEN "freeNullClient"
    ELSE "none"

\* Seeded bug: m_endpoint keeps its value.
cleanUpKeepsEndpoint(c) ==
    /\ fault' = CleanUpFault(c)
    /\ sets' = [sets EXCEPT ![c] = IF @ = "none" THEN "none" ELSE "destroyed"]
    /\ tase2client' = [tase2client EXCEPT ![c] =
                          IF endpoint[c] = "null" THEN @ ELSE "null"]
    /\ UNCHANGED endpoint

cleanUp(c) ==
    /\ fault' = CleanUpFault(c)
    /\ sets' = [sets EXCEPT ![c] = IF @ = "none" THEN "none" ELSE "destroyed"]
    /\ tase2client' = [tase2client EXCEPT ![c] =
                          IF endpoint[c] = "null" THEN @ ELSE "null"]
    /\ endpoint' = [endpoint EXCEPT ![c] = "null"]

-----------------------------------------------------------------------------
(* Calls the owner makes                                                    *)

Start(c) ==
    /\ life' = [life EXCEPT ![c] = "loop"]
    /\ UNCHANGED <<connect, connecting, connected, conState, endpoint,
                   tase2client, sets>>

Connect(c) ==
    /\ connect' = [connect EXCEPT ![c] = TRUE]
    /\ UNCHANGED <<life, connecting, connected, conState, endpoint,
                   tase2client, sets>>

\* Seeded bug: m_connect is not reset.
DisconnectKeepsConnect(c) ==
    /\ life' = [life EXCEPT ![c] = "closing"]
    /\ connecting' = [connecting EXCEPT ![c] = FALSE]
    /\ connected' = [connected EXCEPT ![c] = FALSE]
    /\ conState' = [conState EXCEPT ![c] = "IDLE"]
    /\ UNCHANGED <<connect, endpoint, tase2client, sets>>

\* The owner's Disconnect: the connection is told to rest ...
Disconnect(c) ==
    /\ life' = [life EXCEPT ![c] = "closing"]
    /\ connecting' = [connecting EXCEPT ![c] = FALSE]
    /\ connected' = [connected EXCEPT ![c] = FALSE]
    /\ connect' = [connect EXCEPT ![c] = FALSE]
    /\ conState' = [conState EXCEPT ![c] = "IDLE"]
    /\ UNCHANGED <<endpoint, tase2client, sets>>

\* Seeded bug: the endpoint is left open.
EndDisconnectKeepsEndpoint(c) ==
    /\ life' = [life EXCEPT ![c] = "loop"]
    /\ UNCHANGED <<connect, connecting, connected, conState, endpoint, tase2client,
                   sets, fault>>

\* ... and then cleaned up.
EndDisconnect(c) ==
    /\ cleanUp(c)
    /\ life' = [life EXCEPT ![c] = "loop"]
    /\ UNCHANGED <<connect, connecting, connected, conState>>

\* Seeded bug: the flag is not reset.
StopWithoutFlag(c) == UNCHANGED connVars

\* The first half of Stop: the flag is reset, the thread is joined later.
Stop(c) ==
    /\ life' = [life EXCEPT ![c] = "stopping"]
    /\ UNCHANGED <<connect, connecting, connected, conState, endpoint,
                   tase2client, sets>>

\* The end of the destructor: no thread is left (never started, or joined).
Deleted(c) ==
    /\ life' = [life EXCEPT ![c] = "deleted"]
    /\ UNCHANGED <<connect, connecting, connected, conState, endpoint,
                   tase2client, sets>>

-----------------------------------------------------------------------------
(* Passes of the connection's thread                                        *)

\* A pass that does something: the loop goes on and the owner asked for service.
Passing(c, s) ==
    /\ Defined
    /\ life[c] = "loop"
    /\ connect[c]
    /\ conState[c] = s

\* prepareConnection returns false: no endpoint, no endpoint because the TLS
\* files were rejected, or an endpoint without a client.
PrepareFails(c) ==
    /\ Passing(c, "IDLE")
    /\ \/ /\ "endpoint" \in Failures
          /\ endpoint' = [endpoint EXCEPT ![c] = "null"]
          /\ UNCHANGED tase2client
       \/ /\ "client" \in Failures
          /\ c \in OsiConn
          /\ endpoint' = [endpoint EXCEPT ![c] = "idle"]
          /\ tase2client' = [tase2client EXCEPT ![c] = "null"]
    /\ conState' = [conState EXCEPT ![c] = "FATAL_ERROR"]
    /\ UNCHANGED <<life, connect, connecting, connected, sets, fault>>

\* prepareConnection calls m_setOsiConnectionParameters, which dereferences
\* m_osiParameters whether or not the connection has any.
PrepareWithoutOsi(c) ==
    /\ Passing(c, "IDLE")
    /\ c \notin OsiConn
    /\ fault' = "osiNull"
    /\ endpoint' = [endpoint EXCEPT ![c] = "idle"]
    /\ UNCHANGED <<life, connect, connecting, connected, conState,
                   tase2client, sets>>

\* The endpoint is opened.  `error' was never assigned; what it reads as decides.
OpenAssociation(c, error) ==
    /\ Passing(c, "IDLE")
    /\ c \in OsiConn
    /\ endpoint' = [endpoint EXCEPT ![c] = "opening"]
    /\ tase2client' = [tase2client EXCEPT ![c] = "live"]
    /\ connecting' = [connecting EXCEPT ![c] = TRUE]
    /\ conState' = [conState EXCEPT ![c] =
                       IF error = "ok" THEN "CONNECTING" ELSE "FATAL_ERROR"]
    /\ UNCHANGED <<life, connect, connected, sets, fault>>

\* The association is up.
Associate(c) ==
    /\ Passing(c, "CONNECTING")
    /\ endpoint[c] = "connected"
    /\ life' = [life EXCEPT ![c] = "installing"]
    /\ UNCHANGED <<connect, connecting, connected, conState, endpoint, tase2client,
                   sets, fault>>

\* Data sets, transfer sets (each of them may be refused) and handlers are set up; the
\* association may be lost meanwhile.
Install(c) ==
    /\ Defined
    /\ life[c] = "installing"
    /\ life' = [life EXCEPT ![c] = "settling"]
    /\ \E granted \in {FALSE, TransferSets} :
           sets' = [sets EXCEPT ![c] =
                      IF granted /\ @ = "none" THEN "live" ELSE @]
    /\ conState' = [conState EXCEPT ![c] = "CONNECTED"]
    /\ connecting' = [connecting EXCEPT ![c] = FALSE]
    /\ UNCHANGED <<connect, connected, endpoint, tase2client, fault>>

\* m_connected is set after m_connecting has been reset.
Serve(c) ==
    /\ Defined
    /\ life[c] = "settling"
    /\ life' = [life EXCEPT ![c] = "loop"]
    /\ connected' = [connected EXCEPT ![c] = TRUE]
    /\ UNCHANGED <<connect, connecting, conState, endpoint, tase2client, sets, fault>>

\* Ten seconds passed without an association: the thread calls Disconnect itself.
ConnectTimeout(c) ==
    /\ Passing(c, "CONNECTING")
    /\ endpoint[c] # "connected"
    /\ life' = [life EXCEPT ![c] = "expiring"]
    /\ UNCHANGED <<connect, connecting, connected, conState, endpoint, tase2client,
                   sets, fault>>

\* The owner sees that the connection has given up and may ask for service again ...
ResetFlags(c) ==
    /\ Defined
    /\ life[c] = "expiring"
    /\ life' = [life EXCEPT ![c] = "releasing"]
    /\ connecting' = [connecting EXCEPT ![c] = FALSE]
    /\ connected' = [connected EXCEPT ![c] = FALSE]
    /\ UNCHANGED <<connect, conState, endpoint, tase2client, sets, fault>>

\* ... but a request made before m_connect is reset is forgotten ...
ResetRequest(c) ==
    /\ Defined
    /\ life[c] = "releasing"
    /\ life' = [life EXCEPT ![c] = "cleaning"]
    /\ connect' = [connect EXCEPT ![c] = FALSE]
    /\ conState' = [conState EXCEPT ![c] = "IDLE"]
    /\ UNCHANGED <<connecting, connected, endpoint, tase2client, sets, fault>>

\* ... and the endpoint, which may have come up since, goes last.
ReleaseEndpoint(c) ==
    /\ Defined
    /\ life[c] = "cleaning"
    /\ EndDisconnect(c)

\* The association is gone.  m_connected stays set, m_connect too: the next pass
\* opens a new association to the same server.
ReopenAfterLoss(c) ==
    /\ Passing(c, "CONNECTED")
    /\ endpoint[c] # "connected"
    /\ cleanUp(c)
    /\ conState' = [conState EXCEPT ![c] = "IDLE"]
    /\ UNCHANGED <<life, connect, connecting, connected>>

\* Seeded bug: no clean-up after the loop.
ThreadExitNoCleanUp(c) ==
    /\ Defined
    /\ life[c] = "stopping"
    /\ life' = [life EXCEPT ![c] = "ended"]
    /\ UNCHANGED <<connect, connecting, connected, conState, endpoint,
                   tase2client, sets, fault>>

\* After the loop.
ThreadExit(c) ==
    /\ Defined
    /\ life[c] = "stopping"
    /\ cleanUp(c)
    /\ life' = [life EXCEPT ![c] = "ended"]
    /\ UNCHANGED <<connect, connecting, connected, conState>>

ThreadStep(c) ==
    \/ PrepareFails(c)
    \/ PrepareWithoutOsi(c)
    \/ \E error \in ErrorReads : OpenAssociation(c, error)
    \/ Associate(c) \/ Install(c) \/ Serve(c)
    \/ ConnectTimeout(c) \/ ResetFlags(c) \/ ResetRequest(c) \/ ReleaseEndpoint(c)
    \/ ReopenAfterLoss(c)
    \/ ThreadExit(c)

-----------------------------------------------------------------------------
(* The library's endpoint and the network                                   *)

LinkUp(c) ==
    /\ Defined
    /\ endpoint[c] = "opening"
    /\ c \in reachable
    /\ endpoint' = [endpoint EXCEPT ![c] = "connected"]
    /\ UNCHANGED <<life, connect, connecting, connected, conState,
                   tase2client, sets, fault>>

\* An association breaks, or the attempt to open one is refused.
LinkDown(c) ==
    /\ Defined
    /\ \/ endpoint[c] = "connected"
       \/ endpoint[c] = "opening" /\ c \notin reachable
    /\ endpoint' = [endpoint EXCEPT ![c] = "closed"]
    /\ UNCHANGED <<life, connect, connecting, connected, conState,
                   tase2client, sets, fault>>

\* A server starts or stops accepting associations.
ServerChanges(c) ==
    /\ Defined
    /\ reachable' = IF c \in reachable THEN reachable \ {c}
                                       ELSE reachable \cup {c}
    /\ UNCHANGED <<connVars, fault>>

-----------------------------------------------------------------------------
(* The connections under an owner that makes any calls in a legal order      *)

Call(c) ==
    /\ Defined
    /\ \/ life[c] = "created" /\ Start(c) /\ UNCHANGED fault
       \/ life[c] = "loop" /\ Connect(c) /\ UNCHANGED fault
       \/ life[c] \in {"expiring", "releasing", "cleaning"} /\ Connect(c) /\ UNCHANGED fault
       \/ life[c] = "loop" /\ Disconnect(c) /\ UNCHANGED fault
       \/ life[c] = "closing" /\ EndDisconnect(c)
       \/ life[c] = "loop" /\ Stop(c) /\ UNCHANGED fault
       \/ life[c] \in {"created", "ended"} /\ Deleted(c) /\ UNCHANGED fault
    /\ UNCHANGED reachable

ConnInit ==
    /\ NewConnections
    /\ reachable \in SUBSET Conn
    /\ fault = "none"

ConnNext ==
    \E c \in Conn :
        \/ Call(c)
        \/ ThreadStep(c) /\ UNCHANGED reachable
        \/ LinkUp(c) /\ UNCHANGED reachable
        \/ LinkDown(c) /\ UNCHANGED reachable
        \/ ServerChanges(c)

ConnSpec == ConnInit /\ [][ConnNext]_groupVars

=============================================================================
