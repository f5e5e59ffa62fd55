-------------------------- MODULE ConnectionThread --------------------------
(***************************************************************************)
(* One TASE2ClientConnection, statement by statement: its thread,          *)
(* _conThread, and the monitoring thread of TASE2Client that calls Connect,*)
(* Disconnect and Stop on it.  ClientConnection takes a pass of the thread *)
(* and a call as one step each; here every write to a flag and every use of*)
(* a handle is a step of its own, with a guard and what it guards together.*)
(*                                                                         *)
(* The thread holds m_conLock in the places of Locked.  Of the monitor's   *)
(* calls only Stop takes it: nothing keeps Disconnect out of a pass.       *)
(* Overlaps says where the two may meet.  When they never do, the module   *)
(* implements ClientConnection: that is all its atomic steps rest on.      *)
(***************************************************************************)
EXTENDS Naturals

CONSTANTS
    Overlaps,      \* the places of a pass that a call may run into
    Tls,           \* UseTLS ()
    Osi,           \* the connection has an "osi" object (m_osiParameters)
    TransferSets,  \* the exchange configures DS transfer sets
    Failures,      \* the creations that may fail: "endpoint", "client"
    ErrorReads     \* what the uninitialised `error' may read as

\* The places of the thread inside a pass, and those where it holds m_conLock.
InPass == {"switch", "destroy", "create", "setOsi", "createEx", "mark", "connectEx",
           "fatal", "poll", "install", "setState", "resetConnecting", "setConnected",
           "timeout", "inService", "lost"}
Locked == {"mark", "install", "setState", "resetConnecting", "setConnected",
           "timeout", "inService", "lost", "cleanup"}

ASSUME OverlapsAssumption == Overlaps \subseteq InPass
ASSUME TlsAssumption == Tls \in BOOLEAN
ASSUME OsiPresenceAssumption == Osi \in BOOLEAN
ASSUME ThreadTransferSetsAssumption == TransferSets \in BOOLEAN
ASSUME ThreadFailuresAssumption == Failures \subseteq {"endpoint", "client"}
ASSUME ThreadErrorReadsAssumption == ErrorReads \subseteq {"ok", "error"}

VARIABLES
    th,           \* where the connection's thread is
    own,          \* what the monitoring thread is doing with the connection
    at,           \* where each of them is in Disconnect and cleanUp, or "none"
    started,      \* m_started
    connect, connecting, connected, conState,  \* as in ClientConnection
    endpoint,     \* m_endpoint; "freed" between its destruction and nulling it
    tase2client,  \* m_tase2client, likewise
    sets,         \* m_dsts and m_datasets, as in ClientConnection
    m_tlsConfig,  \* "null", "live" or "freed"
    leaked,       \* history: why a TLS configuration was lost without being destroyed
    before,       \* history: m_tase2client when the pass began
    reachable,    \* the server accepts associations
    fault         \* the first misuse of a handle, or "none"

flags == <<connect, connecting, connected, conState>>
handles == <<endpoint, tase2client, sets>>
tls == <<m_tlsConfig, leaked>>
vars == <<th, own, at, started, flags, handles, tls, before, reachable, fault>>

Threads == {"thread", "monitor"}

Init ==
    /\ th = "none" /\ own = "new" /\ at = [t \in Threads |-> "none"]
    /\ started = FALSE
    /\ connect = FALSE /\ connecting = FALSE /\ connected = FALSE
    /\ conState = "IDLE"
    /\ endpoint = "null" /\ tase2client = "unset" /\ before = "unset" /\ sets = "none"
    /\ m_tlsConfig = "null" /\ leaked = {}
    /\ reachable \in BOOLEAN
    /\ fault = "none"

Defined == fault = "none"

\* What goes wrong when a handle is given to the library.  Three misuses more have names
\* of their own, those of ClientConnection.
UseFault(handle) ==
    IF handle = "freed" THEN "useFreed"
    ELSE IF handle \in {"null", "unset"} THEN "useNull"
    ELSE "none"

\* A call runs between two passes, or into one.
MayCall(places) == th \in InPass => th \in places

\* A step of the thread, or of the monitor, from one place to another.
Thread(from, to) ==
    /\ Defined
    /\ th = from /\ th' = to
    /\ UNCHANGED <<own, started, before, reachable>>
Monitor(from, to) ==
    /\ Defined
    /\ own = from /\ own' = to
    /\ UNCHANGED <<before, reachable>>

-----------------------------------------------------------------------------
(* Disconnect and cleanUp, run by either thread                             *)

\* Seeded bug: cleanUp returns with the handles it destroyed still set.
NextPlaceKeepsHandles ==
    [connecting |-> "connected", connected |-> "connect", connect |-> "state",
     state |-> "sets", sets |-> "client",
     client |-> IF endpoint = "null" THEN "tls" ELSE "endpoint",
     endpoint |-> "tls", nulls |-> "tls", tls |-> "none"]

\* Seeded bug: the TLS configuration goes before the endpoint that uses it.
NextPlaceTlsFirst ==
    [connecting |-> "connected", connected |-> "connect", connect |-> "state",
     state |-> "sets", sets |-> "client",
     client |-> "tls", tls |-> IF endpoint = "null" THEN "none" ELSE "endpoint",
     endpoint |-> "nulls", nulls |-> "none"]

\* The statements of Disconnect in order; cleanUp begins at "sets".
NextPlace ==
    [connecting |-> "connected", connected |-> "connect", connect |-> "state",
     state |-> "sets", sets |-> "client",
     client |-> IF endpoint = "null" THEN "tls" ELSE "endpoint",
     endpoint |-> "nulls", nulls |-> "tls", tls |-> "none"]

\* What goes wrong at a place of a clean-up: sets that the last one destroyed are still
\* in their vectors, and an endpoint without a client is given a null one to destroy.
ReleaseFault(place) ==
    CASE place = "sets" /\ sets = "destroyed" -> "destroyTwice"
      [] place = "client" /\ endpoint # "null" ->
            IF tase2client \in {"null", "unset"} THEN "freeNullClient"
            ELSE UseFault(tase2client)
      [] place = "endpoint" -> UseFault(endpoint)
      [] OTHER -> "none"

\* One statement of thread t: a flag is reset; the transfer sets and data sets are
\* destroyed, and stay in their vectors; the client is disconnected and destroyed, if
\* there is an endpoint; the endpoint is destroyed; both pointers are nulled; the TLS
\* configuration, if there is one, is destroyed.
Release(t) ==
    LET place == at[t] IN
    /\ Defined
    /\ place # "none"
    /\ at' = [at EXCEPT ![t] = NextPlace[place]]
    /\ connecting' = (connecting /\ place # "connecting")
    /\ connected' = (connected /\ place # "connected")
    /\ connect' = (connect /\ place # "connect")
    /\ conState' = IF place = "state" THEN "IDLE" ELSE conState
    /\ fault' = ReleaseFault(place)
    /\ sets' = IF place = "sets" /\ sets = "live" THEN "destroyed" ELSE sets
    /\ tase2client' = IF place = "client" /\ endpoint # "null" THEN "freed"
                      ELSE IF place = "nulls" THEN "null"
                      ELSE tase2client
    /\ endpoint' = IF place = "endpoint" THEN "freed"
                   ELSE IF place = "nulls" THEN "null"
                   ELSE endpoint
    /\ m_tlsConfig' = IF place = "tls" THEN "null" ELSE m_tlsConfig
    /\ UNCHANGED <<th, own, started, before, reachable, leaked>>

Begin(t, place) == at' = [at EXCEPT ![t] = place]

-----------------------------------------------------------------------------
(* The thread                                                               *)

\* The head of the loop: m_started, then m_connect.
Top ==
    /\ \/ ~started /\ Thread("top", "exit")
       \/ started /\ connect /\ Thread("top", "switch")
    /\ own = "disconnect" => th' \in Overlaps
    /\ UNCHANGED <<at, flags, handles, fault, tls>>

\* The switch on m_connectionState.  Nothing is done about a fatal error.
Switch ==
    /\ \/ conState = "IDLE" /\ Thread("switch", "destroy")
       \/ conState = "CONNECTING" /\ Thread("switch", "poll")
       \/ conState = "CONNECTED" /\ Thread("switch", "inService")
       \/ conState = "FATAL_ERROR" /\ Thread("switch", "top")
    /\ own = "disconnect" => th' \in Overlaps \cup {"top"}
    /\ UNCHANGED <<at, flags, handles, fault, tls>>

\* An endpoint left over is destroyed; its client is not.
DestroyOld ==
    /\ Defined
    /\ th = "destroy" /\ th' = "create"
    /\ before' = tase2client
    /\ endpoint' = "null"
    /\ fault' = IF endpoint = "freed" THEN "useFreed" ELSE "none"
    /\ UNCHANGED <<own, at, started, flags, tase2client, sets, reachable, tls>>

\* The key and the certificate of the client must be configured, readable and
\* accepted, or the TLS configuration just created is forgotten; what is wrong with
\* the certificates of others is ignored.
RejectFiles ==
    /\ Tls
    /\ Thread("create", "fatal")
    /\ leaked' = leaked \cup {"rejected"}
    /\ UNCHANGED <<at, flags, handles, m_tlsConfig, fault>>

\* Seeded bug: the TLS configuration of an endpoint that could not be created is
\* forgotten.
CreateEndpointForgets ==
    /\ \/ /\ Thread("create", "setOsi") /\ endpoint' = "idle"
          /\ leaked' = IF m_tlsConfig = "live" THEN leaked \cup {"replaced"} ELSE leaked
          /\ m_tlsConfig' = IF Tls THEN "live" ELSE m_tlsConfig
       \/ /\ "endpoint" \in Failures
          /\ Thread("create", "fatal") /\ endpoint' = "null"
          /\ leaked' = IF Tls THEN leaked \cup {"failed"} ELSE leaked
          /\ UNCHANGED m_tlsConfig
    /\ UNCHANGED <<at, flags, tase2client, sets, fault>>

\* m_tlsConfig takes the TLS configuration of the endpoint; one of an endpoint that
\* could not be created is destroyed.
CreateEndpoint ==
    /\ \/ /\ Thread("create", "setOsi") /\ endpoint' = "idle"
          /\ leaked' = IF m_tlsConfig = "live" THEN leaked \cup {"replaced"} ELSE leaked
          /\ m_tlsConfig' = IF Tls THEN "live" ELSE m_tlsConfig
       \/ /\ "endpoint" \in Failures
          /\ Thread("create", "fatal") /\ endpoint' = "null"
          /\ UNCHANGED tls
    /\ UNCHANGED <<at, flags, tase2client, sets, fault>>

\* m_setOsiConnectionParameters dereferences m_osiParameters in any case.
SetOsi ==
    /\ Thread("setOsi", "createEx")
    /\ fault' = IF Osi THEN UseFault(endpoint) ELSE "osiNull"
    /\ UNCHANGED <<at, flags, handles, tls>>

\* An endpoint that gets no client stays.
CreateClient ==
    /\ \/ Thread("createEx", "mark") /\ tase2client' = "live"
       \/ /\ "client" \in Failures
          /\ Thread("createEx", "fatal") /\ tase2client' = "null"
    /\ fault' = UseFault(endpoint)
    /\ UNCHANGED <<at, flags, endpoint, sets, tls>>

MarkConnecting ==
    /\ Thread("mark", "connectEx")
    /\ conState' = "CONNECTING"
    /\ connecting' = TRUE
    /\ UNCHANGED <<at, connect, connected, handles, fault, tls>>

ConnectEx(error) ==
    /\ Thread("connectEx", IF error = "ok" THEN "top" ELSE "fatal")
    /\ fault' = UseFault(tase2client)
    /\ endpoint' = IF endpoint = "idle" THEN "opening" ELSE endpoint
    /\ UNCHANGED <<at, flags, tase2client, sets, tls>>

MarkFatal ==
    /\ Thread("fatal", "top")
    /\ conState' = "FATAL_ERROR"
    /\ UNCHANGED <<at, connect, connecting, connected, handles, fault, tls>>

\* The endpoint is asked for its state; without an association the timer decides.
PollEndpoint ==
    /\ \/ /\ endpoint = "connected" /\ Thread("poll", "install")
          /\ UNCHANGED at
       \/ /\ endpoint # "connected" /\ Thread("poll", "top")
          /\ UNCHANGED at
       \/ /\ endpoint # "connected" /\ Thread("poll", "timeout")
          /\ Begin("thread", "connecting")
    /\ fault' = UseFault(endpoint)
    /\ UNCHANGED <<flags, handles, tls>>

\* Data sets, transfer sets and handlers are set up with the client.  A transfer set that
\* is granted and its data set go into their vectors together.
Install ==
    /\ Thread("install", "setState")
    /\ fault' = UseFault(tase2client)
    /\ \E granted \in {FALSE, TransferSets} :
           sets' = IF granted /\ sets = "none" THEN "live" ELSE sets
    /\ UNCHANGED <<at, flags, endpoint, tase2client, tls>>

SetState ==
    /\ Thread("setState", "resetConnecting")
    /\ conState' = "CONNECTED"
    /\ UNCHANGED <<at, connect, connecting, connected, handles, fault, tls>>

ResetConnecting ==
    /\ Thread("resetConnecting", "setConnected")
    /\ connecting' = FALSE
    /\ UNCHANGED <<at, connect, connected, conState, handles, fault, tls>>

SetConnected ==
    /\ Thread("setConnected", "top")
    /\ connected' = TRUE
    /\ UNCHANGED <<at, connect, connecting, conState, handles, fault, tls>>

\* In service the endpoint is asked for its state again.
CheckService ==
    /\ \/ /\ endpoint = "connected" /\ Thread("inService", "top")
          /\ UNCHANGED at
       \/ /\ endpoint # "connected" /\ Thread("inService", "lost")
          /\ Begin("thread", "sets")
    /\ fault' = UseFault(endpoint)
    /\ UNCHANGED <<flags, handles, tls>>

\* What follows cleanUp in the pass, or Disconnect, or the loop.
Released ==
    /\ at["thread"] = "none"
    /\ \/ Thread("timeout", "top") /\ UNCHANGED conState
       \/ Thread("lost", "top") /\ conState' = "IDLE"
       \/ Thread("cleanup", "ended") /\ UNCHANGED conState
    /\ UNCHANGED <<at, connect, connecting, connected, handles, fault, tls>>

\* The loop is over.
CleanUpAfterLoop ==
    /\ Thread("exit", "cleanup")
    /\ Begin("thread", "sets")
    /\ UNCHANGED <<flags, handles, fault, tls>>

ThreadNext ==
    \/ Top \/ Switch \/ DestroyOld \/ RejectFiles \/ CreateEndpoint \/ SetOsi
    \/ CreateClient \/ MarkConnecting
    \/ \E error \in ErrorReads : ConnectEx(error)
    \/ MarkFatal \/ PollEndpoint \/ Install \/ SetState \/ ResetConnecting
    \/ SetConnected \/ CheckService \/ Released \/ CleanUpAfterLoop
    \/ Release("thread")

-----------------------------------------------------------------------------
(* The monitoring thread                                                    *)

Start ==
    /\ Monitor("new", "idle")
    /\ started' = TRUE
    /\ th' = "top"
    /\ UNCHANGED <<at, flags, handles, fault, tls>>

\* The monitor asks again as soon as it sees the flags: also in the middle of the
\* thread's own Disconnect.
Connect ==
    /\ MayCall(Overlaps \cup {"timeout"})
    /\ Monitor("idle", "wait")
    /\ connect' = TRUE
    /\ UNCHANGED <<th, at, started, connecting, connected, conState, handles, fault, tls>>

\* The wait ends: the connection is in service ...
Settle ==
    /\ connected
    /\ Monitor("wait", "idle")
    /\ UNCHANGED <<th, at, started, flags, handles, fault, tls>>

\* ... or the backup timeout passed while it was not.
Expire ==
    /\ ~connected
    /\ Monitor("wait", "expired")
    /\ UNCHANGED <<th, at, started, flags, handles, fault, tls>>

\* The connection may have come into service since.
Disconnect ==
    /\ MayCall(Overlaps)
    /\ Monitor("expired", "disconnect")
    /\ Begin("monitor", "connecting")
    /\ UNCHANGED <<th, started, flags, handles, fault, tls>>

Disconnected ==
    /\ at["monitor"] = "none"
    /\ Monitor("disconnect", "idle")
    /\ UNCHANGED <<th, at, started, flags, handles, fault, tls>>

Stop ==
    /\ th \notin Locked
    /\ Monitor("idle", "join")
    /\ started' = FALSE
    /\ UNCHANGED <<th, at, flags, handles, fault, tls>>

Join ==
    /\ th = "ended"
    /\ Monitor("join", "deleted")
    /\ UNCHANGED <<th, at, started, flags, handles, fault, tls>>

MonitorNext ==
    \/ Start \/ Connect \/ Settle \/ Expire \/ Disconnect \/ Disconnected \/ Stop \/ Join
    \/ Release("monitor")

-----------------------------------------------------------------------------
(* The library's endpoint and the network, as in ClientConnection           *)

LinkChanges ==
    /\ \/ endpoint = "opening" /\ reachable /\ endpoint' = "connected"
       \/ endpoint = "opening" /\ ~reachable /\ endpoint' = "closed"
       \/ endpoint = "connected" /\ endpoint' = "closed"
    /\ UNCHANGED <<th, own, at, started, flags, tase2client, sets, before, reachable, fault,
                   tls>>

ServerChanges ==
    /\ reachable' = ~reachable
    /\ UNCHANGED <<th, own, at, started, flags, handles, before, fault, tls>>

\* The process is gone: nothing more happens.
Crashed == ~Defined /\ UNCHANGED vars

Next ==
    \/ ThreadNext \/ MonitorNext
    \/ Defined /\ LinkChanges
    \/ Defined /\ ServerChanges
    \/ Crashed

Spec == Init /\ [][Next]_vars

-----------------------------------------------------------------------------
(* The passes and calls as single steps                                     *)

\* A pass that opens an association shows when it is through, one that installs the
\* handlers when it begins, with the flags and when it ends.
Preparing == Defined /\ th \in {"create", "setOsi", "createEx", "mark", "connectEx"}
Installing == th \in {"install", "setState", "resetConnecting"}

\* Thread t is in cleanUp, or in the Disconnect that ends with it.
InRelease(t) == IF t = "monitor" THEN own = "disconnect"
                                 ELSE th \in {"timeout", "lost", "cleanup"}

\* A clean-up shows when the endpoint is destroyed, or would have been; the sets and the
\* client, which go before, are held for no longer.
Over(t) == ~Defined \/ at[t] \in {"nulls", "tls", "none"}
CleanedUpBy(t) == InRelease(t) /\ Over(t)
Cleaned == \E t \in Threads : CleanedUpBy(t)
InCleanUp == \E t \in Threads : InRelease(t) /\ ~Over(t)

\* A Disconnect of the monitor shows its flags when it begins, one of the thread when it
\* has reset both flags that the monitor looks at, and then the request.
Closing == InRelease("monitor") /\ ~Over("monitor")
Expiring == th = "timeout" /\ (at["thread"] = "connecting" \/ (at["thread"] = "connected" /\ connected))
Releasing == th = "timeout" /\ ~Expiring /\ at["thread"] \in {"connected", "connect"}
Cleaning == th = "timeout" /\ ~Over("thread") /\ ~Expiring /\ ~Releasing

Life ==
    CASE own = "new"                     -> "created"
      [] own = "deleted"                 -> "deleted"
      [] th = "ended" /\ own # "deleted" -> "ended"
      [] th = "cleanup"                  -> IF Over("thread") THEN "ended" ELSE "stopping"
      [] th = "exit"                     -> "stopping"
      [] Closing                         -> "closing"
      [] Installing                      -> "installing"
      [] th = "setConnected"             -> "settling"
      [] Expiring                        -> "expiring"
      [] Releasing                       -> "releasing"
      [] Cleaning                        -> "cleaning"
      [] OTHER                           -> "loop"

Requested == connect /\ own # "disconnect"

Connecting == (connecting \/ Expiring) /\ own # "disconnect" /\ ~Preparing

Connected == connected /\ own # "disconnect"

ConState ==
    CASE Preparing \/ own = "disconnect" \/ Cleaning     -> "IDLE"
      [] th = "lost" /\ Over("thread")                   -> "IDLE"
      [] th = "fatal"                                    -> "FATAL_ERROR"
      [] Installing                                      -> "CONNECTING"
      [] OTHER                                           -> conState

Endpoint == IF Preparing \/ Cleaned THEN "null" ELSE endpoint

ClientHandle ==
    CASE Preparing                                       -> before
      [] Cleaned /\ endpoint # "null"                    -> "null"
      [] InCleanUp /\ tase2client = "freed"              -> "live"
      [] OTHER                                           -> tase2client

Sets ==
    CASE th \in {"setState", "resetConnecting"} /\ sets = "live" -> "none"
      [] \/ InCleanUp /\ sets = "destroyed"
            /\ \E t \in Threads : at[t] \in {"client", "endpoint"} -> "live"
      [] OTHER -> sets

Coarse == INSTANCE ClientConnection WITH
    N <- 1,
    OsiConn <- IF Osi THEN {1} ELSE {},
    Failures <- Failures \cup (IF Tls THEN {"endpoint"} ELSE {}),
    life <- [c \in {1} |-> Life],
    connect <- [c \in {1} |-> Requested],
    connecting <- [c \in {1} |-> Connecting],
    connected <- [c \in {1} |-> Connected],
    conState <- [c \in {1} |-> ConState],
    endpoint <- [c \in {1} |-> Endpoint],
    tase2client <- [c \in {1} |-> ClientHandle],
    sets <- [c \in {1} |-> Sets],
    reachable <- IF reachable THEN {1} ELSE {}

\* As long as the monitor's calls stay out of the passes, every pass and every call is
\* the steps of ClientConnection, whatever the network does meanwhile, and goes wrong
\* where they do: with what a failed creation or an earlier clean-up has left.
ImplementsConnection == Coarse!ConnSpec

\* The TLS configuration of an endpoint lives as long as the endpoint: it is destroyed
\* last in every clean-up, and kept by every other way out of a pass.
TlsOutlivesEndpoint ==
    Tls /\ endpoint \notin {"null", "freed"} => m_tlsConfig = "live"

\* Every TLS configuration is destroyed in the end, except those whose files were
\* rejected: none is replaced, none is left when the thread has ended.
TlsReleased ==
    /\ leaked \subseteq {"rejected"}
    /\ th = "ended" => m_tlsConfig = "null"

\* No thread gives the library an endpoint or a client that the other one has released:
\* what goes wrong in a pass that no call meets is only what ClientConnection shows too,
\* sets that were destroyed already, a client whose creation failed and OSI parameters
\* that are not there.
NoStaleHandle == fault \notin {"useNull", "useFreed"}

=============================================================================
