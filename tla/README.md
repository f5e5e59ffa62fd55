# Verification of the TASE.2 south plugin

TLA+ models of `fledge-south-tase2`, the TLC runs that check them and the proofs
that TLAPS checks. Paths are relative to the repository root (`src/`, `include/`,
`tests/`); `tase2_client*.cpp` are in `src/`.

## 1. The system

A Fledge south service loads the plugin and calls it from its own threads. The
plugin connects to one of a *redundancy group* of TASE.2 servers, polls data
points, receives reports and sends commands.

| component | state | operations | interacts with |
|---|---|---|---|
| plugin entry points (`plugin.cpp`) | the `TASE2` object | init, start, register_ingest, reconfigure, shutdown, operation | calls `TASE2` |
| `TASE2` (`tase2.cpp`) | `m_client`, `m_config`, the ingest callback | setJsonConfig, start, stop, operation, ingest | owns `TASE2Client` |
| `TASE2Client` (`tase2_client.cpp`) | `m_connections`, `m_active_connection`, `m_started`, the monitoring thread | start, stop, `_monitoringThread`, sendCommand and the two set points, handleAllValues, handleValue | sets and reads flags of the connections; is called by them to poll and to deliver reports |
| `TASE2ClientConnection` | `m_connect`, `m_connecting`, `m_connected`, `m_connectionState`, `m_endpoint`, `m_tase2client`, `m_dsts`, `m_datasets`, its thread | Start, Connect, Disconnect, Stop, `_conThread`, prepareConnection, cleanUp | the TASE.2 library and its thread |
| `TASE2ClientConfig` | exchange definitions, polled points, data sets, transfer sets, connections, TLS and OSI parameters | three imports, look-ups | read by everything, from every thread, never locked |
| TASE.2 library, servers | endpoint states, values, reports | external | callbacks in a thread of its own |

What makes it hard:

* *Concurrency.* One monitoring thread, one thread per connection, the library's
  threads and the service's threads share plain `bool`s and pointers.
  `m_activeConnectionMtx` is taken by the monitor only, `m_conLock` by a
  connection's thread and by `Stop`; `Disconnect` called by the monitor and every
  command take neither.
* *Timers.* The monitor gives an attempt up after `backupTimeout` (5 s by default),
  the thread of the connection by itself after 10 s, and after a loss the thread
  reconnects by itself while the monitor watches.
* *Failures.* Links break, servers refuse, endpoint or client creation fails, reads
  fail, data sets and transfer sets are refused.
* *Undefined behaviour.* `Tase2_ClientError error` is tested without having been
  assigned, `m_tase2client` is not initialised, `m_osiParameters` may be null.

What makes each component correct: *failover* - one association at a time, a server
in service is not abandoned, the group always gets back in service, a stop always
completes and leaves nothing behind; *connection* - every handle is destroyed once
and not used after; *commands* - what a command uses exists; *acquisition* - every
reading has the label of its point, no point goes back to an older value, the latest
value arrives; *configuration* - a point that the data sets spell as the exchange does is
acquired in at most one way, so that its readings have one order. (It may be in none: a
data set takes its points out of the polled ones whether or not a transfer set for it is
ever enabled. Spelled `domain/name` it may come in both ways.)
The hazards behind these, line by line, are in `PROJECT.json`; one without a property has a
note saying why.

## 2. Modules

    ClientConnection <-- Client <-- Control <-- Plugin
          ^                |
          | implements     | implements
    ConnectionThread    Failover

    Exchange <-- Configuration <-+
       ^                         +-- Acquisition <-- Reporting
       +------- DataObject <-----+

    proofs:     ClientProofs <-- RefinementProofs, ControlProofs <-- PluginProofs
                ThreadProofs <-- ThreadRefinementProofs
                ConfigurationProofs <-- ReportingProofs
    instances:  MCClient, MCControl, MCPlugin, MCReporting

(`A <-- B`: B extends A.) The two families share nothing but the configuration: the first
is about who is connected, the second about what comes over one connection.

**ClientConnection** - the connections of the group. One action is one pass of
`_conThread` (the body of the loop between two sleeps) or one call of the owner, or a part of
one where others can see or do something in between. `life` is `m_started` and the thread
together, with the place inside such a pass; `endpoint` is `m_endpoint` with the
state the library reports of it; `tase2client` distinguishes the uninitialised, null
and live handle; `sets` says whether `m_dsts`/`m_datasets` are empty, valid or full
of destroyed entries. The passes: `PrepareFails`, `PrepareWithoutOsi`,
`OpenAssociation` (with what the uninitialised `error` reads as); `Associate`, `Install` and
`Serve` (association found, sets and handlers set up and `m_connecting` reset, `m_connected`
set); `ConnectTimeout`, `ResetFlags`, `ResetRequest` and `ReleaseEndpoint` (the thread's own
`Disconnect`, which the owner sees long before it is over: it may connect the next server
while the endpoint of this one is still there, and a `Connect` of this one may be
overwritten); `ReopenAfterLoss`; `ThreadExit`. The owner's `Disconnect` is `Disconnect` and
`EndDisconnect`, with the flags in the first and `cleanUp` in the second. `CON_STATE_CLOSED` and
`CON_STATE_WAIT_FOR_RECONNECT` are never assigned from a reachable state and are
left out. The polling body of a pass in service is `Poll` of Client. `fault` records
the first undefined use of a handle; nothing is modelled after it.

**Client** - `TASE2::start/stop`, `TASE2Client::start/stop` and `_monitoringThread`
over any number `N` of connections, one step per statement that touches shared
state (`mon` is the program counter, `next` the loop variable, `active`
`m_active_connection`). `MonExpire` and `MonDisconnect` are apart, so the thread of
the connection may do anything between the timer's test and `Disconnect`; so are
`MonConnect` and `MonSetActive`, and the two halves of `Disconnect` (`MonDisconnect`,
`MonCleanUp`). `delete` of a connection is `MonDelete` (its `Stop`)
and `MonJoin`.

**Failover** - the abstract redundancy group: a phase, the server selected, the
set of associations, and the servers `leaving`: given up without an answer and not yet
gone, which may still answer (`AnswerLate`). Client implements it under the mapping at its end
(`ImplementsFailover`).

**ConnectionThread** - one connection again, with every write of a flag and every use
of a handle a step of its own, and `m_conLock` as the places in which `Stop` has to
wait. `Top` reads `m_started` and `m_connect`, `Switch` the state; `Expire` is the test of
the backup timer, `Disconnect` what follows it. At its end each variable of
ClientConnection is an operator over the place of the thread and of a clean-up (`Life`,
`Requested`, `ConState`, `ClientHandle` and so on): a pass shows when it is decided, a call
when it begins. With `Tls` it follows the TLS configuration as well: created in
`prepareConnection`, forgotten when the files are rejected (`RejectFiles`), destroyed
or kept with the outcome of `Tase2_Endpoint_create` (`CreateEndpoint`), destroyed last
in `cleanUp`. `Osi`, `TransferSets` and `Failures` are those of ClientConnection: the OSI
parameters are read whether or not there are any (`SetOsi`), creating the endpoint or the
client may fail (an endpoint without a client stays, `CreateClient`), and the transfer sets
and data sets that `cleanUp` destroys stay in their vectors (`sets`, `ReleaseFault`). What
goes wrong with these goes wrong in the same place in ClientConnection. `before` and `leaked`
are history variables. See section 4.

**Control** - an operation of the service, step by step, beside everything in Client:
test of `m_client`, look-up, test of `m_active_connection`, second read and use of its
`m_tase2client` (`Send`), the wait for the answer in the library (`Answer`) and the
acknowledgement. The three kinds of command have the same steps. `target` is the connection
whose client the operation waits in, 0 once a clean-up has destroyed that client. An
operation inside a `TASE2Client` that is deleted becomes an `orphan`. `calm` is a history
variable: since the operation began, the plugin has been running and its active connection
in service. `UndisturbedOperations` speaks of those operations only: what an operation meets
that a stop, a loss or a failover overtakes is undefined behaviour in the code
(`CommandHasClient` is violated, and a stop is not announced to operations at all).

**Plugin** - the entry points of `plugin.cpp` over Control. `svc` is what the service has
called; a call that waits (`stop` inside reconfigure or shutdown) is several steps, with
the threads of the client between them. `m_config` and `clientConfig` are the configuration
TASE2 owns and the one its client was given, named by the number of the category they came
from. `category.items` is what `itemExists` answers, `throws` says that the import
throws. `Operating = FALSE` leaves the operations out of a run: they change nothing of the
client.

**Exchange** - which points are defined and which are polled: the tables that
`importExchangeConfig` builds, as functions of the document. **Configuration** - what
`setJsonConfig` makes of a document and a stack: connections (passed over, imported, or
ending the import), selectors byte by byte (`Parsing` and `Importing` are the loops, as
functions of the number of turns taken), data sets, transfer sets, the points they
take out of the polled ones, and every early return. **DataObject** - the type name, the
members and the getter of a data object, by type.

**Acquisition** - polling (label pushed, value read, later `sendData` one by one) and the
report handler, in two threads. **Reporting** - the association beneath: data sets created,
transfer sets reserved and enabled one by one, handlers installed, service, loss, and all
over again, while the server changes and reports values and may refuse any request with the
link up. `reserved` are the transfer sets that got one of the server's, `enabled` those the
server accepted with all that was written to them, `refused` those for which it refused a
request it could have granted; what the client keeps of them (`m_dsts`, `m_datasets`, never
cleared) is `sets` of ClientConnection. `value`, `lastPolled`, `lastReported` and the versions in
`reports` and `datapoints` count the changes of a point, which is all that the properties
tell apart of a value.

**MC\*** modules give constants their values for TLC. Definitions marked *Seeded bug*
are variants of the action they stand before; no specification uses them, they show
that the properties can fail.

## 3. Runs

| run | constants | shows |
|---|---|---|
| `client_safety` | 3 servers, the third without OSI parameters, transfer sets, all creation failures, `error` reads as either, polling | `TypeOK`, `SingleAssociation`, `OpenIsActive`, `NothingLeft`, `StopNotBlocked`, `IInv`, `StaysWithServer`, `PollRacesOnlySelection`, `NullClientOnlyAfterFailedCreate`, `StopBounded`, `ImplementsFailover` |
| `plugin_liveness` | 2 servers, three categories, one reconfigure, no failing creation, `error` reads as OK, no transfer sets, no operations | `Recovery`, `StopTerminates`, `RestartsAfterReconfigure` under fairness |
| `fatal_after_loss` | Client with 2 servers, `error` may read as an error | *violated*: `Recovery` |
| `double_destroy` | 1 server with transfer sets | *violated*: `NoDoubleDestroy` |
| `default_config_osi` | 1 server without OSI parameters | *violated*: `OsiNotDereferenced` |
| `thread_passes` | no overlap, TLS, transfer sets, both creations may fail, files may be rejected | `NoStaleHandle`, `TlsOutlivesEndpoint`, `TlsReleased`, `ImplementsConnection` |
| `thread_overlap` | `Disconnect` may run into a poll of the endpoint | *violated*: `NoStaleHandle` |
| `control_safety` | 2 servers, five categories, one reconfigure | `PluginTypeOK`, `ConfigOutlivesClient`, `ClientNeverLost`, `StaleOnlyWithoutItems`, `UndisturbedOperations`, `DeletedOnlyByStop` |
| `command_handle` | 1 server | *violated*: `CommandHasClient` |
| `reconfigure_config` | 1 server, the items of the default configuration | *violated*: `ConfigInForce` |
| `acquisition` | sixty configurations over two points, two transfer sets on the server, one loss, reads may fail | `TypeOK`, `ImportedAsWritten`, `ObjectsAsDefined`, `EnabledUnlessRefused`, `AcquiredOneWay`, `ReportedChangesArrive`, `NeverOlder`, `MislabelledAfterFailure`, `Delivered` |
| `reading_labels` | the same | *violated*: `ReadingsLabelled` |

The violated runs are disagreements between the code and what its comments,
conditions or tests say; each is a finding in `PROJECT.json` with the quoted line.
Two of them limit other runs: a loss with transfer sets configured ends in undefined
behaviour at the second clean-up, and a fatal error after a loss ends the recovery,
so `plugin_liveness` has neither. Safety is checked with both.

*Bounds.* Three servers give a search a first, a middle and a last candidate, and a
pair besides the active one; what holds for every `N` is proved. Two are enough for
liveness: a server to leave and one to reach. Nothing in Client counts, so its state
space is finite without a bound. Plugin bounds only the number of reconfigurations:
`MaxReconfigures = 1` has an old and a new configuration, and the proofs are for any number;
in `plugin_liveness` that is up to two clients, the second started, served and stopped after a
stop of the first from any of its states. The distinct states: 158,920 (`client_safety`),
6,466 (`thread_passes`), 1,054,648 (`control_safety`), 74,792 (`plugin_liveness`) and 103,819
(`acquisition`).

In Reporting `MaxVersion = 2` is one change, all it takes for a poll result to be older than
a report. `MaxEntries = 2` is enough for a point defined twice, an indication hidden by a
command, and an import that breaks off. `Pool = 2` is less than the three transfer sets one
stack asks for. `MaxLosses = 1` is an association, its loss and the one after it; a second
clean-up with transfer sets is the undefined behaviour of `double_destroy`. A transfer set
repeats its points one report at a time, when none is on its way. The configurations
(MCReporting) have points that are polled, reported, both (an entry spelled with its domain) and
neither, data sets of one name, without a name, known to the server or not, transfer
sets without a data set, each early return, ports at 0, 65535 + 1 and 65635 + 1, and
selectors of length 0, at the size of their buffer and one beyond. One connection has no port
at all: its import is aborted.

*Deadlock* is checked in every run but those of Reporting, where a plugin without a polling
interval or a connection comes to rest. After a fault `Crashed`, `OpCrashed` and `Ended` stutter.

*Fairness* (Client). `WF` of the monitor, of the join in `stop`, and of each
connection's passes: the threads are scheduled and their timers run out. `WF` of
`LinkUp`: a server that stays reachable answers. `SF` of a successful
`OpenAssociation`: an uninitialised read or a failing creation is not bad for ever. `SF` of
`MonDisconnect` and `MonDelete`: in the models the owner's `Disconnect` and `Stop` are made
between two passes of the thread, which sleeps for 50 ms there, so the monitor gets its turn
however many passes follow each other; in the code only `Stop` waits at all.
`Recovery` has three premises: some server stays reachable, from some time on answers
come within the timeouts (`Timely`), and links hold (`LinksHold`). Without them a
server that always answers too late is legitimately never reached. `StopTerminates`
has none. *Plugin*: a call of the service returns once what it waits for is done, and the
threads and servers go on as in Client. *Reporting*: the two
threads go on (`WF`), a server repeats what a transfer set asks of it and reading a point
does not fail for ever (`SF`). `Delivered` needs no assumption about links: they are lost
finitely often by the bound, and what is acquired is what is so from some time on.

## 4. What the atomic passes rest on

ClientConnection takes most of a pass, and most of a call of the monitor, as one step. That is
exact as far as locks, flags and the network are concerned: the statements of a pass, interleaved
with link changes, with the flag that `Stop` resets and with the monitor's reads, implement
ClientConnection (a pass acts on the endpoint state it read), with creations that fail, with
transfer sets and without OSI parameters. `thread_passes` checks it and
`ConnectionRefinement` proves it, both under `Overlaps = {}`: no call of the monitor runs
into a pass.

The exception is a `Connect` that meets the thread's own `Disconnect` (10 s without an
association), which both levels have. The thread resets `m_connecting` and `m_connected`
first, which is all the monitor looks at; then `m_connect` and the state; the endpoint goes
last. So, between `ResetFlags` and `ReleaseEndpoint`,

* a request for the same connection may be lost, which costs one backup timeout: `Recovery`
  holds all the same;
* the monitor may open the next server while this endpoint still exists, and its server may
  still answer. At that time two connections of the group hold an endpoint, and may even have an
  association. `SingleAssociation` and `OpenIsActive` therefore speak of endpoints that are
  not being given up (`Holds`), and Failover has `leaving` and `AnswerLate`. What is proved is
  that nothing but a connection's own timer ever makes a second one, that the search does not
  move past a server that is still being released, and that none is left after a stop.

A misuse of a handle that needs no overlap shows in both levels at the same point
(`destroyTwice`, `freeNullClient`, `osiNull`); `NoStaleHandle` is about the others, an endpoint
or a client used after the other thread has released it.

The condition is *not* something the code guarantees: `Disconnect` runs without `m_conLock` and
may meet a pass of the same connection. `thread_overlap` is such a run, and it uses a
destroyed endpoint. So everything said of Client, Control and their proofs is said of the
executions in which, that `Connect` apart, calls of the monitor do not run into a pass of the
connection they are made on.

The TLS configuration needs less. `TlsOutlivesEndpoint` and `TlsReleased` are proved for every
`Overlaps` without `"destroy"` and `"create"`: a `Disconnect` may run into any statement of
a pass except the creation of an endpoint, up to the first use of a destroyed handle. Where it
does meet the creation, the clean-up finds no endpoint yet and then destroys the TLS
configuration of the new one.

## 5. Proofs

Every theorem about Client, Control and Plugin is for any number of connections `N`, any
subset with OSI parameters, any failures and reads, any categories and number of
reconfigurations; every theorem about Reporting for any documents and stacks, any server
and any losses; those about ConnectionThread are for any failures and reads, with and without
TLS, transfer sets and OSI parameters. The `ASSUME`s say no more than the types of the constants: documents and their
lists are sequences, a connection has at most one port and one "osi" object, and the tokens
of its selectors are numbers or not.

*The inductive invariant of Client* (`IInv`). `SingleAssociation` alone is not inductive: that
only one connection holds an endpoint it is not giving up follows from which connections
*want* one (`Wants`), and that depends on where the monitor is. `Wanted` says so place by place: none before a
`Connect`, only `next` while it waits, only the active one and that one
connected when the search is over. The thread's own `Disconnect` and reconnect keep
it because they never set `m_connect`, and because a connection in service keeps
`m_connected` through a loss. `Handles` relates endpoint, client, state and thread of
a connection, `PassStates` the place inside a pass to what the pass began with;
`ActiveConnection` and `LoopVariable` the monitor's variables to its place; `ThreadLives` how far starting and deleting has come.

* `ClientProofs`: `InitInv`, `TypeStep`, `ThreadInv`, `MonInv`, `StepInv` give
  `Invariance == Spec => []IInv`; from it `TypeCorrect`, `ExclusiveAssociation`,
  `OpenEndpointIsActive`, `CleanShutdown`, and the action properties
  `LeavesOnlyLostServers`, `PollRaceWindow`, `NullClientCause`.
  `StopIsBounded` and `StopIsNotBlocked` are the safety half of `StopTerminates`, for any number
  of connections. `Remaining` bounds the steps the monitor has left and every one of them
  lessens it (`MonitorAdvances`); with a search under way that is one attempt, of up to
  a backup timeout, per server left. The places where it waits for a thread find that thread
  told to stop, or in a `Disconnect` that ends by itself; this rests on the order of the
  deletions (`DeletionOrder`). What is left to fairness is that threads are scheduled.
* `RefinementProofs`: `Refinement == Spec => ImplementsFailover`, one lemma for the
  monitor's steps, one for the threads' passes, one for the environment.
* `ControlProofs`: every step of Control is a step of Client or leaves it alone
  (`ClientStep`), so `IInv` carries over. `ControlInv` adds what an undisturbed operation has
  found so far: as long as it is `calm`, `active` and its client are the ones that serve
  (`ServingConnection`), and no step of the monitor or of another connection changes `active`
  (`ActiveStays`). `OperationsInService` and `DeletedConnections` follow.

* `PluginProofs`: every step of Plugin is a step of Control or leaves it alone
  (`PluginImplementsControl`), which carries `UndisturbedOperations` over reconfigurations. Its own
  invariant `PluginInv` adds to the properties where the service may find the client stopped
  (`StoppedPlaces`) and that configurations are numbered in the order they were given
  (`NextConfig`): without the first, `ClientNeverLost` is not preserved by a restart; without
  the second, a re-imported configuration could be an older one.
* `ReportingProofs`: `Inv` is the conjunction of
  - `Types`, with the lengths of `labels` and `datapoints` while a poll reads and sends;
  - `Order`: for each of the two ways, the versions of a point waiting in `reports` or in
    `datapoints` do not decrease and lie between the last one ingested that way and `value`.
    `NeverOlder` alone says nothing of what is still waiting;
  - `Ways`: only polled points were ingested by polling, and no polled point by a report unless
    a data set spells it in another way; this is what the imports make of a document (`OneWay`);
  - `Labelling`: as long as no read has failed, the i-th label is that of the i-th data point;
  - `ObjectsAsDefined`, with the finite table of `DataObject` by cases on the type;
  - `EnableOrder`: data sets before transfer sets, and every transfer set already dealt with
    is enabled or has its excuse (`Excused`), which no later step of the set-up takes away;
  - `Changes`: a changed point is in `reports` or ingested with its latest version.

  The theorems are `TypeCorrect`, `ReadingsInOrder`, `OneWayOnly`, `LabelsInStep`, `ObjectsOfTheirTypes`,
  `TransferSetsEnabled`, `ChangesArrive` and `ConnectionsAsWritten`.
* `ConfigurationProofs` is what the imports compute, for any stack. The two loops are recursive
  functions; that such a function exists, and what it holds after each turn, is shown by the
  least turn at which it would fail (`LeastNumber`), because the library's induction
  theorems cannot be used here. `ParsedTokens`: a selector that is accepted has one byte per
  token, the token's number, and no more bytes than its buffer. `GroupsOfConnections`: the
  connections kept are those of the stack, in its order. `ConnectionsAsWritten` follows,
  because the configuration never changes while it is in use.
* `ThreadProofs`: two invariants, each by one lemma for clean-ups, one for the thread and one for
  the rest.
  - `TlsInv`: a pass begins to create an endpoint only when nothing is left of the last
    TLS configuration (`NothingKept`), since every clean-up empties it (`CleanedUp`) after the
    endpoint (`EndpointFirst`). Neither property is inductive alone. It gives
    `TlsLives` and `TlsGoes`.
  - `PassInv`: the place of the thread, and how far a clean-up has come, decide what flags and
    handles are (`Between`, `Opening`, `Serving`, `ReleaseHandles`, `ReleaseFlags`), and the
    place of the owner decides where the thread may be (`Lives`). It gives `NoStaleHandles`.
* `ThreadRefinementProofs`: `ConnectionRefinement == NoOverlap => (Spec =>
  ImplementsConnection)`. `Shown` is what the refinement mapping comes to in each place,
  from `PassInv`; one lemma per kind of step of ClientConnection says what has to show for it;
  then every statement is one of those steps or shows nothing.

Only model-checked: the liveness properties `Recovery`, `StopTerminates`, `Delivered` and
`RestartsAfterReconfigure`, which are out of the prover's reach. Every invariant, action
property and refinement that a passing run checks is a theorem.

## 6. Not modelled

* The texts of the flags of a value: `validityToString` and its sisters join the flags to
  constants of the library, which the repository does not contain. Members, types
  and getters are in DataObject.
* `importTlsConfig`, and which of the TLS files is rejected: lists of names without
  state of their own. Their outcome is `RejectFiles`.
* The value of `backupTimeout`, and the options of a transfer set that nothing in the
  plugin depends on (`tle`, `critical`, `bufferTime`, `startTime`, `allChangesReported`).
* The parsing of the parameters of an operation, select before operate, and two operations
  at once (they share nothing but what the model's one operation shares with the threads).
* Which parameter has a wrong type (`traverseAndCheckTypes`): part of `readable`.
* Logging, for good.

The library's own behaviour is assumed: `Tase2_Client_destroy` and `Tase2_Endpoint_destroy`
return, an endpoint reports *connected* only after it was opened and its server accepted, and
a client's reports end with it.

## 7. Plan

Done: Failover, ClientConnection, Client; ConnectionThread with TLS; Control and Plugin;
Exchange, Configuration, DataObject, Acquisition, Reporting; each with its proofs.

Next, in this order:

1. *Select before operate*: two operations of one point at once, with the select and the
   acknowledgement.
2. *Composition of Reporting with Client*: polling by one connection's thread through
   `m_active_connection` while the monitor moves on to another server.
