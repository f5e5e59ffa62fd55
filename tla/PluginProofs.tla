---------------------------- MODULE PluginProofs ----------------------------
(* Proofs about the entry points: the service drives the client and its      *)
(* operations as Control describes them, for any number of connections and   *)
(* reconfigurations, and keeps the client and its configuration together.    *)
EXTENDS Plugin, ControlProofs

\* What the service changes of the client, by start and stop, Control allows.
LEMMA StartStep ==
    ASSUME Inside, Alive, start, UNCHANGED opVars
    PROVE  [ControlNext]_controlVars
  <1>1. CASE UNCHANGED <<vars, calm>>
    BY <1>1 DEF controlVars
  <1>2. CASE StartPlugin /\ calm' = FALSE
    <2>1. ~FinishStop /\ Next /\ ~Serving'
      BY <1>2 DEF StartPlugin, FinishStop, Next, Serving
    <2>2. target = 0
      BY <1>2 DEF StartPlugin, Inside, InClient
    <2>3. QED
      BY <1>2, <2>1, <2>2 DEF Alive, ControlNext, SystemNext, Orphaning, opVars
  <1>3. QED
    BY <1>1, <1>2 DEF start

LEMMA StopStep ==
    ASSUME Inside, Alive, stop, UNCHANGED opVars
    PROVE  [ControlNext]_controlVars
  <1>1. CASE UNCHANGED <<vars, calm>>
    BY <1>1 DEF controlVars
  <1>2. CASE RequestStop /\ calm' = FALSE
    <2>1. ~FinishStop /\ Next /\ plugin' # "running"
      BY <1>2 DEF RequestStop, FinishStop, Next
    <2>2. target # 0 => tase2client'[target] = "live"
      BY <1>2 DEF RequestStop, Inside, connVars
    <2>3. QED
      BY <1>2, <2>1, <2>2 DEF Alive, ControlNext, SystemNext, Orphaning, opVars
  <1>3. QED
    BY <1>1, <1>2 DEF stop

LEMMA ServiceStep ==
    ASSUME Inside, ServiceNext
    PROVE  [ControlNext]_controlVars
  <1>1. CASE PluginStart
    BY <1>1, StartStep DEF PluginStart
  <1>2. CASE Restart
    <2>1. CASE start
      BY <1>2, <2>1, StartStep DEF Restart
    <2>2. CASE UNCHANGED <<vars, calm>>
      BY <1>2, <2>2 DEF Restart, controlVars
    <2>3. QED
      BY <1>2, <2>1, <2>2 DEF Restart
  <1>3. CASE \E given \in Categories : Reconfigure(given)
    BY <1>3, StopStep DEF Reconfigure
  <1>4. CASE Shutdown
    BY <1>4, StopStep DEF Shutdown
  <1>5. CASE RegisterIngest \/ Reimport \/ ValueMissing \/ KeepConfig \/ Delete
    BY <1>5 DEF RegisterIngest, Reimport, ValueMissing, KeepConfig, Delete
  <1>6. CASE \E given \in Categories : PluginInit(given)
    BY <1>6 DEF PluginInit
  <1>7. QED
    BY <1>1, <1>2, <1>3, <1>4, <1>5, <1>6 DEF ServiceNext, Reconfiguring

LEMMA PluginStep == Inside /\ [PluginNext]_pluginVars => [ControlNext]_controlVars
  <1>1. Inside /\ ServiceNext => [ControlNext]_controlVars
    BY ServiceStep
  <1>2. Threads \/ Operations => [ControlNext]_controlVars
    BY DEF Threads, Operations, ControlNext
  <1>3. Ended \/ UNCHANGED pluginVars => [ControlNext]_controlVars
    BY DEF Ended, pluginVars
  <1>4. QED
    BY <1>1, <1>2, <1>3 DEF PluginNext

\* The plugin's entry points start and stop the client, and deliver operations, as
\* Control allows: what holds of Control holds of the plugin.
THEOREM PluginImplementsControl == PluginSpec => ControlSpec
  <1>1. PluginInitial => ControlInit /\ Inside
    BY DEF PluginInitial, ControlInit, Inside, InClient
  <1>2. Inside /\ [PluginNext]_pluginVars => [ControlNext]_controlVars /\ Inside'
    BY PluginStep, InsideStep
  <1>3. QED
    BY <1>1, <1>2, PTL DEF PluginSpec, ControlSpec

\* An operation that the service delivers in service, and that neither a reconfigure nor
\* a loss of the association overtakes, finds what it uses, through any number of
\* reconfigurations before it.
THEOREM PluginOperationsInService == PluginSpec => []UndisturbedOperations
  BY PluginImplementsControl, OperationsInService, PTL

-----------------------------------------------------------------------------

\* Where the service finds the client stopped: before its first start, and from the
\* return of stop on.
StoppedPlaces ==
    svc \in {"none", "made", "registered", "imported", "gone", "failed"}
        => plugin = "stopped"

\* Until the client is started it has the configuration of plugin_init, and before it
\* is started again the one given last, unless the category lacks its items.
NextConfig ==
    /\ svc = "none" => offers = 0 /\ m_config = 0
    /\ svc \in {"made", "registered"} => offers = 1 /\ m_config \in {0, 1}
    /\ svc = "imported" => m_config = offers \/ ~ReconfigureItems \subseteq category.items

PluginInv ==
    /\ StoppedPlaces
    /\ ConfigOutlivesClient
    /\ ClientNeverLost
    /\ NextConfig
    /\ PluginTypeOK
    /\ StaleOnlyWithoutItems

\* The rest of the system never leaves the state "stopped".
LEMMA ThreadsKeepStopped ==
    ASSUME Threads
    PROVE  UNCHANGED serviceVars /\ (plugin' = plugin \/ plugin' = "stopped")
  BY DEF Threads, FinishStop

LEMMA ServicePluginInv ==
    ASSUME PluginInv, ServiceNext
    PROVE  PluginInv'
  <1> USE MaxReconfiguresAssumption
      DEF PluginInv, StoppedPlaces, ConfigOutlivesClient, ClientNeverLost, NextConfig,
          PluginTypeOK, StaleOnlyWithoutItems, ReconfigureItems, Deletion
  <1>1. CASE PluginStart
    BY <1>1 DEF PluginStart, start, StartPlugin, vars, monVars
  <1>2. CASE Restart
    BY <1>2 DEF Restart, start, StartPlugin, vars, monVars
  <1>3. CASE \E given \in Categories : Reconfigure(given)
    BY <1>3 DEF Reconfigure, stop, RequestStop, vars, monVars
  <1>4. CASE Shutdown
    BY <1>4 DEF Shutdown, stop, RequestStop, vars, monVars
  <1>5. CASE RegisterIngest \/ ValueMissing \/ KeepConfig
    BY <1>5 DEF RegisterIngest, ValueMissing, KeepConfig, StopReturned, controlVars,
                vars, monVars
  <1>6. CASE Reimport \/ Delete
    BY <1>6 DEF Reimport, Delete, StopReturned, controlVars, vars, monVars
  <1>7. CASE \E given \in Categories : PluginInit(given)
    BY <1>7 DEF PluginInit, controlVars, vars, monVars
  <1>8. QED
    BY <1>1, <1>2, <1>3, <1>4, <1>5, <1>6, <1>7 DEF ServiceNext, Reconfiguring

THEOREM PluginInvariance == PluginSpec => []PluginInv
  <1>1. PluginInitial => PluginInv
    <2> SUFFICES ASSUME PluginInitial PROVE PluginInv
      OBVIOUS
    <2>1. plugin = "stopped" /\ svc = "none" /\ offers = 0 /\ m_config = 0
             /\ clientConfig = 0 /\ lost = FALSE
      BY DEF PluginInitial, ControlInit, Init
    <2>2. StoppedPlaces /\ ConfigOutlivesClient /\ ClientNeverLost /\ NextConfig
      BY <2>1 DEF StoppedPlaces, ConfigOutlivesClient, ClientNeverLost, NextConfig
    <2>3. lost \in BOOLEAN
      BY <2>1
    <2>4. PluginTypeOK /\ StaleOnlyWithoutItems
      BY <2>1, <2>3, MaxReconfiguresAssumption
      DEF PluginTypeOK, StaleOnlyWithoutItems, Deletion
    <2>5. QED
      BY <2>2, <2>4 DEF PluginInv
  <1>2. PluginInv /\ [PluginNext]_pluginVars => PluginInv'
    <2> SUFFICES ASSUME PluginInv, [PluginNext]_pluginVars PROVE PluginInv'
      OBVIOUS
    <2>1. CASE ServiceNext
      BY <2>1, ServicePluginInv
    <2>2. CASE Threads
      BY <2>2, ThreadsKeepStopped DEF PluginInv, StoppedPlaces, ConfigOutlivesClient,
         ClientNeverLost, NextConfig, PluginTypeOK, StaleOnlyWithoutItems, serviceVars
    <2>3. CASE Operations
      BY <2>3 DEF Operations, OpNext, Operation, FindDefinition, TestActive, Send,
         Answer, Acknowledge, Orphaned, PluginInv, StoppedPlaces, ConfigOutlivesClient,
         ClientNeverLost, NextConfig, PluginTypeOK, StaleOnlyWithoutItems, serviceVars,
         vars, monVars
    <2>4. CASE Ended \/ UNCHANGED pluginVars
      BY <2>4 DEF Ended, pluginVars, controlVars, serviceVars, vars, monVars, PluginInv,
         StoppedPlaces, ConfigOutlivesClient, ClientNeverLost, NextConfig, PluginTypeOK,
         StaleOnlyWithoutItems
    <2>5. QED
      BY <2>1, <2>2, <2>3, <2>4 DEF PluginNext
  <1>3. QED
    BY <1>1, <1>2, PTL DEF PluginSpec

\* The configuration a client reads is not deleted under it.
THEOREM ClientConfigLives == PluginSpec => []ConfigOutlivesClient
  BY PluginInvariance, PTL DEF PluginInv

\* The order of the entry points never replaces a client that runs.
THEOREM NoClientLost == PluginSpec => []ClientNeverLost
  BY PluginInvariance, PTL DEF PluginInv

\* Every variable of the service has a value of its type, and the plugin always has
\* a configuration.
THEOREM PluginTypeCorrect == PluginSpec => []PluginTypeOK
  BY PluginInvariance, PTL DEF PluginInv

\* A client runs on an older configuration only because the category had not the
\* items that plugin_reconfigure looks for.
THEOREM StaleCause == PluginSpec => []StaleOnlyWithoutItems
  BY PluginInvariance, PTL DEF PluginInv

=============================================================================
