------------------------------- MODULE Plugin -------------------------------
(***************************************************************************)
(* The entry points of the plugin (src/src/plugin.cpp) as the south service*)
(* calls them, one at a time: init, register_ingest, start, any number of  *)
(* reconfigure, shutdown.  They start and stop the client of Control, whose*)
(* threads and whose operations go on meanwhile, and give TASE2 its        *)
(* configuration (TASE2::setJsonConfig, src/src/tase2.cpp).                *)
(*                                                                         *)
(* A configuration is named by the number of the category it was imported  *)
(* from; 0 is the empty one that TASE2 is constructed with, whose client   *)
(* has no connection and refuses every operation: it is left out.  All     *)
(* others have the N connections of the group.  The service goes on after  *)
(* a reconfigure that threw an exception.                                  *)
(***************************************************************************)
EXTENDS Control, Integers

CONSTANTS
    Categories,      \* what may be offered: [items, throws], whether the import throws
    MaxReconfigures, \* bound: how often the service reconfigures
    Operating        \* the service delivers control operations

ASSUME MaxReconfiguresAssumption == MaxReconfigures \in Nat
ASSUME OperatingAssumption == Operating \in BOOLEAN

\* m_config after the plugin was deleted.
Deletion == -1

VARIABLES
    svc,           \* what the service has called, or is inside of
    category,      \* the category plugin_reconfigure was given last
    offers,        \* how many categories the plugin was given
    m_config,      \* the configuration TASE2 owns
    clientConfig,  \* the one its client was given
    lost           \* a client was replaced without being stopped

serviceVars == <<svc, category, offers, m_config, clientConfig, lost>>
pluginVars == <<controlVars, serviceVars>>

PluginInitial ==
    /\ ControlInit
    /\ svc = "none"
    /\ category = [items |-> {}, throws |-> FALSE]
    /\ offers = 0 /\ m_config = 0 /\ clientConfig = 0
    /\ lost = FALSE

\* The process is still there to be called.
Alive == Defined /\ opFault = "none"

-----------------------------------------------------------------------------
(* TASE2                                                                    *)

\* TASE2::start: m_client is set, whatever it was; the client shares m_config.
start ==
    \/ m_config = 0 /\ UNCHANGED <<vars, calm, clientConfig, lost>>
    \/ m_config # 0 /\ plugin = "stopped" /\ StartPlugin /\ calm' = FALSE
           /\ clientConfig' = m_config /\ UNCHANGED lost
    \/ m_config # 0 /\ plugin # "stopped" /\ lost' = TRUE
           /\ UNCHANGED <<vars, calm, clientConfig>>

\* TASE2::stop returns at once without a client; with one the threads are told,
\* and joined before it returns.
stop == IF plugin = "running" THEN RequestStop /\ calm' = FALSE ELSE UNCHANGED <<vars, calm>>

\* Seeded bug: the monitoring thread is not joined.
StopReturnsAtOnce == plugin \in {"stopped", "stopping"}

StopReturned == plugin = "stopped"

-----------------------------------------------------------------------------
(* The entry points                                                         *)

\* plugin_init takes the configuration from these items, plugin_reconfigure from
\* those: it asks for "tls", then reads "tls_conf".
InitItems == {"protocol_stack", "exchanged_data", "tls_conf"}

\* Seeded bug: a missing value is taken for a category that changes nothing.
ReconfigureItemsAll == {"protocol_stack", "exchanged_data", "tls", "tls_conf"}

ReconfigureItems == {"protocol_stack", "exchanged_data", "tls"}

\* An import that throws leaves plugin_init without a handle.
PluginInit(given) ==
    /\ Alive /\ svc = "none"
    /\ offers' = 1
    /\ \/ /\ InitItems \subseteq given.items
          /\ m_config' = 1
          /\ svc' = IF given.throws THEN "failed" ELSE "made"
       \/ /\ ~InitItems \subseteq given.items
          /\ svc' = "made"
          /\ UNCHANGED m_config
    /\ UNCHANGED <<controlVars, category, clientConfig, lost>>

RegisterIngest ==
    /\ Alive /\ svc = "made"
    /\ svc' = "registered"
    /\ UNCHANGED <<controlVars, category, offers, m_config, clientConfig, lost>>

PluginStart ==
    /\ Alive /\ svc = "registered"
    /\ svc' = "up"
    /\ start
    /\ UNCHANGED <<opVars, category, offers, m_config>>

\* plugin_reconfigure begins with stop.
Reconfigure(given) ==
    /\ Alive /\ svc = "up"
    /\ offers <= MaxReconfigures
    /\ offers' = offers + 1
    /\ category' = given
    /\ svc' = "stopping"
    /\ stop
    /\ UNCHANGED <<opVars, m_config, clientConfig, lost>>

\* Seeded bug: the configuration is taken before the client has stopped.
ReimportEarly ==
    /\ Alive /\ svc = "stopping"
    /\ ReconfigureItems \subseteq category.items
    /\ "tls_conf" \in category.items
    /\ m_config' = offers
    /\ svc' = IF category.throws THEN "up" ELSE "imported"
    /\ UNCHANGED <<controlVars, category, offers, clientConfig, lost>>

\* Seeded bug: an import that throws leaves the deleted configuration in place.
ReimportDeletesFirst ==
    /\ Alive /\ svc = "stopping" /\ StopReturned
    /\ ReconfigureItems \subseteq category.items
    /\ "tls_conf" \in category.items
    /\ m_config' = IF category.throws THEN Deletion ELSE offers
    /\ svc' = IF category.throws THEN "up" ELSE "imported"
    /\ UNCHANGED <<controlVars, category, offers, clientConfig, lost>>

\* setJsonConfig deletes the old configuration and imports the new one; one that
\* throws ends the call, the partly imported configuration stays.
Reimport ==
    /\ Alive /\ svc = "stopping" /\ StopReturned
    /\ ReconfigureItems \subseteq category.items
    /\ "tls_conf" \in category.items
    /\ m_config' = offers
    /\ svc' = IF category.throws THEN "up" ELSE "imported"
    /\ UNCHANGED <<controlVars, category, offers, clientConfig, lost>>

\* getValue ("tls_conf") throws.
ValueMissing ==
    /\ Alive /\ svc = "stopping" /\ StopReturned
    /\ ReconfigureItems \subseteq category.items
    /\ "tls_conf" \notin category.items
    /\ svc' = "up"
    /\ UNCHANGED <<controlVars, category, offers, m_config, clientConfig, lost>>

KeepConfig ==
    /\ Alive /\ svc = "stopping" /\ StopReturned
    /\ ~ReconfigureItems \subseteq category.items
    /\ svc' = "imported"
    /\ UNCHANGED <<controlVars, category, offers, m_config, clientConfig, lost>>

\* Seeded bug: the client is not started again with a configuration it had.
RestartIfChanged ==
    /\ Alive /\ svc = "imported"
    /\ svc' = "up"
    /\ IF "asset" \in category.items /\ m_config = offers
       THEN start ELSE UNCHANGED <<vars, calm, clientConfig, lost>>
    /\ UNCHANGED <<opVars, category, offers, m_config>>

\* The client is started again only with an asset.
Restart ==
    /\ Alive /\ svc = "imported"
    /\ svc' = "up"
    /\ IF "asset" \in category.items THEN start ELSE UNCHANGED <<vars, calm, clientConfig, lost>>
    /\ UNCHANGED <<opVars, category, offers, m_config>>

\* plugin_shutdown begins with stop ...
Shutdown ==
    /\ Alive /\ svc = "up"
    /\ svc' = "leaving"
    /\ stop
    /\ UNCHANGED <<opVars, category, offers, m_config, clientConfig, lost>>

\* ... and deletes the plugin with its configuration.
Delete ==
    /\ Alive /\ svc = "leaving" /\ StopReturned
    /\ svc' = "gone"
    /\ m_config' = Deletion
    /\ UNCHANGED <<controlVars, category, offers, clientConfig, lost>>

Reconfiguring == Reimport \/ ValueMissing \/ KeepConfig \/ Restart \/ Delete

ServiceNext ==
    \/ RegisterIngest \/ PluginStart
    \/ \E given \in Categories : PluginInit(given) \/ Reconfigure(given)
    \/ Reconfiguring
    \/ Shutdown

-----------------------------------------------------------------------------

\* The threads and the environment; the service alone starts and stops.
Threads ==
    /\ SystemNext
    /\ plugin' = plugin \/ FinishStop
    /\ UNCHANGED serviceVars

\* The service makes no call into a plugin it has shut down.
Operations ==
    /\ Operating /\ OpNext
    /\ svc \in {"up", "stopping", "imported"} \/ op # "idle"
    /\ UNCHANGED serviceVars

\* The service waits for reconfiguration or operations, or has ended.
Ended == (svc \in {"failed", "gone"} \/ ~Alive) /\ UNCHANGED pluginVars

PluginNext == ServiceNext \/ Threads \/ Operations \/ Ended

PluginSpec == PluginInitial /\ [][PluginNext]_pluginVars

(***************************************************************************)
(* Fairness: the call of the service returns once what it waits for is     *)
(* done; the threads it joins, and the servers, go on as in Client.        *)
(***************************************************************************)
PluginFairness ==
    /\ WF_pluginVars(Reconfiguring)
    /\ WF_pluginVars((MonStep \/ FinishStop) /\ Threads)
    /\ SF_pluginVars(MonDisconnect /\ Threads)
    /\ SF_pluginVars(MonDelete /\ Threads)
    /\ \A c \in Conn :
          /\ WF_pluginVars(ConnStep(c) /\ Threads)
          /\ WF_pluginVars(LinkUp(c) /\ Threads)
          /\ SF_pluginVars(OpenAssociation(c, "ok") /\ Threads)

PluginFairSpec == PluginSpec /\ PluginFairness

-----------------------------------------------------------------------------
(* What the entry points promise                                            *)

\* Every variable has a value of its type; as long as the plugin is there, so is a
\* configuration, whatever import threw.
PluginTypeOK ==
    /\ svc \in {"none", "made", "registered", "up", "stopping", "imported", "leaving",
                "gone", "failed"}
    /\ offers \in 0 .. MaxReconfigures + 1
    /\ m_config \in {Deletion} \cup 0 .. offers
    /\ m_config = Deletion <=> svc = "gone"
    /\ clientConfig \in 0 .. offers
    /\ lost \in BOOLEAN

\* The configuration a client was given is not deleted, by a reconfigure or by the
\* shutdown, before the client and its threads are gone: they read it without a lock.
ConfigOutlivesClient == plugin # "stopped" => clientConfig = m_config

\* No client is replaced while it runs, which would leave its threads without an
\* owner: start does not look at m_client, the order of the entry points must.
ClientNeverLost == ~lost

\* A client that runs on an older configuration than the one given last was given a
\* category in which plugin_reconfigure did not find its items.
StaleOnlyWithoutItems ==
    svc = "up" /\ plugin = "running" /\ clientConfig # offers
        => ~{"protocol_stack", "exchanged_data", "tls"} \subseteq category.items

\* After a reconfigure with an asset, and without an exception, the client runs
\* again: stopping it does not hang, in whatever state its connections are, and an
\* unchanged configuration is restarted as well.
Restartable ==
    /\ m_config # 0
    /\ svc = "stopping"
    /\ "asset" \in category.items
    /\ "tls" \in category.items => "tls_conf" \in category.items /\ ~category.throws

RestartsAfterReconfigure ==
    Restartable ~> (svc = "up" /\ plugin = "running") \/ ~Alive

\* "Reconfigure the plugin": the client runs on the configuration given last.
ConfigInForce == svc = "up" /\ plugin = "running" => clientConfig = offers

=============================================================================
