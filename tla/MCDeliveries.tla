---------------------------- MODULE MCDeliveries ----------------------------
(***************************************************************************)
(* What reaches an agent in the end, for TLC: a behaviour is that of its   *)
(* message queue (A2AQueue) or of one of its plugins (PluginDelivery).     *)
(* The modules share no state; the one that is not chosen rests in an      *)
(* initial state.                                                          *)
(***************************************************************************)
EXTENDS A2AQueue, PluginDelivery

VARIABLE goods

deliveriesVars == <<vars, pluginVars, goods>>

\* Who calls, and where: installs and uninstalls from the catalogue on an EC2
\* box; an install while a container comes online; the drift of a plugin, a
\* concierge's or not; an update against an uninstall; a box that only pulls.
Callers == [store |-> {"install", "uninstall"}, boot |-> {"install", "reconcile"},
            update |-> {"reconcile", "apply"}, drop |-> {"uninstall", "apply"},
            pull |-> {"install", "apply"}]
Scenes == DOMAIN Callers
Calling(j) == goods \in Scenes /\ j \in Callers[goods]

SceneBegins ==
    LET At(kind, concierge, there) ==
            place = [kind |-> kind, concierge |-> concierge] /\ (live # NoDir <=> there)
    IN  CASE goods = "store" -> At("ec2", FALSE, FALSE) /\ ~declared
          [] goods = "boot" -> At("docker", FALSE, FALSE) /\ declared
          [] goods = "update" -> place.kind = "docker" /\ live # NoDir /\ declared
          [] goods = "pull" -> place.kind = "pull"
          [] OTHER -> At("docker", FALSE, TRUE) /\ declared

DeliveriesInit ==
    /\ goods \in Scenes \union {"messages"}
    /\ PluginInit /\ SceneBegins /\ Init

\* The source moves where an update is on its way; the org's list changes
\* between two installs.
PluginMoves ==
    \/ Calling("install") /\ (Install \/ InstallStep)
    \/ Calling("reconcile") /\ (ReconcileWorkspacePlugins \/ FragmentChanged \/ ReconcileStep)
    \/ Calling("apply") /\ (applyQueuedDrift \/ ApplyStep)
    \/ Calling("uninstall") /\ (Uninstall \/ UninstallStep)
    \/ sweepDriftOnce \/ BoxRestarts
    \/ Calling("apply") /\ UpstreamMoves
    \/ goods = "store" /\ JobAt("install", "idle") /\ PutAllowlist
    \/ goods = "update" /\ OtherFetch

\* A failed statement is met where one delivery runs against an install or an
\* uninstall; the workspace is online during its boot turns.
DeliveriesNext ==
    \/ /\ goods = "messages" /\ Next /\ UNCHANGED <<pluginVars, goods>>
       /\ (bootTurn' => online')
    \/ /\ goods # "messages" /\ PluginMoves /\ UNCHANGED <<vars, goods>>
       /\ (goods \in {"update", "pull"} => pluginFaults' = 0)

\* The fairness of the modules, each for the behaviours that are its own.
DeliveriesFairness ==
    /\ \A p \in Drainers : WF_vars(goods = "messages" /\ DrainStep(p))
    /\ WF_vars(goods = "messages" /\ sweepA2AQueue)
    /\ WF_vars(goods = "messages" /\ Tick)
    /\ WF_pluginVars(Calling("install") /\ InstallStep)
    /\ WF_pluginVars(Calling("reconcile") /\ ReconcileStep)
    /\ WF_pluginVars(Calling("apply") /\ ApplyStep)
    /\ WF_pluginVars(Calling("apply") /\ applyQueuedDrift)
    /\ WF_pluginVars(Calling("uninstall") /\ UninstallStep)
    /\ WF_pluginVars(goods # "messages" /\ sweepDriftOnce)
    /\ SF_pluginVars(goods # "messages" /\ BoxRestarts)

DeliveriesSpec == DeliveriesInit /\ [][DeliveriesNext]_deliveriesVars /\ DeliveriesFairness

=============================================================================
