--------------------------- MODULE PluginDelivery ---------------------------
(***************************************************************************)
(* One plugin on one workspace, from its source to the running agent.  The *)
(* source is a ref that moves.  An install call, the reconcile that runs   *)
(* when the workspace comes online, the applier of queued drift and an     *)
(* uninstall call fetch and deliver the plugin side by side; the hourly    *)
(* drift sweep compares the commit on file with the source.                *)
(*                                                                         *)
(* Source: workspace-server/internal, handlers/plugins_install.go,         *)
(* plugins_install_pipeline.go, plugins_install_eic.go, plugins_atomic.go, *)
(* plugins_classifier.go, plugins_reconcile.go, plugins_tracking.go,       *)
(* plugin_drift_applier.go, admin_plugin_drift.go, org_plugin_allowlist.go *)
(* and plugins/drift_sweeper.go, gitea.go, github.go.                      *)
(***************************************************************************)
EXTENDS Naturals

CONSTANTS
    MaxUpstream,      \* bound: commits of the source
    MaxOtherFetches,  \* bound: fetches of other plugins by the same resolver
    MaxPluginFaults   \* bound: failed statements and commands

ASSUME PluginAssumption == {MaxUpstream, MaxOtherFetches, MaxPluginFaults} \subseteq Nat

Jobs == {"install", "uninstall", "reconcile", "apply"}

\* A commit of the source is its number; NoDir is no directory, NoSHA an empty
\* installed_sha, and a commit of another plugin is Foreign.
NoDir == 0
NoSHA == 0
Foreign == MaxUpstream + 1

VARIABLES
    place,       \* where the plugin goes, and whether the workspace is the concierge
    upstream,    \* the commit the ref is at
    lastSHA,     \* LastFetchSHA of the one resolver all requests share
    live,        \* the commit in the plugin's live directory
    loaded,      \* the commit the running agent was started with
    dirLock,     \* the holder of the lock of container and plugin
    pluginRow,   \* workspace_plugins: whether there is a row, its sha and whether its ref is tracked
    declared,    \* whether workspace_declared_plugins has it
    allowlist,   \* "open", "lists" or "omits"
    drift,       \* the pending row of plugin_update_queue
    restartDue,  \* restarts that were asked for and have not run
    restartOwed, \* FragmentChanged restarts the concierge after its reconcile
    job,         \* each call: where it is and what it holds
    removed,     \* history: the directory was removed on purpose
    unloaded,    \* history: why the last delivery was not loaded: "quiet", or "stale"
    otherFetches, pluginFaults

pluginVars == <<place, upstream, lastSHA, live, loaded, dirLock, pluginRow, declared, allowlist,
                drift, restartDue, restartOwed, job, removed, unloaded, otherFetches, pluginFaults>>

NoPlugin == [there |-> FALSE, sha |-> NoSHA, tracked |-> FALSE]
NoJob == [pc |-> "idle", content |-> NoDir, sha |-> NoSHA, tracked |-> FALSE, stale |-> FALSE,
          quiet |-> FALSE, before |-> NoDir, hot |-> NoDir]

\* A container on this host, an EC2 box reached by a tunnel, or neither.
PluginInit ==
    /\ place \in [kind : {"docker", "ec2", "pull"}, concierge : BOOLEAN]
    /\ upstream = 1 /\ lastSHA = NoSHA
    /\ \/ live = NoDir /\ pluginRow = NoPlugin
       \/ live = 1 /\ pluginRow = [there |-> TRUE, sha |-> 1, tracked |-> TRUE]
    /\ loaded = live
    /\ dirLock = "none" /\ drift = FALSE /\ restartDue = FALSE /\ restartOwed = FALSE
    /\ declared \in BOOLEAN /\ allowlist = "open"
    /\ job = [j \in Jobs |-> NoJob]
    /\ removed = FALSE /\ unloaded = "no"
    /\ otherFetches = 0 /\ pluginFaults = 0

PluginFault == pluginFaults < MaxPluginFaults /\ pluginFaults' = pluginFaults + 1
NoPluginFault == UNCHANGED pluginFaults
JobAt(j, pc) == job[j].pc = pc
JobGoes(j, pc) == job' = [job EXCEPT ![j].pc = pc]
JobEnds(j) == job' = [job EXCEPT ![j] = NoJob]

\* What most steps leave alone.
Fixed == <<place, upstream, declared, allowlist, otherFetches, restartOwed>>
Disk == <<live, loaded, dirLock, removed, unloaded>>
Files == <<pluginRow, drift>>

---------------------------------------------------------------------------
(* resolveAndStage: fetch, label, check.                                   *)

\* An install call: the ref may be tracked, a restart may be declined.
Install ==
    /\ JobAt("install", "idle")
    /\ \E tracked, quiet \in BOOLEAN :
          job' = [job EXCEPT !["install"] = [NoJob EXCEPT !.pc = "fetch", !.tracked = tracked,
                                                          !.quiet = quiet]]
    /\ NoPluginFault /\ UNCHANGED <<Fixed, Disk, Files, lastSHA, restartDue>>

\* The archive is downloaded, then the commit of the ref is asked for.
FetchArchive(j) ==
    /\ JobAt(j, "fetch")
    /\ \/ job' = [job EXCEPT ![j].pc = "resolve", ![j].content = upstream] /\ NoPluginFault
       \/ PluginFault /\ JobEnds(j)
    /\ UNCHANGED <<Fixed, Disk, Files, lastSHA, restartDue>>
ResolveSHA(j) ==
    /\ JobAt(j, "resolve")
    /\ lastSHA' = upstream /\ JobGoes(j, "label")
    /\ NoPluginFault /\ UNCHANGED <<Fixed, Disk, Files, restartDue>>

\* Another plugin is fetched by the same resolver.
OtherFetch ==
    /\ otherFetches < MaxOtherFetches /\ otherFetches' = otherFetches + 1
    /\ lastSHA' = Foreign
    /\ NoPluginFault
    /\ UNCHANGED <<place, upstream, declared, allowlist, restartOwed, Disk, Files, restartDue, job>>

\* LastSHA is read, the name, the size, the integrity, the pinned hash and the
\* manifest are checked; a refusal ends the call.
StageChecks(j) ==
    /\ JobAt(j, "label")
    /\ \/ /\ job' = [job EXCEPT ![j].sha = lastSHA,
                                ![j].pc = CASE j = "install" -> "allow"
                                            [] j = "reconcile" -> "recheck"
                                            [] OTHER -> "deliver"]
          /\ NoPluginFault
       \/ PluginFault /\ JobEnds(j)
    /\ UNCHANGED <<Fixed, Disk, Files, lastSHA, restartDue>>

\* Only the install call asks the org's list; an empty list allows all.
checkOrgPluginAllowlist ==
    /\ JobAt("install", "allow")
    /\ IF allowlist = "omits" THEN JobEnds("install") ELSE JobGoes("install", "deliver")
    /\ NoPluginFault /\ UNCHANGED <<Fixed, Disk, Files, lastSHA, restartDue>>
PutAllowlist ==
    /\ allowlist' \in {"open", "lists", "omits"} \ {allowlist}
    /\ NoPluginFault
    /\ UNCHANGED <<place, upstream, declared, otherFetches, restartOwed, Disk, Files, lastSHA, restartDue, job>>

---------------------------------------------------------------------------
(* deliverToContainer.                                                     *)

AfterDelivery(j) == IF j = "apply" THEN "rerun" ELSE "record"
\* A reconcile never restarts the concierge.
Quiet(j) == job[j].quiet \/ (j = "reconcile" /\ place.concierge)

\* Before the copy the trees are compared: if only skill texts differ from
\* what lies there, which the agent reloads by itself, no restart is due.  The
\* concierge's own plugin always restarts it.
classifyInstallChanges == IF live = NoDir \/ place.concierge THEN {NoDir} ELSE {NoDir, live}
deliverToContainer(j) ==
    /\ JobAt(j, "deliver")
    /\ \E base \in classifyInstallChanges :
          job' = [job EXCEPT ![j].hot = IF place.kind = "docker" THEN base ELSE NoDir,
                             ![j].pc = IF place.kind = "docker" THEN "lock"
                                        ELSE IF place.kind = "ec2" THEN "push"
                                        ELSE CASE j = "install" -> "declare"
                                               [] j = "reconcile" -> "idle"
                                               [] OTHER -> "rerun"]
    /\ NoPluginFault /\ UNCHANGED <<Fixed, Disk, Files, lastSHA, restartDue>>

\* The EC2 box: the directory is removed, then the archive is unpacked.
installPluginViaEIC(j) ==
    /\ JobAt(j, "push")
    /\ \/ /\ live' = job[j].content /\ JobGoes(j, AfterDelivery(j))
          /\ removed' = FALSE
          /\ restartDue' = (restartDue \/ ~Quiet(j)) /\ unloaded' = IF Quiet(j) THEN "quiet" ELSE "no"
          /\ NoPluginFault
       \/ /\ PluginFault /\ JobEnds(j)
          /\ live' \in {live, NoDir}
          /\ removed' = (removed \/ live' = NoDir)
          /\ UNCHANGED <<restartDue, unloaded>>
    /\ UNCHANGED <<Fixed, Files, lastSHA, loaded, dirLock>>

\* No push target: the install call declares the plugin and restarts.
reMaterialize ==
    /\ JobAt("install", "declare")
    /\ \/ /\ declared' = TRUE /\ JobGoes("install", "record") /\ NoPluginFault
          /\ restartDue' = (restartDue \/ ~job["install"].quiet)
       \/ PluginFault /\ JobEnds("install") /\ UNCHANGED <<declared, restartDue>>
    /\ UNCHANGED <<place, upstream, allowlist, otherFetches, restartOwed, Disk, Files, lastSHA>>

\* The container: the lock, a copy beside the live directory, the live one
\* set aside, the swap, the marker.  A swap that fails puts the old one back.
AtomicLocks(j) ==
    /\ JobAt(j, "lock") /\ dirLock = "none"
    /\ \/ dirLock' = j /\ JobGoes(j, "aside") /\ NoPluginFault
       \/ PluginFault /\ JobEnds(j) /\ UNCHANGED dirLock
    /\ UNCHANGED <<Fixed, Files, lastSHA, live, loaded, removed, unloaded, restartDue>>
AtomicSetsAside(j) ==
    /\ JobAt(j, "aside")
    /\ \/ /\ live' = NoDir /\ job' = [job EXCEPT ![j].pc = "swap", ![j].before = live]
          /\ NoPluginFault /\ UNCHANGED dirLock
       \/ PluginFault /\ JobEnds(j) /\ dirLock' = "none" /\ UNCHANGED live
    /\ UNCHANGED <<Fixed, Files, lastSHA, loaded, removed, unloaded, restartDue>>
Rollback(j) ==
    IF job[j].before # NoDir THEN live' = job[j].before ELSE UNCHANGED live
AtomicSwaps(j) ==
    /\ JobAt(j, "swap")
    /\ \/ /\ live' = job[j].content /\ removed' = FALSE /\ JobGoes(j, "marker")
          /\ NoPluginFault /\ UNCHANGED dirLock
       \/ /\ PluginFault /\ JobEnds(j) /\ dirLock' = "none"
          /\ Rollback(j) /\ removed' = (removed /\ live' = NoDir)
    /\ UNCHANGED <<Fixed, Files, lastSHA, loaded, unloaded, restartDue>>
AtomicMarks(j) ==
    /\ JobAt(j, "marker") /\ dirLock' = "none"
    /\ \/ JobGoes(j, "verify") /\ NoPluginFault
       \/ PluginFault /\ JobEnds(j)
    /\ UNCHANGED <<Fixed, Files, lastSHA, live, loaded, removed, unloaded, restartDue>>

\* The manifest must be readable, under the lock.  Then a restart, unless the
\* caller declined it or it was found not to be due.
DockerVerifies(j) ==
    /\ JobAt(j, "verify") /\ dirLock = "none"
    /\ IF live = NoDir THEN JobEnds(j) /\ UNCHANGED <<restartDue, unloaded, loaded>>
       ELSE /\ JobGoes(j, AfterDelivery(j))
            /\ IF job[j].hot # NoDir /\ ~Quiet(j)
               THEN /\ loaded' = IF loaded = job[j].hot THEN live ELSE loaded
                    /\ unloaded' = IF loaded = job[j].hot THEN unloaded ELSE "stale"
                    /\ UNCHANGED restartDue
               ELSE /\ restartDue' = (restartDue \/ ~Quiet(j)) /\ unloaded' = IF Quiet(j) THEN "quiet" ELSE "no"
                    /\ UNCHANGED loaded
    /\ NoPluginFault /\ UNCHANGED <<Fixed, Files, lastSHA, live, dirLock, removed>>

\* Afterwards the row is written, best effort.
recordWorkspacePluginInstall(j) ==
    /\ JobAt(j, "record")
    /\ \/ /\ pluginRow' = [there |-> TRUE, sha |-> job[j].sha, tracked |-> job[j].tracked]
          /\ NoPluginFault
       \/ PluginFault /\ UNCHANGED pluginRow
    /\ IF j = "apply" THEN JobGoes(j, "mark") ELSE JobEnds(j)
    /\ UNCHANGED <<Fixed, Disk, drift, lastSHA, restartDue>>

---------------------------------------------------------------------------
(* Reconcile: what is declared and missing or out of date is delivered.    *)

\* On the transition to online, or when told that the source changed.  A
\* source the box cannot fetch by itself is delivered without a restart.
ReconcileBegins(quiet) ==
    /\ JobAt("reconcile", "idle") /\ declared /\ ~restartOwed
    /\ job' = [job EXCEPT !["reconcile"] =
                  [NoJob EXCEPT !.pc = IF pluginRow.there THEN "look" ELSE "fetch",
                                !.tracked = TRUE, !.quiet = quiet, !.sha = pluginRow.sha]]
    /\ NoPluginFault
ReconcileWorkspacePlugins ==
    /\ \E quiet \in BOOLEAN : ReconcileBegins(quiet)
    /\ UNCHANGED <<Fixed, Disk, Files, lastSHA, restartDue>>

\* Told of a change, a concierge whose plugin is behind is restarted after the
\* reconcile, which would leave it alone.
pluginPresentOnBox == live # NoDir
pluginFragmentStale(sha) == sha # NoSHA /\ upstream # sha
FragmentChanged ==
    /\ ReconcileBegins(FALSE)
    /\ restartOwed' = (place.concierge /\ pluginRow.there /\ pluginFragmentStale(pluginRow.sha))
    /\ UNCHANGED <<place, upstream, declared, allowlist, otherFetches, Disk, Files, lastSHA, restartDue>>
FragmentRestarts ==
    /\ restartOwed /\ JobAt("reconcile", "idle")
    /\ restartOwed' = FALSE /\ restartDue' = TRUE /\ NoPluginFault
    /\ UNCHANGED <<place, upstream, declared, allowlist, otherFetches, Disk, Files, lastSHA, job>>
ReconcileLooks ==
    /\ JobAt("reconcile", "look")
    /\ IF pluginPresentOnBox /\ ~pluginFragmentStale(job["reconcile"].sha) THEN JobEnds("reconcile")
       ELSE job' = [job EXCEPT !["reconcile"].pc = "fetch", !["reconcile"].stale = pluginPresentOnBox]
    /\ NoPluginFault /\ UNCHANGED <<Fixed, Disk, Files, lastSHA, restartDue>>

\* It may have appeared in the meantime: then only the row is missing.
ReconcileRechecks ==
    /\ JobAt("reconcile", "recheck")
    /\ JobGoes("reconcile", IF ~job["reconcile"].stale /\ pluginPresentOnBox THEN "record" ELSE "deliver")
    /\ NoPluginFault /\ UNCHANGED <<Fixed, Disk, Files, lastSHA, restartDue>>

---------------------------------------------------------------------------
(* Drift: the hourly sweep queues it, the applier delivers it.             *)

sweepDriftOnceForGood ==
    /\ pluginRow.there /\ pluginRow.tracked /\ pluginRow.sha = 1 /\ upstream # 1
    /\ ~drift /\ drift' = TRUE
    /\ NoPluginFault /\ UNCHANGED <<Fixed, Disk, pluginRow, lastSHA, restartDue, job>>
sweepDriftOnce ==
    /\ pluginRow.there /\ pluginRow.tracked /\ pluginRow.sha # upstream
    /\ ~drift /\ drift' = TRUE
    /\ NoPluginFault /\ UNCHANGED <<Fixed, Disk, pluginRow, lastSHA, restartDue, job>>

\* Without a row for the plugin the entry stays pending.
applyQueuedDrift ==
    /\ JobAt("apply", "idle") /\ drift /\ pluginRow.there
    /\ job' = [job EXCEPT !["apply"] = [NoJob EXCEPT !.pc = "fetch", !.tracked = TRUE]]
    /\ NoPluginFault /\ UNCHANGED <<Fixed, Disk, Files, lastSHA, restartDue>>

\* A restart, except of the concierge; what was neither pushed nor will be
\* fetched by a restart is not recorded.
applyRestartAfterDrift ==
    /\ JobAt("apply", "rerun")
    /\ restartDue' = (restartDue \/ ~place.concierge)
    /\ JobGoes("apply", IF place.kind # "pull" \/ ~place.concierge THEN "record" ELSE "mark")
    /\ NoPluginFault /\ UNCHANGED <<Fixed, Disk, Files, lastSHA>>
MarkApplied ==
    /\ JobAt("apply", "mark") /\ JobEnds("apply")
    /\ \/ drift' = FALSE /\ NoPluginFault
       \/ PluginFault /\ UNCHANGED drift
    /\ UNCHANGED <<Fixed, Disk, pluginRow, lastSHA, restartDue>>

---------------------------------------------------------------------------
(* Uninstall, without the lock; the declaration stays.                     *)

Uninstall ==
    /\ JobAt("uninstall", "idle") /\ place.kind # "pull" /\ pluginRow.there
    /\ JobGoes("uninstall", "remove")
    /\ NoPluginFault /\ UNCHANGED <<Fixed, Disk, Files, lastSHA, restartDue>>
UninstallRemoves ==
    /\ JobAt("uninstall", "remove")
    /\ \/ live' = NoDir /\ removed' = TRUE /\ JobGoes("uninstall", "forget") /\ NoPluginFault
       \/ PluginFault /\ JobEnds("uninstall") /\ UNCHANGED <<live, removed>>
    /\ UNCHANGED <<Fixed, Files, lastSHA, loaded, dirLock, unloaded, restartDue>>
deleteWorkspacePluginRow ==
    /\ JobAt("uninstall", "forget") /\ JobEnds("uninstall")
    /\ \/ pluginRow' = NoPlugin /\ NoPluginFault
       \/ PluginFault /\ UNCHANGED pluginRow
    /\ restartDue' = TRUE /\ unloaded' = "no"
    /\ UNCHANGED <<Fixed, drift, lastSHA, live, loaded, dirLock, removed>>

---------------------------------------------------------------------------
(* The world.                                                              *)

UpstreamMoves ==
    /\ upstream < MaxUpstream /\ upstream' = upstream + 1
    /\ NoPluginFault
    /\ UNCHANGED <<place, declared, allowlist, otherFetches, restartOwed, Disk, Files, lastSHA, restartDue, job>>

\* The box is provisioned with declared and installed sources, fetches them,
\* swaps its directory, and reports.  A container keeps its volume, an EC2
\* box is a new one.  A fetch that fails leaves what was there.
desiredPluginSources == declared \/ pluginRow.there
BoxRestarts ==
    /\ restartDue /\ restartDue' = FALSE /\ dirLock = "none"
    /\ LET kept == IF place.kind = "docker" THEN live ELSE NoDir
       IN \/ /\ live' = IF desiredPluginSources THEN upstream ELSE kept
             /\ NoPluginFault
          \/ PluginFault /\ desiredPluginSources /\ live' = kept
    /\ loaded' = live' /\ unloaded' = "no"
    /\ removed' = (live' = NoDir)
    /\ UNCHANGED <<Fixed, Files, lastSHA, dirLock, job>>

JobStep(j) ==
    \/ FetchArchive(j) \/ ResolveSHA(j) \/ StageChecks(j) \/ deliverToContainer(j)
    \/ installPluginViaEIC(j) \/ AtomicLocks(j) \/ AtomicSetsAside(j) \/ AtomicSwaps(j)
    \/ AtomicMarks(j) \/ DockerVerifies(j) \/ recordWorkspacePluginInstall(j)
InstallStep == checkOrgPluginAllowlist \/ reMaterialize \/ JobStep("install")
ReconcileStep == FragmentRestarts \/ ReconcileLooks \/ ReconcileRechecks \/ JobStep("reconcile")
ApplyStep == applyRestartAfterDrift \/ MarkApplied \/ JobStep("apply")
UninstallStep == UninstallRemoves \/ deleteWorkspacePluginRow

PluginNext ==
    \/ Install \/ InstallStep
    \/ ReconcileWorkspacePlugins \/ FragmentChanged \/ ReconcileStep
    \/ applyQueuedDrift \/ ApplyStep \/ sweepDriftOnce
    \/ Uninstall \/ UninstallStep
    \/ PutAllowlist \/ OtherFetch \/ UpstreamMoves \/ BoxRestarts

\* Goroutines run on, the sweep and the applier tick, restarts are carried out.
PluginFairness ==
    /\ WF_pluginVars(InstallStep) /\ WF_pluginVars(ReconcileStep)
    /\ WF_pluginVars(ApplyStep) /\ WF_pluginVars(UninstallStep)
    /\ WF_pluginVars(sweepDriftOnce) /\ WF_pluginVars(applyQueuedDrift)
    /\ SF_pluginVars(BoxRestarts)

PluginSpec == PluginInit /\ [][PluginNext]_pluginVars /\ PluginFairness

---------------------------------------------------------------------------
(* Properties.                                                             *)

\* One type invariant.
PluginTypeOK ==
    /\ {live, loaded} \subseteq 0..MaxUpstream /\ lastSHA \in 0..Foreign
    /\ dirLock \in Jobs \union {"none"}
    /\ pluginRow.sha \in 0..Foreign

\* Between deliveries the plugin is on the box if it ever was and nobody
\* removed it: a delivery that fails half way leaves what was there.
NothingIsLost == (dirLock = "none" /\ live = NoDir) => (removed \/ loaded = NoDir)

\* Nobody else moves the directory under the lock's holder but an uninstall.
LockIsHeld ==
    \A j \in Jobs : job[j].pc \in {"aside", "swap", "marker"} => dirLock = j

\* What is delivered is loaded: the agent ends up started with what lies in
\* the directory, unless the delivery was meant to be quiet, was compared with
\* another version than the one it replaced, or failed half way (a swap whose
\* marker failed is found by the reconcile and only recorded).
DeliveredIsLoaded == []<>(loaded = live \/ unloaded # "no" \/ pluginFaults > 0)

\* A tracked plugin's commit on file catches up with a source that rests,
\* whatever mixture of calls wrote it: the sweep queues again after each.
RecordCatchesUp ==
    []<>(\/ ~pluginRow.there \/ ~pluginRow.tracked \/ pluginRow.sha = upstream
         \/ place.kind = "pull" /\ place.concierge)

\* A plugin's way to the box keeps what was there and ends at the newest.
PluginsArrive ==
    /\ [](PluginTypeOK /\ NothingIsLost /\ LockIsHeld)
    /\ DeliveredIsLoaded /\ RecordCatchesUp

\* Refuted: no box is "permanently stale and reports converged".  The commit
\* is asked for after the archive was downloaded, read from a field that every
\* fetch of the resolver writes, and recorded after another delivery.
ConvergedIsFresh ==
    []<>((pluginRow.there /\ pluginRow.sha = upstream) => live = upstream)

\* Refuted: a delivery without a restart was found to change skill texts only.
\* The trees are compared before the lock is taken, and another delivery may
\* have changed more in between.
HotIsLoaded == []<>(loaded = live \/ unloaded = "quiet" \/ pluginFaults > 0)

\* Refuted: the drift apply path "manages restarts itself" and leaves the
\* concierge alone.  The delivery it calls has asked for a restart already.
ApplySparesConcierge ==
    [][(place.concierge /\ job'["apply"].pc = "rerun") => restartDue' = restartDue]_pluginVars

\* Refuted: what the org's list omits is not delivered; a reconcile and the
\* applier never ask.
OnlyListedDelivered == [][(allowlist = "omits" /\ live' # live) => live' = NoDir]_pluginVars

=============================================================================
