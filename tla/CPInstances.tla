---------------------------- MODULE CPInstances ----------------------------
(***************************************************************************)
(* One control-plane workspace and the provider instances that provisions  *)
(* make for it: provisionWorkspaceCP, the restart cycle's stop, DELETE, the *)
(* CP orphan sweeper, the CP instance reconciler and the owner's move of    *)
(* the workspace to another cloud (SwitchProvider, or a PATCH of compute). *)
(* The row's instance_id and provider are all the server knows of an       *)
(* instance: whoever stops the workspace reads them first, and whoever     *)
(* changes them must be sure.                                              *)
(* The control plane is external: a stop or a start either works or fails. *)
(***************************************************************************)
EXTENDS Naturals

CONSTANTS
    Boots,          \* provisions; each asks the control plane for one instance
    FirstBoot,      \* the one of the create; the others are restarts
    NoInstance,     \* instance_id IS NULL
    MaxCPFaults     \* bound: failed calls and statements

ASSUME BootsAssumption == FirstBoot \in Boots /\ NoInstance \notin Boots
ASSUME CPFaultsAssumption == MaxCPFaults \in Nat

VARIABLES
    cpRow,          \* workspaces.status, or "gone"
    instance,       \* workspaces.instance_id
    machine,        \* the provider's instances: "none", "running", "stopped"
    bootPC,         \* where each provision is
    cpDel,          \* where the DELETE request is
    cpSweep,        \* where the CP orphan sweeper is
    recon,          \* where the reconciler is
    candidate,      \* the instance_id of the reconciler's candidate row
    target,         \* instance a stop resolved, per stopping actor
    cpFaults,
    lost,           \* history: instances that ran on while their id was cleared or replaced
    cloud,          \* compute->>'provider', as the one the workspace was made on or the other
    madeOn,         \* the cloud each provision asked for
    switch,         \* the owner's move to the other cloud
    crossed         \* history: a provision or a delete and the move were under way together

moveVars == <<cloud, madeOn, switch, crossed>>
baseVars == <<cpRow, instance, machine, bootPC, cpDel, cpSweep, recon, candidate, target,
              cpFaults, lost>>
cpVars == <<baseVars, moveVars>>

CPDead == {"removed", "gone"}
CPRows == {"provisioning", "online", "failed"} \cup CPDead
BootPCs == {"read", "resolve", "terminate", "mark", "start", "persist", "markFailed", "done"}
CPDelPCs == {"read", "mark", "resolve", "terminate", "clear", "purge", "stopFailed", "done"}
CPSweepPCs == {"select", "resolve", "terminate", "clear"}
ReconPCs == {"select", "check", "reconfirm", "flip"}
Stoppers == Boots \cup {"delete", "sweep", "switch"}
Clouds == {"first", "second"}
SwitchPCs == {"read", "claim", "resolve", "terminate", "write", "name", "dispatch", "revert", "done"}

CPTypeOK ==
    /\ cpRow \in CPRows
    /\ instance \in Boots \cup {NoInstance}
    /\ machine \in [Boots -> {"none", "running", "stopped"}]
    /\ bootPC \in [Boots -> BootPCs]
    /\ cpDel \in CPDelPCs
    /\ cpSweep \in CPSweepPCs
    /\ recon \in ReconPCs
    /\ candidate \in Boots \cup {NoInstance}
    /\ target \in [Stoppers -> Boots \cup {NoInstance}]
    /\ cpFaults \in 0..MaxCPFaults
    /\ lost \subseteq Boots
    /\ cloud \in Clouds
    /\ madeOn \in [Boots -> Clouds]
    /\ switch \in [kind : {"switch", "patch"}, pc : SwitchPCs, prior : CPRows,
                    old : Boots \cup {NoInstance}, stuck : BOOLEAN, named : Boots \cup {NoInstance}]
    /\ crossed \in BOOLEAN

CPInit ==
    /\ cpRow = "provisioning"
    /\ instance = NoInstance
    /\ machine = [b \in Boots |-> "none"]
    /\ bootPC = [b \in Boots |-> IF b = FirstBoot THEN "start" ELSE "read"]
    /\ cpDel = "read"
    /\ cpSweep = "select"
    /\ recon = "select"
    /\ candidate = NoInstance
    /\ target = [a \in Stoppers |-> NoInstance]
    /\ cpFaults = 0
    /\ lost = {}
    /\ cloud = "first"
    /\ madeOn = [b \in Boots |-> "first"]
    /\ switch \in [kind : {"switch", "patch"}, pc : {"read"}, prior : {"online"},
                    old : {NoInstance}, stuck : {FALSE}, named : {NoInstance}]
    /\ crossed = FALSE

CPFault == cpFaults < MaxCPFaults /\ cpFaults' = cpFaults + 1
BootGoto(b, from, to) == bootPC[b] = from /\ bootPC' = [bootPC EXCEPT ![b] = to]
Actors == <<bootPC, cpDel, cpSweep, recon, candidate>>

\* stopInternal's first half: the id on file now is the one that is stopped.
resolveInstanceID(a) == target' = [target EXCEPT ![a] = instance]
\* Its second half: no id, nothing to do; otherwise DELETE /cp/workspaces/:id,
\* which the control plane routes to the cloud on file.
Terminate(a) ==
    machine' = IF target[a] = NoInstance \/ madeOn[target[a]] # cloud
                 THEN machine ELSE [machine EXCEPT ![target[a]] = "stopped"]
\* The stop is over, whatever came of it.
Stopped(a) == target' = [target EXCEPT ![a] = NoInstance]
\* The id that goes out of the row; it is lost when its machine runs.
Forget == lost' = IF instance # NoInstance /\ machine[instance] = "running"
                    THEN lost \cup {instance} ELSE lost
ClearInstanceID == instance' = NoInstance /\ Forget

-----------------------------------------------------------------------------
(* A provision; restarts stop the old instance first.  One at a time: the   *)
(* workspace's gate (module WorkspaceRestart).                              *)

GateFree(b) == \A c \in Boots \ {b} : bootPC[c] \in {"read", "done"}
Moving == switch.pc \notin {"read", "done"}

RestartCycleReads(b) ==
    /\ GateFree(b)
    /\ BootGoto(b, "read", IF cpRow \in CPDead THEN "done" ELSE "resolve")
    /\ crossed' = (crossed \/ Moving)
    /\ UNCHANGED <<cpRow, instance, machine, cpDel, cpSweep, recon, candidate, target, cpFaults, lost,
                   cloud, madeOn, switch>>

RestartResolves(b) ==
    /\ BootGoto(b, "resolve", "terminate")
    /\ resolveInstanceID(b)
    /\ UNCHANGED <<cpRow, instance, machine, cpDel, cpSweep, recon, candidate, cpFaults, lost, moveVars>>

\* cpStopWithRetry: a stop that keeps failing is logged as a suspected leak.
RestartTerminates(b) ==
    /\ BootGoto(b, "terminate", "mark")
    /\ \/ Terminate(b) /\ UNCHANGED cpFaults
       \/ CPFault /\ UNCHANGED machine
    /\ Stopped(b)
    /\ UNCHANGED <<cpRow, instance, cpDel, cpSweep, recon, candidate, lost, moveVars>>

\* withStoredCompute: the new instance is asked for on the cloud on file now.
RestartMarks(b) ==
    /\ BootGoto(b, "mark", "start")
    /\ cpRow' = IF cpRow = "gone" THEN cpRow ELSE "provisioning"
    /\ madeOn' = [madeOn EXCEPT ![b] = cloud]
    /\ UNCHANGED <<instance, machine, cpDel, cpSweep, recon, candidate, target, cpFaults, lost,
                   cloud, switch, crossed>>

\* POST /cp/workspaces/provision: an instance, an error, or an answer that is
\* lost on the way back from an instance that runs.
CPStart(b) ==
    /\ \/ /\ BootGoto(b, "start", "persist")
          /\ machine' = [machine EXCEPT ![b] = "running"]
          /\ UNCHANGED <<cpFaults, lost>>
       \/ /\ BootGoto(b, "start", "markFailed")
          /\ CPFault
          /\ \/ UNCHANGED <<machine, lost>>
             \/ machine' = [machine EXCEPT ![b] = "running"] /\ lost' = lost \cup {b}
    /\ UNCHANGED <<cpRow, instance, cpDel, cpSweep, recon, candidate, target, moveVars>>

\* UPDATE ... SET instance_id WHERE id, whatever the status; after the retries
\* the instance runs untracked.
PersistInstanceID(b) ==
    /\ \/ /\ BootGoto(b, "persist", "done")
          /\ IF cpRow = "gone"
               THEN UNCHANGED instance /\ lost' = lost \cup {b}
               ELSE instance' = b /\ Forget
          /\ UNCHANGED cpFaults
       \/ /\ BootGoto(b, "persist", "markFailed")
          /\ CPFault
          /\ lost' = lost \cup {b}
          /\ UNCHANGED instance
    /\ UNCHANGED <<cpRow, machine, cpDel, cpSweep, recon, candidate, target, moveVars>>

CPMarkFailed(b) ==
    /\ BootGoto(b, "markFailed", "done")
    /\ cpRow' = IF cpRow \in CPDead THEN cpRow ELSE "failed"
    /\ UNCHANGED <<instance, machine, cpDel, cpSweep, recon, candidate, target, cpFaults, lost, moveVars>>

BootStep(b) ==
    \/ RestartCycleReads(b) \/ RestartResolves(b) \/ RestartTerminates(b) \/ RestartMarks(b)
    \/ CPStart(b) \/ PersistInstanceID(b) \/ CPMarkFailed(b)

-----------------------------------------------------------------------------
(* DELETE: no start is cancelled on this backend.                           *)

CPDelGoto(from, to) == cpDel = from /\ cpDel' = to
CPDelKeeps == <<bootPC, cpSweep, recon, candidate, cloud, madeOn, switch>>

CPDeleteReads ==
    /\ CPDelGoto("read", IF cpRow \in CPDead THEN "done" ELSE "mark")
    /\ crossed' = (crossed \/ Moving)
    /\ UNCHANGED <<cpRow, instance, machine, target, cpFaults, lost, CPDelKeeps>>

\* A failed UPDATE is logged, and the teardown goes on.
CPMarkRemoved ==
    /\ CPDelGoto("mark", "resolve")
    /\ \/ cpRow' = (IF cpRow = "gone" THEN cpRow ELSE "removed") /\ UNCHANGED cpFaults
       \/ CPFault /\ UNCHANGED cpRow
    /\ UNCHANGED <<instance, machine, target, lost, CPDelKeeps, crossed>>

DeleteResolves ==
    /\ CPDelGoto("resolve", "terminate")
    /\ resolveInstanceID("delete")
    /\ UNCHANGED <<cpRow, instance, machine, cpFaults, lost, CPDelKeeps, crossed>>

\* stopWorkspaceForDelete: exhausted retries keep instance_id for the sweeper.
DeleteTerminates ==
    /\ \/ CPDelGoto("terminate", "clear") /\ Terminate("delete") /\ UNCHANGED cpFaults
       \/ CPDelGoto("terminate", "stopFailed") /\ CPFault /\ UNCHANGED machine
    /\ Stopped("delete")
    /\ UNCHANGED <<cpRow, instance, lost, CPDelKeeps, crossed>>

\* A failed UPDATE is logged, and the id left to the sweeper.
clearWorkspaceInstanceIDAfterStop ==
    /\ CPDelGoto("clear", "purge")
    /\ \/ ClearInstanceID /\ UNCHANGED cpFaults
       \/ CPFault /\ UNCHANGED <<instance, lost>>
    /\ UNCHANGED <<cpRow, machine, target, CPDelKeeps, crossed>>

CPDeletePurges ==
    /\ CPDelGoto("purge", "done")
    /\ \/ cpRow' = "gone" /\ instance' = NoInstance /\ Forget
       \/ UNCHANGED <<cpRow, instance, lost>>
    /\ UNCHANGED <<machine, target, cpFaults, CPDelKeeps, crossed>>

CPDeleteStep ==
    \/ CPDeleteReads \/ CPMarkRemoved \/ DeleteResolves \/ DeleteTerminates
    \/ clearWorkspaceInstanceIDAfterStop \/ CPDeletePurges

-----------------------------------------------------------------------------
(* cpSweepOnce: removed rows that still name an instance.                   *)

CPSweepKeeps == <<cpRow, bootPC, cpDel, recon, candidate, moveVars>>

CPSweepSelects ==
    /\ cpSweep = "select" /\ cpRow = "removed" /\ instance # NoInstance
    /\ cpSweep' = "resolve"
    /\ UNCHANGED <<instance, machine, target, cpFaults, lost, CPSweepKeeps>>

CPSweepResolves ==
    /\ cpSweep = "resolve"
    /\ cpSweep' = "terminate"
    /\ resolveInstanceID("sweep")
    /\ UNCHANGED <<instance, machine, cpFaults, lost, CPSweepKeeps>>

\* A failed stop leaves the row for the next cycle.
CPSweepTerminates ==
    /\ cpSweep = "terminate"
    /\ \/ cpSweep' = "clear" /\ Terminate("sweep") /\ UNCHANGED cpFaults
       \/ cpSweep' = "select" /\ CPFault /\ UNCHANGED machine
    /\ Stopped("sweep")
    /\ UNCHANGED <<instance, lost, CPSweepKeeps>>

CPSweepClears ==
    /\ cpSweep = "clear"
    /\ cpSweep' = "select"
    /\ \/ ClearInstanceID /\ UNCHANGED cpFaults
       \/ CPFault /\ UNCHANGED <<instance, lost>>
    /\ UNCHANGED <<machine, target, CPSweepKeeps>>

CPSweepStep == CPSweepSelects \/ CPSweepResolves \/ CPSweepTerminates \/ CPSweepClears

-----------------------------------------------------------------------------
(* The owner moves the workspace to the other cloud: POST switch-provider,  *)
(* or a PATCH whose compute names another provider.  Both stop the old      *)
(* instance while the row still says where it is.  None of it holds the     *)
(* gate before the new instance is asked for.                               *)

MoveEnds == [switch EXCEPT !.pc = "done", !.prior = "online", !.old = NoInstance,
                           !.stuck = FALSE, !.named = NoInstance]
MoveGoto(from, to) ==
    switch.pc = from /\ switch' = IF to = "done" THEN MoveEnds ELSE [switch EXCEPT !.pc = to]
MoveKeeps == <<bootPC, cpDel, cpSweep, recon, candidate>>
NobodyElse == cpDel \in {"read", "done", "stopFailed"} /\ \A b \in Boots : bootPC[b] \in {"read", "done"}

\* The row's status, provider and instance; a removed row is answered 404.
SwitchReads ==
    /\ switch.pc = "read" /\ cpRow \notin CPDead
    /\ switch' = [switch EXCEPT !.pc = IF switch.kind = "switch" THEN "claim" ELSE "resolve",
                                !.prior = cpRow, !.old = instance]
    /\ crossed' = ~NobodyElse
    /\ UNCHANGED <<cpRow, instance, machine, target, cpFaults, lost, cloud, madeOn, MoveKeeps>>

\* The pre-claim: UPDATE ... WHERE status <> 'provisioning' and the provider is
\* the one that was read; 0 rows answer 409 and arm no rollback.
SwitchClaims ==
    /\ IF cpRow \in {"provisioning", "gone"}
         THEN MoveGoto("claim", "done") /\ UNCHANGED cpRow
         ELSE MoveGoto("claim", "resolve") /\ cpRow' = "provisioning"
    /\ UNCHANGED <<instance, machine, target, cpFaults, lost, cloud, madeOn, crossed, MoveKeeps>>

SwitchResolves ==
    /\ MoveGoto("resolve", "terminate")
    /\ resolveInstanceID("switch")
    /\ UNCHANGED <<cpRow, instance, machine, cpFaults, lost, cloud, madeOn, crossed, MoveKeeps>>

\* A stop that keeps failing: the switch goes on, the PATCH answers 502.
SwitchTerminates ==
    /\ \/ MoveGoto("terminate", "write") /\ Terminate("switch") /\ UNCHANGED cpFaults
       \/ /\ switch.pc = "terminate" /\ CPFault /\ UNCHANGED machine
          /\ switch' = IF switch.kind = "switch" THEN [switch EXCEPT !.pc = "write", !.stuck = TRUE]
                                               ELSE MoveEnds
    /\ Stopped("switch")
    /\ UNCHANGED <<cpRow, instance, lost, cloud, madeOn, crossed, MoveKeeps>>

\* The switch also clears instance_id; without a row there is nothing to move,
\* and a failed UPDATE leaves the rollback.
SwitchWrites ==
    /\ \/ /\ switch.kind = "switch" /\ cpRow # "gone"
          /\ MoveGoto("write", IF switch.stuck THEN "name" ELSE "dispatch")
          /\ cloud' = "second" /\ ClearInstanceID
          /\ UNCHANGED cpFaults
       \/ /\ switch.kind = "patch" \/ cpRow = "gone"
          /\ MoveGoto("write", "done")
          /\ cloud' = IF cpRow = "gone" THEN cloud ELSE "second"
          /\ UNCHANGED <<instance, lost, cpFaults>>
       \/ /\ CPFault
          /\ MoveGoto("write", IF switch.kind = "switch" THEN "revert" ELSE "done")
          /\ UNCHANGED <<cloud, instance, lost>>
    /\ UNCHANGED <<cpRow, machine, target, madeOn, crossed, MoveKeeps>>

\* The event that names the instance nobody tracks any more; best effort.
emitSwitchProviderStopExhausted ==
    /\ switch.pc = "name"
    /\ \/ /\ switch' = [switch EXCEPT !.pc = "dispatch", !.named = switch.old]
          /\ UNCHANGED cpFaults
       \/ MoveGoto("name", "dispatch") /\ CPFault
    /\ UNCHANGED <<cpRow, instance, machine, target, lost, cloud, madeOn, crossed, MoveKeeps>>

\* provisionWorkspaceAuto waits for the gate; the switch is then committed.
SwitchDispatches(b) ==
    /\ GateFree(b)
    /\ MoveGoto("dispatch", "done")
    /\ BootGoto(b, "read", "start")
    /\ madeOn' = [madeOn EXCEPT ![b] = cloud]
    /\ UNCHANGED <<cpRow, instance, machine, cpDel, cpSweep, recon, candidate, target, cpFaults, lost,
                   cloud, crossed>>

\* The deferred rollback, with a context of its own.
SwitchReverts ==
    /\ MoveGoto("revert", "done")
    /\ cpRow' = IF cpRow = "provisioning" THEN switch.prior ELSE cpRow
    /\ UNCHANGED <<instance, machine, target, cpFaults, lost, cloud, madeOn, crossed, MoveKeeps>>

SwitchStep ==
    \/ SwitchReads \/ SwitchClaims \/ SwitchResolves \/ SwitchTerminates \/ SwitchWrites
    \/ emitSwitchProviderStopExhausted \/ SwitchReverts
    \/ \E b \in Boots : SwitchDispatches(b)

-----------------------------------------------------------------------------
(* The instance reconciler, the runtime and the provider.                   *)

ReconKeeps == <<cpRow, instance, machine, bootPC, cpDel, cpSweep, target, cpFaults, lost, moveVars>>

reconcileSelects ==
    /\ recon = "select" /\ cpRow = "online" /\ instance # NoInstance
    /\ recon' = "check"
    /\ candidate' = instance
    /\ UNCHANGED ReconKeeps

\* IsRunning reads instance_id and the cloud again and asks that cloud; an
\* error reads as running.
reconcileChecks ==
    /\ recon = "check"
    /\ recon' = IF instance # NoInstance /\ machine[instance] = "running" /\ madeOn[instance] = cloud THEN "select" ELSE "reconfirm"
    /\ candidate' = IF recon' = "select" THEN NoInstance ELSE candidate
    /\ UNCHANGED ReconKeeps

reconfirmAnyInstance ==
    /\ recon = "reconfirm"
    /\ recon' = IF cpRow = "online" THEN "flip" ELSE "select"
    /\ candidate' = IF recon' = "select" THEN NoInstance ELSE candidate
    /\ UNCHANGED ReconKeeps

\* Status and instance_id must be what the candidate was selected with.
reconfirmStillOfflineCandidate ==
    /\ recon = "reconfirm"
    /\ recon' = IF cpRow = "online" /\ instance = candidate THEN "flip" ELSE "select"
    /\ candidate' = IF recon' = "select" THEN NoInstance ELSE candidate
    /\ UNCHANGED ReconKeeps

\* onOffline: broadcast and an automatic restart, which any of the boots may be.
ReconcileFlips ==
    /\ recon = "flip"
    /\ recon' = "select"
    /\ candidate' = NoInstance
    /\ UNCHANGED ReconKeeps

\* The runtime registers from whichever instance runs.
CPRegister ==
    /\ \E b \in Boots : machine[b] = "running"
    /\ cpRow \in {"provisioning", "failed"}
    /\ cpRow' = "online"
    /\ UNCHANGED <<instance, machine, Actors, target, cpFaults, lost, moveVars>>

\* The provider takes an instance away.
MachineDies(b) ==
    /\ machine[b] = "running"
    /\ machine' = [machine EXCEPT ![b] = "stopped"]
    /\ CPFault
    /\ UNCHANGED <<cpRow, instance, Actors, target, lost, moveVars>>

CPNext ==
    \/ \E b \in Boots : BootStep(b) \/ MachineDies(b)
    \/ CPDeleteStep \/ CPSweepStep \/ SwitchStep
    \/ reconcileSelects \/ reconcileChecks \/ reconfirmStillOfflineCandidate \/ ReconcileFlips
    \/ CPRegister

CPSpec == CPInit /\ [][CPNext]_cpVars

\* Goroutines run on and the sweeper's ticker fires for ever.
CPFairness ==
    /\ \A b \in Boots : WF_cpVars(BootStep(b))
    /\ WF_cpVars(CPDeleteStep)
    /\ WF_cpVars(CPSweepStep)
    /\ WF_cpVars(SwitchStep)

CPFairSpec == CPSpec /\ CPFairness

-----------------------------------------------------------------------------
(* Properties.                                                             *)

\* Every running instance that no provision is about to record is the one on
\* file, or was lost by a clear, a replacement, a failed persist or a lost
\* answer: the row
\* never names an instance while another one of its own runs unnoticed.
RunningIsOnFile ==
    \A b \in Boots : machine[b] = "running" /\ bootPC[b] # "persist"
        => instance = b \/ b \in lost

\* Without a failed call, a restart and a delete lose no instance except by
\* racing: one is lost only when an id was recorded after the stop had read
\* the old one (workspace_crud.go:1137, cp_orphan_sweeper.go:142), or when the
\* row was purged under the provision.
LostOnlyByRace ==
    cpFaults = 0 /\ lost # {} => cpRow \in CPDead \/ cpDel \notin {"read", "mark"} \/ crossed

\* The reconciler flips a workspace only when the instance on file does not run,
\* though the row is read three times (reconfirmStillOfflineCandidate), unless a
\* move to another cloud was crossed and its cloud is not the one on file.
FlipOnlyDead ==
    [][recon = "reconfirm" /\ recon' = "flip"
          => /\ instance # NoInstance
             /\ (machine[instance] # "running" \/ (crossed /\ madeOn[instance] # cloud))]_cpVars

\* The cloud on file is the one the instance on file runs on, so that a stop is
\* sent where the instance is (workspace_crud.go:513-520), whatever calls fail;
\* only a provision or a delete beside the move undoes it.
CloudIsTheInstances ==
    instance # NoInstance /\ machine[instance] = "running" /\ ~crossed => madeOn[instance] = cloud

\* An instance that the switch could not stop, and whose id it cleared, is named
\* in an event before the new one is asked for (workspace_switch_provider.go:231),
\* unless the event's own INSERT failed as well.
StuckIsNamed ==
    switch.pc = "dispatch" /\ switch.stuck /\ ~crossed /\ cpFaults = 1
        => switch.old = NoInstance \/ switch.named = switch.old

\* A removed workspace's instance is terminated in the end, unless its id was
\* lost: one recorded after the delete is found by the sweeper.
RemovedInstanceStops ==
    \A b \in Boots :
        []<>~(cpRow = "removed" /\ machine[b] = "running" /\ b \notin lost)

\* instance_id is cleared only over a stopped instance (workspace_crud.go:1124:
\* "Compute is confirmed stopped, so no live instance is attached any more").
ClearedIsStopped ==
    [][instance # NoInstance /\ instance' = NoInstance => machine[instance] # "running"]_cpVars

\* The rollback gives back only the status the switch itself set
\* (workspace_switch_provider.go:172: "so a concurrent switch/provision that has
\* already advanced the status is not clobbered").
RollbackSparesOthers ==
    [][SwitchReverts /\ cpRow' # cpRow => \A b \in Boots : bootPC[b] \notin {"start", "persist"}]_cpVars

\* A switch that fails does not leave the row in provisioning
\* (workspace_switch_provider.go:166, "stranded in 'provisioning' forever").
RollbackUnstrands ==
    [][SwitchReverts => cpRow' # "provisioning"]_cpVars

\* A removed workspace is not given another life by a switch that read it before.
ClaimSparesRemoved == [][SwitchClaims => cpRow # "removed"]_cpVars

\* The machines of the control plane are accounted for (provisionWorkspaceCP,
\* the DELETE cascade, the orphan sweeper, the instance reconciler).
MachinesAreAccounted ==
    /\ []CPTypeOK
    /\ []RunningIsOnFile
    /\ []LostOnlyByRace
    /\ []CloudIsTheInstances
    /\ []StuckIsNamed
    /\ FlipOnlyDead
    /\ RemovedInstanceStops

=============================================================================
