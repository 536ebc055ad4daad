---------------------------- MODULE StartDelete ----------------------------
(***************************************************************************)
(* One Docker workspace that is started, deleted and swept at once         *)
(* (internal/provisioner, handlers/workspace_crud.go,                      *)
(* internal/registry/orphan_sweeper.go).  A start runs in a goroutine of   *)
(* its own and may spend minutes before it creates the container ws-<id>;  *)
(* a delete marks the row, cancels the starts it finds, waits a while and  *)
(* tears down; the orphan sweeper lists containers every minute and reaps  *)
(* the ones whose row is removed or missing.                               *)
(*                                                                         *)
(* Docker is external: a call under a cancelled context fails, and a       *)
(* failed ContainerCreate may still have made the container, at once or    *)
(* later.  The config volume stands for the claude-sessions volume too.    *)
(***************************************************************************)
EXTENDS Naturals

CONSTANTS
    Creates,        \* starts of a create or a bundle import: the row is there
    Restarts,       \* starts of the Restart handler, which marks the row itself
    NoStart,        \* nobody's container, nobody's token
    MaxFaults       \* bound: failed statements, failed or late Docker calls

ASSUME StartsAssumption == Creates \cap Restarts = {} /\ NoStart \notin Creates \cup Restarts
ASSUME FaultsAssumption == MaxFaults \in Nat

Starts == Creates \cup Restarts

VARIABLES
    row,            \* workspaces.status, or "gone" once the row is purged
    box,            \* the start that created ws-<id>, or NoStart
    boxUp,          \* that container was started
    volume,         \* the config volume: "none", "labelled" or "bare"
    token,          \* the start whose auth token is not revoked, or NoStart
    aged,           \* that token is past staleTokenGrace
    register,       \* the start whose container has a /registry/register under way
    startPC,        \* where each start is
    inflight,       \* Provisioner.inflight[id]
    cancelled,      \* starts whose context a delete cancelled
    delPC,          \* where the DELETE request is
    sweepPC,        \* where the orphan sweeper is
    pass,           \* which of its three passes
    late,           \* starts whose abandoned ContainerCreate is still with dockerd
    startFaults,
    judged,         \* the token the stale-token pass selected, or NoStart
    revived         \* history: a dead row was brought back

startVars == <<row, box, boxUp, volume, token, aged, register, startPC, inflight,
               cancelled, delPC, sweepPC, pass, late, startFaults, judged,
               revived>>
world == <<row, token, aged, register, delPC, sweepPC, pass, judged, revived>>

Dead == {"removed", "gone"}
Rows == {"provisioning", "online", "failed"} \cup Dead
StartPCs == {"read", "mark", "stop", "mint", "track", "volume", "image", "clear",
             "check1", "ensure", "create", "boot", "check2", "return", "unwind",
             "discardBox", "discardVolume", "markFailed", "done"}
DelPCs == {"read", "mark", "revoke", "cancel", "wait", "stop", "volume", "purge",
           "stopFailed", "done"}
SweepPCs == {"list", "read", "stop", "volume", "revoke"}

StartDeleteTypeOK ==
    /\ row \in Rows
    /\ box \in Starts \cup {NoStart}
    /\ boxUp \in BOOLEAN
    /\ volume \in {"none", "labelled", "bare"}
    /\ token \in Starts \cup {NoStart}
    /\ aged \in BOOLEAN
    /\ register \in Starts \cup {NoStart}
    /\ startPC \in [Starts -> StartPCs]
    /\ inflight \subseteq Starts
    /\ cancelled \subseteq Starts
    /\ delPC \in DelPCs
    /\ sweepPC \in SweepPCs
    /\ pass \in 1..3
    /\ late \subseteq Starts
    /\ startFaults \in 0..MaxFaults
    /\ judged \in Starts \cup {NoStart}
    /\ revived \in BOOLEAN

\* A workspace whose row was just inserted; nothing exists in Docker yet.
StartDeleteInit ==
    /\ row = "provisioning"
    /\ box = NoStart
    /\ boxUp = FALSE
    /\ volume = "none"
    /\ token = NoStart
    /\ aged = FALSE
    /\ register = NoStart
    /\ startPC = [s \in Starts |-> IF s \in Creates THEN "mint" ELSE "read"]
    /\ inflight = {}
    /\ cancelled = {}
    /\ delPC = "read"
    /\ sweepPC = "list"
    /\ pass = 1
    /\ late = {}
    /\ startFaults = 0
    /\ judged = NoStart
    /\ revived = FALSE

StartGoto(s, from, to) == startPC[s] = from /\ startPC' = [startPC EXCEPT ![s] = to]
StartFault == startFaults < MaxFaults /\ startFaults' = startFaults + 1
Docker == <<box, boxUp, volume>>
Tracking == <<inflight, cancelled, late>>

\* Docker: force-remove by name; nothing to do when there is no such container.
ContainerRemove == box' = NoStart /\ boxUp' = FALSE
\* RemoveVolume: dockerd refuses a volume that a container mounts.
RemoveVolume == volume' = IF box = NoStart THEN "none" ELSE volume
VolumeCreate == volume' = IF volume = "none" THEN "labelled" ELSE volume

-----------------------------------------------------------------------------
(* The Restart handler around a start: it reads the row, refuses a removed *)
(* one, marks it provisioning and stops the container that runs.           *)

RestartReads(s) ==
    /\ StartGoto(s, "read", IF row \in Dead THEN "done" ELSE "mark")
    /\ UNCHANGED <<world, Docker, Tracking, startFaults>>

\* UPDATE ... WHERE id, whatever the row says now.
markProvisioningForRestart(s) ==
    /\ StartGoto(s, "mark", "stop")
    /\ row' = IF row = "gone" THEN row ELSE "provisioning"
    /\ revived' = (revived \/ row = "removed")
    /\ UNCHANGED <<judged, token, aged, register, delPC, sweepPC, pass, Docker, Tracking, startFaults>>

RestartStops(s) ==
    /\ StartGoto(s, "stop", "mint")
    /\ ContainerRemove
    /\ UNCHANGED <<world, volume, Tracking, startFaults>>

-----------------------------------------------------------------------------
(* provisionWorkspaceOpts and Provisioner.Start.                           *)

\* prepareProvisionContext can refuse before anything is made.
PrepareFails(s) ==
    /\ StartGoto(s, "mint", "markFailed")
    /\ StartFault
    /\ UNCHANGED <<world, Docker, Tracking>>

\* mintWorkspaceSecrets: revoke the workspace's tokens, issue a fresh one.
mintWorkspaceSecrets(s) ==
    /\ StartGoto(s, "mint", "track")
    /\ token' = IF row = "gone" THEN NoStart ELSE s
    /\ aged' = FALSE
    /\ UNCHANGED <<judged, row, revived, register, delPC, sweepPC, pass, Docker, Tracking, startFaults>>

trackStart(s) ==
    /\ StartGoto(s, "track", "volume")
    /\ inflight' = inflight \cup {s}
    /\ UNCHANGED <<world, Docker, cancelled, late, startFaults>>

\* A call of the start ends in an error: its own fault, or its context is cancelled.
CallFails(s, at) ==
    /\ StartGoto(s, at, "unwind")
    /\ IF s \in cancelled THEN UNCHANGED startFaults ELSE StartFault
    /\ UNCHANGED <<world, Docker, Tracking>>

CreateConfigVolume(s) ==
    /\ StartGoto(s, "volume", "image")
    /\ s \notin cancelled
    /\ VolumeCreate
    /\ UNCHANGED <<world, box, boxUp, Tracking, startFaults>>

\* Local build: a delete ends the wait with an error (CallFails).  Registry:
\* ensureImagePresent is best effort, a cancelled pull goes on to the check.
GetImage(s) ==
    /\ StartGoto(s, "image", "clear")
    /\ UNCHANGED <<world, Docker, Tracking, startFaults>>

\* The stale container goes; the error of a cancelled call is ignored.
ClearStale(s) ==
    /\ StartGoto(s, "clear", "check1")
    /\ IF s \in cancelled THEN UNCHANGED <<box, boxUp>> ELSE ContainerRemove
    /\ UNCHANGED <<world, volume, Tracking, startFaults>>

\* workspaceRemoved on a detached context; WorkspaceIsRemoved answers false to
\* a lookup that fails.
workspaceRemoved(s, at, alive) ==
    /\ \/ StartGoto(s, at, IF row \in Dead THEN "discardBox" ELSE alive) /\ UNCHANGED startFaults
       \/ StartGoto(s, at, alive) /\ StartFault
    /\ UNCHANGED <<world, Docker, Tracking>>

EnsureVolume(s) ==
    /\ StartGoto(s, "ensure", "create")
    /\ s \notin cancelled
    /\ VolumeCreate
    /\ UNCHANGED <<world, box, boxUp, Tracking, startFaults>>

\* The daemon makes the container; a volume that is gone comes back empty and
\* unlabelled with the bind.
MakeBox(s) ==
    /\ box = NoStart
    /\ box' = s
    /\ boxUp' = FALSE
    /\ volume' = IF volume = "none" THEN "bare" ELSE volume

ContainerCreate(s) ==
    /\ s \notin cancelled
    /\ \/ StartGoto(s, "create", "boot") /\ MakeBox(s)
       \/ StartGoto(s, "create", "unwind") /\ box # NoStart /\ UNCHANGED Docker  \* name conflict
    /\ UNCHANGED <<world, Tracking, startFaults>>

\* The client gave the call up, the daemon carried it out: now or later.
AbandonedCreate(s) ==
    /\ s \in cancelled
    /\ StartGoto(s, "create", "unwind")
    /\ \/ MakeBox(s) /\ UNCHANGED <<late, startFaults>>
       \/ late' = late \cup {s} /\ StartFault /\ UNCHANGED Docker
    /\ UNCHANGED <<world, inflight, cancelled>>

LateCreate(s) ==
    /\ s \in late
    /\ late' = late \ {s}
    /\ IF box = NoStart THEN MakeBox(s) ELSE UNCHANGED Docker
    /\ UNCHANGED <<world, startPC, inflight, cancelled, startFaults>>

\* Seed files and ContainerStart, by container ID; another start's stale
\* removal may have taken the container away.
ContainerStart(s) ==
    /\ s \notin cancelled
    /\ box = s
    /\ StartGoto(s, "boot", "check2")
    /\ boxUp' = TRUE
    /\ UNCHANGED <<world, box, volume, Tracking, startFaults>>

\* A failed seed or start removes the container by ID, on the same context.
ContainerStartFails(s) ==
    /\ StartGoto(s, "boot", "unwind")
    /\ IF s \in cancelled \/ box # s
         THEN UNCHANGED <<box, boxUp, startFaults>>
         ELSE ContainerRemove /\ StartFault
    /\ UNCHANGED <<world, volume, Tracking>>

UnwindNeverDiscards(s) ==
    /\ StartGoto(s, "unwind", "markFailed")
    /\ inflight' = inflight \ {s}
    /\ UNCHANGED <<world, Docker, cancelled, late, startFaults>>

\* Start after an error: a cancelled start discards what it made, any other
\* error goes to markProvisionFailed.  A start that succeeded just returns.
Unwind(s) ==
    /\ IF s \in cancelled
         THEN StartGoto(s, "unwind", "discardBox") /\ UNCHANGED inflight
         ELSE StartGoto(s, "unwind", "markFailed") /\ inflight' = inflight \ {s}
    /\ UNCHANGED <<world, Docker, cancelled, late, startFaults>>

\* discardRemovedWorkspace: by name, on a detached context; errors are logged.
DiscardBox(s) ==
    /\ StartGoto(s, "discardBox", "discardVolume")
    /\ \/ ContainerRemove /\ UNCHANGED startFaults
       \/ StartFault /\ UNCHANGED <<box, boxUp>>
    /\ UNCHANGED <<world, volume, Tracking>>

DiscardVolume(s) ==
    /\ StartGoto(s, "discardVolume", "return")
    /\ RemoveVolume
    /\ UNCHANGED <<world, box, boxUp, Tracking, startFaults>>

StartReturns(s) ==
    /\ StartGoto(s, "return", "done")
    /\ inflight' = inflight \ {s}
    /\ UNCHANGED <<world, Docker, cancelled, late, startFaults>>

markProvisionFailed(s) ==
    /\ StartGoto(s, "markFailed", "done")
    /\ row' = IF row \in Dead THEN row ELSE "failed"
    /\ UNCHANGED <<judged, revived, token, aged, register, delPC, sweepPC, pass, Docker, Tracking, startFaults>>

StartStep(s) ==
    \/ RestartReads(s) \/ markProvisioningForRestart(s) \/ RestartStops(s)
    \/ PrepareFails(s) \/ mintWorkspaceSecrets(s) \/ trackStart(s)
    \/ \E at \in {"volume", "image", "ensure", "create"} : CallFails(s, at)
    \/ CreateConfigVolume(s) \/ GetImage(s) \/ ClearStale(s)
    \/ workspaceRemoved(s, "check1", "ensure")
    \/ EnsureVolume(s) \/ ContainerCreate(s) \/ AbandonedCreate(s)
    \/ ContainerStart(s) \/ ContainerStartFails(s)
    \/ workspaceRemoved(s, "check2", "return")
    \/ Unwind(s) \/ DiscardBox(s) \/ DiscardVolume(s) \/ StartReturns(s)
    \/ markProvisionFailed(s)

-----------------------------------------------------------------------------
(* DELETE /workspaces/:id: Delete and CascadeDelete of one workspace.      *)

DelGoto(from, to) == delPC = from /\ delPC' = to
DelKeeps == <<judged, revived, aged, register, sweepPC, pass, startPC, late>>

\* A removed row is answered 410, a missing one 404: nothing more is done.
DeleteReads ==
    /\ DelGoto("read", IF row \in Dead THEN "done" ELSE "mark")
    /\ UNCHANGED <<row, token, Docker, inflight, cancelled, startFaults, DelKeeps>>

\* An UPDATE that fails is logged and the teardown goes on.
MarkRemoved ==
    /\ DelGoto("mark", "revoke")
    /\ \/ row' = (IF row = "gone" THEN row ELSE "removed") /\ UNCHANGED startFaults
       \/ StartFault /\ UNCHANGED row
    /\ UNCHANGED <<token, Docker, inflight, cancelled, DelKeeps>>

RevokeTokens ==
    /\ DelGoto("revoke", "cancel")
    /\ token' = NoStart
    /\ UNCHANGED <<row, Docker, inflight, cancelled, startFaults, DelKeeps>>

\* cancelInflightProvisions: cancel only, then cancel again and wait.
CancelInflightStart ==
    /\ DelGoto("cancel", "wait") \/ DelGoto("wait", "stop")
    /\ cancelled' = cancelled \cup inflight
    /\ UNCHANGED <<row, token, Docker, inflight, startFaults, DelKeeps>>

\* The wait ends when the cancelled starts are done or after
\* inflightProvisionWait, so the stop may come at any time after it.
DeleteStops ==
    /\ \/ DelGoto("stop", "volume") /\ ContainerRemove /\ UNCHANGED startFaults
       \/ DelGoto("stop", "stopFailed") /\ StartFault /\ UNCHANGED <<box, boxUp>>
    /\ UNCHANGED <<row, token, volume, inflight, cancelled, DelKeeps>>

DeleteRemovesVolume ==
    /\ DelGoto("volume", "purge")
    /\ RemoveVolume
    /\ UNCHANGED <<row, token, box, boxUp, inflight, cancelled, startFaults, DelKeeps>>

\* ?purge=true deletes the tokens and the row.
DeletePurges ==
    /\ DelGoto("purge", "done")
    /\ \/ row' = "gone" /\ token' = NoStart
       \/ UNCHANGED <<row, token>>
    /\ UNCHANGED <<Docker, inflight, cancelled, startFaults, DelKeeps>>

DeleteStep ==
    \/ DeleteReads \/ MarkRemoved \/ RevokeTokens \/ CancelInflightStart
    \/ DeleteStops \/ DeleteRemovesVolume \/ DeletePurges

-----------------------------------------------------------------------------
(* sweepOnce: three passes, each of them list, read, act.                  *)

SweepKeeps == <<revived, row, register, startPC, delPC, Tracking>>
Listed == box # NoStart
NextPass == pass' = (pass % 3) + 1 /\ sweepPC' = "list" /\ judged' = NoStart

\* A listing that finds nothing ends pass 1 and 2, and is what pass 3 is for.
SweepLists ==
    /\ sweepPC = "list"
    /\ IF Listed <=> pass # 3
         THEN sweepPC' = "read" /\ UNCHANGED <<pass, judged>>
         ELSE NextPass
    /\ UNCHANGED <<token, aged, Docker, startFaults, SweepKeeps>>

\* sweepRemovedRows and sweepLabeledOrphansWithoutRows stop what they find,
\* sweepStaleTokensWithoutContainer revokes.
Orphaned == (pass = 1 /\ row = "removed") \/ (pass = 2 /\ row = "gone")
StaleToken == pass = 3 /\ token # NoStart /\ aged /\ row \notin Dead \cup {"provisioning"}

SweepReadsRemovedOnly ==
    /\ sweepPC = "read"
    /\ IF pass = 1 /\ row = "removed"
         THEN sweepPC' = "stop" /\ UNCHANGED <<pass, judged>>
         ELSE NextPass
    /\ UNCHANGED <<token, aged, Docker, startFaults, SweepKeeps>>

SweepReads ==
    /\ sweepPC = "read"
    /\ \/ Orphaned /\ sweepPC' = "stop" /\ UNCHANGED <<pass, judged>>
       \/ StaleToken /\ sweepPC' = "revoke" /\ judged' = token /\ UNCHANGED pass
       \/ ~Orphaned /\ ~StaleToken /\ NextPass
    /\ UNCHANGED <<token, aged, Docker, startFaults, SweepKeeps>>

\* A failed stop leaves the volume for the next cycle.
SweepStops ==
    /\ sweepPC = "stop"
    /\ \/ ContainerRemove /\ sweepPC' = "volume" /\ UNCHANGED <<pass, judged, startFaults>>
       \/ StartFault /\ NextPass /\ UNCHANGED <<box, boxUp>>
    /\ UNCHANGED <<token, aged, volume, SweepKeeps>>

SweepRemovesVolume ==
    /\ sweepPC = "volume"
    /\ RemoveVolume
    /\ NextPass
    /\ UNCHANGED <<token, aged, box, boxUp, startFaults, SweepKeeps>>

SweepRevokesAll ==
    /\ sweepPC = "revoke"
    /\ token' = NoStart
    /\ NextPass
    /\ UNCHANGED <<aged, Docker, startFaults, SweepKeeps>>

\* The UPDATE repeats the staleness predicate of the SELECT.
SweepRevokes ==
    /\ sweepPC = "revoke"
    /\ token' = IF aged THEN NoStart ELSE token
    /\ NextPass
    /\ UNCHANGED <<aged, Docker, startFaults, SweepKeeps>>

SweepStep == SweepLists \/ SweepReads \/ SweepStops \/ SweepRemovesVolume \/ SweepRevokes

-----------------------------------------------------------------------------
(* The runtime in the container, and time.                                 *)

SendRegister ==
    /\ boxUp /\ register = NoStart
    /\ register' = box
    /\ UNCHANGED <<judged, revived, row, token, aged, startPC, delPC, sweepPC, pass, Docker, Tracking, startFaults>>

\* Register: the container's token must be the live one, if there is one.  The
\* upsert inserts a missing row and puts an existing one online unless it is
\* removed; a workspace left without a token is issued one.
Register ==
    /\ register # NoStart
    /\ register' = NoStart
    /\ IF token \in {NoStart, register}
         THEN /\ row' = IF row = "removed" THEN row ELSE "online"
              /\ revived' = (revived \/ row = "gone")
              /\ token' = register
              /\ aged' = FALSE
         ELSE UNCHANGED <<row, revived, token, aged>>
    /\ UNCHANGED <<judged, startPC, delPC, sweepPC, pass, Docker, Tracking, startFaults>>

\* An idle token ages; a running runtime uses its own every heartbeat.  A sweep
\* has 30 s (orphanSweepDeadline) and the grace is five minutes, so no token
\* ages between the pass's SELECT and its UPDATE.
TokenAges ==
    /\ token # NoStart /\ ~aged
    /\ ~(boxUp /\ box = token)
    /\ sweepPC # "revoke"
    /\ aged' = TRUE
    /\ UNCHANGED <<judged, revived, row, token, register, startPC, delPC, sweepPC, pass, Docker, Tracking, startFaults>>

StartDeleteNext ==
    \/ \E s \in Starts : StartStep(s) \/ LateCreate(s)
    \/ DeleteStep \/ SweepStep \/ SendRegister \/ Register \/ TokenAges

StartDeleteSpec == StartDeleteInit /\ [][StartDeleteNext]_startVars

\* Goroutines run on, the sweeper's ticker fires for ever, dockerd gets round
\* to the calls it accepted.
StartDeleteFairness ==
    /\ \A s \in Starts : WF_startVars(StartStep(s)) /\ WF_startVars(LateCreate(s))
    /\ WF_startVars(DeleteStep)
    /\ WF_startVars(SweepStep)

StartDeleteFairSpec == StartDeleteSpec /\ StartDeleteFairness

-----------------------------------------------------------------------------
(* Properties.                                                             *)

\* Every start has ended and none is left inside Docker.
StartsAtRest == late = {} /\ \A s \in Starts : startPC[s] = "done"

\* Once the delete and every start have ended, nothing of a deleted workspace
\* is left in Docker: whichever of cancel, wait, removed-check and discard met
\* the start (start_delete_guard.go, provisioner.go:1032,1093).
NoOrphanLeft ==
    delPC = "done" /\ StartsAtRest /\ row \in Dead /\ startFaults = 0 /\ ~revived
        => box = NoStart /\ volume = "none"

\* Only a dead workspace is discarded by a start or reaped by the sweeper
\* (CancelInflightStart: "Call it only AFTER the workspace row is marked
\* removed"; orphan_sweeper.go), the sweep's late acting on its list included.
TeardownOnlyWhenDead ==
    startFaults = 0 /\ ~revived
        => \/ row \in Dead
           \/ sweepPC \notin {"stop", "volume"}
              /\ \A s \in Starts : startPC[s] \notin {"discardBox", "discardVolume"}

\* The stale-token pass revokes only the token it judged: one minted by a start
\* that ran between its SELECT and its UPDATE survives (orphan_sweeper.go:479).
OnlyJudgedRevoked ==
    [][sweepPC = "revoke" /\ sweepPC' = "list" /\ token # NoStart /\ token' = NoStart
          => token = judged]_startVars

\* In the end no deleted workspace has a container: what a failed stop, a lost
\* lookup or a late create leaves behind, the sweeper reaps.
OrphansAreReaped == <>[](row \in Dead => box = NoStart)

\* A removed workspace stays removed (Restart: "to prevent resurrecting a
\* removed workspace to 'provisioning'", workspace_restart.go:346).
RemovedIsFinal == [][(row \in Dead) => (row' \in Dead)]_startVars

\* What the orphan sweeper tears down or revokes (SweepReads, SweepRevokes) it
\* judged by a row that is really dead and a token that is really old.
TeardownIsJust ==
    /\ []StartDeleteTypeOK
    /\ []TeardownOnlyWhenDead
    /\ OnlyJudgedRevoked

=============================================================================
