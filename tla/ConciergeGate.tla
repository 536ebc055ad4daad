--------------------------- MODULE ConciergeGate ---------------------------
(***************************************************************************)
(* The status of the platform agent (kind=platform), whose row is held in  *)
(* 'provisioning' until a heartbeat reports its management tools, and the  *)
(* clock workspaces.mcp_unloaded_since that bounds the hold                *)
(* (internal/handlers/registry.go, the platform branch of evaluateStatus). *)
(* Every heartbeat reads the row once and then writes the clock and the    *)
(* status in separate statements, while other heartbeats and the owner's   *)
(* Pause, Hibernate, Resume, Wake and restart write them too.              *)
(***************************************************************************)
EXTENDS Naturals

CONSTANTS
    GateBeats,      \* heartbeat requests that may be in flight together
    MaxGateFaults   \* bound: heartbeats that die half way

ASSUME GateFaultsAssumption == MaxGateFaults \in Nat

VARIABLES
    gate,           \* workspaces.status
    clock,          \* mcp_unloaded_since: "null", "fresh", past 180 s, past 300 s
    clockOld,       \* history: the clock started before this provisioning episode
    woken,          \* history: this episode began with WakeWorkspace
    gateUp,         \* the container runs and beats
    mood,           \* what the agent reports from now on: "ready", "mute" or "mixed"
    gbeat,          \* the heartbeat handlers
    gateFaults

gateVars == <<gate, clock, clockOld, woken, gateUp, mood, gbeat, gateFaults>>
clocks == <<clock, clockOld, woken>>

GateStatuses == {"provisioning", "online", "degraded", "failed", "offline",
                 "paused", "hibernating", "hibernated", "removed"}
Parked == {"paused", "hibernating", "hibernated", "removed"}
Clocks == {"null", "fresh", "grace", "late"}

\* A report: the server or the MODEL secret is missing; a runtime that cannot
\* speak of it; tools ready; listed but probed not ready; not listed and not
\* declared; not loaded; the lookup of the declaration failed.
Reports == {"missing", "legacy", "ready", "contrary", "undeclared", "unready", "error"}
\* A recent register failure counts as "wedged".
Healths == {"ok", "errors", "wedged"}

\* What a handler is about to do: to the clock first, then to the status.
IdleGateBeat == [pc |-> "idle", tick |-> "keep", from |-> "online", to |-> "online",
                 proven |-> FALSE]
\* markWorkspaceFailed repeats no status: it writes over any.
Anything == "any"

GateTypeOK ==
    /\ gate \in GateStatuses
    /\ clock \in Clocks
    /\ {clockOld, woken, gateUp} \subseteq BOOLEAN
    /\ clock = "null" => ~clockOld
    /\ mood \in {"ready", "mute", "mixed"}
    /\ gbeat \in [GateBeats -> [pc : {"idle", "sent", "clock", "status"},
                                tick : {"keep", "start", "clear"},
                                from : GateStatuses \cup {Anything},
                                to : GateStatuses, proven : BOOLEAN]]
    /\ gateFaults \in 0..MaxGateFaults

\* The platform agent's row after its first provision was dispatched.
GateInit ==
    /\ gate = "provisioning"
    /\ clock = "null" /\ clockOld = FALSE /\ woken = FALSE
    /\ gateUp = FALSE
    /\ mood = "mixed"
    /\ gbeat = [b \in GateBeats |-> IdleGateBeat]
    /\ gateFaults = 0

-----------------------------------------------------------------------------
(* evaluateStatus for kind=platform.                                       *)

Unhealthy(health) == health # "ok"

\* Tool reports that promote a row which is not online.
mcpSurfaceSelfReported(report) == report \in {"ready", "contrary"}

recoverable == gate \in {"provisioning", "failed", "offline", "degraded"}

Promotable(report, health) ==
    ~Unhealthy(health) /\ (report = "legacy" \/ mcpSurfaceSelfReported(report))

\* Tool reports that count as unloaded once online.
managementMCPUnloaded(report) == report \in {"contrary", "unready"}

NothingTo == [tick |-> "keep", from |-> gate, to |-> gate, proven |-> FALSE]

\* The first unready beat starts the clock; the beat that finds it past its
\* grace degrades the row.
WarmingOrGone(grace) ==
    [NothingTo EXCEPT !.tick = IF clock = "null" THEN "start" ELSE "keep",
                      !.to = IF clock \in grace THEN "degraded" ELSE gate]

WhileNotOnline(report, health) ==
    IF ~recoverable THEN NothingTo
    ELSE IF Promotable(report, health)
      THEN [tick |-> IF report = "legacy" THEN "keep" ELSE "clear",
            from |-> gate, to |-> "online", proven |-> TRUE]
    ELSE IF gate = "provisioning" THEN WarmingOrGone({"late"})
    ELSE NothingTo

\* Errors do not degrade a runtime that manages its own status; either way.
Degrading(health) == IF health = "errors" THEN BOOLEAN ELSE {health = "wedged"}

WhileOnline(report, sick) ==
    LET tools ==
          IF managementMCPUnloaded(report) THEN WarmingOrGone({"grace", "late"})
          ELSE IF report = "error" THEN [NothingTo EXCEPT !.to = "degraded"]
          ELSE IF report # "legacy" /\ clock # "null" THEN [NothingTo EXCEPT !.tick = "clear"]
          ELSE NothingTo
    IN  IF sick THEN [tools EXCEPT !.to = "degraded"] ELSE tools

Decisions(report, health) ==
    IF report = "missing"
      THEN {[NothingTo EXCEPT !.from = Anything, !.to = "failed"]}
    ELSE IF gate # "online" THEN {WhileNotOnline(report, health)}
    ELSE {WhileOnline(report, sick) : sick \in Degrading(health)}

\* A promotion on a tool report clears the clock in the same statement.
FirstPC(d) ==
    IF d.tick # "keep" /\ ~d.proven THEN "clock"
    ELSE IF d.to # d.from THEN "status" ELSE "idle"

GateKeeps == <<gateUp, mood>>

SendBeat(b) ==
    /\ gateUp
    /\ gbeat[b].pc = "idle"
    /\ gbeat' = [gbeat EXCEPT ![b].pc = "sent"]
    /\ UNCHANGED <<gate, clocks, GateKeeps, gateFaults>>

\* The UPDATE of the heartbeat leaves a platform row's status alone; the
\* SELECT of evaluateStatus decides.
GateReadsAndPromotes(b) ==
    /\ gbeat[b].pc = "sent"
    /\ gate' = IF gate = "provisioning" THEN "online" ELSE gate
    /\ gbeat' = [gbeat EXCEPT ![b] = IdleGateBeat]
    /\ UNCHANGED <<clocks, GateKeeps, gateFaults>>

GateReads(b) ==
    /\ gbeat[b].pc = "sent"
    /\ \E report \in Reports, health \in Healths :
          /\ mood = "ready" => report = "ready" /\ health = "ok"
          /\ mood = "mute" => report = "unready"
          /\ \E d \in Decisions(report, health) :
                gbeat' = [gbeat EXCEPT ![b] =
                            IF FirstPC(d) = "idle" THEN IdleGateBeat
                            ELSE [pc |-> FirstPC(d), tick |-> d.tick, from |-> d.from,
                                  to |-> d.to, proven |-> d.proven]]
    /\ UNCHANGED <<gate, clocks, GateKeeps, gateFaults>>

\* COALESCE(mcp_unloaded_since, now()), or NULL: no status in the WHERE.
GateWritesClock(b) ==
    /\ gbeat[b].pc = "clock"
    /\ IF gbeat[b].tick = "clear" THEN clock' = "null" /\ clockOld' = FALSE
       ELSE clock' = (IF clock = "null" THEN "fresh" ELSE clock) /\ UNCHANGED clockOld
    /\ gbeat' = [gbeat EXCEPT ![b] = IF @.to = @.from THEN IdleGateBeat
                                     ELSE [@ EXCEPT !.pc = "status"]]
    /\ UNCHANGED <<gate, woken, GateKeeps, gateFaults>>

\* UPDATE ... WHERE status = what was read; only markWorkspaceFailed has no guard.
GateWritesStatus(b) ==
    LET d == gbeat[b]
        hits == d.from \in {gate, Anything}
        cleared == hits /\ d.proven /\ d.tick = "clear"
    IN  /\ d.pc = "status"
        /\ gate' = IF hits THEN d.to ELSE gate
        /\ clock' = IF cleared THEN "null" ELSE clock
        /\ clockOld' = (clockOld /\ ~cleared)
        /\ gbeat' = [gbeat EXCEPT ![b] = IdleGateBeat]
        /\ UNCHANGED <<woken, GateKeeps, gateFaults>>

GateBeatStep(b) ==
    SendBeat(b) \/ GateReads(b) \/ GateWritesClock(b) \/ GateWritesStatus(b)

\* A statement fails, or the process restarts.
GateBeatDies(b) ==
    /\ gbeat[b].pc # "idle" /\ gateFaults < MaxGateFaults
    /\ gateFaults' = gateFaults + 1
    /\ gbeat' = [gbeat EXCEPT ![b] = IdleGateBeat]
    /\ UNCHANGED <<gate, clocks, GateKeeps>>

ClockRuns ==
    /\ clock \in {"fresh", "grace"}
    /\ clock' = IF clock = "fresh" THEN "grace" ELSE "late"
    /\ UNCHANGED <<gate, clockOld, woken, GateKeeps, gbeat, gateFaults>>

-----------------------------------------------------------------------------
(* The owner, the restart cycle and the agent.                             *)

OwnerOfGateKeeps == <<mood, gbeat, gateFaults>>

\* Pause: stop, then the guarded mark.
GatePauses ==
    /\ gate \notin {"removed", "paused"}
    /\ gate' = "paused" /\ gateUp' = FALSE
    /\ UNCHANGED <<clocks, OwnerOfGateKeeps>>

\* hibernateWorkspace: the claim; then stop and mark.
GateHibernates ==
    \/ /\ gate \in {"online", "degraded"}
       /\ gate' = "hibernating"
       /\ UNCHANGED <<gateUp, clocks, OwnerOfGateKeeps>>
    \/ /\ gate = "hibernating"
       /\ gate' = "hibernated" /\ gateUp' = FALSE
       /\ UNCHANGED <<clocks, OwnerOfGateKeeps>>

\* An episode of provisioning begins, with the clock cleared or kept.
EpisodeBegins(cleared) ==
    /\ gate' = "provisioning"
    /\ clock' = IF cleared THEN "null" ELSE clock
    /\ clockOld' = (clock' # "null")
    /\ UNCHANGED OwnerOfGateKeeps

GateResumes ==
    /\ gate = "paused"
    /\ EpisodeBegins(TRUE)
    /\ woken' = FALSE
    /\ UNCHANGED gateUp

\* The claim of WakeWorkspace does not name mcp_unloaded_since.
GateWakes ==
    /\ gate = "hibernated"
    /\ EpisodeBegins(FALSE)
    /\ woken' = TRUE
    /\ UNCHANGED gateUp

\* The owner's restart, which only a removed row refuses, the provider switch
\* and the automatic cycle, which also leaves parked rows and a live warming
\* concierge alone.
GateRestarts ==
    /\ gate # "removed"
    /\ EpisodeBegins(TRUE)
    /\ gateUp' = FALSE /\ woken' = FALSE

GateBoots ==
    /\ gate = "provisioning" /\ ~gateUp
    /\ gateUp' = TRUE
    /\ UNCHANGED <<gate, clocks, OwnerOfGateKeeps>>

\* The sweeps and the liveness monitor notice a dead container.
GateDies ==
    /\ gateUp
    /\ gateUp' = FALSE
    /\ gate' = IF gate \in {"online", "degraded"} THEN "offline" ELSE gate
    /\ UNCHANGED <<clocks, OwnerOfGateKeeps>>

\* sweepStuckProvisioning and a failed provision.
GateTimesOut ==
    /\ gate = "provisioning" /\ ~gateUp
    /\ gate' = "failed"
    /\ UNCHANGED <<gateUp, clocks, OwnerOfGateKeeps>>

GateRemoved ==
    /\ gate # "removed"
    /\ gate' = "removed" /\ gateUp' = FALSE
    /\ UNCHANGED <<clocks, OwnerOfGateKeeps>>

\* The agent's tools come up for good, fail for good, or come and go.
MoodChanges ==
    /\ mood' \in {"ready", "mute", "mixed"} \ {mood}
    /\ UNCHANGED <<gate, clocks, gateUp, gbeat, gateFaults>>

GateNext ==
    \/ \E b \in GateBeats : GateBeatStep(b) \/ GateBeatDies(b)
    \/ ClockRuns
    \/ GatePauses \/ GateHibernates \/ GateResumes \/ GateWakes \/ GateRestarts
    \/ GateBoots \/ GateDies \/ GateTimesOut \/ GateRemoved \/ MoodChanges

GateSpec == GateInit /\ [][GateNext]_gateVars

\* The heartbeat loop of a live container, the clock, and the stop of a
\* hibernation that was claimed.
GateFairness ==
    /\ \A b \in GateBeats : WF_gateVars(GateBeatStep(b))
    /\ WF_gateVars(ClockRuns)
    /\ WF_gateVars(gate = "hibernating" /\ GateHibernates)

GateFairSpec == GateSpec /\ GateFairness

-----------------------------------------------------------------------------
(* Properties.                                                             *)

\* The platform agent goes online only by the hand of a heartbeat that
\* reported its tools (or cannot report them) and no trouble: no restart,
\* resume, register or plain heartbeat does it (registry.go:1441-1447, 2714).
OnlineIsVerified ==
    [][(gate # "online" /\ gate' = "online")
          => \E b \in GateBeats : gbeat[b].pc = "status" /\ gbeat[b].proven]_gateVars

\* A provisioning episode is judged by a clock of its own: only the wake of a
\* hibernated agent carries an older one in (workspace_restart.go:529, 2252).
OldClockOnlyByWake ==
    gate = "provisioning" /\ clockOld => woken

\* A concierge that beats, reports its tools and is well is shown online, from
\* every status that is not the owner's.
ReadyOpensGate ==
    <>[](gateUp /\ mood = "ready") => []<>(gate \in {"online"} \cup Parked)

\* One that beats but never gets its tools is not held in 'provisioning', nor
\* shown online, for ever (the warm-fail net, registry.go:2812-2862).
MuteIsSurfaced ==
    <>[](gateUp /\ mood = "mute") => []<>(gate \notin {"provisioning", "online"})

\* What the comments say of every new episode: its clock starts fresh, so that
\* a slow but healthy warm-up is never failed (workspace_restart.go:2252-2254,
\* registry.go:441-443).
WarmClockIsFresh == gate = "provisioning" => ~clockOld

\* What the comment says of heartbeats (registry.go:2692-2695): they never take
\* the owner's statuses away.
HeartbeatKeepsParked ==
    [][\A b \in GateBeats :
         (gbeat[b].pc = "status" /\ gbeat'[b].pc = "idle" /\ gate \in Parked)
            => gate' = gate]_gateVars

\* The readiness gate of the concierge (conciergeMCPGate, evaluateStatus) opens
\* for verified tools only, and never stays shut in silence.
GateHolds ==
    /\ []GateTypeOK
    /\ []OldClockOnlyByWake
    /\ OnlineIsVerified
    /\ ReadyOpensGate
    /\ MuteIsSurfaced

=============================================================================
