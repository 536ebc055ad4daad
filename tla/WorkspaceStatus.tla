-------------------------- MODULE WorkspaceStatus --------------------------
(***************************************************************************)
(* The status column of one ordinary workspace and everybody who writes it *)
(* from a stale reading: heartbeats (UPDATE, then evaluateStatus), the     *)
(* Redis liveness monitor, the two health sweeps, the A2A proxy's dead     *)
(* probe and the provision timeout, against register and the owner's       *)
(* Pause, Hibernate, Resume, Wake, restart and Delete.                     *)
(* The platform agent's extra rules are in ConciergeGate, restart          *)
(* coalescing in WorkspaceRestart, teardown in StartDelete; a lifecycle    *)
(* operation is here its stop and its status write.                        *)
(***************************************************************************)
EXTENDS Naturals

CONSTANTS
    Beats,          \* heartbeat requests that may be in flight together
    Runtimes,       \* deployments looked at: "container", "native", "external"
    MaxUpsets       \* bound: automatic restarts, requests that die half way, lost expiry events

ASSUME RuntimesAssumption == Runtimes \subseteq {"container", "native", "external"}
ASSUME StatusBoundsAssumption == MaxUpsets \in Nat

VARIABLES
    runtime,        \* "external": operator-run; "native": declares native_status_mgmt
    status,         \* workspaces.status
    regFailed,      \* last_register_failure_at within the last five minutes
    quiet,          \* the row was not touched for the staleness or timeout window
    marker,         \* the Redis key ws:<id>
    expired,        \* an expiry event on its way to the liveness monitor
    well,           \* nothing is wrong with the agent
    up,             \* the container (or the operator's process) runs
    booting,        \* a provision is under way
    beat,           \* the heartbeat handlers
    detector,       \* the health sweep ("probe", "mark") or the A2A proxy's probe ("proxy")
    parking,        \* the owner's operation: "no", "pause", "stop", "hibernated"
    restarting,     \* an automatic restart past its status check
    upsets

statusVars == <<runtime, status, regFailed, quiet, marker, expired, well, up, booting, beat,
                detector, parking, restarting, upsets>>

redis == <<marker, expired>>
process == <<well, up, booting>>

WsStatuses == {"provisioning", "online", "degraded", "offline", "failed", "awaiting_agent",
               "paused", "hibernating", "hibernated", "removed"}
Dormant == {"paused", "hibernated", "removed"}
external == runtime = "external"

\* A beat that has read the row: what it read and what it is about to write.
IdleBeat == [pc |-> "idle", read |-> "online", verdict |-> "online"]

StatusTypeOK ==
    /\ runtime \in Runtimes
    /\ status \in WsStatuses
    /\ {regFailed, quiet, marker, expired, well, up, booting, restarting} \subseteq BOOLEAN
    /\ beat \in [Beats -> [pc : {"idle", "read", "write"}, read : WsStatuses,
                           verdict : {"online", "degraded"}]]
    /\ detector \in {"idle", "probe", "mark", "proxy"}
    /\ parking \in {"no", "pause", "stop", "hibernated"}
    /\ upsets \in 0..MaxUpsets

\* A row that the create has just provisioned (or, external, awaits its agent).
StatusInit ==
    /\ runtime \in Runtimes
    /\ status = IF external THEN "awaiting_agent" ELSE "provisioning"
    /\ regFailed = FALSE /\ quiet = FALSE
    /\ marker = FALSE /\ expired = FALSE
    /\ well = TRUE /\ up = external /\ booting = ~external
    /\ beat = [b \in Beats |-> IdleBeat]
    /\ detector = "idle" /\ parking = "no" /\ restarting = FALSE
    /\ upsets = 0

\* UPDATE ... SET status = s, updated_at = now() WHERE guard.
WriteStatus(s, guard) ==
    /\ status' = IF guard THEN s ELSE status
    /\ quiet' = (quiet /\ ~guard)

-----------------------------------------------------------------------------
(* Heartbeat, evaluateStatus and Register.                                 *)

BeatKeeps == <<runtime, process, detector, parking, restarting, upsets>>

\* The main UPDATE: a provisioning workspace that beats is online.
HeartbeatUpdate(b) ==
    /\ up
    /\ beat[b].pc = "idle"
    /\ beat' = [beat EXCEPT ![b].pc = "read"]
    /\ status' = IF status = "provisioning" THEN "online" ELSE status
    /\ quiet' = (quiet /\ status = "removed")
    /\ UNCHANGED <<regFailed, redis, BeatKeeps>>

\* EXPIRE on the key: an absent one does not come back.
RefreshTTL == UNCHANGED redis

DegradesOn(health, failed) ==
    health = "wedged" \/ failed \/ (runtime # "native" /\ health = "errors")

\* Degrade an online workspace, recover any other that beats and is not parked.
Verdicts(s, health, failed) ==
    IF s = "online" /\ DegradesOn(health, failed) THEN {"degraded"}
    ELSE IF s = "degraded" /\ runtime # "native" /\ health = "ok" /\ ~failed THEN {"online"}
    ELSE IF s \in {"offline", "provisioning", "awaiting_agent", "failed"} THEN {"online"} ELSE {}

\* A card in the beat clears the register failure; then RefreshTTL and the
\* SELECT of evaluateStatus, which decides what will be written.
evaluateStatusReads(b) ==
    /\ beat[b].pc = "read"
    /\ RefreshTTL
    /\ \E cleared \in BOOLEAN, health \in {"ok", "middling", "errors", "wedged"} :
          /\ well => health = "ok"
          /\ regFailed' = (regFailed /\ ~cleared)
          /\ LET verdicts == Verdicts(status, health, regFailed')
             IN  beat' = [beat EXCEPT ![b] =
                            IF verdicts = {} THEN IdleBeat
                            ELSE [pc |-> "write", read |-> status,
                                  verdict |-> CHOOSE v \in verdicts : TRUE]]
    /\ UNCHANGED <<status, quiet, BeatKeeps>>

EvaluateWriteUnguarded(b) ==
    /\ beat[b].pc = "write"
    /\ beat' = [beat EXCEPT ![b] = IdleBeat]
    /\ WriteStatus(beat[b].verdict, status # "removed")
    /\ UNCHANGED <<regFailed, redis, BeatKeeps>>

\* Every write repeats the status that was read.
EvaluateWrite(b) ==
    /\ beat[b].pc = "write"
    /\ beat' = [beat EXCEPT ![b] = IdleBeat]
    /\ WriteStatus(beat[b].verdict, status = beat[b].read)
    /\ UNCHANGED <<regFailed, redis, BeatKeeps>>

\* A statement fails and the handler answers 500, or the process restarts.
BeatDropped(b) ==
    /\ beat[b].pc # "idle" /\ upsets < MaxUpsets
    /\ upsets' = upsets + 1
    /\ beat' = [beat EXCEPT ![b] = IdleBeat]
    /\ UNCHANGED <<runtime, status, regFailed, quiet, redis, process, detector, parking,
                   restarting>>

BeatStep(b) == HeartbeatUpdate(b) \/ evaluateStatusReads(b) \/ EvaluateWrite(b)

RegisterKeeps == <<runtime, process, beat, detector, parking, restarting, upsets>>

\* The upsert, which leaves dormant rows alone, SetOnline, which does not, and
\* the cleared failure.
RegisterRow ==
    /\ up
    /\ WriteStatus("online", status \notin Dormant)
    /\ marker' = TRUE
    /\ regFailed' = FALSE
    /\ UNCHANGED <<expired, RegisterKeeps>>

\* An authenticated register that fails is remembered for five minutes.
RegisterFails ==
    /\ up
    /\ regFailed' = TRUE
    /\ UNCHANGED <<status, quiet, redis, RegisterKeeps>>

-----------------------------------------------------------------------------
(* Detection: Redis expiry, health sweeps, the proxy's probe, the timeout. *)

DetectKeeps == <<runtime, regFailed, process, beat, parking>>

\* The key's TTL runs out; the event is lost if nobody is subscribed.
MarkerExpires ==
    /\ marker
    /\ marker' = FALSE
    /\ \/ expired' = TRUE /\ UNCHANGED upsets
       \/ upsets < MaxUpsets /\ upsets' = upsets + 1 /\ UNCHANGED expired
    /\ UNCHANGED <<DetectKeeps, status, quiet, detector, restarting>>

\* onWorkspaceOffline: an automatic restart, which does not begin over a
\* dormant row; an external runtime has nothing to restart.
AutoRestart(s) ==
    IF ~external /\ s \notin Dormant /\ ~restarting /\ upsets < MaxUpsets
      THEN restarting' = TRUE /\ upsets' = upsets + 1
      ELSE UNCHANGED <<restarting, upsets>>

StartLivenessMonitor ==
    /\ expired
    /\ expired' = FALSE
    /\ WriteStatus(IF external THEN "awaiting_agent" ELSE "offline", status \notin Dormant)
    /\ AutoRestart(status')
    /\ UNCHANGED <<DetectKeeps, marker, detector>>

\* Containers are probed, external agents must have stopped beating.
SweepSelects ==
    /\ detector = "idle"
    /\ status \in {"online", "degraded"}
    /\ external => quiet
    /\ detector' = "probe"
    /\ UNCHANGED <<DetectKeeps, status, quiet, redis, restarting, upsets>>

SweepProbes ==
    /\ detector = "probe"
    /\ detector' = IF external \/ ~up THEN "mark" ELSE "idle"
    /\ UNCHANGED <<DetectKeeps, status, quiet, redis, restarting, upsets>>

\* The status is checked again; the remote sweep does not know hibernation.
SweepMarks ==
    /\ detector = "mark"
    /\ detector' = "idle"
    /\ IF external
         THEN WriteStatus("awaiting_agent", status \notin {"removed", "provisioning", "paused"})
         ELSE WriteStatus("offline", status \notin Dormant \cup {"provisioning", "hibernating"})
    /\ marker' = FALSE
    /\ AutoRestart(status')
    /\ UNCHANGED <<DetectKeeps, expired>>

\* maybeMarkContainerDead and the preflight: a probe, and later the mark.
ProbeFindsDead ==
    /\ ~external /\ ~up
    /\ detector = "idle"
    /\ status \in {"online", "degraded"}
    /\ detector' = "proxy"
    /\ UNCHANGED <<DetectKeeps, status, quiet, redis, restarting, upsets>>

declareContainerDead ==
    /\ detector = "proxy"
    /\ detector' = "idle"
    /\ WriteStatus("offline", status \notin Dormant \cup {"provisioning"})
    /\ marker' = FALSE
    /\ AutoRestart(status')
    /\ UNCHANGED <<DetectKeeps, expired>>

\* The UPDATE repeats both conditions of the SELECT.
sweepStuckProvisioning ==
    /\ status = "provisioning" /\ quiet
    /\ WriteStatus("failed", TRUE)
    /\ UNCHANGED <<DetectKeeps, redis, detector, restarting, upsets>>

DetectStep ==
    SweepSelects \/ SweepProbes \/ SweepMarks \/ ProbeFindsDead \/ declareContainerDead

-----------------------------------------------------------------------------
(* The owner and the restart cycle.                                        *)

OwnerKeeps == <<runtime, regFailed, well, beat, detector, upsets>>

\* Pause: stop, then the guarded claim.  A provision under way goes on.
PauseStops ==
    /\ parking = "no" /\ status \notin {"removed", "paused"}
    /\ parking' = "pause"
    /\ up' = (external /\ up)
    /\ UNCHANGED <<OwnerKeeps, status, quiet, redis, booting, restarting>>

PauseMarks ==
    /\ parking = "pause"
    /\ parking' = "no"
    /\ WriteStatus("paused", status \notin {"removed", "paused"})
    /\ marker' = (marker /\ status \in {"removed", "paused"})
    /\ UNCHANGED <<OwnerKeeps, expired, up, booting, restarting>>

\* hibernateWorkspace: claim, stop, mark whatever the row says by now.
HibernateClaims ==
    /\ parking = "no" /\ status \in {"online", "degraded"}
    /\ parking' = "stop"
    /\ WriteStatus("hibernating", TRUE)
    /\ UNCHANGED <<OwnerKeeps, redis, up, booting, restarting>>

HibernateStops ==
    /\ parking = "stop"
    /\ parking' = "hibernated"
    /\ up' = (external /\ up)
    /\ UNCHANGED <<OwnerKeeps, status, quiet, redis, booting, restarting>>

HibernateMarks ==
    /\ parking = "hibernated"
    /\ parking' = "no"
    /\ WriteStatus("hibernated", TRUE)
    /\ marker' = FALSE
    /\ UNCHANGED <<OwnerKeeps, expired, up, booting, restarting>>

\* Resume and WakeWorkspace: the claim of a container workspace, then a
\* provision.  An external one has nothing to provision.
ClaimDormant(s) ==
    /\ status = s /\ ~external
    /\ WriteStatus("provisioning", TRUE)
    /\ booting' = TRUE
    /\ UNCHANGED <<OwnerKeeps, redis, up, parking, restarting>>

\* runRestartCycle: the container stops, the row is marked without a guard.
RestartMarksRow ==
    /\ restarting
    /\ restarting' = FALSE
    /\ up' = FALSE /\ booting' = TRUE
    /\ WriteStatus("provisioning", TRUE)
    /\ marker' = FALSE
    /\ UNCHANGED <<OwnerKeeps, expired, parking>>

RemoveMarksRow ==
    /\ status # "removed" /\ parking = "no"
    /\ WriteStatus("removed", TRUE)
    /\ up' = FALSE
    /\ marker' = FALSE
    /\ UNCHANGED <<OwnerKeeps, expired, booting, parking, restarting>>

-----------------------------------------------------------------------------
(* Provision, agent and clock.                                             *)

ProcessKeeps == <<runtime, redis, beat, detector, parking, restarting, upsets>>

BootCompletes ==
    /\ booting
    /\ booting' = FALSE
    /\ up' = TRUE
    /\ UNCHANGED <<status, regFailed, quiet, well, ProcessKeeps>>

\* A provision that fails: markProvisionFailed.
BootFails ==
    /\ booting
    /\ booting' = FALSE
    /\ WriteStatus("failed", status # "removed")
    /\ UNCHANGED <<up, regFailed, well, ProcessKeeps>>

AgentTurns ==
    /\ well' = ~well
    /\ UNCHANGED <<status, regFailed, quiet, up, booting, ProcessKeeps>>

AgentDies ==
    /\ up
    /\ up' = FALSE
    /\ UNCHANGED <<status, regFailed, quiet, well, booting, ProcessKeeps>>

\* The operator of an external agent starts it again.
AgentReturns ==
    /\ external /\ ~up /\ status # "removed"
    /\ up' = TRUE
    /\ UNCHANGED <<status, regFailed, quiet, well, booting, ProcessKeeps>>

\* The staleness and timeout windows, the register failure's five minutes.
RowGoesQuiet ==
    /\ quiet' = TRUE
    /\ UNCHANGED <<status, regFailed, process, ProcessKeeps>>

FailureAges ==
    /\ regFailed
    /\ regFailed' = FALSE
    /\ UNCHANGED <<status, quiet, process, ProcessKeeps>>

StatusNext ==
    \/ \E b \in Beats : BeatStep(b) \/ BeatDropped(b)
    \/ RegisterRow \/ RegisterFails
    \/ MarkerExpires \/ StartLivenessMonitor \/ DetectStep \/ sweepStuckProvisioning
    \/ PauseStops \/ PauseMarks \/ HibernateClaims \/ HibernateStops \/ HibernateMarks
    \/ ClaimDormant("paused") \/ ClaimDormant("hibernated") \/ RestartMarksRow \/ RemoveMarksRow
    \/ BootCompletes \/ BootFails \/ AgentTurns \/ AgentDies \/ AgentReturns
    \/ RowGoesQuiet \/ FailureAges

StatusSpec == StatusInit /\ [][StatusNext]_statusVars

\* A live agent's heartbeat loop runs on, the sweep's ticker fires for ever,
\* and an operation that began ends.
StatusFairness ==
    /\ \A b \in Beats : WF_statusVars(BeatStep(b))
    /\ WF_statusVars(StartLivenessMonitor)
    /\ WF_statusVars(DetectStep)
    /\ WF_statusVars(PauseMarks \/ HibernateStops \/ HibernateMarks)
    /\ WF_statusVars(RestartMarksRow)
    /\ WF_statusVars(BootCompletes \/ BootFails)
    /\ WF_statusVars(~up /\ RowGoesQuiet)

StatusFairSpec == StatusSpec /\ StatusFairness

-----------------------------------------------------------------------------
(* Properties.                                                             *)

\* A parked or deleted workspace is not brought back by anything that read its
\* row, its container or its key before it was parked: no beat, register,
\* expiry, sweep or probe (the remote sweep alone forgets hibernation, and a
\* provision that fails may still say "failed").
ParkedStaysParked ==
    [][(status \in Dormant /\ ~(external /\ status = "hibernated"))
          => status' \notin {"online", "degraded", "offline", "awaiting_agent"}]_statusVars

\* A live, healthy agent is shown online again and again until it is parked:
\* every status that a sweep, a timeout or a restart leaves behind has its
\* recovery (registry.go:3154 on).
AliveIsOnline ==
    <>[](up /\ well /\ runtime # "native" /\ ~regFailed)
        => []<>(status \in {"online", "hibernating"} \cup Dormant)

\* A workspace whose process is gone for good does not stay online or degraded,
\* even if its Redis expiry was lost or its key had never come back.
DeadIsNoticed ==
    <>[](~up) => <>[](status \notin {"online", "degraded"})

\* What the docs say of the key: each successful heartbeat refreshes it
\* (docs/api-protocol/registry-and-heartbeat.md:124).
BeatRefreshesMarker ==
    [][\A b \in Beats : beat[b].pc = "read" /\ beat'[b].pc = "write" => marker']_statusVars

\* The status row follows its agent (evaluateStatus, the sweeps, the liveness
\* monitor) and keeps what the owner parked.
StatusFollowsAgent ==
    /\ []StatusTypeOK
    /\ ParkedStaysParked
    /\ AliveIsOnline
    /\ DeadIsNoticed

=============================================================================
