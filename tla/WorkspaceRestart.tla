-------------------------- MODULE WorkspaceRestart --------------------------
(***************************************************************************)
(* Restarting one workspace.  Goroutines ask for restarts at any time:     *)
(* after a plugin or other mutation, after a secret write, from the        *)
(* recovery sweeps, by the owner; others park it (pause, hibernate) and    *)
(* bring it back (resume, wake).  Requests of the first three kinds are    *)
(* coalesced by the pending flag of restartState; the per-workspace gate   *)
(* keeps stop+start pairs apart.                                           *)
(*                                                                         *)
(* Every goroutine makes one request, and one critical section or one      *)
(* statement is one action.  A write is identified with the goroutine that *)
(* makes it and then asks for the restart that is to deliver it.           *)
(***************************************************************************)
EXTENDS Naturals, FiniteSets

CONSTANTS
    Mutations,    \* goroutines that call RestartByIDAfterMutation
    Writers,      \* goroutines that write a secret and call RestartByID
    Autos,        \* goroutines that call AutoRestartByID
    Manuals,      \* POST /workspaces/:id/restart
    Resumes,      \* POST /workspaces/:id/resume
    Wakes,        \* messages that find the workspace hibernated
    Pauses,       \* POST /workspaces/:id/pause
    Hibernates,   \* the idle monitor, POST /workspaces/:id/hibernate
    Nobody,
    Concierge,    \* kind = 'platform'
    Window,       \* RestartDebounceWindow, in ticks
    AutoLimit,    \* autoRestartLimit
    AutoWindow,   \* autoRestartWindow, in ticks
    MaxFaults     \* bound: panics, failed stops and starts, declined images

Coalescers == Mutations \cup Writers \cup Autos
Owners == Manuals \cup Resumes \cup Wakes
Parkers == Pauses \cup Hibernates
Callers == Coalescers \cup Owners \cup Parkers
Kinds == <<Mutations, Writers, Autos, Manuals, Resumes, Wakes, Pauses, Hibernates>>

ASSUME RestartAssumption ==
    /\ \A i, j \in DOMAIN Kinds : i # j => Kinds[i] \cap Kinds[j] = {}
    /\ IsFiniteSet(Autos)
    /\ Nobody \notin Callers
    /\ Concierge \in BOOLEAN
    /\ Window \in Nat /\ AutoLimit \in Nat \ {0} /\ AutoWindow \in Nat \ {0}
    /\ MaxFaults \in Nat

Never == 0      \* restartStartedAt.IsZero()

VARIABLES
    running, pending,   \* restartState
    stamp,      \* Never, or 1 + ticks since restartStartedAt (it stops past Window)
    age,        \* autoRestarts: ticks since a counted restart, AutoWindow when not counted
    halted,     \* autoRestartsHalted
    held,       \* queueHeldSince is set
    gate,       \* holder of the restart/provision gate
    status,     \* workspaces.status
    up,         \* a container of the workspace runs
    boot,       \* the writes the last started container was given
    starter,    \* who started it
    pc,         \* where each goroutine is
    seen,       \* the writes its loadWorkspaceSecrets returned
    drained,    \* cycles a runner has begun
    written,    \* committed writes
    midway,     \* those that committed while a restart was running
    riding,     \* writes whose request waits behind the pending flag
    serves,     \* writes a runner's cycle took over from the flag
    excused,    \* writes whose request was dropped, declined, refused or lost
    refused,    \* those of them refused by the crash-loop breaker
    faults

flags == <<running, pending, stamp>>
breaker == <<age, halted, held>>
box == <<up, boot, starter>>
writes == <<written, midway, riding, serves, excused, refused>>
vars == <<running, pending, stamp, age, halted, held, gate, status, up, boot, starter, pc, seen,
          drained, written, midway, riding, serves, excused, refused, faults>>

-----------------------------------------------------------------------------
InLoop == {"loop", "gate", "check", "stop", "record", "mark", "load", "start", "release", "clear"}
Labels == {"new", "door", "debounce", "enter", "reset", "preflight", "pausing", "hibernating", "done"}
          \cup InLoop

TypeOK ==
    /\ running \in BOOLEAN /\ pending \in BOOLEAN
    /\ stamp \in 0 .. Window + 1
    /\ age \in [Autos -> 0 .. AutoWindow]
    /\ halted \in BOOLEAN /\ held \in BOOLEAN
    /\ gate \in Callers \cup {Nobody}
    /\ status \in {"online", "provisioning", "failed", "paused", "hibernating", "hibernated"}
    /\ up \in BOOLEAN
    /\ boot \subseteq Callers
    /\ starter \in Callers \cup {Nobody}
    /\ pc \in [Callers -> Labels]
    /\ seen \in [Callers -> SUBSET Callers]
    /\ drained \in [Coalescers -> Nat]
    /\ written \subseteq Callers /\ midway \subseteq written /\ riding \subseteq written
    /\ serves \in [Coalescers -> SUBSET written]
    /\ excused \subseteq written /\ refused \subseteq written
    /\ faults \in Nat

\* A workspace that has been running for a while.
Init ==
    /\ running = FALSE /\ pending = FALSE /\ stamp = Never
    /\ age = [a \in Autos |-> AutoWindow] /\ halted = FALSE /\ held = FALSE
    /\ gate = Nobody
    /\ status = "online" /\ up = TRUE /\ boot = {} /\ starter = Nobody
    /\ pc = [c \in Callers |-> "new"]
    /\ seen = [c \in Callers |-> {}]
    /\ drained = [c \in Coalescers |-> 0]
    /\ written = {} /\ midway = {} /\ riding = {} /\ serves = [c \in Coalescers |-> {}]
    /\ excused = {} /\ refused = {}
    /\ faults = 0

Goto(c, l) == pc' = [pc EXCEPT ![c] = l]
Fault == faults < MaxFaults /\ faults' = faults + 1

\* A status write and a stop only log their errors, and the caller goes on.
WriteStatus(s) == (status' = s /\ UNCHANGED faults) \/ (Fault /\ UNCHANGED status)
StopOrLeak == (up' = FALSE /\ UNCHANGED faults) \/ (Fault /\ UNCHANGED up)

Dormant == {"paused", "hibernated"}

Debounced == stamp # Never /\ stamp <= Window

-----------------------------------------------------------------------------
(***************************************************************************)
(* RestartByID, RestartByIDAfterMutation and AutoRestartByID, up to        *)
(* coalesceRestart.                                                        *)
(***************************************************************************)
Write(c) ==
    /\ c \in Mutations \cup Writers /\ pc[c] = "new"
    /\ written' = written \cup {c}
    /\ midway' = IF running THEN midway \cup {c} ELSE midway
    /\ Goto(c, IF c \in Writers THEN "debounce" ELSE "enter")
    /\ UNCHANGED <<flags, breaker, gate, status, box, seen, drained, riding, serves, excused,
                   refused, faults>>

Probe(c) ==
    /\ c \in Autos /\ pc[c] = "new"
    /\ Goto(c, IF Debounced THEN "debounce" ELSE "door")
    /\ UNCHANGED <<flags, breaker, gate, status, box, seen, drained, writes, faults>>

\* autoRestartHalted: the counted restarts still in the window trip it.
Recent == {a \in Autos : age[a] < AutoWindow}
Tripped == halted \/ Cardinality(Recent) >= AutoLimit

\* haltAutoRestarts.
Halt == status' = IF status \in Dormant \cup {"provisioning", "failed"} THEN status ELSE "failed"

AutoDoor(c) ==
    /\ pc[c] = "door"
    /\ halted' = Tripped
    /\ IF Tripped THEN Halt /\ Goto(c, "done") ELSE UNCHANGED status /\ Goto(c, "debounce")
    /\ UNCHANGED <<flags, age, held, gate, box, seen, drained, writes, faults>>

shouldDebounceRestart(c) ==
    /\ pc[c] = "debounce"
    /\ IF Debounced
       THEN Goto(c, "done") /\ excused' = excused \cup ({c} \cap written)
       ELSE Goto(c, "enter") /\ UNCHANGED excused
    /\ UNCHANGED <<flags, breaker, gate, status, box, seen, drained, written, midway, riding,
                   serves, refused, faults>>

-----------------------------------------------------------------------------
(***************************************************************************)
(* coalesceRestart.                                                        *)
(***************************************************************************)
\* Mutants: one mutex and TryLock+drop; the running flag is not looked at.
EnterOrDrop(c) ==
    /\ pc[c] = "enter"
    /\ IF running
       THEN Goto(c, "done") /\ UNCHANGED <<flags, riding>>
       ELSE /\ running' = TRUE /\ pending' = TRUE /\ stamp' = 1
            /\ riding' = riding \cup ({c} \cap written)
            /\ Goto(c, "loop")
    /\ UNCHANGED <<breaker, gate, status, box, seen, drained, written, midway, serves, excused,
                   refused, faults>>

EnterAlways(c) ==
    /\ pc[c] = "enter"
    /\ running' = TRUE /\ pending' = TRUE /\ stamp' = 1
    /\ riding' = riding \cup ({c} \cap written)
    /\ Goto(c, "loop")
    /\ UNCHANGED <<breaker, gate, status, box, seen, drained, written, midway, serves, excused,
                   refused, faults>>

Enter(c) ==
    /\ pc[c] = "enter"
    /\ pending' = TRUE
    /\ riding' = riding \cup ({c} \cap written)
    /\ IF running THEN Goto(c, "done") /\ UNCHANGED <<running, stamp>>
                  ELSE Goto(c, "loop") /\ running' = TRUE /\ stamp' = 1
    /\ UNCHANGED <<breaker, gate, status, box, seen, drained, written, midway, serves, excused,
                   refused, faults>>

\* The top of the drain loop.  Cycles past the first re-stamp.
DrainPending(c) ==
    /\ c \in Coalescers /\ pc[c] = "loop" /\ pending
    /\ pending' = FALSE
    /\ stamp' = IF drained[c] > 0 THEN 1 ELSE stamp
    /\ drained' = [drained EXCEPT ![c] = @ + 1]
    /\ serves' = [serves EXCEPT ![c] = riding] /\ riding' = {}
    /\ Goto(c, "gate")
    /\ UNCHANGED <<running, breaker, gate, status, box, seen, written, midway, excused, refused,
                   faults>>

\* It sees no request, unlocks and returns ...
LeaveLoop(c) ==
    /\ c \in Coalescers /\ pc[c] = "loop" /\ ~pending
    /\ Goto(c, "clear")
    /\ UNCHANGED <<flags, breaker, gate, status, box, seen, drained, writes, faults>>

\* ... and the deferred function clears running in a section of its own.
ClearRunning(c) ==
    /\ pc[c] = "clear"
    /\ running' = FALSE
    /\ excused' = excused \cup riding
    /\ Goto(c, "done")
    /\ UNCHANGED <<pending, stamp, breaker, gate, status, box, seen, drained, written, midway,
                   riding, serves, refused, faults>>

-----------------------------------------------------------------------------
(***************************************************************************)
(* runRestartCycle, between taking the gate and releasing it.              *)
(***************************************************************************)
\* Only the first cycle of an automatic request is an automatic one.
Automatic(c) == c \in Autos /\ drained[c] = 1

\* Parked rows, and a concierge that is still warming up, are left alone.  A row
\* that is hibernating is not parked yet.
Filtered == status \in Dormant \/ (Concierge /\ status = "provisioning" /\ up)

\* Mutant: the filtered cycle returns without unlocking the gate for good.
TakeGateFilteredKeeps(c) ==
    /\ pc[c] = "gate" /\ c \in Coalescers /\ gate = Nobody
    /\ gate' = c
    /\ IF Filtered THEN Goto(c, "loop") /\ excused' = excused \cup serves[c]
                   ELSE Goto(c, "check") /\ UNCHANGED excused
    /\ UNCHANGED <<flags, breaker, status, box, seen, drained, written, midway, riding, serves,
                   refused, faults>>

TakeGate(c) ==
    /\ pc[c] = "gate" /\ c \in Coalescers /\ gate = Nobody
    /\ gate' = c
    /\ IF Filtered THEN Goto(c, "release") /\ excused' = excused \cup serves[c]
                   ELSE Goto(c, "check") /\ UNCHANGED excused
    /\ UNCHANGED <<flags, breaker, status, box, seen, drained, written, midway, riding, serves,
                   refused, faults>>

\* Mutant: the breaker is only asked at the door.
CheckDoorOnly(c) ==
    /\ pc[c] = "check"
    /\ Goto(c, "stop")
    /\ UNCHANGED <<flags, breaker, gate, status, box, seen, drained, writes, faults>>

CheckBreaker(c) ==
    /\ pc[c] = "check"
    /\ IF Automatic(c) /\ Tripped
       THEN /\ Halt /\ Goto(c, "release")
            /\ excused' = excused \cup serves[c] /\ refused' = refused \cup serves[c]
       ELSE Goto(c, "stop") /\ UNCHANGED <<status, excused, refused>>
    /\ halted' = IF Automatic(c) THEN Tripped ELSE halted
    /\ UNCHANGED <<flags, age, held, gate, box, seen, drained, written, midway, riding, serves,
                   faults>>

\* The row cannot be read, or stopForRestart declines because the pinned image
\* cannot be obtained.
Decline(c) ==
    /\ pc[c] \in {"check", "stop"} /\ c \in Coalescers /\ Fault
    /\ excused' = excused \cup serves[c]
    /\ Goto(c, "release")
    /\ UNCHANGED <<flags, breaker, gate, status, box, seen, drained, written, midway, riding,
                   serves, refused>>

stopForRestart(c) ==
    /\ pc[c] = "stop" /\ c \in Coalescers
    /\ StopOrLeak
    /\ Goto(c, "record")
    /\ UNCHANGED <<flags, breaker, gate, status, boot, starter, seen, drained, writes>>

\* recordAutoRestart and armRestartQueueHold.
RecordAuto(c) ==
    /\ pc[c] = "record"
    /\ IF Automatic(c) THEN age' = [age EXCEPT ![c] = 0] /\ held' = TRUE
                       ELSE UNCHANGED <<age, held>>
    /\ Goto(c, "mark")
    /\ UNCHANGED <<flags, halted, gate, status, box, seen, drained, writes, faults>>

MarkProvisioning(c) ==
    /\ pc[c] = "mark"
    /\ WriteStatus("provisioning")
    /\ Goto(c, "load")
    /\ UNCHANGED <<flags, breaker, gate, box, seen, drained, writes>>

-----------------------------------------------------------------------------
(***************************************************************************)
(* The provision under the gate, shared by every path.                     *)
(***************************************************************************)
loadWorkspaceSecrets(c) ==
    /\ pc[c] = "load"
    /\ seen' = [seen EXCEPT ![c] = written]
    /\ Goto(c, "start")
    /\ UNCHANGED <<flags, breaker, gate, status, box, drained, writes, faults>>

Start(c) ==
    /\ pc[c] = "start"
    /\ up' = TRUE /\ boot' = seen[c] /\ starter' = c
    /\ Goto(c, "release")
    /\ UNCHANGED <<flags, breaker, gate, status, seen, drained, writes, faults>>

\* markProvisionFailed, for a failed or a panicking provision; the box may be up
\* when its id could not be stored.
StartFails(c) ==
    /\ pc[c] = "start" /\ Fault
    /\ status' = "failed"
    /\ UNCHANGED box \/ (up' = TRUE /\ boot' = seen[c] /\ starter' = c)
    /\ excused' = excused \cup (IF c \in Coalescers THEN serves[c] ELSE {})
    /\ Goto(c, "release")
    /\ UNCHANGED <<flags, breaker, gate, seen, drained, written, midway, riding, serves,
                   refused>>

ReleaseGate(c) ==
    /\ pc[c] = "release"
    /\ gate' = Nobody
    /\ Goto(c, IF c \in Coalescers THEN "loop" ELSE "done")
    /\ UNCHANGED <<flags, breaker, status, box, seen, drained, writes, faults>>

\* A panicking cycle: the deferred unlock, then the deferred function of
\* coalesceRestart, run on the way out.
Panic(c) ==
    /\ c \in Coalescers /\ pc[c] \in {"check", "stop", "record", "mark"} /\ Fault
    /\ gate' = Nobody
    /\ excused' = excused \cup serves[c]
    /\ Goto(c, "clear")
    /\ UNCHANGED <<flags, breaker, status, box, seen, drained, written, midway, riding, serves,
                   refused>>

-----------------------------------------------------------------------------
(***************************************************************************)
(* Restart, Resume and Pause by the owner; hibernation and wake.           *)
(***************************************************************************)
\* Restart: markProvisioningForRestart, whatever the status was.
Restart(c) ==
    /\ c \in Manuals /\ pc[c] = "new"
    /\ WriteStatus("provisioning")
    /\ Goto(c, "reset")
    /\ UNCHANGED <<flags, breaker, gate, box, seen, drained, writes>>

\* Resume: the atomic claim paused -> provisioning; a missed claim ends it, and
\* so does one whose row count cannot be read.
Resume(c) ==
    /\ c \in Resumes /\ pc[c] = "new" /\ status = "paused"
    /\ status' = "provisioning"
    /\ \/ Goto(c, "reset") /\ UNCHANGED faults
       \/ Goto(c, "done") /\ Fault
    /\ UNCHANGED <<flags, breaker, gate, box, seen, drained, writes>>

\* WakeWorkspace: the claim hibernated -> provisioning; the row count or the row
\* may then be unreadable.  It does not reset the breaker.
WakeWorkspace(c) ==
    /\ c \in Wakes /\ pc[c] = "new" /\ status = "hibernated"
    /\ status' = "provisioning"
    /\ \/ Goto(c, "gate") /\ UNCHANGED faults
       \/ Goto(c, "done") /\ Fault
    /\ UNCHANGED <<flags, breaker, gate, box, seen, drained, writes>>

resetAutoRestarts(c) ==
    /\ pc[c] = "reset"
    /\ age' = [a \in Autos |-> AutoWindow] /\ halted' = FALSE /\ held' = FALSE
    /\ Goto(c, IF c \in Manuals THEN "preflight" ELSE "gate")
    /\ UNCHANGED <<flags, gate, status, box, seen, drained, writes, faults>>

\* RestartWorkspaceAutoOpts asks for the image before it takes the gate.
Preflight(c) ==
    /\ pc[c] = "preflight"
    /\ \/ Goto(c, "gate") /\ UNCHANGED faults
       \/ Goto(c, "done") /\ Fault
    /\ UNCHANGED <<flags, breaker, gate, status, box, seen, drained, writes>>

\* The owner's restart stops under the gate ...
OwnerTakesGate(c) ==
    /\ pc[c] = "gate" /\ c \in Manuals /\ gate = Nobody
    /\ gate' = c
    /\ StopOrLeak
    /\ Goto(c, "load")
    /\ UNCHANGED <<flags, breaker, status, boot, starter, seen, drained, writes>>

\* ... and Resume and wake only provision.
provisionWorkspaceAuto(c) ==
    /\ pc[c] = "gate" /\ c \in Resumes \cup Wakes /\ gate = Nobody
    /\ gate' = c
    /\ Goto(c, "load")
    /\ UNCHANGED <<flags, breaker, status, box, seen, drained, writes, faults>>

\* Pause: it takes no gate.  Stop, then the guarded claim of the row.
Pause(c) ==
    /\ c \in Pauses /\ pc[c] = "new" /\ status # "paused"
    /\ Goto(c, "stop")
    /\ UNCHANGED <<flags, breaker, gate, status, box, seen, drained, writes, faults>>

StopWorkspaceAuto(c) ==
    /\ pc[c] = "stop" /\ c \in Pauses
    /\ \/ up' = FALSE /\ Goto(c, "pausing") /\ UNCHANGED faults
       \/ Goto(c, "done") /\ Fault /\ UNCHANGED up
    /\ UNCHANGED <<flags, breaker, gate, status, boot, starter, seen, drained, writes>>

MarkPaused(c) ==
    /\ pc[c] = "pausing"
    /\ WriteStatus("paused")
    /\ Goto(c, "done")
    /\ UNCHANGED <<flags, breaker, gate, box, seen, drained, writes>>

\* hibernateWorkspace: the claim online -> hibernating (its row count may be
\* unreadable, which leaves the row hibernating), a stop whose error is
\* only logged, and an unguarded write; it takes no gate either.
hibernateWorkspace(c) ==
    /\ c \in Hibernates /\ pc[c] = "new" /\ status = "online"
    /\ status' = "hibernating"
    /\ \/ Goto(c, "stop") /\ UNCHANGED faults
       \/ Goto(c, "done") /\ Fault
    /\ UNCHANGED <<flags, breaker, gate, box, seen, drained, writes>>

HibernateStops(c) ==
    /\ pc[c] = "stop" /\ c \in Hibernates
    /\ StopOrLeak
    /\ Goto(c, "hibernating")
    /\ UNCHANGED <<flags, breaker, gate, status, boot, starter, seen, drained, writes>>

MarkHibernated(c) ==
    /\ pc[c] = "hibernating"
    /\ WriteStatus("hibernated")
    /\ Goto(c, "done")
    /\ UNCHANGED <<flags, breaker, gate, box, seen, drained, writes>>

-----------------------------------------------------------------------------
(***************************************************************************)
(* The container's messages, the drain that ends the queue hold, time.     *)
(***************************************************************************)
\* The upsert of /registry/register; one from a container that has just been
\* stopped may still arrive.  A platform row keeps its status.
Register ==
    /\ ~Concierge /\ status \in {"provisioning", "failed", "hibernating"}
    /\ status' = "online"
    /\ UNCHANGED <<flags, breaker, gate, box, pc, seen, drained, writes, faults>>

Heartbeat ==
    /\ up /\ status \in {"provisioning", "failed"}
    /\ status' = "online"
    /\ UNCHANGED <<flags, breaker, gate, box, pc, seen, drained, writes, faults>>

holdQueueAfterRestart ==
    /\ held /\ status = "online"
    /\ held' = FALSE
    /\ UNCHANGED <<flags, age, halted, gate, status, box, pc, seen, drained, writes, faults>>

Tick ==
    /\ stamp' = IF Debounced THEN stamp + 1 ELSE stamp
    /\ age' = [a \in Autos |-> IF age[a] < AutoWindow THEN age[a] + 1 ELSE AutoWindow]
    /\ <<stamp', age'>> # <<stamp, age>>
    /\ UNCHANGED <<running, pending, halted, held, gate, status, box, pc, seen, drained, writes,
                   faults>>

-----------------------------------------------------------------------------
RequestStep(c) ==
    \/ AutoDoor(c) \/ shouldDebounceRestart(c) \/ Enter(c)
    \/ DrainPending(c) \/ LeaveLoop(c) \/ ClearRunning(c)

CycleStep(c) ==
    \/ TakeGate(c) \/ CheckBreaker(c) \/ stopForRestart(c) \/ RecordAuto(c) \/ MarkProvisioning(c)

ProvisionStep(c) == loadWorkspaceSecrets(c) \/ Start(c) \/ ReleaseGate(c)

OwnerStep(c) ==
    \/ resetAutoRestarts(c) \/ Preflight(c) \/ OwnerTakesGate(c) \/ provisionWorkspaceAuto(c)
    \/ StopWorkspaceAuto(c) \/ MarkPaused(c) \/ HibernateStops(c) \/ MarkHibernated(c)

FaultStep(c) == Decline(c) \/ StartFails(c) \/ Panic(c)

Asks(c) ==
    \/ Write(c) \/ Probe(c) \/ Restart(c) \/ Resume(c) \/ WakeWorkspace(c)
    \/ Pause(c) \/ hibernateWorkspace(c)

Goes(c) == RequestStep(c) \/ CycleStep(c) \/ ProvisionStep(c) \/ OwnerStep(c)

Next ==
    \/ \E c \in Callers : Asks(c) \/ Goes(c) \/ FaultStep(c)
    \/ Register
    \/ Heartbeat
    \/ holdQueueAfterRestart
    \/ Tick

Spec == Init /\ [][Next]_vars

\* A goroutine that can go on does; a mutex is not kept from a waiter for ever
\* (sync.Mutex hands over to a starving waiter).
Fairness == \A c \in Callers : SF_vars(Goes(c))

FairSpec == Spec /\ Fairness

-----------------------------------------------------------------------------
(***************************************************************************)
(* Properties.                                                             *)
(***************************************************************************)
Quiet == \A c \in Callers : pc[c] \in {"new", "done"}

\* However requests, drains and panics are interleaved, the loop of
\* coalesceRestart has one runner while running is set, and none otherwise.
OneRunner ==
    /\ \A c, d \in Coalescers : pc[c] \in InLoop /\ pc[d] \in InLoop => c = d
    /\ running <=> \E c \in Coalescers : pc[c] \in InLoop

Booting(c) == c \notin Parkers /\ pc[c] \in {"record", "mark", "load", "start"}

\* From its stop to its start a restart is alone, whichever of the entry
\* points the others came through (acquireRestartProvisionGate).
OneBootAtATime ==
    \A c, d \in Callers : Booting(c) /\ Booting(d) => c = d

\* The state keeps its types and the restarts of a workspace follow one another
\* (coalesceRestart, acquireRestartProvisionGate).
RestartsAreSerial == TypeOK /\ OneRunner /\ OneBootAtATime

\* Once everything has come to rest, the running container was given every
\* write whose request was not dropped by the debounce, lost with the running
\* flag, declined, filtered, refused or failed (restartState).
WritesLand == Quiet => written \ excused \subseteq boot

\* The breaker lets no more than its limit of automatic restarts stop the
\* container inside one window, however many probes passed its door at once.
BreakerBounds == Cardinality(Recent) <= AutoLimit

\* Every request ends: no path keeps the gate or the running flag.
RequestsEnd == \A c \in Callers : pc[c] # "new" ~> pc[c] = "done"

(***************************************************************************)
(* Claims of the sources that the code does not keep.                      *)
(***************************************************************************)
\* coalesceRestart: a request that finds a cycle running is NOT dropped, the
\* runner will see pending on its next iteration.
NotDropped == Quiet => ~pending

\* RestartByID: writes that committed mid-restart are guaranteed to land.
WritesGuaranteed == Quiet => midway \subseteq boot

\* AutoRestartByID: user and mutation restarts are never refused.
NeverRefused == refused = {}

\* auto_restart_breaker.go: the self-fire debounce keeps automatic restarts at
\* least RestartDebounceWindow apart; here, from one counted stop to the next.
AutosApart ==
    [][\A a, b \in Autos : a # b /\ age[a] # 0 /\ age'[a] = 0 => age[b] >= Window]_vars

\* resetAutoRestarts: after a deliberate recovery no queue hold is left over
\* from the last automatic restart.
RecoveryIsUnheld == Quiet /\ up /\ starter \in Manuals \cup Resumes => ~held

\* Resume: every residual race lands in a status something can recover from,
\* and no path provisions compute the row does not know about; so a parked row
\* has no running container.  WakeWorkspace: a hibernated workspace's container
\* is genuinely stopped.
DormantIsStopped == Quiet /\ status \in Dormant => ~up
=============================================================================
