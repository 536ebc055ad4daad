----------------------------- MODULE Watchdogs -----------------------------
(***************************************************************************)
(* The sweepers that watch a running agent: the stall watchdog (probe, then *)
(* restart) and the phantom-busy reset (internal/handlers/                 *)
(* stall_watchdog.go, phantom_busy_sweeper.go), for one online workspace.  *)
(* The watchdog reads once and then acts in separate statements, while the *)
(* agent records activity and beats.  A probe passes DecideWake, whose key *)
(* is bucketed by the hour (wake_lifecycle.go); the ledger behind it is    *)
(* the module WakeIntents.                                                 *)
(***************************************************************************)
EXTENDS Naturals

CONSTANTS
    MaxWatchFaults, \* bound: failed statements, failed enqueues and lost restarts
    MaxInbound      \* bound: messages logged against an agent that is hung

ASSUME WatchBoundsAssumption == MaxWatchFaults \in Nat /\ MaxInbound \in Nat

VARIABLES
    agent,          \* "idle", "working", or "hung" in a turn
    busyRow,        \* workspaces.active_tasks > 0
    silence,          \* age of last_activity_at: 0, past 10 min, past 12 min
    logQuiet,       \* the newest activity_logs row is older than 10 min
    stall,          \* workspace_stall_state, with the age of probed_at
    recent,         \* the cooldown since the watchdog's last restart runs
    dog,            \* the stall sweep
    minted,         \* the hour buckets that have a wake intent
    asked,          \* history: a probe was queued since the last activity
    unsent,         \* history: the last probe's enqueue failed
    inbound, watchFaults

watchVars == <<agent, busyRow, silence, logQuiet, stall, recent, dog, minted,
               asked, unsent, inbound, watchFaults>>

StallRows == [state : {"none", "probed", "restarted"},
              grace : BOOLEAN,              \* probed_at is older than probeGrace
              moved : BOOLEAN,              \* last_activity_at > probed_activity_at
              action : BOOLEAN]             \* last_action_at is set
Buckets == {"now", "before"}
IdleDog == [pc |-> "idle", bucket |-> "now", acted |-> FALSE]

WatchTypeOK ==
    /\ agent \in {"idle", "working", "hung"}
    /\ busyRow \in BOOLEAN /\ silence \in 0..2 /\ logQuiet \in BOOLEAN
    /\ stall \in StallRows /\ recent \in BOOLEAN
    /\ dog \in [pc : {"idle", "clear", "decide", "enqueue", "record", "restart", "dispatch"},
                bucket : Buckets, acted : BOOLEAN]
    /\ minted \subseteq Buckets
    /\ {asked, unsent} \subseteq BOOLEAN
    /\ inbound \in 0..MaxInbound /\ watchFaults \in 0..MaxWatchFaults

WatchInit ==
    /\ agent = "idle" /\ busyRow = FALSE /\ silence = 0 /\ logQuiet = FALSE
    /\ stall = [state |-> "none", grace |-> FALSE, moved |-> FALSE, action |-> FALSE]
    /\ recent = FALSE
    /\ dog = IdleDog
    /\ minted = {}
    /\ asked = FALSE /\ unsent = FALSE
    /\ inbound = 0 /\ watchFaults = 0

-----------------------------------------------------------------------------
(* The agent, its heartbeat, and time.                                     *)

\* logActivityExec stamps last_activity_at with the activity row.
logActivity ==
    /\ silence' = 0 /\ logQuiet' = FALSE
    /\ stall' = [stall EXCEPT !.moved = @ \/ stall.state # "none"]
    /\ dog' = [dog EXCEPT !.acted = (dog.pc # "idle")]
    /\ asked' = FALSE
    /\ unsent' = FALSE

AgentActs ==
    /\ agent # "hung"
    /\ logActivity
    /\ agent' \in {"idle", "working"}
    /\ UNCHANGED <<recent, busyRow, minted, inbound, watchFaults>>

\* A caller's message is logged against the workspace as well.
InboundIsLogged ==
    /\ agent = "hung" /\ inbound < MaxInbound
    /\ inbound' = inbound + 1
    /\ logActivity
    /\ UNCHANGED <<recent, agent, busyRow, minted, watchFaults>>

AgentHangs ==
    /\ agent = "working"
    /\ agent' = "hung"
    /\ UNCHANGED <<busyRow, silence, logQuiet, stall, recent, dog, minted,
                   asked, unsent, inbound, watchFaults>>

\* The heartbeat daemon goes on when the agent hangs.
BeatReportsTasks ==
    /\ busyRow # (agent # "idle")
    /\ busyRow' = (agent # "idle")
    /\ UNCHANGED <<agent, silence, logQuiet, stall, recent, dog, minted,
                   asked, unsent, inbound, watchFaults>>

WatchedKeep == <<agent, busyRow, dog, minted, asked, unsent, inbound, watchFaults>>

QuietGrows ==
    /\ silence < 2 \/ ~logQuiet
    /\ silence' = IF silence < 2 THEN silence + 1 ELSE 2
    /\ logQuiet' = (logQuiet \/ silence' > 0)
    /\ UNCHANGED <<stall, recent, WatchedKeep>>

\* probeGrace and cooldown run out.
StallClocks ==
    /\ \/ /\ stall.state = "probed" /\ ~stall.grace
          /\ stall' = [stall EXCEPT !.grace = TRUE]
          /\ UNCHANGED recent
       \/ /\ recent
          /\ recent' = FALSE
          /\ UNCHANGED stall
    /\ UNCHANGED <<silence, logQuiet, WatchedKeep>>

\* The next hour: a sweep under way keeps the bucket of the time it read.
HourPasses ==
    /\ dog.bucket = "now"
    /\ minted # {} \/ dog.pc # "idle"
    /\ minted' = IF "now" \in minted THEN {"before"} ELSE {}
    /\ dog' = IF dog.pc = "idle" THEN dog ELSE [dog EXCEPT !.bucket = "before"]
    /\ UNCHANGED <<agent, busyRow, silence, logQuiet, stall, recent, asked, unsent,
                   inbound, watchFaults>>

\* DecideWake: a bucket that has an intent does not fire a second one.
Fires == dog.bucket \notin minted

WatchFault ==
    /\ watchFaults < MaxWatchFaults
    /\ watchFaults' = watchFaults + 1

-----------------------------------------------------------------------------
(* PhantomBusySweeper.Sweep: one UPDATE.                                   *)

PhantomSweep ==
    /\ busyRow /\ logQuiet
    /\ busyRow' = FALSE
    /\ UNCHANGED <<agent, silence, logQuiet, stall, recent, dog, minted,
                   asked, unsent, inbound, watchFaults>>

-----------------------------------------------------------------------------
(* StallWatchdog.Sweep.                                                    *)

DogKeeps == <<agent, busyRow, silence, inbound>>

\* now - last_action_at < cooldown.
InCooldown == stall.action /\ recent

\* What act does with a candidate, from the row the query joined.

act ==
    IF stall.state = "probed" /\ stall.moved THEN "clear"
    ELSE IF stall.state = "none" THEN "decide"
    ELSE IF stall.state = "probed" /\ stall.grace /\ ~InCooldown THEN "restart"
    ELSE IF stall.state = "restarted" /\ ~InCooldown THEN "decide"
    ELSE "idle"

StallSelects ==
    /\ dog.pc = "idle"
    /\ busyRow /\ silence = 2
    /\ act # "idle"
    /\ dog' = [IdleDog EXCEPT !.pc = act]
    /\ UNCHANGED <<DogKeeps, logQuiet, stall, recent, minted, asked, unsent, watchFaults>>

clearState ==
    /\ dog.pc = "clear"
    /\ stall' = [state |-> "none", grace |-> FALSE, moved |-> FALSE, action |-> FALSE]
    /\ logQuiet' = FALSE                    \* the audit row
    /\ dog' = IdleDog
    /\ UNCHANGED <<recent, DogKeeps, minted, asked, unsent, watchFaults>>

probeDecides ==
    /\ dog.pc = "decide"
    /\ IF Fires
         THEN minted' = minted \cup {dog.bucket} /\ dog' = [dog EXCEPT !.pc = "enqueue"]
         ELSE dog' = IdleDog /\ UNCHANGED minted
    /\ UNCHANGED <<DogKeeps, logQuiet, stall, recent, asked, unsent, watchFaults>>

probeEnqueues ==
    /\ dog.pc = "enqueue"
    /\ asked' = ~dog.acted
    /\ unsent' = FALSE
    /\ dog' = [dog EXCEPT !.pc = "record"]
    /\ UNCHANGED <<DogKeeps, logQuiet, stall, recent, minted, watchFaults>>

probeRecordsNow ==
    /\ dog.pc = "record"
    /\ stall' = [stall EXCEPT !.state = "probed", !.grace = FALSE, !.moved = FALSE]
    /\ logQuiet' = FALSE
    /\ dog' = IdleDog
    /\ UNCHANGED <<recent, DogKeeps, minted, asked, unsent, watchFaults>>

\* The snapshot is last_activity_at as the query read it.
probeRecords ==
    /\ dog.pc = "record"
    /\ stall' = [stall EXCEPT !.state = "probed", !.grace = FALSE, !.moved = dog.acted]
    /\ logQuiet' = FALSE
    /\ dog' = IdleDog
    /\ UNCHANGED <<recent, DogKeeps, minted, asked, unsent, watchFaults>>

\* softRestart: the row first, then the goroutine.
softRestart ==
    /\ dog.pc = "restart"
    /\ stall' = [stall EXCEPT !.state = "restarted", !.action = TRUE]
    /\ recent' = TRUE
    /\ logQuiet' = FALSE
    /\ dog' = [dog EXCEPT !.pc = "dispatch"]
    /\ UNCHANGED <<DogKeeps, minted, asked, unsent, watchFaults>>

restartDispatched ==
    /\ dog.pc = "dispatch"
    /\ agent' = "idle"
    /\ asked' = FALSE
    /\ dog' = IdleDog
    /\ UNCHANGED <<busyRow, silence, logQuiet, stall, recent, minted, unsent, inbound,
                   watchFaults>>

\* A statement or the enqueue fails, the process restarts, or the breaker
\* refuses the restart.
DogFails ==
    /\ dog.pc # "idle" /\ WatchFault
    /\ unsent' = (dog.pc = "enqueue" \/ unsent)
    /\ dog' = IdleDog
    /\ UNCHANGED <<DogKeeps, logQuiet, stall, recent, minted, asked>>

DogStep ==
    \/ clearState \/ probeDecides \/ probeEnqueues \/ probeRecords
    \/ softRestart \/ restartDispatched

-----------------------------------------------------------------------------

WatchNext ==
    \/ AgentActs \/ InboundIsLogged \/ AgentHangs \/ BeatReportsTasks
    \/ QuietGrows \/ StallClocks \/ HourPasses
    \/ PhantomSweep
    \/ StallSelects \/ DogStep \/ DogFails

WatchSpec == WatchInit /\ [][WatchNext]_watchVars

\* Time passes, beats arrive and tickers fire.  A stall sweep is disabled for
\* the seconds between a phantom-busy reset and the next beat, hence SF.
WatchFairness ==
    /\ WF_watchVars(BeatReportsTasks)
    /\ WF_watchVars(QuietGrows) /\ WF_watchVars(StallClocks)
    /\ WF_watchVars(HourPasses)
    /\ SF_watchVars(StallSelects) /\ WF_watchVars(DogStep)

WatchFairSpec == WatchSpec /\ WatchFairness

-----------------------------------------------------------------------------
(* Properties.                                                             *)

\* No agent is restarted as hung that was not asked since it last showed life,
\* up to what it does while the sweep that decided is running
\* (stall_watchdog.go:45-58).
AskedBeforeRestart ==
    [][(dog.pc = "restart" /\ dog'.pc = "dispatch") => (asked \/ dog.acted)]_watchVars

\* Two restarts of the watchdog are a cooldown apart, although probe, clear and
\* record are separate statements and a dispatched restart may be lost
\* (stall_watchdog.go:86-92).
StallRestartsApart ==
    [][(dog.pc = "restart" /\ dog'.pc = "dispatch") => ~recent]_watchVars

\* A hung agent is restarted in the end: the hour's used-up key, the phantom
\* reset of its task counter, logged messages and lost steps only delay it.
HungIsRestarted == []<>(agent # "hung")

\* "a failed enqueue is retried next sweep" (stall_watchdog.go:357-359): a sweep
\* that finds a probe unsent sends it, unless something fails again.
ProbeIsRetried ==
    [][(unsent /\ dog.pc = "decide" /\ dog'.pc = "idle") => watchFaults' # watchFaults]_watchVars

\* The stall and phantom-busy watchdogs restart a hung agent, after asking it
\* and not too often.
WatchdogsAreJust ==
    /\ []WatchTypeOK
    /\ AskedBeforeRestart
    /\ StallRestartsApart
    /\ HungIsRestarted

=============================================================================
