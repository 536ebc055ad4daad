------------------------------ MODULE A2AQueue ------------------------------
(***************************************************************************)
(* One workspace's part of the a2a_queue table: the callers that enqueue a *)
(* message its agent cannot take now, the drains that claim rows and hand  *)
(* them to the agent (heartbeats and the sweeper start them concurrently), *)
(* and the restart-context snapshots queued after a restart.               *)
(*                                                                         *)
(* A row is claimed by one transaction, delivered by an HTTP call and      *)
(* settled by another statement, so everything between is interleaved.     *)
(* Times are ages: what a row still has to wait, and how long ago it first *)
(* met a settling target.  The agent and the network between are modelled  *)
(* by what proxyA2ARequest can return.                                     *)
(***************************************************************************)
EXTENDS Naturals

CONSTANTS
    Messages,      \* messages, identified by their messageId
    Snapshots,     \* the restart-context snapshots among them
    Expiring,      \* messages sent with a TTL
    Drainers,      \* goroutines that run DrainQueueForWorkspace
    NoMessage,
    MaxAttempts,   \* maxAttempts of MarkQueueItemFailed
    Capacity,      \* rows one drain call may take
    Backoff,       \* transientRetryBackoffSecs, in ticks
    Ceiling,       \* a2aSettlingRetryCeiling, in ticks
    HasProvisioner, \* without one the sweeper is not started
    MaxRows,       \* bound: rows ever inserted
    MaxFaults,     \* bound: failed statements
    MaxRestarts    \* bound: restarts of the server process

ASSUME QueueAssumption ==
    /\ Snapshots \subseteq Messages /\ Expiring \subseteq Messages
    /\ NoMessage \notin Messages
    /\ MaxAttempts \in Nat \ {0} /\ Capacity \in Nat \ {0}
    /\ Backoff \in Nat /\ Ceiling \in Nat
    /\ MaxRows \in Nat /\ MaxFaults \in Nat /\ MaxRestarts \in Nat

ASSUME SweeperAssumption == HasProvisioner \in BOOLEAN

Rows == 1 .. MaxRows     \* in the order of enqueued_at
NoRow == 0
Unset == 0               \* settling_since IS NULL

VARIABLES
    last,       \* the newest row
    status,     \* per row, "absent" before its INSERT
    msg,        \* the message a row carries
    key,        \* idempotency_key: "none", "own" (messageId) or "restart"
    urgent,     \* priority 90 instead of 50
    attempts,   \* claims that were not given back
    wait,       \* ticks until next_attempt_at
    settling,   \* Unset, or 1 + ticks since settling_since (it stops past Ceiling)
    expired,    \* rows past expires_at
    drain,      \* what each drain call is doing
    note,       \* progress of each snapshot's enqueue goroutine
    bootTurn,   \* restartContextInFlight
    online,     \* workspaces.status is online or degraded
    accepted,   \* messages whose caller was told "queued"
    delivered,  \* messages the agent has processed
    answered,   \* messages whose caller was given a drained reply
    failures,   \* MarkQueueItemFailed calls per row
    cut,        \* rows whose settling was interrupted by another outcome
    swallowed,  \* messages whose re-queue met the row being drained
    faults, restarts

rowIds   == <<last, msg, key, urgent>>
rowTimes == <<wait, settling, expired>>
history  == <<accepted, delivered, answered, failures, cut, swallowed>>
vars == <<last, status, msg, key, urgent, attempts, wait, settling, expired,
          drain, note, bootTurn, online, accepted, delivered, answered, failures, cut,
          swallowed, faults, restarts>>

-----------------------------------------------------------------------------
Active == {"queued", "dispatched"}
Statuses == {"absent", "queued", "dispatched", "completed", "dropped", "failed"}

IdleDrain == [pc |-> "idle", left |-> 0, row |-> NoRow, stamped |-> FALSE,
              target |-> "unknown", burned |-> {}]

TypeOK ==
    /\ last \in 0 .. MaxRows
    /\ status \in [Rows -> Statuses]
    /\ msg \in [Rows -> Messages \cup {NoMessage}]
    /\ key \in [Rows -> {"none", "own", "restart"}]
    /\ urgent \in [Rows -> BOOLEAN]
    /\ attempts \in [Rows -> Nat]
    /\ wait \in [Rows -> Nat]
    /\ settling \in [Rows -> Nat]
    /\ expired \subseteq Rows
    /\ drain \in [Drainers ->
          [pc : {"idle", "dequeue", "claimed", "answered", "acked", "requeued", "gateway", "failed"},
           left : Nat, row : Rows \cup {NoRow}, stamped : BOOLEAN,
           target : {"unknown", "settling", "online"}, burned : SUBSET Rows]]
    /\ note \in [Snapshots -> {"new", "dropped", "checked", "queued", "declined"}]
    /\ bootTurn \in BOOLEAN /\ online \in BOOLEAN
    /\ accepted \subseteq Messages /\ delivered \subseteq Messages
    /\ answered \subseteq Messages /\ swallowed \subseteq Messages
    /\ failures \in [Rows -> Nat]
    /\ cut \subseteq Rows
    /\ faults \in Nat /\ restarts \in Nat

Init ==
    /\ last = 0
    /\ status = [r \in Rows |-> "absent"]
    /\ msg = [r \in Rows |-> NoMessage]
    /\ key = [r \in Rows |-> "none"]
    /\ urgent = [r \in Rows |-> FALSE]
    /\ attempts = [r \in Rows |-> 0]
    /\ wait = [r \in Rows |-> 0]
    /\ settling = [r \in Rows |-> Unset]
    /\ expired = {}
    /\ drain = [p \in Drainers |-> IdleDrain]
    /\ note = [m \in Snapshots |-> "new"]
    /\ bootTurn = FALSE /\ online = TRUE
    /\ accepted = {} /\ delivered = {} /\ answered = {} /\ swallowed = {} /\ cut = {}
    /\ failures = [r \in Rows |-> 0]
    /\ faults = 0 /\ restarts = 0

-----------------------------------------------------------------------------
(***************************************************************************)
(* EnqueueA2A: drop an expired row with the same key, insert unless the    *)
(* partial unique index finds an active one.                               *)
(***************************************************************************)
SameKey(r, m, k) == k # "none" /\ key[r] = k /\ (k = "own" => msg[r] = m)

Superseded(m, k) ==
    {r \in Rows : status[r] = "queued" /\ r \in expired /\ SameKey(r, m, k)}

Conflict(m, k) ==
    \E r \in Rows \ Superseded(m, k) : status[r] \in Active /\ SameKey(r, m, k)

EnqueueA2A(m, k, u) ==
    LET clash == Conflict(m, k)
        new == last + 1
    IN  /\ clash \/ last < MaxRows
        /\ last' = IF clash THEN last ELSE new
        /\ status' = [r \in Rows |->
                         IF r \in Superseded(m, k) THEN "dropped"
                         ELSE IF r = new /\ ~clash THEN "queued" ELSE status[r]]
        /\ msg' = IF clash THEN msg ELSE [msg EXCEPT ![new] = m]
        /\ key' = IF clash THEN key ELSE [key EXCEPT ![new] = k]
        /\ urgent' = IF clash THEN urgent ELSE [urgent EXCEPT ![new] = u]

\* A caller's message meets a busy or settling target, or a boot turn: the
\* first is keyed by its messageId, the second is not keyed.
Accept(m) ==
    /\ m \in Messages \ Snapshots
    /\ EnqueueA2A(m, IF bootTurn THEN "none" ELSE "own", FALSE)
    /\ accepted' = accepted \cup {m}
    /\ UNCHANGED <<attempts, rowTimes, drain, note, bootTurn, online, delivered, answered,
                   failures, cut, swallowed, faults, restarts>>

(***************************************************************************)
(* enqueueRestartContext, one action per statement.                        *)
(***************************************************************************)
dropQueuedRestartContext(m) ==
    /\ note[m] = "new"
    /\ note' = [note EXCEPT ![m] = "dropped"]
    /\ status' = [r \in Rows |-> IF status[r] = "queued" /\ msg[r] \in Snapshots
                                 THEN "dropped" ELSE status[r]]
    /\ UNCHANGED <<rowIds, attempts, rowTimes, drain, bootTurn, online, history, faults, restarts>>

restartContextBeingDelivered(m) ==
    /\ note[m] = "dropped"
    /\ note' = [note EXCEPT ![m] =
                  IF \E r \in Rows : status[r] = "dispatched" /\ msg[r] \in Snapshots
                  THEN "declined" ELSE "checked"]
    /\ UNCHANGED <<rowIds, status, attempts, rowTimes, drain, bootTurn, online, history, faults, restarts>>

enqueueRestartContext(m) ==
    /\ note[m] = "checked"
    /\ note' = [note EXCEPT ![m] = "queued"]
    /\ EnqueueA2A(m, "restart", TRUE)
    /\ UNCHANGED <<attempts, rowTimes, drain, bootTurn, online, history, faults, restarts>>

-----------------------------------------------------------------------------
(***************************************************************************)
(* The row statements a drain uses on the row it holds.                    *)
(***************************************************************************)
SetRow(r, s) == status' = [status EXCEPT ![r] = s]

\* Mutants: the attempt is not given back; settling_since is stamped anew.
TransientRetryBurns(r) ==
    /\ SetRow(r, "queued")
    /\ wait' = [wait EXCEPT ![r] = Backoff]
    /\ settling' = [settling EXCEPT ![r] = IF @ = Unset THEN 1 ELSE @]
    /\ UNCHANGED <<attempts, failures, cut, expired>>

TransientRetryRestamps(r) ==
    /\ SetRow(r, "queued")
    /\ attempts' = [attempts EXCEPT ![r] = IF @ > 0 THEN @ - 1 ELSE 0]
    /\ wait' = [wait EXCEPT ![r] = Backoff]
    /\ settling' = [settling EXCEPT ![r] = 1]
    /\ UNCHANGED <<failures, cut, expired>>

\* MarkQueueItemTransientRetry: give the attempt back, wait, stamp once.
TransientRetry(r) ==
    /\ SetRow(r, "queued")
    /\ attempts' = [attempts EXCEPT ![r] = IF @ > 0 THEN @ - 1 ELSE 0]
    /\ wait' = [wait EXCEPT ![r] = Backoff]
    /\ settling' = [settling EXCEPT ![r] = IF @ = Unset THEN 1 ELSE @]
    /\ UNCHANGED <<failures, cut, expired>>

\* DropQueueItemTerminal.
DropTerminal(r) ==
    /\ IF status[r] = "dispatched" THEN SetRow(r, "dropped") ELSE UNCHANGED status
    /\ UNCHANGED <<attempts, rowTimes, failures, cut>>

MarkFailed(r) ==
    /\ SetRow(r, IF attempts[r] >= MaxAttempts THEN "failed" ELSE "queued")
    /\ failures' = [failures EXCEPT ![r] = @ + 1]
    /\ cut' = IF settling[r] # Unset THEN cut \cup {r} ELSE cut
    /\ UNCHANGED <<attempts, rowTimes>>

\* Mutant: any second blip counts as past the ceiling.
PastCeilingSecondBlip(p) == drain[p].stamped

\* The ceiling, measured from the settling_since read with the claim.
PastCeiling(p) ==
    drain[p].stamped /\ settling[drain[p].row] > Ceiling

SettleOrDrop(p) ==
    IF PastCeiling(p) THEN DropTerminal(drain[p].row) ELSE TransientRetry(drain[p].row)

\* The drain is done with its row and turns to the next one; it remembers the
\* rows it failed.
NextRow(p) == drain' = [drain EXCEPT ![p].pc = "dequeue", ![p].row = NoRow]

NextRowAfterFailure(p) ==
    drain' = [drain EXCEPT ![p].pc = "dequeue", ![p].row = NoRow,
                           ![p].burned = @ \cup {drain[p].row}]

-----------------------------------------------------------------------------
(***************************************************************************)
(* DrainQueueForWorkspace.                                                 *)
(***************************************************************************)
StartedDrain == [IdleDrain EXCEPT !.pc = "dequeue", !.left = Capacity]

\* A heartbeat that reports spare capacity starts one.
StartDrain(p) ==
    /\ drain[p].pc = "idle"
    /\ ~bootTurn
    /\ drain' = [drain EXCEPT ![p] = StartedDrain]
    /\ UNCHANGED <<rowIds, status, attempts, rowTimes, note, bootTurn, online, history, faults, restarts>>

\* So does the tick of the sweeper, which is started with a provisioner only,
\* for the workspaces it finds online or degraded with an unexpired queued row.
sweepA2AQueue ==
    /\ HasProvisioner /\ online
    /\ \E r \in Rows : status[r] = "queued" /\ r \notin expired
    /\ \E p \in Drainers : StartDrain(p)

\* Mutant: the claim does not ask for status = 'queued'.
EligibleActive == {r \in Rows : status[r] \in Active /\ r \notin expired /\ wait[r] = 0}

Eligible == {r \in Rows : status[r] = "queued" /\ r \notin expired /\ wait[r] = 0}

\* ORDER BY priority DESC, enqueued_at ASC.
Before(r, q) == (urgent[r] /\ ~urgent[q]) \/ (urgent[r] = urgent[q] /\ r <= q)

DequeueNext(p, r) ==
    /\ drain[p].pc = "dequeue" /\ drain[p].left > 0
    /\ r \in Eligible /\ \A q \in Eligible : Before(r, q)
    /\ SetRow(r, "dispatched")
    /\ attempts' = [attempts EXCEPT ![r] = @ + 1]
    /\ drain' = [drain EXCEPT ![p].pc = "claimed", ![p].left = @ - 1, ![p].row = r,
                              ![p].stamped = settling[r] # Unset]
    /\ UNCHANGED <<rowIds, rowTimes, note, bootTurn, online, history, faults, restarts>>

\* Capacity used up, or nothing to claim.
DrainEnds(p) ==
    /\ drain[p].pc = "dequeue"
    /\ drain[p].left = 0 \/ Eligible = {}
    /\ drain' = [drain EXCEPT ![p] = IdleDrain]
    /\ UNCHANGED <<rowIds, status, attempts, rowTimes, note, bootTurn, online, history, faults, restarts>>

DequeueError(p) ==
    /\ drain[p].pc = "dequeue" /\ drain[p].left > 0
    /\ faults < MaxFaults /\ faults' = faults + 1
    /\ drain' = [drain EXCEPT ![p] = IdleDrain]
    /\ UNCHANGED <<rowIds, status, attempts, rowTimes, note, bootTurn, online, history, restarts>>

\* The agent URL is resolved once per drain call, at the first claimed row.
ResolveOnce(p) ==
    /\ drain[p].pc = "claimed" /\ drain[p].target = "unknown"
    /\ \E t \in {"settling", "online"} : drain' = [drain EXCEPT ![p].target = t]
    /\ UNCHANGED <<rowIds, status, attempts, rowTimes, note, bootTurn, online, history, faults, restarts>>

settleQueuedItemBounded(p) ==
    /\ drain[p].pc = "claimed" /\ drain[p].target = "settling"
    /\ SettleOrDrop(p)
    /\ NextRow(p)
    /\ UNCHANGED <<rowIds, note, bootTurn, online, accepted, delivered, answered, swallowed, faults, restarts>>

(***************************************************************************)
(* proxyA2ARequest, by what it did and returned.                           *)
(***************************************************************************)
Dispatching(p) == drain[p].pc = "claimed" /\ drain[p].target = "online"

\* A boot turn lets a dispatch through only if its own enqueue failed.
PassesBootGate == IF bootTurn THEN faults < MaxFaults /\ faults' = faults + 1
                              ELSE UNCHANGED faults

Returns(p, pc) == drain' = [drain EXCEPT ![p].pc = pc]

\* 200 with the agent's reply, or an error after the agent did the work.
ProxyDelivers(p) ==
    /\ Dispatching(p) /\ PassesBootGate
    /\ delivered' = delivered \cup {msg[drain[p].row]}
    /\ \E pc \in {"answered", "failed", "gateway"} : Returns(p, pc)
    /\ UNCHANGED <<rowIds, status, attempts, rowTimes, note, bootTurn, online, accepted, answered,
                   failures, cut, swallowed, restarts>>

\* Neither the agent nor the queue has the message.
ProxyFails(p) ==
    /\ Dispatching(p) /\ PassesBootGate
    /\ \E pc \in {"failed", "gateway"} : Returns(p, pc)
    /\ UNCHANGED <<rowIds, status, attempts, rowTimes, note, bootTurn, online, history, restarts>>

\* Mutant: 202 without a row to drain later.
ProxyRequeuesNothing(p) ==
    /\ Dispatching(p) /\ PassesBootGate
    /\ Returns(p, "requeued")
    /\ UNCHANGED <<rowIds, status, attempts, rowTimes, note, bootTurn, online, history, restarts>>

\* 202: busy or settling, EnqueueA2A under the message's own id.
ProxyRequeues(p) ==
    LET m == msg[drain[p].row]
    IN  /\ Dispatching(p) /\ PassesBootGate
        /\ EnqueueA2A(m, "own", FALSE)
        /\ Returns(p, "requeued")
        /\ swallowed' = IF Conflict(m, "own") THEN swallowed \cup {m} ELSE swallowed
        /\ UNCHANGED <<attempts, rowTimes, note, bootTurn, online, accepted, delivered, answered,
                       failures, cut, restarts>>

\* 200 with a queued envelope: a boot turn began after the drain's own check.
ProxyDefers(p) ==
    /\ Dispatching(p) /\ bootTurn
    /\ EnqueueA2A(msg[drain[p].row], "none", FALSE)
    /\ Returns(p, "acked")
    /\ UNCHANGED <<attempts, rowTimes, note, bootTurn, online, history, faults, restarts>>

-----------------------------------------------------------------------------
(***************************************************************************)
(* Settling the claimed row after the proxy returned.                      *)
(***************************************************************************)
\* Any 200 body is stored and stitched as the reply; a 202 is not.
MarkQueueItemCompleted(p) ==
    /\ drain[p].pc \in {"answered", "acked", "requeued"}
    /\ SetRow(drain[p].row, "completed")
    /\ answered' = IF drain[p].pc = "requeued" THEN answered
                   ELSE answered \cup {msg[drain[p].row]}
    /\ NextRow(p)
    /\ UNCHANGED <<rowIds, attempts, rowTimes, note, bootTurn, online, accepted, delivered, failures,
                   cut, swallowed, faults, restarts>>

MarkQueueItemFailed(p) ==
    /\ drain[p].pc = "failed"
    /\ MarkFailed(drain[p].row)
    /\ NextRowAfterFailure(p)
    /\ UNCHANGED <<rowIds, note, bootTurn, online, accepted, delivered, answered, swallowed, faults, restarts>>

\* A gateway-origin failure is transient only while the agent heartbeats.
GatewayFailure(p, heartbeat) ==
    /\ drain[p].pc = "gateway"
    /\ IF heartbeat THEN SettleOrDrop(p) /\ NextRow(p)
                    ELSE MarkFailed(drain[p].row) /\ NextRowAfterFailure(p)
    /\ UNCHANGED <<rowIds, note, bootTurn, online, accepted, delivered, answered, swallowed, faults, restarts>>

\* Every one of these statements only logs its error: the row stays claimed.
MarkError(p) ==
    /\ \/ drain[p].pc \in {"answered", "acked", "requeued", "gateway", "failed"}
       \/ drain[p].pc = "claimed" /\ drain[p].target = "settling"
    /\ faults < MaxFaults /\ faults' = faults + 1
    /\ NextRow(p)
    /\ UNCHANGED <<rowIds, status, attempts, rowTimes, note, bootTurn, online, history, restarts>>

-----------------------------------------------------------------------------
(***************************************************************************)
(* The operator's cleanup, time, boot turns and restarts.                  *)
(***************************************************************************)
DropStaleQueueItems(oldest) ==
    /\ \E r \in Rows : r <= oldest /\ status[r] = "queued"
    /\ status' = [r \in Rows |-> IF r <= oldest /\ status[r] = "queued"
                                 THEN "dropped" ELSE status[r]]
    /\ UNCHANGED <<rowIds, attempts, rowTimes, drain, note, bootTurn, online, history, faults, restarts>>

Tick ==
    /\ wait' = [r \in Rows |-> IF wait[r] > 0 THEN wait[r] - 1 ELSE 0]
    /\ settling' = [r \in Rows |-> IF settling[r] # Unset /\ settling[r] <= Ceiling
                                   THEN settling[r] + 1 ELSE settling[r]]
    /\ <<wait', settling'>> # <<wait, settling>>
    /\ UNCHANGED <<rowIds, status, attempts, expired, drain, note, bootTurn, online, history, faults, restarts>>

\* Only the keyed enqueues pass an expires_at.
Expire(r) ==
    /\ status[r] = "queued" /\ r \notin expired
    /\ key[r] # "none" /\ msg[r] \in Expiring
    /\ expired' = expired \cup {r}
    /\ UNCHANGED <<rowIds, status, attempts, wait, settling, drain, note, bootTurn, online, history, faults, restarts>>

BootTurn ==
    /\ Snapshots # {}
    /\ bootTurn' = ~bootTurn
    /\ UNCHANGED <<rowIds, status, attempts, rowTimes, drain, note, online, history, faults, restarts>>

\* The workspace goes offline, fails or pauses, or comes back.
WorkspaceFlaps ==
    /\ online' = ~online
    /\ UNCHANGED <<rowIds, status, attempts, rowTimes, drain, note, bootTurn, history, faults, restarts>>

ServerRestart ==
    /\ restarts < MaxRestarts /\ restarts' = restarts + 1
    /\ drain' = [p \in Drainers |-> IdleDrain]
    /\ note' = [m \in Snapshots |-> IF note[m] \in {"dropped", "checked"} THEN "declined" ELSE note[m]]
    /\ bootTurn' = FALSE
    /\ UNCHANGED <<rowIds, status, attempts, rowTimes, online, history, faults>>

-----------------------------------------------------------------------------
ClaimStep(p) ==
    \/ \E r \in Rows : DequeueNext(p, r)
    \/ DrainEnds(p)
    \/ ResolveOnce(p)

ProxyStep(p) ==
    \/ ProxyDelivers(p)
    \/ ProxyFails(p)
    \/ ProxyRequeues(p)
    \/ ProxyDefers(p)

MarkStep(p) ==
    \/ settleQueuedItemBounded(p)
    \/ MarkQueueItemCompleted(p)
    \/ MarkQueueItemFailed(p)
    \/ \E heartbeat \in BOOLEAN : GatewayFailure(p, heartbeat)

FaultStep(p) == DequeueError(p) \/ MarkError(p)

DrainStep(p) == ClaimStep(p) \/ ProxyStep(p) \/ MarkStep(p)

SnapshotStep(m) ==
    \/ dropQueuedRestartContext(m)
    \/ restartContextBeingDelivered(m)
    \/ enqueueRestartContext(m)

Next ==
    \/ \E m \in Messages : Accept(m)
    \/ \E m \in Snapshots : SnapshotStep(m)
    \/ \E p \in Drainers : StartDrain(p) \/ DrainStep(p) \/ FaultStep(p)
    \/ \E oldest \in Rows : DropStaleQueueItems(oldest)
    \/ Tick
    \/ \E r \in Rows : Expire(r)
    \/ BootTurn \/ WorkspaceFlaps
    \/ sweepA2AQueue
    \/ ServerRestart

Spec == Init /\ [][Next]_vars

\* The sweeper's ticker fires again and again, a drain runs to its end, time
\* passes; no heartbeat with spare capacity is owed.
Fairness ==
    /\ \A p \in Drainers : WF_vars(DrainStep(p))
    /\ WF_vars(sweepA2AQueue)
    /\ WF_vars(Tick)

FairSpec == Spec /\ Fairness

-----------------------------------------------------------------------------
(***************************************************************************)
(* Properties.                                                             *)
(***************************************************************************)
Holds(p, r) == drain[p].row = r

\* A claimed row is worked on by one drain call only, and stays `dispatched`
\* until that call settles it, whatever the sweeper, heartbeats, callers'
\* retries, the stale cleanup and later restarts do (DequeueNext).
ClaimIsExclusive ==
    \A p \in Drainers : drain[p].row # NoRow =>
        /\ status[drain[p].row] = "dispatched"
        /\ \A q \in Drainers : Holds(q, drain[p].row) => q = p

\* A row that stays `dispatched` with nobody working on it is the trace of a
\* failed statement or of a restart; no branch of the drain forgets its row
\* (DrainQueueForWorkspace).
OrphansNeedAFault ==
    (\E r \in Rows : status[r] = "dispatched" /\ \A p \in Drainers : ~Holds(p, r))
        => faults + restarts > 0

\* However callers, drains and snapshots enqueue, one message is active at
\* most once under its id, and one snapshot under the restart key
\* (EnqueueA2A and the partial unique index).
OneActivePerKey ==
    \A r, q \in Rows :
        /\ status[r] \in Active /\ status[q] \in Active
        /\ SameKey(r, msg[q], key[q])
        => r = q

\* The state keeps its types and no message goes out twice at once, neither from
\* two drains of one row nor from two rows of one message (DequeueNext, EnqueueA2A).
OneOfEach == TypeOK /\ ClaimIsExclusive /\ OneActivePerKey

\* The attempts counter is the number of real failures, plus the claim in
\* progress: gateway blips and settling targets never burn the cap, and a
\* row ends `failed` exactly at its last allowed failure.
AttemptsCountFailures ==
    \A r \in Rows :
        /\ status[r] = "queued" => attempts[r] = failures[r] /\ failures[r] < MaxAttempts
        /\ status[r] = "dispatched" => attempts[r] = failures[r] + 1 /\ attempts[r] <= MaxAttempts
        /\ status[r] = "failed" => failures[r] = MaxAttempts

\* A claimed row is dropped only a whole ceiling after it first met a settling
\* target, never for its age in the queue (PastCeiling).
DropsOnlyPastCeiling ==
    [][\A r \in Rows : status[r] = "dispatched" /\ status'[r] = "dropped"
          => settling[r] > Ceiling]_vars

Gone(m) == \A r \in Rows : msg[r] = m => status[r] = "completed"

\* An accepted message that the agent never processed is still in the queue,
\* or ended there as dropped or failed; it disappears behind a `completed`
\* row only if a drain's re-queue met the very row it was draining.
VanishesOnlySwallowed ==
    \A m \in accepted \ delivered : Gone(m) => m \in swallowed

\* Once the workspace has stopped booting and stays online, on a server with a
\* sweeper, a row that met a settling target does not go round for ever: it is
\* answered, fails or is dropped (the settling ceiling), unless its own TTL
\* takes it out of every drain's reach.  What is queued for a workspace that
\* stays offline is stranded, and CountStrandedQueueItems counts it.
NoZombie ==
    HasProvisioner /\ <>[](online /\ ~bootTurn)
        => \A r \in Rows : settling[r] # Unset ~> status[r] \notin Active \/ r \in expired

(***************************************************************************)
(* Claims of the sources that the code does not keep.                      *)
(***************************************************************************)
\* DrainQueueForWorkspace on a 202: mark this attempt completed, the new
\* (re-)queue row already exists.  So no accepted message is gone undelivered.
RequeueRowExists ==
    \A m \in accepted \ delivered : ~Gone(m)

\* DrainQueueForWorkspace: only the 200 branch, with the agent's REAL reply,
\* attaches a reply to the caller's turn.
ReplyIsReal == answered \subseteq delivered

\* MarkQueueItemFailed: the item goes back to `queued` so that the next drain
\* tick picks it up; here, the drain call that failed it does not.
OneAttemptPerDrain ==
    [][\A p \in Drainers, r \in Rows :
          Holds(p, r)' /\ ~Holds(p, r) => r \notin drain[p].burned]_vars

\* DrainQueueForWorkspace: only a SUSTAINED settling past the ceiling drops;
\* here, a settling that no other outcome interrupted.
DropsOnlySustained ==
    [][\A r \in Rows : status[r] = "dispatched" /\ status'[r] = "dropped"
          => r \notin cut]_vars

\* restart_context.go: at most one snapshot pending per workspace.
OneSnapshotPending ==
    \A r, q \in Rows :
        /\ status[r] = "queued" /\ status[q] = "queued"
        /\ msg[r] \in Snapshots /\ msg[q] \in Snapshots
        => r = q

\* restart_context.go: a snapshot being delivered right now is left to finish,
\* and this one is not queued next to it.  So once the row that made a snapshot
\* stand back is `completed`, some snapshot was delivered or is still queued.
DeclinedForAnother ==
    /\ \E m \in Snapshots : note[m] = "declined"
    /\ \E r \in Rows : msg[r] \in Snapshots /\ status[r] = "completed"
    => \/ Snapshots \cap delivered # {}
       \/ \E r \in Rows : msg[r] \in Snapshots /\ status[r] \in Active

\* No message of the queue is lost silently (DrainQueueForWorkspace, the mark
\* statements, EnqueueA2A): claimed rows are orphaned only by a fault, and a
\* message vanishes only in the re-queue that meets its own row.
NothingLost ==
    /\ OrphansNeedAFault
    /\ VanishesOnlySwallowed

\* With restart-context snapshots in the queue, keys stay unique, nothing is
\* lost, and a row that met a settling target comes to an end while the sweeper
\* can reach it.
SnapshotsSettle ==
    /\ []OneActivePerKey
    /\ []NothingLost
    /\ NoZombie

=============================================================================
