--------------------------- MODULE A2AQueueProofs ---------------------------
(***************************************************************************)
(* Proofs about what a workspace is told (A2AQueue), for any messages,     *)
(* drains, capacities and bounds, and what it remembers (Memories), for any *)
(* number of workspaces, calls, failures and writers of a key.             *)
(*                                                                         *)
(* A2AQueue: a drain call that holds a row holds a `dispatched` row, and   *)
(* only the holder moves a row out of `dispatched`: enqueues, the stale    *)
(* cleanup and the snapshot cleanup touch `queued` rows only.  With that,  *)
(* the attempts counter can be followed row by row.                        *)
(*                                                                         *)
(* MemoriesAreKept: a call that writes has one namespace, and unless that is *)
(* a team's it is its caller's own; a workspace whose namespace was dropped *)
(* for good has neither a row nor a writing call left; the client never    *)
(* counts more failures than there were; and what a writer of a key read is *)
(* the value of the version it remembers, until the row is deleted under it. *)
(***************************************************************************)
EXTENDS A2AQueue, Memories, TLAPS

-----------------------------------------------------------------------------
(* A2AQueue.                                                               *)

Working == {"claimed", "answered", "acked", "requeued", "gateway", "failed"}

DrainRecord ==
    [pc : {"idle", "dequeue"} \cup Working, left : Nat, row : Rows \cup {NoRow},
     stamped : BOOLEAN, target : {"unknown", "settling", "online"}, burned : SUBSET Rows]

\* The part of the state the claims depend on.
Typed ==
    /\ last \in 0 .. MaxRows
    /\ status \in [Rows -> Statuses]
    /\ attempts \in [Rows -> Nat]
    /\ failures \in [Rows -> Nat]
    /\ settling \in [Rows -> Nat]
    /\ drain \in [Drainers -> DrainRecord]

\* A drain call holds a row exactly while it works on one.
HoldsWhileWorking ==
    \A p \in Drainers : drain[p].pc \in Working <=> drain[p].row # NoRow

\* Rows are inserted in order, with a counter at zero.
InsertedInOrder ==
    \A r \in Rows : /\ status[r] = "absent" <=> r > last
                    /\ r > last => attempts[r] = 0 /\ failures[r] = 0

Inv ==
    /\ Typed
    /\ HoldsWhileWorking
    /\ InsertedInOrder
    /\ ClaimIsExclusive
    /\ AttemptsCountFailures

-----------------------------------------------------------------------------
\* An empty table and idle drains satisfy the invariant.
LEMMA InitInv == Init => Inv
  BY QueueAssumption DEF Init, Inv, Typed, HoldsWhileWorking, InsertedInOrder, ClaimIsExclusive,
     AttemptsCountFailures, IdleDrain, DrainRecord, Working, Rows, NoRow, Statuses, Unset

\* A drain call keeps its row or lets it go.
KeepsOrReleases(p) ==
    /\ drain'[p].row = drain[p].row \/ drain'[p].row = NoRow
    /\ drain'[p].pc \in Working <=> drain'[p].row # NoRow

\* A step that touches no `dispatched` row and no counter: enqueues, cleanups,
\* time, and everything a drain does between its claim and its last statement.
LEMMA OutsideStep ==
    ASSUME Inv, UNCHANGED <<attempts, failures>>, settling' \in [Rows -> Nat],
           drain' \in [Drainers -> DrainRecord], \A p \in Drainers : KeepsOrReleases(p),
           last' \in 0 .. MaxRows, last' = last \/ last' = last + 1,
           \A r \in Rows :
              \/ status'[r] = status[r] /\ (r = last + 1 => last' = last)
              \/ status[r] = "queued" /\ status'[r] = "dropped"
              \/ r = last + 1 /\ last' = last + 1 /\ status'[r] = "queued",
           status' \in [Rows -> Statuses]
    PROVE  Inv'
  <1> USE QueueAssumption
  <1>1. Typed' /\ HoldsWhileWorking'
    BY DEF Inv, Typed, HoldsWhileWorking, KeepsOrReleases
  <1>2. InsertedInOrder'
    BY SMTT(40) DEF Inv, Typed, InsertedInOrder, Rows
  <1>3. \A p \in Drainers : drain[p].row # NoRow => drain[p].row \in Rows
    BY DEF Inv, Typed, DrainRecord
  <1>4. ClaimIsExclusive'
    <2>1. \A r \in Rows : status[r] = "dispatched" => status'[r] = "dispatched"
      BY SMTT(40) DEF Inv, InsertedInOrder, Typed, Rows
    <2> QED
      BY <1>3, <2>1 DEF Inv, ClaimIsExclusive, Holds, KeepsOrReleases
  <1>5. AttemptsCountFailures'
    BY SMTT(40) DEF Inv, Typed, AttemptsCountFailures, InsertedInOrder, Rows
  <1> QED
    BY <1>1, <1>2, <1>4, <1>5 DEF Inv

\* What EnqueueA2A does to the table: it drops `queued` rows, and inserts the
\* next row or none.
LEMMA EnqueueFacts ==
    ASSUME Inv, NEW m, NEW k, NEW u, EnqueueA2A(m, k, u)
    PROVE  /\ last' \in 0 .. MaxRows /\ (last' = last \/ last' = last + 1)
           /\ status' \in [Rows -> Statuses]
           /\ \A r \in Rows :
              \/ status'[r] = status[r] /\ (r = last + 1 => last' = last)
              \/ status[r] = "queued" /\ status'[r] = "dropped"
              \/ r = last + 1 /\ last' = last + 1 /\ status'[r] = "queued"
  <1> DEFINE clash == Conflict(m, k)
  <1>1. last \in 0 .. MaxRows /\ MaxRows \in Nat
    BY QueueAssumption DEF Inv, Typed
  <1>2. /\ clash \/ last < MaxRows
        /\ last' = IF clash THEN last ELSE last + 1
        /\ status' = [r \in Rows |->
                         IF r \in Superseded(m, k) THEN "dropped"
                         ELSE IF r = last + 1 /\ ~clash THEN "queued" ELSE status[r]]
    BY DEF EnqueueA2A
  <1>3. \A r \in Superseded(m, k) : status[r] = "queued" /\ r <= last
    BY DEF Superseded, Inv, InsertedInOrder, Typed, Rows
  <1> HIDE DEF clash
  <1>4. last' \in 0 .. MaxRows /\ (last' = last \/ last' = last + 1)
    BY <1>1, <1>2
  <1>5. status' \in [Rows -> Statuses]
    BY <1>2 DEF Inv, Typed, Statuses
  <1> QED
    BY <1>1, <1>2, <1>3, <1>4, <1>5

\* The claim: the row was nobody's, because it was `queued`.
LEMMA ClaimKeepsInv ==
    ASSUME Inv, NEW p \in Drainers, NEW r \in Rows, DequeueNext(p, r)
    PROVE  Inv'
  <1> USE QueueAssumption
  <1>1. /\ status[r] = "queued" /\ status' = [status EXCEPT ![r] = "dispatched"]
        /\ attempts' = [attempts EXCEPT ![r] = attempts[r] + 1]
        /\ UNCHANGED <<last, settling, failures>>
        /\ drain[p].pc = "dequeue" /\ drain[p].left > 0
    BY DEF DequeueNext, Eligible, SetRow, rowIds, rowTimes, history
  <1>2. /\ drain' \in [Drainers -> DrainRecord]
        /\ drain'[p].pc = "claimed" /\ drain'[p].row = r
        /\ \A q \in Drainers : q # p => drain'[q] = drain[q]
    BY <1>1 DEF DequeueNext, Inv, Typed, DrainRecord, Working
  <1>3. \A q \in Drainers : drain[q].row # r
    BY <1>1 DEF Inv, ClaimIsExclusive, Rows, NoRow
  <1>4a. Typed'
    <2>1. attempts' \in [Rows -> Nat]
      BY <1>1 DEF Inv, Typed
    <2>2. status' \in [Rows -> Statuses]
      BY <1>1 DEF Inv, Typed, Statuses
    <2> QED
      BY <1>1, <1>2, <2>1, <2>2 DEF Inv, Typed
  <1>4b. HoldsWhileWorking'
    <2>1. r # NoRow
      BY DEF Rows, NoRow
    <2> QED
      BY <1>2, <2>1 DEF Inv, HoldsWhileWorking, Working
  <1>5. InsertedInOrder'
    BY <1>1 DEF Inv, Typed, InsertedInOrder, Rows
  <1>6. ClaimIsExclusive'
    BY <1>1, <1>2, <1>3 DEF Inv, Typed, ClaimIsExclusive, Holds, DrainRecord
  <1>7. AttemptsCountFailures'
    BY <1>1 DEF Inv, Typed, AttemptsCountFailures
  <1> QED
    BY <1>4a, <1>4b, <1>5, <1>6, <1>7 DEF Inv

\* The statement that settles a claimed row.
LEMMA SettleKeepsInv ==
    ASSUME Inv, NEW p \in Drainers, NEW r \in Rows, r = drain[p].row, last' = last,
           drain' \in [Drainers -> DrainRecord], settling' \in [Rows -> Nat],
           drain'[p].pc = "dequeue", drain'[p].row = NoRow,
           \A q \in Drainers : q # p => drain'[q] = drain[q],
           NEW s \in {"completed", "dropped", "queued", "failed"},
           status' = [status EXCEPT ![r] = s],
           \/ s \in {"completed", "dropped"} /\ UNCHANGED <<attempts, failures>>
           \/ /\ s = "queued" /\ failures' = failures
              /\ attempts' = [attempts EXCEPT ![r] = IF attempts[r] > 0 THEN attempts[r] - 1 ELSE 0]
           \/ /\ s = IF attempts[r] >= MaxAttempts THEN "failed" ELSE "queued"
              /\ failures' = [failures EXCEPT ![r] = failures[r] + 1]
              /\ UNCHANGED attempts
    PROVE  Inv'
  <1> USE QueueAssumption
  <1>1. status[r] = "dispatched" /\ \A q \in Drainers : q # p => drain[q].row # r
    BY DEF Inv, ClaimIsExclusive, Holds, Rows, NoRow
  <1>2. attempts[r] = failures[r] + 1 /\ attempts[r] <= MaxAttempts
        /\ attempts[r] \in Nat /\ failures[r] \in Nat
    BY <1>1 DEF Inv, Typed, AttemptsCountFailures
  <1>3. attempts' \in [Rows -> Nat] /\ failures' \in [Rows -> Nat]
    BY <1>2 DEF Inv, Typed
  <1>4. Typed' /\ HoldsWhileWorking'
    BY ZenonT(60), <1>3 DEF Inv, Typed, Statuses, HoldsWhileWorking, Working
  <1>5. r <= last
    BY <1>1 DEF Inv, Typed, InsertedInOrder, Rows
  <1>6. InsertedInOrder'
    BY ZenonT(60), <1>1, <1>5 DEF Inv, Typed, InsertedInOrder, Rows
  <1>7. ClaimIsExclusive'
    <2>1. \A q \in Drainers : q # p /\ drain[q].row # NoRow =>
             drain[q].row \in Rows /\ drain[q].row # r
      BY <1>1 DEF Inv, Typed, DrainRecord
    <2>2. \A q \in Rows : q # r => status'[q] = status[q]
      BY DEF Inv, Typed
    <2> QED
      BY <2>1, <2>2 DEF Inv, ClaimIsExclusive, Holds
  <1>8. AttemptsCountFailures'
    <2>1. \A q \in Rows : q # r => /\ status'[q] = status[q] /\ attempts'[q] = attempts[q]
                                    /\ failures'[q] = failures[q]
      BY DEF Inv, Typed
    <2>2. /\ status'[r] = "queued" => attempts'[r] = failures'[r] /\ failures'[r] < MaxAttempts
          /\ status'[r] # "dispatched"
          /\ status'[r] = "failed" => failures'[r] = MaxAttempts
      BY <1>2 DEF Inv, Typed
    <2> QED
      BY <2>1, <2>2 DEF Inv, AttemptsCountFailures
  <1> QED
    BY <1>4, <1>6, <1>7, <1>8 DEF Inv

-----------------------------------------------------------------------------
\* A drain at work holds a row of the table.
LEMMA HeldRow ==
    ASSUME Inv, NEW p \in Drainers, drain[p].pc \in Working
    PROVE  drain[p].row \in Rows /\ status[drain[p].row] = "dispatched"
  BY DEF Inv, HoldsWhileWorking, Typed, DrainRecord, ClaimIsExclusive

\* A drain that goes on with its row, with the steps that move it.
LEMMA ReturnsFacts ==
    ASSUME Inv, NEW p \in Drainers, drain[p].pc \in Working, NEW pc \in Working, Returns(p, pc)
    PROVE  drain' \in [Drainers -> DrainRecord] /\ \A q \in Drainers : KeepsOrReleases(q)
  BY DEF Inv, Typed, HoldsWhileWorking, Returns, DrainRecord, KeepsOrReleases

\* A drain that is done with its row, settled or not.
LEMMA NextRowFacts ==
    ASSUME Inv, NEW p \in Drainers, drain[p].pc \in Working, NextRow(p) \/ NextRowAfterFailure(p)
    PROVE  /\ drain' \in [Drainers -> DrainRecord] /\ \A q \in Drainers : KeepsOrReleases(q)
           /\ drain'[p].pc = "dequeue" /\ drain'[p].row = NoRow
           /\ \A q \in Drainers : q # p => drain'[q] = drain[q]
  <1>1. drain[p].row \in Rows
    BY HeldRow
  <1>2. CASE NextRow(p)
    BY <1>2 DEF Inv, Typed, HoldsWhileWorking, NextRow, DrainRecord, KeepsOrReleases, Working
  <1>3. CASE NextRowAfterFailure(p)
    BY <1>1, <1>3 DEF Inv, Typed, HoldsWhileWorking, NextRowAfterFailure, DrainRecord,
       KeepsOrReleases, Working
  <1> QED
    BY <1>2, <1>3

\* A drain that stands still.
LEMMA SameDrain ==
    ASSUME Inv, UNCHANGED drain
    PROVE  drain' \in [Drainers -> DrainRecord] /\ \A q \in Drainers : KeepsOrReleases(q)
  BY DEF Inv, Typed, HoldsWhileWorking, KeepsOrReleases

\* A step of the world outside the drains keeps the invariant.
LEMMA QuietStep ==
    ASSUME Inv, UNCHANGED <<attempts, failures, settling, last, status>>,
           drain' \in [Drainers -> DrainRecord], \A p \in Drainers : KeepsOrReleases(p)
    PROVE  Inv'
  <1>1. last' \in 0 .. MaxRows /\ status' \in [Rows -> Statuses] /\ settling' \in [Rows -> Nat]
    BY DEF Inv, Typed
  <1> QED
    BY <1>1, OutsideStep

\* Enqueues keep the invariant.
LEMMA EnqueueKeepsInv ==
    ASSUME Inv, NEW m, NEW k, NEW u, EnqueueA2A(m, k, u), UNCHANGED <<attempts, failures, settling>>,
           drain' \in [Drainers -> DrainRecord], \A p \in Drainers : KeepsOrReleases(p)
    PROVE  Inv'
  <1>1. settling' \in [Rows -> Nat]
    BY DEF Inv, Typed
  <1> QED
    BY <1>1, EnqueueFacts, OutsideStep

\* Cleanups drop queued rows, nothing else.
LEMMA CleanupKeepsInv ==
    ASSUME Inv, NEW D \in SUBSET Rows, \A r \in D : status[r] = "queued",
           status' = [r \in Rows |-> IF r \in D THEN "dropped" ELSE status[r]],
           UNCHANGED <<attempts, failures, settling, last, drain>>
    PROVE  Inv'
  <1>1. last' \in 0 .. MaxRows /\ status' \in [Rows -> Statuses] /\ settling' \in [Rows -> Nat]
    BY DEF Inv, Typed, Statuses
  <1>2. drain' \in [Drainers -> DrainRecord] /\ \A q \in Drainers : KeepsOrReleases(q)
    BY SameDrain
  <1>3. \A r \in Rows : \/ status'[r] = status[r] /\ (r = last + 1 => last' = last)
                        \/ status[r] = "queued" /\ status'[r] = "dropped"
    OBVIOUS
  <1> QED
    BY <1>1, <1>2, <1>3, OutsideStep

\* The three ways a claimed row is settled by its holder.
LEMMA CompletedKeepsInv ==
    ASSUME Inv, NEW p \in Drainers, MarkQueueItemCompleted(p)
    PROVE  Inv'
  <1>1. drain[p].pc \in Working /\ NextRow(p) /\ UNCHANGED <<attempts, failures, settling, last>>
        /\ status' = [status EXCEPT ![drain[p].row] = "completed"]
    BY DEF MarkQueueItemCompleted, Working, SetRow, rowIds, rowTimes
  <1>2. PICK r \in Rows : r = drain[p].row
    BY <1>1, HeldRow
  <1>3. settling' \in [Rows -> Nat]
    BY <1>1 DEF Inv, Typed
  <1> QED
    BY <1>1, <1>2, <1>3, NextRowFacts, SettleKeepsInv

LEMMA FailedKeepsInv ==
    ASSUME Inv, NEW p \in Drainers, drain[p].pc \in Working, MarkFailed(drain[p].row),
           NextRowAfterFailure(p), UNCHANGED last
    PROVE  Inv'
  <1>1. PICK r \in Rows : r = drain[p].row
    BY HeldRow
  <1>2. /\ status' = [status EXCEPT ![r] = IF attempts[r] >= MaxAttempts THEN "failed" ELSE "queued"]
        /\ failures' = [failures EXCEPT ![r] = failures[r] + 1]
        /\ UNCHANGED <<attempts, settling>>
    BY <1>1 DEF MarkFailed, SetRow, rowTimes
  <1>3. PICK s \in {"failed", "queued"} : s = IF attempts[r] >= MaxAttempts THEN "failed" ELSE "queued"
    OBVIOUS
  <1>4. settling' \in [Rows -> Nat]
    BY <1>2 DEF Inv, Typed
  <1>5. status' = [status EXCEPT ![r] = s]
    BY <1>2, <1>3
  <1> QED
    BY <1>1, <1>2, <1>3, <1>4, <1>5, NextRowFacts, SettleKeepsInv

LEMMA SettledKeepsInv ==
    ASSUME Inv, NEW p \in Drainers, drain[p].pc \in Working, SettleOrDrop(p), NextRow(p),
           UNCHANGED last
    PROVE  Inv'
  <1>1. PICK r \in Rows : r = drain[p].row /\ status[r] = "dispatched"
    BY HeldRow
  <1>2. CASE PastCeiling(p)
    <2>1. status' = [status EXCEPT ![r] = "dropped"] /\ UNCHANGED <<attempts, settling, failures>>
      BY <1>1, <1>2 DEF SettleOrDrop, DropTerminal, SetRow, rowTimes
    <2>2. settling' \in [Rows -> Nat]
      BY <2>1 DEF Inv, Typed
    <2> QED
      BY <1>1, <2>1, <2>2, NextRowFacts, SettleKeepsInv
  <1>3. CASE ~PastCeiling(p)
    <2>1. /\ status' = [status EXCEPT ![r] = "queued"] /\ failures' = failures
          /\ attempts' = [attempts EXCEPT ![r] = IF attempts[r] > 0 THEN attempts[r] - 1 ELSE 0]
          /\ settling' = [settling EXCEPT ![r] = IF settling[r] = Unset THEN 1 ELSE settling[r]]
      BY <1>1, <1>3 DEF SettleOrDrop, TransientRetry, SetRow
    <2>2. settling' \in [Rows -> Nat]
      BY <2>1 DEF Inv, Typed
    <2> QED
      BY <1>1, <2>1, <2>2, NextRowFacts, SettleKeepsInv
  <1> QED
    BY <1>2, <1>3

-----------------------------------------------------------------------------
\* The steps of a drain call.
LEMMA DrainKeepsInv ==
    ASSUME Inv, NEW p \in Drainers, StartDrain(p) \/ DrainStep(p) \/ FaultStep(p)
    PROVE  Inv'
  <1> USE DEF rowIds, rowTimes, history
  <1>1. CASE StartDrain(p)
    <2>0. StartedDrain \in DrainRecord /\ StartedDrain.row = NoRow /\ StartedDrain.pc \notin Working
      BY QueueAssumption DEF StartedDrain, IdleDrain, DrainRecord, Working
    <2>1. drain' \in [Drainers -> DrainRecord] /\ \A q \in Drainers : KeepsOrReleases(q)
      BY <1>1, <2>0 DEF StartDrain, Inv, Typed, HoldsWhileWorking, KeepsOrReleases
    <2> QED
      BY <1>1, <2>1, QuietStep DEF StartDrain
  <1>2. CASE \E r \in Rows : DequeueNext(p, r)
    BY <1>2, ClaimKeepsInv
  <1>3. CASE DrainEnds(p) \/ DequeueError(p)
    <2>1. drain' \in [Drainers -> DrainRecord] /\ \A q \in Drainers : KeepsOrReleases(q)
      <3>1. IdleDrain \in DrainRecord /\ IdleDrain.row = NoRow /\ IdleDrain.pc \notin Working
        BY DEF IdleDrain, DrainRecord, Working
      <3>2. drain' = [drain EXCEPT ![p] = IdleDrain]
        BY <1>3 DEF DrainEnds, DequeueError
      <3> QED
        BY <3>1, <3>2 DEF Inv, Typed, HoldsWhileWorking, KeepsOrReleases
    <2> QED
      BY <1>3, <2>1, QuietStep DEF DrainEnds, DequeueError
  <1>4. CASE ResolveOnce(p)
    <2>1. drain' \in [Drainers -> DrainRecord] /\ \A q \in Drainers : KeepsOrReleases(q)
      BY <1>4 DEF ResolveOnce, Inv, Typed, HoldsWhileWorking, DrainRecord, KeepsOrReleases, Working
    <2> QED
      BY <1>4, <2>1, QuietStep DEF ResolveOnce
  <1>5. CASE ProxyDelivers(p) \/ ProxyFails(p)
    <2>1. drain[p].pc \in Working /\ \E pc \in Working : Returns(p, pc)
      BY <1>5 DEF ProxyDelivers, ProxyFails, Dispatching, Working
    <2>2. UNCHANGED <<attempts, failures, settling, last, status>>
      BY <1>5 DEF ProxyDelivers, ProxyFails
    <2> QED
      BY <2>1, <2>2, ReturnsFacts, QuietStep
  <1>6. CASE ProxyRequeues(p) \/ ProxyDefers(p)
    <2>1. drain[p].pc \in Working /\ \E pc \in Working : Returns(p, pc)
      BY <1>6 DEF ProxyRequeues, ProxyDefers, Dispatching, Working
    <2>2. UNCHANGED <<attempts, failures, settling>>
      BY <1>6 DEF ProxyRequeues, ProxyDefers
    <2>3. PICK m : m = msg[drain[p].row]
      OBVIOUS
    <2>4. EnqueueA2A(m, "own", FALSE) \/ EnqueueA2A(m, "none", FALSE)
      BY <1>6, <2>3 DEF ProxyRequeues, ProxyDefers
    <2> QED
      BY <2>1, <2>2, <2>4, ReturnsFacts, EnqueueKeepsInv
  <1>7. CASE settleQueuedItemBounded(p)
    BY <1>7, SettledKeepsInv DEF settleQueuedItemBounded, Working
  <1>8. CASE MarkQueueItemCompleted(p)
    BY <1>8, CompletedKeepsInv
  <1>9. CASE MarkQueueItemFailed(p)
    BY <1>9, FailedKeepsInv DEF MarkQueueItemFailed, Working
  <1>10. CASE \E heartbeat \in BOOLEAN : GatewayFailure(p, heartbeat)
    BY <1>10, SettledKeepsInv, FailedKeepsInv DEF GatewayFailure, Working
  <1>11. CASE MarkError(p)
    <2>1. drain[p].pc \in Working /\ NextRow(p) /\ UNCHANGED <<attempts, failures, settling, last, status>>
      BY <1>11 DEF MarkError, Working
    <2> QED
      BY <2>1, NextRowFacts, QuietStep
  <1> QED
    BY <1>1, <1>2, <1>3, <1>4, <1>5, <1>6, <1>7, <1>8, <1>9, <1>10, <1>11
    DEF DrainStep, ClaimStep, ProxyStep, MarkStep, FaultStep

\* Every step keeps the invariant.
LEMMA NextInv == Inv /\ [Next]_vars => Inv'
  <1> SUFFICES ASSUME Inv, [Next]_vars PROVE Inv'
    OBVIOUS
  <1> USE DEF rowIds, rowTimes, history
  <1>1. ASSUME NEW m \in Messages, Accept(m) PROVE Inv'
    <2>1. PICK k : EnqueueA2A(m, k, FALSE)
      BY <1>1 DEF Accept
    <2> QED
      BY <1>1, <2>1, SameDrain, EnqueueKeepsInv DEF Accept
  <1>2. ASSUME NEW m \in Snapshots, SnapshotStep(m) PROVE Inv'
    <2>1. CASE dropQueuedRestartContext(m)
      <3>1. PICK D \in SUBSET Rows : D = {r \in Rows : status[r] = "queued" /\ msg[r] \in Snapshots}
        OBVIOUS
      <3> QED
        BY <2>1, <3>1, CleanupKeepsInv DEF dropQueuedRestartContext
    <2>2. CASE restartContextBeingDelivered(m)
      BY <2>2, SameDrain, QuietStep DEF restartContextBeingDelivered
    <2>3. CASE enqueueRestartContext(m)
      BY <2>3, SameDrain, EnqueueKeepsInv DEF enqueueRestartContext
    <2> QED
      BY <1>2, <2>1, <2>2, <2>3 DEF SnapshotStep
  <1>3. ASSUME NEW p \in Drainers, StartDrain(p) \/ DrainStep(p) \/ FaultStep(p) PROVE Inv'
    BY <1>3, DrainKeepsInv
  <1>4. ASSUME NEW oldest \in Rows, DropStaleQueueItems(oldest) PROVE Inv'
    <2>1. PICK D \in SUBSET Rows : D = {r \in Rows : r <= oldest /\ status[r] = "queued"}
      OBVIOUS
    <2> QED
      BY <1>4, <2>1, CleanupKeepsInv DEF DropStaleQueueItems
  <1>5. CASE Tick
    <2>1. settling' \in [Rows -> Nat] /\ last' \in 0 .. MaxRows /\ status' \in [Rows -> Statuses]
      BY <1>5 DEF Tick, Inv, Typed
    <2>2. UNCHANGED <<attempts, failures, status, last, drain>>
      BY <1>5 DEF Tick
    <2>3. \A r \in Rows : status'[r] = status[r] /\ last' = last
      BY <2>2
    <2> QED
      BY <2>1, <2>2, <2>3, SameDrain, OutsideStep
  <1>6. CASE (\E r \in Rows : Expire(r)) \/ BootTurn \/ WorkspaceFlaps
    <2>1. UNCHANGED <<attempts, failures, settling, last, status, drain>>
      BY <1>6 DEF Expire, BootTurn, WorkspaceFlaps
    <2> QED
      BY <2>1, SameDrain, QuietStep
  <1>7. CASE ServerRestart
    <2>1. drain' \in [Drainers -> DrainRecord] /\ \A q \in Drainers : KeepsOrReleases(q)
      BY <1>7 DEF ServerRestart, IdleDrain, DrainRecord, KeepsOrReleases, Working
    <2> QED
      BY <1>7, <2>1, QuietStep DEF ServerRestart
  <1>8. CASE UNCHANGED vars
    BY <1>8, SameDrain, QuietStep DEF vars
  <1> QED
    BY <1>1, <1>2, <1>3, <1>4, <1>5, <1>6, <1>7, <1>8 DEF Next, sweepA2AQueue

\* The invariant holds in every reachable state.
LEMMA AlwaysInv == Spec => []Inv
  BY InitInv, NextInv, PTL DEF Spec

\* No row is ever in two drain calls' hands, whatever is interleaved with
\* them: DequeueNext is a mutual exclusion.
THEOREM OneDrainPerRow == Spec => []ClaimIsExclusive
  <1>1. Inv => ClaimIsExclusive
    BY DEF Inv
  <1> QED
    BY <1>1, AlwaysInv, PTL

\* The attempts counter counts failures and nothing else, for any cap: no
\* interleaving of drains lets a blip burn an attempt or a row outlive the cap
\* (MarkQueueItemFailed, MarkQueueItemTransientRetry).
THEOREM AttemptsAreFailures == Spec => []AttemptsCountFailures
  <1>1. Inv => AttemptsCountFailures
    BY DEF Inv
  <1> QED
    BY <1>1, AlwaysInv, PTL

-----------------------------------------------------------------------------
\* Only a holder past the ceiling drops a claimed row; enqueues and cleanups
\* drop queued rows.
LEMMA DropNeedsCeiling ==
    ASSUME Inv, [Next]_vars, NEW r \in Rows, status[r] = "dispatched", status'[r] = "dropped"
    PROVE  settling[r] > Ceiling
  <1> USE DEF rowIds, rowTimes, history, SetRow, Inv, Typed
  <1>1. status[r] # "queued"
    OBVIOUS
  <1>2. ASSUME NEW m, NEW k, NEW u, EnqueueA2A(m, k, u) PROVE FALSE
    <2>1. \/ status'[r] = status[r] /\ (r = last + 1 => last' = last)
          \/ status[r] = "queued" /\ status'[r] = "dropped"
          \/ r = last + 1 /\ last' = last + 1 /\ status'[r] = "queued"
      BY <1>2, EnqueueFacts
    <2> QED
      BY <2>1
  <1>3. ASSUME NEW p \in Drainers, drain[p].pc \in Working, SettleOrDrop(p)
        PROVE  settling[r] > Ceiling
    <2>1. PICK h \in Rows : h = drain[p].row /\ status[h] = "dispatched"
      BY <1>3, HeldRow
    <2>2. CASE PastCeiling(p)
      BY <1>3, <2>1, <2>2 DEF SettleOrDrop, DropTerminal, PastCeiling
    <2>3. CASE ~PastCeiling(p)
      BY <1>3, <2>1, <2>3 DEF SettleOrDrop, TransientRetry
    <2> QED
      BY <2>2, <2>3
  <1>4. ASSUME NEW p \in Drainers, drain[p].pc \in Working, MarkFailed(drain[p].row)
        PROVE  FALSE
    BY <1>4, HeldRow DEF MarkFailed
  <1>5. ASSUME NEW p \in Drainers, StartDrain(p) \/ DrainStep(p) \/ FaultStep(p)
        PROVE  settling[r] > Ceiling
    <2>1. CASE StartDrain(p) \/ DrainEnds(p) \/ DequeueError(p) \/ ResolveOnce(p)
               \/ ProxyDelivers(p) \/ ProxyFails(p) \/ MarkError(p)
      BY <2>1 DEF StartDrain, DrainEnds, DequeueError, ResolveOnce, ProxyDelivers, ProxyFails, MarkError
    <2>2. CASE \E q \in Rows : DequeueNext(p, q)
      BY <2>2 DEF DequeueNext
    <2>3. CASE ProxyRequeues(p)
      BY <1>2, <2>3 DEF ProxyRequeues
    <2>4. CASE ProxyDefers(p)
      BY <1>2, <2>4 DEF ProxyDefers
    <2>5. CASE settleQueuedItemBounded(p)
      BY <1>3, <2>5 DEF settleQueuedItemBounded, Working
    <2>6. CASE MarkQueueItemCompleted(p)
      BY <2>6 DEF MarkQueueItemCompleted
    <2>7. CASE MarkQueueItemFailed(p)
      BY <1>4, <2>7 DEF MarkQueueItemFailed, Working
    <2>8. CASE \E heartbeat \in BOOLEAN : GatewayFailure(p, heartbeat)
      BY <1>3, <1>4, <2>8 DEF GatewayFailure, Working
    <2> QED
      BY <1>5, <2>1, <2>2, <2>3, <2>4, <2>5, <2>6, <2>7, <2>8
      DEF DrainStep, ClaimStep, ProxyStep, MarkStep, FaultStep
  <1>6. ASSUME NEW m \in Messages, Accept(m) PROVE FALSE
    BY <1>2, <1>6 DEF Accept
  <1>7. ASSUME NEW m \in Snapshots, SnapshotStep(m) PROVE FALSE
    <2>1. ~enqueueRestartContext(m)
      BY <1>2 DEF enqueueRestartContext
    <2> QED
      BY <1>7, <2>1 DEF SnapshotStep, dropQueuedRestartContext, restartContextBeingDelivered
  <1>8. CASE (\E oldest \in Rows : DropStaleQueueItems(oldest)) \/ Tick \/ (\E q \in Rows : Expire(q))
             \/ BootTurn \/ WorkspaceFlaps \/ ServerRestart \/ UNCHANGED vars
    BY <1>8 DEF DropStaleQueueItems, Tick, Expire, BootTurn, WorkspaceFlaps, ServerRestart, vars
  <1> QED
    BY <1>5, <1>6, <1>7, <1>8 DEF Next, sweepA2AQueue

\* A claimed row is dropped only a whole ceiling after its first settling
\* stamp, for any ceiling and backoff (settleQueuedItemBounded).
THEOREM DropWaitsForCeiling == Spec => DropsOnlyPastCeiling
  <1>1. Inv /\ [Next]_vars =>
          [\A r \in Rows : status[r] = "dispatched" /\ status'[r] = "dropped"
              => settling[r] > Ceiling]_vars
    BY DropNeedsCeiling
  <1> QED
    BY <1>1, AlwaysInv, PTL DEF Spec, DropsOnlyPastCeiling

-----------------------------------------------------------------------------
\* The columns the unique index looks at.
KeysInv ==
    /\ msg \in [Rows -> Messages \cup {NoMessage}]
    /\ key \in [Rows -> {"none", "own", "restart"}]
    /\ OneActivePerKey

\* A step that inserts nothing revives no row.
LEMMA NoRowRevived ==
    ASSUME KeysInv, UNCHANGED <<msg, key>>,
           \A r \in Rows : status'[r] \in Active => status[r] \in Active
    PROVE  KeysInv'
  BY DEF KeysInv, OneActivePerKey, SameKey

\* An insert happens only when no active row has the key.
LEMMA EnqueueKeepsKeys ==
    ASSUME Inv, KeysInv, NEW m \in Messages \cup {NoMessage}, NEW k \in {"none", "own", "restart"},
           NEW u, EnqueueA2A(m, k, u)
    PROVE  KeysInv'
  <1> USE QueueAssumption
  <1>1. CASE Conflict(m, k)
    BY <1>1, NoRowRevived DEF EnqueueA2A, Active
  <1>2. CASE ~Conflict(m, k)
    <2>1. PICK n \in Rows : n = last + 1
      BY <1>2 DEF EnqueueA2A, Inv, Typed, Rows
    <2>2. /\ msg' = [msg EXCEPT ![n] = m] /\ key' = [key EXCEPT ![n] = k]
          /\ \A r \in Rows : r # n => status'[r] = IF r \in Superseded(m, k) THEN "dropped" ELSE status[r]
      BY <1>2, <2>1 DEF EnqueueA2A
    <2>3. /\ \A r \in Rows : r # n => msg'[r] = msg[r] /\ key'[r] = key[r]
          /\ msg'[n] = m /\ key'[n] = k
          /\ msg' \in [Rows -> Messages \cup {NoMessage}]
          /\ key' \in [Rows -> {"none", "own", "restart"}]
      BY <2>2 DEF KeysInv
    <2>4. \A r \in Rows : r # n /\ status'[r] \in Active =>
             r \notin Superseded(m, k) /\ status[r] \in Active
      BY <2>2 DEF Active
    <2>5. \A r \in Rows : r # n /\ status'[r] \in Active => ~SameKey(r, m, k)
      BY <1>2, <2>4 DEF Conflict
    <2>6. OneActivePerKey'
      BY <2>3, <2>4, <2>5 DEF KeysInv, OneActivePerKey, SameKey
    <2> QED
      BY <2>3, <2>6 DEF KeysInv
  <1> QED
    BY <1>1, <1>2

\* No drain step but a re-queue inserts a row.
LEMMA DrainKeepsKeys ==
    ASSUME Inv, KeysInv, NEW p \in Drainers, StartDrain(p) \/ DrainStep(p) \/ FaultStep(p)
    PROVE  KeysInv'
  <1> USE DEF rowIds, rowTimes, history, SetRow
  <1>1. CASE StartDrain(p) \/ DrainEnds(p) \/ DequeueError(p) \/ ResolveOnce(p)
             \/ ProxyDelivers(p) \/ ProxyFails(p) \/ MarkError(p)
    BY <1>1, NoRowRevived
    DEF StartDrain, DrainEnds, DequeueError, ResolveOnce, ProxyDelivers, ProxyFails, MarkError
  <1>2. CASE \E q \in Rows : DequeueNext(p, q)
    BY <1>2, NoRowRevived DEF DequeueNext, Eligible, Inv, Typed, Active
  <1>3. CASE ProxyRequeues(p) \/ ProxyDefers(p)
    <2>1. drain[p].row \in Rows
      BY <1>3, HeldRow DEF ProxyRequeues, ProxyDefers, Dispatching, Working
    <2>2. PICK m \in Messages \cup {NoMessage} : m = msg[drain[p].row]
      BY <2>1 DEF KeysInv
    <2> QED
      BY <1>3, <2>2, EnqueueKeepsKeys DEF ProxyRequeues, ProxyDefers
  <1>4. ASSUME drain[p].pc \in Working, NEW s, UNCHANGED <<msg, key>>,
               status' = [status EXCEPT ![drain[p].row] = s] \/ UNCHANGED status
        PROVE  KeysInv'
    <2>1. drain[p].row \in Rows /\ status[drain[p].row] \in Active
      BY <1>4, HeldRow DEF Active
    <2> QED
      BY <1>4, <2>1, NoRowRevived DEF Inv, Typed
  <1>5. ASSUME MarkFailed(drain[p].row) \/ SettleOrDrop(p)
        PROVE  \E s : status' = [status EXCEPT ![drain[p].row] = s] \/ UNCHANGED status
    BY <1>5 DEF MarkFailed, SettleOrDrop, DropTerminal, TransientRetry
  <1>6. CASE settleQueuedItemBounded(p)
    BY <1>4, <1>5, <1>6 DEF settleQueuedItemBounded, Working
  <1>7. CASE MarkQueueItemCompleted(p)
    BY <1>4, <1>7 DEF MarkQueueItemCompleted, Working
  <1>8. CASE MarkQueueItemFailed(p)
    BY <1>4, <1>5, <1>8 DEF MarkQueueItemFailed, Working
  <1>9. CASE \E heartbeat \in BOOLEAN : GatewayFailure(p, heartbeat)
    BY <1>4, <1>5, <1>9 DEF GatewayFailure, Working
  <1> QED
    BY <1>1, <1>2, <1>3, <1>6, <1>7, <1>8, <1>9
    DEF DrainStep, ClaimStep, ProxyStep, MarkStep, FaultStep

\* Every step keeps the keys unique.
LEMMA NextKeys == Inv /\ KeysInv /\ [Next]_vars => KeysInv'
  <1> SUFFICES ASSUME Inv, KeysInv, [Next]_vars PROVE KeysInv'
    OBVIOUS
  <1> USE DEF rowIds, rowTimes, history
  <1>1. ASSUME NEW m \in Messages, Accept(m) PROVE KeysInv'
    <2>1. EnqueueA2A(m, "none", FALSE) \/ EnqueueA2A(m, "own", FALSE)
      BY <1>1 DEF Accept
    <2> QED
      BY <2>1, EnqueueKeepsKeys
  <1>2. ASSUME NEW m \in Snapshots, SnapshotStep(m) PROVE KeysInv'
    <2>1. CASE dropQueuedRestartContext(m) \/ restartContextBeingDelivered(m)
      BY <2>1, NoRowRevived DEF dropQueuedRestartContext, restartContextBeingDelivered, Active
    <2>2. CASE enqueueRestartContext(m)
      BY <2>2, QueueAssumption, EnqueueKeepsKeys DEF enqueueRestartContext
    <2> QED
      BY <1>2, <2>1, <2>2 DEF SnapshotStep
  <1>3. ASSUME NEW p \in Drainers, StartDrain(p) \/ DrainStep(p) \/ FaultStep(p) PROVE KeysInv'
    BY <1>3, DrainKeepsKeys
  <1>4. CASE \E oldest \in Rows : DropStaleQueueItems(oldest)
    BY <1>4, NoRowRevived DEF DropStaleQueueItems, Active
  <1>5. CASE Tick \/ (\E r \in Rows : Expire(r)) \/ BootTurn \/ WorkspaceFlaps \/ ServerRestart \/ UNCHANGED vars
    BY <1>5, NoRowRevived DEF Tick, Expire, BootTurn, WorkspaceFlaps, ServerRestart, vars
  <1> QED
    BY <1>1, <1>2, <1>3, <1>4, <1>5 DEF Next, sweepA2AQueue

\* One message is active at most once under its id, and one snapshot under
\* the restart key, however many callers and drains enqueue (EnqueueA2A).
THEOREM KeyIsUnique == Spec => []OneActivePerKey
  <1>1. Init => KeysInv
    BY DEF Init, KeysInv, OneActivePerKey, Active
  <1>2. KeysInv => OneActivePerKey
    BY DEF KeysInv
  <1> QED
    BY <1>1, <1>2, NextKeys, AlwaysInv, PTL DEF Spec

-----------------------------------------------------------------------------
(***************************************************************************)
(* Nothing is lost.                                                        *)
(***************************************************************************)
\* A `dispatched` row is somebody's, unless a statement failed or the server
\* was restarted.
HeldUnlessFault ==
    /\ faults \in Nat /\ restarts \in Nat
    /\ \A r \in Rows : status[r] = "dispatched" =>
          (\E p \in Drainers : Holds(p, r)) \/ faults + restarts > 0

\* The drain's next statement completes its row.
Closing(p) == drain[p].pc \in {"answered", "acked", "requeued"}

\* A row keeps a message: it is not completed, nor about to be.
Keeps(r, m) ==
    /\ msg[r] = m /\ status[r] # "completed"
    /\ \A p \in Drainers : Holds(p, r) => ~Closing(p)

Kept(m) == \E r \in Rows : Keeps(r, m)
Known(m) == m \in accepted \/ \E r \in Rows : msg[r] = m

\* Every message that was accepted, or ever had a row, is delivered, swallowed,
\* or kept by some row.
KeptInv ==
    /\ accepted \subseteq Messages \ Snapshots
    /\ \A r \in Rows : IF r > last THEN msg[r] = NoMessage ELSE msg[r] \in Messages
    /\ \A m \in Messages : Known(m) => m \in delivered \cup swallowed \/ Kept(m)

LEMMA NoneOfTwo ==
    ASSUME NEW a \in Nat, NEW b \in Nat, ~(a + b > 0)
    PROVE  a = 0 /\ b = 0
  OBVIOUS

\* A step with a fault or a restart owes nothing, and one that releases no row
\* but the one it settles keeps every claimed row in hand.
LEMMA StepKeepsHeld ==
    ASSUME HeldUnlessFault, faults' \in Nat, restarts' \in Nat,
           faults' >= faults, restarts' >= restarts,
           \/ faults' + restarts' > 0
           \/ \A r \in Rows : status'[r] = "dispatched" =>
                \/ \E p \in Drainers : Holds(p, r)'
                \/ status[r] = "dispatched" /\ \A p \in Drainers : Holds(p, r) => Holds(p, r)'
    PROVE  HeldUnlessFault'
  <1>1. ASSUME NEW r \in Rows, status'[r] = "dispatched", ~(faults' + restarts' > 0)
        PROVE  \E p \in Drainers : Holds(p, r)'
    <2>0. faults \in Nat /\ restarts \in Nat
      BY DEF HeldUnlessFault
    <2>1. faults' = 0 /\ restarts' = 0
      BY <1>1, NoneOfTwo
    <2>2. faults = 0 /\ restarts = 0
      BY <2>0, <2>1
    <2>3. ~(faults + restarts > 0)
      BY <2>2
    <2> QED
      BY <1>1, <2>3 DEF HeldUnlessFault
  <1> QED
    BY <1>1 DEF HeldUnlessFault

\* What it takes for a message to stay kept.
LEMMA StaysKept ==
    ASSUME NEW m, Kept(m),
           \A r \in Rows : msg[r] = m =>
             /\ msg'[r] = m
             /\ status'[r] = "completed" =>
                  status[r] = "completed" \/ \E p \in Drainers : Holds(p, r) /\ Closing(p)
             /\ \A p \in Drainers : Holds(p, r)' /\ Closing(p)' => Holds(p, r) /\ Closing(p)
    PROVE  Kept(m)'
  <1>1. PICK r \in Rows : Keeps(r, m)
    BY DEF Kept
  <1>2. Keeps(r, m)'
    BY <1>1 DEF Keeps
  <1> QED
    BY <1>2 DEF Kept

\* A step that gives no message a row and moves none into a closing drain's
\* hands, but for messages delivered or swallowed in it.
LEMMA NoMessageForgotten ==
    ASSUME KeptInv, UNCHANGED <<last, msg, accepted>>,
           delivered \subseteq delivered', swallowed \subseteq swallowed',
           \A r \in Rows : status'[r] = "completed" =>
               status[r] = "completed" \/ \E p \in Drainers : Holds(p, r) /\ Closing(p),
           \A r \in Rows, p \in Drainers : Holds(p, r)' /\ Closing(p)' =>
               (Holds(p, r) /\ Closing(p)) \/ msg[r] \in delivered' \cup swallowed'
    PROVE  KeptInv'
  <1>1. ASSUME NEW m \in Messages, Known(m)', m \notin (delivered \cup swallowed)'
        PROVE  Kept(m)'
    <2>1. Known(m) /\ m \notin delivered \cup swallowed
      BY <1>1 DEF Known
    <2>2. Kept(m)
      BY <2>1 DEF KeptInv
    <2> QED
      BY <1>1, <2>2, StaysKept
  <1>2. /\ accepted' \subseteq Messages \ Snapshots
        /\ \A r \in Rows : IF r > last' THEN msg'[r] = NoMessage ELSE msg'[r] \in Messages
    BY DEF KeptInv
  <1> QED
    BY <1>1, <1>2 DEF KeptInv

\* An enqueue on behalf of m: every other message stays kept, and m is, unless
\* the enqueue met an active row of m's own in a closing drain's hands.
LEMMA EnqueueKeepsKept ==
    ASSUME Inv, KeysInv, KeptInv, NEW m \in Messages, NEW k \in {"none", "own", "restart"},
           NEW u, EnqueueA2A(m, k, u), accepted' \subseteq accepted \cup {m},
           accepted' \subseteq Messages \ Snapshots,
           UNCHANGED delivered, swallowed \subseteq swallowed',
           \A q \in Drainers : drain'[q].row = drain[q].row,
           \A r \in Rows, q \in Drainers : Holds(q, r) /\ Closing(q)' => Closing(q) \/ msg[r] = m,
           \/ ~Conflict(m, k)
           \/ m \in swallowed'
           \/ k = "own" /\ \A q \in Drainers : Closing(q)' => Closing(q)
           \/ m \notin accepted' /\ \A q \in Drainers : Closing(q)' => Closing(q)
    PROVE  KeptInv'
  <1> USE QueueAssumption
  <1>1. last \in 0 .. MaxRows /\ MaxRows \in Nat
    BY DEF Inv, Typed
  <1>2. /\ last' = last \/ last' = last + 1
        /\ \A r \in Rows : status'[r] = "completed" => status[r] = "completed"
        /\ \A r \in Rows : r <= last => msg'[r] = msg[r]
        /\ \A r \in Rows : r > last' => msg'[r] = msg[r]
    <2>1. \A r \in Rows : status'[r] = "completed" => status[r] = "completed"
      BY EnqueueFacts
    <2>2. CASE Conflict(m, k)
      BY <2>1, <2>2 DEF EnqueueA2A
    <2>3. CASE ~Conflict(m, k)
      <3>1. last' = last + 1 /\ msg' = [msg EXCEPT ![last + 1] = m]
        BY <2>3 DEF EnqueueA2A
      <3> QED
        BY <1>1, <2>1, <3>1 DEF KeysInv, Rows
    <2> QED
      BY <2>2, <2>3
  <1>3. \A r \in Rows : IF r > last' THEN msg'[r] = NoMessage ELSE msg'[r] \in Messages
    <2>1. CASE Conflict(m, k)
      BY <2>1 DEF EnqueueA2A, KeptInv
    <2>2. CASE ~Conflict(m, k)
      <3>1. last' = last + 1 /\ msg' = [msg EXCEPT ![last + 1] = m]
        BY <2>2 DEF EnqueueA2A
      <3> QED
        BY <1>1, <3>1 DEF KeptInv, KeysInv, Rows
    <2> QED
      BY <2>1, <2>2
  <1>4. \A r \in Rows : msg[r] \in Messages => msg'[r] = msg[r]
    BY <1>1, <1>2 DEF KeptInv, Rows
  <1>5. CASE Conflict(m, k)
    <2>1. \A r \in Rows : msg'[r] = msg[r]
      BY <1>5 DEF EnqueueA2A
    <2>2. ASSUME NEW n \in Messages, Known(n)', n \notin (delivered \cup swallowed)'
          PROVE  Kept(n)'
      <3>1. Known(n)
        <4>1. CASE n # m
          BY <2>1, <2>2, <4>1 DEF Known
        <4>2. CASE n = m /\ k = "own"
          BY <1>5, <4>2 DEF Conflict, SameKey, Known
        <4>3. CASE n = m /\ m \notin accepted'
          BY <2>1, <2>2, <4>3 DEF Known
        <4> QED
          BY <1>5, <2>2, <4>1, <4>2, <4>3
      <3>2. Kept(n)
        BY <2>2, <3>1 DEF KeptInv
      <3>3. \A r \in Rows, q \in Drainers : msg[r] = n /\ Holds(q, r)' /\ Closing(q)' =>
               Holds(q, r) /\ Closing(q)
        BY <1>5, <2>2 DEF Holds
      <3> QED
        BY <1>2, <2>1, <3>2, <3>3, StaysKept
    <2> QED
      BY <1>3, <2>2 DEF KeptInv
  <1>6. CASE ~Conflict(m, k)
    <2>1. PICK n \in Rows : n = last + 1
      BY <1>1, <1>6 DEF EnqueueA2A, Rows
    <2>2. msg'[n] = m /\ status'[n] = "queued" /\ \A q \in Drainers : ~Holds(q, n)'
      <3>1. status[n] = "absent"
        BY <1>1, <2>1 DEF Inv, InsertedInOrder
      <3>2. n \notin Superseded(m, k)
        BY <3>1 DEF Superseded
      <3>3. msg'[n] = m /\ status'[n] = "queued"
        BY <1>6, <2>1, <3>2 DEF EnqueueA2A, KeysInv
      <3>4. \A q \in Drainers : drain[q].row # n
        BY <3>1 DEF Inv, ClaimIsExclusive, Rows, NoRow
      <3> QED
        BY <3>3, <3>4 DEF Holds
    <2>3. Kept(m)'
      BY <2>2 DEF Kept, Keeps
    <2>4. ASSUME NEW o \in Messages, o # m, Known(o)', o \notin (delivered \cup swallowed)'
          PROVE  Kept(o)'
      <3>1. \A r \in Rows : r # n => msg'[r] = msg[r]
        BY <1>6, <2>1 DEF EnqueueA2A, KeysInv
      <3>2. Known(o)
        BY <2>2, <2>4, <3>1 DEF Known
      <3>3. Kept(o)
        BY <2>4, <3>2 DEF KeptInv
      <3>4. \A r \in Rows, q \in Drainers : msg[r] = o /\ Holds(q, r)' /\ Closing(q)' =>
               Holds(q, r) /\ Closing(q)
        BY <2>4 DEF Holds
      <3> QED
        BY <1>2, <1>4, <3>3, <3>4, StaysKept
    <2> QED
      BY <1>3, <2>3, <2>4 DEF KeptInv
  <1> QED
    BY <1>5, <1>6

-----------------------------------------------------------------------------
\* No branch of the drain lets a claimed row go without settling it, but for a
\* failed statement.
LEMMA DrainKeepsHeld ==
    ASSUME Inv, HeldUnlessFault, NEW p \in Drainers, StartDrain(p) \/ DrainStep(p) \/ FaultStep(p)
    PROVE  HeldUnlessFault'
  <1> USE QueueAssumption DEF rowIds, rowTimes, history, SetRow
  <1>0. faults \in Nat /\ restarts \in Nat /\ drain \in [Drainers -> DrainRecord]
    BY DEF HeldUnlessFault, Inv, Typed
  <1>1. CASE DequeueError(p) \/ MarkError(p)
    <2>1. faults' = faults + 1 /\ restarts' = restarts
      BY <1>1 DEF DequeueError, MarkError
    <2> QED
      BY <1>0, <2>1, StepKeepsHeld
  <1>2. ASSUME drain[p].row = NoRow, UNCHANGED <<status, faults, restarts>>,
               NEW d, drain' = [drain EXCEPT ![p] = d]
        PROVE  HeldUnlessFault'
    <2>1. \A r \in Rows, q \in Drainers : Holds(q, r) => Holds(q, r)'
      BY <1>0, <1>2 DEF Holds, Rows, NoRow
    <2> QED
      BY <1>0, <1>2, <2>1, StepKeepsHeld
  <1>3. CASE StartDrain(p) \/ DrainEnds(p)
    <2>1. drain[p].row = NoRow
      BY <1>3 DEF StartDrain, DrainEnds, Inv, HoldsWhileWorking, Working
    <2> QED
      BY <1>2, <1>3, <2>1 DEF StartDrain, DrainEnds
  <1>4. CASE \E q \in Rows : DequeueNext(p, q)
    <2>1. PICK h \in Rows : DequeueNext(p, h)
      BY <1>4
    <2>2. drain[p].row = NoRow
      BY <2>1 DEF DequeueNext, Inv, HoldsWhileWorking, Working
    <2>3. Holds(p, h)' /\ UNCHANGED <<faults, restarts>>
      BY <1>0, <2>1 DEF DequeueNext, Holds, DrainRecord
    <2>4. \A r \in Rows : r # h => status'[r] = status[r]
      BY <2>1 DEF DequeueNext, Inv, Typed
    <2>5. \A r \in Rows, q \in Drainers : Holds(q, r) => Holds(q, r)'
      BY <1>0, <2>1, <2>2 DEF DequeueNext, Holds, Rows, NoRow
    <2> QED
      BY <1>0, <2>3, <2>4, <2>5, StepKeepsHeld
  <1>5. ASSUME faults' \in {faults, faults + 1}, restarts' = restarts,
               \A r \in Rows : status'[r] = "dispatched" => status[r] = "dispatched",
               \A q \in Drainers : drain'[q].row = drain[q].row
        PROVE  HeldUnlessFault'
    <2>1. \A q \in Drainers, r \in Rows : Holds(q, r)' <=> Holds(q, r)
      BY <1>5 DEF Holds
    <2>2. /\ faults' \in Nat /\ restarts' \in Nat /\ faults' >= faults /\ restarts' >= restarts
      BY <1>0, <1>5
    <2>3. \A r \in Rows : status'[r] = "dispatched" =>
             status[r] = "dispatched" /\ \A q \in Drainers : Holds(q, r) => Holds(q, r)'
      BY <1>5, <2>1
    <2> QED
      BY <1>0, <2>2, <2>3, StepKeepsHeld
  <1>6. CASE ResolveOnce(p)
    <2>1. \A q \in Drainers : drain'[q].row = drain[q].row
      BY <1>0, <1>6 DEF ResolveOnce, DrainRecord
    <2> QED
      BY <1>5, <1>6, <2>1 DEF ResolveOnce
  <1>7. ASSUME NEW pc, Returns(p, pc) PROVE \A q \in Drainers : drain'[q].row = drain[q].row
    BY <1>0, <1>7 DEF Returns, DrainRecord
  <1>8. CASE ProxyDelivers(p) \/ ProxyFails(p)
    <2>1. \E pc : Returns(p, pc)
      BY <1>8 DEF ProxyDelivers, ProxyFails
    <2> QED
      BY <1>5, <1>7, <1>8, <2>1 DEF ProxyDelivers, ProxyFails, PassesBootGate
  <1>9. CASE ProxyRequeues(p) \/ ProxyDefers(p)
    <2>1. (\E pc : Returns(p, pc)) /\ faults' \in {faults, faults + 1} /\ restarts' = restarts
      BY <1>9 DEF ProxyRequeues, ProxyDefers, PassesBootGate
    <2>2. PICK m, k : EnqueueA2A(m, k, FALSE)
      BY <1>9 DEF ProxyRequeues, ProxyDefers
    <2>3. \A r \in Rows : status'[r] = "dispatched" => status[r] = "dispatched"
      BY <2>2, EnqueueFacts
    <2> QED
      BY <1>5, <1>7, <2>1, <2>3
  <1>10. ASSUME drain[p].pc \in Working, UNCHANGED <<faults, restarts>>,
                NextRow(p) \/ NextRowAfterFailure(p), NEW s \in Statuses \ {"dispatched"},
                status' = [status EXCEPT ![drain[p].row] = s]
         PROVE  HeldUnlessFault'
    <2>1. PICK h \in Rows : h = drain[p].row
      BY <1>10, HeldRow
    <2>2. status'[h] # "dispatched" /\ \A r \in Rows : r # h => status'[r] = status[r]
      BY <1>10, <2>1 DEF Inv, Typed
    <2>3. \A r \in Rows, q \in Drainers : r # h /\ Holds(q, r) => Holds(q, r)'
      BY <1>10, <2>1, NextRowFacts DEF Holds
    <2> QED
      BY <1>0, <1>10, <2>2, <2>3, StepKeepsHeld
  <1>11. ASSUME drain[p].pc \in Working, MarkFailed(drain[p].row) \/ SettleOrDrop(p)
         PROVE  \E s \in Statuses \ {"dispatched"} : status' = [status EXCEPT ![drain[p].row] = s]
    BY <1>11, HeldRow DEF MarkFailed, SettleOrDrop, DropTerminal, TransientRetry, Statuses
  <1>12. CASE settleQueuedItemBounded(p)
    BY <1>10, <1>11, <1>12 DEF settleQueuedItemBounded, Working
  <1>13. CASE MarkQueueItemCompleted(p)
    BY <1>10, <1>13 DEF MarkQueueItemCompleted, Working, Statuses
  <1>14. CASE MarkQueueItemFailed(p)
    BY <1>10, <1>11, <1>14 DEF MarkQueueItemFailed, Working
  <1>15. CASE \E heartbeat \in BOOLEAN : GatewayFailure(p, heartbeat)
    BY <1>10, <1>11, <1>15 DEF GatewayFailure, Working
  <1> QED
    BY <1>1, <1>3, <1>4, <1>6, <1>8, <1>9, <1>12, <1>13, <1>14, <1>15
    DEF DrainStep, ClaimStep, ProxyStep, MarkStep, FaultStep

\* Every step keeps claimed rows in hand, or counts a fault.
LEMMA NextHeld == Inv /\ HeldUnlessFault /\ [Next]_vars => HeldUnlessFault'
  <1> SUFFICES ASSUME Inv, HeldUnlessFault, [Next]_vars PROVE HeldUnlessFault'
    OBVIOUS
  <1> USE DEF rowIds, rowTimes, history
  <1>0. faults \in Nat /\ restarts \in Nat
    BY DEF HeldUnlessFault
  <1>1. ASSUME UNCHANGED <<drain, faults, restarts>>,
               \A r \in Rows : status'[r] = "dispatched" => status[r] = "dispatched"
        PROVE  HeldUnlessFault'
    BY <1>0, <1>1, StepKeepsHeld DEF Holds
  <1>2. ASSUME NEW m, NEW k, NEW u, EnqueueA2A(m, k, u)
        PROVE  \A r \in Rows : status'[r] = "dispatched" => status[r] = "dispatched"
    BY <1>2, EnqueueFacts
  <1>3. ASSUME NEW m \in Messages, Accept(m) PROVE HeldUnlessFault'
    BY <1>1, <1>2, <1>3 DEF Accept
  <1>4. ASSUME NEW m \in Snapshots, SnapshotStep(m) PROVE HeldUnlessFault'
    <2>1. CASE dropQueuedRestartContext(m) \/ restartContextBeingDelivered(m)
      BY <1>1, <2>1 DEF dropQueuedRestartContext, restartContextBeingDelivered
    <2>2. CASE enqueueRestartContext(m)
      BY <1>1, <1>2, <2>2 DEF enqueueRestartContext
    <2> QED
      BY <1>4, <2>1, <2>2 DEF SnapshotStep
  <1>5. CASE ServerRestart
    BY <1>0, <1>5, StepKeepsHeld DEF ServerRestart
  <1>6. CASE (\E oldest \in Rows : DropStaleQueueItems(oldest)) \/ Tick \/ (\E r \in Rows : Expire(r))
             \/ BootTurn \/ WorkspaceFlaps \/ UNCHANGED vars
    BY <1>1, <1>6 DEF DropStaleQueueItems, Tick, Expire, BootTurn, WorkspaceFlaps, vars
  <1> QED
    BY <1>3, <1>4, <1>5, <1>6, DrainKeepsHeld DEF Next, sweepA2AQueue

\* A drain completes a row only after the agent has the message, another row
\* of it exists, or its re-queue was swallowed.
LEMMA DrainKeepsKept ==
    ASSUME Inv, KeysInv, KeptInv, NEW p \in Drainers, StartDrain(p) \/ DrainStep(p) \/ FaultStep(p)
    PROVE  KeptInv'
  <1> USE DEF rowIds, rowTimes, history, SetRow
  <1>0. drain \in [Drainers -> DrainRecord]
    BY DEF Inv, Typed
  <1>1. ASSUME UNCHANGED <<last, msg, status, accepted, delivered, swallowed>>,
               \A r \in Rows, q \in Drainers : Holds(q, r)' /\ Closing(q)' => Holds(q, r) /\ Closing(q)
        PROVE  KeptInv'
    BY <1>1, NoMessageForgotten
  <1>2. CASE StartDrain(p) \/ DrainEnds(p) \/ DequeueError(p)
    <2>1. \A q \in Drainers : q # p => drain'[q] = drain[q]
      BY <1>0, <1>2 DEF StartDrain, DrainEnds, DequeueError
    <2>a. StartedDrain.pc = "dequeue" /\ IdleDrain.pc = "idle"
      BY DEF StartedDrain, IdleDrain
    <2>2. drain'[p].pc \in {"idle", "dequeue"}
      BY <1>0, <1>2, <2>a DEF StartDrain, DrainEnds, DequeueError
    <2> QED
      BY <1>1, <1>2, <2>1, <2>2 DEF StartDrain, DrainEnds, DequeueError, Holds, Closing
  <1>3. CASE ResolveOnce(p)
    <2>1. \A q \in Drainers : drain'[q].row = drain[q].row /\ drain'[q].pc = drain[q].pc
      BY <1>0, <1>3 DEF ResolveOnce, DrainRecord
    <2> QED
      BY <1>1, <1>3, <2>1 DEF ResolveOnce, Holds, Closing
  <1>4. CASE MarkError(p)
    <2>1. drain[p].pc \in Working /\ NextRow(p)
      BY <1>4 DEF MarkError, Working
    <2> QED
      BY <1>1, <1>4, <2>1, NextRowFacts DEF MarkError, Holds, Closing
  <1>5. CASE \E h \in Rows : DequeueNext(p, h)
    <2>1. PICK h \in Rows : DequeueNext(p, h)
      BY <1>5
    <2>2. drain'[p].pc = "claimed" /\ \A q \in Drainers : q # p => drain'[q] = drain[q]
      BY <1>0, <2>1 DEF DequeueNext, DrainRecord
    <2>3. \A r \in Rows : status'[r] = "completed" => status[r] = "completed"
      BY <2>1 DEF DequeueNext, Inv, Typed
    <2> QED
      BY <2>1, <2>2, <2>3, NoMessageForgotten DEF DequeueNext, Holds, Closing
  <1>6. ASSUME NEW pc, Returns(p, pc), Dispatching(p)
        PROVE  /\ drain[p].row \in Rows /\ msg[drain[p].row] \in Messages \cup {NoMessage}
               /\ \A q \in Drainers : drain'[q].row = drain[q].row
               /\ drain'[p].pc = pc /\ \A q \in Drainers : q # p => drain'[q] = drain[q]
    <2>1. drain[p].row \in Rows
      BY <1>6, HeldRow DEF Dispatching, Working
    <2> QED
      BY <1>0, <1>6, <2>1 DEF Returns, DrainRecord, KeysInv
  <1>7. CASE ProxyDelivers(p)
    <2>1. PICK pc : Returns(p, pc)
      BY <1>7 DEF ProxyDelivers
    <2>2. \A r \in Rows, q \in Drainers : Holds(q, r)' /\ Closing(q)' =>
               (Holds(q, r) /\ Closing(q)) \/ msg[r] \in delivered' \cup swallowed'
      BY <1>6, <1>7, <2>1 DEF ProxyDelivers, Holds, Closing
    <2> QED
      BY <1>7, <2>2, NoMessageForgotten DEF ProxyDelivers
  <1>8. CASE ProxyFails(p)
    <2>1. PICK pc \in {"failed", "gateway"} : Returns(p, pc)
      BY <1>8 DEF ProxyFails
    <2>2. \A r \in Rows, q \in Drainers : Holds(q, r)' /\ Closing(q)' => Holds(q, r) /\ Closing(q)
      BY <1>6, <1>8, <2>1 DEF ProxyFails, Holds, Closing
    <2> QED
      BY <1>1, <1>8, <2>2 DEF ProxyFails
  <1>9. CASE ProxyRequeues(p) \/ ProxyDefers(p)
    <2>1. PICK pc : Returns(p, pc) /\ Dispatching(p)
      BY <1>9 DEF ProxyRequeues, ProxyDefers
    <2>2. /\ drain[p].row \in Rows
          /\ \A q \in Drainers : drain'[q].row = drain[q].row
          /\ \A q \in Drainers : q # p => drain'[q] = drain[q]
      BY <1>6, <2>1
    <2>3. PICK m \in Messages : m = msg[drain[p].row]
      <3>1. status[drain[p].row] = "dispatched"
        BY <2>1, HeldRow DEF Dispatching, Working
      <3> QED
        BY <2>2, <3>1 DEF Inv, Typed, InsertedInOrder, KeptInv, Rows
    <2>4. \A r \in Rows, q \in Drainers : Holds(q, r) /\ Closing(q)' => Closing(q) \/ msg[r] = m
      BY <2>2, <2>3 DEF Holds, Closing
    <2>5. CASE ProxyRequeues(p)
      BY <2>2, <2>3, <2>4, <2>5, EnqueueKeepsKept DEF ProxyRequeues, KeptInv
    <2>6. CASE ProxyDefers(p)
      <3>1. ~Conflict(m, "none")
        BY DEF Conflict, SameKey
      <3> QED
        BY <2>2, <2>3, <2>4, <2>6, <3>1, EnqueueKeepsKept DEF ProxyDefers, KeptInv
    <2> QED
      BY <1>9, <2>5, <2>6
  <1>10. ASSUME drain[p].pc \in Working, UNCHANGED <<last, msg, accepted, delivered, swallowed>>,
                NextRow(p) \/ NextRowAfterFailure(p), NEW s,
                s # "completed" \/ Closing(p), status' = [status EXCEPT ![drain[p].row] = s]
         PROVE  KeptInv'
    <2>1. PICK h \in Rows : h = drain[p].row
      BY <1>10, HeldRow
    <2>2. \A r \in Rows : r # h => status'[r] = status[r]
      BY <1>10, <2>1 DEF Inv, Typed
    <2>3. status'[h] = s
      BY <1>10, <2>1 DEF Inv, Typed
    <2>4. \A r \in Rows : status'[r] = "completed" =>
             status[r] = "completed" \/ \E q \in Drainers : Holds(q, r) /\ Closing(q)
      BY <1>10, <2>1, <2>2, <2>3 DEF Holds
    <2>5. \A r \in Rows, q \in Drainers : Holds(q, r)' /\ Closing(q)' => Holds(q, r) /\ Closing(q)
      BY <1>10, NextRowFacts DEF Holds, Closing
    <2> QED
      BY <1>10, <2>4, <2>5, NoMessageForgotten
  <1>11. ASSUME drain[p].pc \in Working, MarkFailed(drain[p].row) \/ SettleOrDrop(p)
         PROVE  \E s : s # "completed" /\ status' = [status EXCEPT ![drain[p].row] = s]
    BY <1>11, HeldRow DEF MarkFailed, SettleOrDrop, DropTerminal, TransientRetry
  <1>12. CASE settleQueuedItemBounded(p)
    BY <1>10, <1>11, <1>12 DEF settleQueuedItemBounded, Working
  <1>13. CASE MarkQueueItemCompleted(p)
    BY <1>10, <1>13 DEF MarkQueueItemCompleted, Working, Closing
  <1>14. CASE MarkQueueItemFailed(p)
    BY <1>10, <1>11, <1>14 DEF MarkQueueItemFailed, Working
  <1>15. CASE \E heartbeat \in BOOLEAN : GatewayFailure(p, heartbeat)
    BY <1>10, <1>11, <1>15 DEF GatewayFailure, Working
  <1> QED
    BY <1>2, <1>3, <1>4, <1>5, <1>7, <1>8, <1>9, <1>12, <1>13, <1>14, <1>15
    DEF DrainStep, ClaimStep, ProxyStep, MarkStep, FaultStep

\* Every step keeps every message somewhere.
LEMMA NextKept == Inv /\ KeysInv /\ KeptInv /\ [Next]_vars => KeptInv'
  <1> SUFFICES ASSUME Inv, KeysInv, KeptInv, [Next]_vars PROVE KeptInv'
    OBVIOUS
  <1> USE DEF rowIds, rowTimes, history
  <1>1. ASSUME UNCHANGED <<last, msg, accepted, delivered, swallowed>>,
               UNCHANGED drain \/ (drain' = [p \in Drainers |-> IdleDrain]),
               \A r \in Rows : status'[r] = "completed" => status[r] = "completed"
        PROVE  KeptInv'
    <2>1. \A r \in Rows, q \in Drainers : Holds(q, r)' /\ Closing(q)' => Holds(q, r) /\ Closing(q)
      BY <1>1 DEF Holds, Closing, IdleDrain
    <2> QED
      BY <1>1, <2>1, NoMessageForgotten
  <1>2. ASSUME NEW m \in Messages, Accept(m) PROVE KeptInv'
    <2>1. \A r \in Rows, q \in Drainers : Holds(q, r) /\ Closing(q)' => Closing(q) \/ msg[r] = m
      BY <1>2 DEF Accept, Closing
    <2>2. /\ UNCHANGED <<drain, delivered, swallowed>> /\ accepted' \subseteq accepted \cup {m}
          /\ accepted' \subseteq Messages \ Snapshots
      BY <1>2 DEF Accept, KeptInv
    <2>3. CASE EnqueueA2A(m, "none", FALSE)
      <3>1. ~Conflict(m, "none")
        BY DEF Conflict, SameKey
      <3> QED
        BY <2>1, <2>2, <2>3, <3>1, EnqueueKeepsKept
    <2>4. CASE EnqueueA2A(m, "own", FALSE)
      BY <2>1, <2>2, <2>4, EnqueueKeepsKept DEF Closing
    <2> QED
      BY <1>2, <2>3, <2>4 DEF Accept
  <1>3. ASSUME NEW m \in Snapshots, SnapshotStep(m) PROVE KeptInv'
    <2>1. CASE dropQueuedRestartContext(m) \/ restartContextBeingDelivered(m)
      BY <1>1, <2>1 DEF dropQueuedRestartContext, restartContextBeingDelivered
    <2>2. CASE enqueueRestartContext(m)
      <3>1. m \in Messages
        BY QueueAssumption
      <3>2. UNCHANGED <<drain, delivered, swallowed, accepted>> /\ EnqueueA2A(m, "restart", TRUE)
        BY <2>2 DEF enqueueRestartContext
      <3>3. m \notin accepted'
        BY <3>2 DEF KeptInv
      <3> QED
        BY <3>1, <3>2, <3>3, EnqueueKeepsKept DEF Closing, KeptInv
    <2> QED
      BY <1>3, <2>1, <2>2 DEF SnapshotStep
  <1>4. ASSUME NEW p \in Drainers, StartDrain(p) \/ DrainStep(p) \/ FaultStep(p) PROVE KeptInv'
    BY <1>4, DrainKeepsKept
  <1>5. CASE (\E oldest \in Rows : DropStaleQueueItems(oldest)) \/ Tick \/ (\E r \in Rows : Expire(r))
             \/ BootTurn \/ WorkspaceFlaps \/ ServerRestart \/ UNCHANGED vars
    BY <1>1, <1>5 DEF DropStaleQueueItems, Tick, Expire, BootTurn, WorkspaceFlaps, ServerRestart, vars
  <1> QED
    BY <1>2, <1>3, <1>4, <1>5 DEF Next, sweepA2AQueue

LEMMA AlwaysKept == Spec => [](KeysInv /\ HeldUnlessFault /\ KeptInv)
  <1>1. Init => KeysInv
    BY DEF Init, KeysInv, OneActivePerKey, Active
  <1>2. Init => HeldUnlessFault
    BY DEF Init, HeldUnlessFault
  <1>3. Init => KeptInv
    BY QueueAssumption DEF Init, KeptInv, Known, Rows
  <1> QED
    BY <1>1, <1>2, <1>3, NextKeys, NextHeld, NextKept, AlwaysInv, PTL DEF Spec

\* A message the queue took is in the queue, with the agent, or was dropped
\* or failed there; it vanishes only where a drain's re-queue met its own row.
\* And a row stays claimed by nobody only after a fault.  For any number of
\* messages, drains, rows, faults and restarts (DrainQueueForWorkspace).
THEOREM NoMessageIsLost == Spec => []NothingLost
  <1>1. HeldUnlessFault => OrphansNeedAFault
    BY DEF HeldUnlessFault, OrphansNeedAFault
  <1>2. KeysInv /\ KeptInv => VanishesOnlySwallowed
    BY DEF KeysInv, KeptInv, VanishesOnlySwallowed, Known, Kept, Keeps, Gone
  <1> QED
    BY <1>1, <1>2, AlwaysKept, PTL DEF NothingLost

-----------------------------------------------------------------------------
(***************************************************************************)
(* Types of the rest of the state.                                         *)
(***************************************************************************)
Rest ==
    /\ urgent \in [Rows -> BOOLEAN]
    /\ wait \in [Rows -> Nat]
    /\ expired \subseteq Rows /\ cut \subseteq Rows
    /\ note \in [Snapshots -> {"new", "dropped", "checked", "queued", "declined"}]
    /\ bootTurn \in BOOLEAN /\ online \in BOOLEAN
    /\ delivered \subseteq Messages /\ answered \subseteq Messages /\ swallowed \subseteq Messages

\* A row in a drain's hands carries a message.
LEMMA HeldMessage ==
    ASSUME Inv, KeptInv, NEW p \in Drainers, drain[p].pc \in Working
    PROVE  drain[p].row \in Rows /\ msg[drain[p].row] \in Messages
  <1>1. drain[p].row \in Rows /\ status[drain[p].row] = "dispatched"
    BY HeldRow
  <1>2. ~(drain[p].row > last)
    BY <1>1 DEF Inv, InsertedInOrder
  <1> QED
    BY <1>1, <1>2 DEF KeptInv

\* An enqueue sets the priority of its own row.
LEMMA EnqueueUrgent ==
    ASSUME Rest, NEW m, NEW k, NEW u \in BOOLEAN, EnqueueA2A(m, k, u)
    PROVE  urgent' \in [Rows -> BOOLEAN]
  <1>1. urgent' = urgent \/ urgent' = [urgent EXCEPT ![last + 1] = u]
    BY DEF EnqueueA2A
  <1> QED
    BY <1>1 DEF Rest

\* What settling a held row does to the rest.
LEMMA SettleKeepsRest ==
    ASSUME Inv, KeptInv, Rest, NEW p \in Drainers, drain[p].pc \in Working,
           MarkFailed(drain[p].row) \/ SettleOrDrop(p),
           UNCHANGED <<urgent, note, bootTurn, online, delivered, answered, swallowed>>
    PROVE  Rest'
  <1>1. PICK r \in Rows : r = drain[p].row
    BY HeldRow
  <1>2. wait' \in [Rows -> Nat] /\ expired' = expired
    BY <1>1, QueueAssumption
    DEF Rest, MarkFailed, SettleOrDrop, DropTerminal, TransientRetry, rowTimes
  <1>3. cut' = cut \/ cut' = cut \cup {r}
    BY <1>1 DEF MarkFailed, SettleOrDrop, DropTerminal, TransientRetry
  <1> QED
    BY <1>2, <1>3 DEF Rest

\* The steps of a drain call keep the types.
LEMMA DrainKeepsRest ==
    ASSUME Inv, KeptInv, Rest, NEW p \in Drainers, StartDrain(p) \/ DrainStep(p) \/ FaultStep(p)
    PROVE  Rest'
  <1> USE DEF rowIds, rowTimes, history
  <1>1. CASE StartDrain(p) \/ DrainEnds(p) \/ DequeueError(p) \/ ResolveOnce(p)
             \/ ProxyFails(p) \/ MarkError(p)
    BY <1>1 DEF StartDrain, DrainEnds, DequeueError, ResolveOnce, ProxyFails, MarkError, Rest
  <1>2. CASE \E r \in Rows : DequeueNext(p, r)
    BY <1>2 DEF DequeueNext, Rest
  <1>3. CASE ProxyDelivers(p)
    <2>1. msg[drain[p].row] \in Messages
      BY <1>3, HeldMessage DEF ProxyDelivers, Dispatching, Working
    <2> QED
      BY <1>3, <2>1 DEF ProxyDelivers, Rest
  <1>4. CASE ProxyRequeues(p) \/ ProxyDefers(p)
    <2>1. PICK m \in Messages : m = msg[drain[p].row]
      BY <1>4, HeldMessage DEF ProxyRequeues, ProxyDefers, Dispatching, Working
    <2>2. urgent' \in [Rows -> BOOLEAN]
      BY <1>4, <2>1, EnqueueUrgent DEF ProxyRequeues, ProxyDefers
    <2>3. swallowed' = swallowed \/ swallowed' = swallowed \cup {m}
      BY <1>4, <2>1 DEF ProxyRequeues, ProxyDefers
    <2>4. UNCHANGED <<wait, expired, cut, note, bootTurn, online, delivered, answered>>
      BY <1>4 DEF ProxyRequeues, ProxyDefers
    <2> QED
      BY <2>2, <2>3, <2>4 DEF Rest
  <1>5. CASE MarkQueueItemCompleted(p)
    <2>1. msg[drain[p].row] \in Messages
      BY <1>5, HeldMessage DEF MarkQueueItemCompleted, Working
    <2>2. answered' = answered \/ answered' = answered \cup {msg[drain[p].row]}
      BY <1>5 DEF MarkQueueItemCompleted
    <2> QED
      BY <1>5, <2>1, <2>2 DEF MarkQueueItemCompleted, Rest
  <1>6. CASE settleQueuedItemBounded(p)
    BY <1>6, SettleKeepsRest DEF settleQueuedItemBounded, Working
  <1>7. CASE MarkQueueItemFailed(p)
    BY <1>7, SettleKeepsRest DEF MarkQueueItemFailed, Working
  <1>8. CASE \E heartbeat \in BOOLEAN : GatewayFailure(p, heartbeat)
    BY <1>8, SettleKeepsRest DEF GatewayFailure, Working
  <1> QED
    BY <1>1, <1>2, <1>3, <1>4, <1>5, <1>6, <1>7, <1>8
    DEF DrainStep, ClaimStep, ProxyStep, MarkStep, FaultStep

\* Every step keeps them.
LEMMA NextRest == Inv /\ KeptInv /\ Rest /\ [Next]_vars => Rest'
  <1> SUFFICES ASSUME Inv, KeptInv, Rest, [Next]_vars PROVE Rest'
    OBVIOUS
  <1> USE DEF rowIds, rowTimes, history
  <1>1. ASSUME NEW m \in Messages, Accept(m) PROVE Rest'
    <2>1. urgent' \in [Rows -> BOOLEAN]
      BY <1>1, EnqueueUrgent DEF Accept
    <2> QED
      BY <1>1, <2>1 DEF Accept, Rest
  <1>2. ASSUME NEW m \in Snapshots, SnapshotStep(m) PROVE Rest'
    <2>1. urgent' \in [Rows -> BOOLEAN]
      BY <1>2, EnqueueUrgent
      DEF SnapshotStep, dropQueuedRestartContext, restartContextBeingDelivered,
          enqueueRestartContext, Rest
    <2>2. note' \in [Snapshots -> {"new", "dropped", "checked", "queued", "declined"}]
      BY <1>2 DEF SnapshotStep, dropQueuedRestartContext, restartContextBeingDelivered,
                  enqueueRestartContext, Rest
    <2>3. UNCHANGED <<wait, expired, cut, bootTurn, online, delivered, answered, swallowed>>
      BY <1>2 DEF SnapshotStep, dropQueuedRestartContext, restartContextBeingDelivered,
                  enqueueRestartContext
    <2> QED
      BY <2>1, <2>2, <2>3 DEF Rest
  <1>3. ASSUME NEW p \in Drainers, StartDrain(p) \/ DrainStep(p) \/ FaultStep(p) PROVE Rest'
    BY <1>3, DrainKeepsRest
  <1>4. CASE (\E oldest \in Rows : DropStaleQueueItems(oldest)) \/ UNCHANGED vars
    BY <1>4 DEF DropStaleQueueItems, vars, Rest
  <1>5. CASE Tick
    <2>1. wait' \in [Rows -> Nat]
      BY <1>5 DEF Tick, Rest
    <2> QED
      BY <1>5, <2>1 DEF Tick, Rest
  <1>6. CASE \E r \in Rows : Expire(r)
    BY <1>6 DEF Expire, Rest
  <1>7. CASE BootTurn \/ WorkspaceFlaps
    BY <1>7 DEF BootTurn, WorkspaceFlaps, Rest
  <1>8. CASE ServerRestart
    <2>1. note' \in [Snapshots -> {"new", "dropped", "checked", "queued", "declined"}]
      BY <1>8 DEF ServerRestart, Rest
    <2> QED
      BY <1>8, <2>1 DEF ServerRestart, Rest
  <1> QED
    BY <1>1, <1>2, <1>3, <1>4, <1>5, <1>6, <1>7, <1>8 DEF Next, sweepA2AQueue

LEMMA TypesHold == Spec => []TypeOK
  <1>1. ASSUME Init PROVE Rest
    <2>1. urgent \in [Rows -> BOOLEAN] /\ bootTurn \in BOOLEAN /\ online \in BOOLEAN
      BY <1>1 DEF Init
    <2>2. wait \in [Rows -> Nat]
      BY <1>1 DEF Init
    <2> QED
      BY <1>1, <2>1, <2>2 DEF Init, Rest
  <1>2. Inv /\ KeysInv /\ KeptInv /\ HeldUnlessFault /\ Rest => TypeOK
    BY DEF Inv, Typed, DrainRecord, Working, KeysInv, KeptInv, HeldUnlessFault, Rest, TypeOK
  <1> QED
    BY <1>1, <1>2, NextRest, AlwaysInv, AlwaysKept, PTL DEF Spec

\* The state keeps its types, and a message goes out once at a time: one drain
\* per row, one row per message (DequeueNext, EnqueueA2A).
THEOREM QueueSendsOneOfEach == Spec => []OneOfEach
  BY TypesHold, OneDrainPerRow, KeyIsUnique, PTL DEF OneOfEach

-----------------------------------------------------------------------------
(* Memories.                                                               *)

Wires == {"none", "reset", "sent"}
Writing == {"upsert", "commit"}

\* A call in flight is well formed (Begin, PurgeOwner).
CallOK(c) ==
    /\ c = [op |-> c.op, by |-> c.by, spaces |-> c.spaces, id |-> c.id, row |-> c.row,
            at |-> c.at, wire |-> c.wire]
    /\ c.wire \in Wires
    /\ c.at \in Writing \union {"forget"} => \E s \in Spaces : c.spaces = {s}
    /\ c.at \in Writing =>
           c.by \in Owners /\ \A s \in c.spaces : s[1] # "team" => s[2] = c.by
    /\ c.at = "drop" => c.by \in Owners /\ c.spaces = {<<"workspace", c.by>>}
    /\ c.row # NotACopy => c.id = c.row
    /\ (c.at = "search" /\ c.by # NoOwner) =>
           \A s \in c.spaces : s[1] = "workspace" => s[2] = c.by

CallsOK ==
    /\ memCall = [q \in MemCalls |-> memCall[q]]
    /\ \A q \in MemCalls : CallOK(memCall[q])

\* The records: housed, written by their owner, a copy under its row's id.
RecordOK(m) ==
    /\ m.space \in Spaces /\ m.by \in Owners
    /\ m.space[1] # "team" => m.by = m.space[2]
    /\ m.row # NotACopy => m.id = m.row

RecordsOK ==
    /\ spaces \subseteq Spaces
    /\ \A m \in mem : RecordOK(m) /\ m.space \in spaces
    /\ \A i \in ackedMem : \E m \in mem : m.id = i

\* Who was cleared stays without a row, a writing call and a private record.
ClearedOK ==
    /\ ownerRows \intersect cleared = {}
    /\ \A q \in MemCalls : /\ memCall[q].at \in Writing => memCall[q].by \notin cleared
                           /\ memCall[q].at = "drop" => memCall[q].by \notin ownerRows
    /\ \A m \in mem : m.space[1] = "workspace" => m.space[2] \notin cleared

TreeOK == ownerRows \subseteq Owners /\ parentOf \in [Owners -> Owners \union {NoOwner}]

\* The client's count and the breaker.
BreakerOK ==
    /\ pluginFailures \in Nat /\ badStreak \in Nat /\ pluginFailures <= badStreak
    /\ breaker \in {"closed", "open", "cooled"}
    /\ OpenIsEarned

StoreInv == TreeOK /\ CallsOK /\ RecordsOK /\ CopiedOnce /\ ClearedOK /\ BreakerOK

\* What a writer of the key remembers.
KeyTypes ==
    /\ keyRow \in [version : Nat, value : Nat, fresh : BOOLEAN]
    /\ keyWriter \in [KeyWriters ->
           [at : {"get", "set", "probe", "create"}, version : Nat, value : Nat,
            replaced : BOOLEAN]]
    /\ keyWrites \in 0..MaxKeyWrites /\ keyRow.version <= keyWrites

ReadsOK ==
    \A p \in KeyWriters : keyWriter[p].replaced = FALSE =>
        /\ keyWriter[p].version <= keyRow.version
        /\ (keyWriter[p].version = keyRow.version /\ keyRow.version > 0) =>
               keyWriter[p].value = keyRow.value

KeyInv == KeyTypes /\ ReadsOK /\ NoLostUpdate

MemoriesInv == StoreInv /\ KeyInv

-----------------------------------------------------------------------------
\* A call that begins leaves the rest alone, and the invariant with it, when
\* what it carries is well formed.
LEMMA BeginKeeps ==
    ASSUME StoreInv, NEW q \in MemCalls, NEW op, NEW w, NEW nss, NEW id, NEW row, NEW at,
           Begin(q, op, w, nss, id, row, at),
           CallOK([op |-> op, by |-> w, spaces |-> nss, id |-> id, row |-> row,
                   at |-> at, wire |-> "none"]),
           at \in Writing => w \in ownerRows, at # "drop"
    PROVE  StoreInv'
  <1> DEFINE c == [op |-> op, by |-> w, spaces |-> nss, id |-> id, row |-> row,
                   at |-> at, wire |-> "none"]
  <1>1. /\ memCall' = [memCall EXCEPT ![q] = c]
        /\ UNCHANGED <<ownerRows, parentOf, spaces, mem, pluginFailures, breaker,
                       ackedMem, cleared, badStreak>>
    BY DEF Begin
  <1>2. CallOK(c) OBVIOUS
  <1>3. c.at = at /\ c.by = w OBVIOUS
  <1> HIDE DEF c
  <1>4. memCall' = [p \in MemCalls |-> IF p = q THEN c ELSE memCall[p]]
    BY <1>1 DEF StoreInv, CallsOK
  <1>5. CallsOK' BY <1>2, <1>4 DEF StoreInv, CallsOK
  <1>6. ClearedOK' BY <1>1, <1>3, <1>4 DEF StoreInv, ClearedOK
  <1>7. TreeOK' /\ RecordsOK' /\ CopiedOnce' /\ BreakerOK'
    BY <1>1 DEF StoreInv, TreeOK, RecordsOK, RecordOK, CopiedOnce, BreakerOK, OpenIsEarned
  <1> QED BY <1>5, <1>6, <1>7 DEF StoreInv

\* What a workspace may write is one of its own, or its team's.
LEMMA WritableIsOwn ==
    ASSUME TreeOK, NEW w \in Owners, NEW s \in WritableNamespaces(w)
    PROVE  s \in Spaces /\ (s[1] # "team" => s[2] = w)
  <1>1. s \in ReadableNamespaces(w) /\ (s[1] = "org" => IsRoot(w))
    BY DEF WritableNamespaces
  <1>2. CASE s = <<"workspace", w>> BY <1>2 DEF Spaces, Kinds
  <1>3. CASE s = <<"team", IF IsRoot(w) THEN w ELSE parentOf[w]>>
    BY <1>3 DEF TreeOK, IsRoot, Spaces, Kinds
  <1>4. CASE s = <<"org", RootOf(w)>>
    <2>1. IsRoot(w) BY <1>1, <1>4
    <2>2. RootOf(w) = w BY <2>1 DEF RootOf
    <2> QED BY <1>4, <2>2 DEF Spaces, Kinds
  <1> QED BY <1>1, <1>2, <1>3, <1>4 DEF ReadableNamespaces

\* What a workspace reads is private to nobody else.
LEMMA ReadableIsOwn ==
    ASSUME NEW w, NEW s \in ReadableNamespaces(w), s[1] = "workspace"
    PROVE  s[2] = w
  <1>1. <<"team", IF IsRoot(w) THEN w ELSE parentOf[w]>>[1] # "workspace" OBVIOUS
  <1>2. <<"org", RootOf(w)>>[1] # "workspace" OBVIOUS
  <1> QED BY <1>1, <1>2 DEF ReadableNamespaces

\* The writing calls.
LEMMA CommitKeeps ==
    ASSUME StoreInv, NEW q \in MemCalls, NEW op, NEW w \in ownerRows,
           NEW s \in WritableNamespaces(w), NEW id, NEW row, NEW at \in Writing,
           row # NotACopy => id = row, Begin(q, op, w, {s}, id, row, at)
    PROVE  StoreInv'
  <1>1. w \in Owners BY DEF StoreInv, TreeOK
  <1>2. s \in Spaces /\ (s[1] # "team" => s[2] = w) BY <1>1, WritableIsOwn DEF StoreInv
  <1> DEFINE c == [op |-> op, by |-> w, spaces |-> {s}, id |-> id, row |-> row,
                   at |-> at, wire |-> "none"]
  <1>3. CallOK(c) BY <1>1, <1>2 DEF CallOK, Writing, Wires
  <1>4. at # "drop" BY DEF Writing
  <1> QED BY <1>3, <1>4, BeginKeeps

\* The calls that search.
LEMMA SearchKeeps ==
    ASSUME StoreInv, NEW q \in MemCalls, NEW w, NEW nss,
           w # NoOwner => \A s \in nss : s[1] = "workspace" => s[2] = w,
           Begin(q, "search", w, nss, 0, NotACopy, "search")
    PROVE  StoreInv'
  <1> DEFINE c == [op |-> "search", by |-> w, spaces |-> nss, id |-> 0, row |-> NotACopy,
                   at |-> "search", wire |-> "none"]
  <1>1. CallOK(c) BY DEF CallOK, Writing, Wires
  <1> QED BY <1>1, BeginKeeps DEF Writing

\* The calls that forget.
LEMMA ForgetKeeps ==
    ASSUME StoreInv, NEW q \in MemCalls, NEW w, NEW s \in Spaces, NEW id,
           Begin(q, "forget", w, {s}, id, NotACopy, "forget")
    PROVE  StoreInv'
  <1> DEFINE c == [op |-> "forget", by |-> w, spaces |-> {s}, id |-> id, row |-> NotACopy,
                   at |-> "forget", wire |-> "none"]
  <1>1. CallOK(c) BY DEF CallOK, Writing, Wires
  <1> QED BY <1>1, BeginKeeps DEF Writing

\* The purge that takes the row away and goes on to the plugin.
LEMMA PurgeKeeps ==
    ASSUME StoreInv, NEW q \in MemCalls, NEW w, PurgeOwner(q, w)
    PROVE  StoreInv'
  <1> DEFINE c == [op |-> "purge", by |-> w, spaces |-> {<<"workspace", w>>}, id |-> 0,
                   row |-> NotACopy, at |-> "drop", wire |-> "none"]
  <1>1. /\ w \in ownerRows /\ ownerRows' = ownerRows \ {w}
        /\ parentOf' = [v \in Owners |-> IF v = w \/ parentOf[v] = w THEN NoOwner
                                         ELSE parentOf[v]]
        /\ memCall' = [memCall EXCEPT ![q] = c]
        /\ UNCHANGED <<spaces, mem, pluginFailures, breaker, ackedMem, cleared, badStreak>>
    BY DEF PurgeOwner
  <1>2. w \in Owners BY <1>1 DEF StoreInv, TreeOK
  <1>3. CallOK(c) BY <1>2 DEF CallOK, Writing, Wires
  <1>4. c.at = "drop" /\ c.by = w OBVIOUS
  <1> HIDE DEF c
  <1>5. memCall' = [p \in MemCalls |-> IF p = q THEN c ELSE memCall[p]]
    BY <1>1 DEF StoreInv, CallsOK
  <1>6. CallsOK' BY <1>3, <1>5 DEF StoreInv, CallsOK
  <1>7. ClearedOK' BY <1>1, <1>4, <1>5 DEF StoreInv, ClearedOK, Writing
  <1>8. TreeOK' BY <1>1 DEF StoreInv, TreeOK
  <1>9. RecordsOK' /\ CopiedOnce' /\ BreakerOK'
    BY <1>1 DEF StoreInv, RecordsOK, RecordOK, CopiedOnce, BreakerOK, OpenIsEarned
  <1> QED BY <1>6, <1>7, <1>8, <1>9 DEF StoreInv

\* Every way to begin a call.
LEMMA CallKeeps ==
    ASSUME StoreInv, NEW q \in MemCalls, StoreCall(q)
    PROVE  StoreInv'
  <1>1. ASSUME NEW w \in Owners, NEW s \in Spaces,
               ToolCommit(q, w, s) \/ CommitSummary(q, w, s)
        PROVE  StoreInv'
    BY <1>1, CommitKeeps DEF ToolCommit, CommitSummary, CanWrite, Writing
  <1>2. ASSUME NEW w \in Owners, NEW k \in Kinds,
               \/ ShimCommit(q, w, k) \/ HttpCommit(q, w, k)
               \/ ImportEntry(q, w, k) \/ CopyRow(q, w, k)
        PROVE  StoreInv'
    <2>1. CASE ShimCommit(q, w, k)
      BY <2>1, CommitKeeps DEF ShimCommit, OfKind, ToolCommit, CanWrite, Writing
    <2>2. CASE HttpCommit(q, w, k)
      BY <2>2, CommitKeeps DEF HttpCommit, OfKind, Writing
    <2>3. CASE ImportEntry(q, w, k)
      BY <2>3, CommitKeeps DEF ImportEntry, OfKind, Writing
    <2>4. CASE CopyRow(q, w, k)
      BY <2>4, CommitKeeps DEF CopyRow, OfKind, Writing
    <2> QED BY <1>2, <2>1, <2>2, <2>3, <2>4
  <1>3. ASSUME NEW w \in Owners, NEW requested, SearchMemory(q, w, requested)
        PROVE  StoreInv'
    <2>1. \A s \in IntersectReadable(w, requested) : s[1] = "workspace" => s[2] = w
      BY ReadableIsOwn DEF IntersectReadable
    <2> QED BY <1>3, <2>1, SearchKeeps DEF SearchMemory
  <1>4. ASSUME NEW w \in Owners, NEW kinds, Recall(q, w, kinds) PROVE StoreInv'
    <2>1. \A s \in Scoped(w, kinds) : s[1] = "workspace" => s[2] = w
      BY ReadableIsOwn DEF Scoped
    <2> QED BY <1>4, <2>1, SearchKeeps DEF Recall
  <1>8. ASSUME NEW w \in Owners, HttpSearch(q, w) PROVE StoreInv'
    BY <1>8, ReadableIsOwn, SearchKeeps DEF HttpSearch
  <1>5. ASSUME NEW w \in Owners, NEW s \in Spaces, NEW id, ForgetTool(q, w, s, id)
        PROVE  StoreInv'
    BY <1>5, ForgetKeeps DEF ForgetTool
  <1>6. ASSUME NEW w \in Owners, NEW id, ForgetOwn(q, w, id) PROVE StoreInv'
    <2>1. <<"workspace", w>> \in Spaces BY DEF Spaces, Kinds
    <2> QED BY <1>6, <2>1, ForgetKeeps DEF ForgetOwn
  <1>7. CASE Export(q) BY <1>7, SearchKeeps DEF Export
  <1> QED BY <1>1, <1>2, <1>3, <1>4, <1>5, <1>6, <1>7, <1>8, PurgeKeeps
      DEF StoreCall, SearchView

-----------------------------------------------------------------------------
\* The one namespace of a call that has one.
LEMMA TargetIsTheOne ==
    ASSUME NEW q \in MemCalls, NEW s, memCall[q].spaces = {s}
    PROVE  Target(q) = s
  <1>1. \E t \in memCall[q].spaces : TRUE BY Zenon
  <1>2. Target(q) \in memCall[q].spaces BY <1>1, Zenon DEF Target
  <1> QED BY <1>2

\* What a call becomes: it goes on, as the same call, or it ends.
LEMMA CallMoves ==
    ASSUME StoreInv, NEW q \in MemCalls, NEW at, NEW wire \in Wires,
           \/ CallEnds(q)
           \/ /\ Goes(q, at, wire)
              /\ at = memCall[q].at \/ (at = "commit" /\ memCall[q].at = "upsert")
    PROVE  /\ CallsOK'
           /\ \A p \in MemCalls : memCall'[p].at \in Writing =>
                  memCall[p].at \in Writing /\ memCall'[p].by = memCall[p].by
           /\ \A p \in MemCalls : memCall'[p].at = "drop" =>
                  memCall[p].at = "drop" /\ memCall'[p].by = memCall[p].by
  <1>0. CallsOK BY DEF StoreInv
  <1>1. CASE CallEnds(q)
    <2>1. memCall' = [p \in MemCalls |-> IF p = q THEN IdleCall ELSE memCall[p]]
      BY <1>0, <1>1 DEF CallsOK, CallEnds
    <2>2. CallOK(IdleCall) BY DEF CallOK, IdleCall, Wires, Writing
    <2>3. IdleCall.at = "over" BY DEF IdleCall
    <2> QED BY <1>0, <2>1, <2>2, <2>3 DEF CallsOK, Writing
  <1>2. CASE Goes(q, at, wire)
             /\ (at = memCall[q].at \/ (at = "commit" /\ memCall[q].at = "upsert"))
    <2> DEFINE c == memCall[q]
    <2> DEFINE d == [c EXCEPT !.at = at, !.wire = wire]
    <2>1. CallOK(c) BY <1>0 DEF CallsOK
    <2>2. c \in [op : {c.op}, by : {c.by}, spaces : {c.spaces}, id : {c.id},
                 row : {c.row}, at : {c.at}, wire : {c.wire}]
      BY <2>1 DEF CallOK
    <2>3. memCall' = [p \in MemCalls |-> IF p = q THEN d ELSE memCall[p]]
      BY <1>0, <1>2 DEF CallsOK, Goes
    <2>4. /\ d \in [op : {c.op}, by : {c.by}, spaces : {c.spaces}, id : {c.id},
                    row : {c.row}, at : {c.at, at}, wire : {c.wire, wire}]
          /\ d.at = at /\ d.wire = wire
      BY <2>2
    <2> HIDE DEF d
    <2>5. d.by = c.by /\ d.spaces = c.spaces /\ d.id = c.id /\ d.row = c.row BY <2>4
    <2>8. CallOK(d)
      <3>1. d = [op |-> d.op, by |-> d.by, spaces |-> d.spaces, id |-> d.id,
                 row |-> d.row, at |-> d.at, wire |-> d.wire]
        BY <2>4
      <3> QED BY <1>2, <2>1, <2>4, <2>5, <3>1 DEF CallOK, Writing
    <2>6. at \in Writing => c.at \in Writing BY <1>2 DEF Writing
    <2>7. at = "drop" => c.at = "drop" BY <1>2
    <2> QED BY <1>0, <2>3, <2>4, <2>5, <2>6, <2>7, <2>8 DEF CallsOK
  <1> QED BY <1>1, <1>2

\* Nothing in the store changes.
LEMMA StoreRests ==
    ASSUME StoreInv, UNCHANGED <<ownerRows, spaces, mem, ackedMem, cleared>>,
           \A p \in MemCalls : memCall'[p].at \in Writing =>
                  memCall[p].at \in Writing /\ memCall'[p].by = memCall[p].by,
           \A p \in MemCalls : memCall'[p].at = "drop" =>
                  memCall[p].at = "drop" /\ memCall'[p].by = memCall[p].by
    PROVE  RecordsOK' /\ CopiedOnce' /\ ClearedOK'
  <1>1. RecordsOK' /\ CopiedOnce' BY DEF StoreInv, RecordsOK, RecordOK, CopiedOnce
  <1>2. ClearedOK' BY DEF StoreInv, ClearedOK
  <1> QED BY <1>1, <1>2

\* The plugin serves a request.
LEMMA ServeKeeps ==
    ASSUME StoreInv, NEW q \in MemCalls, NEW heard \in BOOLEAN, ServeHTTP(q, heard),
           UNCHANGED ownerRows,
           \A p \in MemCalls : memCall'[p].at \in Writing =>
                  memCall[p].at \in Writing /\ memCall'[p].by = memCall[p].by,
           \A p \in MemCalls : memCall'[p].at = "drop" =>
                  memCall[p].at = "drop" /\ memCall'[p].by = memCall[p].by
    PROVE  RecordsOK' /\ CopiedOnce' /\ ClearedOK'
  <1> DEFINE c == memCall[q]
  <1>0. CallOK(c) BY DEF StoreInv, CallsOK
  <1>1. CASE c.at = "upsert" /\ UpsertNamespace(q)
    <2>1. PICK s \in Spaces : c.spaces = {s} BY <1>0, <1>1 DEF CallOK, Writing
    <2>2. spaces' = spaces \union {s} BY <1>1, <2>1, TargetIsTheOne DEF UpsertNamespace
    <2>3. RecordsOK' /\ CopiedOnce'
      BY <1>1, <2>2 DEF StoreInv, RecordsOK, RecordOK, CopiedOnce, UpsertNamespace
    <2>4. ClearedOK' BY <1>1 DEF StoreInv, ClearedOK, UpsertNamespace
    <2> QED BY <2>3, <2>4
  <1>2. CASE c.at = "commit" /\ CommitMemory(q, heard)
    <2>1. PICK s \in Spaces : c.spaces = {s} BY <1>0, <1>2 DEF CallOK, Writing
    <2>2. Target(q) = s BY <2>1, TargetIsTheOne
    <2>3. CASE Refused(q)
      <3>1. UNCHANGED <<spaces, mem, ackedMem, cleared>>
        BY <1>2, <2>3 DEF CommitMemory
      <3> QED BY <3>1, StoreRests
    <2>4. CASE ~Refused(q)
      <3> DEFINE r == [id |-> c.id, space |-> s, by |-> c.by, row |-> c.row]
      <3>1. s \in spaces BY <1>2, <2>2, <2>4 DEF Refused
      <3>2. c.by \in Owners /\ (s[1] # "team" => s[2] = c.by) /\ c.by \notin cleared
        BY <1>0, <1>2, <2>1 DEF CallOK, Writing, StoreInv, ClearedOK
      <3>3. RecordOK(r) BY <1>0, <3>2 DEF RecordOK, CallOK
      <3>4. r.id = c.id /\ r.space = s OBVIOUS
      <3>5. MemRecord(q) = r BY <2>2 DEF MemRecord
      <3> HIDE DEF r
      <3>6. mem' = {m \in mem : m.id # c.id} \union {r}
        BY <1>2, <2>4, <3>5 DEF CommitMemory, WithRecord
      <3>7. ackedMem' \subseteq ackedMem \union {c.id} /\ UNCHANGED <<spaces, cleared>>
        BY <1>2 DEF CommitMemory
      <3>8. RecordsOK'
        BY <3>1, <3>3, <3>4, <3>6, <3>7 DEF StoreInv, RecordsOK, RecordOK
      <3>9. CopiedOnce'
        BY <3>3, <3>4, <3>6 DEF StoreInv, RecordsOK, RecordOK, CopiedOnce
      <3>10. ClearedOK'
        <4>1. s[1] = "workspace" => s[2] \notin cleared BY <3>2
        <4>2. \A m \in mem' : m.space[1] = "workspace" => m.space[2] \notin cleared'
          BY <3>4, <3>6, <3>7, <4>1 DEF StoreInv, ClearedOK
        <4> QED BY <3>7, <4>2 DEF StoreInv, ClearedOK
      <3> QED BY <3>8, <3>9, <3>10
    <2> QED BY <2>3, <2>4
  <1>3. CASE c.at = "search" /\ UNCHANGED <<spaces, mem, ackedMem, cleared>>
    BY <1>3, StoreRests
  <1>4. CASE c.at = "forget" /\ Loses(Forgotten(q)) /\ UNCHANGED <<spaces, cleared>>
    <2>1. /\ mem' \subseteq mem
          /\ \A i \in ackedMem' : i \in ackedMem /\ \A m \in mem \ mem' : m.id # i
      BY <1>4 DEF Loses, Forgotten
    <2>2. RecordsOK' /\ CopiedOnce'
      BY <1>4, <2>1 DEF StoreInv, RecordsOK, RecordOK, CopiedOnce
    <2>3. ClearedOK' BY <1>4, <2>1 DEF StoreInv, ClearedOK
    <2> QED BY <2>2, <2>3
  <1>5. CASE c.at = "drop" /\ DeleteNamespace(q)
    <2>1. c.by \in Owners /\ c.spaces = {<<"workspace", c.by>>}
      BY <1>0, <1>5 DEF CallOK
    <2>2. Target(q) = <<"workspace", c.by>> BY <2>1, TargetIsTheOne
    <2>3. /\ spaces' = spaces \ {<<"workspace", c.by>>}
          /\ mem' = {m \in mem : m.space # <<"workspace", c.by>>}
          /\ \A i \in ackedMem' : i \in ackedMem /\ \A m \in mem \ mem' : m.id # i
      BY <1>5, <2>2 DEF DeleteNamespace, Loses, Dropped
    <2>4. RecordsOK' /\ CopiedOnce'
      BY <2>3 DEF StoreInv, RecordsOK, RecordOK, CopiedOnce
    <2>5. c.by \notin ownerRows BY <1>5 DEF StoreInv, ClearedOK
    <2>6. \/ cleared' = cleared
          \/ /\ cleared' = cleared \union {c.by}
             /\ \A p \in MemCalls \ {q} : memCall[p].at \in Writing => memCall[p].by # c.by
      BY <1>5 DEF DeleteNamespace, Writing
    <2>7. c.at \notin Writing BY <1>5 DEF Writing
    <2>8. \A m \in mem' : m.space[1] = "workspace" => m.space[2] # c.by
      <3>1. \A m \in mem' : m.space \in Spaces /\ m.space # <<"workspace", c.by>>
        BY <2>3 DEF StoreInv, RecordsOK, RecordOK
      <3> QED BY <3>1 DEF Spaces
    <2>9. ClearedOK' BY <2>3, <2>5, <2>6, <2>7, <2>8 DEF StoreInv, ClearedOK
    <2> QED BY <2>4, <2>9
  <1> QED BY <1>1, <1>2, <1>3, <1>4, <1>5 DEF ServeHTTP

\* The client counts what it is answered.
LEMMA CountKeeps ==
    ASSUME BreakerOK, RecordFailure \/ RecordSuccess
    PROVE  BreakerOK'
  <1>1. CASE RecordFailure
    BY <1>1, MemoriesAssumption DEF BreakerOK, RecordFailure, OpenIsEarned
  <1>2. CASE RecordSuccess BY <1>2 DEF BreakerOK, RecordSuccess, OpenIsEarned
  <1> QED BY <1>1, <1>2

\* A step of the store keeps its invariant.
LEMMA StoreStep == StoreInv /\ StoreNext => StoreInv'
  <1> SUFFICES ASSUME StoreInv, StoreNext PROVE StoreInv'
    OBVIOUS
  <1>1. ASSUME NEW q \in MemCalls, BreakerReads(q) PROVE StoreInv'
    <2>1. UNCHANGED <<ownerRows, parentOf, spaces, mem, pluginFailures, breaker,
                      ackedMem, cleared, badStreak>>
      BY <1>1 DEF BreakerReads
    <2>2. PICK wire \in Wires : CallEnds(q) \/ Goes(q, memCall[q].at, wire)
      BY <1>1 DEF BreakerReads, Wires
    <2>3. CallsOK' /\ RecordsOK' /\ CopiedOnce' /\ ClearedOK'
      BY <2>1, <2>2, CallMoves, StoreRests
    <2>4. TreeOK' /\ BreakerOK' BY <2>1 DEF StoreInv, TreeOK, BreakerOK, OpenIsEarned
    <2> QED BY <2>3, <2>4 DEF StoreInv
  <1>2. ASSUME NEW q \in MemCalls, BreakerResets(q) PROVE StoreInv'
    <2>1. /\ UNCHANGED <<ownerRows, parentOf, spaces, mem, ackedMem, cleared, badStreak>>
          /\ breaker' = "closed" /\ pluginFailures' = 0
          /\ Goes(q, memCall[q].at, "sent")
      BY <1>2 DEF BreakerResets
    <2>2. CallsOK' /\ RecordsOK' /\ CopiedOnce' /\ ClearedOK'
      BY <2>1, CallMoves, StoreRests DEF Wires
    <2>3. TreeOK' BY <2>1 DEF StoreInv, TreeOK
    <2>4. BreakerOK' BY <2>1 DEF StoreInv, BreakerOK, OpenIsEarned
    <2> QED BY <2>2, <2>3, <2>4 DEF StoreInv
  <1>3. ASSUME NEW q \in MemCalls, Answered(q) PROVE StoreInv'
    <2>1. /\ UNCHANGED <<ownerRows, parentOf>>
          /\ ServeHTTP(q, TRUE)
          /\ RecordFailure \/ RecordSuccess
          /\ \/ CallEnds(q)
             \/ Goes(q, "commit", "none") /\ memCall[q].at = "upsert"
      BY <1>3 DEF Answered
    <2>2. /\ CallsOK'
          /\ \A p \in MemCalls : memCall'[p].at \in Writing =>
                 memCall[p].at \in Writing /\ memCall'[p].by = memCall[p].by
          /\ \A p \in MemCalls : memCall'[p].at = "drop" =>
                 memCall[p].at = "drop" /\ memCall'[p].by = memCall[p].by
      BY <2>1, CallMoves DEF Wires
    <2>3. RecordsOK' /\ CopiedOnce' /\ ClearedOK' BY <2>1, <2>2, ServeKeeps
    <2>4. TreeOK' BY <2>1 DEF StoreInv, TreeOK
    <2>5. BreakerOK' BY <2>1, CountKeeps DEF StoreInv
    <2> QED BY <2>2, <2>3, <2>4, <2>5 DEF StoreInv
  <1>4. ASSUME NEW q \in MemCalls, Unanswered(q) PROVE StoreInv'
    <2>1. /\ UNCHANGED <<ownerRows, parentOf>> /\ RecordFailure /\ CallEnds(q)
          /\ ServeHTTP(q, FALSE) \/ UNCHANGED <<spaces, mem, ackedMem, cleared>>
      BY <1>4 DEF Unanswered
    <2>2. /\ CallsOK'
          /\ \A p \in MemCalls : memCall'[p].at \in Writing =>
                 memCall[p].at \in Writing /\ memCall'[p].by = memCall[p].by
          /\ \A p \in MemCalls : memCall'[p].at = "drop" =>
                 memCall[p].at = "drop" /\ memCall'[p].by = memCall[p].by
      BY <2>1, CallMoves DEF Wires
    <2>3. RecordsOK' /\ CopiedOnce' /\ ClearedOK'
      BY <2>1, <2>2, ServeKeeps, StoreRests
    <2>4. TreeOK' BY <2>1 DEF StoreInv, TreeOK
    <2>5. BreakerOK' BY <2>1, CountKeeps DEF StoreInv
    <2> QED BY <2>2, <2>3, <2>4, <2>5 DEF StoreInv
  <1>5. ASSUME NEW w \in Owners, TreeMoves(w) PROVE StoreInv'
    <2>1. /\ UNCHANGED <<ownerRows, spaces, mem, memCall, pluginFailures, breaker,
                         ackedMem, cleared, badStreak>>
          /\ \E p \in (ownerRows \ {w}) \union {NoOwner} :
                 parentOf' = [parentOf EXCEPT ![w] = p]
      BY <1>5 DEF TreeMoves
    <2>2. TreeOK' BY <2>1 DEF StoreInv, TreeOK
    <2>3. CallsOK' BY <2>1 DEF StoreInv, CallsOK
    <2>4. RecordsOK' /\ CopiedOnce' /\ ClearedOK' BY <2>1, StoreRests
    <2>5. BreakerOK' BY <2>1 DEF StoreInv, BreakerOK, OpenIsEarned
    <2> QED BY <2>2, <2>3, <2>4, <2>5 DEF StoreInv
  <1>6. CASE BreakerCools
    <2>1. /\ UNCHANGED <<ownerRows, parentOf, spaces, mem, memCall, pluginFailures,
                         ackedMem, cleared, badStreak>>
          /\ breaker = "open" /\ breaker' = "cooled"
      BY <1>6 DEF BreakerCools
    <2>2. TreeOK' BY <2>1 DEF StoreInv, TreeOK
    <2>3. CallsOK' BY <2>1 DEF StoreInv, CallsOK
    <2>4. RecordsOK' /\ CopiedOnce' /\ ClearedOK' BY <2>1, StoreRests
    <2>5. BreakerOK' BY <2>1 DEF StoreInv, BreakerOK, OpenIsEarned
    <2> QED BY <2>2, <2>3, <2>4, <2>5 DEF StoreInv
  <1> QED BY <1>1, <1>2, <1>3, <1>4, <1>5, <1>6, CallKeeps DEF StoreNext

-----------------------------------------------------------------------------
\* A write of the key as everybody else sees it: the version they remember is
\* an older one from now on.
LEMMA WriteKeeps ==
    ASSUME KeyInv, NEW v \in Nat, KeyWrite(v), v <= keyWrites + 1, v > keyRow.version,
           keyWriter' \in [KeyWriters ->
               [at : {"get", "set", "probe", "create"}, version : Nat, value : Nat,
                replaced : BOOLEAN]],
           \A p \in KeyWriters : keyWriter'[p].version = keyWriter[p].version
                              /\ keyWriter'[p].replaced = keyWriter[p].replaced
    PROVE  KeyTypes' /\ ReadsOK'
  <1>1. /\ keyWrites \in Nat /\ keyWrites < MaxKeyWrites /\ keyWrites' = keyWrites + 1
        /\ keyRow' = [version |-> v, value |-> keyWrites + 1, fresh |-> TRUE]
        /\ MaxKeyWrites \in Nat
    BY MemoriesAssumption DEF KeyInv, KeyTypes, KeyWrite
  <1>2. keyRow' \in [version : Nat, value : Nat, fresh : BOOLEAN] /\ keyRow'.version = v
    BY <1>1
  <1>3. KeyTypes' BY <1>1, <1>2 DEF KeyTypes
  <1>4. keyRow.version \in Nat /\ \A p \in KeyWriters : keyWriter[p].version \in Nat
    BY DEF KeyInv, KeyTypes
  <1>5. ReadsOK' BY <1>2, <1>4 DEF KeyInv, ReadsOK
  <1> QED BY <1>3, <1>5

\* A writer goes on with what it remembers.
LEMMA WriterMoves ==
    ASSUME KeyTypes, NEW p \in KeyWriters, NEW at \in {"get", "set", "probe", "create"},
           KeyGoes(p, at)
    PROVE  /\ keyWriter' \in [KeyWriters ->
                  [at : {"get", "set", "probe", "create"}, version : Nat, value : Nat,
                   replaced : BOOLEAN]]
           /\ \A r \in KeyWriters : /\ keyWriter'[r].version = keyWriter[r].version
                                    /\ keyWriter'[r].value = keyWriter[r].value
                                    /\ keyWriter'[r].replaced = keyWriter[r].replaced
  BY DEF KeyTypes, KeyGoes

\* A step of the key's writers keeps their invariant.
LEMMA KeyStep == KeyInv /\ KeyNext => KeyInv'
  <1> SUFFICES ASSUME KeyInv, KeyNext PROVE KeyInv'
    OBVIOUS
  <1>1. ASSUME NEW p \in KeyWriters, KeyGet(p) PROVE KeyInv'
    <2>1. UNCHANGED <<keyRow, keyWrites, overwritten>> BY <1>1 DEF KeyGet
    <2> DEFINE r == IF keyRow.fresh
                    THEN [at |-> "set", version |-> keyRow.version,
                          value |-> keyRow.value, replaced |-> FALSE]
                    ELSE [at |-> "set", version |-> 0, value |-> 0, replaced |-> FALSE]
    <2>2. /\ r \in [at : {"get", "set", "probe", "create"}, version : Nat, value : Nat,
                    replaced : BOOLEAN]
          /\ r.version <= keyRow.version
          /\ (r.version = keyRow.version /\ keyRow.version > 0) => r.value = keyRow.value
      BY DEF KeyInv, KeyTypes
    <2>3. keyWriter' = [keyWriter EXCEPT ![p] = r] BY <1>1 DEF KeyGet
    <2> HIDE DEF r
    <2>4. KeyTypes' BY <2>1, <2>2, <2>3 DEF KeyInv, KeyTypes
    <2>5. ReadsOK' BY <2>1, <2>2, <2>3 DEF KeyInv, KeyTypes, ReadsOK
    <2>6. NoLostUpdate' BY <2>1 DEF KeyInv, NoLostUpdate
    <2> QED BY <2>4, <2>5, <2>6 DEF KeyInv
  <1>2. ASSUME NEW p \in KeyWriters, KeySet(p) PROVE KeyInv'
    <2>1. KeyWrite(keyRow.version + 1) /\ UNCHANGED <<keyWriter, overwritten>>
      BY <1>2 DEF KeySet
    <2>2. /\ keyRow.version + 1 \in Nat /\ keyRow.version + 1 > keyRow.version
          /\ keyRow.version + 1 <= keyWrites + 1
      BY MemoriesAssumption DEF KeyInv, KeyTypes
    <2>3. KeyTypes' /\ ReadsOK' BY <2>1, <2>2, WriteKeeps DEF KeyInv, KeyTypes
    <2>4. NoLostUpdate' BY <2>1 DEF KeyInv, NoLostUpdate
    <2> QED BY <2>3, <2>4 DEF KeyInv
  <1>3. ASSUME NEW p \in KeyWriters, KeyUpdate(p) PROVE KeyInv'
    <2>1. CASE VersionMatches(p)
      <3> DEFINE o == [read |-> keyWriter[p].value, found |-> keyRow.value,
                       replaced |-> keyWriter[p].replaced]
      <3>1. /\ KeyWrite(keyRow.version + 1) /\ KeyGoes(p, "get")
            /\ overwritten' = overwritten \union {o}
        BY <1>3, <2>1 DEF KeyUpdate
      <3>2. /\ keyRow.version + 1 \in Nat /\ keyRow.version + 1 > keyRow.version
            /\ keyRow.version + 1 <= keyWrites + 1
        BY MemoriesAssumption DEF KeyInv, KeyTypes
      <3>3. KeyTypes' /\ ReadsOK' BY <3>1, <3>2, WriteKeeps, WriterMoves DEF KeyInv
      <3>4. keyWriter[p].replaced \in BOOLEAN BY DEF KeyInv, KeyTypes
      <3>5. keyWriter[p].replaced \/ keyWriter[p].value = keyRow.value
        BY <2>1, <3>4 DEF KeyInv, ReadsOK, VersionMatches
      <3>6. o.replaced \/ o.read = o.found BY <3>5
      <3> HIDE DEF o
      <3>7. NoLostUpdate' BY <3>1, <3>6 DEF KeyInv, NoLostUpdate
      <3> QED BY <3>3, <3>7 DEF KeyInv
    <2>2. CASE ~VersionMatches(p)
      <3>1. KeyGoes(p, "probe") /\ UNCHANGED <<keyRow, keyWrites, overwritten>>
        BY <1>3, <2>2 DEF KeyUpdate
      <3> QED BY <3>1, WriterMoves DEF KeyInv, KeyTypes, ReadsOK, NoLostUpdate
    <2> QED BY <2>1, <2>2
  <1>4. ASSUME NEW p \in KeyWriters, KeyProbe(p) PROVE KeyInv'
    <2>1. /\ UNCHANGED <<keyRow, keyWrites, overwritten>>
          /\ \E at \in {"get", "create"} : KeyGoes(p, at)
      BY <1>4 DEF KeyProbe
    <2> QED BY <2>1, WriterMoves DEF KeyInv, KeyTypes, ReadsOK, NoLostUpdate
  <1>5. ASSUME NEW p \in KeyWriters, KeyCreate(p) PROVE KeyInv'
    <2>1. KeyGoes(p, "get") /\ UNCHANGED overwritten BY <1>5 DEF KeyCreate
    <2>2. NoLostUpdate' BY <2>1 DEF KeyInv, NoLostUpdate
    <2>3. CASE keyRow.version = 0
      <3>1. KeyWrite(1) BY <1>5, <2>3 DEF KeyCreate
      <3>2. 1 \in Nat /\ 1 > keyRow.version /\ 1 <= keyWrites + 1
        BY <2>3, MemoriesAssumption DEF KeyInv, KeyTypes
      <3>3. KeyTypes' /\ ReadsOK' BY <2>1, <3>1, <3>2, WriteKeeps, WriterMoves DEF KeyInv
      <3> QED BY <2>2, <3>3 DEF KeyInv
    <2>4. CASE keyRow.version # 0
      <3>1. UNCHANGED <<keyRow, keyWrites>> BY <1>5, <2>4 DEF KeyCreate
      <3> QED BY <2>1, <2>2, <3>1, WriterMoves DEF KeyInv, KeyTypes, ReadsOK
    <2> QED BY <2>3, <2>4
  <1>6. CASE KeyDelete
    <2>1. /\ keyRow' = [version |-> 0, value |-> 0, fresh |-> FALSE]
          /\ keyWriter' = [p \in KeyWriters |-> [keyWriter[p] EXCEPT !.replaced = TRUE]]
          /\ UNCHANGED <<keyWrites, overwritten>>
      BY <1>6 DEF KeyDelete, NoKey
    <2>2. keyWriter' \in [KeyWriters ->
              [at : {"get", "set", "probe", "create"}, version : Nat, value : Nat,
               replaced : BOOLEAN]]
      BY <2>1 DEF KeyInv, KeyTypes
    <2>3. \A p \in KeyWriters : keyWriter'[p].replaced = TRUE
      BY <2>1 DEF KeyInv, KeyTypes
    <2>4. KeyTypes' BY <2>1, <2>2, MemoriesAssumption DEF KeyInv, KeyTypes
    <2>5. ReadsOK' BY <2>3 DEF ReadsOK
    <2>6. NoLostUpdate' BY <2>1 DEF KeyInv, NoLostUpdate
    <2> QED BY <2>4, <2>5, <2>6 DEF KeyInv
  <1>7. CASE KeyExpires
    <2>1. /\ keyRow' \in [version : Nat, value : Nat, fresh : BOOLEAN]
          /\ keyRow'.version = keyRow.version /\ keyRow'.value = keyRow.value
          /\ UNCHANGED <<keyWriter, keyWrites, overwritten>>
      BY <1>7 DEF KeyExpires, KeyInv, KeyTypes
    <2> QED BY <2>1 DEF KeyInv, KeyTypes, ReadsOK, NoLostUpdate
  <1> QED BY <1>1, <1>2, <1>3, <1>4, <1>5, <1>6, <1>7 DEF KeyNext

-----------------------------------------------------------------------------
LEMMA InvInit == MemoriesInit => MemoriesInv
  <1> SUFFICES ASSUME MemoriesInit PROVE MemoriesInv
    OBVIOUS
  <1>1. StoreInit /\ KeyInit BY DEF MemoriesInit
  <1>2. TreeOK BY <1>1 DEF StoreInit, TreeOK
  <1>3. CallsOK
    <2>1. CallOK(IdleCall) BY DEF CallOK, IdleCall, Wires, Writing
    <2> QED BY <1>1, <2>1 DEF StoreInit, CallsOK
  <1>4. RecordsOK /\ CopiedOnce BY <1>1 DEF StoreInit, RecordsOK, CopiedOnce
  <1>5. ClearedOK
    <2>1. IdleCall.at = "over" BY DEF IdleCall
    <2> QED BY <1>1, <2>1 DEF StoreInit, ClearedOK, Writing
  <1>6. BreakerOK BY <1>1 DEF StoreInit, BreakerOK, OpenIsEarned
  <1>7. KeyTypes BY <1>1, MemoriesAssumption DEF KeyInit, KeyTypes, NoKey, IdleWriter
  <1>8. ReadsOK BY <1>1 DEF KeyInit, ReadsOK, NoKey, IdleWriter
  <1>9. NoLostUpdate BY <1>1 DEF KeyInit, NoLostUpdate
  <1> QED BY <1>2, <1>3, <1>4, <1>5, <1>6, <1>7, <1>8, <1>9
      DEF MemoriesInv, StoreInv, KeyInv

\* A step of either half leaves the other alone.
LEMMA InvStep == MemoriesInv /\ [MemoriesNext]_memoryVars => MemoriesInv'
  <1> SUFFICES ASSUME MemoriesInv, [MemoriesNext]_memoryVars PROVE MemoriesInv'
    OBVIOUS
  <1>1. ASSUME UNCHANGED storeVars PROVE StoreInv'
    BY <1>1 DEF MemoriesInv, storeVars, StoreInv, TreeOK, CallsOK, RecordsOK, RecordOK,
                CopiedOnce, ClearedOK, BreakerOK, OpenIsEarned
  <1>2. ASSUME UNCHANGED keyVars PROVE KeyInv'
    BY <1>2 DEF MemoriesInv, keyVars, KeyInv, KeyTypes, ReadsOK, NoLostUpdate
  <1>3. CASE StoreNext BY <1>2, <1>3, StoreStep DEF StoreNext, MemoriesInv
  <1>4. CASE KeyNext BY <1>1, <1>4, KeyStep DEF KeyNext, MemoriesInv
  <1>5. CASE UNCHANGED memoryVars BY <1>1, <1>2, <1>5 DEF memoryVars, MemoriesInv
  <1> QED BY <1>3, <1>4, <1>5 DEF MemoriesNext

LEMMA InvImplies == MemoriesInv => MemoriesAreKept
  <1> SUFFICES ASSUME MemoriesInv PROVE MemoriesAreKept
    OBVIOUS
  <1>1. MemoriesTypeOK
    <2>1. ownerRows \subseteq Owners /\ parentOf \in [Owners -> Owners \union {NoOwner}]
      BY DEF MemoriesInv, StoreInv, TreeOK
    <2>2. spaces \subseteq Spaces /\ \A m \in mem : m.space \in Spaces /\ m.by \in Owners
      BY DEF MemoriesInv, StoreInv, RecordsOK, RecordOK
    <2>3. \A q \in MemCalls : memCall[q].wire \in {"none", "reset", "sent"}
      BY DEF MemoriesInv, StoreInv, CallsOK, CallOK, Wires
    <2>4. breaker \in {"closed", "open", "cooled"} BY DEF MemoriesInv, StoreInv, BreakerOK
    <2>5. keyRow.version \in 0..MaxKeyWrites
      BY MemoriesAssumption DEF MemoriesInv, KeyInv, KeyTypes
    <2> QED BY <2>1, <2>2, <2>3, <2>4, <2>5 DEF MemoriesTypeOK
  <1>2. RecordsAreHoused BY DEF MemoriesInv, StoreInv, RecordsOK, RecordsAreHoused
  <1>3. OwnersWrite
    <2>1. \A m \in mem : m.space[1] # "team" => m.by = m.space[2]
      BY DEF MemoriesInv, StoreInv, RecordsOK, RecordOK
    <2>2. ASSUME NEW q \in MemCalls, memCall[q].at = "search", memCall[q].by # NoOwner,
                 NEW m \in Found(q), m.space[1] = "workspace"
          PROVE  m.by = memCall[q].by
      <3>1. m \in mem /\ m.space \in memCall[q].spaces BY DEF Found
      <3>2. m.space[2] = memCall[q].by
        BY <2>2, <3>1 DEF MemoriesInv, StoreInv, CallsOK, CallOK
      <3> QED BY <2>1, <2>2, <3>1, <3>2
    <2> QED BY <2>1, <2>2 DEF OwnersWrite
  <1>4. AckedIsRemembered
    <2>1. ASSUME NEW q \in MemCalls, memCall[q].at = "forget", NEW m \in Forgotten(q)
          PROVE  m.space \in memCall[q].spaces
      <3>1. PICK s \in Spaces : memCall[q].spaces = {s}
        BY <2>1 DEF MemoriesInv, StoreInv, CallsOK, CallOK
      <3> QED BY <3>1, TargetIsTheOne DEF Forgotten
    <2> QED BY <2>1 DEF AckedIsRemembered, MemoriesInv, StoreInv, RecordsOK
  <1>5. PurgedIsForgotten
    <2>1. \A m \in mem : m.space[1] = "workspace" => m.space[2] \notin cleared
      BY DEF MemoriesInv, StoreInv, ClearedOK
    <2> QED BY <2>1 DEF PurgedIsForgotten
  <1> QED BY <1>1, <1>2, <1>3, <1>4, <1>5
      DEF MemoriesAreKept, MemoriesInv, StoreInv, BreakerOK, KeyInv

\* The memories are kept: a record has its namespace, what is private was written
\* by its owner and is read by nobody else, an acknowledged record stays until
\* someone allowed to forgets it, the backfill copies a row once, a purged
\* workspace leaves nothing unless its own call was in flight, the breaker opens
\* on failures alone, and a conditional write of a key loses no update.
THEOREM MemoriesHold == MemoriesSpec => []MemoriesAreKept
  <1>1. MemoriesInit => MemoriesInv BY InvInit
  <1>2. MemoriesInv /\ [MemoriesNext]_memoryVars => MemoriesInv' BY InvStep
  <1>3. MemoriesInv => MemoriesAreKept BY InvImplies
  <1> QED BY <1>1, <1>2, <1>3, PTL DEF MemoriesSpec

=============================================================================
