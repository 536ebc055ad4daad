----------------------- MODULE WorkspaceRestartProofs -----------------------
(***************************************************************************)
(* Proofs that coalesceRestart has one runner, that boots do not overlap,  *)
(* that the breaker bounds the automatic restarts and that every write     *)
(* reaches the container, for any number of goroutines of any kind.        *)
(***************************************************************************)
EXTENDS WorkspaceRestart, FiniteSetTheorems, TLAPS

UnderGate == {"check", "stop", "record", "mark", "load", "start", "release"}

\* Which labels each kind of goroutine visits.
CoalescerLabels ==
    {"new", "door", "debounce", "enter", "loop", "gate", "check", "stop", "record", "mark",
     "load", "start", "release", "clear", "done"}
OwnerLabels == {"new", "reset", "preflight", "gate", "load", "start", "release", "done"}
ParkLabels == {"new", "stop", "pausing", "hibernating", "done"}

PcOK ==
    /\ pc \in [Callers -> Labels]
    /\ \A c \in Coalescers : pc[c] \in CoalescerLabels
    /\ \A c \in Owners : pc[c] \in OwnerLabels
    /\ \A c \in Parkers : pc[c] \in ParkLabels

\* The gate is held by exactly the goroutine between its Lock and its Unlock.
GateOK ==
    /\ gate = Nobody \/ gate \in Callers \ Parkers
    /\ \A c \in Callers \ Parkers : pc[c] \in UnderGate <=> gate = c

Control == PcOK /\ GateOK /\ OneRunner

LEMMA KindsApart ==
    /\ Coalescers \cap Owners = {}
    /\ Coalescers \cap Parkers = {}
    /\ Owners \cap Parkers = {}
    /\ Nobody \notin Callers
    /\ Callers = Coalescers \cup Owners \cup Parkers
<1>1. /\ Kinds[1] = Mutations /\ Kinds[2] = Writers /\ Kinds[3] = Autos
      /\ Kinds[4] = Manuals /\ Kinds[5] = Resumes /\ Kinds[6] = Wakes
      /\ Kinds[7] = Pauses /\ Kinds[8] = Hibernates
      /\ DOMAIN Kinds = 1 .. 8
  BY DEF Kinds
<1>2. \A i, j \in 1 .. 8 : i # j => Kinds[i] \cap Kinds[j] = {}
  BY <1>1, RestartAssumption DEF RestartAssumption
<1>3. Coalescers \cap Owners = {}
  BY <1>1, <1>2 DEF Coalescers, Owners
<1>4. Coalescers \cap Parkers = {}
  BY <1>1, <1>2 DEF Coalescers, Parkers
<1>5. Owners \cap Parkers = {}
  BY <1>1, <1>2 DEF Owners, Parkers
<1> QED
  BY <1>3, <1>4, <1>5, RestartAssumption DEF RestartAssumption, Callers

LEMMA ControlInit == Init => Control
  BY KindsApart DEF Init, Control, PcOK, GateOK, OneRunner, InLoop, Labels, UnderGate,
     CoalescerLabels, OwnerLabels, ParkLabels

\* A step of c to label l that leaves c as much under the gate, and as much in
\* the loop, as it was.
LEMMA Stays ==
    ASSUME Control, NEW c \in Callers, NEW l \in Labels, Goto(c, l),
           c \in Coalescers => l \in CoalescerLabels,
           c \in Owners => l \in OwnerLabels,
           c \in Parkers => l \in ParkLabels,
           c \notin Parkers => (pc[c] \in UnderGate <=> l \in UnderGate),
           c \in Coalescers => (pc[c] \in InLoop <=> l \in InLoop),
           UNCHANGED <<running, gate>>
    PROVE  Control'
<1>1. pc' \in [Callers -> Labels] /\ pc'[c] = l /\ \A d \in Callers : d # c => pc'[d] = pc[d]
  BY DEF Goto, Control, PcOK
<1>2. PcOK'
  BY <1>1, KindsApart DEF PcOK, Control
<1>3. GateOK'
  BY <1>1, KindsApart DEF GateOK, Control
<1>4. OneRunner'
  BY <1>1, KindsApart DEF OneRunner, Control
<1> QED
  BY <1>2, <1>3, <1>4 DEF Control

\* A step of c that takes the gate.
LEMMA Takes ==
    ASSUME Control, NEW c \in Callers \ Parkers, NEW l \in UnderGate, Goto(c, l),
           pc[c] = "gate", gate = Nobody, gate' = c, UNCHANGED running,
           c \in Coalescers => l \in CoalescerLabels,
           c \in Owners => l \in OwnerLabels
    PROVE  Control'
<1>0. l \in Labels /\ l \in InLoop
  BY DEF UnderGate, Labels, InLoop
<1>1. pc' \in [Callers -> Labels] /\ pc'[c] = l /\ \A d \in Callers : d # c => pc'[d] = pc[d]
  BY <1>0 DEF Goto, Control, PcOK
<1>2. PcOK'
  BY <1>1, KindsApart DEF PcOK, Control
<1>3. GateOK'
  BY <1>1, KindsApart DEF GateOK, Control
<1>4. OneRunner'
  <2>1. pc[c] \in InLoop
    BY DEF InLoop
  <2> QED
    BY <1>0, <1>1, <2>1, KindsApart DEF OneRunner, Control
<1> QED
  BY <1>2, <1>3, <1>4 DEF Control

\* A step of c that gives the gate back.
LEMMA GivesBack ==
    ASSUME Control, NEW c \in Callers \ Parkers, NEW l \in Labels \ UnderGate, Goto(c, l),
           pc[c] \in UnderGate, gate' = Nobody, UNCHANGED running,
           c \in Coalescers => l \in CoalescerLabels \cap InLoop,
           c \in Owners => l \in OwnerLabels
    PROVE  Control'
<1>1. pc' \in [Callers -> Labels] /\ pc'[c] = l /\ \A d \in Callers : d # c => pc'[d] = pc[d]
  BY DEF Goto, Control, PcOK
<1>2. PcOK'
  BY <1>1, KindsApart DEF PcOK, Control
<1>3. GateOK'
  BY <1>1, KindsApart DEF GateOK, Control
<1>4. OneRunner'
  <2>1. pc[c] \in InLoop
    BY DEF InLoop, UnderGate
  <2> QED
    BY <1>1, <2>1, KindsApart DEF OneRunner, Control
<1> QED
  BY <1>2, <1>3, <1>4 DEF Control

\* A step that no goroutine takes.
LEMMA Idles ==
    ASSUME Control, UNCHANGED <<pc, running, gate>>
    PROVE  Control'
  BY DEF Control, PcOK, GateOK, OneRunner

-----------------------------------------------------------------------------
LEMMA AsksKeeps ==
    ASSUME Control, NEW c \in Callers, Asks(c)
    PROVE  Control'
<1> USE DEF Labels, InLoop, UnderGate, CoalescerLabels, OwnerLabels, ParkLabels
<1>1. CASE Write(c)
  BY <1>1, Stays, KindsApart DEF Write, Coalescers, flags
<1>2. CASE Probe(c)
  BY <1>2, Stays, KindsApart DEF Probe, Coalescers, flags
<1>3. CASE Restart(c)
  BY <1>3, Stays, KindsApart DEF Restart, flags, Owners
<1>4. CASE Resume(c)
  BY <1>4, Stays, KindsApart DEF Resume, flags, Owners
<1>5. CASE WakeWorkspace(c)
  BY <1>5, Stays, KindsApart DEF WakeWorkspace, flags, Owners
<1>6. CASE Pause(c)
  BY <1>6, Stays, KindsApart DEF Pause, flags, Parkers
<1>7. CASE hibernateWorkspace(c)
  BY <1>7, Stays, KindsApart DEF hibernateWorkspace, flags, Parkers
<1> QED
  BY <1>1, <1>2, <1>3, <1>4, <1>5, <1>6, <1>7 DEF Asks

\* coalesceRestart: running is set by the goroutine that enters the loop and
\* cleared by the one that leaves it.
LEMMA RequestKeeps ==
    ASSUME Control, NEW c \in Callers, RequestStep(c)
    PROVE  Control'
<1> USE DEF Labels, InLoop, UnderGate, CoalescerLabels, OwnerLabels, ParkLabels
<1>0. pc \in [Callers -> Labels]
  BY DEF Control, PcOK
<1>1. CASE AutoDoor(c)
  <2>1. c \in Coalescers
    BY <1>1, KindsApart DEF AutoDoor, Control, PcOK
  <2> QED
    BY <1>1, <2>1, Stays, KindsApart DEF AutoDoor, flags
<1>2. CASE shouldDebounceRestart(c)
  <2>1. c \in Coalescers
    BY <1>2, KindsApart DEF shouldDebounceRestart, Control, PcOK
  <2> QED
    BY <1>2, <2>1, Stays, KindsApart DEF shouldDebounceRestart, flags
<1>3. CASE Enter(c)
  <2>1. c \in Coalescers /\ c \notin Parkers
    BY <1>3, KindsApart DEF Enter, Control, PcOK
  <2>2. CASE running
    BY <1>3, <2>1, <2>2, Stays, KindsApart DEF Enter
  <2>3. CASE ~running
    <3>1. /\ pc' \in [Callers -> Labels] /\ pc'[c] = "loop" /\ running' = TRUE /\ gate' = gate
          /\ \A d \in Callers : d # c => pc'[d] = pc[d]
      BY <1>0, <1>3, <2>3 DEF Enter, Goto
    <3>2. PcOK'
      BY <2>1, <3>1, KindsApart DEF Control, PcOK
    <3>3. GateOK'
      BY <1>3, <2>1, <3>1, KindsApart DEF Control, GateOK, Enter
    <3>4. OneRunner'
      BY <2>1, <2>3, <3>1, KindsApart DEF Control, OneRunner
    <3> QED
      BY <3>2, <3>3, <3>4 DEF Control
  <2> QED
    BY <2>2, <2>3
<1>4. CASE DrainPending(c)
  BY <1>4, Stays, KindsApart DEF DrainPending
<1>5. CASE LeaveLoop(c)
  BY <1>5, Stays, KindsApart DEF LeaveLoop, flags
<1>6. CASE ClearRunning(c)
  <2>1. c \in Coalescers /\ c \notin Parkers
    BY <1>6, KindsApart DEF ClearRunning, Control, PcOK
  <2>2. /\ pc' \in [Callers -> Labels] /\ pc'[c] = "done" /\ running' = FALSE /\ gate' = gate
        /\ \A d \in Callers : d # c => pc'[d] = pc[d]
    BY <1>0, <1>6 DEF ClearRunning, Goto
  <2>3. PcOK'
    BY <2>1, <2>2, KindsApart DEF Control, PcOK
  <2>4. GateOK'
    BY <1>6, <2>1, <2>2, KindsApart DEF Control, GateOK, ClearRunning
  <2>5. OneRunner'
    <3>1. \A d \in Coalescers : pc[d] \in InLoop => d = c
      BY <1>6, <2>1 DEF Control, OneRunner, ClearRunning
    <3> QED
      BY <2>1, <2>2, <3>1, KindsApart DEF OneRunner
  <2> QED
    BY <2>3, <2>4, <2>5 DEF Control
<1> QED
  BY <1>1, <1>2, <1>3, <1>4, <1>5, <1>6 DEF RequestStep

LEMMA CycleKeeps ==
    ASSUME Control, NEW c \in Callers, CycleStep(c)
    PROVE  Control'
<1> USE DEF Labels, InLoop, UnderGate, CoalescerLabels, OwnerLabels, ParkLabels
<1>1. CASE TakeGate(c)
  BY <1>1, Takes, KindsApart DEF TakeGate, flags
<1>2. CASE CheckBreaker(c)
  <2>1. c \in Coalescers
    BY <1>2, KindsApart DEF CheckBreaker, Control, PcOK
  <2> QED
    BY <1>2, <2>1, Stays, KindsApart DEF CheckBreaker, flags
<1>3. CASE stopForRestart(c)
  BY <1>3, Stays, KindsApart DEF stopForRestart, flags
<1>4. CASE RecordAuto(c)
  <2>1. c \in Coalescers
    BY <1>4, KindsApart DEF RecordAuto, Control, PcOK
  <2> QED
    BY <1>4, <2>1, Stays, KindsApart DEF RecordAuto, flags
<1>5. CASE MarkProvisioning(c)
  <2>1. c \in Coalescers
    BY <1>5, KindsApart DEF MarkProvisioning, Control, PcOK
  <2> QED
    BY <1>5, <2>1, Stays, KindsApart DEF MarkProvisioning, flags
<1> QED
  BY <1>1, <1>2, <1>3, <1>4, <1>5 DEF CycleStep

LEMMA ProvisionKeeps ==
    ASSUME Control, NEW c \in Callers, ProvisionStep(c)
    PROVE  Control'
<1> USE DEF Labels, InLoop, UnderGate, CoalescerLabels, OwnerLabels, ParkLabels
<1>0. c \notin Parkers
  BY KindsApart DEF ProvisionStep, loadWorkspaceSecrets, Start, ReleaseGate, Control, PcOK
<1>1. CASE loadWorkspaceSecrets(c)
  BY <1>0, <1>1, Stays, KindsApart DEF loadWorkspaceSecrets, flags
<1>2. CASE Start(c)
  BY <1>0, <1>2, Stays, KindsApart DEF Start, flags
<1>3. CASE ReleaseGate(c)
  BY <1>0, <1>3, GivesBack, KindsApart DEF ReleaseGate, flags
<1> QED
  BY <1>1, <1>2, <1>3 DEF ProvisionStep

LEMMA OwnerKeeps ==
    ASSUME Control, NEW c \in Callers, OwnerStep(c)
    PROVE  Control'
<1> USE DEF Labels, InLoop, UnderGate, CoalescerLabels, OwnerLabels, ParkLabels
<1>1. CASE resetAutoRestarts(c)
  <2>1. c \in Owners
    BY <1>1, KindsApart DEF resetAutoRestarts, Control, PcOK
  <2> QED
    BY <1>1, <2>1, Stays, KindsApart DEF resetAutoRestarts, flags
<1>2. CASE Preflight(c)
  <2>1. c \in Owners
    BY <1>2, KindsApart DEF Preflight, Control, PcOK
  <2> QED
    BY <1>2, <2>1, Stays, KindsApart DEF Preflight, flags
<1>3. CASE OwnerTakesGate(c) \/ provisionWorkspaceAuto(c)
  BY <1>3, Takes, KindsApart DEF OwnerTakesGate, provisionWorkspaceAuto, flags, Owners
<1>4. CASE StopWorkspaceAuto(c)
  BY <1>4, Stays, KindsApart DEF StopWorkspaceAuto, flags, Parkers
<1>5. CASE MarkPaused(c)
  <2>1. c \in Parkers
    BY <1>5, KindsApart DEF MarkPaused, Control, PcOK
  <2> QED
    BY <1>5, <2>1, Stays, KindsApart DEF MarkPaused, flags
<1>6. CASE HibernateStops(c)
  BY <1>6, Stays, KindsApart DEF HibernateStops, flags, Parkers
<1>7. CASE MarkHibernated(c)
  <2>1. c \in Parkers
    BY <1>7, KindsApart DEF MarkHibernated, Control, PcOK
  <2> QED
    BY <1>7, <2>1, Stays, KindsApart DEF MarkHibernated, flags
<1> QED
  BY <1>1, <1>2, <1>3, <1>4, <1>5, <1>6, <1>7 DEF OwnerStep

LEMMA FaultKeeps ==
    ASSUME Control, NEW c \in Callers, FaultStep(c)
    PROVE  Control'
<1> USE DEF Labels, InLoop, UnderGate, CoalescerLabels, OwnerLabels, ParkLabels
<1>1. CASE Decline(c)
  BY <1>1, Stays, KindsApart DEF Decline, flags
<1>2. CASE StartFails(c)
  <2>1. c \notin Parkers
    BY <1>2, KindsApart DEF StartFails, Control, PcOK
  <2> QED
    BY <1>2, <2>1, Stays, KindsApart DEF StartFails, flags
<1>3. CASE Panic(c)
  BY <1>3, GivesBack, KindsApart DEF Panic, flags
<1> QED
  BY <1>1, <1>2, <1>3 DEF FaultStep

LEMMA ControlStep == Control /\ [Next]_vars => Control'
<1> SUFFICES ASSUME Control, [Next]_vars PROVE Control'
  OBVIOUS
<1>1. CASE \E c \in Callers : Asks(c) \/ Goes(c) \/ FaultStep(c)
  BY <1>1, AsksKeeps, RequestKeeps, CycleKeeps, ProvisionKeeps, OwnerKeeps, FaultKeeps DEF Goes
<1>2. CASE Register \/ Heartbeat
  BY <1>2, Idles DEF Register, Heartbeat, flags
<1>3. CASE holdQueueAfterRestart
  BY <1>3, Idles DEF holdQueueAfterRestart, flags
<1>4. CASE Tick
  BY <1>4, Idles DEF Tick
<1>5. CASE UNCHANGED vars
  BY <1>5, Idles DEF vars
<1> QED
  BY <1>1, <1>2, <1>3, <1>4, <1>5 DEF Next

\* Control is what the gate and the running flag mean, for any number of
\* goroutines of each kind, any windows and any number of faults.
LEMMA ControlHolds == Spec => []Control
  BY ControlInit, ControlStep, PTL DEF Spec

-----------------------------------------------------------------------------
\* coalesceRestart never has two runners, and running says whether it has one,
\* panicking cycles included.
THEOREM RunnerIsAlone == Spec => []OneRunner
<1>1. Control => OneRunner
  BY DEF Control
<1> QED
  BY <1>1, ControlHolds, PTL

\* No two restarts are between their stop and their start at once, through
\* whichever of RestartByID, AutoRestartByID, Restart, Resume and wake they came.
THEOREM BootsDoNotOverlap == Spec => []OneBootAtATime
<1>1. Control => OneBootAtATime
  BY KindsApart DEF Control, GateOK, OneBootAtATime, Booting, UnderGate
<1> QED
  BY <1>1, ControlHolds, PTL

-----------------------------------------------------------------------------
(***************************************************************************)
(* Types.                                                                  *)
(***************************************************************************)
LEMMA TypeInit == Init => TypeOK
<1> SUFFICES ASSUME Init PROVE TypeOK
  OBVIOUS
<1> USE RestartAssumption DEF RestartAssumption, Init, Never
<1>1. /\ stamp \in 0 .. Window + 1 /\ age \in [Autos -> 0 .. AutoWindow]
      /\ drained \in [Coalescers -> Nat] /\ faults \in Nat
  OBVIOUS
<1>2. pc \in [Callers -> Labels] /\ seen \in [Callers -> SUBSET Callers]
  BY DEF Labels
<1>3. serves \in [Coalescers -> SUBSET written]
  OBVIOUS
<1>4. running \in BOOLEAN /\ pending \in BOOLEAN /\ halted \in BOOLEAN /\ held \in BOOLEAN /\ up \in BOOLEAN
  OBVIOUS
<1> QED
  BY <1>1, <1>2, <1>3, <1>4 DEF TypeOK

\* A request on its way to the loop, and the loop itself.
LEMMA RequestTypes ==
    ASSUME TypeOK, NEW c \in Callers, RequestStep(c)
    PROVE  TypeOK'
<1> USE RestartAssumption, KindsApart
    DEF RestartAssumption, TypeOK, Goto, Labels, InLoop, flags, breaker, box, writes
<1>1. CASE AutoDoor(c)
  <2>1. Tripped \in BOOLEAN
    BY DEF Tripped
  <2> QED
    BY <1>1, <2>1 DEF AutoDoor, Halt, Dormant
<1>2. CASE shouldDebounceRestart(c)
  BY <1>2 DEF shouldDebounceRestart
<1>3. CASE Enter(c)
  <2>1. pc' \in [Callers -> Labels]
    BY <1>3 DEF Enter
  <2>2. running' \in BOOLEAN /\ pending' \in BOOLEAN
    BY <1>3, Zenon DEF Enter
  <2>3. stamp' \in 0 .. Window + 1
    BY <1>3 DEF Enter
  <2>4. riding' \subseteq written
    BY <1>3 DEF Enter
  <2> QED
    BY <1>3, <2>1, <2>2, <2>3, <2>4 DEF Enter
<1>4. CASE DrainPending(c)
  <2>1. drained' \in [Coalescers -> Nat]
    BY <1>4 DEF DrainPending
  <2>2. serves' \in [Coalescers -> SUBSET written]
    BY <1>4 DEF DrainPending
  <2>3. pc' \in [Callers -> Labels] /\ riding' = {} /\ pending' = FALSE /\ UNCHANGED written
    BY <1>4 DEF DrainPending
  <2>4. stamp' \in 0 .. Window + 1
    BY <1>4 DEF DrainPending
  <2> QED
    BY <1>4, <2>1, <2>2, <2>3, <2>4 DEF DrainPending
<1>5. CASE LeaveLoop(c)
  BY <1>5 DEF LeaveLoop
<1>6. CASE ClearRunning(c)
  BY <1>6 DEF ClearRunning
<1> QED
  BY <1>1, <1>2, <1>3, <1>4, <1>5, <1>6 DEF RequestStep

\* A cycle under the gate, and what may go wrong in it.
LEMMA CycleTypes ==
    ASSUME TypeOK, NEW c \in Callers, CycleStep(c) \/ FaultStep(c)
    PROVE  TypeOK'
<1> USE RestartAssumption, KindsApart
    DEF RestartAssumption, TypeOK, Goto, Labels, InLoop, flags, breaker, box, writes,
        StopOrLeak, WriteStatus, Fault
<1>1. CASE TakeGate(c)
  BY <1>1 DEF TakeGate
<1>2. CASE CheckBreaker(c)
  <2>1. Tripped \in BOOLEAN
    BY DEF Tripped
  <2>2. Automatic(c) => c \in Coalescers
    BY DEF Automatic, Coalescers
  <2> QED
    BY <1>2, <2>1, <2>2 DEF CheckBreaker, Halt, Dormant
<1>3. CASE stopForRestart(c)
  <2>1. pc' \in [Callers -> Labels] /\ gate' \in Callers \cup {Nobody}
    BY <1>3 DEF stopForRestart
  <2>2. up' \in BOOLEAN
    BY <1>3, Zenon DEF stopForRestart
  <2>3. faults' \in Nat
    BY <1>3 DEF stopForRestart
  <2> QED
    BY <1>3, <2>1, <2>2, <2>3 DEF stopForRestart
<1>4. CASE RecordAuto(c)
  <2>1. age' \in [Autos -> 0 .. AutoWindow]
    BY <1>4 DEF RecordAuto
  <2>2. pc' \in [Callers -> Labels]
    BY <1>4 DEF RecordAuto
  <2>3. held' \in BOOLEAN
    BY <1>4, Zenon DEF RecordAuto
  <2> QED
    BY <1>4, <2>1, <2>2, <2>3 DEF RecordAuto
<1>5. CASE MarkProvisioning(c)
  BY <1>5 DEF MarkProvisioning
<1>6. CASE Decline(c)
  BY <1>6 DEF Decline
<1>7. CASE StartFails(c)
  <2>1. up' \in BOOLEAN /\ boot' \subseteq Callers /\ starter' \in Callers \cup {Nobody}
    BY <1>7 DEF StartFails
  <2>2. excused' \subseteq written
    BY <1>7 DEF StartFails
  <2>3. pc' \in [Callers -> Labels] /\ faults' \in Nat
    BY <1>7 DEF StartFails
  <2> QED
    BY <1>7, <2>1, <2>2, <2>3 DEF StartFails
<1>8. CASE Panic(c)
  BY <1>8 DEF Panic
<1> QED
  BY <1>1, <1>2, <1>3, <1>4, <1>5, <1>6, <1>7, <1>8 DEF CycleStep, FaultStep

\* The provision, and the owner's own paths to it and to a parked row.
LEMMA OwnerTypes ==
    ASSUME TypeOK, NEW c \in Callers, ProvisionStep(c) \/ OwnerStep(c)
    PROVE  TypeOK'
<1> USE RestartAssumption, KindsApart
    DEF RestartAssumption, TypeOK, Goto, Labels, InLoop, flags, breaker, box, writes,
        StopOrLeak, WriteStatus, Fault
<1>1. CASE loadWorkspaceSecrets(c)
  BY <1>1 DEF loadWorkspaceSecrets
<1>2. CASE Start(c)
  BY <1>2 DEF Start
<1>3. CASE ReleaseGate(c)
  BY <1>3 DEF ReleaseGate
<1>4. CASE resetAutoRestarts(c)
  <2>1. age' \in [Autos -> 0 .. AutoWindow]
    BY <1>4 DEF resetAutoRestarts
  <2>2. pc' \in [Callers -> Labels]
    BY <1>4 DEF resetAutoRestarts
  <2> QED
    BY <1>4, <2>1, <2>2 DEF resetAutoRestarts
<1>5. CASE Preflight(c)
  BY <1>5 DEF Preflight
<1>6. CASE OwnerTakesGate(c)
  <2>1. pc' \in [Callers -> Labels] /\ gate' \in Callers \cup {Nobody}
    BY <1>6 DEF OwnerTakesGate
  <2>2. up' \in BOOLEAN
    BY <1>6, Zenon DEF OwnerTakesGate
  <2>3. faults' \in Nat
    BY <1>6 DEF OwnerTakesGate
  <2> QED
    BY <1>6, <2>1, <2>2, <2>3 DEF OwnerTakesGate
<1>7. CASE provisionWorkspaceAuto(c)
  BY <1>7 DEF provisionWorkspaceAuto
<1>8. CASE StopWorkspaceAuto(c)
  <2>1. pc' \in [Callers -> Labels] /\ gate' \in Callers \cup {Nobody}
    BY <1>8 DEF StopWorkspaceAuto
  <2>2. up' \in BOOLEAN
    BY <1>8, Zenon DEF StopWorkspaceAuto
  <2>3. faults' \in Nat
    BY <1>8 DEF StopWorkspaceAuto
  <2> QED
    BY <1>8, <2>1, <2>2, <2>3 DEF StopWorkspaceAuto
<1>9. CASE MarkPaused(c)
  BY <1>9 DEF MarkPaused
<1>10. CASE HibernateStops(c)
  <2>1. pc' \in [Callers -> Labels] /\ gate' \in Callers \cup {Nobody}
    BY <1>10 DEF HibernateStops
  <2>2. up' \in BOOLEAN
    BY <1>10, Zenon DEF HibernateStops
  <2>3. faults' \in Nat
    BY <1>10 DEF HibernateStops
  <2> QED
    BY <1>10, <2>1, <2>2, <2>3 DEF HibernateStops
<1>11. CASE MarkHibernated(c)
  BY <1>11 DEF MarkHibernated
<1> QED
  BY <1>1, <1>2, <1>3, <1>4, <1>5, <1>6, <1>7, <1>8, <1>9, <1>10, <1>11 DEF ProvisionStep, OwnerStep

\* A request that begins.
LEMMA AskTypes ==
    ASSUME TypeOK, NEW c \in Callers, Asks(c)
    PROVE  TypeOK'
<1> USE RestartAssumption, KindsApart
    DEF RestartAssumption, TypeOK, Goto, Labels, InLoop, flags, breaker, box, writes,
        WriteStatus, Fault
<1>1. CASE Write(c)
  BY <1>1 DEF Write
<1>2. CASE Probe(c)
  BY <1>2 DEF Probe
<1>3. CASE Restart(c)
  BY <1>3 DEF Restart
<1>4. CASE Resume(c)
  BY <1>4 DEF Resume
<1>5. CASE WakeWorkspace(c)
  BY <1>5 DEF WakeWorkspace
<1>6. CASE Pause(c)
  BY <1>6 DEF Pause
<1>7. CASE hibernateWorkspace(c)
  BY <1>7 DEF hibernateWorkspace
<1> QED
  BY <1>1, <1>2, <1>3, <1>4, <1>5, <1>6, <1>7 DEF Asks

LEMMA TypeStep == TypeOK /\ [Next]_vars => TypeOK'
<1> SUFFICES ASSUME TypeOK, [Next]_vars PROVE TypeOK'
  OBVIOUS
<1> USE DEF flags, breaker, box, writes
<1>1. ASSUME NEW c \in Callers, Asks(c) \/ Goes(c) \/ FaultStep(c)
      PROVE  TypeOK'
  BY <1>1, AskTypes, RequestTypes, CycleTypes, OwnerTypes DEF Goes
<1>2. CASE Register \/ Heartbeat
  BY <1>2 DEF Register, Heartbeat, TypeOK
<1>3. CASE holdQueueAfterRestart
  BY <1>3 DEF holdQueueAfterRestart, TypeOK
<1>4. CASE Tick
  BY <1>4, RestartAssumption DEF RestartAssumption, Tick, TypeOK, Debounced, Never
<1>5. CASE UNCHANGED vars
  BY <1>5 DEF vars, TypeOK
<1> QED
  BY <1>1, <1>2, <1>3, <1>4, <1>5 DEF Next

LEMMA TypesHold == Spec => []TypeOK
  BY TypeInit, TypeStep, PTL DEF Spec

\* Every variable keeps its type, one loop and one boot at a time: the restarts
\* of a workspace are serial (coalesceRestart, acquireRestartProvisionGate).
THEOREM RestartsDoNotOverlap == Spec => []RestartsAreSerial
  BY TypesHold, RunnerIsAlone, BootsDoNotOverlap, PTL DEF RestartsAreSerial

-----------------------------------------------------------------------------
(***************************************************************************)
(* The breaker.  A probe passes the door long before it is counted, so the *)
(* bound rests on the second check: from there to recordAutoRestart the    *)
(* cycle holds the gate, and nobody else can add to the count.             *)
(***************************************************************************)
Cleared(a) == Automatic(a) /\ pc[a] \in {"stop", "record"}

BreakerInv ==
    /\ age \in [Autos -> 0 .. AutoWindow]
    /\ drained \in [Coalescers -> Nat]
    /\ BreakerBounds
    /\ \A a \in Autos : Cleared(a) => Cardinality(Recent) < AutoLimit

LEMMA RecentIsFinite == IsFiniteSet(Recent) /\ Cardinality(Recent) \in Nat
<1>1. IsFiniteSet(Recent)
  BY RestartAssumption, FS_Subset DEF RestartAssumption, Recent
<1> QED
  BY <1>1, FS_CardinalityType

\* Time and the owner's reset only shrink the count.
LEMMA Shrinks ==
    ASSUME Recent' \subseteq Recent
    PROVE  Cardinality(Recent') \in Nat /\ Cardinality(Recent') <= Cardinality(Recent)
<1>1. IsFiniteSet(Recent') /\ Cardinality(Recent') <= Cardinality(Recent)
  BY RecentIsFinite, FS_Subset
<1> QED
  BY <1>1, FS_CardinalityType

LEMMA BreakerInit == Init => BreakerInv
<1> SUFFICES ASSUME Init PROVE BreakerInv
  OBVIOUS
<1>1. Recent = {}
  BY RestartAssumption DEF RestartAssumption, Init, Recent
<1>2. Cardinality(Recent) = 0
  BY <1>1, FS_EmptySet
<1>3. \A a \in Autos : ~Cleared(a)
  BY DEF Init, Cleared, Callers, Coalescers
<1> QED
  BY <1>2, <1>3, RestartAssumption DEF RestartAssumption, Init, BreakerInv, BreakerBounds

\* A step of c to a label before the check or past the count, or a step of a
\* goroutine that is no probe.
LEMMA NotCleared ==
    ASSUME Control, BreakerInv, NEW c \in Callers, NEW l, Goto(c, l),
           c \in Autos => l \notin {"stop", "record"},
           UNCHANGED <<age, drained>>
    PROVE  BreakerInv'
<1>1. \A d \in Callers : pc'[d] = IF d = c THEN l ELSE pc[d]
  BY DEF Goto, Control, PcOK
<1>2. \A a \in Autos : Cleared(a)' => Cleared(a)
  BY <1>1 DEF Cleared, Automatic, Callers, Coalescers
<1>3. Recent' = Recent
  BY DEF Recent
<1> QED
  BY <1>2, <1>3 DEF BreakerInv, BreakerBounds

LEMMA BreakerAsks ==
    ASSUME Control, BreakerInv, NEW c \in Callers, Asks(c)
    PROVE  BreakerInv'
<1>1. CASE Write(c)
  BY <1>1, NotCleared DEF Write, breaker
<1>2. CASE Probe(c)
  BY <1>2, NotCleared DEF Probe, breaker
<1>3. CASE Restart(c)
  BY <1>3, NotCleared DEF Restart, breaker
<1>4. CASE Resume(c)
  BY <1>4, NotCleared DEF Resume, breaker
<1>5. CASE WakeWorkspace(c)
  BY <1>5, NotCleared DEF WakeWorkspace, breaker
<1>6. CASE Pause(c)
  BY <1>6, NotCleared, KindsApart DEF Pause, breaker, Coalescers, Parkers
<1>7. CASE hibernateWorkspace(c)
  BY <1>7, NotCleared, KindsApart DEF hibernateWorkspace, breaker, Coalescers, Parkers
<1> QED
  BY <1>1, <1>2, <1>3, <1>4, <1>5, <1>6, <1>7 DEF Asks

LEMMA BreakerRequest ==
    ASSUME Control, BreakerInv, NEW c \in Callers, RequestStep(c)
    PROVE  BreakerInv'
<1>1. CASE AutoDoor(c)
  BY <1>1, NotCleared DEF AutoDoor
<1>2. CASE shouldDebounceRestart(c)
  BY <1>2, NotCleared DEF shouldDebounceRestart, breaker
<1>3. CASE Enter(c)
  BY <1>3, NotCleared DEF Enter, breaker
<1>4. CASE DrainPending(c)
  <2>1. \A d \in Callers : pc'[d] = IF d = c THEN "gate" ELSE pc[d]
    BY <1>4 DEF DrainPending, Goto, Control, PcOK
  <2>2. drained' \in [Coalescers -> Nat] /\ \A d \in Coalescers : d # c => drained'[d] = drained[d]
    BY <1>4 DEF DrainPending, BreakerInv
  <2>3. \A a \in Autos : Cleared(a)' => Cleared(a)
    BY <2>1, <2>2 DEF Cleared, Automatic, Callers, Coalescers
  <2>4. age' = age /\ Recent' = Recent
    BY <1>4 DEF DrainPending, breaker, Recent
  <2> QED
    BY <2>2, <2>3, <2>4 DEF BreakerInv, BreakerBounds
<1>5. CASE LeaveLoop(c)
  BY <1>5, NotCleared DEF LeaveLoop, breaker
<1>6. CASE ClearRunning(c)
  BY <1>6, NotCleared DEF ClearRunning, breaker
<1> QED
  BY <1>1, <1>2, <1>3, <1>4, <1>5, <1>6 DEF RequestStep

\* The check clears a cycle that holds the gate; counting it uses the
\* clearance up.
LEMMA BreakerCycle ==
    ASSUME Control, BreakerInv, NEW c \in Callers, CycleStep(c)
    PROVE  BreakerInv'
<1>1. CASE TakeGate(c)
  BY <1>1, NotCleared DEF TakeGate, breaker
<1>2. CASE CheckBreaker(c)
  <2>1. age' = age /\ drained' = drained /\ Recent' = Recent
    BY <1>2 DEF CheckBreaker, Recent
  <2>2. \A d \in Callers : d # c => pc'[d] = pc[d]
    BY <1>2 DEF CheckBreaker, Goto, Control, PcOK
  <2>3. Automatic(c) /\ Tripped => pc'[c] = "release"
    BY <1>2 DEF CheckBreaker, Goto, Control, PcOK
  <2>4. ASSUME NEW a \in Autos, Cleared(a)' PROVE Cardinality(Recent) < AutoLimit
    <3>1. a \in Callers /\ a \in Coalescers
      BY DEF Callers, Coalescers
    <3>2. CASE a = c
      <4>1. Automatic(c)
        BY <2>1, <2>4, <3>2 DEF Cleared, Automatic
      <4>2. ~Tripped
        BY <2>3, <2>4, <3>2, <4>1 DEF Cleared
      <4> QED
        BY <4>2, RecentIsFinite, RestartAssumption DEF Tripped, RestartAssumption
    <3>3. CASE a # c
      BY <2>1, <2>2, <2>4, <3>1, <3>3 DEF Cleared, Automatic, BreakerInv
    <3> QED
      BY <3>2, <3>3
  <2> QED
    BY <2>1, <2>4 DEF BreakerInv, BreakerBounds
<1>3. CASE stopForRestart(c)
  <2>1. age' = age /\ drained' = drained /\ Recent' = Recent
    BY <1>3 DEF stopForRestart, breaker, Recent
  <2>2. \A d \in Callers : pc'[d] = IF d = c THEN "record" ELSE pc[d]
    BY <1>3 DEF stopForRestart, Goto, Control, PcOK
  <2>3. \A a \in Autos : Cleared(a)' => Cleared(a)
    BY <1>3, <2>1, <2>2 DEF stopForRestart, Cleared, Automatic, Callers, Coalescers
  <2> QED
    BY <2>1, <2>3 DEF BreakerInv, BreakerBounds
<1>4. CASE RecordAuto(c)
  <2>1. CASE ~Automatic(c)
    BY <1>4, <2>1, NotCleared DEF RecordAuto
  <2>2. CASE Automatic(c)
    <3>1. c \in Autos /\ c \in Coalescers /\ Cleared(c) /\ c \notin Parkers
      BY <1>4, <2>2, KindsApart DEF RecordAuto, Automatic, Cleared, Coalescers
    <3>2. age' = [age EXCEPT ![c] = 0] /\ drained' = drained
      BY <1>4, <2>2 DEF RecordAuto
    <3>3. age' \in [Autos -> 0 .. AutoWindow]
      BY <3>1, <3>2, RestartAssumption DEF RestartAssumption, BreakerInv
    <3>4. Recent' = Recent \cup {c}
      BY <3>1, <3>2, RestartAssumption DEF RestartAssumption, BreakerInv, Recent
    <3>5. Cardinality(Recent') <= Cardinality(Recent) + 1
      <4>1. Cardinality(Recent \cup {c}) \in {Cardinality(Recent), Cardinality(Recent) + 1}
        BY RecentIsFinite, FS_AddElement, Zenon
      <4> QED
        BY <3>4, <4>1, RecentIsFinite
    <3>6. Cardinality(Recent') \in Nat /\ Cardinality(Recent') <= AutoLimit
      <4>1. Cardinality(Recent) < AutoLimit
        BY <3>1 DEF BreakerInv
      <4>2. Cardinality(Recent') \in Nat
        BY <3>4, RecentIsFinite, FS_AddElement, FS_CardinalityType
      <4> QED
        BY <3>5, <4>1, <4>2, RecentIsFinite, RestartAssumption DEF RestartAssumption
    <3>7. \A a \in Autos : ~Cleared(a)'
      <4> SUFFICES ASSUME NEW a \in Autos PROVE ~Cleared(a)'
        OBVIOUS
      <4>0. a \in Callers \ Parkers /\ c \in Callers \ Parkers
        BY <3>1, KindsApart DEF Coalescers
      <4>1. pc'[c] = "mark" /\ \A d \in Callers : d # c => pc'[d] = pc[d]
        BY <1>4 DEF RecordAuto, Goto, Control, PcOK
      <4>2. gate = c
        BY <1>4, <4>0 DEF RecordAuto, Control, GateOK, UnderGate
      <4>3. a # c => pc[a] \notin {"stop", "record"}
        BY <4>0, <4>2 DEF Control, GateOK, UnderGate
      <4> QED
        BY <4>0, <4>1, <4>3 DEF Cleared
    <3> QED
      BY <3>2, <3>3, <3>6, <3>7 DEF BreakerInv, BreakerBounds
  <2> QED
    BY <2>1, <2>2
<1>5. CASE MarkProvisioning(c)
  BY <1>5, NotCleared DEF MarkProvisioning, breaker
<1> QED
  BY <1>1, <1>2, <1>3, <1>4, <1>5 DEF CycleStep

LEMMA BreakerProvision ==
    ASSUME Control, BreakerInv, NEW c \in Callers, ProvisionStep(c) \/ FaultStep(c)
    PROVE  BreakerInv'
<1>1. CASE loadWorkspaceSecrets(c)
  BY <1>1, NotCleared DEF loadWorkspaceSecrets, breaker
<1>2. CASE Start(c)
  BY <1>2, NotCleared DEF Start, breaker
<1>3. CASE ReleaseGate(c)
  BY <1>3, NotCleared DEF ReleaseGate, breaker
<1>4. CASE Decline(c)
  BY <1>4, NotCleared DEF Decline, breaker
<1>5. CASE StartFails(c)
  BY <1>5, NotCleared DEF StartFails, breaker
<1>6. CASE Panic(c)
  BY <1>6, NotCleared DEF Panic, breaker
<1> QED
  BY <1>1, <1>2, <1>3, <1>4, <1>5, <1>6 DEF ProvisionStep, FaultStep

\* A step that shrinks the count and clears nobody.
LEMMA CountShrinks ==
    ASSUME BreakerInv, age' \in [Autos -> 0 .. AutoWindow], UNCHANGED drained,
           Recent' \subseteq Recent, \A a \in Autos : Cleared(a)' => Cleared(a)
    PROVE  BreakerInv'
  BY Shrinks, RecentIsFinite, RestartAssumption DEF RestartAssumption, BreakerInv, BreakerBounds

LEMMA BreakerOwner ==
    ASSUME Control, BreakerInv, NEW c \in Callers, OwnerStep(c)
    PROVE  BreakerInv'
<1>1. CASE resetAutoRestarts(c)
  <2>1. age' \in [Autos -> 0 .. AutoWindow] /\ drained' = drained /\ Recent' = {}
    BY <1>1, RestartAssumption DEF resetAutoRestarts, RestartAssumption, Recent
  <2>2. \A d \in Callers : d # c => pc'[d] = pc[d]
    BY <1>1 DEF resetAutoRestarts, Goto, Control, PcOK
  <2>3. c \notin Autos
    BY <1>1, KindsApart DEF resetAutoRestarts, Control, PcOK, CoalescerLabels, Coalescers
  <2>4. \A a \in Autos : Cleared(a)' => Cleared(a)
    BY <2>1, <2>2, <2>3 DEF Cleared, Automatic, Callers, Coalescers
  <2> QED
    BY <2>1, <2>4, CountShrinks
<1>2. CASE Preflight(c)
  BY <1>2, NotCleared DEF Preflight, breaker
<1>3. CASE OwnerTakesGate(c) \/ provisionWorkspaceAuto(c)
  BY <1>3, NotCleared DEF OwnerTakesGate, provisionWorkspaceAuto, breaker
<1>4. CASE StopWorkspaceAuto(c)
  BY <1>4, NotCleared DEF StopWorkspaceAuto, breaker
<1>5. CASE MarkPaused(c)
  BY <1>5, NotCleared DEF MarkPaused, breaker
<1>6. CASE HibernateStops(c)
  BY <1>6, NotCleared DEF HibernateStops, breaker
<1>7. CASE MarkHibernated(c)
  BY <1>7, NotCleared DEF MarkHibernated, breaker
<1> QED
  BY <1>1, <1>2, <1>3, <1>4, <1>5, <1>6, <1>7 DEF OwnerStep

LEMMA BreakerStep == Control /\ BreakerInv /\ [Next]_vars => BreakerInv'
<1> SUFFICES ASSUME Control, BreakerInv, [Next]_vars PROVE BreakerInv'
  OBVIOUS
<1>1. CASE \E c \in Callers : Asks(c) \/ Goes(c) \/ FaultStep(c)
  BY <1>1, BreakerAsks, BreakerRequest, BreakerCycle, BreakerProvision, BreakerOwner DEF Goes
<1>2. CASE UNCHANGED <<age, pc, drained>>
  <2>1. Recent' = Recent /\ \A a \in Autos : Cleared(a)' => Cleared(a)
    BY <1>2 DEF Recent, Cleared, Automatic
  <2> QED
    BY <1>2, <2>1 DEF BreakerInv, BreakerBounds
<1>3. CASE Register \/ Heartbeat \/ holdQueueAfterRestart \/ UNCHANGED vars
  BY <1>2, <1>3 DEF Register, Heartbeat, holdQueueAfterRestart, vars, breaker
<1>4. CASE Tick
  <2>1. age' \in [Autos -> 0 .. AutoWindow] /\ Recent' \subseteq Recent
    BY <1>4, RestartAssumption DEF Tick, RestartAssumption, BreakerInv, Recent
  <2>2. UNCHANGED drained /\ \A a \in Autos : Cleared(a)' => Cleared(a)
    BY <1>4 DEF Tick, Cleared, Automatic
  <2> QED
    BY <2>1, <2>2, CountShrinks
<1> QED
  BY <1>1, <1>3, <1>4 DEF Next

\* The breaker lets no more than autoRestartLimit automatic restarts into one
\* window, however many probes passed its door before the first was counted.
THEOREM LimitPerWindow == Spec => []BreakerBounds
<1>1. Spec => []BreakerInv
  BY BreakerInit, BreakerStep, ControlHolds, PTL DEF Spec
<1>2. BreakerInv => BreakerBounds
  BY DEF BreakerInv
<1> QED
  BY <1>1, <1>2, PTL

-----------------------------------------------------------------------------
(***************************************************************************)
(* Writes land.  A write is followed from its commit through its request,  *)
(* the pending flag and the cycle that takes it over, to the container.    *)
(* The gate keeps a container that knows a write from being replaced by    *)
(* one that was given an older snapshot of the secrets.                    *)
(***************************************************************************)
Serving == {"gate", "check", "stop", "record", "mark", "load", "start"}

Underway(w) ==
    \/ w \in excused \/ w \in boot
    \/ pc[w] \in {"debounce", "enter"}
    \/ w \in riding /\ running
    \/ \E c \in Coalescers : w \in serves[c] /\ pc[c] \in Serving

\* What a goroutine about to start a container was given.
IsFresh(c) ==
    /\ boot \subseteq seen[c] /\ seen[c] \subseteq written
    /\ c \in Coalescers => serves[c] \subseteq seen[c]

LandInv ==
    /\ written \subseteq Mutations \cup Writers
    /\ boot \subseteq written /\ riding \subseteq written
    /\ serves \in [Coalescers -> SUBSET written]
    /\ seen \in [Callers -> SUBSET Callers]
    /\ \A c \in Callers : pc[c] = "start" => IsFresh(c)
    /\ \A w \in written : Underway(w)

LEMMA LandInit == Init => LandInv
  BY DEF Init, LandInv, IsFresh

\* Written by coalescing goroutines.
LEMMA WritersCoalesce == Mutations \cup Writers \subseteq Coalescers /\ Coalescers \subseteq Callers
  BY DEF Coalescers, Callers

\* A step of c that commits nothing, starts nothing, and neither takes a
\* request over nor lets one go, unless the write is excused with it.
LEMMA WritesStay ==
    ASSUME Control, LandInv, NEW c \in Callers, NEW l, Goto(c, l),
           UNCHANGED <<running, boot, seen, written, riding, serves>>, excused \subseteq excused',
           l # "start",
           (c \in Coalescers /\ pc[c] \in Serving) => (l \in Serving \/ serves[c] \subseteq excused'),
           pc[c] \in {"debounce", "enter"} =>
               (l \in {"debounce", "enter"} \/ c \in excused' \/ c \notin written)
    PROVE  LandInv'
<1>1. \A d \in Callers : pc'[d] = IF d = c THEN l ELSE pc[d]
  BY DEF Goto, Control, PcOK
<1>2. \A d \in Callers : pc'[d] = "start" => IsFresh(d)'
  BY <1>1 DEF LandInv, IsFresh
<1>3. ASSUME NEW w \in written PROVE Underway(w)'
  <2>1. Underway(w) /\ w \in Callers
    BY WritersCoalesce DEF LandInv
  <2>2. CASE w \in excused \/ w \in boot \/ (w \in riding /\ running)
    BY <2>2 DEF Underway
  <2>3. CASE pc[w] \in {"debounce", "enter"}
    BY <1>1, <2>1, <2>3 DEF Underway
  <2>4. CASE \E d \in Coalescers : w \in serves[d] /\ pc[d] \in Serving
    <3>1. PICK d \in Coalescers : w \in serves[d] /\ pc[d] \in Serving
      BY <2>4
    <3> QED
      BY <1>1, <3>1, WritersCoalesce DEF Underway
  <2> QED
    BY <2>1, <2>2, <2>3, <2>4 DEF Underway
<1> QED
  BY <1>2, <1>3 DEF LandInv

\* A step no goroutine takes.
LEMMA WritesIdle ==
    ASSUME LandInv, UNCHANGED <<pc, running, boot, seen, written, riding, serves, excused>>
    PROVE  LandInv'
  BY DEF LandInv, IsFresh, Underway

LEMMA LandAsks ==
    ASSUME Control, LandInv, NEW c \in Callers, Asks(c)
    PROVE  LandInv'
<1> USE DEF flags, box, writes, Serving
<1>1. CASE Write(c)
  <2>1. /\ c \in Mutations \cup Writers /\ pc[c] = "new" /\ written' = written \cup {c}
        /\ UNCHANGED <<running, boot, seen, riding, serves, excused>>
    BY <1>1 DEF Write
  <2>2. \A d \in Callers : d # c => pc'[d] = pc[d]
    BY <1>1 DEF Write, Goto, Control, PcOK
  <2>3. pc'[c] \in {"debounce", "enter"}
    BY <1>1 DEF Write, Goto, Control, PcOK
  <2>4. \A d \in Callers : pc'[d] = "start" => IsFresh(d)'
    BY <2>1, <2>2, <2>3 DEF LandInv, IsFresh
  <2>5. ASSUME NEW w \in written' PROVE Underway(w)'
    <3>1. CASE w = c
      BY <2>3, <3>1 DEF Underway
    <3>2. CASE w # c
      <4>1. w \in written /\ w \in Callers /\ Underway(w)
        BY <2>1, <2>5, <3>2, WritersCoalesce DEF LandInv
      <4>2. \A d \in Coalescers : pc[d] \in Serving => pc'[d] \in Serving
        BY <2>1, <2>2, WritersCoalesce
      <4> QED
        BY <2>1, <2>2, <3>2, <4>1, <4>2 DEF Underway
    <3> QED
      BY <3>1, <3>2
  <2> QED
    BY <2>1, <2>4, <2>5 DEF LandInv
<1>2. CASE Probe(c)
  BY <1>2, WritesStay DEF Probe
<1>3. CASE Restart(c)
  BY <1>3, WritesStay DEF Restart
<1>4. CASE Resume(c)
  BY <1>4, WritesStay DEF Resume
<1>5. CASE WakeWorkspace(c)
  BY <1>5, WritesStay DEF WakeWorkspace
<1>6. CASE Pause(c)
  BY <1>6, WritesStay DEF Pause
<1>7. CASE hibernateWorkspace(c)
  BY <1>7, WritesStay DEF hibernateWorkspace
<1> QED
  BY <1>1, <1>2, <1>3, <1>4, <1>5, <1>6, <1>7 DEF Asks

\* The flag: a request rides behind it until a runner takes it over, or until
\* running is cleared without looking at it again.
LEMMA LandRequest ==
    ASSUME Control, LandInv, NEW c \in Callers, RequestStep(c)
    PROVE  LandInv'
<1> USE DEF flags, box, writes, Serving
<1>0. pc \in [Callers -> Labels]
  BY DEF Control, PcOK
<1>1. CASE AutoDoor(c)
  BY <1>1, WritesStay DEF AutoDoor
<1>2. CASE shouldDebounceRestart(c)
  BY <1>2, WritesStay DEF shouldDebounceRestart
<1>3. CASE Enter(c)
  <2>1. /\ pc[c] = "enter" /\ riding' = riding \cup ({c} \cap written) /\ running'
        /\ UNCHANGED <<boot, seen, written, serves, excused>>
    BY <1>3 DEF Enter
  <2>2. pc'[c] \in {"loop", "done"} /\ \A d \in Callers : d # c => pc'[d] = pc[d]
    BY <1>0, <1>3 DEF Enter, Goto
  <2>3. \A d \in Callers : pc'[d] = "start" => IsFresh(d)'
    BY <2>1, <2>2 DEF LandInv, IsFresh
  <2>4. ASSUME NEW w \in written PROVE Underway(w)'
    <3>1. Underway(w) /\ w \in Callers
      BY WritersCoalesce DEF LandInv
    <3>2. CASE w = c
      BY <2>1, <3>2 DEF Underway
    <3>3. CASE w # c
      <4>1. \A d \in Coalescers : pc[d] \in Serving => pc'[d] \in Serving
        BY <2>1, <2>2, WritersCoalesce
      <4> QED
        BY <2>1, <2>2, <3>1, <3>3, <4>1 DEF Underway
    <3> QED
      BY <3>2, <3>3
  <2> QED
    BY <2>1, <2>3, <2>4 DEF LandInv
<1>4. CASE DrainPending(c)
  <2>1. /\ c \in Coalescers /\ pc[c] = "loop" /\ serves' = [serves EXCEPT ![c] = riding] /\ riding' = {}
        /\ UNCHANGED <<boot, seen, written, excused, running>>
    BY <1>4 DEF DrainPending
  <2>2. pc'[c] = "gate" /\ \A d \in Callers : d # c => pc'[d] = pc[d]
    BY <1>0, <1>4 DEF DrainPending, Goto
  <2>3. /\ serves' \in [Coalescers -> SUBSET written] /\ serves'[c] = riding
        /\ \A d \in Coalescers : d # c => serves'[d] = serves[d]
    BY <2>1 DEF LandInv
  <2>4. \A d \in Callers : pc'[d] = "start" => IsFresh(d)'
    BY <2>1, <2>2, <2>3 DEF LandInv, IsFresh
  <2>5. ASSUME NEW w \in written PROVE Underway(w)'
    <3>1. Underway(w) /\ w \in Callers
      BY WritersCoalesce DEF LandInv
    <3>2. CASE w \in riding
      BY <2>1, <2>2, <2>3, <3>2 DEF Underway
    <3>3. CASE \E d \in Coalescers : w \in serves[d] /\ pc[d] \in Serving
      <4>1. PICK d \in Coalescers : w \in serves[d] /\ pc[d] \in Serving
        BY <3>3
      <4>2. d # c
        BY <2>1, <4>1
      <4> QED
        BY <2>2, <2>3, <4>1, <4>2, WritersCoalesce DEF Underway
    <3>4. CASE w \in excused \/ w \in boot \/ pc[w] \in {"debounce", "enter"}
      BY <2>1, <2>2, <3>1, <3>4 DEF Underway
    <3> QED
      BY <3>1, <3>2, <3>3, <3>4 DEF Underway
  <2> QED
    BY <2>1, <2>3, <2>4, <2>5 DEF LandInv
<1>5. CASE LeaveLoop(c)
  BY <1>5, WritesStay DEF LeaveLoop
<1>6. CASE ClearRunning(c)
  <2>1. /\ pc[c] = "clear" /\ excused' = excused \cup riding
        /\ UNCHANGED <<boot, seen, written, riding, serves>>
    BY <1>6 DEF ClearRunning
  <2>2. pc'[c] = "done" /\ \A d \in Callers : d # c => pc'[d] = pc[d]
    BY <1>0, <1>6 DEF ClearRunning, Goto
  <2>3. \A d \in Callers : pc'[d] = "start" => IsFresh(d)'
    BY <2>1, <2>2 DEF LandInv, IsFresh
  <2>4. ASSUME NEW w \in written PROVE Underway(w)'
    <3>1. Underway(w) /\ w \in Callers
      BY WritersCoalesce DEF LandInv
    <3>2. \A d \in Coalescers : pc[d] \in Serving => pc'[d] \in Serving
      BY <2>1, <2>2, WritersCoalesce
    <3> QED
      BY <2>1, <2>2, <3>1, <3>2 DEF Underway
  <2> QED
    BY <2>1, <2>3, <2>4 DEF LandInv
<1> QED
  BY <1>1, <1>2, <1>3, <1>4, <1>5, <1>6 DEF RequestStep

LEMMA LandCycle ==
    ASSUME Control, LandInv, NEW c \in Callers, CycleStep(c)
    PROVE  LandInv'
<1> USE DEF flags, box, writes, Serving
<1>1. CASE TakeGate(c)
  BY <1>1, WritesStay DEF TakeGate
<1>2. CASE CheckBreaker(c)
  BY <1>2, WritesStay DEF CheckBreaker
<1>3. CASE stopForRestart(c)
  BY <1>3, WritesStay DEF stopForRestart
<1>4. CASE RecordAuto(c)
  BY <1>4, WritesStay DEF RecordAuto
<1>5. CASE MarkProvisioning(c)
  BY <1>5, WritesStay DEF MarkProvisioning
<1> QED
  BY <1>1, <1>2, <1>3, <1>4, <1>5 DEF CycleStep

\* The container: whoever starts one holds the gate since it read the writes,
\* so nothing the last container knew is missing from the new one.
LEMMA LandProvision ==
    ASSUME Control, LandInv, NEW c \in Callers, ProvisionStep(c) \/ FaultStep(c)
    PROVE  LandInv'
<1> USE DEF flags, box, writes, Serving
<1>0. pc \in [Callers -> Labels]
  BY DEF Control, PcOK
<1>1. CASE loadWorkspaceSecrets(c)
  <2>1. /\ pc[c] = "load" /\ seen' = [seen EXCEPT ![c] = written]
        /\ UNCHANGED <<running, boot, written, riding, serves, excused>>
    BY <1>1 DEF loadWorkspaceSecrets
  <2>2. pc'[c] = "start" /\ \A d \in Callers : d # c => pc'[d] = pc[d]
    BY <1>0, <1>1 DEF loadWorkspaceSecrets, Goto
  <2>3. /\ seen' \in [Callers -> SUBSET Callers] /\ seen'[c] = written
        /\ \A d \in Callers : d # c => seen'[d] = seen[d]
    BY <2>1, WritersCoalesce DEF LandInv
  <2>4. \A d \in Callers : pc'[d] = "start" => IsFresh(d)'
    BY <2>1, <2>2, <2>3 DEF LandInv, IsFresh
  <2>5. ASSUME NEW w \in written PROVE Underway(w)'
    <3>1. Underway(w) /\ w \in Callers
      BY WritersCoalesce DEF LandInv
    <3>2. \A d \in Coalescers : pc[d] \in Serving => pc'[d] \in Serving
      BY <2>1, <2>2, WritersCoalesce
    <3> QED
      BY <2>1, <2>2, <3>1, <3>2 DEF Underway
  <2> QED
    BY <2>1, <2>3, <2>4, <2>5 DEF LandInv
<1>2. ASSUME pc[c] = "start", Goto(c, "release"), UNCHANGED <<running, seen, written, riding, serves>>,
             excused \subseteq excused', boot' = boot \/ boot' = seen[c],
             boot' = seen[c] \/ (c \in Coalescers => serves[c] \subseteq excused')
      PROVE  LandInv'
  <2>1. pc'[c] = "release" /\ \A d \in Callers : d # c => pc'[d] = pc[d]
    BY <1>0, <1>2 DEF Goto
  <2>2. IsFresh(c)
    BY <1>2 DEF LandInv
  <2>3. c \notin Parkers
    BY <1>2 DEF Control, PcOK, ParkLabels
  <2>4. gate = c
    BY <1>2, <2>3 DEF Control, GateOK, UnderGate
  <2>5. \A d \in Callers : pc'[d] # "start"
    <3> SUFFICES ASSUME NEW d \in Callers, pc'[d] = "start" PROVE FALSE
      OBVIOUS
    <3>1. d # c /\ pc[d] = "start"
      BY <2>1
    <3>2. d \notin Parkers
      BY <3>1 DEF Control, PcOK, ParkLabels
    <3> QED
      BY <2>4, <3>1, <3>2 DEF Control, GateOK, UnderGate
  <2>6. boot \subseteq boot' /\ boot' \subseteq written
    BY <1>2, <2>2 DEF IsFresh, LandInv
  <2>7. ASSUME NEW w \in written PROVE Underway(w)'
    <3>1. Underway(w) /\ w \in Callers
      BY WritersCoalesce DEF LandInv
    <3>2. CASE w \in excused \/ w \in boot \/ (w \in riding /\ running)
      BY <1>2, <2>6, <3>2 DEF Underway
    <3>3. CASE pc[w] \in {"debounce", "enter"}
      BY <1>2, <2>1, <3>1, <3>3 DEF Underway
    <3>4. CASE \E d \in Coalescers : w \in serves[d] /\ pc[d] \in Serving
      <4>1. PICK d \in Coalescers : w \in serves[d] /\ pc[d] \in Serving
        BY <3>4
      <4>2. CASE d = c
        BY <1>2, <2>2, <4>1, <4>2 DEF IsFresh, Underway
      <4>3. CASE d # c
        BY <1>2, <2>1, <4>1, <4>3, WritersCoalesce DEF Underway
      <4> QED
        BY <4>2, <4>3
    <3> QED
      BY <3>1, <3>2, <3>3, <3>4 DEF Underway
  <2> QED
    BY <1>2, <2>5, <2>6, <2>7 DEF LandInv
<1>3. CASE Start(c)
  BY <1>2, <1>3 DEF Start
<1>4. CASE StartFails(c)
  BY <1>2, <1>4 DEF StartFails
<1>5. CASE ReleaseGate(c)
  BY <1>5, WritesStay DEF ReleaseGate
<1>6. CASE Decline(c)
  BY <1>6, WritesStay DEF Decline
<1>7. CASE Panic(c)
  BY <1>7, WritesStay DEF Panic
<1> QED
  BY <1>1, <1>3, <1>4, <1>5, <1>6, <1>7 DEF ProvisionStep, FaultStep

LEMMA LandOwner ==
    ASSUME Control, LandInv, NEW c \in Callers, OwnerStep(c)
    PROVE  LandInv'
<1> USE DEF flags, box, writes, Serving
<1>1. CASE resetAutoRestarts(c)
  BY <1>1, WritesStay, KindsApart DEF resetAutoRestarts
<1>2. CASE Preflight(c)
  BY <1>2, WritesStay DEF Preflight
<1>3. CASE OwnerTakesGate(c) \/ provisionWorkspaceAuto(c)
  BY <1>3, WritesStay, KindsApart DEF OwnerTakesGate, provisionWorkspaceAuto, Owners
<1>4. CASE StopWorkspaceAuto(c)
  BY <1>4, WritesStay, KindsApart DEF StopWorkspaceAuto, Parkers
<1>5. CASE MarkPaused(c)
  BY <1>5, WritesStay DEF MarkPaused
<1>6. CASE HibernateStops(c)
  BY <1>6, WritesStay, KindsApart DEF HibernateStops, Parkers
<1>7. CASE MarkHibernated(c)
  BY <1>7, WritesStay DEF MarkHibernated
<1> QED
  BY <1>1, <1>2, <1>3, <1>4, <1>5, <1>6, <1>7 DEF OwnerStep

LEMMA LandStep == Control /\ LandInv /\ [Next]_vars => LandInv'
<1> SUFFICES ASSUME Control, LandInv, [Next]_vars PROVE LandInv'
  OBVIOUS
<1>1. CASE \E c \in Callers : Asks(c) \/ Goes(c) \/ FaultStep(c)
  BY <1>1, LandAsks, LandRequest, LandCycle, LandProvision, LandOwner DEF Goes
<1>2. CASE Register \/ Heartbeat \/ holdQueueAfterRestart \/ Tick \/ UNCHANGED vars
  BY <1>2, WritesIdle
  DEF Register, Heartbeat, holdQueueAfterRestart, Tick, vars, flags, box, writes
<1> QED
  BY <1>1, <1>2 DEF Next

\* Once all goroutines have come to rest the container was given every write
\* that was not excused, for any crowd of requests and any faults: nothing
\* overtakes the flag, the cycle and the gate (coalesceRestart).
THEOREM WritesReachTheBox == Spec => []WritesLand
<1>1. Control /\ LandInv => WritesLand
  <2> SUFFICES ASSUME Control, LandInv, Quiet, NEW w \in written, w \notin excused PROVE w \in boot
    BY DEF WritesLand
  <2>1. Underway(w) /\ w \in Callers
    BY WritersCoalesce DEF LandInv
  <2>2. ~running
    BY WritersCoalesce DEF Control, OneRunner, Quiet, InLoop
  <2> QED
    BY <2>1, <2>2, WritersCoalesce DEF Underway, Quiet, Serving
<1> QED
  BY <1>1, LandInit, LandStep, ControlHolds, PTL DEF Spec
=============================================================================
