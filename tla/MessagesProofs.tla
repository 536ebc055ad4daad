--------------------------- MODULE MessagesProofs ---------------------------
(***************************************************************************)
(* Proofs about the approvals of a gated action (Approvals), for any number *)
(* of rows, callers and faults, and about the files of a workspace         *)
(* (WorkspaceFiles), for any number of calls, edits and lost requests.     *)
(*                                                                         *)
(* ApprovalsAreSpentOnce: the consuming UPDATE makes a caller the only owner *)
(* of a row.  What a row was spent on can then be read off it: an unspoiled *)
(* row was carried out once if it is consumed and nobody holds it, and never *)
(* otherwise.                                                              *)
(*                                                                         *)
(* FilesArrive: whoever changed a file asks for the restart after the      *)
(* change, and a restart that is not asked for again is owed; a read has   *)
(* seen what the file is at every place it was sent on from; and two sides *)
(* of the shared secret that differ do so until the cached copy, which is  *)
(* never older than its time to live, has run out.                         *)
(***************************************************************************)
EXTENDS Approvals, WorkspaceFiles, FiniteSetTheorems, TLAPS

-----------------------------------------------------------------------------
(* Approvals.                                                              *)

Held(r) == \E c \in Callers : caller[c].row = r

\* A caller holds a row from the UPDATE that consumed it to its answer, alone.
Ownership ==
    /\ \A c \in Callers : caller[c].pc \in {"run", "restore"} <=> caller[c].row # NoRow
    /\ \A c \in Callers : caller[c].row # NoRow => caller[c].row \in consumed
    /\ \A c, d \in Callers : caller[c].row # NoRow /\ caller[c].row = caller[d].row => c = d

\* Only approved rows are consumed or carried out, and what became of each
\* unspoiled row.
Spending ==
    /\ \A r \in ApprovalRows : r \in consumed \/ runs[r] > 0 => approval[r] = "approved"
    /\ \A r \in ApprovalRows \ spoiled : runs[r] = IF r \in consumed /\ ~Held(r) THEN 1 ELSE 0

Pending == {r \in ApprovalRows : approval[r] = "pending"}
Filing == {c \in Callers : caller[c].pc = "file"}

\* Every pending row was filed by a caller that saw none: pending rows and
\* callers about to file are together no more than the callers.
FilingBound ==
    /\ IsFiniteSet(Pending)
    /\ Cardinality(Pending) + Cardinality(Filing) <= Cardinality(Callers)

GrantInv == ApprovalsTypeOK /\ Ownership /\ Spending /\ FilingBound

Core == ApprovalsTypeOK /\ Ownership /\ Spending

LEMMA CoreInit == ApprovalsInit => Core
<1> SUFFICES ASSUME ApprovalsInit PROVE Core
  OBVIOUS
<1>1. ApprovalsTypeOK
  BY ApprovalsAssumption DEF ApprovalsInit, ApprovalsTypeOK, Away, Final
<1>2. Ownership /\ Spending
  BY DEF ApprovalsInit, Ownership, Spending, Away
<1> QED
  BY <1>1, <1>2 DEF Core

\* A call that holds no row and takes none: it looks, files or gives up.
LEMMA CallWithoutRow ==
    ASSUME Core, NEW c \in Callers, caller[c].pc \in {"away", "look", "file"},
           NEW pc \in {"away", "look", "file"}, CallerGoes(c, pc),
           approval' \in [ApprovalRows -> Final \union {"none", "pending"}],
           \A r \in ApprovalRows : approval[r] = "approved" => approval'[r] = "approved",
           UNCHANGED <<gated, consumed, runs, spoiled, grantFaults>>
    PROVE  Core'
<1>1. /\ \A d \in Callers : caller'[d].row = caller[d].row
      /\ \A d \in Callers : d # c => caller'[d].pc = caller[d].pc
      /\ caller'[c].pc = pc
  BY DEF Core, ApprovalsTypeOK, CallerGoes
<1>2. ApprovalsTypeOK'
  BY DEF Core, ApprovalsTypeOK, CallerGoes
<1>3. Ownership'
  BY <1>1 DEF Core, Ownership
<1>4. Spending'
  BY <1>1 DEF Core, Spending, Held
<1> QED
  BY <1>2, <1>3, <1>4 DEF Core

\* The consuming UPDATE: the row was nobody's, because it was not consumed.
LEMMA ConsumeKeeps ==
    ASSUME Core, NEW c \in Callers, ConsumeApproval(c)
    PROVE  Core'
<1>0. caller[c].pc = "away" /\ caller[c].row = NoRow
  BY DEF ConsumeApproval, Away
<1>1. CASE CallerGoes(c, "look") /\ UNCHANGED consumed
  BY <1>0, <1>1, CallWithoutRow DEF ConsumeApproval, NoFault, Core, ApprovalsTypeOK
<1>2. ASSUME NEW r \in Consumable, consumed' = consumed \union {r},
             caller' = [caller EXCEPT ![c] = [pc |-> "run", row |-> r]]
      PROVE  Core'
  <2>1. /\ r \in ApprovalRows /\ r # NoRow /\ r \notin consumed /\ approval[r] = "approved"
        /\ UNCHANGED <<gated, approval, runs, spoiled, grantFaults>>
    BY <1>2, ApprovalsAssumption DEF Consumable, ConsumeApproval, NoFault
  <2>2. \A d \in Callers : caller[d].row # r
    BY <2>1 DEF Core, Ownership
  <2>3. /\ caller'[c].pc = "run" /\ caller'[c].row = r
        /\ \A d \in Callers : d # c => caller'[d] = caller[d]
    BY <1>2 DEF Core, ApprovalsTypeOK
  <2>4. ApprovalsTypeOK'
    BY <1>2, <2>1 DEF Core, ApprovalsTypeOK
  <2>5. Ownership'
    BY <1>2, <2>1, <2>2, <2>3 DEF Core, Ownership
  <2>6. \A q \in ApprovalRows : q # r => (Held(q)' <=> Held(q))
    BY <1>0, <2>3, ApprovalsAssumption DEF Held
  <2>7. Held(r)'
    BY <2>3 DEF Held
  <2>8. Spending'
    BY <1>2, <2>1, <2>6, <2>7 DEF Core, Spending
  <2> QED
    BY <2>4, <2>5, <2>8 DEF Core
<1> QED
  BY <1>1, <1>2 DEF ConsumeApproval

\* A caller at work on a row holds a consumed one.
LEMMA HoldsRow ==
    ASSUME Core, NEW c \in Callers, caller[c].pc \in {"run", "restore"}
    PROVE  caller[c].row \in ApprovalRows /\ caller[c].row \in consumed
  BY ApprovalsAssumption DEF Core, ApprovalsTypeOK, Ownership

\* A caller lets its row go: nobody holds it then, and all else is as it was.
LEMMA LetsGo ==
    ASSUME Core, NEW c \in Callers, caller[c].pc \in {"run", "restore"},
           NEW r \in ApprovalRows, r = caller[c].row, caller' = [caller EXCEPT ![c] = Away]
    PROVE  /\ ~Held(r)' /\ \A q \in ApprovalRows : q # r => (Held(q)' <=> Held(q))
           /\ Ownership' \/ consumed' # consumed
           /\ \A d \in Callers : d # c => caller'[d] = caller[d] /\ caller[d].row # r
           /\ caller' \in [Callers -> [pc : {"away", "look", "file", "run", "restore"},
                                       row : ApprovalRows \union {NoRow}]]
           /\ caller'[c] = Away
<1>1. r # NoRow
  BY ApprovalsAssumption
<1>2. caller'[c] = Away /\ \A d \in Callers : d # c => caller'[d] = caller[d]
  BY DEF Core, ApprovalsTypeOK
<1>3. \A d \in Callers : d # c => caller[d].row # r
  BY <1>1 DEF Core, Ownership
<1>4. Away.pc = "away" /\ Away.row = NoRow
  BY DEF Away
<1>5. ~Held(r)'
  BY <1>1, <1>2, <1>3, <1>4 DEF Held
<1>6. ASSUME NEW q \in ApprovalRows, q # r PROVE Held(q)' <=> Held(q)
  BY <1>2, <1>4, <1>6, ApprovalsAssumption DEF Held
<1>7. Ownership' \/ consumed' # consumed
  BY <1>2, <1>4 DEF Core, Ownership
<1>8. caller' \in [Callers -> [pc : {"away", "look", "file", "run", "restore"},
                               row : ApprovalRows \union {NoRow}]]
  BY DEF Away, Core, ApprovalsTypeOK
<1> QED
  BY <1>2, <1>3, <1>5, <1>6, <1>7, <1>8

\* The operation is carried out, on a row that is approved and was not yet
\* spent unless it is spoiled.
LEMMA RunKeeps ==
    ASSUME Core, NEW c \in Callers, RunGated(c)
    PROVE  Core'
<1>1. PICK r \in ApprovalRows : r = caller[c].row
  BY HoldsRow DEF RunGated
<1>2. /\ caller[c].pc = "run" /\ caller' = [caller EXCEPT ![c] = Away]
      /\ runs' = [runs EXCEPT ![r] = runs[r] + 1]
      /\ UNCHANGED <<gated, approval, consumed, spoiled, grantFaults>>
  BY <1>1 DEF RunGated, NoFault
<1>3. r \in consumed /\ Held(r) /\ runs \in [ApprovalRows -> Nat]
  BY <1>1, <1>2, ApprovalsAssumption DEF Core, Ownership, Held, ApprovalsTypeOK
<1>4. runs' \in [ApprovalRows -> Nat] /\ runs'[r] = runs[r] + 1
      /\ \A q \in ApprovalRows : q # r => runs'[q] = runs[q]
  BY <1>2, <1>3
<1>5. ApprovalsTypeOK' /\ Ownership'
  BY <1>1, <1>2, <1>4, LetsGo DEF Core, ApprovalsTypeOK
<1>6. ~Held(r)' /\ \A q \in ApprovalRows : q # r => (Held(q)' <=> Held(q))
  BY <1>1, <1>2, LetsGo
<1>7. Spending'
  BY <1>2, <1>3, <1>4, <1>6 DEF Core, Spending
<1> QED
  BY <1>5, <1>7 DEF Core

\* A hand-off that failed keeps the row for its restore; a destructive
\* operation that failed spoils it.
LEMMA FailKeeps ==
    ASSUME Core, NEW c \in Callers, FailsToDispatch(c)
    PROVE  Core'
<1>1. caller[c].pc = "run" /\ UNCHANGED <<gated, approval, consumed, runs>>
  BY DEF FailsToDispatch
<1>2. CASE CallerGoes(c, "restore") /\ NoFault
  <2>1. /\ \A d \in Callers : caller'[d].row = caller[d].row
        /\ \A d \in Callers : d # c => caller'[d].pc = caller[d].pc
        /\ caller'[c].pc = "restore"
    BY <1>2 DEF Core, ApprovalsTypeOK, CallerGoes
  <2>2. ApprovalsTypeOK'
    BY <1>1, <1>2 DEF Core, ApprovalsTypeOK, CallerGoes, NoFault
  <2>3. Ownership' /\ Spending'
    BY <1>1, <1>2, <2>1 DEF Core, Ownership, Spending, Held, NoFault
  <2> QED
    BY <2>2, <2>3 DEF Core
<1>3. CASE caller' = [caller EXCEPT ![c] = Away] /\ Spoils(caller[c].row)
  <2>1. PICK r \in ApprovalRows : r = caller[c].row
    BY <1>1, HoldsRow
  <2>2. spoiled' = spoiled \union {r} /\ grantFaults' \in 0 .. MaxGrantFaults
    BY <1>3, <2>1, ApprovalsAssumption DEF Spoils, GrantFault, Core, ApprovalsTypeOK
  <2>3. ApprovalsTypeOK' /\ Ownership'
    BY <1>1, <1>3, <2>1, <2>2, LetsGo DEF Core, ApprovalsTypeOK
  <2>4. \A q \in ApprovalRows : q # r => (Held(q)' <=> Held(q))
    BY <1>1, <1>3, <2>1, LetsGo
  <2>5. Spending'
    BY <1>1, <2>2, <2>4 DEF Core, Spending
  <2> QED
    BY <2>3, <2>5 DEF Core
<1> QED
  BY <1>2, <1>3 DEF FailsToDispatch

LEMMA AnswerLostKeeps ==
    ASSUME Core, NEW c \in Callers, AnswerLost(c)
    PROVE  Core'
<1>1. PICK r \in ApprovalRows : r = caller[c].row /\ r \in consumed
  BY ApprovalsAssumption DEF AnswerLost, Core, Ownership, ApprovalsTypeOK
<1>2. /\ caller[c].pc = "run" /\ CallerGoes(c, "restore")
      /\ runs' = [runs EXCEPT ![r] = runs[r] + 1]
      /\ spoiled' = spoiled \union {r} /\ UNCHANGED <<gated, approval, consumed>>
  BY <1>1 DEF AnswerLost, Spoils
<1>3. grantFaults' \in 0 .. MaxGrantFaults
  BY ApprovalsAssumption DEF AnswerLost, Spoils, GrantFault, Core, ApprovalsTypeOK
<1>4. /\ \A d \in Callers : caller'[d].row = caller[d].row
      /\ \A d \in Callers : d # c => caller'[d].pc = caller[d].pc
      /\ caller'[c].pc = "restore"
  BY <1>2 DEF Core, ApprovalsTypeOK, CallerGoes
<1>5. runs \in [ApprovalRows -> Nat]
  BY DEF Core, ApprovalsTypeOK
<1>6. runs' \in [ApprovalRows -> Nat] /\ \A q \in ApprovalRows : q # r => runs'[q] = runs[q]
  BY <1>2, <1>5
<1>7. ApprovalsTypeOK'
  BY <1>2, <1>3, <1>6 DEF Core, ApprovalsTypeOK, CallerGoes
<1>8. Ownership'
  BY <1>2, <1>4 DEF Core, Ownership
<1>9. Spending'
  BY <1>1, <1>2, <1>4, <1>6 DEF Core, Spending, Held
<1> QED
  BY <1>7, <1>8, <1>9 DEF Core

\* The restore gives back a row that was not spent, or is spoiled.
LEMMA RestoreKeeps ==
    ASSUME Core, NEW c \in Callers, RestoreGrant(c)
    PROVE  Core'
<1>1. PICK r \in ApprovalRows : r = caller[c].row
  BY HoldsRow DEF RestoreGrant
<1>2. /\ caller[c].pc = "restore" /\ caller' = [caller EXCEPT ![c] = Away]
      /\ UNCHANGED <<gated, approval, runs>>
      /\ \/ consumed' = consumed \ {r} /\ UNCHANGED <<spoiled, grantFaults>>
         \/ /\ spoiled' = spoiled \union {r} /\ UNCHANGED consumed
            /\ grantFaults' \in 0 .. MaxGrantFaults
  <2>1. Spoils(r) => spoiled' = spoiled \union {r} /\ grantFaults' \in 0 .. MaxGrantFaults
    BY ApprovalsAssumption DEF Spoils, GrantFault, Core, ApprovalsTypeOK
  <2> QED
    BY <1>1, <2>1 DEF RestoreGrant, NoFault
<1>3. r \in consumed /\ Held(r)
  BY <1>1, <1>2, ApprovalsAssumption DEF Core, Ownership, Held, ApprovalsTypeOK
<1>4. ApprovalsTypeOK'
  BY <1>1, <1>2, LetsGo DEF Core, ApprovalsTypeOK
<1>5. ~Held(r)' /\ \A q \in ApprovalRows : q # r => (Held(q)' <=> Held(q))
  BY <1>1, <1>2, LetsGo
<1>6. Ownership'
  <2>1. CASE consumed' = consumed
    BY <1>1, <1>2, <2>1, LetsGo
  <2>2. CASE consumed' = consumed \ {r}
    <3>1. /\ caller'[c].row = NoRow /\ caller'[c].pc = "away"
          /\ \A d \in Callers : d # c => caller'[d] = caller[d] /\ caller[d].row # r
      BY <1>1, <1>2, LetsGo DEF Away
    <3> QED
      BY <2>2, <3>1 DEF Core, Ownership
  <2> QED
    BY <1>2, <2>1, <2>2
<1>7. Spending'
  BY <1>2, <1>3, <1>5 DEF Core, Spending
<1> QED
  BY <1>4, <1>6, <1>7 DEF Core

\* A restart spoils whatever was in a caller's hands.
LEMMA RestartSpoils ==
    ASSUME Core, ApprovalsRestart
    PROVE  Core'
<1>1. /\ \A c \in Callers : caller'[c].pc = "away" /\ caller'[c].row = NoRow
      /\ caller' \in [Callers -> [pc : {"away", "look", "file", "run", "restore"},
                                  row : ApprovalRows \union {NoRow}]]
  BY DEF ApprovalsRestart, Away
<1>2. grantFaults' \in 0 .. MaxGrantFaults
  BY ApprovalsAssumption DEF ApprovalsRestart, GrantFault, Core, ApprovalsTypeOK
<1>3. spoiled' \subseteq ApprovalRows
  BY DEF ApprovalsRestart, Core, ApprovalsTypeOK
<1>4. ApprovalsTypeOK'
  BY <1>1, <1>2, <1>3 DEF ApprovalsRestart, Core, ApprovalsTypeOK
<1>5. Ownership'
  BY <1>1 DEF Ownership
<1>6. \A r \in ApprovalRows : ~Held(r)' /\ (Held(r) => r \in spoiled')
  BY <1>1, ApprovalsAssumption DEF Held, ApprovalsRestart
<1>7. Spending'
  BY <1>6 DEF ApprovalsRestart, Core, Spending
<1> QED
  BY <1>4, <1>5, <1>7 DEF Core

\* A decision and a withdrawal write rows that are still pending, so never an
\* approved one.
LEMMA SettleKeeps ==
    ASSUME Core, NEW r \in ApprovalRows, NEW s \in Final, Settle(r, s)
    PROVE  Core'
<1>1. /\ approval[r] = "pending" /\ approval' = [approval EXCEPT ![r] = s]
      /\ UNCHANGED <<gated, consumed, caller, runs, spoiled, grantFaults>>
  BY DEF Settle, NoFault
<1>2. ApprovalsTypeOK'
  BY <1>1 DEF Core, ApprovalsTypeOK
<1>3. Ownership'
  BY <1>1 DEF Core, Ownership
<1>4. \A q \in ApprovalRows : approval[q] = "approved" => approval'[q] = "approved"
  BY <1>1 DEF Core, ApprovalsTypeOK
<1>5. Spending'
  BY <1>1, <1>4 DEF Core, Spending, Held
<1> QED
  BY <1>2, <1>3, <1>5 DEF Core

LEMMA CoreStep == Core /\ [ApprovalsNext]_grantVars => Core'
<1> SUFFICES ASSUME Core, [ApprovalsNext]_grantVars PROVE Core'
  OBVIOUS
<1>1. ASSUME NEW c \in Callers, LookForPending(c) \/ FileBound(c) PROVE Core'
  BY <1>1, CallWithoutRow DEF LookForPending, FileBound, NoFault, Core, ApprovalsTypeOK
<1>2. ASSUME NEW c \in Callers, FileApproval(c) PROVE Core'
  <2>1. PICK r \in ApprovalRows : approval[r] = "none" /\ approval' = [approval EXCEPT ![r] = "pending"]
    BY <1>2 DEF FileApproval
  <2>2. approval' \in [ApprovalRows -> Final \union {"none", "pending"}]
    BY <2>1 DEF Core, ApprovalsTypeOK
  <2>3. \A q \in ApprovalRows : approval[q] = "approved" => approval'[q] = "approved"
    BY <2>1 DEF Core, ApprovalsTypeOK
  <2> QED
    BY <1>2, <2>2, <2>3, CallWithoutRow DEF FileApproval, NoFault
<1>3. ASSUME NEW r \in ApprovalRows, Decide(r) \/ Withdraw(r) PROVE Core'
  BY <1>3, SettleKeeps DEF Decide, Withdraw, Final
<1>4. CASE UNCHANGED grantVars
  BY <1>4 DEF grantVars, Core, ApprovalsTypeOK, Ownership, Spending, Held
<1> QED
  BY <1>1, <1>2, <1>3, <1>4, ConsumeKeeps, RunKeeps, FailKeeps, AnswerLostKeeps, RestoreKeeps,
     RestartSpoils DEF ApprovalsNext, GateCallStep

-----------------------------------------------------------------------------
\* The callers about to file are some of the callers.
LEMMA FilingIsFinite ==
    IsFiniteSet(Filing) /\ Cardinality(Filing) \in Nat /\ Cardinality(Filing) <= Cardinality(Callers)
    /\ Cardinality(Callers) \in Nat
<1>1. IsFiniteSet(Callers) /\ Filing \subseteq Callers
  BY ApprovalsAssumption DEF Filing
<1> QED
  BY <1>1, FS_Subset, FS_CardinalityType

\* Fewer pending rows and fewer callers about to file keep the bound.
LEMMA FewerKeepBound ==
    ASSUME FilingBound, Pending' \subseteq Pending, Filing' \subseteq Filing
    PROVE  FilingBound'
<1>1. IsFiniteSet(Pending') /\ Cardinality(Pending') <= Cardinality(Pending)
  BY FS_Subset DEF FilingBound
<1>2. IsFiniteSet(Filing') /\ Cardinality(Filing') <= Cardinality(Filing)
  BY FS_Subset, FilingIsFinite
<1>3. /\ Cardinality(Pending) \in Nat /\ Cardinality(Pending') \in Nat
      /\ Cardinality(Filing) \in Nat /\ Cardinality(Filing') \in Nat
  BY <1>1, <1>2, FS_CardinalityType, FilingIsFinite DEF FilingBound
<1> QED
  BY <1>1, <1>2, <1>3, FilingIsFinite DEF FilingBound

\* A caller comes to file only when no row is pending.
LEMMA LookKeepsBound ==
    ASSUME ApprovalsTypeOK, FilingBound, NEW c \in Callers, LookForPending(c)
    PROVE  FilingBound'
<1>1. Pending' = Pending
  BY DEF LookForPending, Pending
<1>2. CASE Pending = {}
  <2>1. IsFiniteSet(Pending') /\ Cardinality(Pending') = 0
    BY <1>1, <1>2, FS_EmptySet
  <2>2. Cardinality(Filing') <= Cardinality(Callers) /\ Cardinality(Filing') \in Nat
        /\ Cardinality(Callers) \in Nat
    <3>1. IsFiniteSet(Callers) /\ Filing' \subseteq Callers
      BY ApprovalsAssumption DEF Filing
    <3> QED
      BY <3>1, FS_Subset, FS_CardinalityType
  <2> QED
    BY <2>1, <2>2 DEF FilingBound
<1>3. CASE Pending # {}
  <2>1. CallerGoes(c, "away")
    BY <1>3 DEF LookForPending, Pending
  <2>2. Filing' \subseteq Filing
    BY <2>1 DEF CallerGoes, Filing, ApprovalsTypeOK
  <2> QED
    BY <1>1, <2>2, FewerKeepBound
<1> QED
  BY <1>2, <1>3

\* Filing turns a caller about to file into a pending row.
LEMMA FileKeepsBound ==
    ASSUME ApprovalsTypeOK, FilingBound, NEW c \in Callers, FileApproval(c)
    PROVE  FilingBound'
<1>1. PICK r \in ApprovalRows : approval[r] = "none" /\ approval' = [approval EXCEPT ![r] = "pending"]
  BY DEF FileApproval
<1>2. Pending' = Pending \union {r} /\ r \notin Pending
  BY <1>1 DEF Pending, ApprovalsTypeOK
<1>3. Filing' = Filing \ {c} /\ c \in Filing
  BY DEF FileApproval, CallerGoes, Filing, ApprovalsTypeOK
<1>4. IsFiniteSet(Pending') /\ Cardinality(Pending') = Cardinality(Pending) + 1
  BY <1>2, FS_AddElement DEF FilingBound
<1>5. Cardinality(Filing') = Cardinality(Filing) - 1
  BY <1>3, FS_RemoveElement, FilingIsFinite
<1>6. Cardinality(Pending) \in Nat
  BY FS_CardinalityType DEF FilingBound
<1> QED
  BY <1>4, <1>5, <1>6, FilingIsFinite DEF FilingBound

LEMMA BoundStep == ApprovalsTypeOK /\ FilingBound /\ [ApprovalsNext]_grantVars => FilingBound'
<1> SUFFICES ASSUME ApprovalsTypeOK, FilingBound, [ApprovalsNext]_grantVars PROVE FilingBound'
  OBVIOUS
<1>1. ASSUME NEW c \in Callers, ConsumeApproval(c) \/ RunGated(c) \/ FailsToDispatch(c)
                                \/ AnswerLost(c) \/ RestoreGrant(c) \/ FileBound(c)
      PROVE  FilingBound'
  <2>1. Pending' = Pending
    BY <1>1 DEF ConsumeApproval, RunGated, FailsToDispatch, AnswerLost, RestoreGrant, FileBound, Pending
  <2>2. Filing' \subseteq Filing
    <3>1. \A d \in Callers : d # c => caller'[d] = caller[d]
      BY <1>1 DEF ConsumeApproval, RunGated, FailsToDispatch, AnswerLost, RestoreGrant, FileBound,
         CallerGoes, ApprovalsTypeOK
    <3>2. caller'[c].pc # "file"
      BY <1>1 DEF ConsumeApproval, RunGated, FailsToDispatch, AnswerLost, RestoreGrant, FileBound,
         CallerGoes, ApprovalsTypeOK, Away
    <3> QED
      BY <3>1, <3>2 DEF Filing
  <2> QED
    BY <2>1, <2>2, FewerKeepBound
<1>2. ASSUME NEW r \in ApprovalRows, Decide(r) \/ Withdraw(r) PROVE FilingBound'
  <2>1. Pending' \subseteq Pending /\ Filing' = Filing
    BY <1>2 DEF Decide, Withdraw, Settle, Pending, Filing, ApprovalsTypeOK
  <2> QED
    BY <2>1, FewerKeepBound
<1>3. CASE ApprovalsRestart
  <2>1. Pending' = Pending /\ Filing' = {}
    BY <1>3 DEF ApprovalsRestart, Pending, Filing, Away
  <2> QED
    BY <2>1, FewerKeepBound
<1>4. CASE UNCHANGED grantVars
  <2>1. Pending' = Pending /\ Filing' = Filing
    BY <1>4 DEF grantVars, Pending, Filing
  <2> QED
    BY <2>1, FewerKeepBound
<1> QED
  BY <1>1, <1>2, <1>3, <1>4, LookKeepsBound, FileKeepsBound DEF ApprovalsNext, GateCallStep

-----------------------------------------------------------------------------
\* The invariant implies what the runs check.
LEMMA InvSpendsOnce == GrantInv => ApprovalsAreSpentOnce
<1> SUFFICES ASSUME GrantInv PROVE ApprovalsAreSpentOnce
  OBVIOUS
<1>1. OneRunPerApproval
  <2>1. \A r \in ApprovalRows : runs[r] \in Nat
    BY DEF GrantInv, ApprovalsTypeOK
  <2> QED
    BY <2>1 DEF GrantInv, Spending, OneRunPerApproval
<1>2. NoGrantBurned
  <2> SUFFICES ASSUME NEW r \in consumed \ spoiled, runs[r] # 1
               PROVE  \E c \in Callers : caller[c].row = r /\ caller[c].pc # "away"
    BY DEF NoGrantBurned
  <2>1. r \in ApprovalRows /\ r # NoRow
    BY ApprovalsAssumption DEF GrantInv, ApprovalsTypeOK
  <2>2. Held(r)
    BY <2>1 DEF GrantInv, Spending
  <2> QED
    BY <2>1, <2>2 DEF GrantInv, Ownership, Held
<1>3. PendingPerCaller
  <2>1. Cardinality(Pending) \in Nat
    BY FS_CardinalityType DEF GrantInv, FilingBound
  <2>2. Cardinality(Pending) <= Cardinality(Callers)
    BY <2>1, FilingIsFinite DEF GrantInv, FilingBound
  <2> QED
    BY <2>2 DEF PendingPerCaller, Pending
<1> QED
  BY <1>1, <1>2, <1>3 DEF GrantInv, ApprovalsAreSpentOnce

\* An approval carries one operation, none is burned, and retries do not flood
\* the approver, for any number of callers, rows, lost answers and restarts
\* (requireApproval, restorePrivilegedDelegationGrant).
THEOREM ApprovalsSpentOnce == ApprovalsSpec => []ApprovalsAreSpentOnce
<1>1. ApprovalsInit => GrantInv
  <2> SUFFICES ASSUME ApprovalsInit PROVE GrantInv
    OBVIOUS
  <2>1. Pending = {} /\ Filing = {}
    BY DEF ApprovalsInit, Pending, Filing, Away
  <2>2. IsFiniteSet(Pending) /\ Cardinality(Pending) = 0 /\ Cardinality(Filing) = 0
    BY <2>1, FS_EmptySet
  <2> QED
    BY <2>2, CoreInit, FilingIsFinite DEF GrantInv, Core, FilingBound
<1>2. GrantInv /\ [ApprovalsNext]_grantVars => GrantInv'
  BY CoreStep, BoundStep DEF GrantInv, Core
<1> QED
  BY <1>1, <1>2, InvSpendsOnce, PTL DEF ApprovalsSpec

-----------------------------------------------------------------------------
(* WorkspaceFiles.                                                         *)

-----------------------------------------------------------------------------
(* The files of a workspace.                                               *)

\* Where a call may be.
ShapeOf(c) ==
    /\ fcall[c].pc \in {"find", "box", "shelf", "tunnel", "volume"} /\ fcall[c].op # "replace" =>
          \E f \in FileSet : fcall[c].files = {f}
    /\ fcall[c].pc = "shelf" => fcall[c].op = "read"
    /\ fcall[c].pc = "volume" => fcall[c].op # "read"
    /\ place = "machine" => fcall[c].pc \notin {"box", "shelf", "volume", "probe", "fill"}
    /\ place # "machine" => fcall[c].pc # "tunnel"
    /\ fcall[c].pc \in {"load", "swap"} => fcall[c].now \in 1..clock
FileShape == \A c \in FileCalls : ShapeOf(c)

\* A call that may have changed a file and has not asked for the restart yet.
DirtyCall(c) ==
    \/ fcall[c].pc \in {"probe", "fill", "stamp", "load", "swap"}
    \/ /\ fcall[c].pc \in {"volume", "tunnel"} /\ fcall[c].op = "replace"
       /\ place # "docker"
EditInv ==
    boxUp /\ ~due /\ ~unserved /\ (\A c \in FileCalls : ~DirtyCall(c)) => loaded = disk["/configs"]

\* The stamp is the youngest fire, and a call that will swap it has seen it pass.
SwapOf(c) == fcall[c].pc = "swap" => fcall[c].last = 0 \/ fcall[c].now >= fcall[c].last + Window
StampInv ==
    /\ \A a \in fires : 1 <= a /\ a <= lastFire
    /\ FiresAreSpaced
    /\ \A c \in FileCalls : SwapOf(c)

\* A read has seen what the file is now, and goes on to the shelf for a reason.
Reading(c) == fcall[c].pc \in {"find", "box", "shelf", "tunnel"} /\ fcall[c].op = "read"
ReadOf(c) ==
    /\ fcall[c].pc = "answered" /\ fcall[c].live /\ place # "mirror" =>
          fcall[c].new \in fcall[c].seen \/ (0 \in fcall[c].seen /\ fcall[c].new = Shipped)
    /\ Reading(c) => \A f \in fcall[c].files : disk[fcall[c].root][f] \in fcall[c].seen
    /\ fcall[c].pc \notin {"idle", "answered"} /\ fcall[c].live => boxUp
    /\ fcall[c].pc = "shelf" /\ fcall[c].live /\ place = "docker" => 0 \in fcall[c].seen
ReadInv == \A c \in FileCalls : ReadOf(c)

FilesInv == FileShape /\ EditInv /\ StampInv /\ ReadInv

\* A secret that is not the row's was read not long after the row changed.
SecretInv ==
    /\ changedAt <= clock /\ beatAt <= clock
    /\ \A s \in SecretCalls : scall[s].pc # "idle" =>
          /\ scall[s].began <= clock /\ clock <= scall[s].began + CallTime
          /\ scall[s].pc = "fill" /\ scall[s].val # secretRow => scall[s].began <= changedAt
          /\ scall[s].pc = "use" /\ scall[s].val # secretRow =>
                scall[s].began < changedAt + CacheTTL + CallTime
    /\ secretCache.until <= clock + CacheTTL
    /\ secretCache.val # secretRow => secretCache.until <= changedAt + CacheTTL + CallTime
    /\ beatAt >= changedAt + CacheTTL + 2 * CallTime => secretHeld = secretRow

FileCallType == [pc : FilePCs, op : {"read", "write", "replace", "delete"},
                 root : Roots, files : SUBSET FileSet, new : Contents,
                 now : 0..MaxClock, last : 0..MaxClock, tries : 0..Retries,
                 live : BOOLEAN, seen : SUBSET Contents]
SecretCallType == [pc : SecretPCs, kind : {"mint", "beat", "forward"},
                   val : 0..MaxSecrets, began : 0..MaxClock]

DiskTypeOK ==
    /\ place \in {"docker", "mirror", "machine"} /\ boxUp \in BOOLEAN
    /\ disk \in [Roots -> [FileSet -> Contents]]
    /\ loaded \in [FileSet -> Contents]
    /\ lastFire \in 0..MaxClock /\ fires \subseteq 0..MaxClock
    /\ due \in BOOLEAN /\ unserved \in BOOLEAN
    /\ calls \in 0..MaxFileCalls
    /\ fcall \in [FileCalls -> FileCallType]
SecretTypeOK ==
    /\ secretRow \in 0..MaxSecrets /\ secretHeld \in 0..MaxSecrets /\ minted \in 0..MaxSecrets
    /\ secretCache \in [val : 0..MaxSecrets, until : 0..(MaxClock + CacheTTL)]
    /\ changedAt \in 0..MaxClock /\ beatAt \in 0..MaxClock
    /\ scall \in [SecretCalls -> SecretCallType]
SharedTypeOK == fileFaults \in 0..MaxFileFaults /\ clock \in 1..MaxClock

LEMMA FilesTypesSplit == FilesTypeOK <=> DiskTypeOK /\ SecretTypeOK /\ SharedTypeOK
BY DEF FilesTypeOK, DiskTypeOK, SecretTypeOK, SharedTypeOK, FileCallType, SecretCallType

LEMMA FileFaultsCount ==
    ASSUME SharedTypeOK
    PROVE  /\ FileFault => fileFaults' \in 0..MaxFileFaults
           /\ FileFine => fileFaults' \in 0..MaxFileFaults
BY FilesAssumption DEF SharedTypeOK, FileFault, FileFine

-----------------------------------------------------------------------------
(* The shared secret.                                                      *)

LEMMA SecretTypes ==
    ASSUME SecretTypeOK, SharedTypeOK, NEW s \in SecretCalls,
           \/ \E k \in {"mint", "beat", "forward"} : SecretCallBegins(s, k)
           \/ CacheReads(s) \/ RowReads(s) \/ RowMints(s) \/ CacheFills(s)
           \/ SecretIsHandedOut(s) \/ ChatFileForwards(s)
    PROVE  SecretTypeOK' /\ SharedTypeOK'
<1> USE FilesAssumption, FileFaultsCount
    DEF SecretTypeOK, SharedTypeOK, SecretGoto, SecretEnds, SecretIdle, SecretPCs
<1>0. /\ scall \in [SecretCalls -> SecretCallType] /\ scall[s] \in SecretCallType
      /\ SecretIdle \in SecretCallType
  BY DEF SecretCallType
<1>1. ASSUME NEW k \in {"mint", "beat", "forward"}, SecretCallBegins(s, k)
      PROVE  SecretTypeOK' /\ SharedTypeOK'
  <2> DEFINE start == IF k = "mint" THEN "mint" ELSE "cache"
  <2>1. start \in SecretPCs /\ clock \in 0..MaxClock
    OBVIOUS
  <2>2. [[[SecretIdle EXCEPT !.kind = k] EXCEPT !.began = clock] EXCEPT !.pc = start] \in SecretCallType
    BY ONLY <1>0, <2>1, k \in {"mint", "beat", "forward"} DEF SecretCallType
  <2>3. scall' = [scall EXCEPT ![s] = [[[SecretIdle EXCEPT !.kind = k] EXCEPT !.began = clock] EXCEPT !.pc = start]]
    BY ONLY <1>1 DEF SecretCallBegins
  <2>4. scall' \in [SecretCalls -> SecretCallType]
    BY ONLY <1>0, <2>2, <2>3
  <2>5. UNCHANGED <<secretRow, secretCache, secretHeld, minted, changedAt, beatAt, clock, fileVars>>
    BY ONLY <1>1 DEF SecretCallBegins
  <2> QED
    BY ONLY <2>4, <2>5, SecretTypeOK, SharedTypeOK DEF SecretTypeOK, SharedTypeOK, fileVars
<1>2. ASSUME NEW pc \in SecretPCs, NEW v \in 0..MaxSecrets, scall' = [scall EXCEPT ![s].pc = pc, ![s].val = v]
      PROVE  scall' \in [SecretCalls -> SecretCallType]
  <2>1. [[scall[s] EXCEPT !.pc = pc] EXCEPT !.val = v] \in SecretCallType
    BY ONLY <1>0, <1>2 DEF SecretCallType
  <2> QED
    BY ONLY <1>0, <1>2, <2>1
<1>3. ASSUME NEW pc \in SecretPCs, scall' = [scall EXCEPT ![s].pc = pc]
      PROVE  scall' \in [SecretCalls -> SecretCallType]
  <2>1. [scall[s] EXCEPT !.pc = pc] \in SecretCallType
    BY ONLY <1>0, <1>3 DEF SecretCallType
  <2> QED
    BY ONLY <1>0, <1>3, <2>1
<1>4. ASSUME SecretEnds(s) PROVE scall' \in [SecretCalls -> SecretCallType]
  BY ONLY <1>0, <1>4 DEF SecretEnds
<1>5. CASE CacheReads(s)
  <2>1. ASSUME CacheIsFresh PROVE scall' \in [SecretCalls -> SecretCallType]
    <3>1. scall' = [scall EXCEPT ![s].pc = "use", ![s].val = secretCache.val]
      BY ONLY <1>5, <2>1 DEF CacheReads
    <3> QED
      BY ONLY <1>2, <3>1, SecretTypeOK DEF SecretTypeOK, SecretPCs
  <2>2. ASSUME ~CacheIsFresh PROVE scall' \in [SecretCalls -> SecretCallType]
    <3>1. scall' = [scall EXCEPT ![s].pc = "row", ![s].val = 0]
      BY ONLY <1>5, <2>2 DEF CacheReads
    <3>2. "row" \in SecretPCs /\ 0 \in 0..MaxSecrets
      OBVIOUS
    <3> QED
      BY ONLY <1>2, <3>1, <3>2
  <2>3. scall' \in [SecretCalls -> SecretCallType]
    BY ONLY <2>1, <2>2
  <2>4. UNCHANGED <<secretRow, secretCache, secretHeld, minted, changedAt, beatAt, clock, fileVars>>
    BY ONLY <1>5 DEF CacheReads
  <2> QED
    BY ONLY <2>3, <2>4, SecretTypeOK, SharedTypeOK DEF SecretTypeOK, SharedTypeOK, fileVars
<1>6. CASE RowReads(s)
  <2>1. scall' \in [SecretCalls -> SecretCallType]
    BY <1>2, <1>4, <1>6 DEF RowReads
  <2> QED
    BY <1>6, <2>1 DEF RowReads
<1>7. CASE RowMints(s)
  <2>1. CASE RowMints(s)!2!1
    <3>1. minted' \in 0..MaxSecrets
      BY <2>1
    <3>2. scall' \in [SecretCalls -> SecretCallType]
      BY <1>2, <2>1, <3>1
    <3> QED
      BY <1>7, <2>1, <3>1, <3>2 DEF RowMints
  <2>2. CASE FileFault /\ SecretEnds(s) /\ UNCHANGED <<minted, secretRow, changedAt>>
    BY <1>4, <1>7, <2>2 DEF RowMints
  <2> QED
    BY <1>7, <2>1, <2>2 DEF RowMints
<1>8. CASE CacheFills(s)
  <2>1. CacheOf(scall[s].val) \in [val : 0..MaxSecrets, until : 0..(MaxClock + CacheTTL)]
    BY <1>0 DEF CacheOf, SecretCallType
  <2>2. scall' \in [SecretCalls -> SecretCallType]
    BY <1>3, <1>8 DEF CacheFills
  <2>3. secretCache' = CacheOf(scall[s].val)
        /\ UNCHANGED <<secretRow, secretHeld, minted, changedAt, beatAt, clock, fileVars>>
    BY ONLY <1>8 DEF CacheFills
  <2> QED
    BY ONLY <2>1, <2>2, <2>3, SecretTypeOK, SharedTypeOK DEF SecretTypeOK, SharedTypeOK, fileVars
<1>9. CASE SecretIsHandedOut(s)
  <2>1. scall' \in [SecretCalls -> SecretCallType] /\ (FileFault \/ FileFine)
    BY ONLY <1>4, <1>9 DEF SecretIsHandedOut
  <2>2. scall[s].val \in 0..MaxSecrets /\ scall[s].began \in 0..MaxClock
    BY ONLY <1>0 DEF SecretCallType
  <2>3. secretHeld' \in 0..MaxSecrets /\ beatAt' \in 0..MaxClock
    BY ONLY <1>9, <2>2, SecretTypeOK DEF SecretIsHandedOut, SecretTypeOK
  <2>4. UNCHANGED <<secretRow, secretCache, minted, changedAt, clock>>
    BY ONLY <1>9 DEF SecretIsHandedOut
  <2> QED
    BY ONLY <2>1, <2>3, <2>4, FileFaultsCount, SecretTypeOK, SharedTypeOK DEF SecretTypeOK, SharedTypeOK
<1>10. CASE ChatFileForwards(s)
  <2>1. scall' \in [SecretCalls -> SecretCallType]
        /\ UNCHANGED <<secretRow, secretCache, secretHeld, minted, changedAt, beatAt, clock, fileVars>>
    BY ONLY <1>4, <1>10 DEF ChatFileForwards
  <2> QED
    BY ONLY <2>1, SecretTypeOK, SharedTypeOK DEF SecretTypeOK, SharedTypeOK, fileVars
<1> QED
  BY ONLY <1>1, <1>5, <1>6, <1>7, <1>8, <1>9, <1>10,
          \/ \E k \in {"mint", "beat", "forward"} : SecretCallBegins(s, k)
          \/ CacheReads(s) \/ RowReads(s) \/ RowMints(s) \/ CacheFills(s)
          \/ SecretIsHandedOut(s) \/ ChatFileForwards(s)

LEMMA SecretKept ==
    ASSUME SecretTypeOK, SharedTypeOK, SecretInv, NEW s \in SecretCalls,
           \/ \E k \in {"mint", "beat", "forward"} : SecretCallBegins(s, k)
           \/ CacheReads(s) \/ RowReads(s) \/ RowMints(s) \/ CacheFills(s)
           \/ SecretIsHandedOut(s) \/ ChatFileForwards(s)
    PROVE  SecretInv'
<1> USE FilesAssumption
    DEF SecretTypeOK, SharedTypeOK, SecretCallType, SecretGoto, SecretEnds, SecretIdle, SecretInv
<1>1. ASSUME NEW k \in {"mint", "beat", "forward"}, SecretCallBegins(s, k) PROVE SecretInv'
  BY <1>1 DEF SecretCallBegins
<1>5. CASE CacheReads(s)
  BY <1>5 DEF CacheReads, CacheIsFresh
<1>6. CASE RowReads(s)
  BY <1>6 DEF RowReads
<1>7. CASE RowMints(s)
  BY <1>7 DEF RowMints
<1>8. CASE CacheFills(s)
  BY <1>8 DEF CacheFills, CacheOf
<1>9. CASE SecretIsHandedOut(s)
  BY <1>9 DEF SecretIsHandedOut
<1>10. CASE ChatFileForwards(s)
  BY <1>10 DEF ChatFileForwards
<1> QED
  BY ONLY <1>1, <1>5, <1>6, <1>7, <1>8, <1>9, <1>10,
          \/ \E k \in {"mint", "beat", "forward"} : SecretCallBegins(s, k)
          \/ CacheReads(s) \/ RowReads(s) \/ RowMints(s) \/ CacheFills(s)
          \/ SecretIsHandedOut(s) \/ ChatFileForwards(s)

LEMMA OperatorKeeps ==
    ASSUME SecretTypeOK, SharedTypeOK, SecretInv, OperatorRotates
    PROVE  SecretTypeOK' /\ SharedTypeOK' /\ SecretInv'
<1>1. SecretTypeOK' /\ SharedTypeOK'
  BY FilesAssumption DEF SecretTypeOK, SharedTypeOK, OperatorRotates, fileVars
<1>2. SecretInv'
  BY FilesAssumption DEF SecretTypeOK, SharedTypeOK, SecretCallType, SecretInv, OperatorRotates
<1> QED
  BY ONLY <1>1, <1>2

LEMMA TickKeeps ==
    ASSUME SecretTypeOK, SharedTypeOK, SecretInv, ClockTicks
    PROVE  SecretTypeOK' /\ SharedTypeOK' /\ SecretInv'
<1>1. SecretTypeOK' /\ SharedTypeOK'
  BY FilesAssumption DEF SecretTypeOK, SharedTypeOK, ClockTicks, secretVars, fileVars
<1>2. SecretInv'
  BY FilesAssumption DEF SecretTypeOK, SharedTypeOK, SecretCallType, SecretInv, ClockTicks, secretVars
<1> QED
  BY ONLY <1>1, <1>2

LEMMA SecretInvSuffices ==
    ASSUME SecretTypeOK, SharedTypeOK, SecretInv
    PROVE  StaleIsBounded /\ SecretsMeet
<1> USE FilesAssumption DEF SecretTypeOK, SharedTypeOK, SecretInv
<1>1. StaleIsBounded
  BY DEF StaleIsBounded, CacheIsFresh
<1>2. SecretsMeet
  BY DEF SecretsMeet, ForwardWorks, CacheIsFresh
<1> QED
  BY ONLY <1>1, <1>2
-----------------------------------------------------------------------------
(* The files API.  A call's step leaves the other calls where they are,     *)
(* but for what the readers among them have seen by then.                   *)

SameCall(q) ==
    /\ fcall'[q].pc = fcall[q].pc /\ fcall'[q].op = fcall[q].op /\ fcall'[q].root = fcall[q].root
    /\ fcall'[q].files = fcall[q].files /\ fcall'[q].new = fcall[q].new
    /\ fcall'[q].now = fcall[q].now /\ fcall'[q].last = fcall[q].last
    /\ fcall'[q].tries = fcall[q].tries /\ fcall'[q].live = fcall[q].live
    /\ fcall[q].seen \subseteq fcall'[q].seen
NoticedBy(q) == Reading(q) => \A f \in fcall[q].files : disk'[fcall[q].root][f] \in fcall'[q].seen
OthersKept(c) ==
    /\ \A q \in FileCalls : q # c => SameCall(q) /\ NoticedBy(q)
    /\ UNCHANGED <<place, boxUp, clock>>

LEMMA FileIdleTyped == FileIdle \in FileCallType
BY FilesAssumption DEF FileIdle, FileCallType, FilePCs, Roots, Contents

LEMMA ShippedTyped == 0 \in Contents /\ Shipped \in Contents
BY FilesAssumption DEF Contents, Shipped

\* A call moves on, with the disk as it was.
LEMMA CallMoves ==
    ASSUME DiskTypeOK, ReadInv, NEW c \in FileCalls, NEW r \in FileCallType,
           fcall' = [fcall EXCEPT ![c] = r], UNCHANGED <<disk, place, boxUp, clock>>
    PROVE  fcall' \in [FileCalls -> FileCallType] /\ OthersKept(c) /\ fcall'[c] = r
<1>1. fcall' \in [FileCalls -> FileCallType] /\ fcall'[c] = r
      /\ \A q \in FileCalls : q # c => fcall'[q] = fcall[q]
  BY DEF DiskTypeOK
<1>2. ASSUME NEW q \in FileCalls, q # c PROVE SameCall(q) /\ NoticedBy(q)
  <2>1. SameCall(q)
    BY ONLY <1>1, <1>2 DEF SameCall
  <2>2. NoticedBy(q)
    BY ONLY <1>1, <1>2, ReadInv, UNCHANGED disk DEF ReadInv, ReadOf, NoticedBy
  <2> QED
    BY ONLY <2>1, <2>2
<1> QED
  BY ONLY <1>1, <1>2, UNCHANGED <<disk, place, boxUp, clock>> DEF OthersKept

\* A call writes, and the readers notice.
LEMMA NotedCalls ==
    ASSUME DiskTypeOK, disk' \in [Roots -> [FileSet -> Contents]]
    PROVE  /\ Noted(fcall, disk') \in [FileCalls -> FileCallType]
           /\ \A q \in FileCalls :
                 /\ Noted(fcall, disk')[q].pc = fcall[q].pc
                 /\ Noted(fcall, disk')[q].op = fcall[q].op
                 /\ Noted(fcall, disk')[q].root = fcall[q].root
                 /\ Noted(fcall, disk')[q].files = fcall[q].files
                 /\ Noted(fcall, disk')[q].new = fcall[q].new
                 /\ Noted(fcall, disk')[q].now = fcall[q].now
                 /\ Noted(fcall, disk')[q].last = fcall[q].last
                 /\ Noted(fcall, disk')[q].tries = fcall[q].tries
                 /\ Noted(fcall, disk')[q].live = fcall[q].live
                 /\ fcall[q].seen \subseteq Noted(fcall, disk')[q].seen
                 /\ Reading(q) => \A f \in fcall[q].files :
                                     disk'[fcall[q].root][f] \in Noted(fcall, disk')[q].seen
<1> DEFINE N == Noted(fcall, disk')
           At(q) == {disk'[fcall[q].root][f] : f \in fcall[q].files}
<1>1. ASSUME NEW q \in FileCalls PROVE fcall[q] \in FileCallType /\ At(q) \subseteq Contents
  BY <1>1 DEF DiskTypeOK, FileCallType
<1>2. ASSUME NEW q \in FileCalls
      PROVE  N[q] = IF Reading(q) THEN [fcall[q] EXCEPT !.seen = fcall[q].seen \cup At(q)] ELSE fcall[q]
  BY <1>2 DEF Noted, Reading
<1>3. N = [q \in FileCalls |-> N[q]]
  BY DEF Noted
<1>4. ASSUME NEW q \in FileCalls
      PROVE  /\ N[q] \in FileCallType
             /\ N[q].pc = fcall[q].pc /\ N[q].op = fcall[q].op /\ N[q].root = fcall[q].root
             /\ N[q].files = fcall[q].files /\ N[q].new = fcall[q].new /\ N[q].now = fcall[q].now
             /\ N[q].last = fcall[q].last /\ N[q].tries = fcall[q].tries
             /\ N[q].live = fcall[q].live /\ fcall[q].seen \subseteq N[q].seen
             /\ Reading(q) => At(q) \subseteq N[q].seen
  <2>1. CASE Reading(q)
    <3> DEFINE S == fcall[q].seen \cup At(q)
    <3>1. S \in SUBSET Contents
      BY ONLY <1>1, <1>4 DEF FileCallType
    <3>2. N[q] = [fcall[q] EXCEPT !.seen = S]
      BY ONLY <1>2, <1>4, <2>1
    <3> HIDE DEF S, N
    <3>3. /\ N[q] \in FileCallType /\ N[q].seen = S
          /\ N[q].pc = fcall[q].pc /\ N[q].op = fcall[q].op /\ N[q].root = fcall[q].root
          /\ N[q].files = fcall[q].files /\ N[q].new = fcall[q].new /\ N[q].now = fcall[q].now
          /\ N[q].last = fcall[q].last /\ N[q].tries = fcall[q].tries
          /\ N[q].live = fcall[q].live
      BY ONLY <1>1, <1>4, <3>1, <3>2 DEF FileCallType
    <3> QED
      BY ONLY <3>3 DEF S
  <2>2. CASE ~Reading(q)
    BY ONLY <1>1, <1>2, <1>4, <2>2
  <2> QED
    BY ONLY <2>1, <2>2
<1>5. N \in [FileCalls -> FileCallType]
  BY ONLY <1>3, <1>4
<1> QED
  BY ONLY <1>4, <1>5

LEMMA CallWrites ==
    ASSUME DiskTypeOK, disk' \in [Roots -> [FileSet -> Contents]],
           NEW c \in FileCalls, NEW pc \in FilePCs,
           fcall' = [Noted(fcall, disk') EXCEPT ![c].pc = pc], UNCHANGED <<place, boxUp, clock>>
    PROVE  /\ fcall' \in [FileCalls -> FileCallType] /\ OthersKept(c)
           /\ fcall'[c].pc = pc /\ fcall'[c].op = fcall[c].op /\ fcall'[c].live = fcall[c].live
           /\ fcall'[c].files = fcall[c].files
<1> DEFINE N == Noted(fcall, disk')
<1>1. N \in [FileCalls -> FileCallType] /\ \A q \in FileCalls : N[q] \in FileCallType
  BY NotedCalls
<1>2. fcall' = [N EXCEPT ![c] = [N[c] EXCEPT !.pc = pc]]
  BY <1>1
<1>3. [N[c] EXCEPT !.pc = pc] \in FileCallType
  BY ONLY <1>1, c \in FileCalls, pc \in FilePCs DEF FileCallType
<1>4. /\ fcall' \in [FileCalls -> FileCallType] /\ fcall'[c] = [N[c] EXCEPT !.pc = pc]
      /\ \A q \in FileCalls : q # c => fcall'[q] = N[q]
  BY ONLY <1>1, <1>2, <1>3
<1>5. fcall'[c].pc = pc /\ fcall'[c].op = N[c].op /\ fcall'[c].live = N[c].live
      /\ fcall'[c].files = N[c].files
  BY ONLY <1>1, <1>4, c \in FileCalls DEF FileCallType
<1>6. OthersKept(c)
  BY <1>4, NotedCalls DEF OthersKept, SameCall, NoticedBy
<1> QED
  BY <1>4, <1>5, <1>6, NotedCalls
LEMMA OthersInv ==
    ASSUME FilesInv, NEW c \in FileCalls, OthersKept(c), ShapeOf(c)', ReadOf(c)', SwapOf(c)'
    PROVE  FileShape' /\ ReadInv' /\ \A q \in FileCalls : SwapOf(q)'
<1>1. ASSUME NEW q \in FileCalls, q # c PROVE ShapeOf(q)'
  BY <1>1 DEF FilesInv, FileShape, ShapeOf, OthersKept, SameCall
<1>2. ASSUME NEW q \in FileCalls, q # c PROVE ReadOf(q)'
  BY <1>2 DEF FilesInv, ReadInv, ReadOf, Reading, OthersKept, SameCall, NoticedBy
<1>3. ASSUME NEW q \in FileCalls, q # c PROVE SwapOf(q)'
  BY <1>3 DEF FilesInv, StampInv, SwapOf, OthersKept, SameCall
<1> QED
  BY <1>1, <1>2, <1>3 DEF FileShape, ReadInv

LEMMA EditKept ==
    ASSUME FilesInv, NEW c \in FileCalls,
           \/ DirtyCall(c)' \/ due' \/ unserved'
           \/ /\ OthersKept(c) /\ UNCHANGED <<disk, loaded, due, unserved>>
              /\ DirtyCall(c) => DirtyCall(c)'
    PROVE  EditInv'
<1>1. CASE DirtyCall(c)' \/ due' \/ unserved'
  BY <1>1 DEF EditInv
<1>2. CASE /\ OthersKept(c) /\ UNCHANGED <<disk, loaded, due, unserved>>
           /\ DirtyCall(c) => DirtyCall(c)'
  <2>1. ASSUME NEW q \in FileCalls, q # c PROVE DirtyCall(q) <=> DirtyCall(q)'
    BY <1>2, <2>1 DEF OthersKept, SameCall, DirtyCall
  <2> QED
    BY <1>2, <2>1 DEF EditInv, FilesInv, OthersKept
<1> QED
  BY ONLY <1>1, <1>2, \/ DirtyCall(c)' \/ due' \/ unserved'
           \/ /\ OthersKept(c) /\ UNCHANGED <<disk, loaded, due, unserved>>
              /\ DirtyCall(c) => DirtyCall(c)'

\* Everything but the fires.
LEMMA CallStepKeeps ==
    ASSUME FilesInv, NEW c \in FileCalls, OthersKept(c), ShapeOf(c)', ReadOf(c)', SwapOf(c)',
           UNCHANGED <<lastFire, fires>>,
           \/ DirtyCall(c)' \/ due' \/ unserved'
           \/ /\ UNCHANGED <<disk, loaded, due, unserved>>
              /\ DirtyCall(c) => DirtyCall(c)'
    PROVE  FilesInv'
<1>1. FileShape' /\ ReadInv' /\ \A q \in FileCalls : SwapOf(q)'
  BY OthersInv
<1>2. EditInv'
  BY EditKept
<1>3. StampInv'
  BY <1>1 DEF FilesInv, StampInv, FiresAreSpaced
<1> QED
  BY ONLY <1>1, <1>2, <1>3 DEF FilesInv

\* A step of one call that leaves the disk as it was, in one piece.
LEMMA MoveKeeps ==
    ASSUME DiskTypeOK, FilesInv, NEW c \in FileCalls, NEW r \in FileCallType,
           fcall' = [fcall EXCEPT ![c] = r],
           UNCHANGED <<disk, place, boxUp, clock, loaded, lastFire, fires, calls>>,
           due' \in BOOLEAN, unserved' \in BOOLEAN,
           ShapeOf(c)', ReadOf(c)', SwapOf(c)',
           due' \/ unserved' \/ (UNCHANGED <<due, unserved>> /\ (DirtyCall(c) => DirtyCall(c)'))
    PROVE  DiskTypeOK' /\ FilesInv'
<1>1. fcall' \in [FileCalls -> FileCallType] /\ OthersKept(c) /\ fcall'[c] = r
  BY CallMoves DEF FilesInv
<1>2. FilesInv'
  <2>1. \/ DirtyCall(c)' \/ due' \/ unserved'
        \/ /\ UNCHANGED <<disk, loaded, due, unserved>>
           /\ DirtyCall(c) => DirtyCall(c)'
    OBVIOUS
  <2> QED
    BY <1>1, <2>1, CallStepKeeps
<1>3. DiskTypeOK'
  BY ONLY <1>1, DiskTypeOK, due' \in BOOLEAN, unserved' \in BOOLEAN,
          UNCHANGED <<disk, place, boxUp, clock, loaded, lastFire, fires, calls>>
     DEF DiskTypeOK
<1> QED
  BY ONLY <1>2, <1>3

LEMMA MovesTyped ==
    ASSUME DiskTypeOK, NEW c \in FileCalls
    PROVE  /\ fcall[c] \in FileCallType
           /\ \A pc \in FilePCs :
                 /\ [fcall[c] EXCEPT !.pc = pc] \in FileCallType
                 /\ [fcall[c] EXCEPT !.pc = pc].pc = pc
                 /\ [fcall[c] EXCEPT !.pc = pc].op = fcall[c].op
                 /\ [fcall[c] EXCEPT !.pc = pc].root = fcall[c].root
                 /\ [fcall[c] EXCEPT !.pc = pc].files = fcall[c].files
                 /\ [fcall[c] EXCEPT !.pc = pc].new = fcall[c].new
                 /\ [fcall[c] EXCEPT !.pc = pc].now = fcall[c].now
                 /\ [fcall[c] EXCEPT !.pc = pc].last = fcall[c].last
                 /\ [fcall[c] EXCEPT !.pc = pc].live = fcall[c].live
                 /\ [fcall[c] EXCEPT !.pc = pc].seen = fcall[c].seen
<1>1. fcall[c] \in FileCallType
  BY DEF DiskTypeOK
<1> QED
  BY <1>1 DEF FileCallType

\* A call that ends without having changed anything, or leaves a debt behind.
LEMMA EndKeeps ==
    ASSUME DiskTypeOK, FilesInv, NEW c \in FileCalls, FileEnds(c),
           UNCHANGED <<disk, place, boxUp, clock, loaded, lastFire, fires, calls>>,
           due' \in BOOLEAN, unserved' \in BOOLEAN,
           due' \/ unserved' \/ (UNCHANGED <<due, unserved>> /\ ~DirtyCall(c))
    PROVE  DiskTypeOK' /\ FilesInv'
<1>1. fcall' = [fcall EXCEPT ![c] = FileIdle] /\ fcall'[c] = FileIdle
  BY DEF FileEnds, DiskTypeOK
<1>2. ShapeOf(c)' /\ ReadOf(c)' /\ SwapOf(c)'
  BY ONLY <1>1 DEF FileIdle, ShapeOf, ReadOf, Reading, SwapOf
<1> QED
  BY <1>1, <1>2, FileIdleTyped, MoveKeeps

\* A call that goes on to another place with the disk as it was.
LEMMA GotoKeeps ==
    ASSUME DiskTypeOK, FilesInv, NEW c \in FileCalls, NEW pc \in FilePCs \ {"idle", "answered"},
           fcall' = [fcall EXCEPT ![c].pc = pc],
           UNCHANGED <<disk, place, boxUp, clock, loaded, lastFire, fires, calls, due, unserved>>,
           fcall[c].pc \notin {"idle", "answered"}, ShapeOf(c)', SwapOf(c)',
           DirtyCall(c) => DirtyCall(c)',
           fcall[c].op = "read" => Reading(c),
           pc = "shelf" /\ fcall[c].live /\ place = "docker" => 0 \in fcall[c].seen
    PROVE  DiskTypeOK' /\ FilesInv'
<1>1. fcall' = [fcall EXCEPT ![c] = [fcall[c] EXCEPT !.pc = pc]]
  OBVIOUS
<1>2. fcall'[c] = [fcall[c] EXCEPT !.pc = pc]
  BY <1>1 DEF DiskTypeOK
<1>3. ReadOf(c)'
  BY <1>2, MovesTyped DEF FilesInv, ReadInv, ReadOf, Reading
<1> QED
  BY <1>1, <1>3, MovesTyped, MoveKeeps DEF DiskTypeOK
\* A call that writes in one piece, and will ask for the restart.
LEMMA WriteKeeps ==
    ASSUME DiskTypeOK, FilesInv, NEW c \in FileCalls, NEW pc \in {"probe", "stamp"},
           disk' \in [Roots -> [FileSet -> Contents]],
           fcall' = [Noted(fcall, disk') EXCEPT ![c].pc = pc],
           fcall[c].pc \notin {"idle", "answered"}, pc = "probe" => place # "machine",
           UNCHANGED <<place, boxUp, clock, loaded, lastFire, fires, due, unserved, calls>>
    PROVE  DiskTypeOK' /\ FilesInv'
<1>1. /\ fcall' \in [FileCalls -> FileCallType] /\ OthersKept(c)
      /\ fcall'[c].pc = pc /\ fcall'[c].live = fcall[c].live
  BY CallWrites DEF FilePCs
<1>2. ShapeOf(c)' /\ SwapOf(c)' /\ DirtyCall(c)' /\ ReadOf(c)'
  BY <1>1 DEF ShapeOf, SwapOf, DirtyCall, ReadOf, Reading, FilesInv, ReadInv
<1>3. FilesInv'
  BY <1>1, <1>2, CallStepKeeps
<1>4. DiskTypeOK'
  BY ONLY <1>1, DiskTypeOK, disk' \in [Roots -> [FileSet -> Contents]],
          UNCHANGED <<place, boxUp, clock, loaded, lastFire, fires, due, unserved, calls>>
     DEF DiskTypeOK
<1> QED
  BY ONLY <1>3, <1>4

LEMMA PutTyped ==
    ASSUME DiskTypeOK, NEW root \in Roots, NEW files, NEW content \in Contents, Put(root, files, content)
    PROVE  disk' \in [Roots -> [FileSet -> Contents]]
BY DEF DiskTypeOK, Put

LEMMA FieldsTyped ==
    ASSUME DiskTypeOK, NEW c \in FileCalls
    PROVE  /\ fcall[c] \in FileCallType /\ fcall[c].root \in Roots /\ fcall[c].new \in Contents
           /\ fcall[c].files \subseteq FileSet /\ fcall[c].pc \in FilePCs /\ Target(c) \in Roots
           /\ fcall[c].now \in 0..MaxClock /\ fcall[c].last \in 0..MaxClock
           /\ fcall[c].tries \in 0..Retries /\ fcall[c].live \in BOOLEAN
           /\ fcall[c].seen \subseteq Contents
<1>1. fcall[c] \in FileCallType
  BY DEF DiskTypeOK
<1> QED
  BY <1>1 DEF FileCallType, Target, Roots

LEMMA BeginsKeeps ==
    ASSUME DiskTypeOK, FilesInv, NEW c \in FileCalls,
           NEW op \in {"read", "write", "replace", "delete"}, NEW root \in Roots,
           NEW files \in SUBSET FileSet, FileCallBegins(c, op, root, files)
    PROVE  DiskTypeOK' /\ FilesInv'
<1> DEFINE content == IF op \in {"write", "replace"} THEN calls + 2 ELSE 0
           seen == IF op = "read" THEN {disk[root][f] : f \in files} ELSE {}
           half == [[[[FileIdle EXCEPT !.pc = "find"] EXCEPT !.op = op] EXCEPT !.root = root]
                        EXCEPT !.files = files]
           r == [[[half EXCEPT !.live = boxUp] EXCEPT !.new = content] EXCEPT !.seen = seen]
<1>1. calls' = calls + 1 /\ calls' \in 0..MaxFileCalls /\ fcall[c].pc \in {"idle", "answered"}
      /\ UNCHANGED <<place, boxUp, disk, loaded, unserved, fileFaults, RestartKeeps>>
  BY FilesAssumption DEF FileCallBegins, DiskTypeOK
<1>2. fcall' = [fcall EXCEPT ![c] = r]
  BY ONLY FileCallBegins(c, op, root, files) DEF FileCallBegins
<1>3. /\ r \in FileCallType /\ r.pc = "find" /\ r.op = op /\ r.root = root /\ r.files = files
      /\ r.live = boxUp /\ r.seen = seen
  <2>1. content \in Contents /\ seen \in SUBSET Contents /\ boxUp \in BOOLEAN
    <3>1. content \in Contents
      BY <1>1, FilesAssumption DEF Contents, DiskTypeOK
    <3>2. seen \in SUBSET Contents
      BY DEF DiskTypeOK
    <3> QED
      BY <3>1, <3>2 DEF DiskTypeOK
  <2>2. /\ half \in FileCallType /\ half.pc = "find" /\ half.op = op /\ half.root = root
        /\ half.files = files
    BY ONLY FileIdleTyped, op \in {"read", "write", "replace", "delete"}, root \in Roots,
            files \in SUBSET FileSet DEF FileCallType, FilePCs
  <2> HIDE DEF content, seen, half
  <2> QED
    BY ONLY <2>1, <2>2 DEF FileCallType
<1>4. op # "replace" => \E f \in FileSet : files = {f}
  <2>1. IsFiniteSet(files)
    BY FS_Subset, FS_Singleton, FS_Union, FileSet = {Config} \cup {Note} DEF FileSet
  <2> QED
    BY <2>1, FS_Singleton DEF FileCallBegins
<1>5. fcall' \in [FileCalls -> FileCallType] /\ OthersKept(c) /\ fcall'[c] = r
  BY <1>1, <1>2, <1>3, CallMoves DEF FilesInv, RestartKeeps
<1>6. ShapeOf(c)' /\ ReadOf(c)' /\ SwapOf(c)'
  BY <1>1, <1>4, <1>5 DEF ShapeOf, ReadOf, Reading, SwapOf
<1>7. FilesInv'
  BY <1>1, <1>5, <1>6, CallStepKeeps DEF DirtyCall, RestartKeeps
<1>8. DiskTypeOK'
  BY ONLY <1>1, <1>5, DiskTypeOK DEF DiskTypeOK, RestartKeeps
<1> QED
  BY ONLY <1>7, <1>8

LEMMA FindKeeps ==
    ASSUME DiskTypeOK, FilesInv, NEW c \in FileCalls, FindContainer(c)
    PROVE  DiskTypeOK' /\ FilesInv'
<1> DEFINE pc == IF place = "machine" THEN "tunnel"
                 ELSE IF place = "docker" /\ boxUp THEN "box"
                 ELSE IF fcall[c].op = "read" THEN "shelf" ELSE "volume"
<1>1. fcall[c].pc = "find" /\ fcall' = [fcall EXCEPT ![c].pc = pc]
      /\ UNCHANGED <<place, boxUp, disk, loaded, unserved, calls, RestartKeeps>>
  BY DEF FindContainer, FileGoto
<1>2. /\ pc \in FilePCs \ {"idle", "answered"} /\ pc \in {"tunnel", "box", "shelf", "volume"}
      /\ place = "machine" <=> pc = "tunnel"
      /\ pc = "shelf" => fcall[c].op = "read" /\ ~(place = "docker" /\ boxUp)
      /\ pc = "volume" => fcall[c].op # "read"
  BY DEF FilePCs
<1> HIDE DEF pc
<1>3. fcall'[c] = [fcall[c] EXCEPT !.pc = pc]
  BY <1>1 DEF DiskTypeOK
<1>4. ShapeOf(c)' /\ SwapOf(c)'
  BY <1>1, <1>2, <1>3, MovesTyped DEF FilesInv, FileShape, ShapeOf, SwapOf
<1>5. ~DirtyCall(c) /\ (fcall[c].op = "read" => Reading(c))
      /\ (fcall[c].live => boxUp)
  BY <1>1 DEF DirtyCall, Reading, FilesInv, ReadInv, ReadOf
<1> QED
  BY <1>1, <1>2, <1>4, <1>5, GotoKeeps DEF RestartKeeps

LEMMA BoxWritesKeeps ==
    ASSUME DiskTypeOK, FilesInv, NEW c \in FileCalls, BoxWrites(c)
    PROVE  DiskTypeOK' /\ FilesInv'
<1> DEFINE pc == IF fcall[c].op = "replace" /\ Config \notin fcall[c].files THEN "probe" ELSE "stamp"
<1>1. fcall[c].pc = "box" /\ UNCHANGED <<place, boxUp, loaded, unserved, calls, RestartKeeps>>
  BY DEF BoxWrites
<1>2. CASE Put(Target(c), fcall[c].files, fcall[c].new) /\ fcall' = [Noted(fcall, disk') EXCEPT ![c].pc = pc]
  <2>1. disk' \in [Roots -> [FileSet -> Contents]]
    BY <1>2, PutTyped, FieldsTyped
  <2>2. place # "machine"
    BY <1>1 DEF FilesInv, FileShape, ShapeOf
  <2> QED
    BY <1>1, <1>2, <2>1, <2>2, WriteKeeps DEF RestartKeeps
<1>3. CASE FileEnds(c) /\ UNCHANGED disk
  <2>1. ~DirtyCall(c) /\ due' \in BOOLEAN /\ unserved' \in BOOLEAN
    BY <1>1 DEF DirtyCall, DiskTypeOK, RestartKeeps
  <2> QED
    BY <1>1, <1>3, <2>1, EndKeeps DEF RestartKeeps
<1> QED
  BY <1>2, <1>3 DEF BoxWrites

LEMMA ProbeKeeps ==
    ASSUME DiskTypeOK, FilesInv, NEW c \in FileCalls, ConfigProbe(c)
    PROVE  DiskTypeOK' /\ FilesInv'
<1> DEFINE pc == IF boxUp /\ disk["/configs"][Config] = 0 THEN "fill" ELSE "stamp"
<1>1. fcall[c].pc = "probe" /\ fcall' = [fcall EXCEPT ![c].pc = pc]
      /\ UNCHANGED <<place, boxUp, disk, loaded, unserved, calls, RestartKeeps>>
  BY DEF ConfigProbe, FileGoto
<1>2. pc \in {"fill", "stamp"}
  OBVIOUS
<1> HIDE DEF pc
<1>3. fcall'[c].pc = pc /\ fcall'[c].op = fcall[c].op
  BY <1>1, <1>2, MovesTyped DEF DiskTypeOK, FilePCs
<1>4. ShapeOf(c)' /\ SwapOf(c)' /\ DirtyCall(c)'
  BY <1>1, <1>2, <1>3 DEF FilesInv, FileShape, ShapeOf, SwapOf, DirtyCall
<1>5. DiskTypeOK' /\ FilesInv'
  <2>1. [fcall[c] EXCEPT !.pc = pc] \in FileCallType
    BY <1>2, MovesTyped DEF FilePCs
  <2>2. ReadOf(c)'
    <3>1. fcall'[c].live = fcall[c].live
      BY <1>1, <1>2, MovesTyped DEF DiskTypeOK, FilePCs
    <3> QED
      BY <1>1, <1>2, <1>3, <3>1 DEF FilesInv, ReadInv, ReadOf, Reading
  <2>3. due' \in BOOLEAN /\ unserved' \in BOOLEAN
    BY <1>1 DEF DiskTypeOK, RestartKeeps
  <2> QED
    BY <1>1, <1>4, <2>1, <2>2, <2>3, MoveKeeps DEF RestartKeeps
<1> QED
  BY <1>5

LEMMA DefaultKeeps ==
    ASSUME DiskTypeOK, FilesInv, NEW c \in FileCalls, generateDefaultConfig(c)
    PROVE  DiskTypeOK' /\ FilesInv'
<1>1. fcall[c].pc = "fill" /\ UNCHANGED <<place, boxUp, loaded, unserved, calls, RestartKeeps>>
  BY DEF generateDefaultConfig
<1>2. CASE Put("/configs", {Config}, Shipped) /\ fcall' = [Noted(fcall, disk') EXCEPT ![c].pc = "stamp"]
  <2>1. disk' \in [Roots -> [FileSet -> Contents]]
    BY <1>2, PutTyped, ShippedTyped DEF Roots
  <2> QED
    BY <1>1, <1>2, <2>1, WriteKeeps DEF RestartKeeps
<1>3. CASE UNCHANGED disk /\ FileGoto(c, "fill", "stamp")
  <2>1. fcall' = [fcall EXCEPT ![c] = [fcall[c] EXCEPT !.pc = "stamp"]]
        /\ [fcall[c] EXCEPT !.pc = "stamp"] \in FileCallType
    BY <1>3, MovesTyped DEF FileGoto, FilePCs
  <2>2. fcall'[c].pc = "stamp" /\ fcall'[c].live = fcall[c].live
    BY <2>1, MovesTyped DEF DiskTypeOK, FilePCs
  <2>3. ShapeOf(c)' /\ SwapOf(c)' /\ DirtyCall(c)' /\ ReadOf(c)'
    BY <1>1, <2>2 DEF ShapeOf, SwapOf, DirtyCall, FilesInv, ReadInv, ReadOf, Reading
  <2>4. due' \in BOOLEAN /\ unserved' \in BOOLEAN
    BY <1>1 DEF DiskTypeOK, RestartKeeps
  <2> QED
    BY <1>1, <1>3, <2>1, <2>3, <2>4, MoveKeeps DEF RestartKeeps
<1> QED
  BY <1>2, <1>3 DEF generateDefaultConfig

LEMMA EphemeralKeeps ==
    ASSUME DiskTypeOK, FilesInv, NEW c \in FileCalls, writeViaEphemeral(c)
    PROVE  DiskTypeOK' /\ FilesInv'
<1>1. fcall[c].pc = "volume" /\ place = "docker"
      /\ UNCHANGED <<place, boxUp, loaded, unserved, calls, RestartKeeps>>
  BY DEF writeViaEphemeral
<1>2. CASE Put("/configs", fcall[c].files, fcall[c].new)
           /\ fcall' = [Noted(fcall, disk') EXCEPT ![c].pc = "stamp"]
  <2>1. disk' \in [Roots -> [FileSet -> Contents]]
    BY <1>2, PutTyped, FieldsTyped DEF Roots
  <2> QED
    BY <1>1, <1>2, <2>1, WriteKeeps DEF RestartKeeps
<1>3. CASE UNCHANGED disk /\ FileEnds(c)
  <2>1. ~DirtyCall(c) /\ due' \in BOOLEAN /\ unserved' \in BOOLEAN
    BY <1>1 DEF DirtyCall, DiskTypeOK, RestartKeeps
  <2> QED
    BY <1>1, <1>3, <2>1, EndKeeps DEF RestartKeeps
<1> QED
  BY <1>2, <1>3 DEF writeViaEphemeral
LEMMA ByFileKeeps ==
    ASSUME DiskTypeOK, FilesInv, NEW c \in FileCalls, NEW pc \in {"volume", "tunnel"},
           FileByFile(c, pc), pc = "volume" => place = "mirror"
    PROVE  DiskTypeOK' /\ FilesInv'
<1> DEFINE N == Noted(fcall, disk')
<1>1. /\ fcall[c].pc = pc /\ fcall[c].op # "read" /\ place # "docker"
      /\ UNCHANGED <<place, boxUp, loaded, calls, RestartKeeps>>
  BY DEF FileByFile, FilesInv, FileShape, ShapeOf
<1>2. ASSUME NEW f \in fcall[c].files, Put(Target(c), {f}, fcall[c].new), UNCHANGED unserved,
             fcall' = [N EXCEPT ![c].files = @ \ {f},
                                ![c].pc = IF fcall[c].files = {f} THEN "stamp" ELSE pc]
      PROVE  DiskTypeOK' /\ FilesInv'
  <2> DEFINE to == IF fcall[c].files = {f} THEN "stamp" ELSE pc
             r == [[N[c] EXCEPT !.files = N[c].files \ {f}] EXCEPT !.pc = to]
  <2>1. disk' \in [Roots -> [FileSet -> Contents]]
    BY <1>2, PutTyped, FieldsTyped
  <2>2. N \in [FileCalls -> FileCallType] /\ \A q \in FileCalls : N[q] \in FileCallType
    BY <2>1, NotedCalls
  <2>3. to \in FilePCs /\ (to = "stamp" \/ (to = pc /\ fcall[c].files # {f}))
    BY DEF FilePCs
  <2>4. fcall' = [N EXCEPT ![c] = r]
    BY <1>2, <2>2
  <2> HIDE DEF N, to
  <2>5. r \in FileCallType /\ r.pc = to /\ r.op = N[c].op /\ r.live = N[c].live
    BY ONLY <2>2, <2>3, c \in FileCalls DEF FileCallType
  <2> HIDE DEF r
  <2>6. /\ fcall' \in [FileCalls -> FileCallType] /\ fcall'[c] = r
        /\ \A q \in FileCalls : q # c => fcall'[q] = N[q]
    BY ONLY <2>2, <2>4, <2>5, c \in FileCalls
  <2>7. OthersKept(c)
    BY <1>1, <2>1, <2>6, NotedCalls DEF OthersKept, SameCall, NoticedBy, N, RestartKeeps
  <2>8. fcall'[c].pc = to /\ fcall'[c].op = fcall[c].op /\ fcall'[c].live = fcall[c].live
    BY <2>1, <2>5, <2>6, NotedCalls DEF N
  <2>9. to = pc => fcall[c].op = "replace"
    BY <1>1, <1>2, <2>3, FieldsTyped DEF FilesInv, FileShape, ShapeOf
  <2>10. ShapeOf(c)' /\ SwapOf(c)' /\ ReadOf(c)' /\ DirtyCall(c)'
    BY <1>1, <2>3, <2>8, <2>9 DEF FilesInv, FileShape, ShapeOf, SwapOf, ReadInv, ReadOf, Reading, DirtyCall
  <2>11. FilesInv'
    BY <1>1, <2>7, <2>10, CallStepKeeps DEF RestartKeeps
  <2>12. DiskTypeOK'
    BY ONLY <1>1, <1>2, <2>1, <2>6, DiskTypeOK DEF DiskTypeOK, RestartKeeps
  <2> QED
    BY ONLY <2>11, <2>12
<1>3. CASE unserved' = TRUE /\ UNCHANGED disk /\ FileEnds(c)
  BY <1>1, <1>3, EndKeeps DEF RestartKeeps, DiskTypeOK
<1>4. ASSUME NEW f \in fcall[c].files, unserved' = TRUE, Put(Target(c), {f}, fcall[c].new),
             fcall' = [N EXCEPT ![c] = FileIdle]
      PROVE  DiskTypeOK' /\ FilesInv'
  <2>1. disk' \in [Roots -> [FileSet -> Contents]]
    BY <1>4, PutTyped, FieldsTyped
  <2>2. N \in [FileCalls -> FileCallType]
    BY <2>1, NotedCalls
  <2> HIDE DEF N
  <2>3. /\ fcall' \in [FileCalls -> FileCallType] /\ fcall'[c] = FileIdle
        /\ \A q \in FileCalls : q # c => fcall'[q] = N[q]
    BY ONLY <1>4, <2>2, FileIdleTyped, c \in FileCalls
  <2>4. OthersKept(c)
    BY <1>1, <2>1, <2>3, NotedCalls DEF OthersKept, SameCall, NoticedBy, N, RestartKeeps
  <2>5. ShapeOf(c)' /\ SwapOf(c)' /\ ReadOf(c)'
    BY ONLY <2>3 DEF ShapeOf, SwapOf, ReadOf, Reading, FileIdle
  <2>6. FilesInv'
    BY <1>1, <1>4, <2>4, <2>5, CallStepKeeps DEF RestartKeeps
  <2>7. DiskTypeOK'
    BY ONLY <1>1, <1>4, <2>1, <2>3, DiskTypeOK DEF DiskTypeOK, RestartKeeps
  <2> QED
    BY ONLY <2>6, <2>7
<1> QED
  BY <1>2, <1>3, <1>4 DEF FileByFile

\* An answer is honest when what it says was seen.
LEMMA AnswerKeeps ==
    ASSUME DiskTypeOK, FilesInv, NEW c \in FileCalls, NEW what \in Contents, Answers(c, what),
           UNCHANGED <<disk, place, boxUp, clock, loaded, lastFire, fires, calls, due, unserved>>,
           Reading(c),
           fcall[c].live /\ place # "mirror" =>
              what \in fcall[c].seen \/ (0 \in fcall[c].seen /\ what = Shipped)
    PROVE  DiskTypeOK' /\ FilesInv'
<1> DEFINE r == [[[[FileIdle EXCEPT !.pc = "answered"] EXCEPT !.new = what]
                      EXCEPT !.live = fcall[c].live] EXCEPT !.seen = fcall[c].seen]
<1>1. FileIdle.live = TRUE
  BY DEF FileIdle
<1>2. fcall' = [fcall EXCEPT ![c] = r]
  <2>1. (TRUE /\ fcall[c].live) = fcall[c].live
    BY FieldsTyped
  <2> QED
    BY <1>1, <2>1, FieldsTyped, FileIdleTyped DEF Answers, FileCallType
<1>3. /\ r \in FileCallType /\ r.pc = "answered" /\ r.new = what
      /\ r.live = fcall[c].live /\ r.seen = fcall[c].seen
  <2>1. fcall[c].live \in BOOLEAN /\ fcall[c].seen \in SUBSET Contents
    BY FieldsTyped
  <2> QED
    BY ONLY FileIdleTyped, what \in Contents, <2>1 DEF FileCallType, FilePCs
<1> HIDE DEF r
<1>4. fcall'[c] = r
  BY <1>2, <1>3 DEF DiskTypeOK
<1>5. ShapeOf(c)' /\ SwapOf(c)' /\ ReadOf(c)'
  BY <1>3, <1>4 DEF ShapeOf, SwapOf, ReadOf, Reading
<1>6. ~DirtyCall(c) /\ due' \in BOOLEAN /\ unserved' \in BOOLEAN
  BY DEF DirtyCall, Reading, DiskTypeOK
<1> QED
  BY <1>2, <1>3, <1>5, <1>6, MoveKeeps

LEMMA BoxReadsKeeps ==
    ASSUME DiskTypeOK, FilesInv, NEW c \in FileCalls, BoxReads(c)
    PROVE  DiskTypeOK' /\ FilesInv'
<1>1. /\ fcall[c].pc = "box" /\ fcall[c].op = "read"
      /\ UNCHANGED <<place, boxUp, disk, loaded, unserved, calls, RestartKeeps>>
  BY DEF BoxReads
<1>2. PICK f \in FileSet : fcall[c].files = {f}
  BY <1>1 DEF FilesInv, FileShape, ShapeOf
<1> DEFINE there == disk[fcall[c].root][f]
<1>3. there \in fcall[c].seen /\ there \in Contents /\ Reading(c) /\ ~DirtyCall(c) /\ place # "machine"
      /\ (fcall[c].live => boxUp)
  BY <1>1, <1>2, FieldsTyped DEF FilesInv, ReadInv, ReadOf, Reading, DirtyCall, FileShape, ShapeOf
<1>4. CASE Answers(c, there)
  BY <1>1, <1>3, <1>4, AnswerKeeps DEF RestartKeeps
<1>5. CASE (~boxUp \/ there = 0) /\ FileGoto(c, "box", "shelf")
  <2>1. fcall' = [fcall EXCEPT ![c].pc = "shelf"] /\ fcall'[c] = [fcall[c] EXCEPT !.pc = "shelf"]
    BY <1>5 DEF FileGoto, DiskTypeOK
  <2>2. ShapeOf(c)' /\ SwapOf(c)'
    <3>1. fcall'[c].pc = "shelf" /\ fcall'[c].op = "read" /\ fcall'[c].files = {f}
      <4>1. fcall[c] \in FileCallType
        BY FieldsTyped
      <4> QED
        BY ONLY <1>1, <1>2, <2>1, <4>1 DEF FileCallType
    <3> QED
      BY <1>1, <1>2, <1>3, <3>1 DEF ShapeOf, SwapOf, RestartKeeps
  <2>3. fcall[c].live => 0 \in fcall[c].seen
    BY <1>3, <1>5
  <2> QED
    BY <1>1, <1>3, <2>1, <2>2, <2>3, GotoKeeps DEF RestartKeeps, FilePCs
<1>6. CASE fcall' = [fcall EXCEPT ![c].pc = "shelf", ![c].live = FALSE]
  <2> DEFINE r == [[fcall[c] EXCEPT !.pc = "shelf"] EXCEPT !.live = FALSE]
  <2>1. fcall' = [fcall EXCEPT ![c] = r]
    BY <1>6 DEF DiskTypeOK
  <2>2. /\ r \in FileCallType /\ r.pc = "shelf" /\ r.live = FALSE /\ r.op = fcall[c].op
        /\ r.files = fcall[c].files /\ r.seen = fcall[c].seen /\ r.root = fcall[c].root
    <3>1. fcall[c] \in FileCallType
      BY FieldsTyped
    <3> QED
      BY ONLY <3>1 DEF FileCallType, FilePCs
  <2> HIDE DEF r
  <2>3. fcall'[c] = r
    BY <2>1, <2>2 DEF DiskTypeOK
  <2>4. ShapeOf(c)' /\ SwapOf(c)'
    BY <1>1, <1>2, <1>3, <2>2, <2>3 DEF ShapeOf, SwapOf
  <2>5. ReadOf(c)'
    BY <1>1, <1>2, <1>3, <2>2, <2>3 DEF ReadOf, Reading
  <2>6. due' \in BOOLEAN /\ unserved' \in BOOLEAN
    BY <1>1 DEF DiskTypeOK, RestartKeeps
  <2> QED
    BY <1>1, <1>3, <2>1, <2>2, <2>4, <2>5, <2>6, MoveKeeps DEF RestartKeeps
<1> QED
  <2>1. Answers(c, there) \/ ((~boxUp \/ there = 0) /\ FileGoto(c, "box", "shelf"))
        \/ fcall' = [fcall EXCEPT ![c].pc = "shelf", ![c].live = FALSE]
    BY <1>2 DEF BoxReads
  <2> QED
    BY <1>4, <1>5, <1>6, <2>1

LEMMA ShelfReadsKeeps ==
    ASSUME DiskTypeOK, FilesInv, NEW c \in FileCalls, ShelfReads(c)
    PROVE  DiskTypeOK' /\ FilesInv'
<1>1. /\ fcall[c].pc = "shelf"
      /\ UNCHANGED <<place, boxUp, disk, loaded, unserved, calls, RestartKeeps>>
  BY DEF ShelfReads
<1>2. fcall[c].op = "read" /\ place # "machine"
  BY <1>1 DEF FilesInv, FileShape, ShapeOf
<1>3. PICK f \in FileSet : fcall[c].files = {f}
  BY <1>1, <1>2 DEF FilesInv, FileShape, ShapeOf
<1> DEFINE what == IF place = "mirror" /\ fcall[c].root = "/configs" THEN disk["/configs"][f]
                   ELSE IF f = Config THEN Shipped ELSE 0
<1>4. Answers(c, what) /\ what \in Contents
  BY <1>3, ShippedTyped DEF ShelfReads, DiskTypeOK, Roots
<1>5. Reading(c) /\ (place = "docker" /\ fcall[c].live => 0 \in fcall[c].seen)
  BY <1>1, <1>2 DEF Reading, FilesInv, ReadInv, ReadOf
<1>6. place # "mirror" => place = "docker" /\ what \in {0, Shipped}
  BY <1>2 DEF DiskTypeOK
<1> HIDE DEF what
<1> QED
  BY <1>1, <1>4, <1>5, <1>6, AnswerKeeps DEF RestartKeeps

LEMMA EICReadsKeeps ==
    ASSUME DiskTypeOK, FilesInv, NEW c \in FileCalls, readFileViaEIC(c)
    PROVE  DiskTypeOK' /\ FilesInv'
<1>1. /\ fcall[c].pc = "tunnel" /\ fcall[c].op = "read"
      /\ UNCHANGED <<place, boxUp, disk, loaded, unserved, calls, RestartKeeps>>
  BY DEF readFileViaEIC
<1>2. Reading(c) /\ ~DirtyCall(c) /\ due' \in BOOLEAN /\ unserved' \in BOOLEAN
  BY <1>1 DEF Reading, DirtyCall, RestartKeeps, DiskTypeOK
<1>3. ASSUME NEW f \in fcall[c].files, Answers(c, disk[fcall[c].root][f])
      PROVE  DiskTypeOK' /\ FilesInv'
  <2>1. disk[fcall[c].root][f] \in fcall[c].seen /\ disk[fcall[c].root][f] \in Contents
    BY <1>2, FieldsTyped DEF FilesInv, ReadInv, ReadOf
  <2> QED
    BY <1>1, <1>2, <1>3, <2>1, AnswerKeeps DEF RestartKeeps
<1>4. CASE FileEnds(c)
  BY <1>1, <1>2, <1>4, EndKeeps DEF RestartKeeps
<1> QED
  BY <1>3, <1>4 DEF readFileViaEIC
\* The debounce: the clock, the stamp, and the swap.
LEMMA ClockReadKeeps ==
    ASSUME DiskTypeOK, SharedTypeOK, FilesInv, NEW c \in FileCalls, DebounceReadsClock(c)
    PROVE  DiskTypeOK' /\ FilesInv'
<1> DEFINE r == [[fcall[c] EXCEPT !.pc = "load"] EXCEPT !.now = clock]
<1>1. /\ fcall[c].pc = "stamp" /\ fcall' = [fcall EXCEPT ![c] = r]
      /\ UNCHANGED <<place, boxUp, disk, loaded, unserved, calls, RestartKeeps>>
  BY DEF DebounceReadsClock, DiskTypeOK
<1>2. r \in FileCallType /\ r.pc = "load" /\ r.now = clock /\ r.live = fcall[c].live
  <2>1. fcall[c] \in FileCallType /\ clock \in 0..MaxClock
    BY FieldsTyped, FilesAssumption DEF SharedTypeOK
  <2> QED
    BY ONLY <2>1 DEF FileCallType, FilePCs
<1> HIDE DEF r
<1>3. fcall'[c] = r
  BY <1>1, <1>2 DEF DiskTypeOK
<1>4. clock' = clock /\ clock \in 1..clock
  BY <1>1, FilesAssumption DEF RestartKeeps, SharedTypeOK
<1>5. ShapeOf(c)' /\ SwapOf(c)' /\ ReadOf(c)' /\ DirtyCall(c)'
  BY <1>1, <1>2, <1>3, <1>4 DEF ShapeOf, SwapOf, ReadOf, Reading, DirtyCall, FilesInv, ReadInv
<1>6. due' \in BOOLEAN /\ unserved' \in BOOLEAN
  BY <1>1 DEF DiskTypeOK, RestartKeeps
<1> QED
  BY <1>1, <1>2, <1>5, <1>6, MoveKeeps DEF RestartKeeps

LEMMA LoadKeeps ==
    ASSUME DiskTypeOK, SharedTypeOK, FilesInv, NEW c \in FileCalls, DebounceLoads(c)
    PROVE  DiskTypeOK' /\ FilesInv'
<1>1. /\ fcall[c].pc = "load"
      /\ UNCHANGED <<place, boxUp, disk, loaded, calls, RestartKeeps>>
  BY DEF DebounceLoads
<1>2. CASE FileEnds(c) /\ unserved' = TRUE
  BY <1>1, <1>2, EndKeeps DEF RestartKeeps, DiskTypeOK
<1>3. CASE /\ ~WithinWindow(fcall[c].now, lastFire) /\ UNCHANGED unserved
           /\ fcall' = [fcall EXCEPT ![c].pc = "swap", ![c].last = lastFire]
  <2> DEFINE r == [[fcall[c] EXCEPT !.pc = "swap"] EXCEPT !.last = lastFire]
  <2>1. fcall' = [fcall EXCEPT ![c] = r]
    BY <1>3 DEF DiskTypeOK
  <2>2. r \in FileCallType /\ r.pc = "swap" /\ r.last = lastFire /\ r.live = fcall[c].live
        /\ r.now = fcall[c].now
    <3>1. fcall[c] \in FileCallType /\ lastFire \in 0..MaxClock
      BY FieldsTyped DEF DiskTypeOK
    <3> QED
      BY ONLY <3>1 DEF FileCallType, FilePCs
  <2> HIDE DEF r
  <2>3. fcall'[c] = r
    BY <2>1, <2>2 DEF DiskTypeOK
  <2>4. lastFire = 0 \/ fcall[c].now >= lastFire + Window
    BY <1>3, FieldsTyped, FilesAssumption DEF WithinWindow, DiskTypeOK
  <2>5. fcall[c].now \in 1..clock /\ clock' = clock
    BY <1>1 DEF FilesInv, FileShape, ShapeOf, RestartKeeps
  <2>6. ShapeOf(c)' /\ SwapOf(c)' /\ ReadOf(c)' /\ DirtyCall(c)'
    BY <1>1, <2>2, <2>3, <2>4, <2>5 DEF ShapeOf, SwapOf, ReadOf, Reading, DirtyCall, FilesInv, ReadInv
  <2>7. due' \in BOOLEAN /\ unserved' \in BOOLEAN
    BY <1>1, <1>3 DEF DiskTypeOK, RestartKeeps
  <2> QED
    BY <1>1, <1>3, <2>1, <2>2, <2>6, <2>7, MoveKeeps DEF RestartKeeps
<1> QED
  BY <1>2, <1>3 DEF DebounceLoads

LEMMA SwapKeeps ==
    ASSUME DiskTypeOK, SharedTypeOK, FilesInv, NEW c \in FileCalls, DebounceSwaps(c)
    PROVE  DiskTypeOK' /\ FilesInv'
<1>1. /\ fcall[c].pc = "swap"
      /\ UNCHANGED <<place, boxUp, disk, loaded, unserved, calls, clock>>
  BY DEF DebounceSwaps
<1>2. CASE /\ lastFire = fcall[c].last /\ lastFire' = fcall[c].now
           /\ due' = TRUE /\ FileEnds(c) /\ fires' = fires \cup {fcall[c].now}
  <2>1. fcall' = [fcall EXCEPT ![c] = FileIdle] /\ fcall'[c] = FileIdle
    BY <1>2 DEF FileEnds, DiskTypeOK
  <2>2. fcall' \in [FileCalls -> FileCallType] /\ OthersKept(c)
    BY <1>1, <2>1, FileIdleTyped, CallMoves DEF FilesInv
  <2>3. ShapeOf(c)' /\ ReadOf(c)' /\ SwapOf(c)'
    BY ONLY <2>1 DEF FileIdle, ShapeOf, ReadOf, Reading, SwapOf
  <2>4. FileShape' /\ ReadInv' /\ \A q \in FileCalls : SwapOf(q)'
    BY <2>2, <2>3, OthersInv
  <2>5. EditInv'
    BY <1>2 DEF EditInv
  <2> DEFINE now == fcall[c].now
  <2>6. now \in 1..clock /\ now \in 0..MaxClock /\ (lastFire = 0 \/ now >= lastFire + Window)
    BY <1>1, <1>2, FieldsTyped DEF FilesInv, FileShape, ShapeOf, StampInv, SwapOf
  <2>7. /\ \A a \in fires : a \in Nat /\ 1 <= a /\ a <= lastFire
        /\ \A a, b \in fires : a < b => b >= a + Window
        /\ lastFire \in Nat /\ now \in Nat
    BY <2>6 DEF FilesInv, StampInv, FiresAreSpaced, DiskTypeOK
  <2> HIDE DEF now
  <2>8. \A a \in fires : a <= now /\ now >= a + Window
    BY ONLY <2>6, <2>7, FilesAssumption
  <2>9. /\ \A a \in fires \cup {now} : 1 <= a /\ a <= now
        /\ \A a, b \in fires \cup {now} : a < b => b >= a + Window
    BY ONLY <2>6, <2>7, <2>8, FilesAssumption
  <2>10. StampInv'
    BY <1>2, <2>4, <2>9 DEF StampInv, FiresAreSpaced, now
  <2>11. DiskTypeOK'
    BY <1>1, <1>2, <2>2, <2>6 DEF DiskTypeOK, now
  <2> QED
    BY ONLY <2>4, <2>5, <2>10, <2>11 DEF FilesInv
<1>3. CASE /\ fcall[c].tries + 1 < Retries
           /\ fcall' = [fcall EXCEPT ![c].pc = "load", ![c].tries = @ + 1]
           /\ UNCHANGED <<lastFire, due, fires>>
  <2> DEFINE r == [[fcall[c] EXCEPT !.pc = "load"] EXCEPT !.tries = fcall[c].tries + 1]
  <2>1. fcall' = [fcall EXCEPT ![c] = r]
    BY <1>3 DEF DiskTypeOK
  <2>2. r \in FileCallType /\ r.pc = "load" /\ r.live = fcall[c].live /\ r.now = fcall[c].now
    <3>1. fcall[c] \in FileCallType /\ fcall[c].tries + 1 \in 0..Retries
      BY <1>3, FieldsTyped, FilesAssumption
    <3> QED
      BY ONLY <3>1 DEF FileCallType, FilePCs
  <2> HIDE DEF r
  <2>3. fcall'[c] = r
    BY <2>1, <2>2 DEF DiskTypeOK
  <2>4. fcall[c].now \in 1..clock /\ clock' = clock
    BY <1>1 DEF FilesInv, FileShape, ShapeOf
  <2>5. ShapeOf(c)' /\ SwapOf(c)' /\ ReadOf(c)' /\ DirtyCall(c)'
    BY <1>1, <2>2, <2>3, <2>4 DEF ShapeOf, SwapOf, ReadOf, Reading, DirtyCall, FilesInv, ReadInv
  <2>6. due' \in BOOLEAN /\ unserved' \in BOOLEAN
    BY <1>1, <1>3 DEF DiskTypeOK
  <2> QED
    BY <1>1, <1>3, <2>1, <2>2, <2>5, <2>6, MoveKeeps
<1>4. CASE due' = TRUE /\ FileEnds(c) /\ UNCHANGED <<lastFire, fires>>
  BY <1>1, <1>4, EndKeeps DEF DiskTypeOK
<1> QED
  BY <1>2, <1>3, <1>4 DEF DebounceSwaps

-----------------------------------------------------------------------------
(* The agent and the clock.                                                *)

LEMMA AgentStopsKeeps ==
    ASSUME DiskTypeOK, SharedTypeOK, FilesInv, AgentStops
    PROVE  DiskTypeOK' /\ SharedTypeOK' /\ FilesInv'
<1>1. boxUp' = FALSE /\ UNCHANGED <<place, disk, loaded, lastFire, fires, unserved, calls, clock>>
  BY DEF AgentStops
<1>2. ASSUME NEW q \in FileCalls
      PROVE  /\ fcall'[q] \in FileCallType
             /\ fcall'[q].pc = fcall[q].pc /\ fcall'[q].op = fcall[q].op
             /\ fcall'[q].root = fcall[q].root /\ fcall'[q].files = fcall[q].files
             /\ fcall'[q].new = fcall[q].new /\ fcall'[q].now = fcall[q].now
             /\ fcall'[q].last = fcall[q].last /\ fcall'[q].seen = fcall[q].seen
             /\ fcall'[q].live => fcall[q].live /\ fcall[q].pc \in {"idle", "answered"}
  <2> DEFINE l == fcall[q].live /\ fcall[q].pc \in {"idle", "answered"}
  <2>1. fcall[q] \in FileCallType /\ l \in BOOLEAN
    BY <1>2, FieldsTyped
  <2>2. fcall'[q] = [fcall[q] EXCEPT !.live = l]
    BY ONLY <1>2, <2>1, AgentStops DEF AgentStops
  <2>3. (fcall[q].live /\ fcall[q].pc \in {"idle", "answered"}) <=> l
    OBVIOUS
  <2> HIDE DEF l
  <2> QED
    BY ONLY <2>1, <2>2, <2>3 DEF FileCallType
<1>3. fcall' \in [FileCalls -> FileCallType]
  <2>1. fcall' = [c \in FileCalls |-> fcall'[c]]
    BY DEF AgentStops
  <2> QED
    BY ONLY <1>2, <2>1
<1>4. DiskTypeOK'
  <2>1. due' \in BOOLEAN
    BY DEF AgentStops, DiskTypeOK
  <2> QED
    BY ONLY <1>1, <1>3, <2>1, DiskTypeOK DEF DiskTypeOK
<1>5. SharedTypeOK'
  BY FileFaultsCount DEF AgentStops, SharedTypeOK
<1>6. FileShape'
  BY <1>1, <1>2 DEF FilesInv, FileShape, ShapeOf
<1>7. EditInv'
  BY <1>1 DEF EditInv
<1>8. StampInv'
  BY <1>1, <1>2 DEF FilesInv, StampInv, FiresAreSpaced, SwapOf
<1>9. ReadInv'
  BY <1>1, <1>2 DEF FilesInv, ReadInv, ReadOf, Reading
<1> QED
  BY ONLY <1>4, <1>5, <1>6, <1>7, <1>8, <1>9 DEF FilesInv

LEMMA AgentLoadsKeeps ==
    ASSUME DiskTypeOK, SharedTypeOK, FilesInv, AgentLoads
    PROVE  DiskTypeOK' /\ SharedTypeOK' /\ FilesInv'
<1>1. /\ boxUp' = TRUE /\ loaded' = disk["/configs"] /\ unserved' = FALSE
      /\ UNCHANGED <<place, disk, calls, fcall, fileFaults, RestartKeeps>>
  BY DEF AgentLoads
<1>2. DiskTypeOK' /\ SharedTypeOK'
  BY <1>1 DEF DiskTypeOK, SharedTypeOK, Roots, RestartKeeps
<1>3. FileShape' /\ EditInv' /\ StampInv'
  BY <1>1 DEF FilesInv, FileShape, ShapeOf, EditInv, StampInv, FiresAreSpaced, SwapOf, RestartKeeps
<1>4. ReadInv'
  BY <1>1 DEF FilesInv, ReadInv, ReadOf, Reading
<1> QED
  BY ONLY <1>2, <1>3, <1>4 DEF FilesInv

LEMMA FilesOutlastTheRest ==
    ASSUME DiskTypeOK, FilesInv, clock \in Nat, clock' \in Nat, clock <= clock',
           UNCHANGED <<place, boxUp, disk, loaded, lastFire, fires, due, unserved, calls, fcall>>
    PROVE  DiskTypeOK' /\ FilesInv'
<1>1. DiskTypeOK'
  BY DEF DiskTypeOK
<1>2. FileShape'
  BY FieldsTyped DEF FilesInv, FileShape, ShapeOf
<1>3. EditInv'
  BY DEF FilesInv, EditInv, DirtyCall
<1>4. StampInv' /\ ReadInv'
  BY DEF FilesInv, StampInv, FiresAreSpaced, SwapOf, ReadInv, ReadOf, Reading
<1> QED
  BY ONLY <1>1, <1>2, <1>3, <1>4 DEF FilesInv
-----------------------------------------------------------------------------
(* The specification.                                                      *)

FilesIInv == FilesTypeOK /\ FilesInv /\ SecretInv

LEMMA FilesIInvInit == FilesInit => FilesIInv
<1> SUFFICES ASSUME FilesInit PROVE FilesIInv
  OBVIOUS
<1> USE FilesAssumption DEF FilesInit
<1>1. DiskTypeOK
  <2>1. disk \in [Roots -> [FileSet -> Contents]]
    BY ShippedTyped
  <2>2. loaded \in [FileSet -> Contents]
    BY <2>1 DEF Roots
  <2>3. fcall \in [FileCalls -> FileCallType]
    BY FileIdleTyped
  <2>4. place \in {"docker", "mirror", "machine"} /\ lastFire \in 0..MaxClock /\ fires \subseteq 0..MaxClock
        /\ calls \in 0..MaxFileCalls
    OBVIOUS
  <2>5. boxUp \in BOOLEAN /\ due \in BOOLEAN /\ unserved \in BOOLEAN
    BY ONLY FilesInit DEF FilesInit
  <2> QED
    BY ONLY <2>1, <2>2, <2>3, <2>4, <2>5 DEF DiskTypeOK
<1>2. SecretTypeOK
  BY DEF SecretTypeOK, SecretCallType, SecretIdle, SecretPCs
<1>3. SharedTypeOK
  BY DEF SharedTypeOK
<1>4. FilesInv
  <2>1. FileShape
    BY DEF FileShape, ShapeOf, FileIdle
  <2>2. EditInv
    BY DEF EditInv
  <2>3. StampInv
    BY DEF StampInv, FiresAreSpaced, SwapOf, FileIdle
  <2>4. ReadInv
    BY DEF ReadInv, ReadOf, Reading, FileIdle
  <2> QED
    BY ONLY <2>1, <2>2, <2>3, <2>4 DEF FilesInv
<1>5. SecretInv
  BY DEF SecretInv, SecretIdle
<1> QED
  BY ONLY <1>1, <1>2, <1>3, <1>4, <1>5, FilesTypesSplit DEF FilesIInv

LEMMA FilesIInvStep == FilesIInv /\ [FilesNext]_filesVars => FilesIInv'
<1> SUFFICES ASSUME FilesIInv, [FilesNext]_filesVars PROVE FilesIInv'
  OBVIOUS
<1>1. DiskTypeOK /\ SecretTypeOK /\ SharedTypeOK /\ FilesInv /\ SecretInv
  BY FilesTypesSplit DEF FilesIInv
<1>2. clock \in Nat
  BY <1>1, FilesAssumption DEF SharedTypeOK
<1>3. SUFFICES DiskTypeOK' /\ SecretTypeOK' /\ SharedTypeOK' /\ FilesInv' /\ SecretInv'
  BY FilesTypesSplit DEF FilesIInv, FilesTypeOK, DiskTypeOK, SecretTypeOK, SharedTypeOK,
                         FileCallType, SecretCallType
<1>4. ASSUME UNCHANGED <<secretVars, clock>> PROVE SecretTypeOK' /\ SecretInv'
  BY <1>1, <1>4 DEF secretVars, SecretTypeOK, SecretInv
<1>5. ASSUME FileFault \/ FileFine, UNCHANGED clock PROVE SharedTypeOK'
  BY <1>1, <1>5, FileFaultsCount DEF SharedTypeOK
<1>6. ASSUME NEW c \in FileCalls, NEW op \in {"read", "write", "replace", "delete"},
             NEW root \in Roots, NEW files \in SUBSET FileSet, FileCallBegins(c, op, root, files)
      PROVE  DiskTypeOK' /\ SecretTypeOK' /\ SharedTypeOK' /\ FilesInv' /\ SecretInv'
  <2>1. DiskTypeOK' /\ FilesInv'
    BY ONLY <1>1, <1>6, BeginsKeeps
  <2>2. FileFine /\ UNCHANGED <<secretVars, clock>>
    BY ONLY <1>6 DEF FileCallBegins, RestartKeeps, FileFine
  <2> QED
    BY <1>4, <1>5, <2>1, <2>2
<1>7. ASSUME NEW c \in FileCalls, FileCallMoves(c)
      PROVE  DiskTypeOK' /\ SecretTypeOK' /\ SharedTypeOK' /\ FilesInv' /\ SecretInv'
  <2>1. DiskTypeOK' /\ FilesInv'
    BY <1>1, <1>7, FindKeeps, BoxWritesKeeps, ProbeKeeps, DefaultKeeps, EphemeralKeeps, ByFileKeeps,
       BoxReadsKeeps, ShelfReadsKeeps, EICReadsKeeps, ClockReadKeeps, LoadKeeps, SwapKeeps
    DEF FileCallMoves, writeFilesLocal, writeFileViaEIC
  <2>2. (FileFault \/ FileFine) /\ UNCHANGED <<secretVars, clock>>
    BY <1>7 DEF FileCallMoves, FindContainer, BoxWrites, ConfigProbe, generateDefaultConfig,
                writeViaEphemeral, writeFilesLocal, writeFileViaEIC, FileByFile, BoxReads, ShelfReads,
                readFileViaEIC, DebounceReadsClock, DebounceLoads, DebounceSwaps, RestartKeeps, FileFine
  <2> QED
    BY <1>4, <1>5, <2>1, <2>2
<1>8. CASE AgentStops
  BY <1>1, <1>4, <1>8, AgentStopsKeeps DEF AgentStops
<1>9. CASE AgentLoads
  BY <1>1, <1>4, <1>9, AgentLoadsKeeps DEF AgentLoads, RestartKeeps
<1>10. ASSUME NEW s \in SecretCalls,
              \/ \E k \in {"mint", "beat", "forward"} : SecretCallBegins(s, k)
              \/ CacheReads(s) \/ RowReads(s) \/ RowMints(s) \/ CacheFills(s)
              \/ SecretIsHandedOut(s) \/ ChatFileForwards(s)
       PROVE  DiskTypeOK' /\ SecretTypeOK' /\ SharedTypeOK' /\ FilesInv' /\ SecretInv'
  <2>1. UNCHANGED <<place, boxUp, disk, loaded, lastFire, fires, due, unserved, calls, fcall, clock>>
    BY <1>10 DEF SecretCallBegins, CacheReads, RowReads, RowMints, CacheFills, SecretIsHandedOut,
                 ChatFileForwards, fileVars
  <2>2. clock' \in Nat /\ clock <= clock'
    BY <1>2, <2>1
  <2> QED
    BY <1>1, <1>2, <1>10, <2>1, <2>2, SecretTypes, SecretKept, FilesOutlastTheRest
<1>11. CASE OperatorRotates
  <2>1. UNCHANGED <<place, boxUp, disk, loaded, lastFire, fires, due, unserved, calls, fcall, clock>>
    BY <1>11 DEF OperatorRotates, fileVars
  <2>2. clock' \in Nat /\ clock <= clock'
    BY <1>2, <2>1
  <2> QED
    BY <1>1, <1>2, <1>11, <2>1, <2>2, OperatorKeeps, FilesOutlastTheRest
<1>12. CASE ClockTicks
  <2>1. UNCHANGED <<place, boxUp, disk, loaded, lastFire, fires, due, unserved, calls, fcall>>
        /\ clock' = clock + 1
    BY <1>12 DEF ClockTicks, fileVars
  <2>2. clock' \in Nat /\ clock <= clock'
    BY <1>2, <2>1
  <2> QED
    BY <1>1, <1>2, <1>12, <2>1, <2>2, TickKeeps, FilesOutlastTheRest
<1>13. CASE UNCHANGED filesVars
  <2>1. UNCHANGED <<place, boxUp, disk, loaded, lastFire, fires, due, unserved, calls, fcall, fileFaults>>
        /\ UNCHANGED <<secretVars, clock>>
    BY <1>13 DEF filesVars, fileVars
  <2>2. clock' \in Nat /\ clock <= clock'
    BY <1>2, <2>1
  <2>3. SharedTypeOK'
    BY <1>1, <2>1 DEF SharedTypeOK
  <2> QED
    BY <1>1, <1>2, <1>4, <2>1, <2>2, <2>3, FilesOutlastTheRest
<1> QED
  BY <1>6, <1>7, <1>8, <1>9, <1>10, <1>11, <1>12, <1>13
  DEF FilesNext, FileCallStarts, FileStep, SecretCallStarts, SecretStep, Upload, Download

\* What is written reaches the agent's next start or leaves a restart behind, two
\* restarts are a window apart, a read answers with what was there, and platform
\* and agent agree on their secret once the caches have run out (WriteFile,
\* ReplaceFiles, DeleteFile, ReadFile, maybeRestartAfterFileWrite,
\* ReadPlatformInboundSecret).
THEOREM FilesDoArrive == FilesSpec => []FilesArrive
<1>1. FilesIInv => FilesArrive
  <2> SUFFICES ASSUME FilesIInv PROVE FilesArrive
    OBVIOUS
  <2>1. DiskTypeOK /\ SecretTypeOK /\ SharedTypeOK /\ FilesInv /\ SecretInv
    BY FilesTypesSplit DEF FilesIInv
  <2>2. EditsAreLoaded
    <3>1. ASSUME Unasked = {}, NEW c \in FileCalls PROVE ~DirtyCall(c)
      BY <3>1 DEF Unasked, DirtyCall
    <3> QED
      BY <2>1, <3>1 DEF FilesInv, EditInv, EditsAreLoaded
  <2>3. FiresAreSpaced /\ ReadsAreHonest
    BY <2>1 DEF FilesInv, StampInv, ReadInv, ReadOf, ReadsAreHonest
  <2>4. StaleIsBounded /\ SecretsMeet
    BY <2>1, SecretInvSuffices
  <2> QED
    BY <2>2, <2>3, <2>4 DEF FilesArrive, FilesIInv
<1> QED
  BY <1>1, FilesIInvInit, FilesIInvStep, PTL DEF FilesSpec

=============================================================================
