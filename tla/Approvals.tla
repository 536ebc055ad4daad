----------------------------- MODULE Approvals -----------------------------
(***************************************************************************)
(* The approval gate: a privileged caller's gated operation needs a        *)
(* matching approval, which it consumes; without one the call files a      *)
(* pending request, which a human decides or the requester withdraws, and  *)
(* the caller tries again. All rows and callers here are of one operation  *)
(* (one request hash). Two kinds of operation use the gate: a destructive  *)
(* one runs within the call; a privileged delegation is handed off after   *)
(* it and gives the approval back when the hand-off never happened.        *)
(*                                                                         *)
(* Source: workspace-server/internal/handlers, approval_gate.go,           *)
(* approvals.go and the grant's way through delegation.go.                 *)
(***************************************************************************)
EXTENDS Naturals, FiniteSets

CONSTANTS
    ApprovalRows,      \* rows of approval_requests there can be
    Callers,           \* callers of the gated operation
    NoRow,             \* no row held
    MaxGrantFaults     \* bound: lost answers, failed restores, restarts

ASSUME ApprovalsAssumption ==
    NoRow \notin ApprovalRows /\ IsFiniteSet(Callers) /\ MaxGrantFaults \in Nat

VARIABLES
    gated,         \* what the gate guards: "destructive" or "delegation"
    approval,      \* approval_requests.status of each row, or "none"
    consumed,      \* the rows with consumed_at set
    caller,        \* each caller: where it stands and the row it consumed
    runs,          \* how often the operation was carried out on each row
    spoiled,       \* rows whose caller failed: an answer or a restore lost
    grantFaults    \* faults so far

grantVars == <<gated, approval, consumed, caller, runs, spoiled, grantFaults>>

Final == {"approved", "denied", "withdrawn"}
Away == [pc |-> "away", row |-> NoRow]

GrantFault == grantFaults < MaxGrantFaults /\ grantFaults' = grantFaults + 1
NoFault == UNCHANGED <<spoiled, grantFaults>>
Spoils(r) == GrantFault /\ spoiled' = spoiled \union {r}

CallerGoes(c, pc) == caller' = [caller EXCEPT ![c].pc = pc]

ApprovalsInit ==
    /\ gated \in {"destructive", "delegation"}
    /\ approval = [r \in ApprovalRows |-> "none"] /\ consumed = {}
    /\ caller = [c \in Callers |-> Away]
    /\ runs = [r \in ApprovalRows |-> 0] /\ spoiled = {} /\ grantFaults = 0

-----------------------------------------------------------------------------
Consumable == {r \in ApprovalRows : approval[r] = "approved" /\ r \notin consumed}

ConsumeByReading(c) ==
    /\ caller[c] = Away
    /\ \/ \E r \in Consumable :
              caller' = [caller EXCEPT ![c] = [pc |-> "run", row |-> r]]
       \/ Consumable = {} /\ CallerGoes(c, "look")
    /\ NoFault /\ UNCHANGED <<gated, approval, consumed, runs>>

\* requireApproval, first statement: the newest approved row that is not
\* consumed and not locked by another caller's statement is consumed.
ConsumeApproval(c) ==
    /\ caller[c] = Away
    /\ \/ \E r \in Consumable :
              /\ consumed' = consumed \union {r}
              /\ caller' = [caller EXCEPT ![c] = [pc |-> "run", row |-> r]]
       \/ Consumable = {} /\ CallerGoes(c, "look") /\ UNCHANGED consumed
    /\ NoFault /\ UNCHANGED <<gated, approval, runs>>

\* requireApproval, second statement: its snapshot shows a pending row, which
\* is the caller's answer, or shows none ...
LookForPending(c) ==
    /\ caller[c].pc = "look"
    /\ CallerGoes(c, IF \E r \in ApprovalRows : approval[r] = "pending" THEN "away"
                     ELSE "file")
    /\ NoFault /\ UNCHANGED <<gated, approval, consumed, runs>>

\* ... and then it inserts one; no index forbids that another call did so too.
FileApproval(c) ==
    /\ caller[c].pc = "file"
    /\ \E r \in ApprovalRows : /\ approval[r] = "none"
                               /\ approval' = [approval EXCEPT ![r] = "pending"]
    /\ CallerGoes(c, "away")
    /\ NoFault /\ UNCHANGED <<gated, consumed, runs>>

\* The bound on rows: a call that has no row left to file is given up.
FileBound(c) ==
    /\ caller[c].pc = "file" /\ \A r \in ApprovalRows : approval[r] # "none"
    /\ CallerGoes(c, "away")
    /\ NoFault /\ UNCHANGED <<gated, approval, consumed, runs>>

\* Decide and Withdraw write a row that is still pending.
Settle(r, s) ==
    /\ approval[r] = "pending"
    /\ approval' = [approval EXCEPT ![r] = s]
    /\ NoFault /\ UNCHANGED <<gated, consumed, caller, runs>>

Decide(r) == \E s \in {"approved", "denied"} : Settle(r, s)
Withdraw(r) == Settle(r, "withdrawn")

-----------------------------------------------------------------------------
\* The operation is carried out on the row the caller consumed ...
RunGated(c) ==
    /\ caller[c].pc = "run"
    /\ runs' = [runs EXCEPT ![caller[c].row] = @ + 1]
    /\ caller' = [caller EXCEPT ![c] = Away]
    /\ NoFault /\ UNCHANGED <<gated, approval, consumed>>

\* ... or fails. A delegation whose hand-off failed goes to
\* finalizeNonDispatchedDelegation; a destructive operation is answered with
\* an error and its approval stays consumed.
FailsToDispatch(c) ==
    /\ caller[c].pc = "run"
    /\ IF gated = "delegation" THEN CallerGoes(c, "restore") /\ NoFault
       ELSE caller' = [caller EXCEPT ![c] = Away] /\ Spoils(caller[c].row)
    /\ UNCHANGED <<gated, approval, consumed, runs>>

\* The target did the work and its answer was lost: to the proxy an error like
\* any other.
AnswerLost(c) ==
    /\ caller[c].pc = "run" /\ gated = "delegation"
    /\ runs' = [runs EXCEPT ![caller[c].row] = @ + 1]
    /\ CallerGoes(c, "restore") /\ Spoils(caller[c].row)
    /\ UNCHANGED <<gated, approval, consumed>>

\* restorePrivilegedDelegationGrant: consumed_at is cleared; a failure of the
\* statement is logged.
RestoreGrant(c) ==
    /\ caller[c].pc = "restore"
    /\ caller' = [caller EXCEPT ![c] = Away]
    /\ \/ consumed' = consumed \ {caller[c].row} /\ NoFault
       \/ Spoils(caller[c].row) /\ UNCHANGED consumed
    /\ UNCHANGED <<gated, approval, runs>>

\* The server restarts between two steps of the callers it serves.
ApprovalsRestart ==
    /\ GrantFault
    /\ caller' = [c \in Callers |-> Away]
    /\ spoiled' = spoiled \union ({caller[c].row : c \in Callers} \ {NoRow})
    /\ UNCHANGED <<gated, approval, consumed, runs>>

GateCallStep(c) == \/ LookForPending(c) \/ FileApproval(c) \/ FileBound(c)
                   \/ RunGated(c) \/ RestoreGrant(c)

ApprovalsNext ==
    \/ \E c \in Callers : \/ ConsumeApproval(c) \/ GateCallStep(c)
                          \/ FailsToDispatch(c) \/ AnswerLost(c)
    \/ \E r \in ApprovalRows : Decide(r) \/ Withdraw(r)
    \/ ApprovalsRestart

ApprovalsSpec == ApprovalsInit /\ [][ApprovalsNext]_grantVars

-----------------------------------------------------------------------------
\* The type invariant.
ApprovalsTypeOK ==
    /\ gated \in {"destructive", "delegation"}
    /\ approval \in [ApprovalRows -> Final \union {"none", "pending"}]
    /\ consumed \subseteq ApprovalRows /\ spoiled \subseteq ApprovalRows
    /\ caller \in [Callers -> [pc : {"away", "look", "file", "run", "restore"},
                               row : ApprovalRows \union {NoRow}]]
    /\ runs \in [ApprovalRows -> Nat]
    /\ grantFaults \in 0..MaxGrantFaults

\* One approval carries at most one operation, and only an approval does, also
\* after hand-offs that failed and gave it back; the exception is a row whose
\* operation was done and whose answer was lost (requireApproval's consuming
\* UPDATE, restorePrivilegedDelegationGrant).
OneRunPerApproval ==
    \A r \in ApprovalRows :
        /\ runs[r] > 0 => approval[r] = "approved"
        /\ runs[r] > 1 => r \in spoiled

\* No approval is spent on nothing: a consumed row is in a caller's hands or
\* its operation was carried out, unless the caller failed on it
\* (finalizeNonDispatchedDelegation gives the grant back).
NoGrantBurned ==
    \A r \in consumed \ spoiled :
        runs[r] = 1 \/ \E c \in Callers : caller[c].row = r /\ caller[c].pc # "away"

\* Retries do not flood the approver: at most one pending row per caller that
\* looked before any of them had filed (requireApproval's second statement).
PendingPerCaller ==
    Cardinality({r \in ApprovalRows : approval[r] = "pending"}) <= Cardinality(Callers)

\* An approval carries one operation of the caller it was granted to
\* (requireApproval, consumeApproval, restoreApprovalGrant).
ApprovalsAreSpentOnce ==
    /\ ApprovalsTypeOK
    /\ OneRunPerApproval
    /\ NoGrantBurned
    /\ PendingPerCaller

=============================================================================
