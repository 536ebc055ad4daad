--------------------------- MODULE DelegationReply ---------------------------
(***************************************************************************)
(* What the delegation ledger promises its callers, without writers,       *)
(* statements or failures: a delegation is opened once, closed once with   *)
(* one outcome, and the one notice sent on the ledger's authority comes    *)
(* after the close and tells that outcome.                                 *)
(***************************************************************************)
EXTENDS Naturals

CONSTANTS Delegations

VARIABLES
    phase,    \* "absent", "open", or the outcome
    notices,  \* notices sent on the ledger's authority
    told      \* what the notice said, "none" before it

Outcomes == {"completed", "failed"}

rvars == <<phase, notices, told>>

RInit ==
    /\ phase = [d \in Delegations |-> "absent"]
    /\ notices = [d \in Delegations |-> 0]
    /\ told = [d \in Delegations |-> "none"]

Open(d) ==
    /\ phase[d] = "absent"
    /\ phase' = [phase EXCEPT ![d] = "open"]
    /\ UNCHANGED <<notices, told>>

Close(d, o) ==
    /\ phase[d] = "open"
    /\ phase' = [phase EXCEPT ![d] = o]
    /\ UNCHANGED <<notices, told>>

Notify(d) ==
    /\ phase[d] \in Outcomes
    /\ notices[d] = 0
    /\ notices' = [notices EXCEPT ![d] = 1]
    /\ told' = [told EXCEPT ![d] = phase[d]]
    /\ UNCHANGED phase

RNext ==
    \E d \in Delegations :
        \/ Open(d)
        \/ \E o \in Outcomes : Close(d, o)
        \/ Notify(d)

RSpec == RInit /\ [][RNext]_rvars
=============================================================================
