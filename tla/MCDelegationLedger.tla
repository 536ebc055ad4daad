------------------------- MODULE MCDelegationLedger -------------------------
(***************************************************************************)
(* What is on file about delegations and for readers, for TLC: a behaviour *)
(* is that of the delegation ledger (DelegationLedger) or of the readers   *)
(* of the activity log (InboxFeed).  They share no state; the one that is  *)
(* not chosen rests in its initial state.                                  *)
(***************************************************************************)
EXTENDS DelegationLedger, InboxFeed, TLC

VARIABLE record

recordVars == <<vars, feedVars, record>>

RecordInit ==
    /\ record \in {"ledger", "feed"}
    /\ Init /\ FeedInit /\ (record = "feed" => enabled)

\* The poller reads agents' messages and the canvas chat; neither reads what
\* the other writes.
FeedCast ==
    \/ pager' = NoWalk /\ \A e \in Entries : ~entry'[e].chat
    \/ seen' = {} /\ \A e \in Entries : entry'[e].phase \notin {"none", "failed"} => entry'[e].chat

RecordNext ==
    \/ /\ record = "ledger" /\ Next
       /\ UNCHANGED <<feedVars, record>>
    \/ /\ record = "feed" /\ FeedNext /\ FeedCast
       /\ UNCHANGED <<vars, record>>

RecordSpec == RecordInit /\ [][RecordNext]_recordVars

Symmetry == Permutations(Writers)
=============================================================================
