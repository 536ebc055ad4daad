----------------------- MODULE DelegationLedgerProofs -----------------------
(***************************************************************************)
(* Proofs about DelegationLedger, for any set of delegations and of        *)
(* writers, any routes and any bounds.                                     *)
(*                                                                         *)
(* The argument: a terminal status is entered only by a compare-and-swap   *)
(* from an in-flight status, so the goroutine that wins it is alone        *)
(* (LicenceIsExclusive), and nothing moves the row afterwards              *)
(* (ReplyTellsTheLedger).  What makes this inductive is what a goroutine   *)
(* between its SELECT and its UPDATE remembers (WriterOK).                 *)
(***************************************************************************)
EXTENDS DelegationLedger, TLAPS

\* A goroutine with work has a delegation and a call to make, compares with an
\* in-flight status that may move to its target, and an unarbitrated call has
\* left its trace.
RecordOK(r) ==
    /\ r.pc # "idle" => r.d \in Delegations
    /\ r.pc \in {"select", "update"} => r.calls > 0
    /\ r.pc = "update" => /\ r.seen \in DelegationInFlightStates
                          /\ r.want \in allowedTransitions[r.seen]
    /\ r.auth = "Unarbitrated" => r.d \in uncertain

WriterOK == \A p \in Procs : RecordOK(proc[p])

RepliesOK ==
    \A d \in Delegations : /\ mine[d] > 0 => ledger[d] \in DelegationTerminalStates
                           /\ blind[d] > 0 => d \in uncertain

Core == WriterOK /\ LicenceIsExclusive /\ ReplyTellsTheLedger /\ RepliesOK

Inv == TypeOK /\ Core

-----------------------------------------------------------------------------
\* The transition matrix leaves only in-flight statuses, and never returns to
\* `queued` (delegation_ledger.go, allowedTransitions).
LEMMA MatrixFacts ==
    ASSUME NEW s \in DelegationInFlightStates
    PROVE  /\ allowedTransitions[s] \subseteq DelegationAllStates \ {s}
           /\ s \notin DelegationTerminalStates
  BY DEF allowedTransitions, DelegationInFlightStates, DelegationTerminalStates,
         DelegationAllStates

\* The initial state satisfies the inductive invariant (empty tables, no
\* goroutine at work).
LEMMA InitInv == Init => Inv
  <1> SUFFICES ASSUME Init PROVE Inv
    OBVIOUS
  <1>1. TypeOK
    BY ProcsAssumption DEF Init, TypeOK, Idle, Procs, Goroutines
  <1>2. WriterOK /\ LicenceIsExclusive /\ ReplyTellsTheLedger /\ RepliesOK
    BY DEF Init, WriterOK, LicenceIsExclusive, Owns, ReplyTellsTheLedger, RepliesOK, Idle,
           RecordOK
  <1> QED
    BY <1>1, <1>2 DEF Inv, Core

-----------------------------------------------------------------------------
\* What a finished SetStatus call leaves of the goroutine that made it
\* (delegation_ledger.go, SetStatus's return points).
LEMMA ReturnFacts ==
    ASSUME TypeOK, WriterOK, NEW p \in Procs, NEW a \in ReplyAuthority, Return(p, a),
           proc[p].pc \in {"select", "update"}
    PROVE  /\ proc' \in [Procs -> Goroutines]
           /\ uncertain' \subseteq Delegations /\ uncertain \subseteq uncertain'
           /\ \A q \in Procs : q # p => proc'[q] = proc[q]
           /\ proc'[p].d = proc[p].d /\ proc'[p].want = proc[p].want
           /\ proc'[p].pc = IF proc[p].calls > 1 THEN "select" ELSE "reply"
           /\ proc'[p].calls = proc[p].calls - 1
           /\ proc'[p].auth = IF proc[p].calls = proc[p].keep THEN a ELSE proc[p].auth
           /\ a = "Unarbitrated" => proc[p].d \in uncertain'
  <1>1. proc[p] \in Goroutines /\ proc[p].calls > 0 /\ proc[p].d \in Delegations
    BY DEF TypeOK, WriterOK, RecordOK
  <1>2. Returned(proc[p], a) \in Goroutines
    <2>1. proc[p].calls - 1 \in Nat
      BY <1>1 DEF Goroutines
    <2>2. (IF proc[p].calls > 1 THEN "select" ELSE "reply") \in {"select", "reply"}
      OBVIOUS
    <2>3. (IF proc[p].calls = proc[p].keep THEN a ELSE proc[p].auth)
              \in ReplyAuthority \cup {"none"}
      BY <1>1 DEF Goroutines
    <2> QED
      BY <1>1, <2>1, <2>2, <2>3 DEF Returned, Goroutines
  <1>3. /\ proc' \in [Procs -> Goroutines]
        /\ \A q \in Procs : q # p => proc'[q] = proc[q]
        /\ proc'[p] = Returned(proc[p], a)
    BY <1>2 DEF Return, TypeOK
  <1>4. /\ uncertain' \subseteq Delegations /\ uncertain \subseteq uncertain'
        /\ a = "Unarbitrated" => proc[p].d \in uncertain'
    BY <1>1 DEF Return, TypeOK
  <1> QED
    BY <1>1, <1>3, <1>4 DEF Returned, Goroutines

-----------------------------------------------------------------------------
\* A step that sends nothing, writes no terminal status and gives no goroutine
\* a licence keeps the invariant: every route's start, the sweeper's own
\* bookkeeping, the executor's steps, a silent finish, a restart.
LEMMA InertStep ==
    ASSUME TypeOK, Core, UNCHANGED <<mine, blind, said, uncertain>>,
           \A d \in Delegations : \/ ledger'[d] = ledger[d]
                                  \/ ledger[d] = "none" /\ ledger'[d] = "queued",
           \A q \in Procs : proc'[q] = proc[q] \/ (RecordOK(proc[q])' /\ ~Owns(q)')
    PROVE  Core'
  <1>1. WriterOK'
    BY DEF Core, WriterOK, RecordOK
  <1>2. \A q \in Procs : Owns(q)' => proc'[q] = proc[q] /\ Owns(q) /\ proc[q].d \in Delegations
    BY DEF Owns, Core, WriterOK, RecordOK
  <1>3. LicenceIsExclusive'
    BY <1>2 DEF LicenceIsExclusive, Core, Owns, DelegationTerminalStates
  <1>4. ReplyTellsTheLedger' /\ RepliesOK'
    BY DEF ReplyTellsTheLedger, RepliesOK, Core, DelegationTerminalStates
  <1> QED
    BY <1>1, <1>3, <1>4 DEF Core

\* A SetStatus call that returns keeps the invariant, whether it moved the row
\* from the status it compared with or left it.
LEMMA CallStep ==
    ASSUME TypeOK, Core, NEW p \in Procs, NEW a \in ReplyAuthority, Return(p, a),
           proc[p].pc \in {"select", "update"}, UNCHANGED <<mine, blind, said>>,
           \/ a # "Mine" /\ ledger' = ledger
           \/ /\ proc[p].pc = "update" /\ ledger[proc[p].d] = proc[p].seen
              /\ ledger' = [ledger EXCEPT ![proc[p].d] = proc[p].want]
    PROVE  Core'
  <1> DEFINE d == proc[p].d
  <1>1. WriterOK
    BY DEF Core
  <1>2. /\ uncertain \subseteq uncertain'
        /\ \A q \in Procs : q # p => proc'[q] = proc[q]
        /\ proc'[p].d = d /\ proc'[p].want = proc[p].want
        /\ proc'[p].pc = IF proc[p].calls > 1 THEN "select" ELSE "reply"
        /\ proc'[p].calls = proc[p].calls - 1
        /\ proc'[p].auth = IF proc[p].calls = proc[p].keep THEN a ELSE proc[p].auth
        /\ a = "Unarbitrated" => d \in uncertain'
    BY <1>1, ReturnFacts
  <1>3. d \in Delegations /\ proc[p].calls \in Nat
    BY <1>1 DEF WriterOK, RecordOK, TypeOK, Goroutines
  <1>4. WriterOK'
    <2>1. RecordOK(proc[p])'
      BY <1>1, <1>2, <1>3 DEF WriterOK, RecordOK
    <2>2. \A q \in Procs : q # p => RecordOK(proc[q])'
      BY <1>1, <1>2 DEF WriterOK, RecordOK
    <2> QED
      BY <2>1, <2>2 DEF WriterOK
  <1>5. CASE a # "Mine" /\ ledger' = ledger
    <2>1. \A q \in Procs : Owns(q)' => /\ Owns(q) /\ proc'[q].d = proc[q].d
                                       /\ proc'[q].want = proc[q].want
      BY <1>2, <1>5 DEF Owns
    <2>2. LicenceIsExclusive'
      BY <2>1, <1>5 DEF LicenceIsExclusive, Core
    <2>3. ReplyTellsTheLedger' /\ RepliesOK'
      BY <1>2, <1>5 DEF ReplyTellsTheLedger, RepliesOK, Core
    <2> QED
      BY <1>4, <2>2, <2>3 DEF Core
  <1>6. CASE /\ proc[p].pc = "update" /\ ledger[d] = proc[p].seen
             /\ ledger' = [ledger EXCEPT ![d] = proc[p].want]
    <2>1. /\ ledger[d] \notin DelegationTerminalStates
          /\ ledger'[d] = proc[p].want
          /\ \A e \in Delegations : e # d => ledger'[e] = ledger[e]
      BY <1>1, <1>3, <1>6, MatrixFacts DEF WriterOK, RecordOK, TypeOK
    <2>2. mine[d] = 0
      BY <2>1, <1>3 DEF Core, RepliesOK, TypeOK
    <2>3. \A q \in Procs : Owns(q) => proc[q].d # d /\ proc[q].d \in Delegations
      BY <2>1, <1>1 DEF Core, LicenceIsExclusive, Owns, WriterOK, RecordOK
    <2>4. \A q \in Procs : Owns(q)' => \/ q = p
                                       \/ Owns(q) /\ proc'[q] = proc[q] /\ q # p
      BY <1>2 DEF Owns
    <2>5. LicenceIsExclusive'
      BY <1>2, <2>1, <2>2, <2>3, <2>4 DEF LicenceIsExclusive, Core
    <2>6. ReplyTellsTheLedger' /\ RepliesOK'
      BY <1>2, <2>1, <2>2 DEF ReplyTellsTheLedger, RepliesOK, Core
    <2> QED
      BY <1>4, <2>5, <2>6 DEF Core
  <1> QED
    BY <1>5, <1>6

-----------------------------------------------------------------------------
\* The steps of a SetStatus call, whoever makes it.
LEMMA SetStatusKeepsInv ==
    ASSUME Inv, NEW p \in Procs,
           SetStatusStep(p) \/ SetStatusError(p) \/ SetStatusRowsUnknown(p)
    PROVE  Inv'
  <1> USE DEF Inv
  <1>1. proc[p] \in Goroutines /\ RecordOK(proc[p])
    BY DEF TypeOK, Core, WriterOK
  <1>2. CASE SetStatusSelect(p)
    <2> DEFINE current == ledger[proc[p].d]
               verdict == SelectVerdict(p, current)
    <2>1. proc[p].pc = "select" /\ proc[p].d \in Delegations
      BY <1>1, <1>2 DEF SetStatusSelect, RecordOK
    <2>2. UNCHANGED <<ledger, mine, blind, said>>
      BY <1>2 DEF SetStatusSelect, rowVars, inboxVars
    <2>3. CASE verdict = "cas"
      <3>1. /\ proc' = [proc EXCEPT ![p].pc = "update", ![p].seen = current]
            /\ UNCHANGED uncertain
        BY <1>2, <2>3 DEF SetStatusSelect
      <3>2. /\ current \in DelegationInFlightStates
            /\ proc[p].want \in allowedTransitions[current]
        BY <2>3 DEF SelectVerdict
      <3>3. proc' \in [Procs -> Goroutines]
        BY ZenonT(60), <3>1, <3>2, <1>1 DEF TypeOK, Goroutines, DelegationAllStates
      <3>4. RecordOK(proc[p])'
        BY <3>1, <3>2, <1>1, <2>1 DEF RecordOK, TypeOK, Goroutines
      <3>5. Owns(p)' => Owns(p)
        BY <3>1, <2>1, <1>1 DEF Owns, TypeOK, Goroutines
      <3>6. WriterOK'
        BY <3>1, <3>4, <2>2 DEF Core, WriterOK, RecordOK, TypeOK
      <3>7. \A q \in Procs : Owns(q)' => /\ Owns(q) /\ proc'[q].d = proc[q].d
                                         /\ proc'[q].want = proc[q].want
        BY <3>1, <3>5, <1>1 DEF Owns, TypeOK, Goroutines
      <3>8. Core'
        BY ZenonT(60), <2>2, <3>1, <3>6, <3>7 DEF Core, LicenceIsExclusive, ReplyTellsTheLedger, RepliesOK
      <3>9. TypeOK'
        BY <1>2, <3>1, <3>3 DEF TypeOK, SetStatusSelect, rowVars, inboxVars, envVars
      <3> QED
        BY <3>8, <3>9
    <2>4. CASE verdict # "cas"
      <3>1. Return(p, verdict) /\ verdict \in ReplyAuthority /\ verdict # "Mine"
        BY <1>2, <2>4 DEF SetStatusSelect, SelectVerdict, ReplyAuthority
      <3>2. Core'
        BY <3>1, <2>1, <2>2, CallStep
      <3>3. proc' \in [Procs -> Goroutines] /\ uncertain' \subseteq Delegations
        BY <3>1, <2>1, ReturnFacts DEF Core
      <3>4. TypeOK'
        BY <1>2, <3>3 DEF TypeOK, SetStatusSelect, rowVars, inboxVars, envVars
      <3> QED
        BY <3>2, <3>4
    <2> QED
      BY <2>3, <2>4
  <1>3. ASSUME NEW a \in {"Mine", "NotMine", "Unarbitrated"}, proc[p].pc = "update", Return(p, a),
               \/ a # "Mine" /\ ledger' = ledger
               \/ /\ ledger[proc[p].d] = proc[p].seen
                  /\ ledger' = [ledger EXCEPT ![proc[p].d] = proc[p].want],
               UNCHANGED <<overdue, silent, held, placeholder, used, reports, inboxVars, todo,
                           enabled, pushing, grace, restarts>>,
               faults' \in Nat
        PROVE  Inv'
    <2>1. a \in ReplyAuthority /\ proc[p].d \in Delegations
      BY <1>1, <1>3 DEF ReplyAuthority, RecordOK
    <2>2. Core'
      BY <1>3, <2>1, CallStep DEF inboxVars
    <2>3. proc' \in [Procs -> Goroutines] /\ uncertain' \subseteq Delegations
      BY <1>3, <2>1, ReturnFacts DEF Core
    <2>4. ledger' \in [Delegations -> DelegationAllStates \cup {"none"}]
      BY <1>1, <1>3, <2>1 DEF TypeOK, Goroutines
    <2>5. TypeOK'
      BY <1>3, <2>3, <2>4 DEF TypeOK, inboxVars
    <2> QED
      BY <2>2, <2>5
  <1>4. CASE SetStatusUpdate(p)
    <2>1. faults' \in Nat
      BY <1>4 DEF SetStatusUpdate, envVars, TypeOK
    <2> QED
      BY <1>3, <1>4, <2>1 DEF SetStatusUpdate, envVars
  <1>5. CASE SetStatusRowsUnknown(p)
    <2>1. faults' \in Nat
      BY <1>5 DEF SetStatusRowsUnknown, TypeOK
    <2> QED
      BY <1>3, <1>5, <2>1 DEF SetStatusRowsUnknown
  <1>6. CASE SetStatusError(p)
    <2>1. /\ proc[p].pc \in {"select", "update"} /\ Return(p, "Deferred")
          /\ UNCHANGED <<ledger, mine, blind, said>> /\ "Deferred" \in ReplyAuthority
      BY <1>6 DEF SetStatusError, rowVars, inboxVars, ReplyAuthority
    <2>2. Core'
      BY <2>1, CallStep
    <2>3. proc' \in [Procs -> Goroutines] /\ uncertain' \subseteq Delegations
      BY <2>1, ReturnFacts DEF Core
    <2>4. TypeOK'
      BY <1>6, <2>3 DEF TypeOK, SetStatusError, rowVars, inboxVars
    <2> QED
      BY <2>2, <2>4
  <1> QED
    BY <1>2, <1>4, <1>5, <1>6 DEF SetStatusStep

\* The end of a route: the reply, the silence, the lost reply.
LEMMA ReplyKeepsInv ==
    ASSUME Inv, NEW p \in Procs, ReplyStep(p) \/ PushFailed(p)
    PROVE  Inv'
  <1> USE DEF Inv
  <1>1. /\ proc[p] \in Goroutines /\ RecordOK(proc[p])
        /\ proc[p].pc = "reply" /\ Finished(p) /\ proc[p].d \in Delegations
    BY DEF TypeOK, Core, WriterOK, RecordOK, ReplyStep, PushFailed, StaySilent,
           pushDelegationResultToInbox
  <1>2. /\ proc' \in [Procs -> Goroutines]
        /\ \A q \in Procs : q # p => proc'[q] = proc[q]
        /\ proc'[p].pc \in {"idle", "proxy"}
        /\ proc'[p].pc = "proxy" => proc'[p].d = proc[p].d /\ proc'[p].auth = proc[p].auth
        /\ proc'[p].pc = "idle" => proc'[p].auth = "none"
    BY <1>1 DEF Finished, Idle, TypeOK, Goroutines
  <1>3. /\ UNCHANGED uncertain => RecordOK(proc[p])'
        /\ ~Owns(p)'
    BY <1>1, <1>2 DEF RecordOK, Owns
  <1>4. CASE StaySilent(p) \/ PushFailed(p)
    <2>1. UNCHANGED <<ledger, mine, blind, said, uncertain>>
      BY <1>4 DEF StaySilent, PushFailed, rowVars, inboxVars
    <2>2. Core'
      BY <1>2, <1>3, <2>1, InertStep
    <2>3. TypeOK'
      BY <1>1, <1>2, <1>4 DEF TypeOK, StaySilent, PushFailed, rowVars, inboxVars, envVars
    <2> QED
      BY <2>2, <2>3
  <1>5. CASE pushDelegationResultToInbox(p)
    <2>1. Owes(p) /\ UNCHANGED <<ledger, uncertain>> /\ proc[p].want \in DelegationTerminalStates
      BY <1>5 DEF pushDelegationResultToInbox, rowVars, Owes
    <2>2. TypeOK'
      BY <1>1, <1>2, <1>5, <2>1
         DEF TypeOK, pushDelegationResultToInbox, rowVars, envVars
    <2>3. WriterOK'
      BY <1>2, <1>3, <2>1 DEF Core, WriterOK, RecordOK
    <2>4. \A q \in Procs : Owns(q)' => q # p /\ Owns(q) /\ proc'[q] = proc[q]
      BY <1>2, <1>3 DEF Owns
    <2>5. CASE proc[p].auth = "Mine"
      <3>1. Owns(p)
        BY <1>1, <2>1, <2>5 DEF Owns
      <3>2. ledger[proc[p].d] = proc[p].want /\ mine[proc[p].d] = 0
        BY <3>1 DEF Core, LicenceIsExclusive
      <3>3. /\ mine' = [mine EXCEPT ![proc[p].d] = mine[proc[p].d] + 1]
            /\ said' = [said EXCEPT ![proc[p].d] = proc[p].want]
            /\ UNCHANGED blind
        BY <1>5, <2>5 DEF pushDelegationResultToInbox
      <3>4. \A q \in Procs : Owns(q)' => proc[q].d # proc[p].d
        BY <2>4, <3>1 DEF Core, LicenceIsExclusive
      <3>5. LicenceIsExclusive'
        BY <2>1, <2>4, <3>3, <3>4 DEF Core, LicenceIsExclusive, TypeOK
      <3>6. ReplyTellsTheLedger' /\ RepliesOK'
        BY <1>1, <2>1, <3>2, <3>3 DEF Core, ReplyTellsTheLedger, RepliesOK, TypeOK
      <3> QED
        BY <2>2, <2>3, <3>5, <3>6 DEF Core
    <2>6. CASE proc[p].auth # "Mine"
      <3>1. proc[p].auth = "Unarbitrated" /\ proc[p].d \in uncertain
        BY <1>1, <2>1, <2>6 DEF Owes, mayReply, RecordOK
      <3>2. blind' = [blind EXCEPT ![proc[p].d] = blind[proc[p].d] + 1] /\ UNCHANGED <<mine, said>>
        BY <1>5, <2>6 DEF pushDelegationResultToInbox
      <3>3. LicenceIsExclusive'
        BY <2>1, <2>4, <3>2 DEF Core, LicenceIsExclusive
      <3>4. ReplyTellsTheLedger' /\ RepliesOK'
        BY <2>1, <3>1, <3>2 DEF Core, ReplyTellsTheLedger, RepliesOK, TypeOK
      <3> QED
        BY <2>2, <2>3, <3>3, <3>4 DEF Core
    <2> QED
      BY <2>5, <2>6
  <1> QED
    BY <1>4, <1>5 DEF ReplyStep

\* An idle goroutine owns nothing.
LEMMA FreshIdle == Idle \in Goroutines /\ RecordOK(Idle) /\ Idle.pc = "idle"
  BY DEF Idle, Goroutines, RecordOK

\* A goroutine that starts its SetStatus calls owns nothing yet.
LEMMA FreshRunning ==
    ASSUME NEW d \in Delegations, NEW want \in DelegationAllStates,
           NEW route \in {"delegate", "record", "report", "drain", "sweep"},
           NEW calls \in Nat \ {0}, NEW keep \in Nat
    PROVE  LET r == Running(route, d, want, calls, keep)
           IN  r \in Goroutines /\ RecordOK(r) /\ r.pc = "select" /\ r.auth = "none"
  BY DEF Running, Goroutines, RecordOK

\* The goroutine p is given a record that starts a call or is idle, or only
\* moves between the executor's own stations.
LEMMA FreshStep ==
    ASSUME Inv, NEW p \in Procs, NEW r \in Goroutines, proc' = [proc EXCEPT ![p] = r],
           RecordOK(r), r.pc # "update", r.pc \in {"select", "reply"} => r.auth # "Mine",
           UNCHANGED <<mine, blind, said, uncertain>>,
           \A d \in Delegations : \/ ledger'[d] = ledger[d]
                                  \/ ledger[d] = "none" /\ ledger'[d] = "queued"
    PROVE  Core' /\ proc' \in [Procs -> Goroutines]
  <1>1. /\ proc' \in [Procs -> Goroutines] /\ proc'[p] = r
        /\ \A q \in Procs : q # p => proc'[q] = proc[q]
    BY DEF Inv, TypeOK
  <1>2. RecordOK(proc[p])' /\ ~Owns(p)'
    BY <1>1 DEF RecordOK, Owns
  <1> QED
    BY <1>1, <1>2, InertStep DEF Inv

\* The routes start their calls without touching a terminal row or a licence.
LEMMA RouteKeepsInv ==
    ASSUME Inv, NEW w \in Writers, NEW d \in Delegations, RouteStep(w, d)
    PROVE  Inv'
  <1> USE DEF Inv
  <1>0. w \in Procs
    BY DEF Procs
  <1>a. ASSUME NEW lost \in BOOLEAN, Insert(d, lost)
        PROVE  /\ ledger' \in [Delegations -> DelegationAllStates \cup {"none"}]
               /\ \A e \in Delegations : \/ ledger'[e] = ledger[e]
                                         \/ ledger[e] = "none" /\ ledger'[e] = "queued"
    BY <1>a DEF Insert, TypeOK, DelegationAllStates, DelegationInFlightStates
  <1>d. /\ DelegationTerminalStates \subseteq DelegationAllStates
        /\ "dispatched" \in DelegationAllStates
    BY DEF DelegationTerminalStates, DelegationAllStates, DelegationInFlightStates
  <1>1. ASSUME NEW lost \in BOOLEAN, NEW granted \in BOOLEAN, Delegate(w, d, lost, granted)
        PROVE  Inv'
    <2> DEFINE r == IF granted THEN Running("delegate", d, "dispatched", 1, 0) ELSE Idle
    <2>1. /\ r \in Goroutines /\ RecordOK(r) /\ r.pc # "update"
          /\ r.pc \in {"select", "reply"} => r.auth # "Mine"
      BY <1>d, FreshRunning, FreshIdle
    <2>2. proc' = [proc EXCEPT ![w] = r] /\ Insert(d, lost)
          /\ UNCHANGED <<mine, blind, said, uncertain>>
      BY <1>1 DEF Delegate, inboxVars
    <2> HIDE DEF r
    <2>3. Core' /\ proc' \in [Procs -> Goroutines]
      BY <1>0, <1>a, <2>1, <2>2, FreshStep
    <2>4. TypeOK'
      BY <1>1, <1>a, <2>2, <2>3 DEF TypeOK, Delegate, inboxVars
    <2> QED
      BY <2>3, <2>4
  <1>2. CASE Record(w, d)
    <2> DEFINE r == Running("record", d, "dispatched", 1, 0)
    <2>1. r \in Goroutines /\ RecordOK(r) /\ r.pc = "select" /\ r.auth = "none"
      BY <1>d, FreshRunning
    <2>2. proc' = [proc EXCEPT ![w] = r] /\ Insert(d, FALSE)
          /\ UNCHANGED <<mine, blind, said, uncertain>>
      BY <1>2 DEF Record, inboxVars
    <2> HIDE DEF r
    <2>3. Core' /\ proc' \in [Procs -> Goroutines]
      BY <1>0, <1>a, <2>1, <2>2, FreshStep
    <2>4. TypeOK'
      BY <1>2, <1>a, <2>2, <2>3 DEF TypeOK, Record, inboxVars, envVars
    <2> QED
      BY <2>3, <2>4
  <1>3. ASSUME NEW st \in DelegationTerminalStates, UpdateStatus(w, d, st)
        PROVE  Inv'
    <2> DEFINE r == IF st = "completed" THEN Running("report", d, st, 2, 2)
                                        ELSE Running("report", d, st, 1, 1)
    <2>1. r \in Goroutines /\ RecordOK(r) /\ r.pc = "select" /\ r.auth = "none"
      BY <1>d, FreshRunning
    <2>2. proc' = [proc EXCEPT ![w] = r] /\ UNCHANGED <<ledger, mine, blind, said, uncertain>>
      BY <1>3 DEF UpdateStatus, inboxVars
    <2> HIDE DEF r
    <2>3. Core' /\ proc' \in [Procs -> Goroutines]
      BY <1>0, <2>1, <2>2, FreshStep
    <2>4. TypeOK'
      BY <1>3, <2>2, <2>3 DEF TypeOK, UpdateStatus, inboxVars, envVars
    <2> QED
      BY <2>3, <2>4
  <1>4. ASSUME NEW st \in DelegationTerminalStates, stitch(w, d, st)
        PROVE  Inv'
    <2>1. proc' = [proc EXCEPT ![w] = proc[w]] \/ proc' = [proc EXCEPT ![w] = Running("drain", d, st, 1, 1)]
      BY <1>0, <1>4 DEF stitch, TypeOK
    <2>2. PICK r \in Goroutines : /\ proc' = [proc EXCEPT ![w] = r] /\ RecordOK(r)
                                  /\ r.pc # "update"
                                  /\ r.pc \in {"select", "reply"} => r.auth # "Mine"
      <3> DEFINE r == Running("drain", d, st, 1, 1)
      <3>1. r \in Goroutines /\ RecordOK(r) /\ r.pc = "select" /\ r.auth = "none"
        BY <1>d, FreshRunning
      <3> HIDE DEF r
      <3>2. proc[w] = Idle
        BY <1>4 DEF stitch
      <3> QED
        BY <2>1, <3>1, <3>2, FreshIdle DEF r
    <2>a. UNCHANGED <<ledger, mine, blind, said, uncertain>>
      BY <1>4 DEF stitch, inboxVars
    <2>3. Core' /\ proc' \in [Procs -> Goroutines]
      BY <1>0, <2>2, <2>a, FreshStep
    <2>4. TypeOK'
      BY <1>4, <2>a, <2>3 DEF TypeOK, stitch, inboxVars, envVars
    <2> QED
      BY <2>3, <2>4
  <1> QED
    BY <1>1, <1>2, <1>3, <1>4 DEF RouteStep

\* The executor between the proxy's answer and its next call.
LEMMA ExecutorKeepsInv ==
    ASSUME Inv, NEW w \in Writers, ExecutorStep(w)
    PROVE  Inv'
  <1> USE DEF Inv
  <1>1. w \in Procs /\ proc[w] \in Goroutines /\ RecordOK(proc[w]) /\ proc[w].d \in Delegations
    BY DEF Procs, TypeOK, Core, WriterOK, RecordOK, ExecutorStep, executeSuccess,
           finalizeNonDispatchedDelegation, proxyQueued, insertPlaceholder
  <1>2. UNCHANGED <<ledger, mine, blind, said, uncertain>>
    BY DEF ExecutorStep, executeSuccess, finalizeNonDispatchedDelegation, proxyQueued,
           insertPlaceholder, rowVars, inboxVars
  <1> PICK d \in Delegations : d = proc[w].d
    BY <1>1
  <1>d. "completed" \in DelegationAllStates /\ "failed" \in DelegationAllStates
    BY DEF DelegationAllStates, DelegationTerminalStates
  <1>3. PICK r \in Goroutines : /\ proc' = [proc EXCEPT ![w] = r] /\ RecordOK(r)
                                /\ r.pc # "update" /\ (r.pc \in {"select", "reply"} => r.auth # "Mine")
    <2>1. CASE executeSuccess(w)
      <3> DEFINE r == Running("delegate", d, "completed", 2, 1)
      <3>1. r \in Goroutines /\ RecordOK(r) /\ r.pc = "select" /\ r.auth = "none"
        BY <1>d, FreshRunning
      <3> QED
        BY <2>1, <3>1 DEF executeSuccess
    <2>2. CASE finalizeNonDispatchedDelegation(w)
      <3> DEFINE r == Running("delegate", d, "failed", 1, 1)
      <3>1. r \in Goroutines /\ RecordOK(r) /\ r.pc = "select" /\ r.auth = "none"
        BY <1>d, FreshRunning
      <3> QED
        BY <2>2, <3>1 DEF finalizeNonDispatchedDelegation
    <2>3. CASE proxyQueued(w)
      <3> DEFINE r == [proc[w] EXCEPT !.pc = "placeholder"]
      <3>1. r \in Goroutines /\ RecordOK(r) /\ r.pc = "placeholder"
        BY <1>1 DEF Goroutines, RecordOK
      <3>2. proc' = [proc EXCEPT ![w] = r]
        BY <1>1, <2>3 DEF proxyQueued, TypeOK
      <3> QED
        BY <3>1, <3>2
    <2>4. CASE insertPlaceholder(w)
      BY <2>4, FreshIdle DEF insertPlaceholder
    <2> QED
      BY <2>1, <2>2, <2>3, <2>4 DEF ExecutorStep
  <1>4. Core' /\ proc' \in [Procs -> Goroutines]
    BY <1>1, <1>2, <1>3, FreshStep
  <1>5. TypeOK'
    BY <1>1, <1>2, <1>4 DEF TypeOK, ExecutorStep, executeSuccess, finalizeNonDispatchedDelegation,
       proxyQueued, insertPlaceholder, rowVars, inboxVars, envVars
  <1> QED
    BY <1>4, <1>5

\* The sweeper picking a candidate, and everything that writes no row.
LEMMA SweeperKeepsInv ==
    ASSUME Inv, NEW c \in todo, SweepRow(c)
    PROVE  Inv'
  <1> USE DEF Inv
  <1>1. /\ Sweeper \in Procs /\ UNCHANGED <<ledger, mine, blind, said, uncertain>>
    BY DEF SweepRow, rowVars, inboxVars, Procs
  <1>2. PICK d \in Delegations : d = c.d
    BY DEF TypeOK, Candidates
  <1>3. "failed" \in DelegationAllStates /\ "stuck" \in DelegationAllStates
    BY DEF DelegationAllStates, DelegationTerminalStates, DelegationInFlightStates
  <1>4. ASSUME NEW r \in Goroutines, RecordOK(r), r.pc \in {"idle", "select"}, r.auth = "none",
               proc' = [proc EXCEPT ![Sweeper] = r]
        PROVE  Inv'
    <2>1. Core' /\ proc' \in [Procs -> Goroutines]
      BY <1>1, <1>4, FreshStep
    <2>2. TypeOK'
      BY <2>1 DEF TypeOK, SweepRow, rowVars, inboxVars, envVars
    <2> QED
      BY <2>1, <2>2
  <1>5. CASE proc' = [proc EXCEPT ![Sweeper] = Running("sweep", d, "failed", 1, 1)]
    <2> DEFINE r == Running("sweep", d, "failed", 1, 1)
    <2>1. r \in Goroutines /\ RecordOK(r) /\ r.pc = "select" /\ r.auth = "none"
      BY <1>3, FreshRunning
    <2>2. proc' = [proc EXCEPT ![Sweeper] = r]
      BY <1>5
    <2> HIDE DEF r
    <2> QED
      BY <1>4, <2>1, <2>2
  <1>6. CASE proc' = [proc EXCEPT ![Sweeper] = Running("sweep", d, "stuck", 1, 0)]
    <2> DEFINE r == Running("sweep", d, "stuck", 1, 0)
    <2>1. r \in Goroutines /\ RecordOK(r) /\ r.pc = "select" /\ r.auth = "none"
      BY <1>3, FreshRunning
    <2>2. proc' = [proc EXCEPT ![Sweeper] = r]
      BY <1>6
    <2> HIDE DEF r
    <2> QED
      BY <1>4, <2>1, <2>2
  <1>7. CASE proc' = [proc EXCEPT ![Sweeper] = Idle]
    <2>1. Idle.auth = "none"
      BY DEF Idle
    <2> QED
      BY <1>4, <1>7, <2>1, FreshIdle
  <1> QED
    BY <1>2, <1>5, <1>6, <1>7 DEF SweepRow

\* The clock, the callees' heartbeats, the sweeper's snapshot and a restart.
LEMMA EnvironmentKeepsInv ==
    ASSUME Inv,
           \/ Sweep \/ GraceEnds
           \/ \E d \in Delegations : DeadlinePasses(d) \/ CalleeHeartbeat(d)
           \/ \E flag, push \in BOOLEAN : Restart(flag, push)
    PROVE  Inv'
  <1> USE DEF Inv
  <1>1. UNCHANGED <<ledger, mine, blind, said, uncertain>>
    BY DEF Sweep, GraceEnds, DeadlinePasses, CalleeHeartbeat, Restart, rowVars, inboxVars
  <1>2. proc' = proc \/ proc' = [p \in Procs |-> Idle]
    BY DEF Sweep, GraceEnds, DeadlinePasses, CalleeHeartbeat, Restart
  <1>3. \A q \in Procs : proc'[q] = proc[q] \/ (RecordOK(proc[q])' /\ ~Owns(q)')
    BY <1>1, <1>2 DEF Idle, RecordOK, Owns
  <1>4. Core'
    BY <1>1, <1>3, InertStep
  <1>5. proc' \in [Procs -> Goroutines]
    BY <1>2, FreshIdle DEF TypeOK
  <1>6. TypeOK'
    <2>1. CASE Sweep
      BY <2>1, <1>5 DEF TypeOK, Sweep, rowVars, inboxVars, envVars
    <2>2. CASE GraceEnds
      BY <2>2, <1>5 DEF TypeOK, GraceEnds, rowVars, inboxVars, envVars
    <2>3. ASSUME NEW d \in Delegations, DeadlinePasses(d) \/ CalleeHeartbeat(d)
          PROVE  TypeOK'
      BY <2>3, <1>5 DEF TypeOK, DeadlinePasses, CalleeHeartbeat, rowVars, inboxVars, envVars
    <2>4. ASSUME NEW flag \in BOOLEAN, NEW push \in BOOLEAN, Restart(flag, push)
          PROVE  TypeOK'
      BY <2>4, <1>5 DEF TypeOK, Restart, rowVars, inboxVars, envVars
    <2> QED
      BY <2>1, <2>2, <2>3, <2>4
  <1> QED
    BY <1>4, <1>6

\* Every step keeps the inductive invariant.
LEMMA NextInv == Inv /\ [Next]_vars => Inv'
  <1> SUFFICES ASSUME Inv, [Next]_vars PROVE Inv'
    OBVIOUS
  <1>1. CASE UNCHANGED vars
    BY <1>1 DEF vars, Inv, TypeOK, Core, WriterOK, RecordOK, LicenceIsExclusive, Owns,
                ReplyTellsTheLedger, RepliesOK
  <1>2. CASE \E p \in Procs : SetStatusStep(p) \/ ReplyStep(p) \/ FaultStep(p)
    BY <1>2, SetStatusKeepsInv, ReplyKeepsInv DEF FaultStep
  <1>3. CASE \E w \in Writers : ExecutorStep(w)
    BY <1>3, ExecutorKeepsInv
  <1>4. CASE \E w \in Writers, d \in Delegations : RouteStep(w, d)
    BY <1>4, RouteKeepsInv
  <1>5. CASE \E c \in todo : SweepRow(c)
    BY <1>5, SweeperKeepsInv
  <1>6. CASE \/ Sweep \/ GraceEnds
             \/ \E d \in Delegations : DeadlinePasses(d) \/ CalleeHeartbeat(d)
             \/ \E flag, push \in BOOLEAN : Restart(flag, push)
    BY <1>6, EnvironmentKeepsInv
  <1> QED
    BY <1>1, <1>2, <1>3, <1>4, <1>5, <1>6 DEF Next

\* The inductive invariant holds in every reachable state.
LEMMA Invariance == Spec => []Inv
  BY InitInv, NextInv, PTL DEF Spec

-----------------------------------------------------------------------------
\* The state of the ledger, of its writers and of the callers' inboxes keeps
\* its types, for any number of delegations and writers.
THEOREM TypeCorrect == Spec => []TypeOK
  BY Invariance, PTL DEF Inv

\* ReplyMine is a licence held by one goroutine at a time, for the row as it
\* stands (delegation_ledger.go, SetStatus's compare-and-swap).
THEOREM ReplyMineIsExclusive == Spec => []LicenceIsExclusive
  BY Invariance, PTL DEF Inv, Core

\* The reply sent on ReplyMine is the only one and agrees with the ledger for
\* good (delegation_ledger.go, SetStatus; pushDelegationResultToInbox).
THEOREM ReplyIsTrue == Spec => []ReplyTellsTheLedger
  BY Invariance, PTL DEF Inv, Core

\* One answerer for a terminal row, and one answer that agrees with it.
THEOREM RepliesHold == Spec => []RepliesAreLicensed
  BY TypeCorrect, ReplyMineIsExclusive, ReplyIsTrue, PTL DEF RepliesAreLicensed

\* A second reply needs an unarbitrated call; database errors and restarts
\* never produce one (mayReply).
THEOREM DoubleReplyNeedsUnarbitrated == Spec => []NoDoubleReply
  <1>1. Inv => NoDoubleReply
    BY DEF Inv, Core, TypeOK, ReplyTellsTheLedger, RepliesOK, NoDoubleReply
  <1> QED
    BY <1>1, Invariance, PTL

-----------------------------------------------------------------------------
\* A step of the model changes no row, inserts one, or is a compare-and-swap
\* that moves the row the goroutine compared (the only writers of the table).
LEMMA LedgerSteps ==
    ASSUME Inv, [Next]_vars, ledger' # ledger
    PROVE  /\ UNCHANGED <<mine, said>>
           /\ \/ \E d \in Delegations : /\ ledger[d] = "none"
                                         /\ ledger' = [ledger EXCEPT ![d] = "queued"]
              \/ \E d \in Delegations, s \in DelegationAllStates :
                     /\ ledger[d] \in DelegationInFlightStates
                     /\ s \in allowedTransitions[ledger[d]]
                     /\ ledger' = [ledger EXCEPT ![d] = s]
  <1>1. CASE \E p \in Procs : SetStatusUpdate(p) \/ SetStatusRowsUnknown(p)
    <2>1. PICK p \in Procs : SetStatusUpdate(p) \/ SetStatusRowsUnknown(p)
      BY <1>1
    <2>2. /\ proc[p].pc = "update" /\ UNCHANGED <<mine, said>>
          /\ ledger[proc[p].d] = proc[p].seen
          /\ ledger' = [ledger EXCEPT ![proc[p].d] = proc[p].want]
      BY <2>1 DEF SetStatusUpdate, SetStatusRowsUnknown, inboxVars
    <2>3. /\ proc[p].d \in Delegations /\ proc[p].want \in DelegationAllStates
          /\ proc[p].seen \in DelegationInFlightStates
          /\ proc[p].want \in allowedTransitions[proc[p].seen]
      BY <2>2, MatrixFacts DEF Inv, Core, WriterOK, RecordOK
    <2> QED
      BY <2>2, <2>3
  <1>2. CASE \E w \in Writers, d \in Delegations : RouteStep(w, d)
    <2>1. PICK w \in Writers, d \in Delegations : RouteStep(w, d)
      BY <1>2
    <2>2. UNCHANGED <<mine, said>> /\ \E lost \in BOOLEAN : Insert(d, lost)
      BY <2>1 DEF RouteStep, Delegate, Record, UpdateStatus, stitch, inboxVars
    <2> QED
      BY <2>2 DEF Insert
  <1>3. CASE ~ (\E p \in Procs : SetStatusUpdate(p) \/ SetStatusRowsUnknown(p))
             /\ ~ (\E w \in Writers, d \in Delegations : RouteStep(w, d))
    BY <1>3 DEF Next, vars, rowVars, SetStatusStep, SetStatusSelect, ReplyStep, FaultStep,
       SetStatusError, PushFailed, pushDelegationResultToInbox, StaySilent, ExecutorStep,
       executeSuccess, finalizeNonDispatchedDelegation, proxyQueued, insertPlaceholder,
       Sweep, SweepRow, DeadlinePasses, CalleeHeartbeat, GraceEnds, Restart
  <1> QED
    BY <1>1, <1>2, <1>3

\* Rows only move along the transition matrix, however many writers race.
THEOREM StatusMovesForward == Spec => ForwardOnly
  <1> DEFINE A == \A d \in Delegations :
          \/ ledger'[d] = ledger[d]
          \/ ledger[d] = "none" /\ ledger'[d] = "queued"
          \/ /\ ledger[d] \in DelegationInFlightStates
             /\ ledger'[d] \in allowedTransitions[ledger[d]]
  <1>1. ASSUME Inv, [Next]_vars PROVE A
    BY <1>1, LedgerSteps DEF Inv, TypeOK
  <1>2. Inv /\ [Next]_vars => [A]_vars
    BY <1>1
  <1> QED
    BY <1>2, Invariance, PTL DEF Spec, ForwardOnly

\* The callers' inboxes change only by a reply of a licence holder.
LEMMA NoticeSteps ==
    ASSUME Inv, [Next]_vars, mine' # mine \/ said' # said
    PROVE  /\ ledger' = ledger
           /\ \E d \in Delegations :
                  /\ ledger[d] \in DelegationTerminalStates /\ mine[d] = 0
                  /\ mine' = [mine EXCEPT ![d] = 1] /\ said' = [said EXCEPT ![d] = ledger[d]]
  <1>1. CASE \E p \in Procs : pushDelegationResultToInbox(p)
    <2>1. PICK p \in Procs : pushDelegationResultToInbox(p)
      BY <1>1
    <2>2. /\ proc[p].pc = "reply" /\ Owes(p) /\ proc[p].auth = "Mine" /\ ledger' = ledger
          /\ mine' = [mine EXCEPT ![proc[p].d] = mine[proc[p].d] + 1]
          /\ said' = [said EXCEPT ![proc[p].d] = proc[p].want]
      BY <2>1 DEF pushDelegationResultToInbox, rowVars
    <2>3. Owns(p) /\ proc[p].want \in DelegationTerminalStates
      BY <2>2 DEF Owns, Owes
    <2>4. ledger[proc[p].d] = proc[p].want /\ mine[proc[p].d] = 0 /\ proc[p].d \in Delegations
      BY <2>2, <2>3 DEF Inv, Core, LicenceIsExclusive, WriterOK, RecordOK
    <2>5. mine' = [mine EXCEPT ![proc[p].d] = 1]
      BY <2>2, <2>4
    <2>6. /\ said' = [said EXCEPT ![proc[p].d] = ledger[proc[p].d]]
          /\ ledger[proc[p].d] \in DelegationTerminalStates
      BY <2>2, <2>3, <2>4
    <2> QED
      BY <2>2, <2>4, <2>5, <2>6
  <1>2. CASE ~ \E p \in Procs : pushDelegationResultToInbox(p)
    BY ZenonT(60), <1>2 DEF Next, vars, inboxVars, SetStatusStep, SetStatusSelect, SetStatusUpdate,
       ReplyStep, FaultStep, SetStatusError, SetStatusRowsUnknown, PushFailed, StaySilent,
       ExecutorStep, executeSuccess, finalizeNonDispatchedDelegation, proxyQueued,
       insertPlaceholder, RouteStep, Delegate, Record, UpdateStatus, stitch,
       Sweep, SweepRow, DeadlinePasses, CalleeHeartbeat, GraceEnds, Restart
  <1> QED
    BY <1>1, <1>2

\* The ledger, its writers and the sweeper implement the single-reply
\* specification: opened once, closed once, at most one notice, sent after the
\* close and true to it.
THEOREM ImplementsSingleReply == Spec => SingleReply
  <1> DEFINE P(s) == IF s = "none" THEN "absent"
                     ELSE IF s \in DelegationInFlightStates THEN "open" ELSE s
             phase == [d \in Delegations |-> P(ledger[d])]
  <1>1. Init => Reply!RInit
    BY DEF Init, Reply!RInit
  <1>2. ASSUME Inv, [Next]_vars
        PROVE  [Reply!RNext]_(Reply!rvars)
    <2>1. CASE ledger' = ledger /\ mine' = mine /\ said' = said
      BY <2>1 DEF Reply!rvars
    <2>2. CASE ledger' # ledger
      <3>1. UNCHANGED <<mine, said>>
        BY <1>2, <2>2, LedgerSteps
      <3>2. CASE \E d \in Delegations : /\ ledger[d] = "none"
                                        /\ ledger' = [ledger EXCEPT ![d] = "queued"]
        <4>1. PICK d \in Delegations : /\ ledger[d] = "none"
                                       /\ ledger' = [ledger EXCEPT ![d] = "queued"]
          BY <3>2
        <4>2. phase' = [phase EXCEPT ![d] = "open"] /\ phase[d] = "absent"
          BY <1>2, <4>1 DEF Inv, TypeOK, DelegationInFlightStates
        <4>3. Reply!Open(d)
          BY <3>1, <4>2 DEF Reply!Open
        <4> QED
          BY <4>3 DEF Reply!RNext
      <3>3. CASE \E d \in Delegations, s \in DelegationAllStates :
                     /\ ledger[d] \in DelegationInFlightStates
                     /\ s \in allowedTransitions[ledger[d]]
                     /\ ledger' = [ledger EXCEPT ![d] = s]
        <4>1. PICK d \in Delegations, s \in DelegationAllStates :
                     /\ ledger[d] \in DelegationInFlightStates
                     /\ s \in allowedTransitions[ledger[d]]
                     /\ ledger' = [ledger EXCEPT ![d] = s]
          BY <3>3
        <4>2. phase[d] = "open" /\ phase' = [phase EXCEPT ![d] = P(s)]
          BY <1>2, <4>1 DEF Inv, TypeOK, DelegationInFlightStates
        <4>3. CASE s \in DelegationInFlightStates
          <5>1. phase' = phase
            BY <4>2, <4>3 DEF DelegationInFlightStates
          <5> QED
            BY <3>1, <5>1 DEF Reply!rvars
        <4>4. CASE s \in DelegationTerminalStates
          <5>1. P(s) = s /\ s \in Reply!Outcomes
            BY <4>4 DEF DelegationTerminalStates, DelegationInFlightStates, Reply!Outcomes
          <5>2. Reply!Close(d, s)
            BY <3>1, <4>2, <5>1 DEF Reply!Close
          <5> QED
            BY <5>1, <5>2 DEF Reply!RNext
        <4> QED
          BY <4>3, <4>4 DEF DelegationAllStates
      <3> QED
        BY <1>2, <2>2, <3>2, <3>3, LedgerSteps
    <2>3. CASE mine' # mine \/ said' # said
      <3>1. PICK d \in Delegations :
                  /\ ledger[d] \in DelegationTerminalStates /\ mine[d] = 0
                  /\ mine' = [mine EXCEPT ![d] = 1] /\ said' = [said EXCEPT ![d] = ledger[d]]
                  /\ ledger' = ledger
        BY <1>2, <2>3, NoticeSteps
      <3>2. phase[d] = ledger[d] /\ phase' = phase /\ phase[d] \in Reply!Outcomes
        BY <3>1 DEF DelegationTerminalStates, DelegationInFlightStates, Reply!Outcomes
      <3>3. Reply!Notify(d)
        BY <3>1, <3>2 DEF Reply!Notify
      <3> QED
        BY <3>3 DEF Reply!RNext
    <2> QED
      BY <2>1, <2>2, <2>3
  <1> QED
    BY <1>1, <1>2, Invariance, PTL DEF Spec, SingleReply, Reply!RSpec
=============================================================================
