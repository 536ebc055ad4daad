-------------------------- MODULE DelegationLedger --------------------------
(***************************************************************************)
(* The delegation ledger of workspace-server: the `delegations` table, the *)
(* two-statement SetStatus that every writer goes through, the routes that *)
(* terminalize a delegation (the executor goroutine, the agent's own       *)
(* status POST, the a2a_queue drain) and the deadline sweeper.             *)
(*                                                                         *)
(* SetStatus reads a row with one statement and writes it with another, so *)
(* the steps of any two writers interleave.  What the table arbitrates is  *)
(* who tells the caller that the delegation ended: ReplyAuthority.         *)
(*                                                                         *)
(* Texts (task, result preview, error detail) are left out; a delegation   *)
(* is its ledger status, the replies its caller received and the state of  *)
(* the activity_logs placeholder that a queued dispatch leaves behind.     *)
(***************************************************************************)
EXTENDS Naturals

CONSTANTS
    Delegations,    \* delegation ids
    Writers,        \* goroutines that run a route (HTTP handlers, executors, drains)
    Sweeper,        \* the one DelegationSweeper goroutine
    NoDelegation,   \* what an idle goroutine works on
    Routes,         \* the routes this instance exercises
    MaxReports,     \* bound: status POSTs per delegation
    MaxFaults,      \* bound: failed database statements
    MaxRestarts     \* bound: restarts of the server process

Procs == Writers \cup {Sweeper}

AllRoutes == {"delegate", "record", "report", "sweep", "restart", "dark", "quiet"}

ASSUME ProcsAssumption == Sweeper \notin Writers /\ NoDelegation \notin Delegations
ASSUME RoutesAssumption == Routes \subseteq AllRoutes
ASSUME BoundsAssumption == MaxReports \in Nat /\ MaxFaults \in Nat /\ MaxRestarts \in Nat

VARIABLES
    ledger,       \* delegations.status per delegation, "none" when there is no row
    overdue,      \* delegations whose deadline has passed
    silent,       \* delegations whose callee has not heartbeat for a threshold
    held,         \* delegations whose message a2a_queue holds for a later drain
    placeholder,  \* activity_logs delegate_result row: "none", "queued" or "final"
    used,         \* delegation ids already taken by Delegate or Record
    reports,      \* status POSTs made per delegation
    proc,         \* what each goroutine is doing
    todo,         \* the sweeper's remaining candidates of the current pass
    enabled,      \* DELEGATION_LEDGER_WRITE of the running process
    pushing,      \* DELEGATION_RESULT_INBOX_PUSH of the running process
    grace,        \* the sweeper is within one threshold of its start
    mine,         \* replies sent on ReplyMine, per delegation
    blind,        \* replies sent on ReplyUnarbitrated, per delegation
    said,         \* what the ReplyMine reply said, per delegation
    unsent,       \* delegations for which an inbox INSERT failed
    uncertain,    \* delegations for which some call returned ReplyUnarbitrated
    faults,       \* failed statements so far
    restarts      \* process restarts so far

rowVars   == <<ledger, overdue, silent, held, placeholder, used, reports>>
inboxVars == <<mine, blind, said, unsent>>
envVars   == <<enabled, pushing, grace, faults, restarts>>
vars == <<ledger, overdue, silent, held, placeholder, used, reports,
          proc, todo, enabled, pushing, grace, mine, blind, said, unsent, uncertain,
          faults, restarts>>

-----------------------------------------------------------------------------
DelegationTerminalStates == {"completed", "failed"}
DelegationInFlightStates == {"queued", "dispatched", "in_progress", "stuck"}
DelegationAllStates == DelegationInFlightStates \cup DelegationTerminalStates

allowedTransitions ==
    [queued      |-> {"dispatched", "in_progress", "completed", "failed", "stuck"},
     dispatched  |-> {"in_progress", "completed", "failed", "stuck"},
     in_progress |-> {"completed", "failed", "stuck"},
     stuck       |-> {"completed", "failed"}]

ReplyAuthority == {"NotMine", "Mine", "Unarbitrated", "Deferred"}

\* Mutants: the negative form of the gate; the gate of the first cut.
mayReplyUnlessNotMine(a) == a # "NotMine"

mayReply(a) == a \in {"Mine", "Unarbitrated"}

(***************************************************************************)
(* A goroutine runs `calls` SetStatus calls with the same target status    *)
(* and keeps the authority of the call made when `keep` calls are left     *)
(* (0: the route discards every authority).                                *)
(***************************************************************************)
Goroutines ==
    [pc : {"idle", "select", "update", "reply", "proxy", "placeholder"},
     route : {"none", "delegate", "record", "report", "drain", "sweep"},
     d : Delegations \cup {NoDelegation},
     want : DelegationAllStates \cup {"none"},
     calls : Nat, keep : Nat,
     seen : DelegationAllStates \cup {"none"},
     auth : ReplyAuthority \cup {"none"}]

Idle == [pc |-> "idle", route |-> "none", d |-> NoDelegation, want |-> "none",
         calls |-> 0, keep |-> 0, seen |-> "none", auth |-> "none"]

Running(route, d, want, calls, keep) ==
    [pc |-> "select", route |-> route, d |-> d, want |-> want,
     calls |-> calls, keep |-> keep, seen |-> "none", auth |-> "none"]

Candidates == [d : Delegations, status : DelegationInFlightStates,
               due : BOOLEAN, stale : BOOLEAN]

TypeOK ==
    /\ ledger \in [Delegations -> DelegationAllStates \cup {"none"}]
    /\ overdue \subseteq Delegations
    /\ silent \subseteq Delegations
    /\ held \subseteq Delegations
    /\ placeholder \in [Delegations -> {"none", "queued", "final"}]
    /\ used \subseteq Delegations
    /\ reports \in [Delegations -> Nat]
    /\ proc \in [Procs -> Goroutines]
    /\ todo \subseteq Candidates
    /\ enabled \in BOOLEAN
    /\ pushing \in BOOLEAN
    /\ grace \in BOOLEAN
    /\ mine \in [Delegations -> Nat]
    /\ blind \in [Delegations -> Nat]
    /\ said \in [Delegations -> DelegationTerminalStates \cup {"none"}]
    /\ unsent \subseteq Delegations
    /\ uncertain \subseteq Delegations
    /\ faults \in Nat
    /\ restarts \in Nat

Init ==
    /\ ledger = [d \in Delegations |-> "none"]
    /\ overdue = {} /\ silent = {} /\ held = {}
    /\ placeholder = [d \in Delegations |-> "none"]
    /\ used = {}
    /\ reports = [d \in Delegations |-> 0]
    /\ proc = [p \in Procs |-> Idle]
    /\ todo = {}
    /\ enabled \in (IF "dark" \in Routes THEN BOOLEAN ELSE {TRUE})
    /\ pushing \in (IF "quiet" \in Routes THEN BOOLEAN ELSE {TRUE})
    /\ grace = TRUE
    /\ mine = [d \in Delegations |-> 0]
    /\ blind = [d \in Delegations |-> 0]
    /\ said = [d \in Delegations |-> "none"]
    /\ unsent = {} /\ uncertain = {}
    /\ faults = 0
    /\ restarts = 0

-----------------------------------------------------------------------------
(***************************************************************************)
(* SetStatus, one action per statement.                                    *)
(***************************************************************************)
\* A call returned authority a: keep it or not, then the next call or the reply.
Returned(r, a) ==
    [r EXCEPT !.pc = IF r.calls > 1 THEN "select" ELSE "reply",
              !.calls = r.calls - 1,
              !.auth = IF r.calls = r.keep THEN a ELSE r.auth]

Return(p, a) ==
    /\ proc' = [proc EXCEPT ![p] = Returned(proc[p], a)]
    /\ uncertain' = IF a = "Unarbitrated" THEN uncertain \cup {proc[p].d} ELSE uncertain

\* What the first SELECT decides on its own; "cas" when the UPDATE has to run.
\* The sweeper calls the ledger directly, so the dark flag does not gate it.
SelectVerdict(p, current) ==
    IF current = "none" \/ (p # Sweeper /\ ~enabled) THEN "Unarbitrated"
    ELSE IF /\ current \in DelegationInFlightStates
            /\ proc[p].want # current
            /\ proc[p].want \in allowedTransitions[current]
         THEN "cas"
         ELSE "NotMine"

SetStatusSelect(p) ==
    LET current == ledger[proc[p].d]
        verdict == SelectVerdict(p, current)
    IN  /\ proc[p].pc = "select"
        /\ IF verdict = "cas"
           THEN /\ proc' = [proc EXCEPT ![p].pc = "update", ![p].seen = current]
                /\ UNCHANGED uncertain
           ELSE Return(p, verdict)
        /\ UNCHANGED <<rowVars, inboxVars, envVars, todo>>

\* Mutant: the UPDATE without `AND status = $5`.
SetStatusUpdateBlind(p) ==
    /\ proc[p].pc = "update"
    /\ ledger' = [ledger EXCEPT ![proc[p].d] = proc[p].want]
    /\ Return(p, "Mine")
    /\ UNCHANGED <<overdue, silent, held, placeholder, used, reports>>
    /\ UNCHANGED <<inboxVars, envVars, todo>>

SetStatusUpdate(p) ==
    LET won == ledger[proc[p].d] = proc[p].seen
    IN  /\ proc[p].pc = "update"
        /\ ledger' = IF won THEN [ledger EXCEPT ![proc[p].d] = proc[p].want] ELSE ledger
        /\ Return(p, IF won THEN "Mine" ELSE "NotMine")
        /\ UNCHANGED <<overdue, silent, held, placeholder, used, reports>>
        /\ UNCHANGED <<inboxVars, envVars, todo>>

\* The SELECT or the UPDATE errored: no write landed.
SetStatusError(p) ==
    /\ proc[p].pc \in {"select", "update"}
    /\ p = Sweeper \/ enabled
    /\ faults < MaxFaults
    /\ faults' = faults + 1
    /\ Return(p, "Deferred")
    /\ UNCHANGED <<rowVars, inboxVars, todo, enabled, pushing, grace, restarts>>

\* The UPDATE ran but RowsAffected could not be read.
SetStatusRowsUnknown(p) ==
    LET won == ledger[proc[p].d] = proc[p].seen
    IN  /\ proc[p].pc = "update"
        /\ faults < MaxFaults
        /\ faults' = faults + 1
        /\ ledger' = IF won THEN [ledger EXCEPT ![proc[p].d] = proc[p].want] ELSE ledger
        /\ Return(p, "Unarbitrated")
        /\ UNCHANGED <<overdue, silent, held, placeholder, used, reports>>
        /\ UNCHANGED <<inboxVars, todo, enabled, pushing, grace, restarts>>

-----------------------------------------------------------------------------
(***************************************************************************)
(* The reply: pushDelegationResultToInbox, best effort.  It returns at once *)
(* unless its flag is on, and the sweeper's emitTerminalDelegationReply is a *)
(* no-op while the ledger is dark.                                          *)
(***************************************************************************)
InboxIsOpen(p) == pushing /\ (p = Sweeper => enabled)

Owes(p) == /\ proc[p].keep > 0
           /\ proc[p].want \in DelegationTerminalStates
           /\ mayReply(proc[p].auth)
           /\ InboxIsOpen(p)

\* The executor goes on to the proxy once `dispatched` is written.
Finished(p) ==
    proc' = IF proc[p].route = "delegate" /\ proc[p].want = "dispatched"
            THEN [proc EXCEPT ![p].pc = "proxy"] ELSE [proc EXCEPT ![p] = Idle]

pushDelegationResultToInbox(p) ==
    LET d == proc[p].d
    IN  /\ proc[p].pc = "reply"
        /\ Owes(p)
        /\ IF proc[p].auth = "Mine"
           THEN /\ mine' = [mine EXCEPT ![d] = @ + 1]
                /\ said' = [said EXCEPT ![d] = proc[p].want]
                /\ UNCHANGED blind
           ELSE /\ blind' = [blind EXCEPT ![d] = @ + 1]
                /\ UNCHANGED <<mine, said>>
        /\ Finished(p)
        /\ UNCHANGED <<rowVars, envVars, todo, unsent, uncertain>>

StaySilent(p) ==
    /\ proc[p].pc = "reply"
    /\ ~Owes(p)
    /\ Finished(p)
    /\ UNCHANGED <<rowVars, inboxVars, envVars, todo, uncertain>>

\* The inbox INSERT failed: logged, never retried.
PushFailed(p) ==
    /\ proc[p].pc = "reply"
    /\ Owes(p)
    /\ faults < MaxFaults
    /\ faults' = faults + 1
    /\ unsent' = unsent \cup {proc[p].d}
    /\ Finished(p)
    /\ UNCHANGED <<rowVars, mine, blind, said, uncertain, todo, enabled, pushing, grace, restarts>>

-----------------------------------------------------------------------------
(***************************************************************************)
(* The routes.                                                             *)
(***************************************************************************)

\* Delegate: the row is inserted before the executor goroutine starts; the
\* Insert is best effort and a no-op while the ledger is dark.
Insert(d, lost) ==
    ledger' = IF enabled /\ ~lost /\ ledger[d] = "none"
              THEN [ledger EXCEPT ![d] = "queued"] ELSE ledger

\* A delegation the approval gate rejects after the insert starts no executor
\* and leaves its ledger row to the sweeper.
Delegate(w, d, lost, granted) ==
    /\ "delegate" \in Routes
    /\ proc[w] = Idle /\ d \notin used
    /\ lost => faults < MaxFaults
    /\ faults' = IF lost THEN faults + 1 ELSE faults
    /\ used' = used \cup {d}
    /\ Insert(d, lost)
    /\ proc' = [proc EXCEPT ![w] =
                  IF granted THEN Running("delegate", d, "dispatched", 1, 0) ELSE Idle]
    /\ UNCHANGED <<overdue, silent, held, placeholder, reports>>
    /\ UNCHANGED <<inboxVars, uncertain, todo, enabled, pushing, grace, restarts>>

\* Record: the agent registers a delegation it sent itself.
Record(w, d) ==
    /\ "record" \in Routes
    /\ proc[w] = Idle /\ d \notin used
    /\ used' = used \cup {d}
    /\ Insert(d, FALSE)
    /\ proc' = [proc EXCEPT ![w] = Running("record", d, "dispatched", 1, 0)]
    /\ UNCHANGED <<overdue, silent, held, placeholder, reports>>
    /\ UNCHANGED <<inboxVars, uncertain, envVars, todo>>

\* UpdateStatus: `completed` makes two calls and keeps the first authority,
\* `failed` makes one.
UpdateStatus(w, d, st) ==
    /\ "report" \in Routes
    /\ proc[w] = Idle /\ d \in used
    /\ reports[d] < MaxReports
    /\ reports' = [reports EXCEPT ![d] = @ + 1]
    /\ proc' = [proc EXCEPT ![w] =
                  IF st = "completed" THEN Running("report", d, st, 2, 2)
                                      ELSE Running("report", d, st, 1, 1)]
    /\ UNCHANGED <<ledger, overdue, silent, held, placeholder, used>>
    /\ UNCHANGED <<inboxVars, uncertain, envVars, todo>>

\* executeDelegation after proxyA2ARequest: an answer makes two calls and
\* keeps the second authority, an error makes one.
executeSuccess(w) ==
    /\ proc[w].pc = "proxy"
    /\ proc' = [proc EXCEPT ![w] = Running("delegate", proc[w].d, "completed", 2, 1)]
    /\ UNCHANGED <<rowVars, inboxVars, uncertain, envVars, todo>>

finalizeNonDispatchedDelegation(w) ==
    /\ proc[w].pc = "proxy"
    /\ proc' = [proc EXCEPT ![w] = Running("delegate", proc[w].d, "failed", 1, 1)]
    /\ UNCHANGED <<rowVars, inboxVars, uncertain, envVars, todo>>

\* The proxy queued the message (202): it is drainable from here on, and only
\* afterwards does the executor insert the placeholder a drain looks for.
proxyQueued(w) ==
    /\ proc[w].pc = "proxy"
    /\ held' = held \cup {proc[w].d}
    /\ proc' = [proc EXCEPT ![w].pc = "placeholder"]
    /\ UNCHANGED <<ledger, overdue, silent, placeholder, used, reports>>
    /\ UNCHANGED <<inboxVars, uncertain, envVars, todo>>

insertPlaceholder(w) ==
    /\ proc[w].pc = "placeholder"
    /\ placeholder' = [placeholder EXCEPT ![proc[w].d] = "queued"]
    /\ proc' = [proc EXCEPT ![w] = Idle]
    /\ UNCHANGED <<ledger, overdue, silent, held, used, reports>>
    /\ UNCHANGED <<inboxVars, uncertain, envVars, todo>>

\* stitchDrainResponseToDelegation / stitchDroppedDelegationFailure: flip the
\* placeholder; with no queued placeholder nothing else happens.
stitch(w, d, st) ==
    /\ proc[w] = Idle /\ d \in held
    /\ held' = held \ {d}
    /\ IF placeholder[d] = "queued"
       THEN /\ placeholder' = [placeholder EXCEPT ![d] = "final"]
            /\ proc' = [proc EXCEPT ![w] = Running("drain", d, st, 1, 1)]
       ELSE UNCHANGED <<placeholder, proc>>
    /\ UNCHANGED <<ledger, overdue, silent, used, reports>>
    /\ UNCHANGED <<inboxVars, uncertain, envVars, todo>>

-----------------------------------------------------------------------------
(***************************************************************************)
(* The sweeper: one snapshot, then a SetStatus per offending row.          *)
(***************************************************************************)
\* Mutant: the hand-typed status list that forgets `stuck`.
SweepForgetsStuck ==
    /\ "sweep" \in Routes
    /\ proc[Sweeper] = Idle /\ todo = {}
    /\ todo' = {c \in Candidates : /\ ledger[c.d] = c.status /\ c.status # "stuck"
                                   /\ c.due = (c.d \in overdue)
                                   /\ c.stale = (c.d \in silent)}
    /\ UNCHANGED <<rowVars, inboxVars, uncertain, envVars, proc>>

Sweep ==
    /\ "sweep" \in Routes
    /\ proc[Sweeper] = Idle /\ todo = {}
    /\ todo' = {c \in Candidates : /\ ledger[c.d] = c.status
                                   /\ c.due = (c.d \in overdue)
                                   /\ c.stale = (c.d \in silent)}
    /\ UNCHANGED <<rowVars, inboxVars, uncertain, envVars, proc>>

SweepRow(c) ==
    /\ proc[Sweeper] = Idle /\ c \in todo
    /\ todo' = todo \ {c}
    /\ proc' = [proc EXCEPT ![Sweeper] =
          IF c.due THEN Running("sweep", c.d, "failed", 1, 1)
          ELSE IF c.stale /\ ~grace /\ c.status # "stuck"
               THEN Running("sweep", c.d, "stuck", 1, 0) ELSE Idle]
    /\ UNCHANGED <<rowVars, inboxVars, uncertain, envVars>>

-----------------------------------------------------------------------------
(***************************************************************************)
(* Environment: time, callees, process restarts.                           *)
(***************************************************************************)
DeadlinePasses(d) ==
    /\ d \in used \ overdue
    /\ overdue' = overdue \cup {d}
    /\ UNCHANGED <<ledger, silent, held, placeholder, used, reports>>
    /\ UNCHANGED <<inboxVars, uncertain, envVars, proc, todo>>

CalleeHeartbeat(d) ==
    /\ "sweep" \in Routes
    /\ silent' = IF d \in silent THEN silent \ {d} ELSE silent \cup {d}
    /\ UNCHANGED <<ledger, overdue, held, placeholder, used, reports>>
    /\ UNCHANGED <<inboxVars, uncertain, envVars, proc, todo>>

GraceEnds ==
    /\ "sweep" \in Routes
    /\ grace /\ grace' = FALSE
    /\ UNCHANGED <<rowVars, inboxVars, uncertain, proc, todo, enabled, pushing, faults, restarts>>

\* A deploy or a crash: every goroutine is gone, the tables stay.  The two
\* flags are read from the new process's environment.
Restart(flag, push) ==
    /\ "restart" \in Routes
    /\ restarts < MaxRestarts
    /\ ~flag => "dark" \in Routes
    /\ ~push => "quiet" \in Routes
    /\ restarts' = restarts + 1
    /\ enabled' = flag
    /\ pushing' = push
    /\ grace' = TRUE
    /\ proc' = [p \in Procs |-> Idle]
    /\ todo' = {}
    /\ UNCHANGED <<rowVars, inboxVars, uncertain, faults>>

SetStatusStep(p) ==
    \/ SetStatusSelect(p)
    \/ SetStatusUpdate(p)

ReplyStep(p) ==
    \/ pushDelegationResultToInbox(p)
    \/ StaySilent(p)

FaultStep(p) ==
    \/ SetStatusError(p)
    \/ SetStatusRowsUnknown(p)
    \/ PushFailed(p)

ExecutorStep(w) ==
    \/ executeSuccess(w)
    \/ finalizeNonDispatchedDelegation(w)
    \/ proxyQueued(w)
    \/ insertPlaceholder(w)

RouteStep(w, d) ==
    \/ \E lost, granted \in BOOLEAN : Delegate(w, d, lost, granted)
    \/ Record(w, d)
    \/ \E st \in DelegationTerminalStates : UpdateStatus(w, d, st) \/ stitch(w, d, st)

Next ==
    \/ \E p \in Procs : SetStatusStep(p) \/ ReplyStep(p) \/ FaultStep(p)
    \/ \E w \in Writers : ExecutorStep(w)
    \/ \E w \in Writers, d \in Delegations : RouteStep(w, d)
    \/ Sweep
    \/ \E c \in todo : SweepRow(c)
    \/ \E d \in Delegations : DeadlinePasses(d) \/ CalleeHeartbeat(d)
    \/ GraceEnds
    \/ \E flag, push \in BOOLEAN : Restart(flag, push)

Spec == Init /\ [][Next]_vars

\* The goroutines run and the sweeper's ticker keeps firing; callers, agents,
\* drains, heartbeats, faults and restarts owe nothing.
Fairness ==
    /\ \A p \in Procs : WF_vars(SetStatusStep(p) \/ ReplyStep(p))
    /\ \A w \in Writers : WF_vars(ExecutorStep(w))
    /\ WF_vars(Sweep \/ \E c \in todo : SweepRow(c))

FairSpec == Spec /\ Fairness

-----------------------------------------------------------------------------
(***************************************************************************)
(* Properties.                                                             *)
(***************************************************************************)
\* A step inserts a row as `queued`, leaves it, or moves it along the
\* transition matrix from the status it has at that moment: a SetStatus whose
\* SELECT is stale never drags a row back or out of a terminal status
\* (SetStatus, the compare-and-swap UPDATE).
ForwardOnly ==
    [][\A d \in Delegations :
          \/ ledger'[d] = ledger[d]
          \/ ledger[d] = "none" /\ ledger'[d] = "queued"
          \/ /\ ledger[d] \in DelegationInFlightStates
             /\ ledger'[d] \in allowedTransitions[ledger[d]]]_vars

\* However many terminalizers race, the caller is told twice only if some
\* SetStatus call could not be arbitrated (dark ledger, no row, unreadable
\* RowsAffected); a database error on its own never costs a second reply
\* (ReplyAuthority, mayReply).
NoDoubleReply ==
    \A d \in Delegations : mine[d] + blind[d] > 1 => d \in uncertain

\* The goroutine that won the compare-and-swap of a terminal status and still
\* has its reply to send.
Owns(p) ==
    /\ proc[p].pc \in {"select", "update", "reply"}
    /\ proc[p].auth = "Mine"
    /\ proc[p].want \in DelegationTerminalStates

\* A goroutine that won a terminal compare-and-swap, or already replied on it,
\* speaks for the row as it is: no later writer changed the outcome under it,
\* and nobody else holds the same licence (ReplyMine).
LicenceIsExclusive ==
    /\ \A p, q \in Procs : Owns(p) /\ Owns(q) /\ proc[p].d = proc[q].d => p = q
    /\ \A p \in Procs : Owns(p) => /\ ledger[proc[p].d] = proc[p].want
                                   /\ mine[proc[p].d] = 0

\* The one reply sent on ReplyMine says what the ledger says, for good.
ReplyTellsTheLedger ==
    \A d \in Delegations : mine[d] > 0 => mine[d] = 1 /\ said[d] = ledger[d]

\* The state keeps its types, a terminal row has one answerer, and what the caller heard is
\* what the row says (SetStatus's reply authority).
RepliesAreLicensed == TypeOK /\ LicenceIsExclusive /\ ReplyTellsTheLedger

\* The detailed ledger implements the abstract single-reply specification.
Reply == INSTANCE DelegationReply WITH
    phase <- [d \in Delegations |->
                 IF ledger[d] = "none" THEN "absent"
                 ELSE IF ledger[d] \in DelegationInFlightStates THEN "open"
                 ELSE ledger[d]],
    notices <- mine,
    told <- said

\* Every behaviour of the ledger, its writers and the sweeper is one of the
\* single-reply specification (delegation_ledger.go: exactly one reply on
\* the ledger's authority).
SingleReply == Reply!RSpec

\* A delegation past its deadline does not stay in flight: the sweeper ends
\* it, whatever `stuck` marks, lost compare-and-swaps, failed statements and
\* restarts came before (Sweep, deadline arm).
OverdueIsClosed ==
    \A d \in Delegations :
        (ledger[d] \in DelegationInFlightStates /\ d \in overdue)
            ~> (ledger[d] \in DelegationTerminalStates)

\* When the sweeper is the only terminalizer and the process runs with both
\* flags on, a delegation past its deadline ends with its caller told, a
\* deferred (errored) call included; only a lost inbox INSERT or a process
\* restart can swallow the notice (Sweep: the authority, not the error, decides
\* the reply).  With DELEGATION_RESULT_INBOX_PUSH off nobody is told, which
\* WarnOnPartialDelegationRollout calls a trap.
OverdueCallerIsTold ==
    \A d \in Delegations :
        (pushing /\ enabled /\ ledger[d] \in DelegationInFlightStates /\ d \in overdue)
            ~> (mine[d] + blind[d] > 0 \/ d \in unsent \/ restarts > 0)

(***************************************************************************)
(* Claims of the sources that the code does not keep.                      *)
(***************************************************************************)
\* delegation_ledger.go on ReplyNotMine: silence is correct because the
\* caller has been or is being notified by the writer that won, which
\* presupposes that the row is terminal.
SilenceIsCovered ==
    \A p \in Procs :
        /\ proc[p].pc = "reply" /\ proc[p].auth = "NotMine"
        /\ proc[p].want \in DelegationTerminalStates
        => ledger[proc[p].d] \in DelegationTerminalStates

\* delegation_ledger.go on DelegationTerminalStates: a terminal delegation has
\* exactly one caller notification, here once every goroutine has finished
\* and no inbox INSERT was lost.
TerminalOwesOneReply ==
    (\A p \in Procs : proc[p] = Idle) =>
        \A d \in Delegations :
            /\ ledger[d] \in DelegationTerminalStates
            /\ d \notin unsent /\ restarts = 0
            => mine[d] + blind[d] = 1

\* delegation.go's lifecycle comment: completed / failed / stuck are TERMINAL.
StuckIsTerminal ==
    [][\A d \in Delegations : ledger[d] = "stuck" => ledger'[d] = "stuck"]_vars

\* The deadline sweep settles every delegation (Sweep, SetStatus): an overdue
\* row leaves the in-flight states and, where replies are pushed, its caller is
\* told.
OverdueIsSettled ==
    /\ OverdueIsClosed
    /\ OverdueCallerIsTold

=============================================================================
