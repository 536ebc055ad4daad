--------------------------- MODULE HumanRequests ---------------------------
(***************************************************************************)
(* One request an agent raised (an approval or a task) on its way through  *)
(* the unified inbox: the handlers that answer it, ask back about it or    *)
(* withdraw it, each of several statements with others in between, the     *)
(* turn that tells the agent what came of it, and the sweeper that nudges  *)
(* an idle agent whose inbox item nobody handles.                          *)
(*                                                                         *)
(* Source: workspace-server/internal/handlers, request_store.go,           *)
(* requests.go and request_nudge_sweeper.go.                               *)
(***************************************************************************)
EXTENDS Naturals, FiniteSets

CONSTANTS
    ReqCalls,      \* calls of the respond, message and cancel endpoints
    MaxReqFaults   \* bound: failed enqueues and statements, and restarts

ASSUME RequestsAssumption == MaxReqFaults \in Nat

VARIABLES
    kind,          \* requests.kind: "approval" or "task"
    toAgent,       \* recipient_type = 'agent': the item is in an agent's inbox
    status,        \* requests.status
    call,          \* each call: where it stands and what it says
    told,          \* the turns enqueued for the requester agent
    ageing,        \* created more than requestNudgeStaleAfter ago
    idle,          \* the recipient is online with active_tasks = 0
    nudgePc,       \* where the nudge sweep stands
    keyed,         \* a nudge wake intent exists for this clock hour
    stamp,         \* last_nudged_at
    sent,          \* when the last nudge was really enqueued
    stampLost,     \* the last nudge was enqueued and its stamp was not written
    reqFaults      \* faults so far

requestVars == <<kind, toAgent, status, call, told>>
nudgeVars == <<ageing, idle, nudgePc, keyed, stamp, sent, stampLost>>
reqVars == <<requestVars, nudgeVars, reqFaults>>

Unended == {"pending", "info_requested"}
Decided == {"approved", "rejected", "done"}
Ended == Decided \union {"cancelled"}

\* A moment, as the nudge's rate limit sees it: in the present clock hour, in
\* an earlier one less than an hour ago, or more than an hour ago.
Moments == {"never", "thisHour", "underAnHour", "overAnHour"}

CallIdle == [pc |-> "idle", says |-> "nothing"]

\* The terminal status an action sets, by the request's kind.
actionToStatus(k) ==
    IF k = "approval" THEN {"approved", "rejected"} ELSE {"done", "rejected"}

ReqFault == reqFaults < MaxReqFaults /\ reqFaults' = reqFaults + 1

RequestsInit ==
    /\ kind \in {"approval", "task"} /\ toAgent \in BOOLEAN
    /\ status = "pending"
    /\ call = [c \in ReqCalls |-> CallIdle] /\ told = {}
    /\ ageing = FALSE /\ idle \in BOOLEAN /\ nudgePc = "idle"
    /\ keyed = FALSE /\ stamp = "never" /\ sent = "never" /\ stampLost = FALSE
    /\ reqFaults = 0

CallGoes(c, pc) == call' = [call EXCEPT ![c].pc = pc]

-----------------------------------------------------------------------------
\* Respond: the row is read for its kind and its parties, which never change,
\* and the action checked against them ...
RespondArrives(c) ==
    /\ call[c] = CallIdle
    /\ \E s \in actionToStatus(kind) :
           call' = [call EXCEPT ![c] = [pc |-> "respond", says |-> s]]
    /\ UNCHANGED <<kind, toAgent, status, told, nudgeVars, reqFaults>>

\* ... the status is written if the row is still open, ...
RespondWrites(c) ==
    /\ call[c].pc = "respond"
    /\ \/ /\ status \in Unended /\ status' = call[c].says /\ CallGoes(c, "tell")
       \/ status \in Ended /\ UNCHANGED status /\ CallGoes(c, "over")
    /\ UNCHANGED <<kind, toAgent, told, nudgeVars, reqFaults>>

\* AddMessage: the message is inserted; one that the requester did not write
\* is a question back to it.
MessageArrives(c) ==
    /\ call[c] = CallIdle
    /\ \E w \in {"requester", "other"} :
           call' = [call EXCEPT ![c] =
                        [pc |-> IF w = "other" THEN "flip" ELSE "over",
                         says |-> w]]
    /\ UNCHANGED <<kind, toAgent, status, told, nudgeVars, reqFaults>>

\* The question moves an open request to info_requested; a failure of that
\* statement is logged and the requester is told all the same.
MessageFlips(c) ==
    /\ call[c].pc = "flip"
    /\ CallGoes(c, "tell")
    /\ \/ /\ status' = (IF status \in Unended THEN "info_requested" ELSE status)
          /\ UNCHANGED reqFaults
       \/ ReqFault /\ UNCHANGED status
    /\ UNCHANGED <<kind, toAgent, told, nudgeVars>>

\* notifyRequesterAgent: the outcome or the question becomes a turn on the
\* requester's queue, under a key of its own; a failed enqueue is only logged.
notifyRequesterAgent(c) ==
    /\ call[c].pc = "tell"
    /\ CallGoes(c, "over")
    /\ \/ told' = told \union {IF call[c].says = "other" THEN c ELSE call[c].says}
          /\ UNCHANGED reqFaults
       \/ ReqFault /\ UNCHANGED told
    /\ UNCHANGED <<kind, toAgent, status, nudgeVars>>

\* Cancel: the requester withdraws a request that is still open.
CancelRequest(c) ==
    /\ call[c] = CallIdle
    /\ CallGoes(c, "over")
    /\ status' = (IF status \in Unended THEN "cancelled" ELSE status)
    /\ UNCHANGED <<kind, toAgent, told, nudgeVars, reqFaults>>

-----------------------------------------------------------------------------
NudgeDueAnyHour == toAgent /\ status \in Unended /\ ageing /\ idle

\* Sweep: open items in an agent's inbox that have aged, whose agent is online
\* and idle and which were not nudged within the hour.
NudgeDue == /\ toAgent /\ status \in Unended /\ ageing /\ idle
            /\ stamp \in {"never", "overAnHour"}

NudgeSelects ==
    /\ nudgePc = "idle" /\ NudgeDue
    /\ nudgePc' = "decide"
    /\ UNCHANGED <<requestVars, ageing, idle, keyed, stamp, sent, stampLost, reqFaults>>

\* nudgeAgent: the wake is minted under the clock hour, once; an intent that is
\* there already ends the nudge without a turn and without a stamp.
NudgeDecides ==
    /\ nudgePc = "decide"
    /\ \/ keyed /\ nudgePc' = "idle" /\ UNCHANGED <<keyed, reqFaults>>
       \/ ~keyed /\ keyed' = TRUE /\ nudgePc' = "send" /\ UNCHANGED reqFaults
       \/ ReqFault /\ nudgePc' = "idle" /\ UNCHANGED keyed
    /\ UNCHANGED <<requestVars, ageing, idle, stamp, sent, stampLost>>

NudgeSends ==
    /\ nudgePc = "send"
    /\ \/ sent' = "thisHour" /\ nudgePc' = "stamp" /\ UNCHANGED reqFaults
       \/ ReqFault /\ nudgePc' = "idle" /\ UNCHANGED sent
    /\ UNCHANGED <<requestVars, ageing, idle, keyed, stamp, stampLost>>

NudgeStamps ==
    /\ nudgePc = "stamp"
    /\ nudgePc' = "idle"
    /\ \/ stamp' = "thisHour" /\ stampLost' = FALSE /\ UNCHANGED reqFaults
       \/ ReqFault /\ stampLost' = TRUE /\ UNCHANGED stamp
    /\ UNCHANGED <<requestVars, ageing, idle, keyed, sent>>

-----------------------------------------------------------------------------
\* The item outlives requestNudgeStaleAfter; the recipient goes to work or
\* falls idle.
RequestAges ==
    /\ ~ageing /\ ageing' = TRUE
    /\ UNCHANGED <<requestVars, idle, nudgePc, keyed, stamp, sent, stampLost, reqFaults>>

RecipientTurns ==
    /\ idle' = ~idle
    /\ UNCHANGED <<requestVars, ageing, nudgePc, keyed, stamp, sent, stampLost, reqFaults>>

\* The clock hour turns: a new key for the intent. Between any moment and the
\* moment one hour later the clock hour has turned.
HourTurns ==
    LET Earlier(m) == IF m = "thisHour" THEN "underAnHour" ELSE m IN
    /\ keyed' = FALSE /\ stamp' = Earlier(stamp) /\ sent' = Earlier(sent)
    /\ UNCHANGED <<requestVars, ageing, idle, nudgePc, stampLost, reqFaults>>

\* requestNudgeReNudgeAfter has passed since the stamp; the nudge the stamp is
\* for was enqueued before it.
StampAges ==
    /\ stamp = "underAnHour" /\ stamp' = "overAnHour"
    /\ sent' = (IF sent = "underAnHour" /\ ~stampLost THEN "overAnHour" ELSE sent)
    /\ UNCHANGED <<requestVars, ageing, idle, nudgePc, keyed, stampLost, reqFaults>>

SentAges ==
    /\ sent = "underAnHour" /\ sent' = "overAnHour"
    /\ UNCHANGED <<requestVars, ageing, idle, nudgePc, keyed, stamp, stampLost, reqFaults>>

\* The server restarts: the calls it was serving and the sweep are lost.
RequestsRestart ==
    /\ ReqFault
    /\ call' = [c \in ReqCalls |-> IF call[c] = CallIdle THEN CallIdle
                                   ELSE [call[c] EXCEPT !.pc = "over"]]
    /\ nudgePc' = "idle" /\ stampLost' = (stampLost \/ nudgePc = "stamp")
    /\ UNCHANGED <<kind, toAgent, status, told, ageing, idle, keyed, stamp, sent>>

ReqCallStep(c) == RespondWrites(c) \/ MessageFlips(c) \/ notifyRequesterAgent(c)
NudgeStep == NudgeSelects \/ NudgeDecides \/ NudgeSends \/ NudgeStamps

RequestsNext ==
    \/ \E c \in ReqCalls : \/ RespondArrives(c) \/ MessageArrives(c)
                           \/ CancelRequest(c) \/ ReqCallStep(c)
    \/ NudgeStep
    \/ RequestAges \/ RecipientTurns \/ HourTurns \/ StampAges \/ SentAges
    \/ RequestsRestart

RequestsSpec == RequestsInit /\ [][RequestsNext]_reqVars

\* A handler runs to its end, the sweeper ticks for ever, and time passes.
RequestsFairSpec ==
    /\ RequestsSpec
    /\ \A c \in ReqCalls : WF_reqVars(ReqCallStep(c))
    /\ WF_reqVars(NudgeStep)
    /\ WF_reqVars(RequestAges) /\ WF_reqVars(HourTurns) /\ WF_reqVars(StampAges)

-----------------------------------------------------------------------------
\* The type invariant.
RequestsTypeOK ==
    /\ kind \in {"approval", "task"}
    /\ toAgent \in BOOLEAN /\ ageing \in BOOLEAN /\ idle \in BOOLEAN
    /\ keyed \in BOOLEAN /\ stampLost \in BOOLEAN
    /\ status \in Unended \union actionToStatus(kind) \union {"cancelled"}
    /\ call \in [ReqCalls ->
                    [pc : {"idle", "respond", "flip", "tell", "over"},
                     says : {"nothing", "requester", "other"} \union Decided]]
    /\ told \subseteq ReqCalls \union Decided
    /\ nudgePc \in {"idle", "decide", "send", "stamp"}
    /\ stamp \in Moments /\ sent \in Moments
    /\ reqFaults \in 0..MaxReqFaults

\* An agent is never told an outcome other than the one on file, however many
\* people answer, ask or withdraw at once (Respond: the UPDATE and its row
\* count; AddMessage's and Cancel's guards keep what was told true).
ToldWhatIsOnFile == \A s \in told \intersect Decided : status = s

\* A request that was decided is in the end known to the agent that raised it,
\* unless the enqueue of its turn failed or the server restarted before it.
DecidedIsTold == []<>(status \in Decided => (status \in told \/ reqFaults > 0))

\* Two nudges for one item lie more than an hour apart, unless the stamp of
\* the first was lost (Sweep's rate limit and nudgeAgent's late stamp).
NudgesApart ==
    [][(nudgePc = "send" /\ nudgePc' = "stamp") =>
           (sent \in {"never", "overAnHour"} \/ stampLost)]_reqVars

\* An item that stays open in the inbox of an agent that stays idle is nudged
\* again and again, whatever enqueue or statement failed on the way.
OpenIsRenudged ==
    <>[](toAgent /\ status \in Unended /\ idle) => []<>(nudgePc = "stamp")

\* A human request (Respond, AddMessage, Cancel, the nudge sweeper) is decided
\* once, its requester hears that decision, and an open one is nudged in turn.
RequestsAreAnswered ==
    /\ []RequestsTypeOK
    /\ []ToldWhatIsOnFile
    /\ DecidedIsTold
    /\ NudgesApart
    /\ OpenIsRenudged

=============================================================================
