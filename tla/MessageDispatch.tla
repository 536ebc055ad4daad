-------------------------- MODULE MessageDispatch --------------------------
(***************************************************************************)
(* One message on its way through the A2A proxy to a workspace's agent,    *)
(* sent several times (a retry, a second device, the queue's drain, all    *)
(* with the same messageId): the gates every send passes, the row that     *)
(* keeps the message and later its reply, the ways a send ends without a   *)
(* turn of the agent, the turn itself, and what a canvas that was told     *)
(* "queued" after its synchronous budget still hears.                      *)
(*                                                                         *)
(* Source: workspace-server/internal/handlers, a2a_proxy.go,               *)
(* a2a_proxy_helpers.go, a2a_inbound_auth.go, mock_runtime.go and          *)
(* logActivityExec of activity.go.                                         *)
(***************************************************************************)
EXTENDS Naturals, FiniteSets

CONSTANTS
    Sends,           \* the sends of the message
    MaxTroubles      \* bound: failed statements and lookups, and changes of
                     \* the target workspace and its agent

ASSUME DispatchAssumption == IsFiniteSet(Sends) /\ MaxTroubles \in Nat

VARIABLES
    nature,      \* what runs the agent: "docker", "cp", "external" or "mock"
    refusal,     \* what the gates hold against a workspace that sends
    target,      \* the workspace: row, cached URL, agent, boot turn, enrolment
    send,        \* each send: where it stands and what its caller was told
    logRow,      \* the activity_logs row keyed by the messageId
    unkeyed,     \* activity_logs rows of the message without a messageId
    asyncLogs,   \* log writes handed to a goroutine
    troubles     \* failures and changes so far

dispatchVars ==
    <<nature, refusal, target, send, logRow, unkeyed, asyncLogs, troubles>>

Natures == {"docker", "cp", "external", "mock"}
Refusals == {"nothing", "hierarchy", "org", "budget", "malformed", "cannotDelegate"}

\* Who sends: a human's canvas session ("canvas"), a holder of the workspace's
\* inbound secret ("inbound"), another workspace ("peer"), the workspace itself
\* ("self"), or the platform ("system").

\* callerID = "" or isCanvasUser: the sends whose reply the canvas waits for.
CanvasClass == {"canvas", "inbound"}

NoRow == [resp |-> "none", status |-> "absent"]
NotBegun == [pc |-> "idle", by |-> "system", http |-> FALSE, logs |-> FALSE,
         capped |-> FALSE, answer |-> "none", got |-> "nothing",
         told |-> {}, queued |-> FALSE, unsaved |-> FALSE]

\* A concierge runs in a container or on a machine of the platform's; an agent
\* that polls is one outside, and the others have their inbound secret.
DispatchInit ==
    /\ nature \in Natures /\ refusal \in Refusals
    /\ target \in [status : {"online"}, platform : BOOLEAN, mode : {"push", "poll"},
                   url : {TRUE}, cached : {FALSE}, agent : {"up"},
                   boot : {FALSE}, enrolled : BOOLEAN]
    /\ target.platform => nature \in {"docker", "cp"}
    /\ target.mode = "poll" \/ ~target.enrolled => nature = "external"
    /\ send = [s \in Sends |-> NotBegun]
    /\ logRow = NoRow /\ unkeyed = 0 /\ asyncLogs = {}
    /\ troubles = 0

SendFault == troubles < MaxTroubles /\ troubles' = troubles + 1
Smooth == UNCHANGED troubles
Answered(s, a) == [send[s] EXCEPT !.pc = "done", !.answer = a]
At(s, pc) == send[s].pc = pc
To(s, pc) == send' = [send EXCEPT ![s].pc = pc]
End(s, a) == send' = [send EXCEPT ![s] = Answered(s, a)]
Elsewhere == <<nature, refusal>>

---------------------------------------------------------------------------
(* The record of the message.                                              *)

\* The upsert keyed by the messageId: a new response replaces the old one,
\* and an error never relabels a row that has a response.
UpsertRelabels(row, resp, st) ==
    IF row = NoRow THEN [resp |-> resp, status |-> st]
    ELSE [resp |-> IF resp = "none" THEN row.resp ELSE resp, status |-> st]
Upsert(row, resp, st) ==
    IF row = NoRow THEN [resp |-> resp, status |-> st]
    ELSE [resp |-> IF resp = "none" THEN row.resp ELSE resp,
          status |-> IF row.resp # "none" /\ st = "error" THEN row.status ELSE st]

\* The row is written before the send goes on, and the other devices are told
\* of a human's message only once it is.  The platform's own sends are no
\* user messages; a failed insert only skips the broadcast.
persistUserMessageAtIngest(s) ==
    \/ /\ send[s].by = "system"
       /\ To(s, "mode") /\ Smooth /\ UNCHANGED logRow
    \/ /\ send[s].by # "system"
       /\ logRow' = Upsert(logRow, "none", "ok")
       /\ send' = [send EXCEPT ![s].pc = "mode",
                     ![s].told = IF send[s].by \in CanvasClass
                                 THEN @ \union {"userMessage"} ELSE @]
       /\ Smooth
    \/ /\ send[s].by # "system" /\ SendFault
       /\ send' = [send EXCEPT ![s].pc = "mode", ![s].unsaved = TRUE]
       /\ UNCHANGED logRow

\* What the canvas is told when an agent's answer is logged: the reply itself
\* (an event whose body is not JSON is never sent), and the activity row.
ToldBy(s, resp, st) ==
    {IF st = "error" THEN "error" ELSE "activity"} \union
    {e \in {"reply"} : send[s].by \in CanvasClass /\ st = "ok" /\ resp = "reply"}

\* The answer is logged synchronously, before the send returns; the insert
\* may fail, which is only logged, and then the activity event is not sent.
logA2ASuccess(s, resp, st, a) ==
    \/ /\ ~send[s].logs
       /\ send' = [send EXCEPT ![s] = Answered(s, a)]
       /\ Smooth /\ UNCHANGED logRow
    \/ /\ send[s].logs
       /\ logRow' = Upsert(logRow, resp, st)
       /\ send' = [send EXCEPT ![s] = [Answered(s, a) EXCEPT
                                         !.told = @ \union ToldBy(s, resp, st)]]
       /\ Smooth
    \/ /\ send[s].logs /\ SendFault
       /\ send' = [send EXCEPT ![s] = [Answered(s, a) EXCEPT !.unsaved = TRUE,
                     !.told = @ \union (ToldBy(s, resp, st) \intersect {"reply"})]]
       /\ UNCHANGED logRow

\* A failed forward is logged by a goroutine, keyed by the messageId; a send
\* queued for a busy agent by one that is not keyed.
logA2AFailure(s) ==
    asyncLogs' = IF send[s].logs THEN asyncLogs \union {<<s, "failure">>} ELSE asyncLogs
logA2ABusyQueued(s) ==
    asyncLogs' = IF send[s].logs THEN asyncLogs \union {<<s, "busy">>} ELSE asyncLogs

AsyncLogRuns(l) ==
    /\ asyncLogs' = asyncLogs \ {l}
    /\ \/ /\ l[2] = "failure"
          /\ logRow' = Upsert(logRow, "none", "error")
          /\ send' = [send EXCEPT ![l[1]].told = @ \union {"error"}]
          /\ Smooth /\ UNCHANGED unkeyed
       \/ /\ l[2] = "busy" /\ unkeyed' = unkeyed + 1
          /\ Smooth /\ UNCHANGED <<send, logRow>>
       \/ /\ SendFault
          /\ send' = [send EXCEPT ![l[1]].unsaved = TRUE]
          /\ UNCHANGED <<logRow, unkeyed>>
    /\ UNCHANGED <<Elsewhere, target>>

---------------------------------------------------------------------------
(* The gates.  They only read, and a send that one of them refuses or      *)
(* defers has changed nothing.                                             *)

\* Only a workspace that is neither the target nor the platform is checked
\* against the hierarchy, the org and its right to delegate.
AccessDenied(by) == by = "peer" /\ refusal \in {"hierarchy", "org"}
CannotDelegate(by) == by = "peer" /\ refusal = "cannotDelegate"
checkWorkspaceBudget == refusal = "budget"
normalizeA2APayload == refusal = "malformed"
conciergeWarmingGate(by) ==
    /\ by \notin {"system", "self"}
    /\ target.platform /\ target.status = "provisioning"

\* The budget, the right to delegate and the warming gate let a send pass
\* when they cannot be read.
Gates(s, by, http, logs) ==
    LET shut == AccessDenied(by) \/ normalizeA2APayload
        open == CannotDelegate(by) \/ conciergeWarmingGate(by) \/ checkWorkspaceBudget
        start(pc, a) == send' = [send EXCEPT ![s].pc = pc, ![s].answer = a, ![s].by = by,
                                             ![s].http = http, ![s].logs = logs]
    IN \/ (shut \/ open) /\ start("done", "denied") /\ Smooth
       \/ ~shut /\ ~open /\ start("ingest", "none") /\ Smooth
       \/ ~shut /\ open /\ start("ingest", "none") /\ SendFault

\* POST /workspaces/:id/a2a.  What the credential proves decides who sends; a
\* claimed identity it does not prove, or none, is refused.
authenticateA2AHTTPCaller == {"canvas", "peer", "self"}
ProxyA2A(s) ==
    /\ At(s, "idle")
    /\ \E by \in authenticateA2AHTTPCaller : Gates(s, by, TRUE, TRUE)
    /\ UNCHANGED <<Elsewhere, target, logRow, unkeyed, asyncLogs>>

\* POST /workspaces/:id/a2a/inbound: the inbound secret makes the caller one
\* without an identity, and the send goes the way of ProxyA2A.
ReceiveA2AInbound(s) ==
    /\ At(s, "idle") /\ target.enrolled
    /\ Gates(s, "inbound", TRUE, TRUE)
    /\ UNCHANGED <<Elsewhere, target, logRow, unkeyed, asyncLogs>>

\* The platform's own sends: the drain and the background tasks, with or
\* without a record of the answer, for whoever queued the message.
ProxyA2ARequest(s) ==
    /\ At(s, "idle")
    /\ \E by \in {"system", "peer", "inbound"}, logs \in BOOLEAN : Gates(s, by, FALSE, logs)
    /\ UNCHANGED <<Elsewhere, target, logRow, unkeyed, asyncLogs>>

Ingest(s) ==
    /\ At(s, "ingest")
    /\ persistUserMessageAtIngest(s)
    /\ UNCHANGED <<Elsewhere, target, unkeyed, asyncLogs>>

---------------------------------------------------------------------------
(* The ways a send ends without a turn.                                    *)

\* A workspace that polls gets the message from its inbox: the row is written
\* again and the caller told "queued".
logA2AReceiveQueued(s) ==
    \/ /\ End(s, "queued")
       /\ logRow' = IF send[s].logs THEN Upsert(logRow, "none", "ok") ELSE logRow
       /\ Smooth
    \/ /\ send[s].logs /\ SendFault
       /\ send' = [send EXCEPT ![s] = [Answered(s, "queued") EXCEPT !.unsaved = TRUE]]
       /\ UNCHANGED logRow

\* While a platform turn runs in the agent's session, a caller's send is
\* queued; if it cannot be, it is dispatched all the same.
bootTurnGate(s) ==
    LET held == target.boot /\ send[s].by # "system" IN
    \/ ~held /\ To(s, "resolve") /\ Smooth
    \/ /\ held /\ Smooth
       /\ send' = [send EXCEPT ![s] = [Answered(s, "queued") EXCEPT !.queued = TRUE]]
    \/ held /\ To(s, "resolve") /\ SendFault

\* The mock runtime answers from a list of replies.
handleMockA2A(s) == logA2ASuccess(s, "reply", "ok", "reply")

\* The delivery mode is read; a lookup cut off with its request fails the
\* send, and any other failure is taken for push.
lookupDeliveryMode(s) ==
    /\ At(s, "mode")
    /\ \/ target.mode = "poll" /\ logA2AReceiveQueued(s)
       \/ target.mode = "push" /\ nature # "mock" /\ bootTurnGate(s) /\ UNCHANGED logRow
       \/ target.mode = "push" /\ nature = "mock" /\ handleMockA2A(s)
       \/ /\ SendFault /\ UNCHANGED logRow
          /\ \/ send[s].by \notin CanvasClass /\ End(s, "retry")
             \/ target.mode = "poll" /\ To(s, "resolve")
    /\ UNCHANGED <<Elsewhere, target, unkeyed, asyncLogs>>

\* Queued under its idempotency key, the send is accepted; what a failed
\* enqueue leads to is its caller's.
enqueueBusyA2A(s, otherwise) ==
    \/ /\ send' = [send EXCEPT ![s] = [Answered(s, "queued") EXCEPT !.queued = TRUE]]
       /\ logA2ABusyQueued(s) /\ Smooth
    \/ otherwise /\ SendFault

\* The cached URL is used as it is.  Otherwise the row is read: a hibernated
\* workspace is woken, one that settles is queued for, and one that is parked
\* or gone is an error.
resolveAgentURL(s) ==
    /\ At(s, "resolve")
    /\ \/ /\ target.cached \/ target.url
          /\ To(s, "forward") /\ target' = [target EXCEPT !.cached = TRUE]
          /\ Smooth /\ UNCHANGED asyncLogs
       \/ /\ ~target.cached /\ ~target.url /\ target.status = "hibernated"
          /\ target' = [target EXCEPT !.status = "provisioning"]
          /\ End(s, "retry") /\ Smooth /\ UNCHANGED asyncLogs
       \/ /\ ~target.cached /\ ~target.url /\ target.status = "provisioning"
          /\ enqueueBusyA2A(s, End(s, "retry") /\ UNCHANGED asyncLogs) /\ UNCHANGED target
       \/ /\ ~target.cached /\ ~target.url /\ target.status = "offline"
          /\ End(s, "retry") /\ Smooth /\ UNCHANGED <<target, asyncLogs>>
       \/ /\ End(s, "error") /\ SendFault /\ UNCHANGED <<target, asyncLogs>>
    /\ UNCHANGED <<Elsewhere, logRow, unkeyed>>

\* Offline, its keys cleared, and a restart asked for: the guard spares a
\* workspace that is being provisioned or hibernates.
declareContainerDead ==
    target' = [target EXCEPT !.cached = FALSE,
                 !.status = IF @ \in {"provisioning", "hibernated"} THEN @ ELSE "offline"]

\* A container that is seen not to run ends the send before its turn; a probe
\* that fails, or a restart in flight, lets it go on.
preflightContainerHealth(s) ==
    /\ nature = "docker" /\ target.agent = "gone"
    /\ declareContainerDead /\ End(s, "retry") /\ Smooth

\* An agent outside is reached with its secret only: one just minted must
\* first be picked up.  The others are reached without it.
resolveA2AInboundSecret(s) ==
    /\ nature = "external"
    /\ \/ /\ ~target.enrolled /\ target' = [target EXCEPT !.enrolled = TRUE]
          /\ End(s, "retry") /\ Smooth
       \/ End(s, "retry") /\ SendFault /\ UNCHANGED target

---------------------------------------------------------------------------
(* The turn.                                                               *)

\* The turn runs on a context of its own: the caller's leaving does not end
\* it.  A request that cannot be built is an error of the platform.
dispatchA2A(s) ==
    /\ nature = "external" => target.enrolled
    /\ \/ To(s, "turn") /\ (nature = "docker" => target.agent # "gone") /\ Smooth
       \/ To(s, "turn") /\ nature = "docker" /\ target.agent = "gone" /\ SendFault
       \/ End(s, "error") /\ SendFault
    /\ UNCHANGED target

Forward(s) ==
    /\ At(s, "forward")
    /\ preflightContainerHealth(s) \/ resolveA2AInboundSecret(s) \/ dispatchA2A(s)
    /\ UNCHANGED <<Elsewhere, logRow, unkeyed, asyncLogs>>

\* The canvas waits ninety seconds and is told "queued"; the turn goes on.
canvasBudgetEnds(s) ==
    /\ At(s, "turn") /\ send[s].http /\ send[s].by \in CanvasClass /\ ~send[s].capped
    /\ send' = [send EXCEPT ![s].capped = TRUE]
    /\ UNCHANGED <<Elsewhere, target, logRow, unkeyed, asyncLogs, troubles>>

\* What an agent in its state can answer, or how the connection can end.
Answers ==
    [up |-> {"ok", "empty", "cut", "failure"}, busy |-> {"deadline"},
     starting |-> {"refused", "dropped", "gateway"},
     gone |-> {"refused", "gateway", "deadline"}]
AgentAnswers(s) ==
    /\ At(s, "turn")
    /\ \E g \in Answers[target.agent] :
          send' = [send EXCEPT ![s].pc = "answered", ![s].got = g]
    /\ UNCHANGED <<Elsewhere, target, logRow, unkeyed, asyncLogs, troubles>>

\* No event of the workspace for idleTimeoutDuration, or thirty minutes for a
\* caller that has an identity: the forward is cancelled.
applyIdleTimeout(s) ==
    /\ At(s, "turn")
    /\ send' = [send EXCEPT ![s].pc = "answered", ![s].got = "deadline"]
    /\ UNCHANGED <<Elsewhere, target, logRow, unkeyed, asyncLogs, troubles>>

\* A reply is logged and returned.  A 2xx whose body breaks off is logged as
\* delivered with what is not JSON any more (null); an empty one is an error
\* that nothing records; a status of 400 or more is logged as an error.
AnswerRead(s) ==
    /\ At(s, "answered")
    /\ \/ send[s].got = "ok" /\ logA2ASuccess(s, "reply", "ok", "reply")
       \/ send[s].got = "cut" /\ logA2ASuccess(s, "null", "ok", "error")
       \/ /\ send[s].got = "empty" /\ End(s, "error")
          /\ Smooth /\ UNCHANGED logRow
       \/ send[s].got = "failure" /\ logA2ASuccess(s, "failure", "error", "error")
    /\ UNCHANGED <<Elsewhere, target, unkeyed, asyncLogs>>

\* A gateway's answer is logged first and then taken for a sign of a dead
\* agent, like a broken connection.
GatewayAnswer(s) ==
    /\ At(s, "answered") /\ send[s].got = "gateway"
    /\ logA2ASuccess(s, "null", "error", "none")
    /\ UNCHANGED <<Elsewhere, target, unkeyed, asyncLogs>>

\* Whether the target's container can be asked for at all.
containerLivenessIsVerifiable == nature \in {"docker", "cp"}

\* Alive for all that is known, dead, or silent with a fresh heartbeat, when
\* the send is queued instead; if it cannot be, it counts as alive.
maybeMarkContainerDead(s) ==
    /\ At(s, "answered") /\ send[s].got \in {"deadline", "refused", "dropped"}
    /\ \/ /\ ~containerLivenessIsVerifiable \/ target.agent # "gone"
          /\ To(s, "alive") /\ Smooth /\ UNCHANGED <<target, asyncLogs>>
       \/ /\ containerLivenessIsVerifiable /\ target.agent = "gone"
          /\ \/ /\ declareContainerDead /\ End(s, "retry") /\ logA2AFailure(s) /\ Smooth
             \/ enqueueBusyA2A(s, To(s, "alive") /\ UNCHANGED asyncLogs) /\ UNCHANGED target
    /\ UNCHANGED <<Elsewhere, logRow, unkeyed>>

\* A connection refused or dropped by a container that runs is an agent that
\* restarts: the caller retries.  A deadline is a busy agent: the send is
\* queued.  What cannot be told from a dead agent is an error.
handleA2ADispatchError(s) ==
    /\ At(s, "alive")
    /\ LET restarting == send[s].got \in {"refused", "dropped"} /\ containerLivenessIsVerifiable
           busy == send[s].got \in {"deadline", "dropped"}
       IN \/ restarting /\ End(s, "retry") /\ logA2AFailure(s) /\ Smooth
          \/ ~restarting /\ busy /\ enqueueBusyA2A(s, End(s, "retry") /\ logA2AFailure(s))
          \/ ~restarting /\ ~busy /\ End(s, "error") /\ logA2AFailure(s) /\ Smooth
    /\ UNCHANGED <<Elsewhere, target, logRow, unkeyed>>

\* After the log of a gateway's answer, the same reactive check decides.
UpstreamDead(s) ==
    /\ At(s, "done") /\ send[s].got = "gateway" /\ send[s].answer = "none"
    /\ \/ /\ ~containerLivenessIsVerifiable \/ target.agent # "gone"
          /\ End(s, "error") /\ Smooth /\ UNCHANGED <<target, asyncLogs>>
       \/ /\ containerLivenessIsVerifiable /\ target.agent = "gone"
          /\ \/ /\ declareContainerDead /\ End(s, "retry")
                /\ Smooth /\ UNCHANGED asyncLogs
             \/ enqueueBusyA2A(s, End(s, "error") /\ UNCHANGED asyncLogs) /\ UNCHANGED target
    /\ UNCHANGED <<Elsewhere, logRow, unkeyed>>

---------------------------------------------------------------------------
(* The target workspace around the sends.                                  *)

\* The agent becomes busy or idle, restarts or dies; a restart clears the URL
\* until the agent registers again; an idle workspace hibernates; a platform
\* turn begins and ends.
TargetMoves ==
    /\ SendFault
    /\ \/ /\ target.status = "online"
          /\ \E a \in {"up", "busy", "starting", "gone"} \ {target.agent} :
                target' = [target EXCEPT !.agent = a]
       \/ /\ target.status \in {"online", "offline"}
          /\ target' = [target EXCEPT !.status = "provisioning", !.url = FALSE,
                          !.cached = FALSE, !.agent = "starting"]
       \/ /\ target.status = "provisioning"
          /\ target' = [target EXCEPT !.status = "online", !.url = TRUE,
                          !.cached = TRUE, !.agent = "up", !.boot = TRUE]
       \/ /\ target.status = "online" /\ target.agent = "up"
          /\ target' = [target EXCEPT !.status = "hibernated", !.url = FALSE,
                          !.cached = FALSE, !.agent = "gone"]
       \/ target' = [target EXCEPT !.boot = ~@]
    /\ UNCHANGED <<Elsewhere, send, logRow, unkeyed, asyncLogs>>

SendStep(s) ==
    \/ Ingest(s) \/ lookupDeliveryMode(s) \/ resolveAgentURL(s) \/ Forward(s)
    \/ AnswerRead(s) \/ GatewayAnswer(s) \/ maybeMarkContainerDead(s)
    \/ handleA2ADispatchError(s) \/ UpstreamDead(s)

DispatchNext ==
    \/ \E s \in Sends :
          \/ ProxyA2A(s) \/ ReceiveA2AInbound(s) \/ ProxyA2ARequest(s) \/ SendStep(s)
          \/ canvasBudgetEnds(s) \/ AgentAnswers(s) \/ applyIdleTimeout(s)
    \/ \E l \in asyncLogs : AsyncLogRuns(l)
    \/ TargetMoves

DispatchSpec == DispatchInit /\ [][DispatchNext]_dispatchVars

---------------------------------------------------------------------------
(* Properties.                                                             *)

SendEnded(s) == send[s].pc = "done" /\ send[s].answer # "none"

\* One type invariant.
DispatchTypeOK ==
    /\ nature \in Natures /\ refusal \in Refusals
    /\ logRow.resp \in {"none", "null", "failure", "reply"}
    /\ logRow.status \in {"absent", "ok", "error"}
    /\ unkeyed \in 0..Cardinality(Sends)
    /\ asyncLogs \subseteq Sends \X {"failure", "busy"}

\* Nothing acknowledged as queued is lost: it is in the queue, or on file for
\* the workspace that polls, unless writing it failed.  The exception is a
\* send of the platform itself that keeps no log.
AckMeansKept ==
    \A s \in Sends :
       send[s].answer = "queued" =>
          \/ send[s].queued \/ logRow # NoRow \/ send[s].unsaved
          \/ send[s].by = "system" /\ ~send[s].logs

\* A turn reaches the agent only after its message is on file, unless the
\* insert failed or the platform itself sent it.
TurnIsOnFile ==
    \A s \in Sends :
       (send[s].pc \in {"turn", "answered"} /\ send[s].by # "system") =>
          logRow # NoRow \/ send[s].unsaved

\* A refused or deferred send leaves no trace of its own.
RefusedLeavesNothing ==
    \A s \in Sends : send[s].answer = "denied" =>
       ~send[s].queued /\ send[s].told = {} /\ send[s].got = "nothing"

\* A canvas told "queued" after its budget hears the reply or an error, or the
\* message is in the queue, once the send and its log have ended; not when the
\* agent answered with an empty or a broken body, or a write failed.
CappedIsTold ==
    \A s \in Sends :
       (send[s].capped /\ SendEnded(s) /\ ~\E l \in asyncLogs : l[1] = s) =>
          \/ send[s].told \intersect {"reply", "error"} # {}
          \/ send[s].queued \/ send[s].unsaved
          \/ send[s].got \in {"empty", "cut"}

\* A message that has an answer on file as delivered is never relabelled an
\* error by a send of it that fails later.
CompletedStays ==
    [][(logRow.resp # "none" /\ logRow.status = "ok") => logRow'.status = "ok"]_dispatchVars

\* The proxy keeps messages: what it acknowledges is queued or on file, a turn
\* is on file before it starts, a refusal leaves no trace, a capped canvas is
\* told what came of its turn, and a completed message stays completed.
MessagesAreKept ==
    /\ [](DispatchTypeOK /\ AckMeansKept /\ TurnIsOnFile /\ RefusedLeavesNothing
          /\ CappedIsTold)
    /\ CompletedStays

\* Refuted: the reply on file may be replaced by the null or the error body a
\* later send of the same message is answered with.
ReplyIsKept == [][logRow.resp = "reply" => logRow'.resp = "reply"]_dispatchVars

\* Refuted: a busy agent's queued message gets a second row.
OneRowPerMessage == unkeyed = 0

=============================================================================
