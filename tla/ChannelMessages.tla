--------------------------- MODULE ChannelMessages ---------------------------
(***************************************************************************)
(* Messages between a chat platform and the agents of the workspaces that  *)
(* have a channel to it (channels/manager.go, the adapters of              *)
(* channels/*.go and handlers/channels.go): a telegram poller fetches      *)
(* updates and hands them on one by one, a webhook accepts an event and    *)
(* hands it on behind the response, and both run HandleInbound, which asks *)
(* the agent and posts its answer.  Send, Test and a broadcast post        *)
(* without a question.  Which pollers run after overlapping reloads is     *)
(* ChannelPollers' subject: here one poller at a time has a context that   *)
(* is not cancelled.                                                       *)
(***************************************************************************)
EXTENDS Naturals, FiniteSets, SequencesExt

CONSTANTS
    ChatEvents,     \* what people and bots do in the chats
    ChatChannels,   \* the workspace_channels rows
    PollLoops,      \* poll goroutines of the row that is polled
    HookCalls,      \* webhook requests
    ChatSends,      \* posts that answer no question
    Nil,            \* no event, no row
    ChannelBudget,  \* channel_budget
    MaxPosts,       \* bound: chunks an answer is split into
    MaxTextLen,     \* bound: length of a text that is split
    ChunkLen,       \* the platform's limit for one message
    MaxChatFaults   \* bound: failures, restarts and changes of a row

ASSUME ChatAssumption ==
    /\ ChannelBudget \in Nat /\ MaxPosts \in Nat /\ MaxTextLen \in Nat /\ MaxChatFaults \in Nat
    /\ ChunkLen \in Nat \ {0}
    /\ PollLoops \intersect HookCalls = {} /\ Nil \notin ChatEvents \union ChatChannels
    /\ IsFiniteSet(PollLoops \union HookCalls \union ChatSends)

VARIABLES
    platform,    \* the chat platform: "telegram", "slack", "discord" or "lark"
    polled,      \* the telegram row with no webhook_secret, or Nil
    row,         \* workspace_channels
    settled,     \* the manager has reloaded since the rows last changed
    event,       \* each event: its kind, its chat and the agent it names
    updates,     \* the events, in the order the platform keeps them
    confirmed,   \* telegram offers the updates after this one
    loop,        \* the poll goroutines; the context of one that is live is not cancelled
    lapsed,      \* the manager's map names a poller that ended by itself
    call,        \* HandleInbound on behalf of a poll goroutine or a webhook
    post,        \* Send, Test and broadcasts
    count,       \* message_count of each row
    free,        \* counted messages that no budget check admitted
    racers,      \* sends admitted while another counted message was under way
    asked,       \* how often an agent was given the event
    posted,      \* how often an answer to the event reached the chat
    tried,       \* events that met an agent, a filter or a failure
    accepted,    \* events a webhook answered with 200 accepted
    again,       \* events the platform offers a second time
    chunks,      \* a text and what it was split into
    chatFaults   \* failures, restarts and changes of a row so far

chatVars == <<platform, polled, row, settled, event, updates, confirmed, loop, lapsed, call, post,
              count, free, racers, asked, posted, tried, accepted, again, chunks, chatFaults>>

Platforms == {"telegram", "slack", "discord", "lark"}
Chats == {"here", "there"}
KindsOn == IF polled # Nil THEN {"text", "button", "command"}
           ELSE CASE platform = "telegram" -> {"text", "empty", "button"}
                  [] platform = "slack" -> {"text", "command", "bot", "garbled"}
                  [] platform = "discord" -> {"button", "other"}
                  [] OTHER -> {"text", "empty"}
CallIdle == [pc |-> "idle", ev |-> Nil, ch |-> Nil, late |-> FALSE]
LoopOff == [on |-> FALSE, live |-> FALSE, chats |-> {}, offset |-> 0, batch |-> <<>>]
NotSaid == [text |-> <<>>, by |-> "nobody", parts |-> <<>>]
Larger(m, n) == IF m > n THEN m ELSE n
Mishap(f) == f \in 0..1 /\ chatFaults + f <= MaxChatFaults /\ chatFaults' = chatFaults + f

ChatInit ==
    /\ platform \in Platforms
    /\ polled \in (IF platform = "telegram" THEN ChatChannels ELSE {}) \union {Nil}
    /\ row \in [ChatChannels -> [on : {TRUE}, there : {TRUE}, open : BOOLEAN,
                                 chats : {{}, {"here"}, Chats}]]
    /\ settled = FALSE
    /\ event = [e \in ChatEvents |-> [kind |-> "none", chat |-> "here", slug |-> Nil]]
    /\ updates = <<>> /\ confirmed = 0
    /\ loop = [p \in PollLoops |-> LoopOff] /\ lapsed = FALSE
    /\ call = [k \in PollLoops \union HookCalls |-> CallIdle]
    /\ post = [s \in ChatSends |-> [pc |-> "idle", ch |-> Nil]]
    /\ count = [c \in ChatChannels |-> 0] /\ free = count /\ racers = count
    /\ asked = [e \in ChatEvents |-> 0]
    /\ posted = [e \in ChatEvents |-> 0]
    /\ tried = {} /\ accepted = {} /\ again = {}
    /\ chunks = NotSaid
    /\ chatFaults = 0

-----------------------------------------------------------------------------
(***************************************************************************)
(* The chat and the rows.                                                  *)
(***************************************************************************)
ChatRest == <<platform, polled, loop, lapsed, call, post, count, free, racers, asked, posted, tried,
              accepted, again, chunks>>

\* Somebody writes, presses a button or adds the bot to a chat.
ChatHappens(e) ==
    /\ event[e].kind = "none"
    /\ \E k \in KindsOn, c \in Chats, g \in ChatChannels \union {Nil} :
          event' = [event EXCEPT ![e] = [kind |-> k, chat |-> c, slug |-> g]]
    /\ updates' = Append(updates, e)
    /\ UNCHANGED <<row, settled, confirmed, chatFaults>> /\ UNCHANGED ChatRest

\* The statement of Update, before its Reload: the row is enabled or disabled,
\* its chats or allowed_users change.  One statement, and no row of another id.
UpdateChannel(c) ==
    /\ row[c].there
    /\ \E on, open \in BOOLEAN, ids \in {row[c].chats, {"here"}} :
          /\ row' = [row EXCEPT ![c].on = on, ![c].open = open, ![c].chats = ids]
          /\ row' # row
    /\ settled' = FALSE /\ Mishap(1)
    /\ UNCHANGED <<event, updates, confirmed>> /\ UNCHANGED ChatRest

\* The statement of Delete, before its Reload.
DeleteChannel(c) ==
    /\ row[c].there
    /\ row' = [row EXCEPT ![c].there = FALSE, ![c].on = FALSE]
    /\ settled' = FALSE /\ Mishap(1)
    /\ UNCHANGED <<event, updates, confirmed>> /\ UNCHANGED ChatRest

-----------------------------------------------------------------------------
(***************************************************************************)
(* The adapters: what a payload becomes, and what a post can come to.      *)
(***************************************************************************)
\* Of a webhook's body an adapter makes a message, nothing ("ignored") or an
\* error ("refused").  Telegram has no channel for buttons here, and lets a
\* message without text pass.
TelegramParse(k) ==
    CASE k \in {"text", "command", "empty", "bot"} -> "message"
      [] k = "garbled" -> "refused" [] OTHER -> "ignored"

\* A slash command passes even without words; what a bot wrote does not, so
\* that the agent's own posts do not come back to it.
SlackParse(k) ==
    CASE k \in {"text", "command"} -> "message"
      [] k = "garbled" -> "refused" [] OTHER -> "ignored"

\* Slash commands and components; a bare text is no interaction.
DiscordParse(k) ==
    CASE k \in {"command", "button"} -> "message"
      [] k = "garbled" -> "refused" [] OTHER -> "ignored"

\* Text events only; lark says no more of who wrote them than an id.
LarkParse(k) ==
    CASE k \in {"text", "command", "bot"} -> "message"
      [] k = "garbled" -> "refused" [] OTHER -> "ignored"

ParseWebhook(k) ==
    CASE platform = "telegram" -> TelegramParse(k) [] platform = "slack" -> SlackParse(k)
      [] platform = "discord" -> DiscordParse(k) [] OTHER -> LarkParse(k)

\* What SendMessage of n chunks returns, and how many arrived.  Telegram falls
\* back to plain text, and only the first chunk's second failure, a block, a
\* revoked token or a repeated rate limit is an error: a later chunk is left out.
TelegramSend(n) ==
    {[err |-> FALSE, arrived |-> m] : m \in 1..n} \union {[err |-> TRUE, arrived |-> m] : m \in 0..n - 1}

\* The first chunk that fails ends the call; those before it are in the chat.
SlackSend(n) ==
    {[err |-> FALSE, arrived |-> n]} \union {[err |-> TRUE, arrived |-> m] : m \in 0..n - 1}

\* As with slack, one request to the webhook per chunk.
DiscordSend(n) ==
    {[err |-> FALSE, arrived |-> n]} \union {[err |-> TRUE, arrived |-> m] : m \in 0..n - 1}

\* One request, whatever the length; a body that cannot be read is an error
\* although the message is in the chat.
LarkSend == {[err |-> FALSE, arrived |-> 1], [err |-> TRUE, arrived |-> 0], [err |-> TRUE, arrived |-> 1]}

SendMessage(n) ==
    CASE platform = "telegram" -> TelegramSend(n) [] platform = "slack" -> SlackSend(n)
      [] platform = "discord" -> DiscordSend(n) [] OTHER -> LarkSend

-----------------------------------------------------------------------------
(***************************************************************************)
(* A poll goroutine.                                                       *)
(***************************************************************************)
\* The updates that telegram still offers and some poller has taken up.
TakenUp(ps) ==
    {updates[i] : i \in {j \in confirmed + 1..Len(updates) : \E p \in ps : j <= loop[p].offset}}

\* The manager's map has a poller for the row, be it one that ended by itself.
InMap == lapsed \/ \E p \in PollLoops : loop[p].live
PollRest == <<platform, polled, row, event, updates, confirmed, call, post, count, free,
              racers, asked, posted, tried, accepted, chunks>>

CancelPoller ==
    /\ loop' = [p \in PollLoops |-> [loop[p] EXCEPT !.live = FALSE]]
    /\ lapsed' = FALSE
    /\ again' = again \union TakenUp({p \in PollLoops : loop[p].live})

\* A new poller has the configuration of now and no memory of the offset.
StartPoller ==
    /\ \E p \in PollLoops :
          /\ ~loop[p].on
          /\ loop' = [loop EXCEPT ![p].on = TRUE, ![p].live = TRUE, ![p].chats = row[polled].chats]
    /\ UNCHANGED <<lapsed, again>>

\* Reload cancels the poller of a row that is gone or disabled, starts one for
\* an enabled row that has none, and skips one that is in the map: that keeps
\* its offset and the chats it was started with.
ReloadChannels ==
    /\ settled' = TRUE
    /\ LET wanted == polled # Nil /\ row[polled].on
       IN  \/ ~wanted /\ CancelPoller
           \/ wanted /\ ~InMap /\ StartPoller
           \/ wanted /\ InMap /\ UNCHANGED <<loop, lapsed, again>>
    /\ UNCHANGED <<chatFaults, PollRest>>

\* PausePollersForToken: discovery with the row's token takes its poller out of
\* the map, and reloads when it is done.
PausePoller ==
    /\ polled # Nil /\ row[polled].on /\ InMap
    /\ CancelPoller /\ Mishap(1)
    /\ UNCHANGED <<settled, PollRest>>

\* Mutant of NextOffset: the id after the one that comes next.
OffsetIsAhead(p) == loop[p].offset + 1
NextOffset(p) == loop[p].offset

\* GetUpdates confirms what lies before the offset and returns what lies
\* behind; the loop asks for more only when the batch is done, and not once
\* its context is cancelled.
GetUpdates(p) ==
    /\ loop[p].live /\ loop[p].batch = <<>> /\ call[p].pc = "idle"
    /\ confirmed' = Larger(confirmed, NextOffset(p))
    /\ confirmed' < Len(updates)
    /\ loop' = [loop EXCEPT ![p].offset = confirmed',
                            ![p].batch = SubSeq(updates, confirmed' + 1, Len(updates))]
    /\ UNCHANGED <<platform, polled, row, settled, event, updates, lapsed, call, post, count, free,
                   racers, asked, posted, tried, accepted, again, chunks, chatFaults>>

\* A revoked token ends the goroutine, but not its entry in the map; any other
\* failure is waited out.
PollEnds(p) ==
    /\ loop[p].on /\ loop[p].batch = <<>> /\ call[p].pc = "idle"
    /\ Mishap(IF loop[p].live THEN 1 ELSE 0)
    /\ loop' = [loop EXCEPT ![p] = LoopOff]
    /\ lapsed' = (lapsed \/ loop[p].live)
    /\ again' = again \union TakenUp({p})
    /\ UNCHANGED <<platform, polled, row, settled, event, updates, confirmed, call, post, count,
                   free, racers, asked, posted, tried, accepted, chunks>>

\* isChatAllowed: no configured chat is every chat.
ChatAllowed(ids, chat) == ids = {} \/ chat \in ids

\* The next update of the batch: the offset moves on first.  A button is
\* acknowledged and marked decided in the chat, and handed on whatever chat it
\* comes from; a command is answered by the adapter itself.
TakeUpdate(p) ==
    /\ loop[p].batch # <<>> /\ call[p].pc = "idle"
    /\ LET e == Head(loop[p].batch)
           handedOn == \/ event[e].kind = "button"
                       \/ /\ event[e].kind \in {"text", "empty", "bot"}
                          /\ ChatAllowed(loop[p].chats, event[e].chat)
       IN  /\ loop' = [loop EXCEPT ![p].offset = @ + 1, ![p].batch = Tail(@)]
           /\ \/ handedOn /\ call' = [call EXCEPT ![p].pc = "load", ![p].ev = e] /\ UNCHANGED tried
              \/ ~handedOn /\ tried' = tried \union {e} /\ UNCHANGED call
    /\ UNCHANGED <<platform, polled, row, settled, event, updates, confirmed, lapsed, post, count,
                   free, racers, asked, posted, accepted, again, chunks, chatFaults>>

\* onInboundMessage reads the row by its id, enabled or not.  A cancelled
\* context fails the read: nothing was tried.
LoadChannel(p) ==
    /\ call[p].pc = "load"
    /\ LET e == call[p].ev
       IN  \/ /\ loop[p].live /\ row[polled].there /\ row[polled].open
              /\ call' = [call EXCEPT ![p].pc = "ask", ![p].ch = polled,
                                      ![p].late = settled /\ ~row[polled].on]
              /\ Mishap(0) /\ UNCHANGED tried
           \/ /\ loop[p].live => ~row[polled].there \/ ~row[polled].open
              /\ call' = [call EXCEPT ![p] = CallIdle]
              /\ tried' = IF loop[p].live THEN tried \union {e} ELSE tried
              /\ Mishap(0)
           \/ /\ loop[p].live
              /\ call' = [call EXCEPT ![p] = CallIdle]
              /\ tried' = tried \union {e}
              /\ Mishap(1)
    /\ UNCHANGED <<platform, polled, row, settled, event, updates, confirmed, loop, lapsed, post,
                   count, free, racers, asked, posted, accepted, again, chunks>>

-----------------------------------------------------------------------------
(***************************************************************************)
(* Webhooks.                                                               *)
(***************************************************************************)
\* matchesChatID: no configured chat is none.
MatchesChat(c, chat) == chat \in row[c].chats

\* The enabled rows whose secret the request carries, of which those of the
\* chat are candidates; a name in brackets picks one, otherwise the first that
\* the SELECT without an order returns.
Candidates(signed, chat) == {c \in signed : row[c].on /\ MatchesChat(c, chat)}
Chosen(signed, e) ==
    {c \in Candidates(signed, event[e].chat) : event[e].slug \in {Nil, c}}

\* One request.  It is answered before the agent is asked, and by the copy of
\* the row that was read; allowed_users are looked at behind the answer.
Webhook(h) ==
    /\ polled = Nil /\ call[h].pc = "idle"
    /\ \E e \in ChatEvents :
          /\ event[e].kind # "none"
          /\ again' = IF e \in tried \union accepted THEN again \union {e} ELSE again
          /\ \/ Mishap(1) /\ call' = [call EXCEPT ![h].pc = "done"] /\ UNCHANGED <<tried, accepted>>
             \/ /\ Mishap(0)
                /\ \E signed \in SUBSET ChatChannels :
                      \/ /\ signed # {} /\ ParseWebhook(event[e].kind) = "message"
                         /\ \E c \in Chosen(signed, e) :
                               /\ accepted' = accepted \union {e}
                               /\ \/ /\ row[c].open /\ UNCHANGED tried
                                     /\ call' = [call EXCEPT ![h].pc = "ask", ![h].ev = e, ![h].ch = c]
                                  \/ /\ ~row[c].open /\ tried' = tried \union {e}
                                     /\ call' = [call EXCEPT ![h].pc = "done"]
                      \/ /\ signed = {} \/ ParseWebhook(event[e].kind) # "message" \/ Chosen(signed, e) = {}
                         /\ tried' = IF signed = {} THEN tried ELSE tried \union {e}
                         /\ call' = [call EXCEPT ![h].pc = "done"]
                         /\ UNCHANGED accepted
    /\ UNCHANGED <<platform, polled, row, settled, event, updates, confirmed, loop, lapsed, post,
                   count, free, racers, asked, posted, chunks>>

-----------------------------------------------------------------------------
(***************************************************************************)
(* HandleInbound, behind its filters.                                      *)
(***************************************************************************)
Calls == PollLoops \union HookCalls
Live(k) == IF k \in PollLoops THEN loop[k].live ELSE TRUE
Ended(k) == IF k \in HookCalls THEN [CallIdle EXCEPT !.pc = "done"] ELSE CallIdle

\* The agent is asked and answers, or the turn fails, with or without the
\* agent knowing of it; a cancelled context fails it at no further fault.
AskAgent(k) ==
    /\ call[k].pc = "ask"
    /\ LET e == call[k].ev
       IN  \/ /\ Live(k) /\ Mishap(0)
              /\ asked' = [asked EXCEPT ![e] = @ + 1]
              /\ call' = [call EXCEPT ![k].pc = "answer"]
              /\ tried' = tried \union {e}
           \/ /\ Mishap(IF Live(k) THEN 1 ELSE 0)
              /\ asked' = [asked EXCEPT ![e] = @ + 1]
              /\ call' = [call EXCEPT ![k] = Ended(k)]
              /\ tried' = tried \union {e}
           \/ /\ Mishap(IF Live(k) THEN 1 ELSE 0)
              /\ call' = [call EXCEPT ![k] = Ended(k)]
              /\ tried' = IF Live(k) THEN tried \union {e} ELSE tried
              /\ UNCHANGED asked
    /\ UNCHANGED <<platform, polled, row, settled, event, updates, confirmed, loop, lapsed, post,
                   count, free, racers, posted, accepted, again, chunks>>

\* The answer goes to the chat of the question, in as many chunks as it needs,
\* and only then is the exchange kept and counted; an answer without text is
\* not sent.  A cancelled context stops no telegram post, but the counting.
PostAnswer(k) ==
    /\ call[k].pc = "answer"
    /\ LET e == call[k].ev
           c == call[k].ch
       IN  \E n \in 0..MaxPosts :
           \E r \in IF n = 0 THEN {[err |-> FALSE, arrived |-> 0]} ELSE SendMessage(n) :
              /\ Mishap(IF r.err \/ r.arrived < n THEN 1 ELSE 0)
              /\ posted' = IF r.arrived > 0 THEN [posted EXCEPT ![e] = @ + 1] ELSE posted
              /\ LET counted == ~r.err /\ Live(k) /\ row[c].there
                 IN  /\ count' = IF counted THEN [count EXCEPT ![c] = @ + 1] ELSE count
                     /\ free' = IF counted THEN [free EXCEPT ![c] = @ + 1] ELSE free
    /\ call' = [call EXCEPT ![k] = Ended(k)]
    /\ UNCHANGED <<platform, polled, row, settled, event, updates, confirmed, loop, lapsed, post,
                   racers, asked, tried, accepted, again, chunks>>

-----------------------------------------------------------------------------
(***************************************************************************)
(* Posts without a question.                                               *)
(***************************************************************************)
Posting(c) == {s \in ChatSends : post[s].pc = "post" /\ post[s].ch = c}
WithinBudget(c) == count[c] < ChannelBudget
PostRest == <<platform, polled, row, settled, event, updates, confirmed, loop, lapsed, call, asked,
              posted, tried, accepted, again, chunks>>

\* Send reads the count, compares it with the budget, and posts later; a read
\* that fails admits.
SendAdmits(s, c) ==
    /\ post[s].pc = "idle"
    /\ \E failed \in BOOLEAN :
          /\ Mishap(IF failed THEN 1 ELSE 0)
          /\ IF failed \/ WithinBudget(c)
                THEN /\ post' = [post EXCEPT ![s] = [pc |-> "post", ch |-> c]]
                     /\ racers' = IF failed \/ Posting(c) # {} THEN [racers EXCEPT ![c] = @ + 1] ELSE racers
                ELSE /\ post' = [post EXCEPT ![s].pc = "refused"] /\ UNCHANGED racers
    /\ UNCHANGED <<count, free>> /\ UNCHANGED PostRest

\* Test asks for no budget.
TestAdmits(s, c) ==
    /\ post[s].pc = "idle"
    /\ post' = [post EXCEPT ![s] = [pc |-> "post", ch |-> c]]
    /\ free' = [free EXCEPT ![c] = @ + 1]
    /\ UNCHANGED <<count, racers, chatFaults>> /\ UNCHANGED PostRest

\* Nor does a broadcast, which takes the enabled slack rows.
BroadcastAdmits(s, c) ==
    /\ platform = "slack" /\ row[c].on
    /\ TestAdmits(s, c)

\* outboundDestinations: a webhook URL stands for the missing chat.
HasDestination(c) == row[c].chats # {} \/ platform \in {"slack", "discord", "lark"}

\* SendOutbound: a destination that fails is logged, and all of them count as
\* one message.
SendOutbound(s) ==
    /\ post[s].pc = "post"
    /\ LET c == post[s].ch
           sent == row[c].there /\ HasDestination(c)
       IN  /\ post' = [post EXCEPT ![s].pc = IF sent THEN "sent" ELSE "error"]
           /\ count' = IF sent THEN [count EXCEPT ![c] = @ + 1] ELSE count
    /\ UNCHANGED <<free, racers, chatFaults>> /\ UNCHANGED PostRest

-----------------------------------------------------------------------------
(***************************************************************************)
(* Long texts.  A text is a sequence of bytes: "x" stands for a character  *)
(* of one byte, "h" and "t" for one of two.                                *)
(***************************************************************************)
Space == {" ", "n"}
WellFormed(t) == \A i \in 1..Len(t) : /\ t[i] = "h" => i < Len(t) /\ t[i + 1] = "t"
                                     /\ t[i] = "t" => i > 1 /\ t[i - 1] = "h"
ByteStrings == SeqOf({"x", " ", "n", "h", "t"}, MaxTextLen)
Texts == {t \in ByteStrings : WellFormed(t)}
Words(t) ==
    LET kept[i \in 0..Len(t)] ==
            IF i = 0 THEN <<>>
            ELSE IF t[i] \in Space THEN kept[i - 1] ELSE Append(kept[i - 1], t[i])
    IN  kept[Len(t)]
Drop(t, n) == SubSeq(t, n + 1, Len(t))
TrimSpace(t) ==
    LET solid == {i \in 1..Len(t) : t[i] \notin Space}
    IN  IF solid = {} THEN <<>> ELSE SubSeq(t, Min(solid), Max(solid))

\* strings.LastIndex: the bytes before the last b within the first ChunkLen,
\* or -1.
LastIndex(t, b) ==
    LET at == {i \in 0..ChunkLen - Len(b) : SubSeq(t, i + 1, i + Len(b)) = b}
    IN  IF at = {} THEN -1 ELSE Max(at)

\* Telegram's cut: a paragraph, a line, a word, or the limit.
TelegramCut(t) ==
    LET para == LastIndex(t, <<"n", "n">>)
        line == LastIndex(t, <<"n">>)
        word == LastIndex(t, <<" ">>)
        cut == IF para # -1 THEN para ELSE IF line # -1 THEN line ELSE word
    IN  IF cut \in {-1, 0} THEN ChunkLen ELSE cut

TelegramRest[t \in ByteStrings] ==
    IF Len(t) > ChunkLen
      THEN <<TrimSpace(SubSeq(t, 1, TelegramCut(t)))>> \o TelegramRest[TrimSpace(Drop(t, TelegramCut(t)))]
      ELSE IF t = <<>> THEN <<>> ELSE <<t>>
TelegramSplit(t) == IF Len(t) <= ChunkLen THEN <<t>> ELSE TelegramRest[t]

\* Slack's: behind the last newline, unless that is the first byte.
SlackCut(t) ==
    LET line == LastIndex(t, <<"n">>)
    IN  IF Len(t) > ChunkLen /\ line > 0 THEN line + 1 ELSE Min({ChunkLen, Len(t)})
SlackRest[t \in ByteStrings] ==
    IF t = <<>> THEN <<>> ELSE <<SubSeq(t, 1, SlackCut(t))>> \o SlackRest[Drop(t, SlackCut(t))]
SlackSplit(t) == IF Len(t) <= ChunkLen THEN <<t>> ELSE SlackRest[t]

\* Discord's: behind a newline or a space in the second half.
DiscordCut(t) ==
    LET at == {i \in (ChunkLen \div 2) + 2..ChunkLen : t[i] \in Space}
    IN  IF at = {} THEN ChunkLen ELSE Max(at)
DiscordRest[t \in ByteStrings] ==
    IF Len(t) <= ChunkLen THEN <<t>> ELSE <<SubSeq(t, 1, DiscordCut(t))>> \o DiscordRest[Drop(t, DiscordCut(t))]
DiscordSplit(t) == DiscordRest[t]

\* An adapter is given a long text.
SplitText(t) ==
    /\ chunks' = [text |-> t, by |-> platform,
                  parts |-> CASE platform = "telegram" -> TelegramSplit(t)
                              [] platform = "slack" -> SlackSplit(t)
                              [] platform = "discord" -> DiscordSplit(t)
                              [] OTHER -> <<t>>]
    /\ UNCHANGED <<platform, polled, row, settled, event, updates, confirmed, loop, lapsed, call,
                   post, count, free, racers, asked, posted, tried, accepted, again, chatFaults>>

-----------------------------------------------------------------------------
\* The server restarts: goroutines and offsets are gone, what a webhook had
\* accepted with them; Start reloads.
ServerRestarts ==
    /\ Mishap(1)
    /\ again' = again \union TakenUp({p \in PollLoops : loop[p].on})
    /\ loop' = [p \in PollLoops |-> LoopOff] /\ lapsed' = FALSE
    /\ tried' = tried \union {call[h].ev : h \in {g \in HookCalls : call[g].pc = "ask"}}
    /\ call' = [k \in Calls |-> IF call[k].pc = "idle" THEN CallIdle ELSE Ended(k)]
    /\ post' = [s \in ChatSends |-> IF post[s].pc = "post" THEN [post[s] EXCEPT !.pc = "error"] ELSE post[s]]
    /\ settled' = FALSE
    /\ UNCHANGED <<platform, polled, row, event, updates, confirmed, count, free, racers, asked,
                   posted, accepted, chunks>>

PollNext ==
    \/ \E e \in ChatEvents : ChatHappens(e)
    \/ \E c \in ChatChannels : UpdateChannel(c) \/ DeleteChannel(c)
    \/ ReloadChannels \/ PausePoller \/ ServerRestarts
    \/ \E p \in PollLoops : GetUpdates(p) \/ PollEnds(p) \/ TakeUpdate(p) \/ LoadChannel(p)
    \/ \E k \in PollLoops : AskAgent(k) \/ PostAnswer(k)

HookNext ==
    \/ \E e \in ChatEvents : ChatHappens(e)
    \/ \E c \in ChatChannels : UpdateChannel(c) \/ DeleteChannel(c)
    \/ ServerRestarts
    \/ \E h \in HookCalls : Webhook(h)
    \/ \E k \in HookCalls : AskAgent(k) \/ PostAnswer(k)

PostNext ==
    \/ \E c \in ChatChannels : UpdateChannel(c) \/ DeleteChannel(c)
    \/ ServerRestarts
    \/ \E s \in ChatSends, c \in ChatChannels :
          SendAdmits(s, c) \/ TestAdmits(s, c) \/ BroadcastAdmits(s, c)
    \/ \E s \in ChatSends : SendOutbound(s)

SplitNext == chunks = NotSaid /\ \E t \in Texts : SplitText(t)

ChatNext == PollNext \/ HookNext \/ PostNext \/ SplitNext

ChatSpec == ChatInit /\ [][ChatNext]_chatVars

-----------------------------------------------------------------------------
(***************************************************************************)
(* Properties.                                                             *)
(***************************************************************************)
ChatTypeOK ==
    /\ confirmed \in 0..Len(updates) /\ count \in [ChatChannels -> Nat]
    /\ \A k \in Calls : call[k].pc \in {"idle", "load", "ask", "answer", "done"}
    /\ tried \union accepted \union again \subseteq ChatEvents

\* What telegram no longer offers met the agent, a filter or a failure while
\* its poller's context was alive: a reload or a restart in the middle of a
\* batch drops no message (StartPolling).
ConfirmedIsTried == \A i \in 1..confirmed : updates[i] \in tried

\* An event that a webhook answered with 200 is on its way to the agent, or
\* met it, a filter, a failure or a restart (Webhook).
AcceptedIsTried ==
    \A e \in accepted : e \in tried \/ \E h \in HookCalls : call[h].pc = "ask" /\ call[h].ev = e

\* An agent is given an event twice only if the platform offered it twice:
\* a poller was cancelled or ended between taking it up and confirming it, or
\* the platform repeated its request.  A reload that finds the poller of an
\* enabled row is no excuse.
AskedOnce == \A e \in ChatEvents : asked[e] > 1 => e \in again

\* Nothing is answered that was not asked, and no poller that a reload has put
\* away begins to read for a row that is off.
QuietOnceOff == /\ \A e \in ChatEvents : posted[e] <= asked[e]
                /\ \A k \in Calls : ~call[k].late

\* Beyond its budget a row counts only messages that ask for none, and sends
\* whose check overlapped with another send or could not read (Send).
BudgetOnlyByRace ==
    \A c \in ChatChannels : count[c] <= ChannelBudget + free[c] + racers[c]

\* Chunks fit, and together they are the text: to the byte for slack and
\* discord, but for white space at the cuts for telegram.
SplitIsSound ==
    /\ chunks.by # "lark" => \A i \in 1..Len(chunks.parts) : Len(chunks.parts[i]) <= ChunkLen
    /\ LET whole == FlattenSeq(chunks.parts)
       IN  /\ Words(whole) = Words(chunks.text)
           /\ chunks.by # "telegram" => whole = chunks.text

\* The conjunction of the above.
ChatsAreServed ==
    /\ ChatTypeOK /\ ConfirmedIsTried /\ AcceptedIsTried /\ AskedOnce
    /\ QuietOnceOff /\ BudgetOnlyByRace /\ SplitIsSound

-----------------------------------------------------------------------------
(***************************************************************************)
(* What one might expect and does not hold; no standing run checks these.  *)
(***************************************************************************)
\* The comment above the check in Send promises the budget.
BudgetIsKept == \A c \in ChatChannels : count[c] <= ChannelBudget
\* The comment on Manager: after a reload the poller of an enabled row reads its
\* present configuration.
ReloadPicksUp ==
    settled => \A p \in PollLoops : loop[p].live => loop[p].chats = row[polled].chats
\* An answer reaches the chat once.
AnsweredOnce == \A e \in ChatEvents : posted[e] <= 1
\* Chunks are not empty and cut no character in two.
ChunksAreWhole ==
    \A i \in 1..Len(chunks.parts) : chunks.parts[i] # <<>> /\ WellFormed(chunks.parts[i])
=============================================================================
