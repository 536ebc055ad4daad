----------------------------- MODULE InboxFeed -----------------------------
(***************************************************************************)
(* The activity log of one workspace as its readers meet it: writers whose *)
(* rows become visible in another order than they are stamped and          *)
(* numbered, the poller that follows the feed with a cursor and            *)
(* acknowledges what it handled, the retention that deletes old rows, the  *)
(* mail summary that counts the unread ones, and the canvas that pages     *)
(* back through the chat history.                                          *)
(*                                                                         *)
(* Source: workspace-server, internal/handlers/activity.go,                *)
(* agent_message_writer.go, mail_summary.go and chat_history.go,           *)
(* internal/messagestore/postgres_store.go, internal/db/retention.go.      *)
(***************************************************************************)
EXTENDS Naturals, FiniteSets, SequencesExt

CONSTANTS
    MaxEntries,  \* bound: rows of the log, named in the order they are begun
    MaxStamp,    \* bound: distinct values of created_at
    PageLimit    \* the limit of a read of the feed and of a history page

ASSUME FeedAssumption == MaxEntries \in Nat /\ MaxStamp \in Nat \ {0} /\ PageLimit \in Nat \ {0}

VARIABLES
    entry,       \* each row: its phase, stamp, number, source and age
    nextSeq,     \* the identity sequence behind activity_logs.seq
    stampClock,  \* now(), as the rows are stamped
    cursor,      \* the row the poller names as since_id; 0 is none
    seen,        \* the rows the poller has handled
    acked,       \* inbox_delivery_state: the acknowledged number; 0 is no row
    lateRows,    \* rows that became visible behind a row already handled
    passedOver,  \* rows passed over when the poller began again
    pager        \* the canvas's walk back through the history

Entries == 1..MaxEntries

feedVars == <<entry, nextSeq, stampClock, cursor, seen, acked, lateRows, passedOver, pager>>

Unwritten == [phase |-> "none", stamp |-> 0, seq |-> 0, chat |-> FALSE, age |-> "new"]
NoWalk == [at |-> "closed", before |-> 0, was |-> {}, shown |-> {}, edges |-> {}, last |-> <<>>]

FeedInit ==
    /\ entry = [e \in Entries |-> Unwritten]
    /\ nextSeq = 1 /\ stampClock = 1
    /\ cursor = 0 /\ seen = {} /\ acked = 0 /\ lateRows = {} /\ passedOver = {}
    /\ pager = NoWalk

Visible == {e \in Entries : entry[e].phase = "visible"}

\* The order of the feed: created_at, then seq.
Before(d, e) ==
    \/ entry[d].stamp < entry[e].stamp
    \/ entry[d].stamp = entry[e].stamp /\ entry[d].seq < entry[e].seq

---------------------------------------------------------------------------
(* Writers.  A row is stamped with the start of its transaction, numbered  *)
(* when it is inserted and visible when that commits.                      *)

\* LogActivity for a message of the canvas (source_id IS NULL) or of an agent;
\* a caller that logs within its own transaction began it earlier.
LogActivity(e) ==
    /\ entry[e].phase = "none" /\ \A d \in 1..(e - 1) : entry[d].phase # "none"
    /\ \E chat \in BOOLEAN :
          entry' = [entry EXCEPT ![e].phase = "begun", ![e].stamp = stampClock,
                                 ![e].chat = chat]
    /\ UNCHANGED <<nextSeq, stampClock, cursor, seen, acked, lateRows, passedOver, pager>>

\* The insert draws the number.  A failed one is only logged: a message that
\* an agent sent its user was broadcast before and is on no file.
logActivityExec(e) ==
    /\ entry[e].phase = "begun"
    /\ \/ /\ entry' = [entry EXCEPT ![e].phase = "inserted", ![e].seq = nextSeq]
          /\ nextSeq' = nextSeq + 1
       \/ /\ entry' = [entry EXCEPT ![e] = [Unwritten EXCEPT !.phase = "failed"]]
          /\ UNCHANGED nextSeq
    /\ UNCHANGED <<stampClock, cursor, seen, acked, lateRows, passedOver, pager>>

Commit(e) ==
    /\ entry[e].phase = "inserted"
    /\ entry' = [entry EXCEPT ![e].phase = "visible"]
    /\ lateRows' = IF \E s \in seen : Before(e, s) THEN lateRows \union {e} ELSE lateRows
    /\ UNCHANGED <<nextSeq, stampClock, cursor, seen, acked, passedOver, pager>>

StampMoves ==
    /\ stampClock < MaxStamp /\ stampClock' = stampClock + 1
    /\ UNCHANGED <<entry, nextSeq, cursor, seen, acked, lateRows, passedOver, pager>>

---------------------------------------------------------------------------
(* The poller.                                                             *)

\* Rows after the cursor row: its stamp and number are compared, in that order.
AfterCursor == {e \in Visible : Before(cursor, e)}

\* GET /activity?since_id=: the first rows after the cursor, oldest first; the
\* poller handles them and names the last one next time.
ListSince ==
    /\ cursor \in Visible
    /\ \E page \in SUBSET AfterCursor :
          /\ page # {} /\ Cardinality(page) <= PageLimit
          /\ Cardinality(page) < PageLimit => page = AfterCursor
          /\ \A d \in AfterCursor \ page, e \in page : Before(e, d)
          /\ seen' = seen \union page
          /\ cursor' = CHOOSE e \in page : \A d \in page \ {e} : Before(d, e)
    /\ UNCHANGED <<entry, nextSeq, stampClock, acked, lateRows, passedOver, pager>>

\* The cursor row was deleted: 410, and the poller begins again without one.
ListGone ==
    /\ cursor # 0 /\ cursor \notin Visible
    /\ cursor' = 0
    /\ UNCHANGED <<entry, nextSeq, stampClock, seen, acked, lateRows, passedOver, pager>>

\* Without a cursor the newest rows are read; the older ones are passed over.
ListRecent ==
    /\ cursor = 0 /\ Visible # {}
    /\ \E page \in SUBSET Visible :
          /\ Cardinality(page) <= PageLimit
          /\ Cardinality(page) < PageLimit => page = Visible
          /\ \A d \in Visible \ page, e \in page : Before(d, e)
          /\ seen' = seen \union page
          /\ passedOver' = passedOver \union (Visible \ (page \union seen))
          /\ cursor' = CHOOSE e \in page : \A d \in page \ {e} : Before(d, e)
    /\ UNCHANGED <<entry, nextSeq, stampClock, acked, lateRows, pager>>

\* The poller's process ends; the next one has no cursor.
PollerRestarts ==
    /\ cursor # 0 /\ cursor' = 0
    /\ UNCHANGED <<entry, nextSeq, stampClock, seen, acked, lateRows, passedOver, pager>>

\* POST /activity/ack with the number of a row that was handled, an old one
\* included: the stored number only grows.
Ack ==
    \E e \in seen :
       /\ acked' = IF entry[e].seq > acked THEN entry[e].seq ELSE acked
       /\ UNCHANGED <<entry, nextSeq, stampClock, cursor, seen, lateRows, passedOver, pager>>

---------------------------------------------------------------------------
(* Retention, and what is unread.                                          *)

\* A week passes over the visible rows; no insert takes that long.
AgePasses ==
    /\ \A e \in Entries : entry[e].phase \notin {"begun", "inserted"}
    /\ \E e \in Visible : entry[e].age # "hard"
    /\ entry' = [e \in Entries |->
                   IF e \in Visible
                   THEN [entry[e] EXCEPT !.age = IF @ = "new" THEN "soft" ELSE "hard"]
                   ELSE entry[e]]
    /\ UNCHANGED <<nextSeq, stampClock, cursor, seen, acked, lateRows, passedOver, pager>>

\* Rows past the soft age that are acknowledged, and all past the hard one.
PrunableByAge == {e \in Visible : entry[e].age # "new"}
Prunable ==
    {e \in Visible : \/ entry[e].age # "new" /\ entry[e].seq <= acked
                     \/ entry[e].age = "hard"}
PruneActivityLogs ==
    /\ Prunable # {}
    /\ entry' = [e \in Entries |->
                   IF e \in Prunable THEN [entry[e] EXCEPT !.phase = "pruned"] ELSE entry[e]]
    /\ UNCHANGED <<nextSeq, stampClock, cursor, seen, acked, lateRows, passedOver, pager>>

\* The mail summary of a workspace that acknowledges: the rows numbered above.
receivedUnread == {e \in Visible : entry[e].seq > acked}

---------------------------------------------------------------------------
(* The chat history.                                                       *)

\* A row is a human's message and, on the same row, the agent's answer.
activityRowToChatMessages(e) ==
    <<[of |-> e, role |-> "user", ts |-> entry[e].stamp],
      [of |-> e, role |-> "agent", ts |-> entry[e].stamp]>>

\* The messages of a page come newest first; the runs of one timestamp are put
\* in the other order, so that a row's answer stays behind its message.
ChunkStart(msgs, i) == Min({j \in 1..i : \A k \in j..i : msgs[k].ts = msgs[i].ts})
reverseRowChunks(msgs) ==
    LET out[i \in 0..Len(msgs)] ==
            IF i = 0 THEN <<>>
            ELSE SubSeq(msgs, ChunkStart(msgs, i), i) \o out[ChunkStart(msgs, i) - 1]
    IN  out[Len(msgs)]

\* GET /chat-history: the newest chat rows strictly older than before_ts, in
\* no order among those of one timestamp; the end is a page that is not full.
queryActivityRows == {e \in Visible : entry[e].chat /\ entry[e].stamp < pager.before}
HistoryPage ==
    /\ pager.at = "paging"
    /\ \E page \in SUBSET queryActivityRows :
          /\ Cardinality(page) <= PageLimit
          /\ Cardinality(page) < PageLimit => page = queryActivityRows
          /\ \A d \in queryActivityRows \ page, e \in page :
                entry[d].stamp <= entry[e].stamp
          /\ \E rows \in SetToSeqs(page) :
                /\ \A i \in 1..(Len(rows) - 1) : entry[rows[i]].stamp >= entry[rows[i + 1]].stamp
                /\ LET msgs == reverseRowChunks(
                                  FlattenSeq([i \in 1..Len(rows) |->
                                                activityRowToChatMessages(rows[i])]))
                       oldest == IF page = {} THEN pager.before ELSE msgs[1].ts
                   IN pager' = [pager EXCEPT
                        !.at = IF Cardinality(page) < PageLimit THEN "end" ELSE @,
                        !.before = oldest, !.edges = @ \union {oldest},
                        !.shown = @ \union page, !.last = msgs]
    /\ UNCHANGED <<entry, nextSeq, stampClock, cursor, seen, acked, lateRows, passedOver>>

HistoryOpens ==
    /\ pager.at = "closed"
    /\ pager' = [NoWalk EXCEPT !.at = "paging", !.before = MaxStamp + 1,
                   !.was = {e \in Visible : entry[e].chat}]
    /\ UNCHANGED <<entry, nextSeq, stampClock, cursor, seen, acked, lateRows, passedOver>>

FeedNext ==
    \/ \E e \in Entries : LogActivity(e) \/ logActivityExec(e) \/ Commit(e)
    \/ StampMoves \/ ListSince \/ ListGone \/ ListRecent \/ PollerRestarts \/ Ack
    \/ AgePasses \/ PruneActivityLogs \/ HistoryOpens \/ HistoryPage

FeedSpec == FeedInit /\ [][FeedNext]_feedVars

---------------------------------------------------------------------------
(* Properties.                                                             *)

\* One type invariant.
FeedTypeOK ==
    /\ \A e \in Entries : /\ entry[e].phase \in {"none", "begun", "inserted", "visible",
                                                  "failed", "pruned"}
                          /\ entry[e].age \in {"new", "soft", "hard"}
    /\ cursor \in Entries \union {0} /\ seen \subseteq Entries /\ acked \in Nat
    /\ pager.at \in {"closed", "paging", "end"}

\* A row numbered below a handled one although it comes later in the feed:
\* acknowledging the one acknowledges the other.
Crossed(e) == \E s \in seen : entry[s].seq > entry[e].seq /\ Before(s, e)
Excused == lateRows \union passedOver \union {e \in Entries : Crossed(e)}

\* The cursor passes no row over: what lies behind a handled row was handled,
\* or became visible later, or was left out when the poller began again.
PassedIsSeen ==
    \A e \in Visible : (\E s \in seen : Before(e, s)) => e \in seen \union lateRows \union passedOver

\* Nothing is unread by the count alone: a row the summary no longer counts
\* was handled, or is one of the excused.
ReadIsSeen == (Visible \ receivedUnread) \subseteq seen \union Excused

\* Retention takes a row nobody handled only past the hard ceiling, or when it
\* is one of the excused.
PruneIsAcked ==
    [][\A e \in Entries :
          (entry[e].phase = "visible" /\ entry'[e].phase = "pruned" /\ e \notin seen)
             => entry[e].age = "hard" \/ e \in Excused]_feedVars

\* The acknowledged number never goes back, whatever is acknowledged again.
AckGrows == [][acked' >= acked]_feedVars

\* A walk to the end of the history has shown every row that was there, but
\* for those deleted meanwhile and those that share the timestamp at the edge
\* of a page.
HistoryIsWhole ==
    pager.at = "end" =>
       \A e \in pager.was : \/ e \in pager.shown \/ e \notin Visible
                            \/ entry[e].stamp \in pager.edges

\* A page is in the order of time, and every answer is right behind its message.
PageIsInOrder ==
    \A i \in 1..(Len(pager.last) - 1) :
       /\ pager.last[i].ts <= pager.last[i + 1].ts
       /\ pager.last[i].role = "user" => /\ pager.last[i + 1].of = pager.last[i].of
                                         /\ pager.last[i + 1].role = "agent"

\* The readers of the log miss nothing but what the excuses name.
FeedIsComplete ==
    /\ [](FeedTypeOK /\ PassedIsSeen /\ ReadIsSeen /\ HistoryIsWhole /\ PageIsInOrder)
    /\ PruneIsAcked /\ AckGrows

\* Refuted: a row that commits late is never handled.
NoneIsLate == lateRows = {}

=============================================================================
