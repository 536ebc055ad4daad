---------------------------- MODULE ChannelProofs ----------------------------
(***************************************************************************)
(* Proofs about the channels, which pollers run (ChannelPollers) and what  *)
(* becomes of the messages (ChannelMessages), and about the log where      *)
(* messages are read (InboxFeed), for any channels, calls, events,         *)
(* requests, texts, rows, limits and faults.                               *)
(*                                                                         *)
(* ChannelPollers: Reload reads the rows before it takes the mutex, so a   *)
(* swap may install an old set of rows.  What saves the manager is that    *)
(* whoever disturbs the pollers or the rows reloads afterwards: while      *)
(* nobody is about to reload, a swap that was not overtaken installs       *)
(* exactly the rows.                                                       *)
(*                                                                         *)
(* ChannelMessages: one poller at a time has a context, and it alone moves *)
(* what telegram regards as confirmed; what it has behind it was tried, or *)
(* is the update in its hands.  An event that will not be offered again    *)
(* has at most one call that is going to ask about it, and none once an    *)
(* agent was asked.  The splitters recurse over the text, so what they     *)
(* return is proved by induction over its length: the least text for which *)
(* a claim fails has a shorter rest for which it holds.                    *)
(*                                                                         *)
(* InboxFeed: the order of the feed is total on the rows that were         *)
(* numbered, so what lies behind a page and not in it lies behind the      *)
(* cursor, which was handled.  A page of the history is turned around by   *)
(* chunks that begin with a message and end with an answer.                *)
(***************************************************************************)
EXTENDS ChannelPollers, ChannelMessages, InboxFeed, WellFoundedInduction, FiniteSetTheorems,
        SequenceTheorems, TLAPS

-----------------------------------------------------------------------------
(***************************************************************************)
(* The pollers.                                                            *)
(***************************************************************************)
\* A call that is going to read the rows.
ReloadComing ==
    \E c \in ChannelCalls : \/ ccall[c].pc = "reload"
                            \/ ccall[c].pc = "discover" /\ ccall[c].read # {}

SwapIsFresh ==
    \A c \in ChannelCalls : ccall[c].pc = "swap" /\ ~ccall[c].behind => ccall[c].read = enabled

SettledOrSwap ==
    ~outdated => pollers = enabled \/ \E c \in ChannelCalls : ccall[c].pc = "swap"

ManagerInv ==
    /\ ChannelsTypeOK
    /\ OnePollerEach
    /\ ~ReloadComing => SwapIsFresh /\ SettledOrSwap

LEMMA ManagerInit == ChannelsInit => ManagerInv
<1> SUFFICES ASSUME ChannelsInit PROVE ManagerInv
  OBVIOUS
<1>0. /\ enabled = {} /\ pollers = {} /\ channelFaults = 0
      /\ \A h \in Channels : running[h] = 0
      /\ running \in [Channels -> 0 .. 2]
  BY DEF ChannelsInit
<1>a. /\ ccall \in [ChannelCalls ->
                    [pc : {"none", "reload", "swap", "pause", "discover"},
                     read : SUBSET Channels, behind : BOOLEAN]]
      /\ \A c \in ChannelCalls : ccall[c].pc = "none"
  BY DEF ChannelsInit, NoChannelCall
<1>b. outdated \in BOOLEAN
  BY DEF ChannelsInit
<1>1. ChannelsTypeOK
  BY <1>0, <1>a, <1>b, ChannelsAssumption DEF ChannelsTypeOK
<1>2. OnePollerEach
  <2> SUFFICES ASSUME NEW h \in Channels PROVE running[h] <= (IF h \in pollers THEN 1 ELSE 0)
    BY DEF OnePollerEach
  <2>1. running[h] = 0 /\ h \notin pollers
    BY <1>0
  <2> QED
    BY <2>1
<1>3. SwapIsFresh /\ SettledOrSwap
  BY <1>0, <1>a DEF SwapIsFresh, SettledOrSwap
<1> QED
  BY <1>1, <1>2, <1>3 DEF ManagerInv

\* One call changed, the others did not.
LEMMA OneCall ==
    ASSUME ChannelsTypeOK, NEW c \in ChannelCalls, NEW new,
           new \in [pc : {"none", "reload", "swap", "pause", "discover"},
                    read : SUBSET Channels, behind : BOOLEAN],
           ccall' = [ccall EXCEPT ![c] = new]
    PROVE  /\ ccall'[c] = new /\ \A d \in ChannelCalls : d # c => ccall'[d] = ccall[d]
           /\ ccall' \in [ChannelCalls ->
                           [pc : {"none", "reload", "swap", "pause", "discover"},
                            read : SUBSET Channels, behind : BOOLEAN]]
  BY DEF ChannelsTypeOK

\* A write leaves its call about to reload.
LEMMA WriteKeeps ==
    ASSUME ManagerInv, NEW c \in ChannelCalls, NEW h \in Channels, ChannelWrites(c, h)
    PROVE  ManagerInv'
<1>1. ccall'[c].pc = "reload"
  BY DEF ChannelWrites, ManagerInv, ChannelsTypeOK
<1>2. ReloadComing'
  BY <1>1 DEF ReloadComing
<1>3. ChannelsTypeOK'
  BY DEF ChannelWrites, ManagerInv, ChannelsTypeOK
<1>4. OnePollerEach'
  BY DEF ChannelWrites, ManagerInv, OnePollerEach
<1> QED
  BY <1>2, <1>3, <1>4 DEF ManagerInv

\* What a call that read the rows, or tried to, does to the others.
LEMMA OvertakesFacts ==
    ASSUME ManagerInv, NEW c \in ChannelCalls,
           NEW mine \in [pc : {"none", "reload", "swap", "pause", "discover"},
                         read : SUBSET Channels, behind : BOOLEAN],
           Overtakes(c, mine)
    PROVE  /\ ccall' \in [ChannelCalls ->
                           [pc : {"none", "reload", "swap", "pause", "discover"},
                            read : SUBSET Channels, behind : BOOLEAN]]
           /\ ccall'[c] = mine
           /\ \A d \in ChannelCalls : d # c =>
                /\ ccall'[d].pc = ccall[d].pc /\ ccall'[d].read = ccall[d].read
                /\ ccall[d].pc = "swap" => ccall'[d].behind
<1>1. ccall \in [ChannelCalls ->
                   [pc : {"none", "reload", "swap", "pause", "discover"},
                    read : SUBSET Channels, behind : BOOLEAN]]
  BY DEF ManagerInv, ChannelsTypeOK
<1> QED
  BY <1>1 DEF Overtakes

LEMMA ReadKeeps ==
    ASSUME ManagerInv, NEW c \in ChannelCalls, ReloadReads(c)
    PROVE  ManagerInv'
<1> DEFINE mine == [pc |-> "swap", read |-> enabled, behind |-> FALSE]
<1>1. mine \in [pc : {"none", "reload", "swap", "pause", "discover"},
                read : SUBSET Channels, behind : BOOLEAN]
  BY DEF ManagerInv, ChannelsTypeOK
<1>2. Overtakes(c, mine) /\ UNCHANGED <<enabled, pollers, running, outdated, channelFaults>>
  BY DEF ReloadReads
<1>3. ChannelsTypeOK' /\ OnePollerEach'
  BY <1>1, <1>2, OvertakesFacts DEF ManagerInv, ChannelsTypeOK, OnePollerEach
<1>a. mine.pc = "swap" /\ mine.read = enabled
  OBVIOUS
<1> HIDE DEF mine
<1>b. ccall'[c] = mine /\ \A d \in ChannelCalls : d # c => ccall'[d].pc = ccall[d].pc
  BY <1>1, <1>2, OvertakesFacts
<1>c. \A d \in ChannelCalls : d # c /\ ccall[d].pc = "swap" => ccall'[d].behind
  BY <1>1, <1>2, OvertakesFacts
<1>4. /\ ccall'[c].pc = "swap" /\ ccall'[c].read = enabled'
      /\ \A d \in ChannelCalls : d # c /\ ccall'[d].pc = "swap" => ccall'[d].behind
  <2>1. enabled' = enabled
    BY <1>2
  <2>2. ccall'[c].pc = "swap" /\ ccall'[c].read = enabled'
    BY <2>1, <1>a, <1>b
  <2>3. ASSUME NEW d \in ChannelCalls, d # c, ccall'[d].pc = "swap" PROVE ccall'[d].behind
    <3>1. ccall'[d].pc = ccall[d].pc
      BY <1>b, <2>3
    <3>2. ccall[d].pc = "swap"
      BY <2>3, <3>1
    <3> QED
      BY <1>c, <2>3, <3>2
  <2> QED
    BY <2>2, <2>3, Zenon
<1>5. SwapIsFresh' /\ SettledOrSwap'
  BY <1>4 DEF SwapIsFresh, SettledOrSwap
<1> QED
  BY <1>3, <1>5 DEF ManagerInv

\* A call that goes on to swap an old set of rows leaves no fresh swap.
LEMMA OvertakenBehind ==
    ASSUME ManagerInv, NEW c \in ChannelCalls,
           NEW mine \in [pc : {"none", "reload", "swap", "pause", "discover"},
                         read : SUBSET Channels, behind : BOOLEAN],
           mine.pc = "swap", mine.behind, Overtakes(c, mine)
    PROVE  /\ ccall'[c].pc = "swap"
           /\ \A d \in ChannelCalls : ccall'[d].pc = "swap" => ccall'[d].behind
<1>1. ccall'[c] = mine
  BY OvertakesFacts
<1>2. \A d \in ChannelCalls : d # c => ccall'[d].pc = ccall[d].pc
  BY OvertakesFacts
<1>3. \A d \in ChannelCalls : d # c /\ ccall[d].pc = "swap" => ccall'[d].behind
  BY OvertakesFacts
<1> QED
  BY <1>1, <1>2, <1>3, Zenon

LEMMA FailedReadKeeps ==
    ASSUME ManagerInv, NEW c \in ChannelCalls, ReloadFails(c)
    PROVE  ManagerInv'
<1> DEFINE Call == [pc : {"none", "reload", "swap", "pause", "discover"},
                    read : SUBSET Channels, behind : BOOLEAN]
<1>1. channelFaults' \in 0 .. MaxChannelFaults /\ UNCHANGED <<enabled, pollers, running>>
  BY ChannelsAssumption DEF ReloadFails, ChannelFault, ManagerInv, ChannelsTypeOK
<1>2. OnePollerEach'
  BY <1>1 DEF ManagerInv, OnePollerEach
<1>3. CASE Overtakes(c, NoChannelCall) /\ outdated' = TRUE
  <2>1. NoChannelCall \in Call /\ NoChannelCall.pc = "none"
    BY DEF NoChannelCall
  <2>2. ChannelsTypeOK'
    BY <1>1, <1>3, <2>1, OvertakesFacts DEF ManagerInv, ChannelsTypeOK
  <2>3. SwapIsFresh' /\ SettledOrSwap'
    BY <1>1, <1>3, <2>1, OvertakesFacts DEF SwapIsFresh, SettledOrSwap
  <2> QED
    BY <1>2, <2>2, <2>3 DEF ManagerInv
<1>4. ASSUME NEW some \in SUBSET enabled, UNCHANGED outdated,
             Overtakes(c, [pc |-> "swap", read |-> some, behind |-> TRUE])
      PROVE  ManagerInv'
  <2>1. [pc |-> "swap", read |-> some, behind |-> TRUE] \in Call
    BY <1>4 DEF ManagerInv, ChannelsTypeOK
  <2>2. ChannelsTypeOK'
    BY <1>1, <1>4, <2>1, OvertakesFacts DEF ManagerInv, ChannelsTypeOK
  <2>3. ccall'[c].pc = "swap" /\ \A d \in ChannelCalls : ccall'[d].pc = "swap" => ccall'[d].behind
    BY <1>4, <2>1, OvertakenBehind
  <2>4. SwapIsFresh' /\ SettledOrSwap'
    BY <2>3, Zenon DEF SwapIsFresh, SettledOrSwap
  <2> QED
    BY <1>2, <2>2, <2>4 DEF ManagerInv
<1> QED
  BY <1>3, <1>4 DEF ReloadFails

\* The swap cancels what it does not want and starts what it lacks: no channel
\* is left with two pollers.
LEMMA SwapKeeps ==
    ASSUME ManagerInv, NEW c \in ChannelCalls, ReloadSwaps(c)
    PROVE  ManagerInv'
<1> DEFINE desired == ccall[c].read
<1>1. /\ ccall[c].pc = "swap" /\ pollers' = desired /\ outdated' = ccall[c].behind
      /\ ccall' = [ccall EXCEPT ![c] = NoChannelCall] /\ UNCHANGED <<enabled, channelFaults>>
      /\ running' = [h \in Channels |->
                     CASE h \in pollers \ desired -> 0
                       [] h \in desired \ pollers -> running[h] + 1
                       [] OTHER -> running[h]]
  BY DEF ReloadSwaps
<1>2. desired \subseteq Channels /\ ccall[c].behind \in BOOLEAN
  BY DEF ManagerInv, ChannelsTypeOK
<1>3. /\ ccall'[c] = NoChannelCall /\ \A d \in ChannelCalls : d # c => ccall'[d] = ccall[d]
      /\ ccall' \in [ChannelCalls ->
                      [pc : {"none", "reload", "swap", "pause", "discover"},
                       read : SUBSET Channels, behind : BOOLEAN]]
  BY <1>1 DEF ManagerInv, ChannelsTypeOK, NoChannelCall
<1>4. \A h \in Channels : running[h] \in 0 .. 2 /\ running[h] <= (IF h \in pollers THEN 1 ELSE 0)
  BY DEF ManagerInv, ChannelsTypeOK, OnePollerEach
<1> HIDE DEF desired
<1>5. \A h \in Channels : running'[h] \in 0 .. 2 /\ running'[h] <= (IF h \in desired THEN 1 ELSE 0)
  BY <1>1, <1>4
<1>6. running' \in [Channels -> 0 .. 2]
  BY <1>1, <1>5
<1>7. ChannelsTypeOK' /\ OnePollerEach'
  BY <1>1, <1>2, <1>3, <1>5, <1>6 DEF ManagerInv, ChannelsTypeOK, OnePollerEach
<1>8. NoChannelCall.pc = "none"
  BY DEF NoChannelCall
<1>9. ASSUME ~ReloadComing' PROVE SwapIsFresh' /\ SettledOrSwap'
  <2>1. ~ReloadComing
    BY <1>1, <1>3, <1>9 DEF ReloadComing
  <2>2. SwapIsFresh
    BY <2>1 DEF ManagerInv
  <2>3. SwapIsFresh'
    BY <1>1, <1>3, <1>8, <2>2 DEF SwapIsFresh
  <2>4. ~outdated' => pollers' = enabled'
    BY <1>1, <2>2 DEF SwapIsFresh, desired
  <2> QED
    BY <2>3, <2>4 DEF SettledOrSwap
<1> QED
  BY <1>7, <1>9 DEF ManagerInv

\* Discovery: whatever it cancelled, it comes back to reload.
LEMMA PauseKeeps ==
    ASSUME ManagerInv, NEW c \in ChannelCalls, PausePollersForToken(c)
    PROVE  ManagerInv'
<1>1. PICK token \in SUBSET ccall[c].read :
          /\ pollers' = pollers \ (token \intersect pollers)
          /\ running' = [h \in Channels |-> IF h \in token \intersect pollers THEN 0 ELSE running[h]]
          /\ ccall' = [ccall EXCEPT ![c] = [pc |-> "discover", read |-> token \intersect pollers,
                                            behind |-> FALSE]]
  BY DEF PausePollersForToken
<1>2. ccall[c].pc = "pause" /\ UNCHANGED <<enabled, outdated, channelFaults>>
  BY DEF PausePollersForToken
<1>3. PICK paused \in SUBSET Channels : paused = token \intersect pollers
  BY DEF ManagerInv, ChannelsTypeOK
<1>4. /\ ccall' \in [ChannelCalls ->
                      [pc : {"none", "reload", "swap", "pause", "discover"},
                       read : SUBSET Channels, behind : BOOLEAN]]
      /\ ccall'[c].pc = "discover" /\ ccall'[c].read = paused
      /\ \A d \in ChannelCalls : d # c => ccall'[d] = ccall[d]
  BY <1>1, <1>3 DEF ManagerInv, ChannelsTypeOK
<1>5. running' \in [Channels -> 0 .. 2]
  BY <1>1 DEF ManagerInv, ChannelsTypeOK
<1>6. ChannelsTypeOK'
  BY <1>1, <1>2, <1>4, <1>5 DEF ManagerInv, ChannelsTypeOK
<1>7. OnePollerEach'
  BY <1>1 DEF ManagerInv, OnePollerEach
<1>8. CASE paused # {}
  <2>1. ReloadComing'
    BY <1>4, <1>8 DEF ReloadComing
  <2> QED
    BY <1>6, <1>7, <2>1 DEF ManagerInv
<1>9. CASE paused = {}
  <2>1. pollers' = pollers
    BY <1>1, <1>3, <1>9
  <2>2. ReloadComing => ReloadComing'
    BY <1>2, <1>4 DEF ReloadComing
  <2>3. SwapIsFresh => SwapIsFresh'
    BY <1>2, <1>4 DEF SwapIsFresh
  <2>4. SettledOrSwap => SettledOrSwap'
    BY <1>2, <1>4, <2>1 DEF SettledOrSwap
  <2> QED
    BY <1>6, <1>7, <2>2, <2>3, <2>4 DEF ManagerInv
<1> QED
  BY <1>8, <1>9

\* A step of one call that is not about the rows or the pollers.
LEMMA CallMoves ==
    ASSUME ManagerInv, NEW c \in ChannelCalls,
           NEW new \in [pc : {"none", "reload", "pause"}, read : SUBSET Channels, behind : BOOLEAN],
           ccall' = [ccall EXCEPT ![c] = new],
           ccall[c].pc \in {"none", "discover"},
           ccall[c].pc = "discover" /\ ccall[c].read # {} => new.pc = "reload",
           UNCHANGED <<enabled, pollers, running, outdated, channelFaults>>
    PROVE  ManagerInv'
<1>1. /\ ccall'[c] = new /\ \A d \in ChannelCalls : d # c => ccall'[d] = ccall[d]
      /\ ccall' \in [ChannelCalls ->
                      [pc : {"none", "reload", "swap", "pause", "discover"},
                       read : SUBSET Channels, behind : BOOLEAN]]
  BY OneCall DEF ManagerInv
<1>2. ChannelsTypeOK' /\ OnePollerEach'
  BY <1>1 DEF ManagerInv, ChannelsTypeOK, OnePollerEach
<1>3. ReloadComing => ReloadComing'
  BY <1>1 DEF ReloadComing
<1>4. SwapIsFresh => SwapIsFresh'
  BY <1>1 DEF SwapIsFresh
<1>5. SettledOrSwap => SettledOrSwap'
  BY <1>1 DEF SettledOrSwap
<1> QED
  BY <1>2, <1>3, <1>4, <1>5 DEF ManagerInv

LEMMA ManagerStep == ManagerInv /\ [ChannelsNext]_channelVars => ManagerInv'
<1> SUFFICES ASSUME ManagerInv, [ChannelsNext]_channelVars PROVE ManagerInv'
  OBVIOUS
<1>1. ASSUME NEW c \in ChannelCalls, DiscoverArrives(c) PROVE ManagerInv'
  <2>1. [pc |-> "pause", read |-> enabled, behind |-> FALSE]
           \in [pc : {"none", "reload", "pause"}, read : SUBSET Channels, behind : BOOLEAN]
    BY DEF ManagerInv, ChannelsTypeOK
  <2> QED
    BY <1>1, <2>1, CallMoves DEF DiscoverArrives
<1>2. ASSUME NEW c \in ChannelCalls, DiscoverEnds(c) PROVE ManagerInv'
  <2>1. PICK new : new = IF ccall[c].read = {} THEN NoChannelCall
                         ELSE [NoChannelCall EXCEPT !.pc = "reload"]
    OBVIOUS
  <2>2. /\ new \in [pc : {"none", "reload", "pause"}, read : SUBSET Channels, behind : BOOLEAN]
        /\ ccall[c].read # {} => new.pc = "reload"
    BY <2>1 DEF NoChannelCall
  <2> QED
    BY <1>2, <2>1, <2>2, CallMoves DEF DiscoverEnds
<1>3. ASSUME NEW h \in Channels, PollerEnds(h) PROVE ManagerInv'
  <2>1. /\ running' = [running EXCEPT ![h] = running[h] - 1] /\ running[h] > 0
        /\ channelFaults' \in 0 .. MaxChannelFaults /\ UNCHANGED <<enabled, pollers, ccall, outdated>>
    BY <1>3, ChannelsAssumption DEF PollerEnds, ChannelFault, ManagerInv, ChannelsTypeOK
  <2>2. \A g \in Channels : running[g] \in 0 .. 2
    BY DEF ManagerInv, ChannelsTypeOK
  <2>3. running' \in [Channels -> 0 .. 2] /\ \A g \in Channels : running'[g] <= running[g]
    BY <2>1, <2>2 DEF ManagerInv, ChannelsTypeOK
  <2>4. ChannelsTypeOK'
    BY <2>1, <2>3 DEF ManagerInv, ChannelsTypeOK
  <2>5. OnePollerEach'
    <3> SUFFICES ASSUME NEW g \in Channels
                 PROVE  running'[g] <= (IF g \in pollers THEN 1 ELSE 0)
      BY <2>1 DEF OnePollerEach
    <3>1. running[g] <= (IF g \in pollers THEN 1 ELSE 0)
      BY DEF ManagerInv, OnePollerEach
    <3>2. running'[g] <= running[g] /\ running'[g] \in 0 .. 2 /\ running[g] \in 0 .. 2
      BY <2>2, <2>3
    <3> QED
      BY <3>1, <3>2
  <2> QED
    BY <2>1, <2>4, <2>5 DEF ManagerInv, ReloadComing, SwapIsFresh, SettledOrSwap
<1>4. CASE ChannelsRestart
  <2>a. /\ ccall' \in [ChannelCalls ->
                      [pc : {"none", "reload", "swap", "pause", "discover"},
                       read : SUBSET Channels, behind : BOOLEAN]]
        /\ running' \in [Channels -> 0 .. 2]
    BY <1>4 DEF ChannelsRestart, NoChannelCall
  <2>b. channelFaults' \in 0 .. MaxChannelFaults
    BY <1>4, ChannelsAssumption DEF ChannelsRestart, ChannelFault, ManagerInv, ChannelsTypeOK
  <2>1. ChannelsTypeOK'
    BY <1>4, <2>a, <2>b DEF ChannelsRestart, ManagerInv, ChannelsTypeOK
  <2>2. OnePollerEach'
    BY <1>4 DEF ChannelsRestart, OnePollerEach
  <2>3. SwapIsFresh' /\ SettledOrSwap'
    BY <1>4 DEF ChannelsRestart, SwapIsFresh, SettledOrSwap, NoChannelCall
  <2> QED
    BY <2>1, <2>2, <2>3 DEF ManagerInv
<1>5. CASE UNCHANGED channelVars
  BY <1>5 DEF channelVars, ManagerInv, ChannelsTypeOK, OnePollerEach, ReloadComing, SwapIsFresh,
     SettledOrSwap
<1> QED
  BY <1>1, <1>2, <1>3, <1>4, <1>5, WriteKeeps, ReadKeeps, FailedReadKeeps, SwapKeeps, PauseKeeps
  DEF ChannelsNext, ChannelCallStep

\* However API calls, discoveries, failed reads and restarts overlap, a channel
\* has one poller at most, every poller can be cancelled, and a manager at rest
\* polls the enabled rows (Reload, PausePollersForToken).
THEOREM PollersAreRight == ChannelsSpec => []PollersMatchChannels
<1>1. ManagerInv => PollersMatchChannels
  BY DEF ManagerInv, PollersMatchChannels, QuietIsRight, ReloadComing, SettledOrSwap
<1> QED
  BY <1>1, ManagerInit, ManagerStep, PTL DEF ChannelsSpec

-----------------------------------------------------------------------------
(***************************************************************************)
(* Induction over the naturals, with a set for the predicate.              *)
(***************************************************************************)
Smaller == {p \in Nat \X Nat : p[1] < p[2]}

LEMMA SmallerIsWellFounded == IsWellFoundedOn(Smaller, Nat)
  BY NatLessThanWellFounded DEF OpToRel, Smaller

LEMMA LeastNat ==
    ASSUME NEW S \in SUBSET Nat, S # {}
    PROVE  \E n \in S : \A m \in S : n <= m
<1>1. PICK n \in S : \A m \in S : <<m, n>> \notin Smaller
  BY WFMin, SmallerIsWellFounded
<1>2. \A m \in S : m < n => <<m, n>> \in Smaller
  BY DEF Smaller
<1>3. \A m \in S : m \in Nat /\ ~(m < n)
  BY <1>1, <1>2
<1>4. n \in Nat
  BY <1>3
<1> QED
  BY <1>3, <1>4

\* What holds of 0 and of n + 1 if it holds of n.
LEMMA EveryNat ==
    ASSUME NEW S \in SUBSET Nat, 0 \in S, \A n \in S : n + 1 \in S
    PROVE  S = Nat
<1> SUFFICES ASSUME Nat \ S # {} PROVE FALSE
  OBVIOUS
<1>1. PICK n \in Nat \ S : \A m \in Nat \ S : n <= m
  BY LeastNat
<1>2. n # 0 /\ n - 1 \in Nat /\ ~(n <= n - 1)
  BY <1>1
<1>3. n - 1 \in S
  BY <1>1, <1>2
<1>4. (n - 1) + 1 \in S
  BY <1>3
<1> QED
  BY <1>1, <1>4

\* The largest of finitely many numbers.
LEMMA GreatestNat ==
    ASSUME NEW S \in SUBSET Nat, S # {}, NEW N \in Nat, \A n \in S : n <= N
    PROVE  \E n \in S : \A m \in S : n >= m
<1> DEFINE T == {k \in Nat : N - k \in S}
<1>1. T # {}
  <2>1. PICK n \in S : n \in Nat /\ n <= N
    OBVIOUS
  <2>2. N - n \in Nat /\ N - (N - n) = n
    BY <2>1
  <2>3. N - n \in T
    BY <2>1, <2>2
  <2> QED BY <2>3
<1>2. PICK k \in T : \A j \in T : k <= j
  BY <1>1, LeastNat
<1>3. k \in Nat /\ N - k \in S
  BY <1>2
<1>4. \A m \in S : N - k >= m
  <2> SUFFICES ASSUME NEW m \in S PROVE N - k >= m
    OBVIOUS
  <2>1. m \in Nat /\ m <= N /\ N - m \in Nat /\ N - (N - m) = m
    OBVIOUS
  <2>2. N - m \in T
    BY <2>1
  <2>3. k <= N - m
    BY <1>2, <2>2
  <2> QED BY <2>1, <2>3, <1>3
<1> QED
  BY <1>3, <1>4

\* A function may be defined by recursion on what is smaller.
Shrinks(S, E, size, N, rest) ==
    /\ E \in SUBSET S /\ size \in [S -> Nat] /\ N \in Nat /\ \A t \in S : size[t] < N
    /\ rest \in [S \ E -> S] /\ \A t \in S \ E : size[rest[t]] < size[t]
Recurs(f, S, E, stop, first, rest) ==
    f = [t \in S |-> IF t \in E THEN stop[t] ELSE first[t] \o f[rest[t]]]

LEMMA RecursionExists ==
    ASSUME NEW S, NEW E, NEW size, NEW N, NEW rest, Shrinks(S, E, size, N, rest),
           NEW stop, NEW first
    PROVE  \E f : Recurs(f, S, E, stop, first, rest)
<1>0. /\ E \in SUBSET S /\ size \in [S -> Nat] /\ N \in Nat /\ \A t \in S : size[t] < N
      /\ rest \in [S \ E -> S] /\ \A t \in S \ E : size[rest[t]] < size[t]
  BY DEF Shrinks
<1> DEFINE Step(f) == [t \in S |-> IF t \in E THEN stop[t] ELSE first[t] \o f[rest[t]]]
           Good(n, f) == \A t \in S : size[t] < n => f[t] = Step(f)[t]
           Found == {n \in Nat : \E f : Good(n, f)}
<1>1. 0 \in Found
  <2>1. Good(0, <<>>)
    BY <1>0
  <2> QED BY <2>1
<1>2. ASSUME NEW n \in Found PROVE n + 1 \in Found
  <2>1. n \in Nat /\ n + 1 \in Nat
    OBVIOUS
  <2>2. PICK f : Good(n, f)
    OBVIOUS
  <2> DEFINE g == Step(f)
  <2>3. ASSUME NEW t \in S, size[t] < n + 1 PROVE g[t] = Step(g)[t]
    <3>1. CASE t \in E
      BY <3>1
    <3>2. CASE t \notin E
      <4>1. rest[t] \in S /\ size[rest[t]] \in Nat /\ size[t] \in Nat /\ size[rest[t]] < size[t]
        BY <3>2, <1>0
      <4>2. size[rest[t]] < n
        BY <4>1, <2>1, <2>3
      <4>3. f[rest[t]] = g[rest[t]]
        BY <4>1, <4>2, <2>2
      <4> QED
        BY <4>3, <3>2
    <3> QED BY <3>1, <3>2
  <2>4. Good(n + 1, g)
    BY <2>3
  <2> HIDE DEF Good
  <2> QED BY <2>1, <2>4
<1> HIDE DEF Good
<1>3. Found = Nat
  BY <1>1, <1>2, EveryNat
<1>4. PICK f : Good(N, f)
  BY <1>0, <1>3
<1> DEFINE g == Step(f)
<1>5. \A t \in S : f[t] = g[t]
  BY <1>0, <1>4 DEF Good
<1>6. g = Step(g)
  BY <1>0, <1>5
<1> HIDE DEF g
<1> QED
  BY <1>6 DEF Recurs
-----------------------------------------------------------------------------
(***************************************************************************)
(* Sequences: FlattenSeq and Words over a concatenation.                   *)
(***************************************************************************)
Flat(seqs) ==
    CHOOSE f : f = [i \in 1..Len(seqs) |-> IF i = 1 THEN seqs[i] ELSE f[i - 1] \o seqs[i]]

LEMMA FlattenIsFlat ==
    ASSUME NEW seqs
    PROVE  FlattenSeq(seqs) = IF Len(seqs) = 0 THEN seqs ELSE Flat(seqs)[Len(seqs)]
  BY DEF FlattenSeq, Flat

LEMMA FlatIs ==
    ASSUME NEW S, NEW seqs \in Seq(Seq(S))
    PROVE  \A i \in 1..Len(seqs) :
              /\ Flat(seqs)[i] = IF i = 1 THEN seqs[i] ELSE Flat(seqs)[i - 1] \o seqs[i]
              /\ Flat(seqs)[i] \in Seq(S)
<1> DEFINE Step(f) == [i \in 1..Len(seqs) |-> IF i = 1 THEN seqs[i] ELSE f[i - 1] \o seqs[i]]
           Good(n, f) == \A i \in 1..Len(seqs) : i <= n => f[i] = Step(f)[i]
           Found == {n \in Nat : \E f : Good(n, f)}
<1>0. Len(seqs) \in Nat /\ \A i \in 1..Len(seqs) : seqs[i] \in Seq(S)
  BY ElementOfSeq, LenProperties
<1>1. 0 \in Found
  <2>1. Good(0, <<>>)
    BY <1>0
  <2> QED BY <2>1
<1>2. ASSUME NEW n \in Found PROVE n + 1 \in Found
  <2>1. n \in Nat /\ n + 1 \in Nat
    OBVIOUS
  <2>2. PICK f : Good(n, f)
    OBVIOUS
  <2> DEFINE g == Step(f)
  <2>3. ASSUME NEW i \in 1..Len(seqs), i <= n + 1 PROVE g[i] = Step(g)[i]
    <3>1. CASE i = 1
      BY <3>1
    <3>2. CASE i # 1
      <4>1. i - 1 \in 1..Len(seqs) /\ i - 1 <= n
        BY <1>0, <2>1, <2>3, <3>2
      <4>2. f[i - 1] = g[i - 1]
        BY <4>1, <2>2
      <4> QED
        BY <4>2, <3>2
    <3> QED BY <3>1, <3>2
  <2>4. Good(n + 1, g)
    BY <2>3
  <2> HIDE DEF Good
  <2> QED BY <2>1, <2>4
<1> HIDE DEF Good
<1>3. Found = Nat
  BY <1>1, <1>2, EveryNat
<1>4. PICK f : Good(Len(seqs), f)
  BY <1>3, <1>0
<1> DEFINE g == Step(f)
<1>5. \A i \in 1..Len(seqs) : f[i] = g[i]
  BY <1>4, <1>0 DEF Good
<1>6. g = Step(g)
  <2>1. ASSUME NEW i \in 1..Len(seqs), i # 1 PROVE i - 1 \in 1..Len(seqs)
    BY <1>0, <2>1
  <2>2. \A i \in 1..Len(seqs) : i # 1 => f[i - 1] = g[i - 1]
    BY <2>1, <1>5
  <2> QED BY <2>2
<1>7. Flat(seqs) = Step(Flat(seqs))
  BY <1>6, Zenon DEF Flat
<1> DEFINE Typed == {n \in Nat : n + 1 \in 1..Len(seqs) => Flat(seqs)[n + 1] \in Seq(S)}
<1>8. 0 \in Typed
  <2>1. 0 + 1 = 1
    OBVIOUS
  <2>2. 1 \in 1..Len(seqs) => Flat(seqs)[1] = seqs[1]
    BY <1>7
  <2> QED BY <2>1, <2>2, <1>0
<1>9. ASSUME NEW n \in Typed PROVE n + 1 \in Typed
  <2> SUFFICES ASSUME n + 2 \in 1..Len(seqs) PROVE Flat(seqs)[n + 2] \in Seq(S)
    OBVIOUS
  <2>1. n \in Nat /\ n + 1 \in 1..Len(seqs) /\ n + 2 # 1 /\ (n + 2) - 1 = n + 1
    BY <1>0
  <2>2. Flat(seqs)[n + 2] = Flat(seqs)[n + 1] \o seqs[n + 2]
    BY <2>1, <1>7
  <2>3. Flat(seqs)[n + 1] \in Seq(S) /\ seqs[n + 2] \in Seq(S)
    BY <2>1, <1>0
  <2> QED BY <2>2, <2>3, ConcatProperties
<1>10. Typed = Nat
  BY <1>8, <1>9, EveryNat
<1>11. \A i \in 1..Len(seqs) : Flat(seqs)[i] \in Seq(S)
  <2> SUFFICES ASSUME NEW i \in 1..Len(seqs) PROVE Flat(seqs)[i] \in Seq(S)
    OBVIOUS
  <2>1. i - 1 \in Nat /\ (i - 1) + 1 = i
    BY <1>0
  <2>2. i - 1 \in Typed
    BY <2>1, <1>10
  <2> QED BY <2>1, <2>2
<1> QED
  BY <1>7, <1>11

LEMMA FlattenEmpty == FlattenSeq(<<>>) = <<>>
  BY FlattenIsFlat

LEMMA FlattenTyped ==
    ASSUME NEW S, NEW seqs \in Seq(Seq(S))
    PROVE  FlattenSeq(seqs) \in Seq(S)
<1>1. Len(seqs) \in Nat /\ (Len(seqs) = 0 => seqs = <<>>)
  BY EmptySeq
<1>2. CASE Len(seqs) = 0
  BY <1>1, <1>2, FlattenIsFlat, EmptySeq
<1>3. CASE Len(seqs) # 0
  <2>1. Len(seqs) \in 1..Len(seqs)
    BY <1>1, <1>3
  <2> QED BY <2>1, <1>3, FlattenIsFlat, FlatIs
<1> QED BY <1>2, <1>3

LEMMA FlattenStep ==
    ASSUME NEW S, NEW a \in Seq(S), NEW seqs \in Seq(Seq(S))
    PROVE  FlattenSeq(<<a>> \o seqs) = a \o FlattenSeq(seqs)
<1> DEFINE w == <<a>> \o seqs
<1>1. /\ Len(seqs) \in Nat /\ w \in Seq(Seq(S)) /\ Len(w) = Len(seqs) + 1
      /\ w[1] = a /\ \A i \in 1..Len(seqs) : w[i + 1] = seqs[i] /\ seqs[i] \in Seq(S)
  OBVIOUS
<1> HIDE DEF w
<1>2. \A i \in 1..Len(w) : Flat(w)[i] = IF i = 1 THEN w[i] ELSE Flat(w)[i - 1] \o w[i]
  BY <1>1, FlatIs
<1>3. \A i \in 1..Len(seqs) : /\ Flat(seqs)[i] = IF i = 1 THEN seqs[i] ELSE Flat(seqs)[i - 1] \o seqs[i]
                              /\ Flat(seqs)[i] \in Seq(S)
  BY FlatIs
<1>4. Flat(w)[1] = a
  BY <1>1, <1>2
<1> DEFINE Same == {n \in Nat : n + 1 \in 1..Len(seqs) => Flat(w)[n + 2] = a \o Flat(seqs)[n + 1]}
<1>5. 0 \in Same
  <2> SUFFICES ASSUME 0 + 1 \in 1..Len(seqs) PROVE Flat(w)[0 + 2] = a \o Flat(seqs)[0 + 1]
    OBVIOUS
  <2>1. 2 \in 1..Len(w) /\ 1 \in 1..Len(seqs)
    BY <1>1
  <2>2. Flat(w)[2] = Flat(w)[1] \o w[2] /\ w[1 + 1] = seqs[1] /\ Flat(seqs)[1] = seqs[1]
    <3>1. 2 - 1 = 1 /\ 2 # 1 /\ 1 + 1 = 2
      OBVIOUS
    <3>2. Flat(w)[2] = Flat(w)[1] \o w[2]
      BY <2>1, <3>1, <1>2
    <3>3. w[2] = seqs[1] /\ Flat(seqs)[1] = seqs[1]
      BY <2>1, <3>1, <1>1, <1>3
    <3> QED BY <3>1, <3>2, <3>3
  <2>3. 0 + 1 = 1 /\ 0 + 2 = 2 /\ 1 + 1 = 2
    OBVIOUS
  <2> QED BY ONLY <2>2, <2>3, <1>4
<1>6. ASSUME NEW n \in Same PROVE n + 1 \in Same
  <2> SUFFICES ASSUME n + 2 \in 1..Len(seqs) PROVE Flat(w)[n + 3] = a \o Flat(seqs)[n + 2]
    OBVIOUS
  <2>1. n \in Nat /\ n + 1 \in 1..Len(seqs) /\ n + 3 \in 1..Len(w)
    BY <1>1
  <2>2. Flat(w)[n + 2] = a \o Flat(seqs)[n + 1]
    BY <2>1
  <2>3. Flat(w)[n + 3] = Flat(w)[n + 2] \o w[n + 3]
    <3>1. (n + 3) - 1 = n + 2 /\ n + 3 # 1
      BY <2>1
    <3> QED BY <3>1, <2>1, <1>2
  <2>4. w[n + 3] = seqs[n + 2] /\ seqs[n + 2] \in Seq(S)
    <3>1. (n + 2) + 1 = n + 3
      BY <2>1
    <3> QED BY <3>1, <1>1
  <2>5. Flat(seqs)[n + 2] = Flat(seqs)[n + 1] \o seqs[n + 2] /\ Flat(seqs)[n + 1] \in Seq(S)
    <3>1. (n + 2) - 1 = n + 1 /\ n + 2 # 1
      BY <2>1
    <3> QED BY <3>1, <2>1, <1>3
  <2>6. (a \o Flat(seqs)[n + 1]) \o seqs[n + 2] = a \o (Flat(seqs)[n + 1] \o seqs[n + 2])
    <3>1. a \in Seq(S) /\ Flat(seqs)[n + 1] \in Seq(S) /\ seqs[n + 2] \in Seq(S)
      BY <2>4, <2>5
    <3>2. PICK b \in Seq(S), c \in Seq(S) : b = Flat(seqs)[n + 1] /\ c = seqs[n + 2]
      BY <3>1
    <3>3. (a \o b) \o c = a \o (b \o c)
      BY ONLY SMTT(40), a \in Seq(S), b \in Seq(S), c \in Seq(S), ConcatAssociative
    <3> QED BY <3>2, <3>3
  <2> QED BY <2>2, <2>3, <2>4, <2>5, <2>6
<1>7. Same = Nat
  BY <1>5, <1>6, EveryNat
<1>8. CASE Len(seqs) = 0
  <2>1. seqs = <<>> /\ Len(w) = 1 /\ Len(w) # 0
    BY <1>1, <1>8, EmptySeq
  <2>2. FlattenSeq(w) = a
    BY <2>1, <1>4, FlattenIsFlat
  <2>3. FlattenSeq(seqs) = <<>> /\ a \o <<>> = a
    BY <2>1, FlattenEmpty, ConcatEmptySeq
  <2> QED BY <2>2, <2>3 DEF w
<1>9. CASE Len(seqs) # 0
  <2>1. Len(seqs) - 1 \in Nat /\ (Len(seqs) - 1) + 1 = Len(seqs) /\ (Len(seqs) - 1) + 2 = Len(w)
        /\ Len(seqs) \in 1..Len(seqs) /\ Len(w) # 0
    BY <1>1, <1>9
  <2>2. Len(seqs) - 1 \in Same
    BY <2>1, <1>7
  <2>3. Flat(w)[Len(w)] = a \o Flat(seqs)[Len(seqs)]
    BY <2>1, <2>2
  <2> QED BY <2>1, <2>3, FlattenIsFlat, <1>9 DEF w
<1> QED BY <1>8, <1>9, <1>1

\* The bytes that Words keeps of the first i of t.
Kept(t) ==
    CHOOSE f : f = [i \in 0..Len(t) |->
                      IF i = 0 THEN <<>>
                      ELSE IF t[i] \in Space THEN f[i - 1] ELSE Append(f[i - 1], t[i])]

LEMMA WordsAreKept == ASSUME NEW t PROVE Words(t) = Kept(t)[Len(t)]
  BY DEF Words, Kept

LEMMA KeptIs ==
    ASSUME NEW S, NEW t \in Seq(S)
    PROVE  /\ Kept(t)[0] = <<>>
           /\ \A i \in 1..Len(t) : Kept(t)[i] = IF t[i] \in Space THEN Kept(t)[i - 1]
                                                ELSE Append(Kept(t)[i - 1], t[i])
           /\ \A i \in 0..Len(t) : Kept(t)[i] \in Seq(S)
<1> DEFINE Step(f) == [i \in 0..Len(t) |->
                         IF i = 0 THEN <<>>
                         ELSE IF t[i] \in Space THEN f[i - 1] ELSE Append(f[i - 1], t[i])]
           Good(n, f) == \A i \in 0..Len(t) : i <= n => f[i] = Step(f)[i]
           Found == {n \in Nat : \E f : Good(n, f)}
<1>0. Len(t) \in Nat /\ \A i \in 1..Len(t) : t[i] \in S
  BY ElementOfSeq, LenProperties
<1>1. 0 \in Found
  <2> DEFINE g == Step(<<>>)
  <2>1. Good(0, g)
    BY <1>0
  <2> HIDE DEF g, Good
  <2> QED BY <2>1
<1>2. ASSUME NEW n \in Found PROVE n + 1 \in Found
  <2>1. n \in Nat /\ n + 1 \in Nat
    OBVIOUS
  <2>2. PICK f : Good(n, f)
    OBVIOUS
  <2> DEFINE g == Step(f)
  <2>3. ASSUME NEW i \in 0..Len(t), i <= n + 1 PROVE g[i] = Step(g)[i]
    <3>1. CASE i = 0
      BY <3>1
    <3>2. CASE i # 0
      <4>1. i - 1 \in 0..Len(t) /\ i - 1 <= n
        BY <1>0, <2>1, <2>3, <3>2
      <4>2. f[i - 1] = g[i - 1]
        BY <4>1, <2>2
      <4> QED
        BY <4>2, <3>2
    <3> QED BY <3>1, <3>2
  <2>4. Good(n + 1, g)
    BY <2>3
  <2> HIDE DEF Good
  <2> QED BY <2>1, <2>4
<1> HIDE DEF Good
<1>3. Found = Nat
  BY <1>1, <1>2, EveryNat
<1>4. PICK f : Good(Len(t), f)
  BY <1>3, <1>0
<1> DEFINE g == Step(f)
<1>5. \A i \in 0..Len(t) : f[i] = g[i]
  BY <1>4, <1>0 DEF Good
<1>6. g = Step(g)
  <2>1. ASSUME NEW i \in 0..Len(t), i # 0 PROVE i - 1 \in 0..Len(t)
    BY <1>0, <2>1
  <2>2. \A i \in 0..Len(t) : i # 0 => f[i - 1] = g[i - 1]
    BY <2>1, <1>5
  <2> QED BY <2>2
<1>7. Kept(t) = Step(Kept(t))
  BY <1>6, Zenon DEF Kept
<1>8. /\ Kept(t)[0] = <<>>
      /\ \A i \in 1..Len(t) : Kept(t)[i] = IF t[i] \in Space THEN Kept(t)[i - 1]
                                           ELSE Append(Kept(t)[i - 1], t[i])
  <2>1. 0 \in 0..Len(t) /\ \A i \in 1..Len(t) : i \in 0..Len(t) /\ i # 0
    BY <1>0
  <2> QED BY <2>1, <1>7
<1> DEFINE Typed == {n \in Nat : n \in 0..Len(t) => Kept(t)[n] \in Seq(S)}
<1>9. 0 \in Typed
  BY <1>8, EmptySeq
<1>10. ASSUME NEW n \in Typed PROVE n + 1 \in Typed
  <2> SUFFICES ASSUME n + 1 \in 0..Len(t) PROVE Kept(t)[n + 1] \in Seq(S)
    OBVIOUS
  <2>1. n \in 0..Len(t) /\ n + 1 \in 1..Len(t) /\ (n + 1) - 1 = n
    BY <1>0
  <2>2. Kept(t)[n] \in Seq(S) /\ t[n + 1] \in S
    BY <2>1, <1>0
  <2>3. Kept(t)[n + 1] = IF t[n + 1] \in Space THEN Kept(t)[n] ELSE Append(Kept(t)[n], t[n + 1])
    BY <2>1, <1>8
  <2> QED BY <2>2, <2>3, AppendProperties
<1>11. Typed = Nat
  BY <1>9, <1>10, EveryNat
<1> QED
  BY <1>8, <1>11, <1>0
AppendConcat(x, y, e) == Append(x \o y, e) = x \o Append(y, e)

LEMMA AppendMayWait ==
    ASSUME NEW S, NEW x \in Seq(S), NEW y \in Seq(S), NEW e \in S
    PROVE  AppendConcat(x, y, e)
  BY DEF AppendConcat

LEMMA WordsTyped ==
    ASSUME NEW S, NEW t \in Seq(S)
    PROVE  Words(t) \in Seq(S)
  BY WordsAreKept, KeptIs, LenProperties

LEMMA WordsConcat ==
    ASSUME NEW S, NEW s \in Seq(S), NEW t \in Seq(S)
    PROVE  Words(s \o t) = Words(s) \o Words(t)
<1> DEFINE w == s \o t
<1>1. /\ Len(s) \in Nat /\ Len(t) \in Nat /\ w \in Seq(S) /\ Len(w) = Len(s) + Len(t)
      /\ \A i \in 1..Len(s) : w[i] = s[i]
      /\ \A i \in 1..Len(t) : w[Len(s) + i] = t[i] /\ t[i] \in S
  BY ConcatProperties, LenProperties
<1> HIDE DEF w
<1>2. /\ Kept(w)[0] = <<>>
      /\ \A i \in 1..Len(w) : Kept(w)[i] = IF w[i] \in Space THEN Kept(w)[i - 1]
                                           ELSE Append(Kept(w)[i - 1], w[i])
  BY <1>1, KeptIs
<1>3. /\ Kept(s)[0] = <<>> /\ \A i \in 0..Len(s) : Kept(s)[i] \in Seq(S)
      /\ \A i \in 1..Len(s) : Kept(s)[i] = IF s[i] \in Space THEN Kept(s)[i - 1]
                                           ELSE Append(Kept(s)[i - 1], s[i])
  BY KeptIs
<1>4. /\ Kept(t)[0] = <<>> /\ \A i \in 0..Len(t) : Kept(t)[i] \in Seq(S)
      /\ \A i \in 1..Len(t) : Kept(t)[i] = IF t[i] \in Space THEN Kept(t)[i - 1]
                                           ELSE Append(Kept(t)[i - 1], t[i])
  BY KeptIs
<1> DEFINE Left == {n \in Nat : n <= Len(s) => Kept(w)[n] = Kept(s)[n]}
           Right == {n \in Nat : n <= Len(t) =>
                       Kept(w)[Len(s) + n] = Kept(s)[Len(s)] \o Kept(t)[n]}
<1>5. 0 \in Left
  BY <1>2, <1>3
<1>6. ASSUME NEW n \in Left PROVE n + 1 \in Left
  <2> SUFFICES ASSUME n + 1 <= Len(s) PROVE Kept(w)[n + 1] = Kept(s)[n + 1]
    OBVIOUS
  <2>1. n \in Nat /\ n <= Len(s) /\ n + 1 \in 1..Len(s) /\ n + 1 \in 1..Len(w) /\ (n + 1) - 1 = n
    BY <1>1
  <2>2. Kept(w)[n] = Kept(s)[n] /\ w[n + 1] = s[n + 1]
    BY <2>1, <1>1
  <2>3. Kept(w)[n + 1] = IF w[n + 1] \in Space THEN Kept(w)[n] ELSE Append(Kept(w)[n], w[n + 1])
    BY <2>1, <1>2
  <2>4. Kept(s)[n + 1] = IF s[n + 1] \in Space THEN Kept(s)[n] ELSE Append(Kept(s)[n], s[n + 1])
    BY <2>1, <1>3
  <2> QED BY ONLY <2>2, <2>3, <2>4
<1>7. Left = Nat
  BY <1>5, <1>6, EveryNat
<1>8. 0 \in Right
  <2>1. Len(s) \in Left /\ Len(s) + 0 = Len(s) /\ Len(s) \in 0..Len(s)
    BY <1>1, <1>7
  <2>2. Kept(w)[Len(s)] = Kept(s)[Len(s)] /\ Kept(s)[Len(s)] \in Seq(S)
    BY <2>1, <1>1, <1>3
  <2>3. PICK x \in Seq(S) : x = Kept(s)[Len(s)]
    BY <2>2
  <2>4. x \o <<>> = x
    BY ONLY x \in Seq(S), ConcatEmptySeq
  <2> QED BY <2>1, <2>2, <2>3, <2>4, <1>4
<1>9. ASSUME NEW n \in Right PROVE n + 1 \in Right
  <2>0. n \in Nat /\ n + 1 \in Nat
    OBVIOUS
  <2> SUFFICES ASSUME n + 1 <= Len(t)
               PROVE  Kept(w)[Len(s) + (n + 1)] = Kept(s)[Len(s)] \o Kept(t)[n + 1]
    BY <2>0, Zenon
  <2>1. /\ n \in Nat /\ n <= Len(t) /\ n + 1 \in 1..Len(t) /\ Len(s) + (n + 1) \in 1..Len(w)
        /\ (n + 1) - 1 = n /\ (Len(s) + (n + 1)) - 1 = Len(s) + n /\ n \in 0..Len(t)
        /\ Len(s) \in 0..Len(s)
    BY <1>1
  <2>2. PICK x \in Seq(S), y \in Seq(S), e \in S :
           x = Kept(s)[Len(s)] /\ y = Kept(t)[n] /\ e = t[n + 1]
    BY <2>1, <1>1, <1>3, <1>4
  <2>3. Kept(w)[Len(s) + n] = x \o y /\ w[Len(s) + (n + 1)] = e
    BY <2>1, <2>2, <1>1
  <2>4. Kept(w)[Len(s) + (n + 1)] = IF e \in Space THEN x \o y ELSE Append(x \o y, e)
    BY <2>1, <2>3, <1>2
  <2>5. Kept(t)[n + 1] = IF e \in Space THEN y ELSE Append(y, e)
    BY <2>1, <2>2, <1>4
  <2>6. Append(x \o y, e) = x \o Append(y, e)
    <3>1. AppendConcat(x, y, e)
      BY AppendMayWait
    <3> QED BY ONLY <3>1 DEF AppendConcat
  <2> QED BY ONLY <2>2, <2>4, <2>5, <2>6
<1>10. Right = Nat
  BY <1>8, <1>9, EveryNat
<1>11. Kept(w)[Len(w)] = Kept(s)[Len(s)] \o Kept(t)[Len(t)]
  <2>1. Len(t) \in Right /\ Len(t) <= Len(t)
    <3> HIDE DEF Right
    <3> QED BY <1>1, <1>10
  <2>2. Kept(w)[Len(s) + Len(t)] = Kept(s)[Len(s)] \o Kept(t)[Len(t)]
    BY <2>1, Zenon
  <2> QED BY <2>2, <1>1
<1> QED
  BY <1>11, WordsAreKept DEF w

LEMMA WordsOfSpace ==
    ASSUME NEW S, NEW t \in Seq(S), \A i \in 1..Len(t) : t[i] \in Space
    PROVE  Words(t) = <<>>
<1>1. /\ Len(t) \in Nat /\ Kept(t)[0] = <<>>
      /\ \A i \in 1..Len(t) : Kept(t)[i] = Kept(t)[i - 1]
  BY KeptIs, LenProperties
<1> DEFINE None == {n \in Nat : n <= Len(t) => Kept(t)[n] = <<>>}
<1>2. 0 \in None
  BY <1>1
<1>3. ASSUME NEW n \in None PROVE n + 1 \in None
  <2> SUFFICES ASSUME n + 1 <= Len(t) PROVE Kept(t)[n + 1] = <<>>
    OBVIOUS
  <2>1. n \in Nat /\ n <= Len(t) /\ n + 1 \in 1..Len(t) /\ (n + 1) - 1 = n
    BY <1>1
  <2> QED BY <2>1, <1>1
<1>4. None = Nat
  BY <1>2, <1>3, EveryNat
<1> QED
  BY <1>1, <1>4, WordsAreKept
-----------------------------------------------------------------------------
(***************************************************************************)
(* The texts that are split, and what their cuts leave.                    *)
(***************************************************************************)
Byte == {"x", " ", "n", "h", "t"}

LEMMA ByteStringsAre ==
    \A t : t \in ByteStrings <=> t \in Seq(Byte) /\ Len(t) <= MaxTextLen
<1> SUFFICES ASSUME NEW t PROVE t \in ByteStrings <=> t \in Seq(Byte) /\ Len(t) <= MaxTextLen
  OBVIOUS
<1>1. ASSUME t \in ByteStrings PROVE t \in Seq(Byte) /\ Len(t) <= MaxTextLen
  <2>1. PICK m \in 0..MaxTextLen : t \in [1..m -> Byte]
    BY <1>1 DEF ByteStrings, SeqOf, Byte
  <2>2. m \in Nat /\ m <= MaxTextLen
    BY ChatAssumption
  <2>3. t \in Seq(Byte) /\ Len(t) = m
    BY <2>1, <2>2
  <2> QED BY <2>2, <2>3
<1>2. ASSUME t \in Seq(Byte), Len(t) <= MaxTextLen PROVE t \in ByteStrings
  <2>1. Len(t) \in 0..MaxTextLen /\ t \in [1..Len(t) -> Byte]
    BY <1>2, LenProperties, ChatAssumption
  <2> QED BY <2>1 DEF ByteStrings, SeqOf, Byte
<1> QED BY <1>1, <1>2

LEMMA PartOfText ==
    ASSUME NEW t \in ByteStrings, NEW m \in 1..(Len(t) + 1), NEW n \in (m - 1)..Len(t)
    PROVE  /\ SubSeq(t, m, n) \in Seq(Byte) /\ SubSeq(t, m, n) \in ByteStrings
           /\ Len(SubSeq(t, m, n)) = n - m + 1
           /\ \A i \in 1..(n - m + 1) : SubSeq(t, m, n)[i] = t[m + i - 1]
<1>1. t \in Seq(Byte) /\ Len(t) <= MaxTextLen /\ Len(t) \in Nat /\ m \in Int /\ n \in Int
  BY ByteStringsAre, LenProperties
<1>2. \A i \in m..n : t[i] \in Byte
  BY <1>1, ElementOfSeq
<1>3. /\ SubSeq(t, m, n) \in Seq(Byte)
      /\ Len(SubSeq(t, m, n)) = IF m <= n THEN n - m + 1 ELSE 0
      /\ \A i \in 1..(n - m + 1) : SubSeq(t, m, n)[i] = t[m + i - 1]
  BY <1>1, <1>2, SubSeqProperties
<1>4. Len(SubSeq(t, m, n)) = n - m + 1 /\ n - m + 1 <= MaxTextLen
  BY <1>1, <1>3, ChatAssumption
<1> QED
  BY <1>3, <1>4, ByteStringsAre

LEMMA CutText ==
    ASSUME NEW t \in ByteStrings, NEW k \in 0..Len(t)
    PROVE  /\ SubSeq(t, 1, k) \in Seq(Byte) /\ SubSeq(t, 1, k) \in ByteStrings
           /\ Drop(t, k) \in Seq(Byte) /\ Drop(t, k) \in ByteStrings
           /\ Len(SubSeq(t, 1, k)) = k /\ Len(Drop(t, k)) = Len(t) - k
           /\ SubSeq(t, 1, k) \o Drop(t, k) = t
<1>1. t \in Seq(Byte) /\ Len(t) \in Nat
  BY ByteStringsAre, LenProperties
<1>2. /\ 1 \in 1..(Len(t) + 1) /\ k \in (1 - 1)..Len(t) /\ Len(t) \in k..Len(t)
      /\ k + 1 \in 1..(Len(t) + 1) /\ Len(t) \in ((k + 1) - 1)..Len(t)
      /\ k - 1 + 1 = k /\ Len(t) - (k + 1) + 1 = Len(t) - k
  BY <1>1
<1>3. /\ SubSeq(t, 1, k) \in Seq(Byte) /\ SubSeq(t, 1, k) \in ByteStrings
      /\ Len(SubSeq(t, 1, k)) = k
  BY <1>2, PartOfText
<1>4. /\ Drop(t, k) \in Seq(Byte) /\ Drop(t, k) \in ByteStrings
      /\ Len(Drop(t, k)) = Len(t) - k
  BY ZenonT(60), <1>2, PartOfText DEF Drop
<1>5. SubSeq(t, 1, k) \o Drop(t, k) = SubSeq(t, 1, Len(t))
  BY <1>1, <1>2, ConcatAdjacentSubSeq DEF Drop
<1>6. SubSeq(t, 1, Len(t)) = t
  BY <1>1, SubSeqFull
<1> QED
  BY <1>3, <1>4, <1>5, <1>6

LEMMA MinIs ==
    ASSUME NEW S \in SUBSET Nat, S # {}
    PROVE  Min(S) \in S /\ \A m \in S : Min(S) <= m
<1>1. \E n \in S : \A m \in S : n <= m
  BY LeastNat
<1> QED BY <1>1, Zenon DEF Min

LEMMA MaxIs ==
    ASSUME NEW S \in SUBSET Nat, S # {}, NEW N \in Nat, \A n \in S : n <= N
    PROVE  Max(S) \in S /\ \A m \in S : Max(S) >= m
<1>1. \E n \in S : \A m \in S : n >= m
  BY GreatestNat
<1> QED BY <1>1, Zenon DEF Max

LEMMA TrimSpaceKeeps ==
    ASSUME NEW t \in ByteStrings
    PROVE  /\ TrimSpace(t) \in ByteStrings /\ Len(TrimSpace(t)) <= Len(t)
           /\ Words(TrimSpace(t)) = Words(t)
<1> DEFINE solid == {i \in 1..Len(t) : t[i] \notin Space}
<1>1. t \in Seq(Byte) /\ Len(t) \in Nat /\ Len(t) <= MaxTextLen
  BY ByteStringsAre, LenProperties
<1>2. CASE solid = {}
  <2>1. \A i \in 1..Len(t) : t[i] \in Space
    BY <1>2
  <2>2. Words(t) = <<>>
    BY <1>1, <2>1, WordsOfSpace
  <2>3. TrimSpace(t) = <<>>
    BY <1>2 DEF TrimSpace
  <2>4. <<>> \in Seq(Byte) /\ Len(<<>>) = 0
    BY EmptySeq
  <2>5. PICK e \in Seq(Byte) : e = <<>> /\ Len(e) = 0
    BY <2>4
  <2>6. Words(e) = <<>>
    <3>1. \A i \in 1..Len(e) : e[i] \in Space
      BY <2>5
    <3> QED BY <3>1, WordsOfSpace
  <2>7. e \in ByteStrings
    <3>1. Len(e) <= MaxTextLen
      BY <2>5, ChatAssumption
    <3> QED BY <3>1, ByteStringsAre
  <2> QED BY <2>2, <2>3, <2>5, <2>6, <2>7, <1>1
<1>3. CASE solid # {}
  <2> DEFINE a == Min(solid)
             b == Max(solid)
  <2>1. solid \in SUBSET Nat /\ \A n \in solid : n <= Len(t)
    BY <1>1
  <2>2. a \in solid /\ b \in solid /\ (\A m \in solid : a <= m /\ b >= m)
    <3>1. a \in solid /\ \A m \in solid : a <= m
      BY <1>3, <2>1, MinIs
    <3>2. b \in solid /\ \A m \in solid : b >= m
      BY <1>3, <2>1, <1>1, MaxIs
    <3> QED BY <3>1, <3>2
  <2>3. TrimSpace(t) = SubSeq(t, a, b)
    BY <1>3 DEF TrimSpace
  <2> HIDE DEF a, b
  <2>4. a \in 1..Len(t) /\ b \in 1..Len(t) /\ a <= b
    BY <2>2
  <2>5. \A i \in 1..Len(t) : (i < a \/ b < i) => t[i] \in Space
    BY <2>2, <2>4
  <2> DEFINE lead == SubSeq(t, 1, a - 1)
             mid == SubSeq(t, a, b)
             trail == SubSeq(t, b + 1, Len(t))
  <2>6. /\ lead \in Seq(Byte) /\ Len(lead) = a - 1
        /\ \A i \in 1..(a - 1) : lead[i] = t[i]
    <3>1. 1 \in 1..(Len(t) + 1) /\ a - 1 \in (1 - 1)..Len(t) /\ (a - 1) - 1 + 1 = a - 1
      BY <1>1, <2>4
    <3>2. /\ lead \in Seq(Byte) /\ Len(lead) = (a - 1) - 1 + 1
          /\ \A i \in 1..((a - 1) - 1 + 1) : lead[i] = t[1 + i - 1]
      BY <3>1, PartOfText
    <3>3. \A i \in 1..(a - 1) : 1 + i - 1 = i
      BY <2>4
    <3> HIDE DEF lead
    <3> QED BY <3>1, <3>2, <3>3
  <2>7. mid \in Seq(Byte) /\ mid \in ByteStrings /\ Len(mid) = b - a + 1
    <3>1. a \in 1..(Len(t) + 1) /\ b \in (a - 1)..Len(t)
      BY <1>1, <2>4
    <3> QED BY <3>1, PartOfText
  <2>8. /\ trail \in Seq(Byte) /\ Len(trail) = Len(t) - b
        /\ \A i \in 1..(Len(t) - b) : trail[i] = t[b + i]
    <3>1. b + 1 \in 1..(Len(t) + 1) /\ Len(t) \in ((b + 1) - 1)..Len(t)
          /\ Len(t) - (b + 1) + 1 = Len(t) - b
      BY <1>1, <2>4
    <3>2. /\ trail \in Seq(Byte) /\ Len(trail) = Len(t) - (b + 1) + 1
          /\ \A i \in 1..(Len(t) - (b + 1) + 1) : trail[i] = t[(b + 1) + i - 1]
      BY SMTT(40), <3>1, PartOfText
    <3>3. \A i \in 1..(Len(t) - b) : (b + 1) + i - 1 = b + i
      BY <2>4
    <3> HIDE DEF trail
    <3> QED BY <3>1, <3>2, <3>3
  <2>9. (lead \o mid) \o trail = t
    <3>1. /\ a - 1 \in (1 - 1)..Len(t) /\ b \in (a - 1)..Len(t) /\ 1 \in 1..(Len(t) + 1)
          /\ b \in (1 - 1)..Len(t) /\ Len(t) \in b..Len(t) /\ (a - 1) + 1 = a
      BY <1>1, <2>4
    <3>2. SubSeq(t, 1, a - 1) \o SubSeq(t, (a - 1) + 1, b) = SubSeq(t, 1, b)
      BY <1>1, <3>1, ConcatAdjacentSubSeq
    <3>3. SubSeq(t, 1, b) \o SubSeq(t, b + 1, Len(t)) = SubSeq(t, 1, Len(t))
      BY <1>1, <3>1, ConcatAdjacentSubSeq
    <3>4. SubSeq(t, 1, Len(t)) = t
      BY <1>1, SubSeqFull
    <3> QED BY <3>1, <3>2, <3>3, <3>4
  <2>10. (\A i \in 1..Len(lead) : lead[i] \in Space) /\ (\A i \in 1..Len(trail) : trail[i] \in Space)
    <3>1. ASSUME NEW i \in 1..Len(lead) PROVE lead[i] \in Space
      <4>1. i \in 1..(a - 1) /\ i \in 1..Len(t) /\ i < a
        BY <2>4, <2>6, <1>1
      <4> QED BY <4>1, <2>6, <2>5
    <3>2. ASSUME NEW i \in 1..Len(trail) PROVE trail[i] \in Space
      <4>1. i \in 1..(Len(t) - b) /\ b + i \in 1..Len(t) /\ b < b + i
        BY <2>4, <2>8, <1>1
      <4> QED BY <4>1, <2>8, <2>5
    <3> HIDE DEF lead, trail
    <3> QED BY <3>1, <3>2
  <2> HIDE DEF lead, mid, trail
  <2>11. Words(lead) = <<>> /\ Words(trail) = <<>> /\ Words(mid) \in Seq(Byte)
    BY <2>6, <2>7, <2>8, <2>10, WordsOfSpace, WordsTyped
  <2>12. Words(t) = (Words(lead) \o Words(mid)) \o Words(trail)
    <3>1. lead \o mid \in Seq(Byte)
      BY <2>6, <2>7, ConcatProperties
    <3>2. Words((lead \o mid) \o trail) = Words(lead \o mid) \o Words(trail)
      BY <3>1, <2>8, WordsConcat
    <3>3. Words(lead \o mid) = Words(lead) \o Words(mid)
      BY <2>6, <2>7, WordsConcat
    <3> QED BY <2>9, <3>2, <3>3
  <2>13. (<<>> \o Words(mid)) \o <<>> = Words(mid)
    <3>1. PICK x \in Seq(Byte) : x = Words(mid)
      BY <2>11
    <3>2. <<>> \o x = x /\ x \o <<>> = x
      BY ConcatEmptySeq
    <3> QED BY <3>1, <3>2
  <2>14. Words(t) = Words(mid)
    BY <2>11, <2>12, <2>13
  <2>15. Len(mid) <= Len(t)
    BY <2>4, <2>7, <1>1
  <2> QED BY <2>3, <2>7, <2>14, <2>15 DEF mid
<1> QED
  BY <1>2, <1>3

\* What holds of a text if it holds of all shorter ones holds of every text.
LEMMA ByLength ==
    ASSUME NEW G,
           \A t \in ByteStrings : (\A s \in ByteStrings : Len(s) < Len(t) => s \in G) => t \in G
    PROVE  ByteStrings \subseteq G
<1> DEFINE Bad == {n \in Nat : \E t \in ByteStrings : Len(t) = n /\ t \notin G}
<1> SUFFICES ASSUME NEW u \in ByteStrings, u \notin G PROVE FALSE
  OBVIOUS
<1>1. \A t \in ByteStrings : Len(t) \in Nat
  BY ByteStringsAre, LenProperties
<1>2. Bad # {}
  BY <1>1
<1>3. PICK n \in Bad : \A m \in Bad : n <= m
  BY <1>2, LeastNat
<1>4. PICK t \in ByteStrings : Len(t) = n /\ t \notin G
  BY <1>3
<1>5. ASSUME NEW s \in ByteStrings, Len(s) < Len(t) PROVE s \in G
  <2> SUFFICES ASSUME s \notin G PROVE FALSE
    OBVIOUS
  <2>1. Len(s) \in Bad /\ Len(s) \in Nat /\ n \in Nat
    BY <1>1
  <2>2. n <= Len(s) /\ Len(s) < n
    BY <2>1, <1>3, <1>4, <1>5
  <2> QED BY <2>1, <2>2
<1> QED
  BY <1>4, <1>5
\* What LastIndex finds begins and ends within the first ChunkLen bytes.
LEMMA LastIndexIs ==
    ASSUME NEW t, NEW b, Len(b) \in 1..2
    PROVE  LastIndex(t, b) = -1 \/ LastIndex(t, b) \in 0..(ChunkLen - Len(b))
<1> DEFINE at == {i \in 0..ChunkLen - Len(b) : SubSeq(t, i + 1, i + Len(b)) = b}
<1>1. CASE at = {}
  BY SMTT(40), <1>1 DEF LastIndex
<1>2. CASE at # {}
  <2>1. at \in SUBSET Nat /\ \A n \in at : n <= ChunkLen
    BY ChatAssumption
  <2>2. Max(at) \in at
    BY <1>2, <2>1, MaxIs, ChatAssumption
  <2>3. LastIndex(t, b) = Max(at)
    BY <1>2 DEF LastIndex
  <2> QED BY <2>2, <2>3
<1> QED BY <1>1, <1>2

LEMMA CutIndexes ==
    ASSUME NEW t
    PROVE  /\ LastIndex(t, <<"n", "n">>) \in -1..(ChunkLen - 2)
           /\ LastIndex(t, <<"n">>) \in -1..(ChunkLen - 1)
           /\ LastIndex(t, <<" ">>) \in -1..(ChunkLen - 1)
<1>0. ChunkLen \in Nat /\ ChunkLen >= 1
  BY ChatAssumption
<1>1. LastIndex(t, <<"n", "n">>) \in -1..(ChunkLen - 2)
  <2>1. Len(<<"n", "n">>) = 2
    OBVIOUS
  <2>2. PICK b : b = <<"n", "n">> /\ Len(b) = 2
    BY <2>1, Zenon
  <2>3. Len(b) = 2
    BY <2>2, Zenon
  <2>4. Len(b) \in 1..2
    BY ONLY <2>3
  <2>5. LastIndex(t, b) = -1 \/ LastIndex(t, b) \in 0..(ChunkLen - Len(b))
    BY <2>4, LastIndexIs, Zenon
  <2>6. LastIndex(t, b) \in -1..(ChunkLen - 2)
    BY ONLY <2>3, <2>5, <1>0
  <2> QED BY <2>2, <2>6, Zenon
<1>2. LastIndex(t, <<"n">>) \in -1..(ChunkLen - 1)
  <2>1. Len(<<"n">>) = 1
    OBVIOUS
  <2>2. PICK b : b = <<"n">> /\ Len(b) = 1
    BY <2>1, Zenon
  <2>3. Len(b) = 1
    BY <2>2, Zenon
  <2>4. Len(b) \in 1..2
    BY ONLY <2>3
  <2>5. LastIndex(t, b) = -1 \/ LastIndex(t, b) \in 0..(ChunkLen - Len(b))
    BY <2>4, LastIndexIs, Zenon
  <2>6. LastIndex(t, b) \in -1..(ChunkLen - 1)
    BY ONLY <2>3, <2>5, <1>0
  <2> QED BY <2>2, <2>6, Zenon
<1>3. LastIndex(t, <<" ">>) \in -1..(ChunkLen - 1)
  <2>1. Len(<<" ">>) = 1
    OBVIOUS
  <2>2. PICK b : b = <<" ">> /\ Len(b) = 1
    BY <2>1, Zenon
  <2>3. Len(b) = 1
    BY <2>2, Zenon
  <2>4. Len(b) \in 1..2
    BY ONLY <2>3
  <2>5. LastIndex(t, b) = -1 \/ LastIndex(t, b) \in 0..(ChunkLen - Len(b))
    BY <2>4, LastIndexIs, Zenon
  <2>6. LastIndex(t, b) \in -1..(ChunkLen - 1)
    BY ONLY <2>3, <2>5, <1>0
  <2> QED BY <2>2, <2>6, Zenon
<1> QED BY <1>1, <1>2, <1>3

LEMMA TelegramCutIs == ASSUME NEW t PROVE TelegramCut(t) \in 1..ChunkLen
<1> DEFINE para == LastIndex(t, <<"n", "n">>)
           line == LastIndex(t, <<"n">>)
           word == LastIndex(t, <<" ">>)
<1>2. para \in -1..(ChunkLen - 2) /\ line \in -1..(ChunkLen - 1) /\ word \in -1..(ChunkLen - 1)
  BY CutIndexes
<1>3. TelegramCut(t) = LET cut == IF para # -1 THEN para ELSE IF line # -1 THEN line ELSE word
                       IN  IF cut \in {-1, 0} THEN ChunkLen ELSE cut
  BY DEF TelegramCut
<1> HIDE DEF para, line, word
<1> QED BY <1>2, <1>3, ChatAssumption

LEMMA SlackCutIs ==
    ASSUME NEW t \in ByteStrings, t # <<>>
    PROVE  SlackCut(t) \in 1..Len(t) /\ SlackCut(t) <= ChunkLen
<1> DEFINE line == LastIndex(t, <<"n">>)
<1>1. Len(t) \in Nat /\ Len(t) # 0
  BY ByteStringsAre, LenProperties, EmptySeq
<1>2. line \in -1..(ChunkLen - 1)
  BY CutIndexes
<1>3. /\ Min({ChunkLen, Len(t)}) \in {ChunkLen, Len(t)}
      /\ Min({ChunkLen, Len(t)}) <= ChunkLen /\ Min({ChunkLen, Len(t)}) <= Len(t)
  <2>1. {ChunkLen, Len(t)} \in SUBSET Nat /\ {ChunkLen, Len(t)} # {}
    BY <1>1, ChatAssumption
  <2>2. /\ Min({ChunkLen, Len(t)}) \in {ChunkLen, Len(t)}
        /\ \A m \in {ChunkLen, Len(t)} : Min({ChunkLen, Len(t)}) <= m
    BY <2>1, MinIs
  <2> QED BY <2>2
<1>4. SlackCut(t) = IF Len(t) > ChunkLen /\ line > 0 THEN line + 1 ELSE Min({ChunkLen, Len(t)})
  BY DEF SlackCut
<1> HIDE DEF line
<1> QED BY <1>1, <1>2, <1>3, <1>4, ChatAssumption

LEMMA DiscordCutIs == ASSUME NEW t PROVE DiscordCut(t) \in 1..ChunkLen
<1> DEFINE at == {i \in (ChunkLen \div 2) + 2..ChunkLen : t[i] \in Space}
<1>1. ChunkLen \in Nat /\ ChunkLen >= 1 /\ ChunkLen \div 2 \in Nat
  BY ChatAssumption
<1>2. CASE at = {}
  BY <1>1, <1>2 DEF DiscordCut
<1>3. CASE at # {}
  <2>1. at \in SUBSET Nat /\ \A n \in at : n <= ChunkLen
    BY <1>1
  <2>2. Max(at) \in at
    BY <1>1, <1>3, <2>1, MaxIs
  <2>3. DiscordCut(t) = Max(at)
    BY <1>3 DEF DiscordCut
  <2>4. \A i \in at : i \in 1..ChunkLen
    BY <1>1
  <2> QED BY <2>2, <2>3, <2>4
<1> QED BY <1>2, <1>3
-----------------------------------------------------------------------------
(***************************************************************************)
(* The three splits.                                                       *)
(***************************************************************************)

LEMMA SlackRestIs ==
    \A t \in ByteStrings :
       SlackRest[t] = IF t = <<>> THEN <<>>
                      ELSE <<SubSeq(t, 1, SlackCut(t))>> \o SlackRest[Drop(t, SlackCut(t))]
<1> DEFINE E == {t \in ByteStrings : t = <<>>}
           size == [t \in ByteStrings |-> Len(t)]
           rest == [t \in ByteStrings \ E |-> Drop(t, SlackCut(t))]
           stop == [t \in ByteStrings |-> <<>>]
           first == [t \in ByteStrings |-> <<SubSeq(t, 1, SlackCut(t))>>]
           Step(f) == [t \in ByteStrings |->
                         IF t = <<>> THEN <<>>
                         ELSE <<SubSeq(t, 1, SlackCut(t))>> \o f[Drop(t, SlackCut(t))]]
<1>1. /\ size \in [ByteStrings -> Nat] /\ MaxTextLen + 1 \in Nat
      /\ \A t \in ByteStrings : size[t] < MaxTextLen + 1
  <2>1. \A t \in ByteStrings : Len(t) \in Nat /\ Len(t) <= MaxTextLen
    BY ByteStringsAre, LenProperties
  <2> QED BY <2>1, ChatAssumption
<1>2. rest \in [ByteStrings \ E -> ByteStrings] /\ \A t \in ByteStrings \ E : size[rest[t]] < size[t]
  <2> SUFFICES ASSUME NEW t \in ByteStrings \ E
               PROVE  /\ Drop(t, SlackCut(t)) \in ByteStrings
                      /\ size[Drop(t, SlackCut(t))] < size[t]
    OBVIOUS
  <2>1. t \in ByteStrings /\ SlackCut(t) \in 1..Len(t) /\ Len(t) \in Nat
    BY SlackCutIs, ByteStringsAre, LenProperties
  <2>2. SlackCut(t) \in 0..Len(t)
    BY <2>1
  <2>3. Drop(t, SlackCut(t)) \in ByteStrings /\ Len(Drop(t, SlackCut(t))) = Len(t) - SlackCut(t)
    BY <2>1, <2>2, CutText
  <2> QED BY <2>1, <2>3
<1>3. E \in SUBSET ByteStrings
  OBVIOUS
<1> HIDE DEF E, size, rest, stop, first
<1>4. Shrinks(ByteStrings, E, size, MaxTextLen + 1, rest)
  BY <1>1, <1>2, <1>3 DEF Shrinks
<1>5. PICK f : Recurs(f, ByteStrings, E, stop, first, rest)
  BY <1>4, RecursionExists, Zenon
<1>6. f = Step(f)
  BY <1>5 DEF Recurs, E, rest, stop, first
<1>7. SlackRest = Step(SlackRest)
  BY <1>6, Zenon DEF SlackRest
<1> QED
  BY <1>7

LEMMA TelegramRestIs ==
    \A t \in ByteStrings :
       TelegramRest[t] =
          IF Len(t) > ChunkLen
          THEN <<TrimSpace(SubSeq(t, 1, TelegramCut(t)))>>
                  \o TelegramRest[TrimSpace(Drop(t, TelegramCut(t)))]
          ELSE IF t = <<>> THEN <<>> ELSE <<t>>
<1> DEFINE E == {t \in ByteStrings : ~(Len(t) > ChunkLen)}
           size == [t \in ByteStrings |-> Len(t)]
           rest == [t \in ByteStrings \ E |-> TrimSpace(Drop(t, TelegramCut(t)))]
           stop == [t \in ByteStrings |-> IF t = <<>> THEN <<>> ELSE <<t>>]
           first == [t \in ByteStrings |-> <<TrimSpace(SubSeq(t, 1, TelegramCut(t)))>>]
           Step(f) == [t \in ByteStrings |->
                         IF Len(t) > ChunkLen
                         THEN <<TrimSpace(SubSeq(t, 1, TelegramCut(t)))>>
                                 \o f[TrimSpace(Drop(t, TelegramCut(t)))]
                         ELSE IF t = <<>> THEN <<>> ELSE <<t>>]
<1>1. /\ size \in [ByteStrings -> Nat] /\ MaxTextLen + 1 \in Nat
      /\ \A t \in ByteStrings : size[t] < MaxTextLen + 1
  <2>1. \A t \in ByteStrings : Len(t) \in Nat /\ Len(t) <= MaxTextLen
    BY ByteStringsAre, LenProperties
  <2> QED BY <2>1, ChatAssumption
<1>2. rest \in [ByteStrings \ E -> ByteStrings] /\ \A t \in ByteStrings \ E : size[rest[t]] < size[t]
  <2> SUFFICES ASSUME NEW t \in ByteStrings \ E
               PROVE  /\ TrimSpace(Drop(t, TelegramCut(t))) \in ByteStrings
                      /\ size[TrimSpace(Drop(t, TelegramCut(t)))] < size[t]
    OBVIOUS
  <2>1. /\ t \in ByteStrings /\ Len(t) \in Nat /\ Len(t) > ChunkLen
        /\ TelegramCut(t) \in 1..ChunkLen
    BY TelegramCutIs, ByteStringsAre, LenProperties
  <2>2. TelegramCut(t) \in 0..Len(t) /\ TelegramCut(t) >= 1
    BY <2>1, ChatAssumption
  <2> DEFINE d == Drop(t, TelegramCut(t))
  <2>3. d \in ByteStrings /\ Len(d) = Len(t) - TelegramCut(t)
    BY <2>1, <2>2, CutText
  <2>4. TrimSpace(d) \in ByteStrings /\ Len(TrimSpace(d)) <= Len(d)
    BY <2>3, TrimSpaceKeeps
  <2>5. Len(TrimSpace(d)) \in Nat
    BY <2>4, ByteStringsAre, LenProperties
  <2> HIDE DEF d
  <2>6. Len(TrimSpace(d)) < Len(t)
    BY <2>1, <2>2, <2>3, <2>4, <2>5
  <2> QED BY <2>1, <2>4, <2>6 DEF d
<1>3. E \in SUBSET ByteStrings
  OBVIOUS
<1> HIDE DEF E, size, rest, stop, first
<1>4. Shrinks(ByteStrings, E, size, MaxTextLen + 1, rest)
  BY <1>1, <1>2, <1>3 DEF Shrinks
<1>5. PICK f : Recurs(f, ByteStrings, E, stop, first, rest)
  BY <1>4, RecursionExists, Zenon
<1>6. f = Step(f)
  BY <1>5 DEF Recurs, E, rest, stop, first
<1>7. TelegramRest = Step(TelegramRest)
  BY <1>6, Zenon DEF TelegramRest
<1> QED
  BY <1>7

LEMMA DiscordRestIs ==
    \A t \in ByteStrings :
       DiscordRest[t] =
          IF Len(t) <= ChunkLen THEN <<t>>
          ELSE <<SubSeq(t, 1, DiscordCut(t))>> \o DiscordRest[Drop(t, DiscordCut(t))]
<1> DEFINE E == {t \in ByteStrings : Len(t) <= ChunkLen}
           size == [t \in ByteStrings |-> Len(t)]
           rest == [t \in ByteStrings \ E |-> Drop(t, DiscordCut(t))]
           stop == [t \in ByteStrings |-> <<t>>]
           first == [t \in ByteStrings |-> <<SubSeq(t, 1, DiscordCut(t))>>]
           Step(f) == [t \in ByteStrings |->
                         IF Len(t) <= ChunkLen THEN <<t>>
                         ELSE <<SubSeq(t, 1, DiscordCut(t))>> \o f[Drop(t, DiscordCut(t))]]
<1>1. /\ size \in [ByteStrings -> Nat] /\ MaxTextLen + 1 \in Nat
      /\ \A t \in ByteStrings : size[t] < MaxTextLen + 1
  <2>1. \A t \in ByteStrings : Len(t) \in Nat /\ Len(t) <= MaxTextLen
    BY ByteStringsAre, LenProperties
  <2> QED BY <2>1, ChatAssumption
<1>2. rest \in [ByteStrings \ E -> ByteStrings] /\ \A t \in ByteStrings \ E : size[rest[t]] < size[t]
  <2> SUFFICES ASSUME NEW t \in ByteStrings \ E
               PROVE  /\ Drop(t, DiscordCut(t)) \in ByteStrings
                      /\ size[Drop(t, DiscordCut(t))] < size[t]
    OBVIOUS
  <2>1. /\ t \in ByteStrings /\ Len(t) \in Nat /\ ~(Len(t) <= ChunkLen)
        /\ DiscordCut(t) \in 1..ChunkLen
    BY DiscordCutIs, ByteStringsAre, LenProperties
  <2>2. DiscordCut(t) \in 0..Len(t) /\ DiscordCut(t) >= 1
    BY <2>1, ChatAssumption
  <2>3. Drop(t, DiscordCut(t)) \in ByteStrings /\ Len(Drop(t, DiscordCut(t))) = Len(t) - DiscordCut(t)
    BY <2>1, <2>2, CutText
  <2> QED BY <2>1, <2>2, <2>3
<1>3. E \in SUBSET ByteStrings
  OBVIOUS
<1> HIDE DEF E, size, rest, stop, first
<1>4. Shrinks(ByteStrings, E, size, MaxTextLen + 1, rest)
  BY <1>1, <1>2, <1>3 DEF Shrinks
<1>5. PICK f : Recurs(f, ByteStrings, E, stop, first, rest)
  BY <1>4, RecursionExists, Zenon
<1>6. f = Step(f)
  BY <1>5 DEF Recurs, E, rest, stop, first
<1>7. DiscordRest = Step(DiscordRest)
  BY <1>6, Zenon DEF DiscordRest
<1> QED
  BY <1>7
Fits(parts) == \A i \in 1..Len(parts) : Len(parts[i]) <= ChunkLen

\* parts are what a text was split into.
Parts(parts) == parts \in Seq(Seq(Byte)) /\ Fits(parts)

LEMMA FlattenOne ==
    ASSUME NEW a \in Seq(Byte)
    PROVE  FlattenSeq(<<a>>) = a
<1>1. <<a>> \in Seq(Seq(Byte)) /\ Len(<<a>>) = 1 /\ <<a>>[1] = a
  OBVIOUS
<1>2. PICK w \in Seq(Seq(Byte)) : w = <<a>> /\ Len(w) = 1 /\ w[1] = a
  BY <1>1
<1>3. Flat(w)[1] = w[1]
  <2>1. 1 \in 1..Len(w)
    BY <1>2
  <2> QED BY <2>1, FlatIs
<1>4. Len(w) = 1 /\ Len(w) # 0
  BY <1>2
<1>5. FlattenSeq(w) = Flat(w)[1]
  BY ONLY <1>4, FlattenIsFlat
<1> QED BY <1>2, <1>3, <1>5

LEMMA OnePart ==
    ASSUME NEW a \in Seq(Byte), Len(a) <= ChunkLen
    PROVE  Parts(<<a>>) /\ FlattenSeq(<<a>>) = a
<1>1. <<a>> \in Seq(Seq(Byte)) /\ Len(<<a>>) = 1 /\ <<a>>[1] = a
  OBVIOUS
<1>2. Parts(<<a>>)
  BY <1>1 DEF Parts, Fits
<1> QED BY <1>2, FlattenOne

LEMMA NoPart == Parts(<<>>) /\ FlattenSeq(<<>>) = <<>>
<1>1. <<>> \in Seq(Seq(Byte)) /\ Len(<<>>) = 0
  BY EmptySeq
<1> QED BY <1>1, FlattenEmpty DEF Parts, Fits

LEMMA NextPart ==
    ASSUME NEW a \in Seq(Byte), Len(a) <= ChunkLen, NEW parts, Parts(parts)
    PROVE  /\ Parts(<<a>> \o parts) /\ FlattenSeq(parts) \in Seq(Byte)
           /\ FlattenSeq(<<a>> \o parts) = a \o FlattenSeq(parts)
<1>1. parts \in Seq(Seq(Byte)) /\ Len(parts) \in Nat /\ \A i \in 1..Len(parts) : Len(parts[i]) <= ChunkLen
  BY LenProperties DEF Parts, Fits
<1> DEFINE w == <<a>> \o parts
<1>2. /\ w \in Seq(Seq(Byte)) /\ Len(w) = Len(parts) + 1
      /\ w[1] = a /\ \A i \in 1..Len(parts) : w[i + 1] = parts[i]
  BY <1>1
<1> HIDE DEF w
<1>3. ASSUME NEW i \in 1..Len(w) PROVE Len(w[i]) <= ChunkLen
  <2>1. CASE i = 1
    BY <2>1, <1>2
  <2>2. CASE i # 1
    <3>1. i - 1 \in 1..Len(parts) /\ (i - 1) + 1 = i
      BY <2>2, <1>1, <1>2
    <3>2. w[i] = parts[i - 1]
      BY <3>1, <1>2
    <3> QED BY <3>1, <3>2, <1>1
  <2> QED BY <2>1, <2>2
<1>4. Parts(w)
  BY <1>2, <1>3 DEF Parts, Fits
<1>5. FlattenSeq(parts) \in Seq(Byte)
  BY <1>1, FlattenTyped
<1>6. FlattenSeq(<<a>> \o parts) = a \o FlattenSeq(parts)
  BY <1>1, FlattenStep
<1> QED BY <1>4, <1>5, <1>6 DEF w

\* Slack's chunks are the text.
LEMMA SlackIsSound ==
    \A t \in ByteStrings : Parts(SlackRest[t]) /\ FlattenSeq(SlackRest[t]) = t
<1> DEFINE G == {t \in ByteStrings : Parts(SlackRest[t]) /\ FlattenSeq(SlackRest[t]) = t}
<1>1. ASSUME NEW t \in ByteStrings, \A s \in ByteStrings : Len(s) < Len(t) => s \in G
      PROVE  t \in G
  <2>1. CASE t = <<>>
    <3>1. SlackRest[t] = <<>>
      BY <2>1, SlackRestIs
    <3> QED BY <2>1, <3>1, NoPart
  <2>2. CASE t # <<>>
    <3> DEFINE a == SubSeq(t, 1, SlackCut(t))
               d == Drop(t, SlackCut(t))
    <3>1. /\ SlackCut(t) \in 1..Len(t) /\ SlackCut(t) <= ChunkLen /\ Len(t) \in Nat
          /\ SlackCut(t) \in 0..Len(t)
      BY <2>2, SlackCutIs, ByteStringsAre, LenProperties
    <3>2. /\ a \in Seq(Byte) /\ Len(a) = SlackCut(t) /\ d \in ByteStrings
          /\ Len(d) = Len(t) - SlackCut(t) /\ a \o d = t
      BY <3>1, CutText
    <3>3. SlackRest[t] = <<a>> \o SlackRest[d]
      BY <2>2, SlackRestIs
    <3> HIDE DEF a, d
    <3>4. Len(d) < Len(t) /\ Len(a) <= ChunkLen
      BY <3>1, <3>2
    <3>5. Parts(SlackRest[d]) /\ FlattenSeq(SlackRest[d]) = d
      BY <3>2, <3>4, <1>1
    <3>6. /\ Parts(<<a>> \o SlackRest[d])
          /\ FlattenSeq(<<a>> \o SlackRest[d]) = a \o FlattenSeq(SlackRest[d])
      BY <3>2, <3>4, <3>5, NextPart
    <3> QED BY <3>2, <3>3, <3>5, <3>6
  <2> QED BY <2>1, <2>2
<1> HIDE DEF G
<1>2. ByteStrings \subseteq G
  BY <1>1, ByLength
<1> QED BY <1>2 DEF G

\* So are discord's.
LEMMA DiscordIsSound ==
    \A t \in ByteStrings : Parts(DiscordRest[t]) /\ FlattenSeq(DiscordRest[t]) = t
<1> DEFINE G == {t \in ByteStrings : Parts(DiscordRest[t]) /\ FlattenSeq(DiscordRest[t]) = t}
<1>1. ASSUME NEW t \in ByteStrings, \A s \in ByteStrings : Len(s) < Len(t) => s \in G
      PROVE  t \in G
  <2>0. t \in Seq(Byte) /\ Len(t) \in Nat
    BY ByteStringsAre, LenProperties
  <2>1. CASE Len(t) <= ChunkLen
    <3>1. DiscordRest[t] = <<t>>
      BY <2>1, DiscordRestIs
    <3>2. Parts(<<t>>) /\ FlattenSeq(<<t>>) = t
      BY <2>0, <2>1, OnePart
    <3> QED BY <3>1, <3>2
  <2>2. CASE ~(Len(t) <= ChunkLen)
    <3> DEFINE a == SubSeq(t, 1, DiscordCut(t))
               d == Drop(t, DiscordCut(t))
    <3>1. DiscordCut(t) \in 0..Len(t) /\ DiscordCut(t) <= ChunkLen /\ DiscordCut(t) >= 1
      BY <2>0, <2>2, DiscordCutIs, ChatAssumption
    <3>2. /\ a \in Seq(Byte) /\ Len(a) = DiscordCut(t) /\ d \in ByteStrings
          /\ Len(d) = Len(t) - DiscordCut(t) /\ a \o d = t
      BY <3>1, CutText
    <3>3. DiscordRest[t] = <<a>> \o DiscordRest[d]
      BY <2>2, DiscordRestIs
    <3> HIDE DEF a, d
    <3>4. Len(d) < Len(t) /\ Len(a) <= ChunkLen
      BY <2>0, <3>1, <3>2
    <3>5. Parts(DiscordRest[d]) /\ FlattenSeq(DiscordRest[d]) = d
      BY <3>2, <3>4, <1>1
    <3>6. /\ Parts(<<a>> \o DiscordRest[d])
          /\ FlattenSeq(<<a>> \o DiscordRest[d]) = a \o FlattenSeq(DiscordRest[d])
      BY <3>2, <3>4, <3>5, NextPart
    <3> QED BY <3>2, <3>3, <3>5, <3>6
  <2> QED BY <2>1, <2>2
<1> HIDE DEF G
<1>2. ByteStrings \subseteq G
  BY <1>1, ByLength
<1> QED BY <1>2 DEF G

\* Telegram's have the words of the text.
LEMMA TelegramIsSound ==
    \A t \in ByteStrings :
       Parts(TelegramRest[t]) /\ Words(FlattenSeq(TelegramRest[t])) = Words(t)
<1> DEFINE G == {t \in ByteStrings :
                   Parts(TelegramRest[t]) /\ Words(FlattenSeq(TelegramRest[t])) = Words(t)}
<1>1. ASSUME NEW t \in ByteStrings, \A s \in ByteStrings : Len(s) < Len(t) => s \in G
      PROVE  t \in G
  <2>0. t \in Seq(Byte) /\ Len(t) \in Nat
    BY ByteStringsAre, LenProperties
  <2>1. CASE t = <<>>
    <3>1. Len(t) = 0 /\ ~(Len(t) > ChunkLen)
      BY <2>1, ChatAssumption
    <3>2. TelegramRest[t] = <<>>
      BY <2>1, <3>1, TelegramRestIs
    <3> QED BY <2>1, <3>2, NoPart
  <2>2. CASE t # <<>> /\ ~(Len(t) > ChunkLen)
    <3>1. TelegramRest[t] = <<t>>
      BY <2>2, TelegramRestIs
    <3>2. Len(t) <= ChunkLen
      BY <2>0, <2>2, ChatAssumption
    <3>3. Parts(<<t>>) /\ FlattenSeq(<<t>>) = t
      BY <2>0, <3>2, OnePart
    <3> QED BY <3>1, <3>3
  <2>3. CASE Len(t) > ChunkLen
    <3> DEFINE a == SubSeq(t, 1, TelegramCut(t))
               d == Drop(t, TelegramCut(t))
               ta == TrimSpace(a)
               td == TrimSpace(d)
    <3>1. TelegramCut(t) \in 0..Len(t) /\ TelegramCut(t) <= ChunkLen /\ TelegramCut(t) >= 1
      BY <2>0, <2>3, TelegramCutIs, ChatAssumption
    <3>2. /\ a \in Seq(Byte) /\ a \in ByteStrings /\ Len(a) = TelegramCut(t)
          /\ d \in Seq(Byte) /\ d \in ByteStrings /\ Len(d) = Len(t) - TelegramCut(t) /\ a \o d = t
      BY <3>1, CutText
    <3>3. TelegramRest[t] = <<ta>> \o TelegramRest[td]
      BY <2>3, TelegramRestIs
    <3> HIDE DEF a, d
    <3>4. /\ ta \in ByteStrings /\ Len(ta) <= Len(a) /\ Words(ta) = Words(a)
          /\ td \in ByteStrings /\ Len(td) <= Len(d) /\ Words(td) = Words(d)
      BY <3>2, TrimSpaceKeeps
    <3> HIDE DEF ta, td
    <3>5. ta \in Seq(Byte) /\ Len(ta) \in Nat /\ td \in Seq(Byte) /\ Len(td) \in Nat
      BY <3>4, ByteStringsAre, LenProperties
    <3>6. Len(td) < Len(t) /\ Len(ta) <= ChunkLen
      BY <2>0, <3>1, <3>2, <3>4, <3>5, ChatAssumption
    <3>7. Parts(TelegramRest[td]) /\ Words(FlattenSeq(TelegramRest[td])) = Words(td)
      BY <3>4, <3>6, <1>1
    <3>8. /\ Parts(<<ta>> \o TelegramRest[td]) /\ FlattenSeq(TelegramRest[td]) \in Seq(Byte)
          /\ FlattenSeq(<<ta>> \o TelegramRest[td]) = ta \o FlattenSeq(TelegramRest[td])
      BY <3>5, <3>6, <3>7, NextPart
    <3>9. Words(ta \o FlattenSeq(TelegramRest[td])) = Words(ta) \o Words(FlattenSeq(TelegramRest[td]))
      <4>1. PICK x \in Seq(Byte) : x = FlattenSeq(TelegramRest[td])
        BY <3>8
      <4>2. Words(ta \o x) = Words(ta) \o Words(x)
        BY <3>5, WordsConcat
      <4> QED BY <4>1, <4>2
    <3>10. Words(a \o d) = Words(a) \o Words(d)
      BY <3>2, WordsConcat
    <3> QED BY <3>2, <3>3, <3>4, <3>7, <3>8, <3>9, <3>10
  <2> QED BY <2>1, <2>2, <2>3
<1> HIDE DEF G
<1>2. ByteStrings \subseteq G
  BY <1>1, ByLength
<1> QED BY <1>2 DEF G
-----------------------------------------------------------------------------
(***************************************************************************)
(* The invariant.                                                          *)
(***************************************************************************)
Busy(p) == call[p].pc \in {"load", "ask", "answer"}

Kinds == {"none", "text", "empty", "button", "command", "bot", "garbled", "other"}
RowRec == [on : BOOLEAN, there : BOOLEAN, open : BOOLEAN, chats : SUBSET Chats]
LoopRec == [on : BOOLEAN, live : BOOLEAN, chats : SUBSET Chats, offset : Nat, batch : Seq(ChatEvents)]
CallRec == [pc : {"idle", "load", "ask", "answer", "done"}, ev : ChatEvents \union {Nil},
            ch : ChatChannels \union {Nil}, late : BOOLEAN]

ChatTypes ==
    /\ platform \in Platforms /\ polled \in ChatChannels \union {Nil} /\ settled \in BOOLEAN
    /\ row \in [ChatChannels -> RowRec]
    /\ event \in [ChatEvents -> [kind : Kinds, chat : Chats, slug : ChatChannels \union {Nil}]]
    /\ updates \in Seq(ChatEvents) /\ confirmed \in 0..Len(updates)
    /\ loop \in [PollLoops -> LoopRec] /\ call \in [Calls -> CallRec]
    /\ post \in [ChatSends -> [pc : {"idle", "post", "refused", "sent", "error"},
                               ch : ChatChannels \union {Nil}]]
    /\ count \in [ChatChannels -> Nat] /\ free \in [ChatChannels -> Nat]
    /\ racers \in [ChatChannels -> Nat]
    /\ asked \in [ChatEvents -> Nat] /\ posted \in [ChatEvents -> Nat]
    /\ tried \subseteq ChatEvents /\ accepted \subseteq ChatEvents /\ again \subseteq ChatEvents
    /\ chatFaults \in Nat
    /\ \A k \in Calls : /\ Busy(k) => call[k].ev \in ChatEvents
                        /\ call[k].pc \in {"ask", "answer"} => call[k].ch \in ChatChannels
    /\ \A s \in ChatSends : post[s].pc = "post" => post[s].ch \in ChatChannels

\* Only one of the two ways in is open, and an event comes once.
EntryInv ==
    /\ polled = Nil => confirmed = 0 /\ \A p \in PollLoops : ~loop[p].on
    /\ polled # Nil => accepted = {} /\ \A h \in HookCalls : call[h].pc = "idle"
    /\ \A i \in 1..Len(updates) : event[updates[i]].kind # "none"
    /\ \A i, j \in 1..Len(updates) : updates[i] = updates[j] => i = j

LoopInv ==
    /\ \A p \in PollLoops :
          /\ loop[p].live => loop[p].on
          /\ ~loop[p].on => loop[p] = LoopOff /\ call[p].pc = "idle"
          /\ call[p].pc # "done"
          /\ loop[p].offset + Len(loop[p].batch) <= Len(updates)
          /\ \A i \in 1..Len(loop[p].batch) : loop[p].batch[i] = updates[loop[p].offset + i]
          /\ Busy(p) => loop[p].offset > 0 /\ call[p].ev = updates[loop[p].offset]
          /\ loop[p].live /\ loop[p].batch # <<>> => confirmed <= loop[p].offset
          /\ loop[p].live /\ Busy(p) => confirmed < loop[p].offset
    /\ \A p, q \in PollLoops : loop[p].live /\ loop[q].live => p = q
    /\ \A h \in HookCalls : call[h].pc # "load"

TriedInv ==
    /\ ConfirmedIsTried /\ AcceptedIsTried
    /\ \A p \in PollLoops : loop[p].live =>
          \A i \in 1..loop[p].offset :
             updates[i] \in tried \/ (i = loop[p].offset /\ call[p].pc \in {"load", "ask"})

\* The call is going to ask the agent.
WillAsk(k) == call[k].pc = "ask" \/ (call[k].pc = "load" /\ loop[k].live)
Touched(e) == asked[e] > 0 \/ \E k \in Calls : WillAsk(k) /\ call[k].ev = e
Reached(i) == i <= confirmed \/ \E p \in PollLoops : loop[p].live /\ i <= loop[p].offset
OnceInv ==
    \A e \in ChatEvents \ again :
       /\ asked[e] <= 1
       /\ \A k \in Calls : WillAsk(k) /\ call[k].ev = e => asked[e] = 0
       /\ \A k, l \in Calls : WillAsk(k) /\ WillAsk(l) /\ call[k].ev = e /\ call[l].ev = e => k = l
       /\ Touched(e) => e \in accepted \/ \E i \in 1..Len(updates) : updates[i] = e /\ Reached(i)

Answering(e) == {k \in Calls : call[k].pc = "answer" /\ call[k].ev = e}
QuietInv ==
    /\ \A k \in Calls : ~call[k].late
    /\ \A p \in PollLoops : loop[p].live /\ settled => row[polled].on
    /\ \A e \in ChatEvents : posted[e] + Cardinality(Answering(e)) <= asked[e]

BudgetInv ==
    \A c \in ChatChannels : count[c] + Cardinality(Posting(c)) <= ChannelBudget + free[c] + racers[c]

LEMMA SplitStep ==
    ASSUME platform \in Platforms, NEW t \in Texts, SplitText(t)
    PROVE  SplitIsSound'
<1>1. t \in ByteStrings /\ t \in Seq(Byte) /\ Len(t) \in Nat
  BY ByteStringsAre, LenProperties DEF Texts
<1>2. chunks'.text = t /\ chunks'.by = platform
  BY DEF SplitText
<1>3. Len(t) <= ChunkLen => Parts(<<t>>) /\ FlattenSeq(<<t>>) = t
  BY <1>1, OnePart
<1>4. CASE platform = "telegram"
  <2>1. chunks'.parts = TelegramSplit(t)
    BY <1>4 DEF SplitText
  <2>2. Parts(TelegramSplit(t)) /\ Words(FlattenSeq(TelegramSplit(t))) = Words(t)
    BY <1>1, <1>3, TelegramIsSound DEF TelegramSplit
  <2> QED BY <1>2, <1>4, <2>1, <2>2 DEF SplitIsSound, Parts, Fits
<1>5. CASE platform = "slack"
  <2>1. chunks'.parts = SlackSplit(t)
    BY <1>5 DEF SplitText
  <2>2. Parts(SlackSplit(t)) /\ FlattenSeq(SlackSplit(t)) = t
    BY <1>1, <1>3, SlackIsSound DEF SlackSplit
  <2> QED BY <1>2, <1>5, <2>1, <2>2 DEF SplitIsSound, Parts, Fits
<1>6. CASE platform = "discord"
  <2>1. chunks'.parts = DiscordSplit(t)
    BY <1>6 DEF SplitText
  <2>2. Parts(DiscordSplit(t)) /\ FlattenSeq(DiscordSplit(t)) = t
    BY <1>1, DiscordIsSound DEF DiscordSplit
  <2> QED BY <1>2, <1>6, <2>1, <2>2 DEF SplitIsSound, Parts, Fits
<1>7. CASE platform = "lark"
  <2>1. chunks'.parts = <<t>>
    BY <1>7 DEF SplitText
  <2>2. FlattenSeq(<<t>>) = t
    BY <1>1, FlattenOne
  <2> QED BY <1>2, <1>7, <2>1, <2>2 DEF SplitIsSound
<1> QED BY <1>4, <1>5, <1>6, <1>7 DEF Platforms

LEMMA SplitInit == ChatInit => SplitIsSound
<1> SUFFICES ASSUME ChatInit PROVE SplitIsSound
  OBVIOUS
<1>1. chunks.text = <<>> /\ chunks.by = "nobody" /\ chunks.parts = <<>>
  BY DEF ChatInit, NotSaid
<1>2. Len(<<>>) = 0 /\ FlattenSeq(<<>>) = <<>>
  BY FlattenEmpty
<1> QED BY <1>1, <1>2 DEF SplitIsSound

-----------------------------------------------------------------------------
(***************************************************************************)
(* What each step does to the types.                                       *)
(***************************************************************************)

LEMMA TypesInit == ChatInit => ChatTypes
<1> SUFFICES ASSUME ChatInit PROVE ChatTypes
  OBVIOUS
<1>1. platform \in Platforms /\ polled \in ChatChannels \union {Nil} /\ settled \in BOOLEAN
  BY DEF ChatInit
<1>2. row \in [ChatChannels -> RowRec]
  BY ZenonT(60) DEF ChatInit, Chats, RowRec
<1>3. event \in [ChatEvents -> [kind : Kinds, chat : Chats, slug : ChatChannels \union {Nil}]]
  BY DEF ChatInit, Chats, Kinds
<1>4. updates \in Seq(ChatEvents) /\ confirmed \in 0..Len(updates)
  BY DEF ChatInit
<1>5. loop \in [PollLoops -> LoopRec]
  BY DEF ChatInit, LoopOff, LoopRec, Chats
<1>6. /\ call \in [Calls -> CallRec]
      /\ \A k \in Calls : call[k].pc = "idle"
  BY DEF ChatInit, CallIdle, Calls, CallRec
<1>7. /\ post \in [ChatSends -> [pc : {"idle", "post", "refused", "sent", "error"},
                               ch : ChatChannels \union {Nil}]]
      /\ \A s \in ChatSends : post[s].pc = "idle"
  BY DEF ChatInit
<1>8. /\ count \in [ChatChannels -> Nat] /\ free \in [ChatChannels -> Nat]
      /\ racers \in [ChatChannels -> Nat]
      /\ asked \in [ChatEvents -> Nat] /\ posted \in [ChatEvents -> Nat]
  BY DEF ChatInit
<1>9. tried \subseteq ChatEvents /\ accepted \subseteq ChatEvents /\ again \subseteq ChatEvents
      /\ chatFaults \in Nat
  BY DEF ChatInit
<1> QED
  BY <1>1, <1>2, <1>3, <1>4, <1>5, <1>6, <1>7, <1>8, <1>9 DEF ChatTypes, Busy

LEMMA TypesChat ==
    ASSUME ChatTypes, NEW e \in ChatEvents, ChatHappens(e)
    PROVE  ChatTypes'
<1> USE DEF ChatTypes, Busy, Calls
<1>1. event' \in [ChatEvents -> [kind : Kinds, chat : Chats, slug : ChatChannels \union {Nil}]]
  BY DEF ChatHappens, KindsOn, Kinds
<1>2. updates' \in Seq(ChatEvents) /\ Len(updates') = Len(updates) + 1 /\ confirmed' = confirmed
  BY DEF ChatHappens
<1>3. confirmed' \in 0..Len(updates')
  BY <1>2
<1> QED BY <1>1, <1>2, <1>3 DEF ChatHappens, ChatRest

LEMMA MishapTypes ==
    ASSUME ChatTypes, NEW f, Mishap(f)
    PROVE  chatFaults' \in Nat
  BY ChatAssumption DEF Mishap, ChatTypes

LEMMA TypesRow ==
    ASSUME ChatTypes, NEW c \in ChatChannels, UpdateChannel(c) \/ DeleteChannel(c)
    PROVE  ChatTypes'
<1> USE DEF ChatTypes, Busy, Calls
<1>1. row' \in [ChatChannels -> RowRec]
  <2>1. row[c] \in RowRec /\ {"here"} \in SUBSET Chats /\ row[c].chats \in SUBSET Chats
    BY DEF RowRec, Chats
  <2>2. CASE UpdateChannel(c)
    <3>1. PICK on \in BOOLEAN, open \in BOOLEAN, ids \in {row[c].chats, {"here"}} :
             row' = [row EXCEPT ![c].on = on, ![c].open = open, ![c].chats = ids]
      BY <2>2 DEF UpdateChannel
    <3>2. ids \in SUBSET Chats
      BY <2>1
    <3>3. [row[c] EXCEPT !.on = on, !.open = open, !.chats = ids] \in RowRec
      BY ONLY <2>1, <3>2, on \in BOOLEAN, open \in BOOLEAN DEF RowRec
    <3>4. row' = [row EXCEPT ![c] = [row[c] EXCEPT !.on = on, !.open = open, !.chats = ids]]
      BY <3>1
    <3> QED BY <3>3, <3>4
  <2>3. CASE DeleteChannel(c)
    <3>1. [row[c] EXCEPT !.there = FALSE, !.on = FALSE] \in RowRec
      BY ONLY <2>1 DEF RowRec
    <3>2. row' = [row EXCEPT ![c] = [row[c] EXCEPT !.there = FALSE, !.on = FALSE]]
      BY <2>3 DEF DeleteChannel
    <3> QED BY <3>1, <3>2
  <2> QED BY <2>2, <2>3
<1>2. settled' \in BOOLEAN /\ chatFaults' \in Nat
  BY MishapTypes DEF UpdateChannel, DeleteChannel
<1> QED BY <1>1, <1>2 DEF UpdateChannel, DeleteChannel, ChatRest

LEMMA TakenUpTypes ==
    ASSUME ChatTypes, NEW ps
    PROVE  TakenUp(ps) \subseteq ChatEvents
<1> SUFFICES ASSUME NEW j \in confirmed + 1..Len(updates) PROVE updates[j] \in ChatEvents
  BY DEF TakenUp
<1>1. updates \in Seq(ChatEvents) /\ confirmed \in Nat /\ Len(updates) \in Nat
  BY LenProperties DEF ChatTypes
<1>2. j \in 1..Len(updates)
  BY <1>1
<1> QED BY <1>1, <1>2, ElementOfSeq

LEMMA EndedTypes ==
    ASSUME ChatTypes
    PROVE  [p \in PollLoops |-> [loop[p] EXCEPT !.live = FALSE]] \in [PollLoops -> LoopRec]
<1> SUFFICES ASSUME NEW p \in PollLoops PROVE [loop[p] EXCEPT !.live = FALSE] \in LoopRec
  OBVIOUS
<1>1. loop[p] \in LoopRec
  BY DEF ChatTypes
<1> QED BY ONLY <1>1 DEF LoopRec

LEMMA TypesReload ==
    ASSUME ChatTypes, ReloadChannels \/ PausePoller
    PROVE  ChatTypes'
<1> USE DEF ChatTypes, Busy, Calls
<1>1. settled' \in BOOLEAN /\ chatFaults' \in Nat
  BY MishapTypes DEF ReloadChannels, PausePoller
<1>2. CASE CancelPoller
  <2>1. again' \subseteq ChatEvents
    BY <1>2, TakenUpTypes DEF CancelPoller
  <2>2. loop' \in [PollLoops -> LoopRec]
    BY <1>2, EndedTypes DEF CancelPoller
  <2> QED BY <1>1, <2>1, <2>2 DEF ReloadChannels, PausePoller, PollRest
<1>3. CASE polled # Nil /\ StartPoller /\ ReloadChannels
  <2>1. row[polled] \in RowRec
    BY <1>3
  <2>2. row[polled].chats \in SUBSET Chats
    BY <2>1 DEF RowRec
  <2>3. PICK p \in PollLoops :
           loop' = [loop EXCEPT ![p].on = TRUE, ![p].live = TRUE, ![p].chats = row[polled].chats]
    BY <1>3 DEF StartPoller
  <2>4. loop[p] \in LoopRec /\ loop \in [PollLoops -> LoopRec]
    OBVIOUS
  <2>5. [loop[p] EXCEPT !.on = TRUE, !.live = TRUE, !.chats = row[polled].chats] \in LoopRec
    BY ONLY <2>2, <2>4 DEF LoopRec
  <2>6. loop' = [loop EXCEPT ![p] = [loop[p] EXCEPT !.on = TRUE, !.live = TRUE,
                                                   !.chats = row[polled].chats]]
    BY ONLY <2>3, <2>4
  <2>7. loop' \in [PollLoops -> LoopRec]
    BY ONLY <2>4, <2>5, <2>6
  <2> QED BY <1>1, <1>3, <2>7 DEF ReloadChannels, StartPoller, PollRest
<1>4. CASE ReloadChannels /\ UNCHANGED <<loop, again>>
  BY <1>1, <1>4 DEF ReloadChannels, PollRest
<1> QED BY <1>2, <1>3, <1>4 DEF ReloadChannels, PausePoller

LEMMA Behind == \A a, b \in Nat : \A i \in (a + 1)..b : i \in 1..b
  OBVIOUS

LEMMA TypesGet ==
    ASSUME ChatTypes, NEW p \in PollLoops, GetUpdates(p)
    PROVE  ChatTypes'
<1> USE DEF ChatTypes, Busy, Calls
<1>1. confirmed' \in Nat /\ confirmed' < Len(updates) /\ updates \in Seq(ChatEvents) /\ Len(updates) \in Nat
  <2>1. loop[p] \in LoopRec /\ confirmed \in Nat /\ updates \in Seq(ChatEvents)
    BY LenProperties
  <2>2. loop[p].offset \in Nat
    BY <2>1 DEF LoopRec
  <2> QED BY <2>1, <2>2, LenProperties DEF GetUpdates, NextOffset, Larger
<1>2. SubSeq(updates, confirmed' + 1, Len(updates)) \in Seq(ChatEvents)
  <2>1. \A i \in (confirmed' + 1)..Len(updates) : updates[i] \in ChatEvents
    <3> SUFFICES ASSUME NEW i \in (confirmed' + 1)..Len(updates) PROVE updates[i] \in ChatEvents
      OBVIOUS
    <3>1. i \in 1..Len(updates)
      BY <1>1, Behind
    <3> QED BY <1>1, <3>1, ElementOfSeq
  <2>2. confirmed' + 1 \in Int /\ Len(updates) \in Int
    BY <1>1
  <2> QED BY <2>1, <2>2, SubSeqProperties
<1>3. loop' \in [PollLoops -> LoopRec]
  <2>1. loop[p] \in LoopRec
    OBVIOUS
  <2>2. [loop[p] EXCEPT !.offset = confirmed',
                        !.batch = SubSeq(updates, confirmed' + 1, Len(updates))] \in LoopRec
    BY ONLY <1>1, <1>2, <2>1 DEF LoopRec
  <2>3. loop' = [loop EXCEPT ![p] = [loop[p] EXCEPT !.offset = confirmed',
                                !.batch = SubSeq(updates, confirmed' + 1, Len(updates))]]
    BY DEF GetUpdates
  <2> QED BY <2>2, <2>3
<1>4. confirmed' \in 0..Len(updates')
  BY <1>1 DEF GetUpdates
<1> QED BY <1>3, <1>4 DEF GetUpdates

LEMMA TypesPollEnds ==
    ASSUME ChatTypes, NEW p \in PollLoops, PollEnds(p)
    PROVE  ChatTypes'
<1> USE DEF ChatTypes, Busy, Calls
<1>1. chatFaults' \in Nat
  BY MishapTypes DEF PollEnds
<1>2. again' \subseteq ChatEvents
  BY TakenUpTypes DEF PollEnds
<1>3. loop' \in [PollLoops -> LoopRec]
  BY DEF PollEnds, LoopOff, LoopRec, Chats
<1> QED BY <1>1, <1>2, <1>3 DEF PollEnds
\* What ChatTypes says of one call.
CallFits(q) == /\ q.pc \in {"load", "ask", "answer"} => q.ev \in ChatEvents
               /\ q.pc \in {"ask", "answer"} => q.ch \in ChatChannels
CallsFit == call \in [Calls -> CallRec] /\ \A k \in Calls : CallFits(call[k])

LEMMA TypesOfCalls == ASSUME ChatTypes PROVE CallsFit
  BY DEF ChatTypes, Busy, CallsFit, CallFits

LEMMA CallStep ==
    ASSUME ChatTypes, NEW k \in Calls, NEW q \in CallRec, CallFits(q), call' = [call EXCEPT ![k] = q]
    PROVE  CallsFit'
<1>1. call \in [Calls -> CallRec] /\ \A l \in Calls : CallFits(call[l])
  BY TypesOfCalls DEF CallsFit
<1>2. call' \in [Calls -> CallRec]
  BY <1>1
<1>3. \A l \in Calls : call'[l] = IF l = k THEN q ELSE call[l]
  BY <1>1
<1>4. \A l \in Calls : CallFits(call'[l])
  BY <1>1, <1>3, Zenon
<1>5. \A l \in Calls : CallFits(call[l])'
  BY <1>4 DEF CallFits
<1> QED BY <1>2, <1>5 DEF CallsFit

LEMMA IdleFits == CallIdle \in CallRec /\ CallFits(CallIdle)
  BY DEF CallIdle, CallRec, CallFits

LEMMA EndedFits == ASSUME NEW k PROVE Ended(k) \in CallRec /\ CallFits(Ended(k))
  BY DEF CallIdle, CallRec, CallFits, Ended

LEMMA LoopOffFits == LoopOff \in LoopRec
  BY DEF LoopOff, LoopRec, Chats

\* A step that changes no more than what is named here keeps the types.
LEMMA TypesKept ==
    ASSUME ChatTypes, CallsFit', loop' \in [PollLoops -> LoopRec], chatFaults' \in Nat,
           tried' \subseteq ChatEvents, accepted' \subseteq ChatEvents, again' \subseteq ChatEvents,
           asked' \in [ChatEvents -> Nat], posted' \in [ChatEvents -> Nat],
           count' \in [ChatChannels -> Nat], free' \in [ChatChannels -> Nat],
           UNCHANGED <<platform, polled, row, event, updates, confirmed, racers, post>>,
           settled' \in BOOLEAN
    PROVE  ChatTypes'
<1>1. /\ call' \in [Calls -> CallRec]
      /\ \A k \in Calls : /\ Busy(k)' => call'[k].ev \in ChatEvents
                          /\ call'[k].pc \in {"ask", "answer"} => call'[k].ch \in ChatChannels
  BY DEF CallsFit, CallFits, Busy
<1> QED BY <1>1 DEF ChatTypes

LEMMA LoopPart ==
    ASSUME ChatTypes, NEW p \in PollLoops
    PROVE  /\ loop[p] \in LoopRec /\ loop[p].offset \in Nat /\ loop[p].batch \in Seq(ChatEvents)
           /\ Len(loop[p].batch) \in Nat /\ p \in Calls
           /\ \A i \in 1..Len(loop[p].batch) : loop[p].batch[i] \in ChatEvents
<1>1. loop[p] \in LoopRec
  BY DEF ChatTypes
<1>2. loop[p].offset \in Nat /\ loop[p].batch \in Seq(ChatEvents)
  BY <1>1 DEF LoopRec
<1> QED BY <1>1, <1>2, LenProperties, ElementOfSeq DEF Calls

LEMMA TakenFits ==
    ASSUME NEW r \in LoopRec, r.batch # <<>>
    PROVE  [r EXCEPT !.offset = @ + 1, !.batch = Tail(@)] \in LoopRec
<1>1. r.batch \in Seq(ChatEvents) /\ r.offset \in Nat
  BY DEF LoopRec
<1>2. Tail(r.batch) \in Seq(ChatEvents) /\ r.offset + 1 \in Nat
  BY <1>1, HeadTailProperties
<1>3. \A n \in Nat, b \in Seq(ChatEvents) : [r EXCEPT !.offset = n, !.batch = b] \in LoopRec
  BY DEF LoopRec
<1> QED BY <1>2, <1>3

LEMMA TypesTake ==
    ASSUME ChatTypes, NEW p \in PollLoops, TakeUpdate(p)
    PROVE  ChatTypes'
<1> DEFINE e == Head(loop[p].batch)
           l == [loop[p] EXCEPT !.offset = @ + 1, !.batch = Tail(@)]
<1>1. loop[p].batch \in Seq(ChatEvents) /\ loop[p].batch # <<>> /\ loop[p].offset \in Nat
  BY LoopPart DEF TakeUpdate
<1>2. e \in ChatEvents /\ Tail(loop[p].batch) \in Seq(ChatEvents)
  BY <1>1, HeadTailProperties
<1>3. l \in LoopRec
  <2>1. loop[p] \in LoopRec
    BY LoopPart
  <2> QED BY ONLY <1>1, <2>1, TakenFits
<1>4. loop' \in [PollLoops -> LoopRec]
  <2>1. loop' = [loop EXCEPT ![p] = l]
    BY DEF TakeUpdate
  <2> QED BY <1>3, <2>1 DEF ChatTypes
<1>5. CallsFit' /\ tried' \subseteq ChatEvents
  <2>1. CASE UNCHANGED call /\ tried' = tried \union {e}
    BY <1>2, <2>1, TypesOfCalls DEF CallsFit, CallFits, ChatTypes
  <2>2. CASE call' = [call EXCEPT ![p].pc = "load", ![p].ev = e] /\ UNCHANGED tried
    <3>1. call[p] \in CallRec /\ p \in Calls
      BY LoopPart DEF ChatTypes
    <3>2. /\ [call[p] EXCEPT !.pc = "load", !.ev = e] \in CallRec
          /\ CallFits([call[p] EXCEPT !.pc = "load", !.ev = e])
      BY ONLY <3>1, <1>2 DEF CallRec, CallFits
    <3>3. call' = [call EXCEPT ![p] = [call[p] EXCEPT !.pc = "load", !.ev = e]]
      BY <2>2
    <3> QED BY <2>2, <3>1, <3>2, <3>3, CallStep DEF ChatTypes
  <2> QED BY <2>1, <2>2 DEF TakeUpdate
<1> HIDE DEF e, l
<1>6. /\ asked' \in [ChatEvents -> Nat] /\ posted' \in [ChatEvents -> Nat]
      /\ count' \in [ChatChannels -> Nat] /\ free' \in [ChatChannels -> Nat]
      /\ accepted' \subseteq ChatEvents /\ again' \subseteq ChatEvents
      /\ chatFaults' \in Nat /\ settled' \in BOOLEAN
      /\ UNCHANGED <<platform, polled, row, event, updates, confirmed, racers, post>>
  BY DEF TakeUpdate, ChatTypes
<1> QED BY <1>4, <1>5, <1>6, TypesKept

LEMMA TypesLoad ==
    ASSUME ChatTypes, EntryInv, LoopInv, NEW p \in PollLoops, LoadChannel(p)
    PROVE  ChatTypes'
<1>1. p \in Calls /\ call[p] \in CallRec /\ call[p].pc = "load" /\ call[p].ev \in ChatEvents
  BY LoopPart DEF LoadChannel, ChatTypes, Busy
<1>2. CallsFit'
  <2>1. CASE call' = [call EXCEPT ![p] = CallIdle]
    BY <1>1, <2>1, IdleFits, CallStep
  <2>2. CASE /\ row[polled].there
             /\ call' = [call EXCEPT ![p].pc = "ask", ![p].ch = polled,
                                     ![p].late = settled /\ ~row[polled].on]
    <3> DEFINE late == settled /\ ~row[polled].on
    <3>0. polled \in ChatChannels
      BY <1>1 DEF EntryInv, LoopInv, ChatTypes
    <3>1. late \in BOOLEAN
      BY Zenon
    <3>2. call' = [call EXCEPT ![p] = [call[p] EXCEPT !.pc = "ask", !.ch = polled, !.late = late]]
      BY <2>2
    <3> HIDE DEF late
    <3>3. [call[p] EXCEPT !.pc = "ask", !.ch = polled, !.late = late] \in CallRec
      BY ONLY <1>1, <3>0, <3>1 DEF CallRec
    <3>4. CallFits([call[p] EXCEPT !.pc = "ask", !.ch = polled, !.late = late])
      BY ONLY <1>1, <3>0, <3>1 DEF CallRec, CallFits
    <3> QED BY <1>1, <3>2, <3>3, <3>4, CallStep
  <2> QED BY <2>1, <2>2 DEF LoadChannel
<1>3. tried' \subseteq ChatEvents
  BY <1>1 DEF LoadChannel, ChatTypes
<1>4. chatFaults' \in Nat
  BY MishapTypes DEF LoadChannel
<1>5. /\ asked' \in [ChatEvents -> Nat] /\ posted' \in [ChatEvents -> Nat]
      /\ count' \in [ChatChannels -> Nat] /\ free' \in [ChatChannels -> Nat]
      /\ accepted' \subseteq ChatEvents /\ again' \subseteq ChatEvents
      /\ loop' \in [PollLoops -> LoopRec] /\ settled' \in BOOLEAN
      /\ UNCHANGED <<platform, polled, row, event, updates, confirmed, racers, post>>
  BY DEF LoadChannel, ChatTypes
<1> QED BY <1>2, <1>3, <1>4, <1>5, TypesKept
\* What a webhook request comes to.
HookDone(h) == call' = [call EXCEPT ![h].pc = "done"]
HookAsks(h, e, c) == call' = [call EXCEPT ![h].pc = "ask", ![h].ev = e, ![h].ch = c]
HookComesTo(h, e) ==
    /\ event[e].kind # "none"
    /\ again' = IF e \in tried \union accepted THEN again \union {e} ELSE again
    /\ \/ HookDone(h) /\ accepted' = accepted /\ tried' \in {tried, tried \union {e}}
       \/ HookDone(h) /\ accepted' = accepted \union {e} /\ tried' = tried \union {e}
       \/ /\ accepted' = accepted \union {e} /\ tried' = tried
          /\ \E c \in ChatChannels : HookAsks(h, e, c)

LEMMA WebhookIs ==
    ASSUME NEW h \in HookCalls, Webhook(h)
    PROVE  /\ \E e \in ChatEvents : HookComesTo(h, e)
           /\ polled = Nil /\ call[h].pc = "idle"
           /\ UNCHANGED <<platform, polled, row, settled, event, updates, confirmed, loop, post, count,
                          free, racers, asked, posted, chunks>>
<1>1. PICK e \in ChatEvents :
          /\ event[e].kind # "none"
          /\ again' = IF e \in tried \union accepted THEN again \union {e} ELSE again
          /\ \/ Mishap(1) /\ call' = [call EXCEPT ![h].pc = "done"] /\ UNCHANGED <<tried, accepted>>
             \/ /\ Mishap(0)
                /\ \E signed \in SUBSET ChatChannels :
                      \/ /\ signed # {} /\ ParseWebhook(event[e].kind) = "message"
                         /\ \E c \in Chosen(signed, e) :
                               /\ accepted' = accepted \union {e}
                               /\ \/ /\ row[c].open /\ UNCHANGED tried
                                     /\ call' = [call EXCEPT ![h].pc = "ask", ![h].ev = e, ![h].ch = c]
                                  \/ /\ ~row[c].open /\ tried' = tried \union {e}
                                     /\ call' = [call EXCEPT ![h].pc = "done"]
                      \/ /\ signed = {} \/ ParseWebhook(event[e].kind) # "message" \/ Chosen(signed, e) = {}
                         /\ tried' = IF signed = {} THEN tried ELSE tried \union {e}
                         /\ call' = [call EXCEPT ![h].pc = "done"]
                         /\ UNCHANGED accepted
  BY Zenon DEF Webhook
<1>2. ASSUME NEW signed \in SUBSET ChatChannels, NEW c \in Chosen(signed, e),
             accepted' = accepted \union {e}
      PROVE  /\ UNCHANGED tried /\ call' = [call EXCEPT ![h].pc = "ask", ![h].ev = e, ![h].ch = c]
                => HookComesTo(h, e)
             /\ tried' = tried \union {e} /\ call' = [call EXCEPT ![h].pc = "done"]
                => HookComesTo(h, e)
  <2>1. c \in ChatChannels
    BY DEF Chosen, Candidates
  <2> QED BY <1>1, <1>2, <2>1 DEF HookComesTo, HookDone, HookAsks
<1>3. ASSUME tried' \in {tried, tried \union {e}}, call' = [call EXCEPT ![h].pc = "done"],
             UNCHANGED accepted
      PROVE  HookComesTo(h, e)
  BY <1>1, <1>3 DEF HookComesTo, HookDone
<1>4. CASE Mishap(1) /\ call' = [call EXCEPT ![h].pc = "done"] /\ UNCHANGED <<tried, accepted>>
  BY <1>3, <1>4 DEF Webhook
<1>5. ASSUME NEW signed \in SUBSET ChatChannels, tried' = IF signed = {} THEN tried ELSE tried \union {e},
             call' = [call EXCEPT ![h].pc = "done"], UNCHANGED accepted
      PROVE  HookComesTo(h, e)
  BY <1>3, <1>5
<1>6. HookComesTo(h, e)
  BY <1>1, <1>2, <1>4, <1>3, <1>5, Zenon
<1> QED BY <1>6 DEF Webhook

LEMMA HookDoneFits ==
    ASSUME ChatTypes, NEW h \in Calls, HookDone(h)
    PROVE  /\ CallsFit'
           /\ call' = [call EXCEPT ![h] = [call[h] EXCEPT !.pc = "done"]]
<1>1. call[h] \in CallRec
  BY DEF ChatTypes
<1>2. [call[h] EXCEPT !.pc = "done"] \in CallRec /\ CallFits([call[h] EXCEPT !.pc = "done"])
  BY ONLY <1>1 DEF CallRec, CallFits
<1>3. call' = [call EXCEPT ![h] = [call[h] EXCEPT !.pc = "done"]]
  BY DEF HookDone
<1> QED BY <1>2, <1>3, CallStep

LEMMA HookAsksFits ==
    ASSUME ChatTypes, NEW h \in Calls, NEW e \in ChatEvents, NEW c \in ChatChannels, HookAsks(h, e, c)
    PROVE  /\ CallsFit'
           /\ call' = [call EXCEPT ![h] = [call[h] EXCEPT !.pc = "ask", !.ev = e, !.ch = c]]
<1>1. call[h] \in CallRec /\ e \in ChatEvents /\ c \in ChatChannels
  BY DEF ChatTypes
<1>2. /\ [call[h] EXCEPT !.pc = "ask", !.ev = e, !.ch = c] \in CallRec
      /\ CallFits([call[h] EXCEPT !.pc = "ask", !.ev = e, !.ch = c])
  BY ONLY <1>1 DEF CallRec, CallFits
<1>3. call' = [call EXCEPT ![h] = [call[h] EXCEPT !.pc = "ask", !.ev = e, !.ch = c]]
  BY DEF HookAsks
<1> QED BY <1>2, <1>3, CallStep

LEMMA TypesWebhook ==
    ASSUME ChatTypes, NEW h \in HookCalls, Webhook(h)
    PROVE  ChatTypes'
<1>1. PICK e \in ChatEvents : HookComesTo(h, e)
  BY WebhookIs
<1>2. CallsFit'
  BY <1>1, HookDoneFits, HookAsksFits DEF HookComesTo, Calls
<1>3. tried' \subseteq ChatEvents /\ accepted' \subseteq ChatEvents /\ again' \subseteq ChatEvents
  BY <1>1 DEF HookComesTo, ChatTypes
<1>4. chatFaults' \in Nat
  BY MishapTypes DEF Webhook
<1>5. /\ asked' \in [ChatEvents -> Nat] /\ posted' \in [ChatEvents -> Nat]
      /\ count' \in [ChatChannels -> Nat] /\ free' \in [ChatChannels -> Nat]
      /\ loop' \in [PollLoops -> LoopRec] /\ settled' \in BOOLEAN
      /\ UNCHANGED <<platform, polled, row, event, updates, confirmed, racers, post>>
  BY WebhookIs DEF ChatTypes
<1> QED BY <1>2, <1>3, <1>4, <1>5, TypesKept

LEMMA TypesAsk ==
    ASSUME ChatTypes, NEW k \in Calls, AskAgent(k)
    PROVE  ChatTypes'
<1>1. call[k] \in CallRec /\ call[k].pc = "ask" /\ call[k].ev \in ChatEvents /\ call[k].ch \in ChatChannels
  BY DEF ChatTypes, AskAgent, Busy
<1>2. CallsFit'
  <2>1. CASE call' = [call EXCEPT ![k] = Ended(k)]
    BY <2>1, EndedFits, CallStep
  <2>2. CASE call' = [call EXCEPT ![k].pc = "answer"]
    <3>1. call' = [call EXCEPT ![k] = [call[k] EXCEPT !.pc = "answer"]]
      BY <2>2
    <3>2. [call[k] EXCEPT !.pc = "answer"] \in CallRec /\ CallFits([call[k] EXCEPT !.pc = "answer"])
      BY ONLY <1>1 DEF CallRec, CallFits
    <3> QED BY <3>1, <3>2, CallStep
  <2> QED BY <2>1, <2>2 DEF AskAgent
<1>3. tried' \subseteq ChatEvents /\ asked' \in [ChatEvents -> Nat]
  <2>1. asked \in [ChatEvents -> Nat] /\ asked[call[k].ev] + 1 \in Nat /\ tried \subseteq ChatEvents
    BY <1>1 DEF ChatTypes
  <2>2. tried' \in {tried, tried \union {call[k].ev}}
    BY DEF AskAgent
  <2>3. asked' \in {asked, [asked EXCEPT ![call[k].ev] = @ + 1]}
    BY DEF AskAgent
  <2> QED BY ONLY <1>1, <2>1, <2>2, <2>3
<1>4. chatFaults' \in Nat
  BY MishapTypes DEF AskAgent
<1>5. /\ posted' \in [ChatEvents -> Nat]
      /\ count' \in [ChatChannels -> Nat] /\ free' \in [ChatChannels -> Nat]
      /\ accepted' \subseteq ChatEvents /\ again' \subseteq ChatEvents
      /\ loop' \in [PollLoops -> LoopRec] /\ settled' \in BOOLEAN
      /\ UNCHANGED <<platform, polled, row, event, updates, confirmed, racers, post>>
  BY DEF AskAgent, ChatTypes
<1> QED BY <1>2, <1>3, <1>4, <1>5, TypesKept

\* What the post of an answer comes to.
LEMMA AnswerIs ==
    ASSUME NEW k, PostAnswer(k)
    PROVE  /\ posted' \in {posted, [posted EXCEPT ![call[k].ev] = @ + 1]}
           /\ \/ count' = count /\ free' = free
              \/ /\ count' = [count EXCEPT ![call[k].ch] = @ + 1]
                 /\ free' = [free EXCEPT ![call[k].ch] = @ + 1]
           /\ \E f : Mishap(f)
           /\ call[k].pc = "answer" /\ call' = [call EXCEPT ![k] = Ended(k)]
<1>1. PICK n \in 0..MaxPosts :
           \E r \in IF n = 0 THEN {[err |-> FALSE, arrived |-> 0]} ELSE SendMessage(n) :
              /\ Mishap(IF r.err \/ r.arrived < n THEN 1 ELSE 0)
              /\ posted' = IF r.arrived > 0 THEN [posted EXCEPT ![call[k].ev] = @ + 1] ELSE posted
              /\ LET counted == ~r.err /\ Live(k) /\ row[call[k].ch].there
                 IN  /\ count' = IF counted THEN [count EXCEPT ![call[k].ch] = @ + 1] ELSE count
                     /\ free' = IF counted THEN [free EXCEPT ![call[k].ch] = @ + 1] ELSE free
  BY DEF PostAnswer
<1>2. PICK r \in IF n = 0 THEN {[err |-> FALSE, arrived |-> 0]} ELSE SendMessage(n) :
              /\ Mishap(IF r.err \/ r.arrived < n THEN 1 ELSE 0)
              /\ posted' = IF r.arrived > 0 THEN [posted EXCEPT ![call[k].ev] = @ + 1] ELSE posted
              /\ LET counted == ~r.err /\ Live(k) /\ row[call[k].ch].there
                 IN  /\ count' = IF counted THEN [count EXCEPT ![call[k].ch] = @ + 1] ELSE count
                     /\ free' = IF counted THEN [free EXCEPT ![call[k].ch] = @ + 1] ELSE free
  BY <1>1
<1> QED BY <1>2 DEF PostAnswer

LEMMA TypesPost ==
    ASSUME ChatTypes, NEW k \in Calls, PostAnswer(k)
    PROVE  ChatTypes'
<1>1. call[k].ev \in ChatEvents /\ call[k].ch \in ChatChannels
  BY DEF ChatTypes, PostAnswer, Busy
<1>2. CallsFit'
  BY EndedFits, AnswerIs, CallStep
<1>3. /\ posted' \in [ChatEvents -> Nat] /\ count' \in [ChatChannels -> Nat]
      /\ free' \in [ChatChannels -> Nat]
  <2>1. /\ posted \in [ChatEvents -> Nat] /\ count \in [ChatChannels -> Nat]
        /\ free \in [ChatChannels -> Nat]
    BY DEF ChatTypes
  <2>2. /\ posted' \in {posted, [posted EXCEPT ![call[k].ev] = @ + 1]}
        /\ count' \in {count, [count EXCEPT ![call[k].ch] = @ + 1]}
        /\ free' \in {free, [free EXCEPT ![call[k].ch] = @ + 1]}
    BY AnswerIs
  <2> QED BY ONLY <1>1, <2>1, <2>2
<1>4. chatFaults' \in Nat
  BY AnswerIs, MishapTypes
<1>5. /\ asked' \in [ChatEvents -> Nat]
      /\ tried' \subseteq ChatEvents /\ accepted' \subseteq ChatEvents /\ again' \subseteq ChatEvents
      /\ loop' \in [PollLoops -> LoopRec] /\ settled' \in BOOLEAN
      /\ UNCHANGED <<platform, polled, row, event, updates, confirmed, racers, post>>
  BY DEF PostAnswer, ChatTypes
<1> QED BY <1>2, <1>3, <1>4, <1>5, TypesKept
PostRec == [pc : {"idle", "post", "refused", "sent", "error"}, ch : ChatChannels \union {Nil}]
PostFits(t) == t.pc = "post" => t.ch \in ChatChannels

\* A step of a post changes that post and what is counted.
LEMMA TypesPosting ==
    ASSUME ChatTypes, NEW s \in ChatSends, NEW t \in PostRec, PostFits(t),
           post' = [post EXCEPT ![s] = t],
           count' \in [ChatChannels -> Nat], free' \in [ChatChannels -> Nat],
           racers' \in [ChatChannels -> Nat], chatFaults' \in Nat, UNCHANGED PostRest
    PROVE  ChatTypes'
<1>1. /\ post \in [ChatSends -> PostRec]
      /\ \A u \in ChatSends : post[u].pc = "post" => post[u].ch \in ChatChannels
  BY DEF ChatTypes, PostRec
<1>2. post' \in [ChatSends -> PostRec] /\ \A u \in ChatSends : post'[u] = IF u = s THEN t ELSE post[u]
  BY <1>1
<1>3. \A u \in ChatSends : post'[u].pc = "post" => post'[u].ch \in ChatChannels
  BY <1>1, <1>2 DEF PostFits
<1>4. UNCHANGED <<platform, polled, row, settled, event, updates, confirmed, loop, call, asked,
                  posted, tried, accepted, again>>
  BY DEF PostRest
<1> QED BY <1>2, <1>3, <1>4 DEF ChatTypes, PostRec, Busy

LEMMA Counting ==
    ASSUME NEW f \in [ChatChannels -> Nat], NEW c \in ChatChannels
    PROVE  [f EXCEPT ![c] = @ + 1] \in [ChatChannels -> Nat]
  OBVIOUS

LEMMA TypesSends ==
    ASSUME ChatTypes, NEW s \in ChatSends, NEW c \in ChatChannels,
           SendAdmits(s, c) \/ TestAdmits(s, c) \/ BroadcastAdmits(s, c)
    PROVE  ChatTypes'
<1>1. /\ count \in [ChatChannels -> Nat] /\ free \in [ChatChannels -> Nat]
      /\ racers \in [ChatChannels -> Nat] /\ chatFaults \in Nat /\ post[s] \in PostRec
  BY DEF ChatTypes, PostRec
<1>2. [pc |-> "post", ch |-> c] \in PostRec /\ PostFits([pc |-> "post", ch |-> c])
  BY DEF PostRec, PostFits
<1>3. [post[s] EXCEPT !.pc = "refused"] \in PostRec /\ PostFits([post[s] EXCEPT !.pc = "refused"])
  BY ONLY <1>1 DEF PostRec, PostFits
<1>4. CASE SendAdmits(s, c)
  <2>1. chatFaults' \in Nat
    BY <1>4, MishapTypes DEF SendAdmits
  <2>2. count' = count /\ free' = free /\ UNCHANGED PostRest
    BY <1>4 DEF SendAdmits
  <2>3. racers' \in {racers, [racers EXCEPT ![c] = @ + 1]}
    BY <1>4 DEF SendAdmits
  <2>4. \/ post' = [post EXCEPT ![s] = [pc |-> "post", ch |-> c]]
        \/ post' = [post EXCEPT ![s] = [post[s] EXCEPT !.pc = "refused"]]
    BY <1>4 DEF SendAdmits
  <2>5. racers' \in [ChatChannels -> Nat]
    BY <1>1, <2>3, Counting
  <2> QED BY <1>1, <1>2, <1>3, <2>1, <2>2, <2>4, <2>5, TypesPosting
<1>5. CASE TestAdmits(s, c)
  <2>1. /\ count' = count /\ racers' = racers /\ chatFaults' = chatFaults /\ UNCHANGED PostRest
        /\ free' = [free EXCEPT ![c] = @ + 1] /\ post' = [post EXCEPT ![s] = [pc |-> "post", ch |-> c]]
    BY <1>5 DEF TestAdmits
  <2>2. free' \in [ChatChannels -> Nat]
    BY <1>1, <2>1, Counting
  <2> QED BY <1>1, <1>2, <2>1, <2>2, TypesPosting
<1> QED BY <1>4, <1>5 DEF BroadcastAdmits

LEMMA TypesOutbound ==
    ASSUME ChatTypes, NEW s \in ChatSends, SendOutbound(s)
    PROVE  ChatTypes'
<1>1. /\ count \in [ChatChannels -> Nat] /\ free \in [ChatChannels -> Nat]
      /\ racers \in [ChatChannels -> Nat] /\ chatFaults \in Nat /\ post[s] \in PostRec
      /\ post[s].ch \in ChatChannels
  BY DEF ChatTypes, PostRec, SendOutbound
<1>2. PICK q \in {"sent", "error"} : post' = [post EXCEPT ![s] = [post[s] EXCEPT !.pc = q]]
  BY DEF SendOutbound
<1>3. [post[s] EXCEPT !.pc = q] \in PostRec /\ PostFits([post[s] EXCEPT !.pc = q])
  BY ONLY <1>1, q \in {"sent", "error"} DEF PostRec, PostFits
<1>4. count' \in {count, [count EXCEPT ![post[s].ch] = @ + 1]}
  BY DEF SendOutbound
<1>5. count' \in [ChatChannels -> Nat]
  BY <1>1, <1>4, Counting
<1>6. free' = free /\ racers' = racers /\ chatFaults' = chatFaults /\ UNCHANGED PostRest
  BY DEF SendOutbound
<1> QED BY <1>1, <1>2, <1>3, <1>5, <1>6, TypesPosting

LEMMA TypesRestart ==
    ASSUME ChatTypes, ServerRestarts
    PROVE  ChatTypes'
<1>1. CallsFit'
  <2>1. call' = [k \in Calls |-> IF call[k].pc = "idle" THEN CallIdle ELSE Ended(k)]
    BY DEF ServerRestarts
  <2>2. \A k \in Calls : call'[k] \in CallRec /\ CallFits(call'[k])
    BY <2>1, IdleFits, EndedFits
  <2> QED BY <2>1, <2>2 DEF CallsFit, CallFits
<1>2. loop' \in [PollLoops -> LoopRec]
  BY LoopOffFits DEF ServerRestarts
<1>3. post' \in [ChatSends -> PostRec] /\ \A u \in ChatSends : post'[u].pc # "post"
  <2>1. post' = [s \in ChatSends |-> IF post[s].pc = "post" THEN [post[s] EXCEPT !.pc = "error"] ELSE post[s]]
    BY DEF ServerRestarts
  <2>2. ASSUME NEW u \in ChatSends PROVE post'[u] \in PostRec /\ post'[u].pc # "post"
    <3>1. /\ post[u] \in PostRec
          /\ post'[u] = IF post[u].pc = "post" THEN [post[u] EXCEPT !.pc = "error"] ELSE post[u]
      BY <2>1 DEF ChatTypes, PostRec
    <3> QED BY ONLY <3>1 DEF PostRec
  <2> QED BY <2>1, <2>2
<1>4. tried' \subseteq ChatEvents
  <2>1. {call[h].ev : h \in {g \in HookCalls : call[g].pc = "ask"}} \subseteq ChatEvents
    BY DEF ChatTypes, Busy, Calls
  <2>2. tried' = tried \union {call[h].ev : h \in {g \in HookCalls : call[g].pc = "ask"}}
    BY DEF ServerRestarts
  <2> QED BY <2>1, <2>2 DEF ChatTypes
<1>5. again' \subseteq ChatEvents
  BY TakenUpTypes DEF ServerRestarts, ChatTypes
<1>6. chatFaults' \in Nat
  BY MishapTypes DEF ServerRestarts
<1>7. settled' \in BOOLEAN /\ UNCHANGED <<platform, polled, row, event, updates, confirmed, count, free,
                                          racers, asked, posted, accepted>>
  BY DEF ServerRestarts
<1>8. /\ call' \in [Calls -> CallRec]
      /\ \A k \in Calls : /\ Busy(k)' => call'[k].ev \in ChatEvents
                          /\ call'[k].pc \in {"ask", "answer"} => call'[k].ch \in ChatChannels
  BY <1>1 DEF CallsFit, CallFits, Busy
<1> QED BY <1>2, <1>3, <1>4, <1>5, <1>6, <1>7, <1>8 DEF ChatTypes, PostRec

\* No invariant but the one about the chunks speaks of the chunks.
Said == <<platform, polled, row, settled, event, updates, confirmed, loop, call, post, count,
          free, racers, asked, posted, tried, accepted, again, chatFaults>>

LEMMA TypesSaid ==
    ASSUME ChatTypes, UNCHANGED Said
    PROVE  ChatTypes'
  BY DEF ChatTypes, Said, Busy

LEMMA TypesStep ==
    ASSUME ChatTypes, EntryInv, LoopInv, [ChatNext]_chatVars
    PROVE  ChatTypes'
<1>1. ASSUME NEW e \in ChatEvents, ChatHappens(e) PROVE ChatTypes'
  BY <1>1, TypesChat
<1>2. ASSUME NEW c \in ChatChannels, UpdateChannel(c) \/ DeleteChannel(c) PROVE ChatTypes'
  BY <1>2, TypesRow
<1>3. CASE ReloadChannels \/ PausePoller
  BY <1>3, TypesReload
<1>4. ASSUME NEW p \in PollLoops, GetUpdates(p) \/ PollEnds(p) \/ TakeUpdate(p) \/ LoadChannel(p)
      PROVE  ChatTypes'
  BY <1>4, TypesGet, TypesPollEnds, TypesTake, TypesLoad
<1>5. ASSUME NEW k \in Calls, AskAgent(k) \/ PostAnswer(k) PROVE ChatTypes'
  BY <1>5, TypesAsk, TypesPost
<1>6. ASSUME NEW h \in HookCalls, Webhook(h) PROVE ChatTypes'
  BY <1>6, TypesWebhook
<1>7. ASSUME NEW s \in ChatSends, NEW c \in ChatChannels,
             SendAdmits(s, c) \/ TestAdmits(s, c) \/ BroadcastAdmits(s, c)
      PROVE  ChatTypes'
  BY <1>7, TypesSends
<1>8. ASSUME NEW s \in ChatSends, SendOutbound(s) PROVE ChatTypes'
  BY <1>8, TypesOutbound
<1>9. CASE ServerRestarts
  BY <1>9, TypesRestart
<1>10. ASSUME NEW t \in Texts, SplitText(t) PROVE ChatTypes'
  <2>1. UNCHANGED Said
    BY <1>10 DEF SplitText, Said
  <2> QED BY <2>1, TypesSaid
<1>11. CASE UNCHANGED chatVars
  <2>1. UNCHANGED Said
    BY <1>11 DEF chatVars, Said
  <2> QED BY <2>1, TypesSaid
<1> QED
  BY <1>1, <1>2, <1>3, <1>4, <1>5, <1>6, <1>7, <1>8, <1>9, <1>10, <1>11
  DEF ChatNext, PollNext, HookNext, PostNext, SplitNext, Calls

-----------------------------------------------------------------------------
(***************************************************************************)
(* The two ways in, and the pollers.                                       *)
(***************************************************************************)
\* What the four invariants about the two ways in speak of.
ChatCore == <<polled, event, updates, confirmed, loop, call, asked, tried, accepted, again>>

LEMMA CoreKept ==
    ASSUME EntryInv, LoopInv, TriedInv, OnceInv, UNCHANGED ChatCore
    PROVE  EntryInv' /\ LoopInv' /\ TriedInv' /\ OnceInv'
<1>1. UNCHANGED <<polled, event, updates, confirmed, loop, call, asked, tried, accepted, again>>
  BY DEF ChatCore
<1>2. EntryInv'
  BY <1>1 DEF EntryInv
<1>3. LoopInv'
  BY <1>1 DEF LoopInv, Busy
<1>4. TriedInv'
  BY <1>1 DEF TriedInv, ConfirmedIsTried, AcceptedIsTried
<1>5. OnceInv'
  BY <1>1 DEF OnceInv, WillAsk, Touched, Reached
<1> QED BY <1>2, <1>3, <1>4, <1>5

LEMMA ConfirmedTypes ==
    ASSUME ChatTypes
    PROVE  /\ confirmed \in Nat /\ updates \in Seq(ChatEvents) /\ Len(updates) \in Nat
           /\ confirmed <= Len(updates)
           /\ \A i \in 1..Len(updates) : updates[i] \in ChatEvents
<1>1. confirmed \in 0..Len(updates) /\ updates \in Seq(ChatEvents)
  BY DEF ChatTypes
<1> QED BY <1>1, LenProperties, ElementOfSeq

\* A poller with something to do, or with a context, is one that runs.
LEMMA PollerIsOn ==
    ASSUME LoopInv, EntryInv, NEW p \in PollLoops,
           loop[p].live \/ loop[p].batch # <<>> \/ Busy(p)
    PROVE  loop[p].on /\ polled # Nil
  BY DEF LoopInv, EntryInv, Busy, LoopOff

LEMMA NotBoth ==
    ASSUME NEW p \in PollLoops, NEW h \in HookCalls
    PROVE  p # h
  BY ChatAssumption

LEMMA GrownUpdates ==
    ASSUME ChatTypes, NEW e \in ChatEvents, ChatHappens(e)
    PROVE  /\ Len(updates') = Len(updates) + 1
           /\ \A i \in 1..Len(updates) : updates'[i] = updates[i]
           /\ updates'[Len(updates) + 1] = e
           /\ \A i \in 1..Len(updates') : i \in 1..Len(updates) \/ i = Len(updates) + 1
<1>1. updates' = Append(updates, e) /\ updates \in Seq(ChatEvents) /\ Len(updates) \in Nat
  BY ConfirmedTypes DEF ChatHappens
<1> QED BY <1>1, AppendProperties

LEMMA EntryHappens ==
    ASSUME ChatTypes, EntryInv, NEW e \in ChatEvents, ChatHappens(e)
    PROVE  EntryInv'
<1>1. UNCHANGED <<polled, confirmed, loop, accepted, call>>
  BY DEF ChatHappens, ChatRest
<1>2. event[e].kind = "none" /\ event'[e].kind # "none"
      /\ \A d \in ChatEvents : d # e => event'[d] = event[d]
  BY DEF ChatHappens, KindsOn, ChatTypes
<1>3. \A i \in 1..Len(updates) : event[updates[i]].kind # "none" /\ updates[i] \in ChatEvents
  BY ConfirmedTypes DEF EntryInv
<1>4. \A i \in 1..Len(updates) : updates[i] # e
  BY <1>2, <1>3
<1>5. \A i \in 1..Len(updates') : event'[updates'[i]].kind # "none"
  BY <1>2, <1>3, <1>4, GrownUpdates
<1>6. \A i, j \in 1..Len(updates') : updates'[i] = updates'[j] => i = j
  <2> SUFFICES ASSUME NEW i \in 1..Len(updates'), NEW j \in 1..Len(updates'), updates'[i] = updates'[j]
               PROVE  i = j
    OBVIOUS
  <2>1. \A a, b \in 1..Len(updates) : updates[a] = updates[b] => a = b
    BY DEF EntryInv
  <2> QED BY <1>4, <2>1, GrownUpdates
<1> QED BY <1>1, <1>5, <1>6 DEF EntryInv

\* A step that leaves the updates alone, and of the calls and the loops
\* changes what the invariant does not speak of.
LEMMA EntryKept ==
    ASSUME EntryInv, UNCHANGED <<polled, event, updates>>,
           polled = Nil => confirmed' = 0 /\ \A p \in PollLoops : ~loop'[p].on,
           polled # Nil => accepted' = {} /\ \A h \in HookCalls : call'[h].pc = "idle"
    PROVE  EntryInv'
  BY SMTT(40) DEF EntryInv

LEMMA EntryPoll ==
    ASSUME ChatTypes, EntryInv, LoopInv, NEW p \in PollLoops,
           GetUpdates(p) \/ PollEnds(p) \/ TakeUpdate(p) \/ LoadChannel(p)
    PROVE  EntryInv'
<1>1. loop[p].on /\ polled # Nil
  BY PollerIsOn DEF GetUpdates, PollEnds, TakeUpdate, LoadChannel, Busy, EntryInv
<1>2. UNCHANGED <<polled, event, updates, accepted>>
  BY DEF GetUpdates, PollEnds, TakeUpdate, LoadChannel
<1>3. \A h \in HookCalls : call'[h] = call[h]
  <2> SUFFICES ASSUME NEW h \in HookCalls PROVE call'[h] = call[h]
    OBVIOUS
  <2>1. h # p /\ call \in [Calls -> CallRec] /\ h \in Calls
    BY NotBoth DEF ChatTypes, Calls
  <2> QED BY <2>1 DEF GetUpdates, PollEnds, TakeUpdate, LoadChannel
<1> QED BY <1>1, <1>2, <1>3, EntryKept DEF EntryInv

LEMMA EntryCall ==
    ASSUME ChatTypes, EntryInv, NEW k \in Calls, AskAgent(k) \/ PostAnswer(k)
    PROVE  EntryInv'
<1>1. UNCHANGED <<polled, event, updates, confirmed, loop, accepted>>
  BY DEF AskAgent, PostAnswer
<1>2. polled # Nil => \A h \in HookCalls : call'[h].pc = "idle"
  <2> SUFFICES ASSUME polled # Nil, NEW h \in HookCalls PROVE call'[h].pc = "idle"
    OBVIOUS
  <2>1. call[h].pc = "idle" /\ call[k].pc # "idle"
    BY DEF EntryInv, AskAgent, PostAnswer
  <2>2. call'[h] = call[h]
    BY <2>1 DEF AskAgent, PostAnswer, ChatTypes, Calls
  <2> QED BY <2>1, <2>2
<1> QED BY <1>1, <1>2, EntryKept DEF EntryInv

LEMMA EntryReload ==
    ASSUME ChatTypes, EntryInv, ReloadChannels \/ PausePoller
    PROVE  EntryInv'
<1>1. UNCHANGED <<polled, event, updates, confirmed, call, accepted>>
  BY DEF ReloadChannels, PausePoller, PollRest
<1>2. ASSUME polled = Nil, NEW p \in PollLoops PROVE ~loop'[p].on
  <2>1. loop' = [q \in PollLoops |-> [loop[q] EXCEPT !.live = FALSE]]
    BY <1>2 DEF ReloadChannels, PausePoller, CancelPoller
  <2>2. loop'[p] = [loop[p] EXCEPT !.live = FALSE] /\ loop[p] \in LoopRec /\ ~loop[p].on
    BY <1>2, <2>1 DEF EntryInv, ChatTypes
  <2> QED BY ONLY <2>2 DEF LoopRec
<1> QED BY <1>1, <1>2, EntryKept DEF EntryInv

LEMMA EntryRestart ==
    ASSUME ChatTypes, EntryInv, ServerRestarts
    PROVE  EntryInv'
<1>1. UNCHANGED <<polled, event, updates, confirmed, accepted>>
  BY DEF ServerRestarts
<1>2. \A p \in PollLoops : ~loop'[p].on
  BY DEF ServerRestarts, LoopOff
<1>3. \A h \in HookCalls : call[h].pc = "idle" => call'[h].pc = "idle"
  BY DEF ServerRestarts, CallIdle, Calls
<1> QED BY <1>1, <1>2, <1>3, EntryKept DEF EntryInv

LEMMA EntryWebhook ==
    ASSUME ChatTypes, EntryInv, NEW h \in HookCalls, Webhook(h)
    PROVE  EntryInv'
  BY WebhookIs, EntryKept DEF EntryInv

-----------------------------------------------------------------------------
LoopFits(p) ==
    /\ loop[p].live => loop[p].on
    /\ ~loop[p].on => loop[p] = LoopOff /\ call[p].pc = "idle"
    /\ call[p].pc # "done"
    /\ loop[p].offset + Len(loop[p].batch) <= Len(updates)
    /\ \A i \in 1..Len(loop[p].batch) : loop[p].batch[i] = updates[loop[p].offset + i]
    /\ Busy(p) => loop[p].offset > 0 /\ call[p].ev = updates[loop[p].offset]
    /\ loop[p].live /\ loop[p].batch # <<>> => confirmed <= loop[p].offset
    /\ loop[p].live /\ Busy(p) => confirmed < loop[p].offset

OneLive == \A p, q \in PollLoops : loop[p].live /\ loop[q].live => p = q
NoHookLoads == \A h \in HookCalls : call[h].pc # "load"

LEMMA LoopIs == LoopInv <=> (\A p \in PollLoops : LoopFits(p)) /\ OneLive /\ NoHookLoads
  BY DEF LoopInv, LoopFits, OneLive, NoHookLoads

LEMMA LoopIsNext == LoopInv' <=> (\A p \in PollLoops : LoopFits(p)') /\ OneLive' /\ NoHookLoads'
  BY DEF LoopInv, LoopFits, OneLive, NoHookLoads

\* What is not touched fits as before.
LEMMA FitsAsBefore ==
    ASSUME NEW p \in PollLoops, LoopFits(p), UNCHANGED updates,
           loop'[p] = loop[p], call'[p] = call[p], confirmed' = confirmed \/ ~loop[p].live
    PROVE  LoopFits(p)'
  BY DEF LoopFits, Busy

LEMMA OffFits ==
    ASSUME ChatTypes, NEW p \in PollLoops, loop'[p] = LoopOff, call'[p].pc = "idle", UNCHANGED updates
    PROVE  LoopFits(p)'
<1>1. Len(updates') \in Nat
  BY ConfirmedTypes
<1>2. Len(<<>>) = 0
  OBVIOUS
<1> QED BY <1>1, <1>2 DEF LoopFits, Busy, LoopOff
\* What a reload or a pause makes of the pollers: those it stops, and the one
\* it starts.
Started(p) ==
    /\ ~loop[p].on /\ polled # Nil /\ row[polled].on
    /\ loop'[p].on /\ loop'[p].live /\ loop'[p].offset = 0 /\ loop'[p].batch = <<>>
Stopped(p) ==
    /\ loop'[p].on = loop[p].on /\ ~loop'[p].live
    /\ loop'[p].offset = loop[p].offset /\ loop'[p].batch = loop[p].batch
    /\ ~loop[p].on => loop'[p] = loop[p]

LEMMA StoppedIs ==
    ASSUME ChatTypes, LoopInv, NEW p \in PollLoops, loop'[p] = [loop[p] EXCEPT !.live = FALSE]
    PROVE  Stopped(p)
<1>1. loop[p] \in LoopRec
  BY LoopPart
<1>2. /\ loop'[p].on = loop[p].on /\ ~loop'[p].live
      /\ loop'[p].offset = loop[p].offset /\ loop'[p].batch = loop[p].batch
  BY ONLY <1>1, loop'[p] = [loop[p] EXCEPT !.live = FALSE] DEF LoopRec
<1>3. ASSUME ~loop[p].on PROVE loop'[p] = loop[p]
  <2>1. loop[p] = LoopOff
    BY <1>3 DEF LoopInv
  <2>2. [LoopOff EXCEPT !.live = FALSE] = LoopOff
    <3>1. \A r \in LoopRec : r.live = FALSE => [r EXCEPT !.live = FALSE] = r
      BY DEF LoopRec
    <3>2. LoopOff.live = FALSE
      BY DEF LoopOff
    <3> QED BY <3>1, <3>2, LoopOffFits
  <2>3. loop'[p] = [LoopOff EXCEPT !.live = FALSE]
    BY <2>1, Zenon
  <2> QED BY <2>1, <2>2, <2>3, Zenon
<1> QED BY <1>2, <1>3 DEF Stopped

AllStopped ==
    /\ \A p \in PollLoops : Stopped(p)
    /\ again' = again \union TakenUp({p \in PollLoops : loop[p].live})
OneStarted ==
    /\ \E p \in PollLoops : Started(p) /\ \A q \in PollLoops : q # p => Stopped(q)
    /\ again' = again
    /\ \A p \in PollLoops : ~loop[p].live
AllSkipped == UNCHANGED <<loop, again>> /\ (settled' => row[polled].on)

LEMMA ReloadIs ==
    ASSUME ChatTypes, LoopInv, ReloadChannels \/ PausePoller
    PROVE  AllStopped \/ OneStarted \/ AllSkipped
<1>1. CASE CancelPoller
  BY <1>1, StoppedIs DEF CancelPoller, AllStopped
<1>2. CASE polled # Nil /\ row[polled].on /\ ~InMap /\ StartPoller
  <2>1. PICK p \in PollLoops :
           /\ ~loop[p].on
           /\ loop' = [loop EXCEPT ![p].on = TRUE, ![p].live = TRUE, ![p].chats = row[polled].chats]
    BY <1>2 DEF StartPoller
  <2>2. loop \in [PollLoops -> LoopRec] /\ \A q \in PollLoops : ~loop[q].live
    BY <1>2 DEF InMap, ChatTypes
  <2>3. \A q \in PollLoops : q # p => loop'[q] = loop[q]
    BY <2>1, <2>2
  <2>4. loop'[p] = [loop[p] EXCEPT !.on = TRUE, !.live = TRUE, !.chats = row[polled].chats]
    BY <2>1, <2>2
  <2>5. loop[p] = LoopOff
    BY <2>1 DEF LoopInv
  <2>6. loop'[p].on /\ loop'[p].live /\ loop'[p].offset = 0 /\ loop'[p].batch = <<>>
    BY ONLY <2>4, <2>5 DEF LoopOff
  <2>7. \A q \in PollLoops : q # p => Stopped(q)
    BY <2>2, <2>3 DEF Stopped
  <2> QED BY <1>2, <2>1, <2>2, <2>6, <2>7 DEF Started, OneStarted, StartPoller
<1>3. CASE row[polled].on /\ UNCHANGED <<loop, again>>
  BY <1>3 DEF AllSkipped
<1> QED BY <1>1, <1>2, <1>3 DEF ReloadChannels, PausePoller

LEMMA LoopReload ==
    ASSUME ChatTypes, LoopInv, ReloadChannels \/ PausePoller
    PROVE  LoopInv'
<1>1. UNCHANGED <<updates, confirmed, call>>
  BY DEF ReloadChannels, PausePoller, PollRest
<1>2. ASSUME NEW p \in PollLoops, Stopped(p) PROVE LoopFits(p)'
  <2>1. LoopFits(p)
    BY LoopIs
  <2> QED BY <1>1, <1>2, <2>1 DEF LoopFits, Stopped, Busy
<1>3. ASSUME NEW p \in PollLoops, Started(p) PROVE LoopFits(p)'
  <2>1. LoopFits(p) /\ Len(updates) \in Nat
    BY LoopIs, ConfirmedTypes
  <2>2. Len(loop'[p].batch) = 0
    BY <1>3 DEF Started
  <2> QED BY <1>1, <1>3, <2>1, <2>2 DEF LoopFits, Started, Busy
<1>4. NoHookLoads'
  BY <1>1 DEF LoopInv, NoHookLoads
<1>5. CASE AllStopped \/ OneStarted
  <2>1. OneLive'
    BY <1>5 DEF OneLive, Stopped, AllStopped, OneStarted
  <2>2. \A p \in PollLoops : Started(p) \/ Stopped(p)
    BY <1>5 DEF AllStopped, OneStarted
  <2> QED BY <1>2, <1>3, <1>4, <2>1, <2>2, LoopIsNext
<1>6. CASE AllSkipped
  <2>1. \A p \in PollLoops : LoopFits(p)'
    BY <1>1, <1>6, LoopIs, FitsAsBefore DEF AllSkipped
  <2>2. OneLive'
    BY <1>6, LoopIs DEF OneLive, AllSkipped
  <2> QED BY <1>4, <2>1, <2>2, LoopIsNext
<1> QED BY <1>5, <1>6, ReloadIs

LEMMA LoopRestart ==
    ASSUME ChatTypes, LoopInv, ServerRestarts
    PROVE  LoopInv'
<1>1. \A p \in PollLoops : loop'[p] = LoopOff /\ call'[p].pc = "idle"
  BY NotBoth DEF ServerRestarts, Calls, CallIdle, Ended
<1>2. \A h \in HookCalls : call'[h].pc # "load"
  BY DEF ServerRestarts, Calls, CallIdle, Ended
<1>3. UNCHANGED updates
  BY DEF ServerRestarts
<1>4. \A p \in PollLoops : LoopFits(p)'
  BY <1>1, <1>3, OffFits
<1>5. OneLive' /\ NoHookLoads'
  BY <1>1, <1>2 DEF OneLive, NoHookLoads, LoopOff
<1> QED BY <1>4, <1>5, LoopIsNext

LEMMA LoopHappens ==
    ASSUME ChatTypes, LoopInv, NEW e \in ChatEvents, ChatHappens(e)
    PROVE  LoopInv'
<1>1. UNCHANGED <<confirmed, loop, call>>
  BY DEF ChatHappens, ChatRest
<1>2. ASSUME NEW p \in PollLoops PROVE LoopFits(p)'
  <2>1. /\ LoopFits(p) /\ loop[p].offset \in Nat /\ loop[p].batch \in Seq(ChatEvents)
        /\ Len(loop[p].batch) \in Nat /\ Len(updates) \in Nat
    BY LoopIs, LoopPart, ConfirmedTypes
  <2>2. \A i \in 1..Len(loop[p].batch) : loop[p].offset + i \in 1..Len(updates)
    BY <2>1 DEF LoopFits
  <2>3. \A i \in 1..Len(loop[p].batch) : loop[p].batch[i] = updates'[loop[p].offset + i]
    BY <2>1, <2>2, GrownUpdates DEF LoopFits
  <2>4. Busy(p) => loop[p].offset > 0 /\ call[p].ev = updates'[loop[p].offset]
    <3>1. loop[p].offset <= Len(updates)
      BY <2>1 DEF LoopFits
    <3> QED BY <2>1, <3>1, GrownUpdates DEF LoopFits
  <2>5. loop[p].offset + Len(loop[p].batch) <= Len(updates')
    BY <2>1, GrownUpdates DEF LoopFits
  <2> QED BY <1>1, <2>1, <2>3, <2>4, <2>5 DEF LoopFits, Busy
<1>3. OneLive' /\ NoHookLoads'
  BY <1>1 DEF LoopInv, OneLive, NoHookLoads
<1> QED BY <1>2, <1>3, LoopIsNext

LEMMA NextIs == \A a, b \in Nat : a < b => a + 1 \in Nat /\ a + 1 <= b
  OBVIOUS

LEMMA MoveOne == \A a, i \in Nat : a + (i + 1) = (a + 1) + i
  OBVIOUS

LEMMA MoveBack ==
    \A a, i \in Nat : a + 1 + i - 1 = a + i /\ i - (a + 1) + 1 = i - a
  OBVIOUS

LEMMA TradeOne == \A a, b, c \in Nat : a + b <= c => (a + 1) + (b - 1) <= c
  OBVIOUS

LEMMA LoopGet ==
    ASSUME ChatTypes, LoopInv, NEW p \in PollLoops, GetUpdates(p)
    PROVE  LoopInv'
<1>1. UNCHANGED <<updates, call>> /\ loop[p].live /\ call[p].pc = "idle"
  BY DEF GetUpdates
<1>2. /\ loop \in [PollLoops -> LoopRec] /\ loop[p] \in LoopRec
      /\ updates \in Seq(ChatEvents) /\ Len(updates) \in Nat /\ confirmed \in Nat /\ loop[p].offset \in Nat
  BY LoopPart, ConfirmedTypes DEF ChatTypes
<1>3. confirmed' \in Nat /\ confirmed' < Len(updates)
  BY <1>2 DEF GetUpdates, NextOffset, Larger
<1> DEFINE b == SubSeq(updates, confirmed' + 1, Len(updates))
<1>4. /\ Len(b) = Len(updates) - confirmed'
      /\ \A i \in 1..Len(b) : b[i] = updates[confirmed' + i]
  <2> DEFINE m == confirmed' + 1
             n == Len(updates)
  <2>1. m \in Nat /\ n \in Nat /\ m <= n /\ \A i \in m..n : updates[i] \in ChatEvents
    <3>1. m \in Nat /\ n \in Nat /\ m <= n
      BY <1>2, <1>3, NextIs
    <3>2. \A i \in m..n : i \in 1..n
      BY ONLY <1>2, <1>3, Behind
    <3> QED BY <3>1, <3>2, ConfirmedTypes
  <2>2. /\ SubSeq(updates, m, n) \in Seq(ChatEvents)
        /\ Len(SubSeq(updates, m, n)) = n - m + 1
        /\ \A i \in 1..n - m + 1 : SubSeq(updates, m, n)[i] = updates[m + i - 1]
    BY <2>1, SubSeqProperties
  <2> HIDE DEF m
  <2>3. \A i \in Nat : m + i - 1 = confirmed' + i
    BY <1>3, MoveBack DEF m
  <2>4. n - m + 1 = Len(updates) - confirmed'
    BY <1>3, <1>2, MoveBack DEF m
  <2>5. b = SubSeq(updates, m, n)
    BY DEF m
  <2>6. Len(b) = Len(updates) - confirmed'
    BY <2>2, <2>4, <2>5, Zenon
  <2>7. ASSUME NEW i \in 1..Len(b) PROVE b[i] = updates[confirmed' + i]
    <3>1. i \in Nat /\ i \in 1..n - m + 1
      BY <2>4, <2>6, <1>2, <1>3
    <3>2. b[i] = updates[m + i - 1]
      BY <2>2, <2>5, <3>1, Zenon
    <3> QED BY <2>3, <3>1, <3>2, Zenon
  <2> QED BY <2>6, <2>7
<1>5. loop' = [loop EXCEPT ![p] = [loop[p] EXCEPT !.offset = confirmed', !.batch = b]]
  BY DEF GetUpdates
<1> HIDE DEF b
<1>6. /\ loop'[p] = [loop[p] EXCEPT !.offset = confirmed', !.batch = b]
      /\ \A q \in PollLoops : q # p => loop'[q] = loop[q]
  BY ONLY <1>2, <1>5
<1>7. /\ loop'[p].on = loop[p].on /\ loop'[p].live = loop[p].live
      /\ loop'[p].offset = confirmed' /\ loop'[p].batch = b
  BY ONLY <1>2, <1>6 DEF LoopRec
<1>8. LoopFits(p)'
  <2>1. LoopFits(p)
    BY LoopIs
  <2>2. loop[p].on
    BY <1>1, <2>1 DEF LoopFits
  <2>3. loop'[p].offset + Len(loop'[p].batch) <= Len(updates')
    BY ONLY <1>1, <1>2, <1>3, <1>4, <1>7
  <2>4. \A i \in 1..Len(loop'[p].batch) : loop'[p].batch[i] = updates'[loop'[p].offset + i]
    BY ONLY <1>1, <1>4, <1>7
  <2>5. confirmed' <= loop'[p].offset
    BY ONLY <1>3, <1>7
  <2> QED BY <1>1, <1>7, <2>2, <2>3, <2>4, <2>5 DEF LoopFits, Busy
<1>9. ASSUME NEW q \in PollLoops, q # p PROVE LoopFits(q)'
  <2>1. ~loop[q].live
    BY <1>1, <1>9 DEF LoopInv
  <2> QED BY <1>1, <1>6, <1>9, <2>1, LoopIs, FitsAsBefore
<1>10. OneLive' /\ NoHookLoads'
  BY <1>1, <1>6, <1>7 DEF LoopInv, OneLive, NoHookLoads
<1> QED BY <1>8, <1>9, <1>10, LoopIsNext

LEMMA LoopPollEnds ==
    ASSUME ChatTypes, LoopInv, NEW p \in PollLoops, PollEnds(p)
    PROVE  LoopInv'
<1>1. UNCHANGED <<updates, call, confirmed>> /\ call[p].pc = "idle"
  BY DEF PollEnds
<1>2. loop'[p] = LoopOff /\ \A q \in PollLoops : q # p => loop'[q] = loop[q]
  BY DEF PollEnds, ChatTypes
<1>3. \A q \in PollLoops : LoopFits(q)'
  BY <1>1, <1>2, OffFits, FitsAsBefore, LoopIs
<1>4. OneLive' /\ NoHookLoads'
  BY <1>1, <1>2 DEF LoopInv, OneLive, NoHookLoads, LoopOff
<1> QED BY <1>3, <1>4, LoopIsNext

\* What taking up an update comes to.
LEMMA TakeIs ==
    ASSUME ChatTypes, LoopInv, EntryInv, NEW p \in PollLoops, TakeUpdate(p)
    PROVE  /\ loop[p].on /\ polled # Nil /\ call[p].pc = "idle"
           /\ loop'[p].on = loop[p].on /\ loop'[p].live = loop[p].live
           /\ loop'[p].offset = loop[p].offset + 1
           /\ Len(loop'[p].batch) = Len(loop[p].batch) - 1
           /\ \A i \in 1..Len(loop'[p].batch) : loop'[p].batch[i] = updates[loop'[p].offset + i]
           /\ \A q \in PollLoops : q # p => loop'[q] = loop[q]
           /\ loop[p].offset + 1 \in 1..Len(updates)
           /\ \/ /\ call'[p].pc = "load" /\ call'[p].ev = updates[loop[p].offset + 1]
                 /\ call'[p].late = call[p].late /\ UNCHANGED tried
              \/ tried' = tried \union {updates[loop[p].offset + 1]} /\ UNCHANGED call
           /\ \A k \in Calls : k # p => call'[k] = call[k]
           /\ UNCHANGED <<polled, event, updates, confirmed, settled, row, asked, posted, accepted, again>>
<1>1. loop[p].on /\ polled # Nil /\ call[p].pc = "idle"
  BY PollerIsOn DEF TakeUpdate
<1>2. /\ loop[p] \in LoopRec /\ loop[p].offset \in Nat /\ loop[p].batch \in Seq(ChatEvents)
      /\ Len(loop[p].batch) \in Nat /\ loop[p].batch # <<>> /\ p \in Calls
      /\ Len(updates) \in Nat
  BY LoopPart, ConfirmedTypes DEF TakeUpdate
<1>3. /\ Head(loop[p].batch) = loop[p].batch[1] /\ Len(loop[p].batch) > 0
      /\ Len(Tail(loop[p].batch)) = Len(loop[p].batch) - 1
      /\ \A i \in 1..Len(Tail(loop[p].batch)) : Tail(loop[p].batch)[i] = loop[p].batch[i + 1]
  BY <1>2, HeadTailProperties, EmptySeq
<1>4. /\ loop[p].offset + Len(loop[p].batch) <= Len(updates)
      /\ \A i \in 1..Len(loop[p].batch) : loop[p].batch[i] = updates[loop[p].offset + i]
  BY DEF LoopInv
<1>5. Head(loop[p].batch) = updates[loop[p].offset + 1] /\ loop[p].offset + 1 \in 1..Len(updates)
  BY <1>2, <1>3, <1>4
<1>6. loop'[p] = [loop[p] EXCEPT !.offset = @ + 1, !.batch = Tail(@)]
      /\ \A q \in PollLoops : q # p => loop'[q] = loop[q]
  BY DEF TakeUpdate, ChatTypes
<1>7. /\ loop'[p].on = loop[p].on /\ loop'[p].live = loop[p].live
      /\ loop'[p].offset = loop[p].offset + 1 /\ loop'[p].batch = Tail(loop[p].batch)
  BY ONLY <1>2, <1>6 DEF LoopRec
<1>8. ASSUME NEW i \in 1..Len(Tail(loop[p].batch))
      PROVE  Tail(loop[p].batch)[i] = updates[(loop[p].offset + 1) + i]
  <2>1. i + 1 \in 1..Len(loop[p].batch) /\ i \in Nat
    BY <1>2, <1>3
  <2>2. loop[p].batch[i + 1] = updates[loop[p].offset + (i + 1)]
    BY <1>4, <2>1
  <2>3. loop[p].offset + (i + 1) = (loop[p].offset + 1) + i
    BY <2>1, <1>2, MoveOne
  <2> QED BY <1>3, <2>2, <2>3
<1>9. /\ \/ /\ call'[p].pc = "load" /\ call'[p].ev = updates[loop[p].offset + 1]
            /\ call'[p].late = call[p].late /\ UNCHANGED tried
         \/ tried' = tried \union {updates[loop[p].offset + 1]} /\ UNCHANGED call
      /\ \A k \in Calls : k # p => call'[k] = call[k]
  <2>1. call \in [Calls -> CallRec] /\ call[p] \in CallRec
    BY <1>2 DEF ChatTypes
  <2>2. CASE tried' = tried \union {Head(loop[p].batch)} /\ UNCHANGED call
    BY <1>5, <2>2
  <2>3. CASE call' = [call EXCEPT ![p].pc = "load", ![p].ev = Head(loop[p].batch)] /\ UNCHANGED tried
    <3>1. call'[p] = [call[p] EXCEPT !.pc = "load", !.ev = Head(loop[p].batch)]
          /\ \A k \in Calls : k # p => call'[k] = call[k]
      BY ONLY <2>1, <2>3, <1>2
    <3>2. call'[p].pc = "load" /\ call'[p].ev = Head(loop[p].batch) /\ call'[p].late = call[p].late
      BY ONLY <2>1, <3>1 DEF CallRec
    <3> QED BY <1>5, <2>3, <3>1, <3>2
  <2> QED BY <2>2, <2>3 DEF TakeUpdate
<1>10. UNCHANGED <<polled, event, updates, confirmed, settled, row, asked, posted, accepted, again>>
  BY DEF TakeUpdate
<1> QED BY ZenonT(60), <1>1, <1>3, <1>5, <1>6, <1>7, <1>8, <1>9, <1>10

LEMMA LoopTake ==
    ASSUME ChatTypes, LoopInv, EntryInv, NEW p \in PollLoops, TakeUpdate(p)
    PROVE  LoopInv'
<1>1. /\ loop[p].offset \in Nat /\ Len(loop[p].batch) \in Nat /\ Len(updates) \in Nat /\ confirmed \in Nat
      /\ p \in Calls /\ loop[p].batch # <<>>
  BY LoopPart, ConfirmedTypes DEF TakeUpdate
<1>2. LoopFits(p)
  BY LoopIs
<1>3. LoopFits(p)'
  <2>1. loop'[p].offset + Len(loop'[p].batch) <= Len(updates')
    <3>1. loop[p].offset + Len(loop[p].batch) <= Len(updates)
      BY <1>2 DEF LoopFits
    <3>2. (loop[p].offset + 1) + (Len(loop[p].batch) - 1) <= Len(updates)
      BY <1>1, <3>1, TradeOne
    <3> QED BY <3>2, TakeIs
  <2>2. loop[p].live => confirmed < loop'[p].offset
    <3>1. loop[p].live => confirmed <= loop[p].offset
      BY <1>1, <1>2 DEF LoopFits
    <3> QED BY <1>1, <3>1, TakeIs
  <2>3. Busy(p)' => loop'[p].offset > 0 /\ call'[p].ev = updates'[loop'[p].offset]
    BY <1>1, TakeIs DEF Busy
  <2>4. call'[p].pc # "done"
    BY TakeIs
  <2>5. confirmed' = confirmed /\ loop'[p].live = loop[p].live /\ loop'[p].on /\ loop[p].on
    BY TakeIs
  <2>6. \A i \in 1..Len(loop'[p].batch) : loop'[p].batch[i] = updates'[loop'[p].offset + i]
    BY TakeIs
  <2>7. loop'[p].offset \in Nat
    BY <1>1, TakeIs
  <2> QED BY <1>1, <2>1, <2>2, <2>3, <2>4, <2>5, <2>6, <2>7 DEF LoopFits
<1>4. ASSUME NEW q \in PollLoops, q # p PROVE LoopFits(q)'
  <2>1. q \in Calls /\ LoopFits(q)
    BY LoopIs DEF Calls
  <2> QED BY <1>4, <2>1, TakeIs, FitsAsBefore
<1>5. OneLive'
  <2>1. \A q \in PollLoops : loop'[q].live = loop[q].live
    BY TakeIs
  <2> QED BY <2>1 DEF LoopInv, OneLive
<1>6. NoHookLoads'
  <2>1. \A h \in HookCalls : h \in Calls /\ h # p
    BY NotBoth DEF Calls
  <2> QED BY <2>1, TakeIs DEF LoopInv, NoHookLoads
<1> QED BY <1>3, <1>4, <1>5, <1>6, LoopIsNext
\* What the read of the row comes to.
LEMMA LoadIs ==
    ASSUME ChatTypes, NEW p \in PollLoops, LoadChannel(p)
    PROVE  /\ call[p].pc = "load"
           /\ \/ /\ loop[p].live /\ call'[p].pc = "ask" /\ call'[p].ev = call[p].ev
                 /\ call'[p].late = (settled /\ ~row[polled].on) /\ UNCHANGED tried
              \/ /\ call'[p] = CallIdle
                 /\ tried' = IF loop[p].live THEN tried \union {call[p].ev} ELSE tried
           /\ \A k \in Calls : k # p => call'[k] = call[k]
           /\ UNCHANGED <<polled, row, settled, event, updates, confirmed, loop, asked, posted,
                          accepted, again>>
<1>1. call \in [Calls -> CallRec] /\ call[p] \in CallRec /\ p \in Calls
  BY LoopPart DEF ChatTypes
<1>2. CASE /\ loop[p].live /\ UNCHANGED tried
           /\ call' = [call EXCEPT ![p].pc = "ask", ![p].ch = polled,
                                   ![p].late = settled /\ ~row[polled].on]
  <2> DEFINE late == settled /\ ~row[polled].on
  <2>1. call'[p] = [call[p] EXCEPT !.pc = "ask", !.ch = polled, !.late = late]
        /\ \A k \in Calls : k # p => call'[k] = call[k]
    BY <1>1, <1>2
  <2> HIDE DEF late
  <2>2. call'[p].pc = "ask" /\ call'[p].ev = call[p].ev /\ call'[p].late = late
    BY ONLY <1>1, <2>1 DEF CallRec
  <2> QED BY <1>2, <2>1, <2>2 DEF late, LoadChannel
<1>3. CASE /\ call' = [call EXCEPT ![p] = CallIdle]
           /\ tried' = IF loop[p].live THEN tried \union {call[p].ev} ELSE tried
  BY <1>1, <1>3 DEF LoadChannel
<1>4. \/ /\ loop[p].live /\ UNCHANGED tried
         /\ call' = [call EXCEPT ![p].pc = "ask", ![p].ch = polled,
                                 ![p].late = settled /\ ~row[polled].on]
      \/ /\ call' = [call EXCEPT ![p] = CallIdle]
         /\ tried' = IF loop[p].live THEN tried \union {call[p].ev} ELSE tried
  BY DEF LoadChannel
<1> QED BY <1>2, <1>3, <1>4

\* What the turn of an agent comes to.
AskedNow(k) == asked' = [asked EXCEPT ![call[k].ev] = @ + 1]

LEMMA AskIs ==
    ASSUME ChatTypes, NEW k \in Calls, AskAgent(k)
    PROVE  /\ call[k].pc = "ask"
           /\ \/ /\ Live(k) /\ call'[k].pc = "answer" /\ call'[k].ev = call[k].ev
                 /\ call'[k].late = call[k].late
                 /\ AskedNow(k) /\ tried' = tried \union {call[k].ev}
              \/ call'[k] = Ended(k) /\ AskedNow(k) /\ tried' = tried \union {call[k].ev}
              \/ /\ call'[k] = Ended(k) /\ UNCHANGED asked
                 /\ tried' = IF Live(k) THEN tried \union {call[k].ev} ELSE tried
           /\ \A l \in Calls : l # k => call'[l] = call[l]
           /\ UNCHANGED <<polled, row, settled, event, updates, confirmed, loop, posted,
                          accepted, again>>
<1>1. call \in [Calls -> CallRec] /\ call[k] \in CallRec
  BY DEF ChatTypes
<1>2. ASSUME call' = [call EXCEPT ![k].pc = "answer"]
      PROVE  /\ call'[k].pc = "answer" /\ call'[k].ev = call[k].ev /\ call'[k].late = call[k].late
             /\ \A l \in Calls : l # k => call'[l] = call[l]
  <2>1. call'[k] = [call[k] EXCEPT !.pc = "answer"] /\ \A l \in Calls : l # k => call'[l] = call[l]
    BY <1>1, <1>2
  <2> QED BY ONLY <1>1, <2>1 DEF CallRec
<1>3. ASSUME call' = [call EXCEPT ![k] = Ended(k)]
      PROVE  call'[k] = Ended(k) /\ \A l \in Calls : l # k => call'[l] = call[l]
  BY <1>1, <1>3
<1>4. \/ /\ Live(k) /\ call' = [call EXCEPT ![k].pc = "answer"]
         /\ AskedNow(k) /\ tried' = tried \union {call[k].ev}
      \/ call' = [call EXCEPT ![k] = Ended(k)] /\ AskedNow(k) /\ tried' = tried \union {call[k].ev}
      \/ /\ call' = [call EXCEPT ![k] = Ended(k)] /\ UNCHANGED asked
         /\ tried' = IF Live(k) THEN tried \union {call[k].ev} ELSE tried
  BY DEF AskAgent, AskedNow
<1>5. call[k].pc = "ask" /\ UNCHANGED <<polled, row, settled, event, updates, confirmed, loop, posted,
                                       accepted, again>>
  BY DEF AskAgent
<1> QED BY <1>2, <1>3, <1>4, <1>5

LEMMA AnswerEnds ==
    ASSUME ChatTypes, NEW k \in Calls, PostAnswer(k)
    PROVE  /\ call[k].pc = "answer" /\ call'[k] = Ended(k)
           /\ \A l \in Calls : l # k => call'[l] = call[l]
           /\ UNCHANGED <<polled, row, settled, event, updates, confirmed, loop, asked,
                          tried, accepted, again, racers, post>>
  BY DEF PostAnswer, ChatTypes

LEMMA EndedIs ==
    ASSUME NEW k \in Calls
    PROVE  /\ Ended(k).pc \in {"idle", "done"} /\ ~Ended(k).late
           /\ k \in PollLoops => Ended(k).pc = "idle"
  BY NotBoth DEF Ended, CallIdle, Calls

LEMMA IdleIs == CallIdle.pc = "idle" /\ ~CallIdle.late
  BY DEF CallIdle

LEMMA HookIs ==
    ASSUME ChatTypes, NEW h \in HookCalls, NEW e \in ChatEvents, HookComesTo(h, e)
    PROVE  /\ \A k \in Calls : k # h => call'[k] = call[k]
           /\ call'[h].late = call[h].late
           /\ \/ call'[h].pc = "done" /\ accepted' = accepted /\ tried' \in {tried, tried \union {e}}
              \/ call'[h].pc = "done" /\ accepted' = accepted \union {e} /\ tried' = tried \union {e}
              \/ /\ call'[h].pc = "ask" /\ call'[h].ev = e
                 /\ accepted' = accepted \union {e} /\ tried' = tried
<1>1. h \in Calls /\ call \in [Calls -> CallRec] /\ call[h] \in CallRec
  BY DEF ChatTypes, Calls
<1>2. ASSUME HookDone(h)
      PROVE  /\ call'[h].pc = "done" /\ call'[h].late = call[h].late
             /\ \A k \in Calls : k # h => call'[k] = call[k]
  <2>1. call'[h] = [call[h] EXCEPT !.pc = "done"] /\ \A k \in Calls : k # h => call'[k] = call[k]
    BY <1>1, <1>2, HookDoneFits
  <2> QED BY ONLY <1>1, <2>1 DEF CallRec
<1>3. ASSUME NEW c \in ChatChannels, HookAsks(h, e, c)
      PROVE  /\ call'[h].pc = "ask" /\ call'[h].ev = e /\ call'[h].late = call[h].late
             /\ \A k \in Calls : k # h => call'[k] = call[k]
  <2>1. /\ call'[h] = [call[h] EXCEPT !.pc = "ask", !.ev = e, !.ch = c]
        /\ \A k \in Calls : k # h => call'[k] = call[k]
    <3>1. call' = [call EXCEPT ![h] = [call[h] EXCEPT !.pc = "ask", !.ev = e, !.ch = c]]
      BY <1>3 DEF HookAsks
    <3> QED BY ONLY <1>1, <3>1
  <2> QED BY ONLY <1>1, <2>1 DEF CallRec
<1> QED BY <1>2, <1>3 DEF HookComesTo

LEMMA LoopCalls ==
    ASSUME ChatTypes, LoopInv, NEW k \in Calls,
           UNCHANGED <<updates, confirmed, loop>>, \A l \in Calls : l # k => call'[l] = call[l],
           call'[k].pc \in {"idle", "done", "ask", "answer"},
           k \in PollLoops => Busy(k) /\ call'[k].pc # "done",
           k \in PollLoops /\ Busy(k)' => call'[k].ev = call[k].ev
    PROVE  LoopInv'
<1>1. ASSUME NEW q \in PollLoops, q # k PROVE LoopFits(q)'
  <2>1. q \in Calls /\ LoopFits(q)
    BY LoopIs DEF Calls
  <2> QED BY <1>1, <2>1, FitsAsBefore
<1>2. ASSUME k \in PollLoops PROVE LoopFits(k)'
  <2>1. LoopFits(k)
    BY <1>2, LoopIs
  <2> QED BY <1>2, <2>1 DEF LoopFits, Busy
<1>3. OneLive'
  BY DEF LoopInv, OneLive
<1>4. NoHookLoads'
  <2>1. \A h \in HookCalls : h \in Calls
    BY DEF Calls
  <2> QED BY <2>1 DEF LoopInv, NoHookLoads
<1> QED BY <1>1, <1>2, <1>3, <1>4, LoopIsNext

LEMMA LoopAnyCall ==
    ASSUME ChatTypes, LoopInv, NEW k \in Calls, AskAgent(k) \/ PostAnswer(k)
    PROVE  LoopInv'
  BY LoopCalls, AskIs, AnswerEnds, EndedIs DEF Busy

LEMMA LoopLoad ==
    ASSUME ChatTypes, LoopInv, NEW p \in PollLoops, LoadChannel(p)
    PROVE  LoopInv'
<1>1. p \in Calls
  BY DEF Calls
<1> QED BY <1>1, LoopCalls, LoadIs, IdleIs DEF Busy

LEMMA LoopWebhook ==
    ASSUME ChatTypes, LoopInv, NEW h \in HookCalls, Webhook(h)
    PROVE  LoopInv'
<1>1. h \in Calls /\ h \notin PollLoops
  BY NotBoth DEF Calls
<1>2. PICK e \in ChatEvents : HookComesTo(h, e)
  BY WebhookIs
<1> QED BY <1>1, <1>2, LoopCalls, HookIs, WebhookIs

-----------------------------------------------------------------------------
(***************************************************************************)
(* What was tried, and what was asked.                                     *)
(***************************************************************************)
\* What a poller with a context has behind it was tried.
LoopTried(p) ==
    loop[p].live => \A i \in 1..loop[p].offset :
                       updates[i] \in tried \/ (i = loop[p].offset /\ call[p].pc \in {"load", "ask"})

LEMMA TriedIs == TriedInv <=> ConfirmedIsTried /\ AcceptedIsTried /\ \A p \in PollLoops : LoopTried(p)
  BY DEF TriedInv, LoopTried

LEMMA TriedIsNext ==
    TriedInv' <=> ConfirmedIsTried' /\ AcceptedIsTried' /\ \A p \in PollLoops : LoopTried(p)'
  BY DEF TriedInv, LoopTried

\* The calls that accepted events wait for are those of webhooks.
LEMMA AcceptedKept ==
    ASSUME AcceptedIsTried, accepted' = accepted, tried \subseteq tried',
           \A h \in HookCalls : call[h].pc = "ask" =>
               call'[h] = call[h] \/ call[h].ev \in tried'
    PROVE  AcceptedIsTried'
<1> SUFFICES ASSUME NEW e \in accepted, e \notin tried'
             PROVE  \E h \in HookCalls : call'[h].pc = "ask" /\ call'[h].ev = e
  BY DEF AcceptedIsTried
<1>1. PICK h \in HookCalls : call[h].pc = "ask" /\ call[h].ev = e
  BY DEF AcceptedIsTried
<1>2. call'[h] = call[h]
  BY <1>1
<1> QED BY <1>1, <1>2

LEMMA ConfirmedKept ==
    ASSUME ConfirmedIsTried, UNCHANGED <<confirmed, updates>>, tried \subseteq tried'
    PROVE  ConfirmedIsTried'
  BY DEF ConfirmedIsTried

LEMMA TriedHappens ==
    ASSUME ChatTypes, LoopInv, TriedInv, NEW e \in ChatEvents, ChatHappens(e)
    PROVE  TriedInv'
<1>1. UNCHANGED <<confirmed, loop, call, tried, accepted>>
  BY DEF ChatHappens, ChatRest
<1>2. ConfirmedIsTried'
  <2>1. confirmed \in Nat /\ confirmed <= Len(updates) /\ Len(updates) \in Nat
    BY ConfirmedTypes
  <2>2. \A i \in 1..confirmed : i \in 1..Len(updates)
    BY <2>1
  <2> QED BY <1>1, <2>2, GrownUpdates DEF TriedInv, ConfirmedIsTried
<1>3. AcceptedIsTried'
  BY <1>1, AcceptedKept DEF TriedInv
<1>4. ASSUME NEW p \in PollLoops PROVE LoopTried(p)'
  <2>1. /\ loop[p].offset \in Nat /\ Len(loop[p].batch) \in Nat /\ Len(updates) \in Nat
        /\ loop[p].offset + Len(loop[p].batch) <= Len(updates)
    BY LoopPart, ConfirmedTypes DEF LoopInv
  <2>2. \A i \in 1..loop[p].offset : i \in 1..Len(updates)
    BY <2>1
  <2> QED BY <1>1, <2>2, GrownUpdates, TriedIs DEF LoopTried
<1> QED BY <1>2, <1>3, <1>4, TriedIsNext

LEMMA TriedReload ==
    ASSUME ChatTypes, LoopInv, TriedInv, ReloadChannels \/ PausePoller
    PROVE  TriedInv'
<1>1. UNCHANGED <<updates, confirmed, call, tried, accepted>>
  BY DEF ReloadChannels, PausePoller, PollRest
<1>2. ASSUME NEW p \in PollLoops PROVE LoopTried(p)'
  <2>1. Started(p) \/ Stopped(p) \/ loop'[p] = loop[p]
    BY ReloadIs DEF AllStopped, OneStarted, AllSkipped
  <2>2. LoopTried(p)
    BY TriedIs
  <2> QED BY <1>1, <2>1, <2>2 DEF LoopTried, Started, Stopped
<1> QED BY <1>1, <1>2, TriedIs, TriedIsNext, ConfirmedKept, AcceptedKept

LEMMA TriedRestart ==
    ASSUME ChatTypes, TriedInv, ServerRestarts
    PROVE  TriedInv'
<1>1. UNCHANGED <<updates, confirmed, accepted>>
  BY DEF ServerRestarts
<1>2. ASSUME NEW p \in PollLoops PROVE LoopTried(p)'
  <2>1. ~loop'[p].live
    BY DEF ServerRestarts, LoopOff
  <2> QED BY <2>1 DEF LoopTried
<1>3. tried \subseteq tried' /\ \A h \in HookCalls : call[h].pc = "ask" => call[h].ev \in tried'
  BY DEF ServerRestarts
<1> QED BY <1>1, <1>2, <1>3, TriedIs, TriedIsNext, ConfirmedKept, AcceptedKept

LEMMA TriedGet ==
    ASSUME ChatTypes, LoopInv, TriedInv, NEW p \in PollLoops, GetUpdates(p)
    PROVE  TriedInv'
<1>1. UNCHANGED <<updates, call, tried, accepted>> /\ loop[p].live /\ call[p].pc = "idle"
  BY DEF GetUpdates
<1>2. confirmed \in Nat /\ loop[p].offset \in Nat /\ confirmed' \in {confirmed, loop[p].offset}
  BY LoopPart, ConfirmedTypes DEF GetUpdates, NextOffset, Larger
<1>3. \A i \in 1..loop[p].offset : updates[i] \in tried
  BY <1>1, TriedIs DEF LoopTried
<1>4. \A i \in 1..confirmed : updates[i] \in tried
  BY TriedIs DEF ConfirmedIsTried
<1>5. \A i \in 1..confirmed' : updates[i] \in tried
  BY <1>2, <1>3, <1>4
<1>6. /\ loop'[p].offset = confirmed'
      /\ \A q \in PollLoops : q # p => loop'[q] = loop[q]
  <2>1. loop \in [PollLoops -> LoopRec] /\ loop[p] \in LoopRec
    BY DEF ChatTypes
  <2>2. /\ loop'[p] = [loop[p] EXCEPT !.offset = confirmed',
                                    !.batch = SubSeq(updates, confirmed' + 1, Len(updates))]
        /\ \A q \in PollLoops : q # p => loop'[q] = loop[q]
    BY <2>1 DEF GetUpdates
  <2> QED BY ONLY <2>1, <2>2 DEF LoopRec
<1>7. ASSUME NEW q \in PollLoops PROVE LoopTried(q)'
  <2>1. CASE q = p
    BY <1>1, <1>5, <1>6, <2>1 DEF LoopTried
  <2>2. CASE q # p
    BY <1>1, <1>6, <2>2, TriedIs DEF LoopTried
  <2> QED BY <2>1, <2>2
<1>8. ConfirmedIsTried'
  BY <1>1, <1>5 DEF ConfirmedIsTried
<1> QED BY <1>1, <1>7, <1>8, TriedIs, TriedIsNext, AcceptedKept

LEMMA TriedPollEnds ==
    ASSUME ChatTypes, TriedInv, NEW p \in PollLoops, PollEnds(p)
    PROVE  TriedInv'
<1>1. UNCHANGED <<updates, confirmed, call, tried, accepted>>
  BY DEF PollEnds
<1>2. loop'[p] = LoopOff /\ \A q \in PollLoops : q # p => loop'[q] = loop[q]
  BY DEF PollEnds, ChatTypes
<1>3. ASSUME NEW q \in PollLoops PROVE LoopTried(q)'
  BY <1>1, <1>2, TriedIs DEF LoopTried, LoopOff
<1> QED BY <1>1, <1>3, TriedIs, TriedIsNext, ConfirmedKept, AcceptedKept

LEMMA UpTo == \A n \in Nat : \A i \in 1..(n + 1) : i \in 1..n \/ i = n + 1
  OBVIOUS

LEMMA TriedTake ==
    ASSUME ChatTypes, LoopInv, EntryInv, TriedInv, NEW p \in PollLoops, TakeUpdate(p)
    PROVE  TriedInv'
<1>1. /\ UNCHANGED <<updates, confirmed, accepted>> /\ tried \subseteq tried'
      /\ \A h \in HookCalls : call'[h] = call[h]
  <2>1. \A h \in HookCalls : h \in Calls /\ h # p
    BY NotBoth DEF Calls
  <2> QED BY <2>1, TakeIs
<1>2. ASSUME NEW q \in PollLoops, q # p PROVE LoopTried(q)'
  <2>1. q \in Calls
    BY DEF Calls
  <2>2. loop'[q] = loop[q] /\ call'[q] = call[q] /\ tried \subseteq tried' /\ updates' = updates
    BY <1>1, <1>2, <2>1, TakeIs
  <2>3. LoopTried(q)
    BY TriedIs
  <2> QED BY <2>2, <2>3 DEF LoopTried
<1>3. LoopTried(p)'
  <2>1. loop[p].offset \in Nat /\ loop'[p].offset = loop[p].offset + 1 /\ loop'[p].live = loop[p].live
    BY LoopPart, TakeIs
  <2>2. loop[p].live => \A i \in 1..loop[p].offset : updates[i] \in tried
    BY TriedIs, TakeIs DEF LoopTried
  <2>3. call'[p].pc = "load" \/ updates[loop[p].offset + 1] \in tried'
    BY TakeIs
  <2> QED BY <1>1, <2>1, <2>2, <2>3, UpTo DEF LoopTried
<1> QED BY <1>1, <1>2, <1>3, TriedIs, TriedIsNext, ConfirmedKept, AcceptedKept

\* A call of a poller that ends, or goes on, has seen to its update.
LEMMA TriedCalls ==
    ASSUME ChatTypes, LoopInv, TriedInv, NEW k \in Calls,
           UNCHANGED <<updates, confirmed, loop, accepted>>, tried \subseteq tried',
           \A l \in Calls : l # k => call'[l] = call[l],
           call[k].pc = "ask" /\ Live(k) => call[k].ev \in tried',
           k \in PollLoops => Busy(k),
           k \in PollLoops /\ call[k].pc = "load" /\ loop[k].live =>
               call[k].ev \in tried' \/ call'[k].pc = "ask"
    PROVE  TriedInv'
<1>1. \A h \in HookCalls : h \in Calls /\ h \notin PollLoops
  BY NotBoth DEF Calls
<1>2. AcceptedIsTried'
  BY <1>1, TriedIs, AcceptedKept DEF Live
<1>3. ASSUME NEW q \in PollLoops, q # k PROVE LoopTried(q)'
  <2>1. q \in Calls /\ LoopTried(q)
    BY TriedIs DEF Calls
  <2> QED BY <1>3, <2>1 DEF LoopTried
<1>4. ASSUME k \in PollLoops PROVE LoopTried(k)'
  <2>1. LoopTried(k) /\ call[k].ev = updates[loop[k].offset]
    BY <1>4, TriedIs DEF LoopInv
  <2>2. Live(k) = loop[k].live
    BY <1>4 DEF Live
  <2> QED BY <1>4, <2>1, <2>2 DEF LoopTried
<1> QED BY <1>2, <1>3, <1>4, TriedIs, TriedIsNext, ConfirmedKept

LEMMA TriedAnyCall ==
    ASSUME ChatTypes, LoopInv, TriedInv, NEW k \in Calls, AskAgent(k) \/ PostAnswer(k)
    PROVE  TriedInv'
<1>1. CASE AskAgent(k)
  <2>1. /\ UNCHANGED <<updates, confirmed, loop, accepted>> /\ tried \subseteq tried'
        /\ \A l \in Calls : l # k => call'[l] = call[l]
        /\ call[k].pc = "ask" /\ (Live(k) => call[k].ev \in tried')
    BY <1>1, AskIs
  <2> QED BY <2>1, TriedCalls DEF Busy
<1>2. CASE PostAnswer(k)
  BY <1>2, AnswerEnds, TriedCalls DEF Busy
<1> QED BY <1>1, <1>2

LEMMA TriedLoad ==
    ASSUME ChatTypes, LoopInv, TriedInv, NEW p \in PollLoops, LoadChannel(p)
    PROVE  TriedInv'
<1>1. p \in Calls
  BY DEF Calls
<1>2. /\ UNCHANGED <<updates, confirmed, loop, accepted>> /\ tried \subseteq tried'
      /\ \A l \in Calls : l # p => call'[l] = call[l]
      /\ call[p].pc = "load" /\ (loop[p].live => call[p].ev \in tried' \/ call'[p].pc = "ask")
  BY LoadIs
<1> QED BY <1>1, <1>2, TriedCalls DEF Busy

LEMMA TriedWebhook ==
    ASSUME ChatTypes, LoopInv, TriedInv, NEW h \in HookCalls, Webhook(h)
    PROVE  TriedInv'
<1>1. PICK e \in ChatEvents : HookComesTo(h, e)
  BY WebhookIs
<1>2. UNCHANGED <<updates, confirmed, loop>> /\ call[h].pc = "idle" /\ tried \subseteq tried'
  BY <1>1, WebhookIs, HookIs
<1>3. \A k \in Calls : k # h => call'[k] = call[k]
  BY <1>1, HookIs
<1>4. AcceptedIsTried'
  <2>1. \A d \in accepted : d \in tried' \/ \E g \in HookCalls : call'[g].pc = "ask" /\ call'[g].ev = d
    <3> SUFFICES ASSUME NEW d \in accepted, d \notin tried'
                 PROVE  \E g \in HookCalls : call'[g].pc = "ask" /\ call'[g].ev = d
      OBVIOUS
    <3>1. PICK g \in HookCalls : call[g].pc = "ask" /\ call[g].ev = d
      BY <1>2, TriedIs DEF AcceptedIsTried
    <3>2. g # h /\ g \in Calls
      BY <1>2, <3>1 DEF Calls
    <3> QED BY <1>3, <3>1, <3>2
  <2>2. \/ accepted' = accepted
        \/ /\ accepted' = accepted \union {e}
           /\ e \in tried' \/ (call'[h].pc = "ask" /\ call'[h].ev = e)
    BY <1>1, HookIs
  <2> QED BY <2>1, <2>2 DEF AcceptedIsTried
<1>5. ASSUME NEW q \in PollLoops PROVE LoopTried(q)'
  <2>1. q \in Calls /\ q # h
    BY NotBoth DEF Calls
  <2>2. LoopTried(q)
    BY TriedIs
  <2> QED BY <1>2, <1>3, <2>1, <2>2 DEF LoopTried
<1> QED BY <1>2, <1>4, <1>5, TriedIs, TriedIsNext, ConfirmedKept
-----------------------------------------------------------------------------
\* The platform will not offer the event again, or it was accepted.
Held(e) == e \in accepted \/ \E i \in 1..Len(updates) : updates[i] = e /\ Reached(i)
OnceOf(e) ==
    /\ asked[e] <= 1
    /\ \A k \in Calls : WillAsk(k) /\ call[k].ev = e => asked[e] = 0
    /\ \A k, l \in Calls : WillAsk(k) /\ WillAsk(l) /\ call[k].ev = e /\ call[l].ev = e => k = l
    /\ Touched(e) => Held(e)

LEMMA OnceIs == OnceInv <=> \A e \in ChatEvents \ again : OnceOf(e)
  BY DEF OnceInv, OnceOf, Held

LEMMA OnceIsNext == OnceInv' <=> \A e \in ChatEvents \ again' : OnceOf(e)'
  BY DEF OnceInv, OnceOf, Held

\* Nobody new is going to ask.
LEMMA OnceKept ==
    ASSUME NEW e \in ChatEvents, OnceOf(e), asked'[e] = asked[e],
           \A k \in Calls : WillAsk(k)' /\ call'[k].ev = e => WillAsk(k) /\ call[k].ev = e,
           Touched(e) /\ Held(e) => Held(e)'
    PROVE  OnceOf(e)'
<1>1. Touched(e)' => Touched(e)
  BY DEF Touched
<1> QED BY <1>1 DEF OnceOf

\* A step that leaves everything about the event as it is.
LEMMA OnceAside ==
    ASSUME OnceInv, again \subseteq again', asked' = asked,
           \A k \in Calls : WillAsk(k)' => WillAsk(k) /\ call'[k].ev = call[k].ev,
           \A e \in ChatEvents \ again' : Held(e) => Held(e)'
    PROVE  OnceInv'
<1> SUFFICES ASSUME NEW e \in ChatEvents \ again' PROVE OnceOf(e)'
  BY OnceIsNext
<1>1. OnceOf(e)
  BY OnceIs
<1> QED BY <1>1, OnceKept

LEMMA HeldKept ==
    ASSUME NEW e, accepted \subseteq accepted', UNCHANGED updates, Held(e),
           \A i \in 1..Len(updates) : updates[i] = e /\ Reached(i) => Reached(i)'
    PROVE  Held(e)'
  BY DEF Held

LEMMA OnceHappens ==
    ASSUME ChatTypes, OnceInv, NEW e \in ChatEvents, ChatHappens(e)
    PROVE  OnceInv'
<1>1. UNCHANGED <<confirmed, loop, call, asked, accepted, again>>
  BY DEF ChatHappens, ChatRest
<1>2. \A k \in Calls : WillAsk(k)' => WillAsk(k) /\ call'[k].ev = call[k].ev
  BY <1>1 DEF WillAsk
<1>3. ASSUME NEW d \in ChatEvents, Held(d) PROVE Held(d)'
  <2>1. CASE d \in accepted
    BY <1>1, <2>1 DEF Held
  <2>2. ASSUME NEW i \in 1..Len(updates), updates[i] = d, Reached(i) PROVE Held(d)'
    <3>1. Reached(i)'
      BY <1>1, <2>2 DEF Reached
    <3>2. updates'[i] = d /\ i \in 1..Len(updates')
      BY <2>2, GrownUpdates, ConfirmedTypes
    <3> QED BY <3>1, <3>2 DEF Held
  <2> QED BY <1>3, <2>1, <2>2 DEF Held
<1> QED BY <1>1, <1>2, <1>3, OnceAside

\* What a poller that ends had reached is offered again, or was confirmed.
LEMMA ReachedAgain ==
    ASSUME ChatTypes, LoopInv, NEW ps \in SUBSET PollLoops, NEW i \in 1..Len(updates),
           Reached(i), updates[i] \notin TakenUp(ps)
    PROVE  i <= confirmed \/ \E p \in PollLoops \ ps : loop[p].live /\ i <= loop[p].offset
<1> SUFFICES ASSUME ~(i <= confirmed), NEW p \in ps, loop[p].live, i <= loop[p].offset PROVE FALSE
  BY DEF Reached
<1>1. confirmed \in Nat /\ Len(updates) \in Nat
  BY ConfirmedTypes
<1>2. i \in confirmed + 1..Len(updates)
  BY <1>1
<1> QED BY <1>2 DEF TakenUp

LEMMA OnceReload ==
    ASSUME ChatTypes, LoopInv, OnceInv, ReloadChannels \/ PausePoller
    PROVE  OnceInv'
<1>1. UNCHANGED <<updates, confirmed, call, asked, accepted>>
  BY DEF ReloadChannels, PausePoller, PollRest
<1>2. \A p \in PollLoops : loop'[p].live => (~loop[p].on /\ call[p].pc = "idle") \/ loop'[p] = loop[p]
  BY ReloadIs DEF AllStopped, OneStarted, AllSkipped, Started, Stopped, LoopInv
<1>3. \A k \in Calls : WillAsk(k)' => WillAsk(k) /\ call'[k].ev = call[k].ev
  <2> SUFFICES ASSUME NEW k \in Calls, WillAsk(k)' PROVE WillAsk(k)
    BY <1>1
  <2>1. call[k].pc = "load" => k \in PollLoops
    BY DEF LoopInv, Calls
  <2> QED BY <1>1, <1>2, <2>1 DEF WillAsk
<1>4. again \subseteq again'
  BY ReloadIs DEF AllStopped, OneStarted, AllSkipped
<1>5. ASSUME NEW e \in ChatEvents \ again', NEW i \in 1..Len(updates), updates[i] = e, Reached(i)
      PROVE  Reached(i)'
  <2>1. CASE AllSkipped
    BY <1>1, <1>5, <2>1 DEF AllSkipped, Reached
  <2>2. CASE OneStarted
    BY <1>1, <1>5, <2>2 DEF OneStarted, Reached
  <2>3. CASE AllStopped
    <3>1. i <= confirmed
      BY <1>5, <2>3, ReachedAgain DEF AllStopped
    <3> QED BY <1>1, <3>1 DEF Reached
  <2> QED BY <2>1, <2>2, <2>3, ReloadIs
<1>6. ASSUME NEW e \in ChatEvents \ again', Held(e) PROVE Held(e)'
  BY <1>1, <1>5, <1>6, HeldKept
<1> QED BY <1>1, <1>3, <1>4, <1>6, OnceAside

LEMMA OnceRestart ==
    ASSUME ChatTypes, LoopInv, OnceInv, ServerRestarts
    PROVE  OnceInv'
<1>1. /\ UNCHANGED <<updates, confirmed, asked, accepted>>
      /\ again' = again \union TakenUp({p \in PollLoops : loop[p].on})
  BY DEF ServerRestarts
<1>2. \A k \in Calls : ~WillAsk(k)'
  BY DEF ServerRestarts, WillAsk, CallIdle, Ended
<1>3. ASSUME NEW e \in ChatEvents \ again', Held(e) PROVE Held(e)'
  <2>1. ASSUME NEW i \in 1..Len(updates), updates[i] = e, Reached(i) PROVE Reached(i)'
    <3>1. i <= confirmed
      BY <1>1, <1>3, <2>1, ReachedAgain DEF LoopInv
    <3> QED BY <1>1, <3>1 DEF Reached
  <2> QED BY <1>1, <1>3, <2>1, HeldKept
<1> QED BY <1>1, <1>2, <1>3, OnceAside

LEMMA OncePollEnds ==
    ASSUME ChatTypes, LoopInv, OnceInv, NEW p \in PollLoops, PollEnds(p)
    PROVE  OnceInv'
<1>1. /\ UNCHANGED <<updates, confirmed, asked, accepted, call>>
      /\ again' = again \union TakenUp({p}) /\ call[p].pc = "idle"
  BY DEF PollEnds
<1>2. loop'[p] = LoopOff /\ \A q \in PollLoops : q # p => loop'[q] = loop[q]
  BY DEF PollEnds, ChatTypes
<1>3. \A k \in Calls : WillAsk(k)' => WillAsk(k) /\ call'[k].ev = call[k].ev
  <2> SUFFICES ASSUME NEW k \in Calls, WillAsk(k)' PROVE WillAsk(k)
    BY <1>1
  <2>1. call[k].pc = "load" => k \in PollLoops
    BY DEF LoopInv, Calls
  <2> QED BY <1>1, <1>2, <2>1 DEF WillAsk
<1>4. ASSUME NEW e \in ChatEvents \ again', Held(e) PROVE Held(e)'
  <2>1. ASSUME NEW i \in 1..Len(updates), updates[i] = e, Reached(i) PROVE Reached(i)'
    <3>1. i <= confirmed \/ \E q \in PollLoops \ {p} : loop[q].live /\ i <= loop[q].offset
      BY <1>1, <1>4, <2>1, ReachedAgain
    <3> QED BY <1>1, <1>2, <3>1 DEF Reached
  <2> QED BY <1>1, <1>4, <2>1, HeldKept
<1> QED BY <1>1, <1>3, <1>4, OnceAside

LEMMA GetIs ==
    ASSUME ChatTypes, NEW p \in PollLoops, GetUpdates(p)
    PROVE  /\ UNCHANGED <<updates, call, asked, accepted, again, polled, row, settled, posted>>
           /\ loop[p].live /\ call[p].pc = "idle" /\ loop'[p].live /\ loop'[p].offset = confirmed'
           /\ confirmed' \in Nat /\ confirmed' >= confirmed /\ confirmed' >= loop[p].offset
           /\ \A q \in PollLoops : q # p => loop'[q] = loop[q]
<1>1. confirmed \in Nat /\ loop[p].offset \in Nat /\ loop[p] \in LoopRec /\ loop \in [PollLoops -> LoopRec]
  BY LoopPart, ConfirmedTypes DEF ChatTypes
<1>2. confirmed' = Larger(confirmed, loop[p].offset)
  BY DEF GetUpdates, NextOffset
<1>3. confirmed' \in Nat /\ confirmed' >= confirmed /\ confirmed' >= loop[p].offset
  BY ONLY <1>1, <1>2 DEF Larger
<1>4. /\ loop'[p] = [loop[p] EXCEPT !.offset = confirmed',
                                  !.batch = SubSeq(updates, confirmed' + 1, Len(updates))]
      /\ \A q \in PollLoops : q # p => loop'[q] = loop[q]
  BY <1>1 DEF GetUpdates
<1>5. loop'[p].live = loop[p].live /\ loop'[p].offset = confirmed'
  BY ONLY <1>1, <1>4 DEF LoopRec
<1> QED BY <1>3, <1>4, <1>5 DEF GetUpdates

LEMMA AtMost == \A a, b, c \in Nat : a <= b /\ c >= b => a <= c
  OBVIOUS

LEMMA OnceGet ==
    ASSUME ChatTypes, LoopInv, OnceInv, NEW p \in PollLoops, GetUpdates(p)
    PROVE  OnceInv'
<1>1. \A k \in Calls : WillAsk(k)' => WillAsk(k) /\ call'[k].ev = call[k].ev
  <2> SUFFICES ASSUME NEW k \in Calls, WillAsk(k)' PROVE WillAsk(k)
    BY GetIs
  <2>1. call[k].pc = "load" => k \in PollLoops /\ k # p
    BY GetIs DEF LoopInv, Calls
  <2> QED BY <2>1, GetIs DEF WillAsk
<1>2. ASSUME NEW i \in 1..Len(updates), Reached(i) PROVE Reached(i)'
  <2>1. /\ i \in Nat /\ confirmed \in Nat /\ loop[p].offset \in Nat /\ confirmed' \in Nat
        /\ confirmed' >= confirmed /\ confirmed' >= loop[p].offset
    BY LoopPart, ConfirmedTypes, GetIs
  <2>2. CASE i <= confirmed \/ i <= loop[p].offset
    <3>1. i <= confirmed'
      BY <2>1, <2>2, AtMost
    <3> QED BY <3>1 DEF Reached
  <2>3. ASSUME NEW q \in PollLoops, q # p, loop[q].live PROVE FALSE
    BY <2>3, GetIs DEF LoopInv
  <2> QED BY <1>2, <2>2, <2>3 DEF Reached
<1>3. \A e \in ChatEvents : Held(e) => Held(e)'
  BY <1>2, HeldKept, GetIs
<1> QED BY <1>1, <1>3, OnceAside, GetIs
\* The update that a poller with a context takes up is new.
LEMMA TakenIsNew ==
    ASSUME ChatTypes, LoopInv, EntryInv, NEW p \in PollLoops, TakeUpdate(p), loop[p].live
    PROVE  ~Held(updates[loop[p].offset + 1])
<1> DEFINE n == loop[p].offset + 1
<1>1. n \in 1..Len(updates) /\ polled # Nil
  BY TakeIs
<1>2. /\ loop[p].offset \in Nat /\ confirmed \in Nat /\ confirmed <= loop[p].offset
  BY LoopPart, ConfirmedTypes DEF TakeUpdate, LoopInv
<1>3. accepted = {}
  BY <1>1 DEF EntryInv
<1>4. ASSUME NEW i \in 1..Len(updates), updates[i] = updates[n], Reached(i) PROVE FALSE
  <2>1. i = n
    BY <1>1, <1>4 DEF EntryInv
  <2>2. ~(n <= confirmed) /\ ~(n <= loop[p].offset)
    BY <1>2
  <2>3. \A q \in PollLoops : loop[q].live => q = p
    BY DEF LoopInv
  <2> QED BY <1>4, <2>1, <2>2, <2>3 DEF Reached
<1> QED BY <1>3, <1>4 DEF Held

LEMMA OnceTake ==
    ASSUME ChatTypes, LoopInv, EntryInv, OnceInv, NEW p \in PollLoops, TakeUpdate(p)
    PROVE  OnceInv'
<1>1. /\ UNCHANGED <<updates, confirmed, asked, accepted, again>>
      /\ loop'[p].live = loop[p].live /\ loop'[p].offset = loop[p].offset + 1
      /\ \A q \in PollLoops : q # p => loop'[q] = loop[q]
      /\ call[p].pc = "idle" /\ \A k \in Calls : k # p => call'[k] = call[k]
      /\ p \in Calls
  BY TakeIs DEF Calls
<1>2. \A k \in Calls : k # p => (WillAsk(k)' <=> WillAsk(k)) /\ call'[k].ev = call[k].ev
  <2> SUFFICES ASSUME NEW k \in Calls, k # p PROVE WillAsk(k)' <=> WillAsk(k)
    BY <1>1
  <2>1. call[k].pc = "load" => k \in PollLoops
    BY DEF LoopInv, Calls
  <2> QED BY <1>1, <2>1 DEF WillAsk
<1>3. ~WillAsk(p)
  BY <1>1 DEF WillAsk
<1>4. \A e \in ChatEvents : Held(e) => Held(e)'
  <2>1. ASSUME NEW i \in 1..Len(updates), Reached(i) PROVE Reached(i)'
    <3>1. i \in Nat /\ loop[p].offset \in Nat
      BY LoopPart, ConfirmedTypes
    <3>2. i <= loop[p].offset => i <= loop[p].offset + 1
      BY <3>1
    <3> QED BY <1>1, <2>1, <3>2 DEF Reached
  <2> QED BY <1>1, <2>1, HeldKept
<1>5. ASSUME NEW e \in ChatEvents \ again', WillAsk(p)', call'[p].ev = e PROVE OnceOf(e)'
  <2>1. call'[p].pc = "load" /\ call'[p].ev = updates[loop[p].offset + 1] /\ loop[p].live
    BY <1>1, <1>3, <1>5, TakeIs DEF WillAsk
  <2>2. ~Held(e) /\ OnceOf(e)
    BY <1>1, <1>5, <2>1, TakenIsNew, OnceIs
  <2>3. asked[e] \in Nat /\ ~Touched(e)
    BY <2>2 DEF OnceOf, ChatTypes
  <2>4. asked'[e] = 0 /\ \A k \in Calls : ~(WillAsk(k) /\ call[k].ev = e)
    BY <1>1, <2>3 DEF Touched
  <2>5. \A k \in Calls : WillAsk(k)' /\ call'[k].ev = e => k = p
    BY <1>2, <2>4
  <2>6. Held(e)'
    <3>1. PICK n \in 1..Len(updates) : n = loop[p].offset + 1
      BY TakeIs
    <3>2. Reached(n)'
      <4>1. loop'[p].live /\ n <= loop'[p].offset
        BY <1>1, <2>1, <3>1, LoopPart
      <4> QED BY <4>1 DEF Reached
    <3> QED BY <1>1, <1>5, <2>1, <3>1, <3>2 DEF Held
  <2> QED BY <2>4, <2>5, <2>6 DEF OnceOf
<1>6. ASSUME NEW e \in ChatEvents \ again', ~(WillAsk(p)' /\ call'[p].ev = e) PROVE OnceOf(e)'
  <2>1. \A k \in Calls : WillAsk(k)' /\ call'[k].ev = e => WillAsk(k) /\ call[k].ev = e
    BY <1>2, <1>6
  <2> QED BY <1>1, <1>4, <1>6, <2>1, OnceKept, OnceIs
<1> QED BY <1>5, <1>6, OnceIsNext

LEMMA OnceLoad ==
    ASSUME ChatTypes, LoopInv, OnceInv, NEW p \in PollLoops, LoadChannel(p)
    PROVE  OnceInv'
<1>1. p \in Calls
  BY DEF Calls
<1>2. \A k \in Calls : WillAsk(k)' => WillAsk(k) /\ call'[k].ev = call[k].ev
  <2> SUFFICES ASSUME NEW k \in Calls, WillAsk(k)' PROVE WillAsk(k) /\ call'[k].ev = call[k].ev
    OBVIOUS
  <2>1. UNCHANGED loop /\ (k # p => call'[k] = call[k])
    BY LoadIs
  <2>2. CASE k # p
    BY <2>1, <2>2 DEF WillAsk
  <2>3. CASE k = p
    BY <2>1, <2>3, LoadIs, IdleIs DEF WillAsk
  <2> QED BY <2>2, <2>3
<1>3. UNCHANGED <<updates, confirmed, loop, asked, accepted, again>>
  BY LoadIs
<1>4. \A e \in ChatEvents : Held(e) => Held(e)'
  BY <1>3 DEF Held, Reached
<1> QED BY <1>2, <1>3, <1>4, OnceAside

LEMMA OnceAnyCall ==
    ASSUME ChatTypes, LoopInv, OnceInv, NEW k \in Calls, AskAgent(k) \/ PostAnswer(k)
    PROVE  OnceInv'
<1>1. UNCHANGED <<updates, confirmed, loop, accepted, again>>
  BY AskIs, AnswerEnds
<1>2. \A e \in ChatEvents : Held(e) => Held(e)'
  BY <1>1 DEF Held, Reached
<1>3. (\A l \in Calls : l # k => call'[l] = call[l]) /\ ~WillAsk(k)'
  BY AskIs, AnswerEnds, EndedIs DEF WillAsk
<1>4. \A l \in Calls : WillAsk(l)' => l # k /\ WillAsk(l) /\ call'[l].ev = call[l].ev
  BY <1>1, <1>3 DEF WillAsk
<1>5. CASE UNCHANGED asked
  BY <1>1, <1>2, <1>4, <1>5, OnceAside
<1>6. CASE call[k].pc = "ask" /\ AskedNow(k)
  <2>1. call[k].ev \in ChatEvents /\ WillAsk(k) /\ asked \in [ChatEvents -> Nat]
    BY <1>6 DEF ChatTypes, Busy, WillAsk
  <2>2. ASSUME NEW e \in ChatEvents \ again', e # call[k].ev PROVE OnceOf(e)'
    <3>1. asked'[e] = asked[e] /\ OnceOf(e)
      BY <1>1, <1>6, <2>1, <2>2, OnceIs DEF AskedNow
    <3> QED BY <1>2, <1>4, <3>1, OnceKept
  <2>3. ASSUME NEW e \in ChatEvents \ again', e = call[k].ev PROVE OnceOf(e)'
    <3>1. OnceOf(e)
      BY <1>1, <2>3, OnceIs
    <3>2. asked[e] = 0 /\ asked'[e] = asked[e] + 1
      BY <1>6, <2>1, <2>3, <3>1 DEF OnceOf, AskedNow
    <3>3. \A l \in Calls : ~(WillAsk(l)' /\ call'[l].ev = e)
      BY <1>4, <2>1, <2>3, <3>1 DEF OnceOf
    <3>4. Held(e)
      BY <2>1, <2>3, <3>1 DEF OnceOf, Touched
    <3> QED BY <1>2, <3>2, <3>3, <3>4 DEF OnceOf
  <2> QED BY <2>2, <2>3, OnceIsNext
<1> QED BY <1>5, <1>6, AskIs, AnswerEnds

LEMMA OnceWebhook ==
    ASSUME ChatTypes, EntryInv, LoopInv, OnceInv, NEW h \in HookCalls, Webhook(h)
    PROVE  OnceInv'
<1>1. PICK d \in ChatEvents : HookComesTo(h, d)
  BY WebhookIs
<1>2. /\ UNCHANGED <<updates, confirmed, loop, asked>> /\ call[h].pc = "idle" /\ polled = Nil
      /\ accepted \subseteq accepted' /\ again \subseteq again' /\ h \in Calls
  BY <1>1, WebhookIs DEF HookComesTo, Calls
<1>3. \A k \in Calls : k # h => call'[k] = call[k]
  BY <1>1, HookIs
<1>4. \A k \in Calls : k # h => (WillAsk(k)' <=> WillAsk(k)) /\ call'[k].ev = call[k].ev
  BY <1>2, <1>3 DEF WillAsk
<1>5. \A e \in ChatEvents : Held(e) => Held(e)'
  BY <1>2 DEF Held, Reached
<1>6. ASSUME NEW e \in ChatEvents \ again', WillAsk(h)', call'[h].ev = e PROVE OnceOf(e)'
  <2>1. call'[h].pc = "ask" /\ e = d /\ accepted' = accepted \union {d}
    BY <1>1, <1>6, HookIs DEF WillAsk
  <2>2. d \notin accepted
    BY <1>1, <1>6, <2>1 DEF HookComesTo
  <2>3. ~Held(e)
    <3>1. confirmed = 0 /\ \A p \in PollLoops : ~loop[p].live
      BY <1>2 DEF EntryInv, LoopInv
    <3>2. \A i \in 1..Len(updates) : ~(i <= 0)
      BY ConfirmedTypes
    <3> QED BY <2>1, <2>2, <3>1, <3>2 DEF Held, Reached
  <2>4. OnceOf(e)
    BY <1>2, <1>6, OnceIs
  <2>5. asked[e] \in Nat /\ ~Touched(e)
    BY <2>3, <2>4 DEF OnceOf, ChatTypes
  <2>6. asked'[e] = 0 /\ \A k \in Calls : ~(WillAsk(k) /\ call[k].ev = e)
    BY <1>2, <2>5 DEF Touched
  <2>7. \A k \in Calls : WillAsk(k)' /\ call'[k].ev = e => k = h
    BY <1>4, <2>6
  <2>8. Held(e)'
    BY <2>1 DEF Held
  <2> QED BY <2>6, <2>7, <2>8 DEF OnceOf
<1>7. ASSUME NEW e \in ChatEvents \ again', ~(WillAsk(h)' /\ call'[h].ev = e) PROVE OnceOf(e)'
  <2>1. \A k \in Calls : WillAsk(k)' /\ call'[k].ev = e => WillAsk(k) /\ call[k].ev = e
    BY <1>4, <1>7
  <2>2. OnceOf(e)
    BY <1>2, <1>7, OnceIs
  <2> QED BY <1>2, <1>5, <2>1, <2>2, OnceKept
<1> QED BY <1>6, <1>7, OnceIsNext

-----------------------------------------------------------------------------
(***************************************************************************)
(* Answers and budgets.                                                    *)
(***************************************************************************)
NoneLate == \A k \in Calls : ~call[k].late
LiveIsOn == \A p \in PollLoops : loop[p].live /\ settled => row[polled].on
AnsweredOf(e) == posted[e] + Cardinality(Answering(e)) <= asked[e]

LEMMA QuietIs == QuietInv <=> NoneLate /\ LiveIsOn /\ \A e \in ChatEvents : AnsweredOf(e)
  BY DEF QuietInv, NoneLate, LiveIsOn, AnsweredOf

LEMMA QuietIsNext == QuietInv' <=> NoneLate' /\ LiveIsOn' /\ \A e \in ChatEvents : AnsweredOf(e)'
  BY DEF QuietInv, NoneLate, LiveIsOn, AnsweredOf

LEMMA AnsweringIsFinite ==
    ASSUME NEW e
    PROVE  IsFiniteSet(Answering(e)) /\ Cardinality(Answering(e)) \in Nat
<1>1. Answering(e) \subseteq PollLoops \union HookCalls \union ChatSends
  BY DEF Answering, Calls
<1> QED BY <1>1, ChatAssumption, FS_Subset, FS_CardinalityType

LEMMA AnsweringIsFiniteNext ==
    ASSUME NEW e
    PROVE  IsFiniteSet(Answering(e)') /\ Cardinality(Answering(e)') \in Nat
<1>1. Answering(e)' \subseteq PollLoops \union HookCalls \union ChatSends
  BY DEF Answering, Calls
<1> QED BY <1>1, ChatAssumption, FS_Subset, FS_CardinalityType

LEMMA PostingIsFinite ==
    ASSUME NEW c
    PROVE  IsFiniteSet(Posting(c)) /\ Cardinality(Posting(c)) \in Nat
<1>1. Posting(c) \subseteq PollLoops \union HookCalls \union ChatSends
  BY DEF Posting
<1> QED BY <1>1, ChatAssumption, FS_Subset, FS_CardinalityType

LEMMA ChatNumbers ==
    ASSUME ChatTypes
    PROVE  /\ \A e \in ChatEvents : posted[e] \in Nat /\ asked[e] \in Nat
           /\ \A c \in ChatChannels : count[c] \in Nat /\ free[c] \in Nat /\ racers[c] \in Nat
  BY DEF ChatTypes

LEMMA Fewer == \A a, b, c, d \in Nat : a + b <= c /\ d <= b => a + d <= c
  OBVIOUS

\* Nobody new has an answer to post.
LEMMA AnsweredKept ==
    ASSUME ChatTypes, NEW e \in ChatEvents, AnsweredOf(e), UNCHANGED <<posted, asked>>,
           \A k \in Calls : call'[k].pc = "answer" => call'[k] = call[k]
    PROVE  AnsweredOf(e)'
<1>1. Answering(e)' \subseteq Answering(e)
  BY DEF Answering
<1>2. Cardinality(Answering(e)') <= Cardinality(Answering(e))
  BY <1>1, AnsweringIsFinite, FS_Subset
<1>3. posted[e] + Cardinality(Answering(e)') <= asked[e]
  BY <1>2, Fewer, AnsweringIsFinite, AnsweringIsFiniteNext, ChatNumbers DEF AnsweredOf
<1> QED BY <1>3 DEF AnsweredOf

\* A step in which no call begins to answer.
LEMMA QuietKept ==
    ASSUME ChatTypes, QuietInv, UNCHANGED <<posted, asked>>,
           \A k \in Calls : call'[k].pc = "answer" => call'[k] = call[k],
           NoneLate', LiveIsOn'
    PROVE  QuietInv'
  BY QuietIs, QuietIsNext, AnsweredKept

LEMMA QuietAside ==
    ASSUME ChatTypes, QuietInv, UNCHANGED <<posted, asked, call, loop, polled>>,
           (row' = row /\ settled' = settled) \/ settled' = FALSE
    PROVE  QuietInv'
<1>1. NoneLate' /\ LiveIsOn'
  BY QuietIs DEF NoneLate, LiveIsOn
<1> QED BY <1>1, QuietKept

LEMMA QuietReload ==
    ASSUME ChatTypes, LoopInv, QuietInv, ReloadChannels \/ PausePoller
    PROVE  QuietInv'
<1>1. UNCHANGED <<posted, asked, call, row, polled>>
  BY DEF ReloadChannels, PausePoller, PollRest
<1>2. NoneLate'
  BY <1>1, QuietIs DEF NoneLate
<1>3. LiveIsOn'
  BY <1>1, ReloadIs DEF LiveIsOn, Started, Stopped, AllStopped, OneStarted, AllSkipped
<1> QED BY <1>1, <1>2, <1>3, QuietKept

LEMMA QuietRestart ==
    ASSUME ChatTypes, QuietInv, ServerRestarts
    PROVE  QuietInv'
<1>1. UNCHANGED <<posted, asked>>
  BY DEF ServerRestarts
<1>2. \A k \in Calls : call'[k] = CallIdle \/ call'[k] = Ended(k)
  BY DEF ServerRestarts
<1>3. NoneLate' /\ \A k \in Calls : call'[k].pc # "answer"
  BY <1>2, IdleIs, EndedIs DEF NoneLate
<1>4. LiveIsOn'
  BY DEF ServerRestarts, LiveIsOn, LoopOff
<1> QED BY <1>1, <1>3, <1>4, QuietKept

LEMMA QuietPoll ==
    ASSUME ChatTypes, EntryInv, LoopInv, QuietInv, NEW p \in PollLoops,
           GetUpdates(p) \/ PollEnds(p) \/ TakeUpdate(p)
    PROVE  QuietInv'
<1>1. UNCHANGED <<posted, asked, row, settled, polled>>
  BY DEF GetUpdates, PollEnds, TakeUpdate
<1>2. \A q \in PollLoops : loop'[q].live => loop[q].live
  <2>1. CASE PollEnds(p)
    BY <2>1 DEF PollEnds, LoopOff, ChatTypes
  <2> QED BY <2>1, GetIs, TakeIs
<1>3. LiveIsOn'
  BY <1>1, <1>2, QuietIs DEF LiveIsOn
<1>4. ASSUME NEW k \in Calls
      PROVE  (call'[k].pc = "answer" => call'[k] = call[k]) /\ ~call'[k].late
  <2>1. ~call[k].late
    BY QuietIs DEF NoneLate
  <2>2. CASE UNCHANGED call
    BY <2>1, <2>2
  <2>3. CASE TakeUpdate(p)
    BY <2>1, <2>3, TakeIs
  <2> QED BY <2>2, <2>3 DEF GetUpdates, PollEnds
<1> QED BY <1>1, <1>3, <1>4, QuietKept DEF NoneLate

LEMMA QuietLoad ==
    ASSUME ChatTypes, QuietInv, NEW p \in PollLoops, LoadChannel(p)
    PROVE  QuietInv'
<1>1. UNCHANGED <<posted, asked, row, settled, polled, loop>>
  BY LoadIs
<1>2. LiveIsOn'
  BY <1>1, QuietIs DEF LiveIsOn
<1>3. ASSUME NEW k \in Calls
      PROVE  (call'[k].pc = "answer" => call'[k] = call[k]) /\ ~call'[k].late
  <2>1. ~call[k].late /\ (loop[p].live /\ settled => row[polled].on)
    BY QuietIs DEF NoneLate, LiveIsOn
  <2>2. CASE k # p
    BY <2>1, <2>2, LoadIs
  <2>3. CASE k = p
    BY <2>1, <2>3, LoadIs, IdleIs
  <2> QED BY <2>2, <2>3
<1> QED BY <1>1, <1>2, <1>3, QuietKept DEF NoneLate

LEMMA QuietWebhook ==
    ASSUME ChatTypes, QuietInv, NEW h \in HookCalls, Webhook(h)
    PROVE  QuietInv'
<1>1. PICK e \in ChatEvents : HookComesTo(h, e)
  BY WebhookIs
<1>2. UNCHANGED <<posted, asked, row, settled, polled, loop>>
  BY WebhookIs
<1>3. LiveIsOn'
  BY <1>2, QuietIs DEF LiveIsOn
<1>4. ASSUME NEW k \in Calls
      PROVE  (call'[k].pc = "answer" => call'[k] = call[k]) /\ ~call'[k].late
  BY <1>1, HookIs, QuietIs DEF NoneLate
<1> QED BY <1>2, <1>3, <1>4, QuietKept DEF NoneLate

LEMMA OneMore == \A a, b, c \in Nat : a + b <= c => a + (b + 1) <= c + 1 /\ a + b <= c + 1
  OBVIOUS

LEMMA QuietAsk ==
    ASSUME ChatTypes, QuietInv, NEW k \in Calls, AskAgent(k)
    PROVE  QuietInv'
<1>1. /\ UNCHANGED <<posted, row, settled, polled, loop>> /\ call[k].pc = "ask"
      /\ \A l \in Calls : l # k => call'[l] = call[l]
      /\ call[k].ev \in ChatEvents
  BY AskIs DEF ChatTypes, Busy
<1>2. LiveIsOn'
  BY <1>1, QuietIs DEF LiveIsOn
<1>3. NoneLate'
  BY AskIs, EndedIs, QuietIs DEF NoneLate
<1>4. CASE UNCHANGED asked /\ call'[k] = Ended(k)
  <2>1. \A l \in Calls : call'[l].pc = "answer" => call'[l] = call[l]
    BY <1>1, <1>4, EndedIs
  <2> QED BY <1>1, <1>2, <1>3, <1>4, <2>1, QuietKept
<1>5. CASE AskedNow(k) /\ (call'[k] = Ended(k) \/ (call'[k].pc = "answer" /\ call'[k].ev = call[k].ev))
  <2>1. ASSUME NEW e \in ChatEvents, e # call[k].ev PROVE AnsweredOf(e)'
    <3>1. asked'[e] = asked[e]
      BY <1>5, <2>1 DEF AskedNow, ChatTypes
    <3>2. Answering(e)' = Answering(e)
      BY <1>1, <1>5, <2>1, EndedIs DEF Answering
    <3> QED BY <1>1, <3>1, <3>2, QuietIs DEF AnsweredOf
  <2>2. ASSUME NEW e \in ChatEvents, e = call[k].ev PROVE AnsweredOf(e)'
    <3>1. asked'[e] = asked[e] + 1
      BY <1>5, <2>2 DEF AskedNow, ChatTypes
    <3>2. k \notin Answering(e)
      BY <1>1 DEF Answering
    <3>3. CASE call'[k] = Ended(k)
      <4>1. Answering(e)' = Answering(e)
        BY <1>1, <3>2, <3>3, EndedIs DEF Answering
      <4>2. posted[e] + Cardinality(Answering(e)) <= asked[e] + 1
        BY QuietIs, OneMore, AnsweringIsFinite, ChatNumbers DEF AnsweredOf
      <4> QED BY <1>1, <3>1, <4>1, <4>2 DEF AnsweredOf
    <3>4. CASE call'[k].pc = "answer" /\ call'[k].ev = call[k].ev
      <4>1. Answering(e)' = Answering(e) \union {k}
        BY <1>1, <2>2, <3>2, <3>4 DEF Answering
      <4>2. Cardinality(Answering(e)') = Cardinality(Answering(e)) + 1
        BY <3>2, <4>1, AnsweringIsFinite, FS_AddElement
      <4>3. posted[e] + (Cardinality(Answering(e)) + 1) <= asked[e] + 1
        BY QuietIs, OneMore, AnsweringIsFinite, ChatNumbers DEF AnsweredOf
      <4> QED BY <1>1, <3>1, <4>2, <4>3 DEF AnsweredOf
    <3> QED BY <1>5, <3>3, <3>4
  <2> QED BY <1>2, <1>3, <2>1, <2>2, QuietIsNext
<1> QED BY <1>4, <1>5, AskIs

LEMMA OneMoves == \A a, b, c \in Nat : a + b <= c => (a + 1) + (b - 1) <= c /\ a + (b - 1) <= c
  OBVIOUS

LEMMA QuietAnswer ==
    ASSUME ChatTypes, QuietInv, NEW k \in Calls, PostAnswer(k)
    PROVE  QuietInv'
<1>1. /\ UNCHANGED <<asked, row, settled, polled, loop>> /\ call[k].pc = "answer" /\ call'[k] = Ended(k)
      /\ \A l \in Calls : l # k => call'[l] = call[l]
      /\ call[k].ev \in ChatEvents
  BY AnswerEnds DEF ChatTypes, Busy
<1>2. LiveIsOn'
  BY <1>1, QuietIs DEF LiveIsOn
<1>3. NoneLate'
  BY <1>1, EndedIs, QuietIs DEF NoneLate
<1>4. posted' = posted \/ posted' = [posted EXCEPT ![call[k].ev] = @ + 1]
  BY AnswerIs
<1>5. ASSUME NEW e \in ChatEvents, e # call[k].ev PROVE AnsweredOf(e)'
  <2>1. posted'[e] = posted[e]
    BY <1>4, <1>5 DEF ChatTypes
  <2>2. Answering(e)' = Answering(e)
    BY <1>1, <1>5, EndedIs DEF Answering
  <2> QED BY <1>1, <2>1, <2>2, QuietIs DEF AnsweredOf
<1>6. ASSUME NEW e \in ChatEvents, e = call[k].ev PROVE AnsweredOf(e)'
  <2>1. posted'[e] = posted[e] \/ posted'[e] = posted[e] + 1
    BY <1>4, <1>6 DEF ChatTypes
  <2>2. k \in Answering(e) /\ Answering(e)' = Answering(e) \ {k}
    BY <1>1, <1>6, EndedIs DEF Answering
  <2>3. Cardinality(Answering(e)') = Cardinality(Answering(e)) - 1
    BY <2>2, AnsweringIsFinite, FS_RemoveElement
  <2>4. /\ (posted[e] + 1) + (Cardinality(Answering(e)) - 1) <= asked[e]
        /\ posted[e] + (Cardinality(Answering(e)) - 1) <= asked[e]
    BY QuietIs, OneMoves, AnsweringIsFinite, ChatNumbers DEF AnsweredOf
  <2> QED BY <1>1, <2>1, <2>3, <2>4 DEF AnsweredOf
<1> QED BY <1>2, <1>3, <1>5, <1>6, QuietIsNext
-----------------------------------------------------------------------------
InBudget(c) == count[c] + Cardinality(Posting(c)) <= ChannelBudget + free[c] + racers[c]

LEMMA BudgetIs == BudgetInv <=> \A c \in ChatChannels : InBudget(c)
  BY DEF BudgetInv, InBudget

LEMMA BudgetIsNext == BudgetInv' <=> \A c \in ChatChannels : InBudget(c)'
  BY DEF BudgetInv, InBudget

LEMMA BudgetAside ==
    ASSUME BudgetInv, UNCHANGED <<count, free, racers, post>>
    PROVE  BudgetInv'
  BY DEF BudgetInv, Posting

LEMMA CountsWithFree ==
    \A a, b, d, f, r \in Nat : a + b <= d + f + r => (a + 1) + b <= d + (f + 1) + r
  OBVIOUS

LEMMA BudgetAnswer ==
    ASSUME ChatTypes, BudgetInv, NEW k \in Calls, PostAnswer(k)
    PROVE  BudgetInv'
<1> SUFFICES ASSUME NEW c \in ChatChannels PROVE InBudget(c)'
  BY BudgetIsNext
<1>1. /\ racers' = racers /\ Posting(c)' = Posting(c) /\ ChannelBudget \in Nat
      /\ call[k].ch \in ChatChannels
  <2>1. racers' = racers /\ post' = post /\ call[k].pc = "answer"
    BY AnswerEnds
  <2>2. call[k].ch \in ChatChannels
    BY <2>1 DEF ChatTypes
  <2> QED BY <2>1, <2>2, ChatAssumption DEF Posting
<1>2. \/ count'[c] = count[c] /\ free'[c] = free[c]
      \/ count'[c] = count[c] + 1 /\ free'[c] = free[c] + 1
  <2>1. CASE count' = count /\ free' = free
    BY <2>1
  <2>2. CASE /\ count' = [count EXCEPT ![call[k].ch] = @ + 1]
             /\ free' = [free EXCEPT ![call[k].ch] = @ + 1]
    BY <1>1, <2>2 DEF ChatTypes
  <2> QED BY <2>1, <2>2, AnswerIs
<1>3. InBudget(c)
  BY BudgetIs
<1>4. (count[c] + 1) + Cardinality(Posting(c)) <= ChannelBudget + (free[c] + 1) + racers[c]
  BY <1>1, <1>3, CountsWithFree, PostingIsFinite, ChatNumbers DEF InBudget
<1> QED BY <1>1, <1>2, <1>3, <1>4 DEF InBudget

LEMMA BudgetRestart ==
    ASSUME ChatTypes, BudgetInv, ServerRestarts
    PROVE  BudgetInv'
<1> SUFFICES ASSUME NEW c \in ChatChannels PROVE InBudget(c)'
  BY BudgetIsNext
<1>1. UNCHANGED <<count, free, racers>>
  BY DEF ServerRestarts
<1>2. Posting(c)' = {}
  <2>1. ASSUME NEW s \in ChatSends PROVE post'[s].pc # "post"
    <3>1. post'[s] = IF post[s].pc = "post" THEN [post[s] EXCEPT !.pc = "error"] ELSE post[s]
      BY DEF ServerRestarts
    <3>2. post[s] \in PostRec
      BY DEF ChatTypes, PostRec
    <3> QED BY ONLY <3>1, <3>2 DEF PostRec
  <2> QED BY <2>1 DEF Posting
<1>3. Cardinality(Posting(c)') = 0 /\ 0 <= Cardinality(Posting(c)) /\ Cardinality(Posting(c)) \in Nat
  BY <1>2, FS_EmptySet, PostingIsFinite
<1>4. ChannelBudget \in Nat /\ count[c] \in Nat /\ free[c] \in Nat /\ racers[c] \in Nat
  BY ChatAssumption, ChatNumbers
<1>5. count[c] + Cardinality(Posting(c)) <= ChannelBudget + free[c] + racers[c]
  BY BudgetIs DEF InBudget
<1>6. count[c] + 0 <= ChannelBudget + free[c] + racers[c]
  BY <1>3, <1>4, <1>5, Fewer
<1> QED BY <1>1, <1>3, <1>6 DEF InBudget

\* A send that is admitted is one more post on its way.
LEMMA PostingOneMore ==
    ASSUME ChatTypes, NEW s \in ChatSends, NEW c \in ChatChannels, post[s].pc = "idle",
           post' = [post EXCEPT ![s] = [pc |-> "post", ch |-> c]], NEW d \in ChatChannels
    PROVE  /\ d # c => Posting(d)' = Posting(d)
           /\ d = c => Cardinality(Posting(d)') = Cardinality(Posting(d)) + 1
           /\ d = c /\ Posting(d) = {} => Cardinality(Posting(d)') = 1
<1>1. post'[s] = [pc |-> "post", ch |-> c] /\ \A t \in ChatSends : t # s => post'[t] = post[t]
  BY DEF ChatTypes
<1>2. d # c => Posting(d)' = Posting(d)
  BY <1>1 DEF Posting
<1>3. ASSUME d = c PROVE Posting(d)' = Posting(d) \union {s} /\ s \notin Posting(d)
  BY <1>1, <1>3 DEF Posting
<1>4. ASSUME d = c PROVE Cardinality(Posting(d)') = Cardinality(Posting(d)) + 1
  BY <1>3, <1>4, PostingIsFinite, FS_AddElement
<1>5. Posting(d) = {} => Cardinality(Posting(d)) = 0
  BY FS_EmptySet
<1> QED BY <1>2, <1>4, <1>5

LEMMA Admits ==
    /\ \A a, b, d, f, r \in Nat : a + b <= d + f + r => a + (b + 1) <= d + f + (r + 1)
    /\ \A a, b, d, f, r \in Nat : a + b <= d + f + r => a + (b + 1) <= d + (f + 1) + r
    /\ \A a, d, f, r \in Nat : a < d => a + 1 <= d + f + r
    /\ \A a, b, d, f, r \in Nat : a + b <= d + f + r => a + (b - 1) <= d + f + r
    /\ \A a, b, d, f, r \in Nat : a + b <= d + f + r => (a + 1) + (b - 1) <= d + f + r
  OBVIOUS

LEMMA BudgetTest ==
    ASSUME ChatTypes, BudgetInv, NEW s \in ChatSends, NEW c \in ChatChannels, TestAdmits(s, c)
    PROVE  BudgetInv'
<1> SUFFICES ASSUME NEW d \in ChatChannels PROVE InBudget(d)'
  BY BudgetIsNext
<1>1. UNCHANGED <<count, racers>> /\ free' = [free EXCEPT ![c] = @ + 1]
      /\ free'[d] = IF d = c THEN free[d] + 1 ELSE free[d]
  BY DEF TestAdmits, ChatTypes
<1>2. InBudget(d) /\ ChannelBudget \in Nat
  BY BudgetIs, ChatAssumption
<1>3. /\ d # c => Posting(d)' = Posting(d)
      /\ d = c => Cardinality(Posting(d)') = Cardinality(Posting(d)) + 1
  BY PostingOneMore DEF TestAdmits
<1>4. count[d] + (Cardinality(Posting(d)) + 1) <= ChannelBudget + (free[d] + 1) + racers[d]
  BY <1>2, Admits, PostingIsFinite, ChatNumbers DEF InBudget
<1> QED BY <1>1, <1>2, <1>3, <1>4 DEF InBudget

LEMMA BudgetSend ==
    ASSUME ChatTypes, BudgetInv, NEW s \in ChatSends, NEW c \in ChatChannels, SendAdmits(s, c)
    PROVE  BudgetInv'
<1> SUFFICES ASSUME NEW d \in ChatChannels PROVE InBudget(d)'
  BY BudgetIsNext
<1>1. UNCHANGED <<count, free>> /\ post[s].pc = "idle"
  BY DEF SendAdmits
<1>2. InBudget(d) /\ ChannelBudget \in Nat
  BY BudgetIs, ChatAssumption
<1>3. CASE /\ post' = [post EXCEPT ![s] = [pc |-> "post", ch |-> c]]
           /\ racers' = [racers EXCEPT ![c] = @ + 1]
  <2>1. racers'[d] = IF d = c THEN racers[d] + 1 ELSE racers[d]
    BY <1>3 DEF ChatTypes
  <2>2. /\ d # c => Posting(d)' = Posting(d)
        /\ d = c => Cardinality(Posting(d)') = Cardinality(Posting(d)) + 1
    BY <1>1, <1>3, PostingOneMore
  <2>3. count[d] + (Cardinality(Posting(d)) + 1) <= ChannelBudget + free[d] + (racers[d] + 1)
    BY <1>2, Admits, PostingIsFinite, ChatNumbers DEF InBudget
  <2> QED BY <1>1, <1>2, <2>1, <2>2, <2>3 DEF InBudget
<1>4. CASE /\ post' = [post EXCEPT ![s] = [pc |-> "post", ch |-> c]]
           /\ racers' = racers /\ WithinBudget(c) /\ Posting(c) = {}
  <2>1. /\ d # c => Posting(d)' = Posting(d)
        /\ d = c => Cardinality(Posting(d)') = 1
    BY <1>1, <1>4, PostingOneMore
  <2>2. count[c] + 1 <= ChannelBudget + free[c] + racers[c]
    BY <1>2, <1>4, Admits, ChatNumbers DEF WithinBudget
  <2> QED BY <1>1, <1>2, <1>4, <2>1, <2>2 DEF InBudget
<1>5. CASE post' = [post EXCEPT ![s].pc = "refused"] /\ racers' = racers
  <2>1. post[s] \in PostRec /\ post'[s] = [post[s] EXCEPT !.pc = "refused"]
        /\ \A t \in ChatSends : t # s => post'[t] = post[t]
    BY <1>5 DEF ChatTypes, PostRec
  <2>2. post'[s].pc = "refused"
    BY ONLY <2>1 DEF PostRec
  <2>3. Posting(d)' = Posting(d)
    BY <1>1, <2>1, <2>2 DEF Posting
  <2> QED BY <1>1, <1>2, <1>5, <2>3 DEF InBudget
<1>6. PICK failed \in BOOLEAN :
          IF failed \/ WithinBudget(c)
                THEN /\ post' = [post EXCEPT ![s] = [pc |-> "post", ch |-> c]]
                     /\ racers' = IF failed \/ Posting(c) # {} THEN [racers EXCEPT ![c] = @ + 1] ELSE racers
                ELSE /\ post' = [post EXCEPT ![s].pc = "refused"] /\ UNCHANGED racers
  BY DEF SendAdmits
<1> QED BY <1>3, <1>4, <1>5, <1>6

LEMMA BudgetOutbound ==
    ASSUME ChatTypes, BudgetInv, NEW s \in ChatSends, SendOutbound(s)
    PROVE  BudgetInv'
<1> SUFFICES ASSUME NEW d \in ChatChannels PROVE InBudget(d)'
  BY BudgetIsNext
<1>1. UNCHANGED <<free, racers>> /\ post[s].pc = "post" /\ post[s].ch \in ChatChannels
      /\ post[s] \in PostRec
  BY DEF SendOutbound, ChatTypes, PostRec
<1>2. InBudget(d) /\ ChannelBudget \in Nat
  BY BudgetIs, ChatAssumption
<1>3. PICK q \in {"sent", "error"} : post' = [post EXCEPT ![s] = [post[s] EXCEPT !.pc = q]]
  BY DEF SendOutbound
<1>4. post'[s] = [post[s] EXCEPT !.pc = q] /\ \A t \in ChatSends : t # s => post'[t] = post[t]
  BY <1>3 DEF ChatTypes
<1>5. post'[s].pc # "post"
  BY ONLY <1>1, <1>4, q \in {"sent", "error"} DEF PostRec
<1>6. count' = count \/ count' = [count EXCEPT ![post[s].ch] = @ + 1]
  BY DEF SendOutbound
<1>7. CASE d # post[s].ch
  <2>1. Posting(d)' = Posting(d)
    BY <1>4, <1>5, <1>7 DEF Posting
  <2>2. count'[d] = count[d]
    BY <1>6, <1>7 DEF ChatTypes
  <2> QED BY <1>1, <1>2, <2>1, <2>2 DEF InBudget
<1>8. CASE d = post[s].ch
  <2>1. s \in Posting(d) /\ Posting(d)' = Posting(d) \ {s}
    BY <1>1, <1>4, <1>5, <1>8 DEF Posting
  <2>2. Cardinality(Posting(d)') = Cardinality(Posting(d)) - 1
    BY <2>1, PostingIsFinite, FS_RemoveElement
  <2>3. count'[d] = count[d] \/ count'[d] = count[d] + 1
    BY <1>6, <1>8 DEF ChatTypes
  <2>4. /\ count[d] + (Cardinality(Posting(d)) - 1) <= ChannelBudget + free[d] + racers[d]
        /\ (count[d] + 1) + (Cardinality(Posting(d)) - 1) <= ChannelBudget + free[d] + racers[d]
    BY <1>2, Admits, PostingIsFinite, ChatNumbers DEF InBudget
  <2> QED BY <1>1, <2>2, <2>3, <2>4 DEF InBudget
<1> QED BY <1>7, <1>8
-----------------------------------------------------------------------------
ChatInv == /\ ChatTypes /\ EntryInv /\ LoopInv /\ TriedInv /\ OnceInv /\ QuietInv /\ BudgetInv
           /\ SplitIsSound

LEMMA ChatStarts == ChatInit => ChatInv
<1> SUFFICES ASSUME ChatInit PROVE ChatInv
  OBVIOUS
<1>1. ChatTypes /\ SplitIsSound
  BY TypesInit, SplitInit
<1>2. /\ updates = <<>> /\ confirmed = 0 /\ accepted = {} /\ tried = {} /\ settled = FALSE
      /\ \A p \in PollLoops : loop[p] = LoopOff
      /\ \A k \in Calls : call[k] = CallIdle
      /\ \A s \in ChatSends : post[s].pc = "idle"
      /\ \A e \in ChatEvents : asked[e] = 0 /\ posted[e] = 0
      /\ \A c \in ChatChannels : count[c] = 0 /\ free[c] = 0 /\ racers[c] = 0
  BY DEF ChatInit, Calls
<1>3. Len(updates) = 0 /\ ~LoopOff.on /\ ~LoopOff.live /\ CallIdle.pc = "idle" /\ ~CallIdle.late
  BY <1>2 DEF LoopOff, CallIdle
<1>4. EntryInv
  BY <1>2, <1>3 DEF EntryInv, Calls
<1>5. LoopInv
  <2>1. ASSUME NEW p \in PollLoops PROVE LoopFits(p)
    <3>1. loop[p] = LoopOff /\ call[p].pc = "idle" /\ LoopOff.offset = 0 /\ LoopOff.batch = <<>>
      BY <1>2, <1>3 DEF Calls, LoopOff
    <3> QED BY <1>3, <3>1 DEF LoopFits, Busy
  <2>2. OneLive /\ NoHookLoads
    BY <1>2, <1>3 DEF OneLive, NoHookLoads, Calls
  <2> QED BY <2>1, <2>2, LoopIs
<1>6. TriedInv
  BY <1>2, <1>3 DEF TriedInv, ConfirmedIsTried, AcceptedIsTried
<1>7. \A k \in Calls : ~WillAsk(k) /\ call[k].pc # "answer"
  BY <1>2, <1>3 DEF WillAsk
<1>8. OnceInv
  BY <1>2, <1>7 DEF OnceInv, Touched
<1>9. QuietInv
  <2>1. \A e \in ChatEvents : Answering(e) = {}
    BY <1>7 DEF Answering
  <2>2. ASSUME NEW e \in ChatEvents PROVE AnsweredOf(e)
    <3>1. Cardinality(Answering(e)) = 0
      BY <2>1, FS_EmptySet
    <3> QED BY <1>2, <3>1 DEF AnsweredOf
  <2> QED BY <1>2, <1>3, <2>2, QuietIs DEF NoneLate, LiveIsOn
<1>10. BudgetInv
  <2>1. \A c \in ChatChannels : Posting(c) = {}
    BY <1>2 DEF Posting
  <2>2. ASSUME NEW c \in ChatChannels PROVE InBudget(c)
    <3>1. Cardinality(Posting(c)) = 0 /\ ChannelBudget \in Nat
      BY <2>1, FS_EmptySet, ChatAssumption
    <3> QED BY <1>2, <3>1 DEF InBudget
  <2> QED BY <2>2, BudgetIs
<1> QED BY <1>1, <1>4, <1>5, <1>6, <1>8, <1>9, <1>10 DEF ChatInv

\* A step that leaves the ways in and the answers alone.
LEMMA ChatAside ==
    ASSUME ChatInv, ChatTypes', UNCHANGED ChatCore, UNCHANGED <<posted, chunks>>,
           (row' = row /\ settled' = settled) \/ settled' = FALSE, BudgetInv'
    PROVE  ChatInv'
<1>1. EntryInv' /\ LoopInv' /\ TriedInv' /\ OnceInv'
  BY CoreKept DEF ChatInv
<1>2. QuietInv'
  BY QuietAside DEF ChatInv, ChatCore
<1>3. SplitIsSound'
  BY DEF ChatInv, SplitIsSound
<1> QED BY <1>1, <1>2, <1>3 DEF ChatInv

LEMMA ChatStep == ChatInv /\ [ChatNext]_chatVars => ChatInv'
<1> SUFFICES ASSUME ChatInv, [ChatNext]_chatVars PROVE ChatInv'
  OBVIOUS
<1> USE DEF ChatInv
<1>1. ChatTypes'
  BY TypesStep
<1>2. ASSUME UNCHANGED chunks PROVE SplitIsSound'
  BY <1>2 DEF SplitIsSound
<1>3. ASSUME NEW e \in ChatEvents, ChatHappens(e) PROVE ChatInv'
  <2>1. UNCHANGED <<chunks, posted, asked, call, loop, polled, row, settled, count, free, racers, post>>
    BY <1>3 DEF ChatHappens, ChatRest
  <2> QED BY <1>1, <1>2, <1>3, <2>1, EntryHappens, LoopHappens, TriedHappens, OnceHappens, QuietAside,
             BudgetAside
<1>4. ASSUME NEW c \in ChatChannels, UpdateChannel(c) \/ DeleteChannel(c) PROVE ChatInv'
  <2>1. settled' = FALSE /\ UNCHANGED <<event, updates, confirmed>> /\ UNCHANGED ChatRest
    BY <1>4 DEF UpdateChannel, DeleteChannel
  <2>2. UNCHANGED ChatCore /\ UNCHANGED <<posted, chunks, count, free, racers, post>>
    BY <2>1 DEF ChatRest, ChatCore
  <2> QED BY <1>1, <2>1, <2>2, ChatAside, BudgetAside
<1>5. CASE ReloadChannels \/ PausePoller
  <2>1. UNCHANGED <<chunks, count, free, racers, post>>
    BY <1>5 DEF ReloadChannels, PausePoller, PollRest
  <2> QED BY <1>1, <1>2, <1>5, <2>1, EntryReload, LoopReload, TriedReload, OnceReload, QuietReload,
             BudgetAside
<1>6. CASE ServerRestarts
  <2>1. UNCHANGED chunks
    BY <1>6 DEF ServerRestarts
  <2> QED BY <1>1, <1>2, <1>6, <2>1, EntryRestart, LoopRestart, TriedRestart, OnceRestart, QuietRestart,
             BudgetRestart
<1>7. ASSUME NEW p \in PollLoops, GetUpdates(p) \/ PollEnds(p) \/ TakeUpdate(p) \/ LoadChannel(p)
      PROVE  ChatInv'
  <2>1. UNCHANGED <<chunks, count, free, racers, post>>
    BY <1>7 DEF GetUpdates, PollEnds, TakeUpdate, LoadChannel
  <2>2. EntryInv' /\ BudgetInv' /\ SplitIsSound'
    BY <1>2, <1>7, <2>1, EntryPoll, BudgetAside
  <2>3. LoopInv'
    BY <1>7, LoopGet, LoopPollEnds, LoopTake, LoopLoad
  <2>4. TriedInv'
    BY <1>7, TriedGet, TriedPollEnds, TriedTake, TriedLoad
  <2>5. OnceInv'
    BY <1>7, OnceGet, OncePollEnds, OnceTake, OnceLoad
  <2>6. QuietInv'
    BY <1>7, QuietPoll, QuietLoad
  <2> QED BY <1>1, <2>2, <2>3, <2>4, <2>5, <2>6
<1>8. ASSUME NEW k \in Calls, AskAgent(k) \/ PostAnswer(k) PROVE ChatInv'
  <2>1. UNCHANGED chunks
    BY <1>8 DEF AskAgent, PostAnswer
  <2>2. EntryInv' /\ LoopInv' /\ TriedInv' /\ OnceInv' /\ SplitIsSound'
    BY <1>2, <1>8, <2>1, EntryCall, LoopAnyCall, TriedAnyCall, OnceAnyCall
  <2>3. QuietInv'
    BY <1>8, QuietAsk, QuietAnswer
  <2>4. BudgetInv'
    <3>1. CASE AskAgent(k)
      <4>1. UNCHANGED <<count, free, racers, post>>
        BY <3>1 DEF AskAgent
      <4> QED BY <4>1, BudgetAside
    <3> QED BY <1>8, <3>1, BudgetAnswer
  <2> QED BY <1>1, <2>2, <2>3, <2>4
<1>9. ASSUME NEW h \in HookCalls, Webhook(h) PROVE ChatInv'
  <2>1. UNCHANGED <<chunks, count, free, racers, post>>
    BY <1>9 DEF Webhook
  <2> QED BY <1>1, <1>2, <1>9, <2>1, EntryWebhook, LoopWebhook, TriedWebhook, OnceWebhook, QuietWebhook,
             BudgetAside
<1>10. ASSUME NEW s \in ChatSends, NEW c \in ChatChannels,
              SendAdmits(s, c) \/ TestAdmits(s, c) \/ BroadcastAdmits(s, c)
       PROVE  ChatInv'
  <2>1. UNCHANGED PostRest
    BY <1>10 DEF SendAdmits, TestAdmits, BroadcastAdmits
  <2>2. UNCHANGED ChatCore /\ UNCHANGED <<posted, chunks, row, settled>>
    BY <2>1 DEF PostRest, ChatCore
  <2>3. BudgetInv'
    BY <1>10, BudgetSend, BudgetTest DEF BroadcastAdmits
  <2> QED BY <1>1, <2>2, <2>3, ChatAside
<1>11. ASSUME NEW s \in ChatSends, SendOutbound(s) PROVE ChatInv'
  <2>1. UNCHANGED PostRest
    BY <1>11 DEF SendOutbound
  <2>2. UNCHANGED ChatCore /\ UNCHANGED <<posted, chunks, row, settled>>
    BY <2>1 DEF PostRest, ChatCore
  <2> QED BY <1>1, <1>11, <2>2, BudgetOutbound, ChatAside
<1>12. ASSUME NEW t \in Texts, SplitText(t) PROVE ChatInv'
  <2>1. UNCHANGED ChatCore /\ UNCHANGED <<posted, row, settled, count, free, racers, post>>
    BY <1>12 DEF SplitText, ChatCore
  <2>2. EntryInv' /\ LoopInv' /\ TriedInv' /\ OnceInv'
    BY <2>1, CoreKept
  <2>3. QuietInv' /\ BudgetInv'
    BY <2>1, QuietAside, BudgetAside DEF ChatCore
  <2>4. SplitIsSound'
    BY <1>12, SplitStep DEF ChatTypes
  <2> QED BY <1>1, <2>2, <2>3, <2>4
<1>13. CASE UNCHANGED chatVars
  <2>1. UNCHANGED ChatCore /\ UNCHANGED <<posted, chunks, row, settled, count, free, racers, post>>
    BY <1>13 DEF chatVars, ChatCore
  <2> QED BY <1>1, <2>1, ChatAside, BudgetAside
<1> HIDE DEF ChatInv
<1> QED
  BY <1>3, <1>4, <1>5, <1>6, <1>7, <1>8, <1>9, <1>10, <1>11, <1>12, <1>13
  DEF ChatNext, PollNext, HookNext, PostNext, SplitNext, Calls

LEMMA ChatIsServed == ChatInv => ChatsAreServed
<1> SUFFICES ASSUME ChatInv PROVE ChatsAreServed
  OBVIOUS
<1> USE DEF ChatInv
<1>1. ChatTypeOK
  BY DEF ChatTypes, ChatTypeOK, CallRec
<1>2. ConfirmedIsTried /\ AcceptedIsTried
  BY DEF TriedInv
<1>3. AskedOnce
  <2> SUFFICES ASSUME NEW e \in ChatEvents, asked[e] > 1, e \notin again PROVE FALSE
    BY DEF AskedOnce
  <2>1. asked[e] <= 1 /\ asked[e] \in Nat
    BY ChatNumbers DEF OnceInv
  <2> QED BY <2>1
<1>4. QuietOnceOff
  <2>1. ASSUME NEW e \in ChatEvents PROVE posted[e] <= asked[e]
    <3>1. posted[e] \in Nat /\ asked[e] \in Nat /\ Cardinality(Answering(e)) \in Nat
          /\ posted[e] + Cardinality(Answering(e)) <= asked[e]
      BY ChatNumbers, AnsweringIsFinite DEF QuietInv
    <3> QED BY ONLY <3>1
  <2> QED BY <2>1 DEF QuietInv, QuietOnceOff
<1>5. BudgetOnlyByRace
  <2> SUFFICES ASSUME NEW c \in ChatChannels PROVE count[c] <= ChannelBudget + free[c] + racers[c]
    BY DEF BudgetOnlyByRace
  <2>1. /\ count[c] \in Nat /\ free[c] \in Nat /\ racers[c] \in Nat /\ ChannelBudget \in Nat
        /\ Cardinality(Posting(c)) \in Nat
        /\ count[c] + Cardinality(Posting(c)) <= ChannelBudget + free[c] + racers[c]
    BY ChatNumbers, PostingIsFinite, ChatAssumption DEF BudgetInv
  <2> QED BY ONLY <2>1
<1> QED BY <1>1, <1>2, <1>3, <1>4, <1>5 DEF ChatsAreServed

\* An update that telegram no longer offers was tried, what a webhook accepted
\* is on its way, an agent is asked twice only about what was offered twice,
\* a row that is off is not read for, only races exceed a budget, and chunks
\* are the text they were cut from: for every text, limit and number of
\* pollers, requests and sends (StartPolling, Webhook, Send, splitMessage).
THEOREM ChatsStayServed == ChatSpec => []ChatsAreServed
<1>1. ChatInit => ChatInv
  BY ChatStarts
<1>2. ChatInv /\ [ChatNext]_chatVars => ChatInv'
  BY ChatStep
<1>3. ChatInv => ChatsAreServed
  BY ChatIsServed
<1> QED BY <1>1, <1>2, <1>3, PTL DEF ChatSpec

-----------------------------------------------------------------------------
(***************************************************************************)
(* A page of the chat history.                                             *)
(***************************************************************************)
FeedMessage == [of : Entries, role : {"user", "agent"}, ts : Nat]
Turned(msgs) ==
    CHOOSE f : f = [i \in 0..Len(msgs) |->
                      IF i = 0 THEN <<>>
                      ELSE SubSeq(msgs, ChunkStart(msgs, i), i) \o f[ChunkStart(msgs, i) - 1]]

\* The chunk that ends with a message begins where the timestamp does.
LEMMA ChunkStartIs ==
    ASSUME NEW msgs, NEW i \in Nat \ {0}
    PROVE  /\ ChunkStart(msgs, i) \in 1..i
           /\ \A k \in ChunkStart(msgs, i)..i : msgs[k].ts = msgs[i].ts
           /\ ChunkStart(msgs, i) > 1 => msgs[ChunkStart(msgs, i) - 1].ts # msgs[i].ts
<1> DEFINE S == {j \in 1..i : \A k \in j..i : msgs[k].ts = msgs[i].ts}
           c == Min(S)
<1>0. ChunkStart(msgs, i) = c
  BY DEF ChunkStart
<1>1. i \in S /\ S \in SUBSET Nat
  <2>1. \A k \in i..i : k = i
    OBVIOUS
  <2> QED BY <2>1
<1>2. c \in S /\ \A m \in S : c <= m
  <2> HIDE DEF S
  <2> QED BY <1>1, MinIs
<1>3. c \in 1..i /\ \A k \in c..i : msgs[k].ts = msgs[i].ts
  BY <1>2
<1>4. ASSUME c > 1, msgs[c - 1].ts = msgs[i].ts PROVE FALSE
  <2> HIDE DEF c
  <2>1. c - 1 \in 1..i /\ ~(c <= c - 1) /\ \A k \in (c - 1)..i : k = c - 1 \/ k \in c..i
    BY <1>3, <1>4
  <2>2. c - 1 \in S
    BY <2>1, <1>3, <1>4
  <2> QED BY <2>1, <2>2, <1>2
<1> QED BY <1>0, <1>3, <1>4

LEMMA TurnedIs ==
    ASSUME NEW M, NEW msgs \in Seq(M)
    PROVE  /\ reverseRowChunks(msgs) = Turned(msgs)[Len(msgs)]
           /\ Turned(msgs)[0] = <<>>
           /\ \A i \in 1..Len(msgs) :
                 Turned(msgs)[i] = SubSeq(msgs, ChunkStart(msgs, i), i)
                                      \o Turned(msgs)[ChunkStart(msgs, i) - 1]
<1>1. reverseRowChunks(msgs) = Turned(msgs)[Len(msgs)]
  BY DEF reverseRowChunks, Turned
<1> DEFINE S == 0..Len(msgs)
           E == {0}
           N == Len(msgs) + 1
           size == [i \in S |-> i]
           rest == [i \in S \ E |-> ChunkStart(msgs, i) - 1]
           stop == [i \in S |-> <<>>]
           first == [i \in S |-> SubSeq(msgs, ChunkStart(msgs, i), i)]
<1>2. Len(msgs) \in Nat
  BY LenProperties
<1>3. \A i \in S \ E : ChunkStart(msgs, i) - 1 \in S /\ ChunkStart(msgs, i) - 1 < i
  <2> SUFFICES ASSUME NEW i \in S \ E
               PROVE  ChunkStart(msgs, i) - 1 \in S /\ ChunkStart(msgs, i) - 1 < i
    OBVIOUS
  <2>1. i \in Nat \ {0} /\ i <= Len(msgs)
    BY <1>2
  <2>2. ChunkStart(msgs, i) \in 1..i
    BY <2>1, ChunkStartIs
  <2> QED BY <1>2, <2>1, <2>2
<1>4. Shrinks(S, E, size, N, rest)
  BY <1>2, <1>3 DEF Shrinks
<1>5. PICK f : Recurs(f, S, E, stop, first, rest)
  <2> HIDE DEF S, E, N, size, rest, stop, first
  <2> QED BY <1>4, RecursionExists
<1>6. f = [i \in 0..Len(msgs) |->
             IF i = 0 THEN <<>>
             ELSE SubSeq(msgs, ChunkStart(msgs, i), i) \o f[ChunkStart(msgs, i) - 1]]
  BY <1>5 DEF Recurs
<1>7. Turned(msgs) = [i \in 0..Len(msgs) |->
             IF i = 0 THEN <<>>
             ELSE SubSeq(msgs, ChunkStart(msgs, i), i) \o Turned(msgs)[ChunkStart(msgs, i) - 1]]
  BY <1>6, Zenon DEF Turned
<1>8. 0 \in 0..Len(msgs) /\ \A i \in 1..Len(msgs) : i \in 0..Len(msgs) /\ i # 0
  BY <1>2
<1> QED BY <1>1, <1>7, <1>8

LEMMA ConcatIs ==
    ASSUME NEW M, NEW s \in Seq(M), NEW t \in Seq(M)
    PROVE  /\ s \o t \in Seq(M) /\ Len(s \o t) = Len(s) + Len(t)
           /\ Len(s) \in Nat /\ Len(t) \in Nat
           /\ \A i \in 1..Len(s) : (s \o t)[i] = s[i]
           /\ \A i \in 1..Len(t) : (s \o t)[Len(s) + i] = t[i]
<1>1. /\ s \o t \in Seq(M) /\ Len(s \o t) = Len(s) + Len(t)
      /\ Len(s) \in Nat /\ Len(t) \in Nat
  BY ConcatProperties, LenProperties
<1>2. \A i \in 1..(Len(s) + Len(t)) : (s \o t)[i] = IF i <= Len(s) THEN s[i] ELSE t[i - Len(s)]
  BY ConcatProperties
<1>3. ASSUME NEW i \in 1..Len(s) PROVE (s \o t)[i] = s[i]
  <2>1. i \in 1..(Len(s) + Len(t)) /\ i <= Len(s)
    BY <1>1
  <2> QED BY <2>1, <1>2
<1>4. ASSUME NEW i \in 1..Len(t) PROVE (s \o t)[Len(s) + i] = t[i]
  <2>1. Len(s) + i \in 1..(Len(s) + Len(t)) /\ ~(Len(s) + i <= Len(s)) /\ (Len(s) + i) - Len(s) = i
    BY <1>1
  <2> QED BY <2>1, <1>2
<1> QED BY <1>1, <1>3, <1>4

\* Two messages for each row, in the order of the rows.
SaidOf(e, role) == [of |-> e, role |-> role, ts |-> entry[e].stamp]
Paired(msgs, rows) ==
    /\ Len(msgs) = 2 * Len(rows)
    /\ \A k \in 1..Len(rows) : msgs[2 * k - 1] = SaidOf(rows[k], "user") /\ msgs[2 * k] = SaidOf(rows[k], "agent")

LEMMA Doubles ==
    \A n, k \in Nat : /\ 2 * k \in Nat /\ 2 * (n + 1) = 2 * n + 2 /\ 2 * (n + 1) - 1 = 2 * n + 1
                      /\ k \in 1..n => 2 * k \in 1..(2 * n) /\ 2 * k - 1 \in 1..(2 * n)
  OBVIOUS

LEMMA PagePairs ==
    ASSUME NEW rows \in Seq(Entries), \A e \in Entries : entry[e].stamp \in Nat
    PROVE  LET msgs == FlattenSeq([i \in 1..Len(rows) |-> activityRowToChatMessages(rows[i])])
           IN  msgs \in Seq(FeedMessage) /\ Paired(msgs, rows)
<1> DEFINE seqs == [i \in 1..Len(rows) |-> activityRowToChatMessages(rows[i])]
           Pairs(n, s) == /\ s \in Seq(FeedMessage) /\ Len(s) = 2 * n
                          /\ \A k \in 1..n : s[2 * k - 1] = SaidOf(rows[k], "user")
                                             /\ s[2 * k] = SaidOf(rows[k], "agent")
           G == {n \in Nat : n + 1 \in 1..Len(rows) => Pairs(n + 1, Flat(seqs)[n + 1])}
<1>1. Len(rows) \in Nat /\ \A i \in 1..Len(rows) : rows[i] \in Entries
  BY LenProperties, ElementOfSeq
<1>2. ASSUME NEW i \in 1..Len(rows)
      PROVE  /\ seqs[i] = <<SaidOf(rows[i], "user"), SaidOf(rows[i], "agent")>>
             /\ SaidOf(rows[i], "user") \in FeedMessage /\ SaidOf(rows[i], "agent") \in FeedMessage
  BY <1>1 DEF activityRowToChatMessages, SaidOf, FeedMessage
<1>3. /\ seqs \in Seq(Seq(FeedMessage)) /\ Len(seqs) = Len(rows)
      /\ \A i \in 1..Len(rows) : /\ seqs[i] \in Seq(FeedMessage) /\ Len(seqs[i]) = 2
                                 /\ seqs[i][1] = SaidOf(rows[i], "user")
                                 /\ seqs[i][2] = SaidOf(rows[i], "agent")
  <2>1. \A i \in 1..Len(rows) : /\ seqs[i] \in Seq(FeedMessage) /\ Len(seqs[i]) = 2
                                /\ seqs[i][1] = SaidOf(rows[i], "user")
                                /\ seqs[i][2] = SaidOf(rows[i], "agent")
    <3> SUFFICES ASSUME NEW i \in 1..Len(rows)
                 PROVE  /\ seqs[i] \in Seq(FeedMessage) /\ Len(seqs[i]) = 2
                        /\ seqs[i][1] = SaidOf(rows[i], "user")
                        /\ seqs[i][2] = SaidOf(rows[i], "agent")
      OBVIOUS
    <3> DEFINE u == SaidOf(rows[i], "user")
               a == SaidOf(rows[i], "agent")
    <3>1. u \in FeedMessage /\ a \in FeedMessage /\ seqs[i] = <<u, a>>
      BY <1>2
    <3> HIDE DEF u, a, seqs
    <3>2. <<u, a>> \in Seq(FeedMessage) /\ Len(<<u, a>>) = 2 /\ <<u, a>>[1] = u /\ <<u, a>>[2] = a
      BY <3>1
    <3> QED BY <3>1, <3>2 DEF u, a
  <2>2. seqs \in Seq(Seq(FeedMessage)) /\ Len(seqs) = Len(rows)
    BY <1>1, <2>1
  <2> QED BY <2>1, <2>2
<1> HIDE DEF seqs
<1>4. \A i \in 1..Len(rows) : Flat(seqs)[i] = IF i = 1 THEN seqs[i] ELSE Flat(seqs)[i - 1] \o seqs[i]
  BY <1>3, FlatIs
<1>5. 0 \in G
  <2> SUFFICES ASSUME 1 \in 1..Len(rows) PROVE Pairs(1, Flat(seqs)[1])
    OBVIOUS
  <2>1. Flat(seqs)[1] = seqs[1] /\ Len(seqs[1]) = 2
    BY <1>3, <1>4
  <2>2. \A k \in 1..1 : k = 1 /\ 2 * k - 1 = 1 /\ 2 * k = 2
    OBVIOUS
  <2> QED BY <2>1, <2>2, <1>3
<1>6. ASSUME NEW n \in G PROVE n + 1 \in G
  <2> SUFFICES ASSUME (n + 1) + 1 \in 1..Len(rows)
               PROVE  Pairs((n + 1) + 1, Flat(seqs)[(n + 1) + 1])
    OBVIOUS
  <2> DEFINE m == n + 1
             s == Flat(seqs)[m]
             t == seqs[m + 1]
             w == s \o t
  <2>1. m \in 1..Len(rows) /\ m \in Nat /\ m + 1 # 1 /\ (m + 1) - 1 = m /\ m + 1 \in 1..Len(rows)
    BY <1>1
  <2>2. Pairs(m, s)
    BY <2>1
  <2>3. Flat(seqs)[m + 1] = w
    BY <2>1, <1>4
  <2>4. /\ t \in Seq(FeedMessage) /\ Len(t) = 2
        /\ t[1] = SaidOf(rows[m + 1], "user") /\ t[2] = SaidOf(rows[m + 1], "agent")
    BY <2>1, <1>3
  <2> HIDE DEF s, t, m
  <2>5. /\ w \in Seq(FeedMessage) /\ Len(w) = Len(s) + Len(t)
        /\ \A i \in 1..Len(s) : w[i] = s[i]
        /\ \A i \in 1..Len(t) : w[Len(s) + i] = t[i]
    <3>1. s \in Seq(FeedMessage)
      BY <2>2
    <3>2. t \in Seq(FeedMessage)
      BY <2>4
    <3> QED BY <3>1, <3>2, ConcatIs
  <2> HIDE DEF w
  <2>6. Len(w) = 2 * (m + 1)
    BY <2>1, <2>2, <2>4, <2>5
  <2>7. w[2 * m + 1] = t[1] /\ w[2 * m + 2] = t[2]
    <3>1. 1 \in 1..Len(t) /\ 2 \in 1..Len(t) /\ Len(s) = 2 * m
      BY <2>2, <2>4
    <3> QED BY <3>1, <2>5
  <2>8. ASSUME NEW k \in 1..(m + 1)
        PROVE  w[2 * k - 1] = SaidOf(rows[k], "user") /\ w[2 * k] = SaidOf(rows[k], "agent")
    <3>1. CASE k = m + 1
      <4>1. 2 * k - 1 = 2 * m + 1 /\ 2 * k = 2 * m + 2
        BY ONLY <3>1, <2>1, Doubles
      <4> QED BY <3>1, <4>1, <2>7, <2>4
    <3>2. CASE k # m + 1
      <4>1. k \in 1..m /\ k \in Nat
        BY <3>2, <2>1
      <4>2. 2 * k \in 1..Len(s) /\ 2 * k - 1 \in 1..Len(s)
        BY <4>1, <2>1, <2>2, Doubles
      <4> QED BY <4>1, <4>2, <2>2, <2>5
    <3> QED BY <3>1, <3>2
  <2> QED BY <2>3, <2>5, <2>6, <2>8 DEF m
<1> HIDE DEF Pairs
<1>7. G = Nat
  <2> HIDE DEF G
  <2>1. G \in SUBSET Nat
    BY DEF G
  <2> QED BY <1>5, <1>6, <2>1, EveryNat
<1>8. Pairs(Len(rows), FlattenSeq(seqs))
  <2>1. CASE Len(rows) = 0
    <3>1. FlattenSeq(seqs) = <<>>
      <4>1. seqs = <<>>
        BY <1>3, <2>1, EmptySeq
      <4> QED BY <4>1, FlattenEmpty
    <3>2. Len(<<>>) = 0 /\ <<>> \in Seq(FeedMessage) /\ 2 * 0 = 0 /\ \A k \in 1..0 : FALSE
      OBVIOUS
    <3> QED BY <2>1, <3>1, <3>2 DEF Pairs
  <2>2. CASE Len(rows) # 0
    <3>1. Len(rows) - 1 \in Nat /\ (Len(rows) - 1) + 1 = Len(rows) /\ Len(rows) \in 1..Len(rows)
      BY <2>2, <1>1
    <3>2. Len(rows) - 1 \in G
      BY <3>1, <1>7
    <3>3. Pairs(Len(rows), Flat(seqs)[Len(rows)])
      BY <3>1, <3>2
    <3> QED BY <3>3, <2>2, <1>3, FlattenIsFlat
  <2> QED BY <2>1, <2>2
<1> QED BY <1>8 DEF Pairs, Paired, seqs
\* What a page turned around keeps: order, answers behind their messages, and
\* no timestamp but those of the first k rows.
InOrder(msgs) ==
    \A i \in 1..(Len(msgs) - 1) :
       /\ msgs[i].ts <= msgs[i + 1].ts
       /\ msgs[i].role = "user" => msgs[i + 1].of = msgs[i].of /\ msgs[i + 1].role = "agent"
TurnedUpTo(k, rows, t) ==
    /\ t \in Seq(FeedMessage) /\ InOrder(t)
    /\ \A i \in 1..Len(t) : \E j \in 1..k : t[i].ts = entry[rows[j]].stamp
    /\ k > 0 => Len(t) > 0

LEMMA Halves ==
    \A n \in Nat \ {0} : \E j \in Nat \ {0} : n = 2 * j \/ n = 2 * j - 1
<1> SUFFICES ASSUME NEW n \in Nat \ {0} PROVE \E j \in Nat \ {0} : n = 2 * j \/ n = 2 * j - 1
  OBVIOUS
<1> DEFINE j == (n + 1) \div 2
<1>1. j \in Nat \ {0} /\ (n = 2 * j \/ n = 2 * j - 1)
  OBVIOUS
<1> QED BY <1>1

\* Newest first: what is further down is not younger.
NewestFirst(rows) == \A i \in 1..(Len(rows) - 1) : entry[rows[i]].stamp >= entry[rows[i + 1]].stamp

LEMMA NewestIs ==
    ASSUME NEW rows \in Seq(Entries), \A e \in Entries : entry[e].stamp \in Nat, NewestFirst(rows)
    PROVE  \A j \in 1..Len(rows) : \A i \in 1..j : entry[rows[i]].stamp >= entry[rows[j]].stamp
<1> DEFINE st(i) == entry[rows[i]].stamp
           G == {j \in Nat : j \in 1..Len(rows) => \A i \in 1..j : st(i) >= st(j)}
<1>1. Len(rows) \in Nat /\ \A i \in 1..Len(rows) : st(i) \in Nat
  BY LenProperties, ElementOfSeq
<1>2. \A i \in 1..(Len(rows) - 1) : st(i) >= st(i + 1)
  BY DEF NewestFirst
<1> HIDE DEF st
<1>3. 0 \in G
  BY <1>1
<1>4. ASSUME NEW j \in G PROVE j + 1 \in G
  <2> SUFFICES ASSUME j + 1 \in 1..Len(rows), NEW i \in 1..(j + 1) PROVE st(i) >= st(j + 1)
    OBVIOUS
  <2>0. j \in Nat
    OBVIOUS
  <2>1. CASE i = j + 1
    <3>1. st(i) \in Nat
      BY <2>1, <1>1
    <3> QED BY <2>1, <3>1
  <2>2. CASE i # j + 1
    <3>1. i \in 1..j /\ j \in 1..Len(rows) /\ j \in 1..(Len(rows) - 1) /\ i \in 1..Len(rows)
      BY <2>0, <2>2, <1>1
    <3>2. st(i) >= st(j) /\ st(j) >= st(j + 1)
      BY <3>1, <1>2
    <3>3. st(i) \in Nat /\ st(j) \in Nat /\ st(j + 1) \in Nat
      BY <3>1, <1>1
    <3> QED BY <3>2, <3>3
  <2> QED BY <2>1, <2>2
<1>5. G = Nat
  <2>1. G \in SUBSET Nat
    OBVIOUS
  <2> HIDE DEF G
  <2> QED BY <1>3, <1>4, <2>1, EveryNat
<1> QED BY <1>5, <1>1 DEF st

\* A chunk that ends with the answer of a row begins with the message of one.
LEMMA ChunkOfRows ==
    ASSUME NEW rows \in Seq(Entries), NEW msgs, Paired(msgs, rows), NEW k \in 1..Len(rows)
    PROVE  \E j \in 1..k : ChunkStart(msgs, 2 * k) = 2 * j - 1
<1>1. Len(rows) \in Nat /\ k \in Nat \ {0} /\ 2 * k \in Nat \ {0}
  BY LenProperties
<1>2. PICK c \in 1..(2 * k) : c = ChunkStart(msgs, 2 * k)
  BY <1>1, ChunkStartIs
<1>a. c \in Nat \ {0}
  BY <1>1, <1>2
<1>3. PICK j \in Nat \ {0} : c = 2 * j \/ c = 2 * j - 1
  BY ONLY <1>a, Halves
<1>4. j \in 1..k
  BY <1>1, <1>2, <1>3
<1>5. ASSUME c = 2 * j PROVE FALSE
  <2>1. j \in 1..Len(rows) /\ c > 1 /\ c - 1 = 2 * j - 1 /\ c \in c..(2 * k)
    BY <1>1, <1>2, <1>3, <1>4, <1>5
  <2>2. msgs[2 * j - 1].ts = msgs[2 * j].ts
    <3>1. msgs[2 * j - 1] = SaidOf(rows[j], "user") /\ msgs[2 * j] = SaidOf(rows[j], "agent")
      BY <2>1 DEF Paired
    <3>2. SaidOf(rows[j], "user").ts = SaidOf(rows[j], "agent").ts
      BY DEF SaidOf
    <3> QED BY <3>1, <3>2
  <2>3. msgs[c].ts = msgs[2 * k].ts /\ msgs[c - 1].ts # msgs[2 * k].ts
    BY <2>1, <1>1, <1>2, ChunkStartIs
  <2> QED BY <2>1, <2>2, <2>3, <1>5
<1> QED BY <1>2, <1>3, <1>4, <1>5

LEMMA PastIs == \A a, b \in Nat : a > b => \E c \in Nat : c = a - b
  OBVIOUS

LEMMA InOrderConcat ==
    ASSUME NEW s \in Seq(FeedMessage), NEW t \in Seq(FeedMessage), InOrder(s), InOrder(t), Len(s) > 0,
           s[Len(s)].role # "user", \A i \in 1..Len(t) : s[Len(s)].ts <= t[i].ts
    PROVE  InOrder(s \o t)
<1> DEFINE w == s \o t
<1>1. /\ Len(w) = Len(s) + Len(t) /\ Len(s) \in Nat /\ Len(t) \in Nat
      /\ \A i \in 1..Len(s) : w[i] = s[i]
      /\ \A i \in 1..Len(t) : w[Len(s) + i] = t[i]
  BY ConcatIs
<1> HIDE DEF w
<1> DEFINE Fine(a, b) == /\ a.ts <= b.ts
                         /\ a.role = "user" => b.of = a.of /\ b.role = "agent"
<1>2. /\ \A i \in 1..(Len(s) - 1) : Fine(s[i], s[i + 1])
      /\ \A i \in 1..(Len(t) - 1) : Fine(t[i], t[i + 1])
  BY DEF InOrder
<1>3. \A i \in 1..Len(t) : Fine(s[Len(s)], t[i])
  OBVIOUS
<1> HIDE DEF Fine
<1>4. ASSUME NEW i \in 1..(Len(w) - 1) PROVE Fine(w[i], w[i + 1])
  <2>1. CASE i < Len(s)
    <3>1. i \in 1..Len(s) /\ i + 1 \in 1..Len(s) /\ i \in 1..(Len(s) - 1)
      BY <2>1, <1>1
    <3> QED BY <3>1, <1>1, <1>2
  <2>2. CASE i = Len(s)
    <3>1. i \in 1..Len(s) /\ 1 \in 1..Len(t)
      BY <2>2, <1>1
    <3>2. w[Len(s) + 1] = t[1] /\ w[i] = s[Len(s)]
      BY <3>1, <2>2, <1>1
    <3> QED BY <3>1, <3>2, <2>2, <1>3
  <2>3. CASE i > Len(s)
    <3>0. i \in Nat
      BY <1>1
    <3>1. PICK j \in Nat : j = i - Len(s)
      BY ONLY <3>0, <2>3, <1>1, PastIs
    <3>2. /\ j \in 1..Len(t) /\ j + 1 \in 1..Len(t) /\ j \in 1..(Len(t) - 1)
          /\ Len(s) + j = i /\ Len(s) + (j + 1) = i + 1
      BY <3>1, <2>3, <1>1
    <3>3. w[i] = t[j] /\ w[i + 1] = t[j + 1]
      BY <3>2, <1>1
    <3> QED BY <3>2, <3>3, <1>2
  <2> QED BY <2>1, <2>2, <2>3, <1>1
<1>5. \A i \in 1..(Len(w) - 1) : Fine(w[i], w[i + 1])
  BY <1>4
<1> QED BY <1>5 DEF InOrder, Fine, w

\* In the messages of some rows each one of a human is followed by the answer.
LEMMA NextIsAnswer ==
    ASSUME NEW rows \in Seq(Entries), NEW msgs, Paired(msgs, rows), NEW x \in 1..(2 * Len(rows) - 1),
           msgs[x].role = "user"
    PROVE  msgs[x + 1].of = msgs[x].of /\ msgs[x + 1].role = "agent"
<1>1. Len(rows) \in Nat /\ x \in Nat \ {0}
  BY LenProperties
<1>2. PICK q \in Nat \ {0} : x = 2 * q \/ x = 2 * q - 1
  BY <1>1, Halves
<1>3. q \in 1..Len(rows)
  BY <1>1, <1>2
<1>4. msgs[2 * q - 1] = SaidOf(rows[q], "user") /\ msgs[2 * q] = SaidOf(rows[q], "agent")
  BY <1>3 DEF Paired
<1>5. x # 2 * q
  BY <1>4 DEF SaidOf
<1>6. x = 2 * q - 1 /\ x + 1 = 2 * q
  BY <1>1, <1>2, <1>5
<1> QED BY <1>4, <1>6 DEF SaidOf

\* One chunk: messages of one timestamp that end with an answer.
LEMMA ChunkIs ==
    ASSUME NEW rows \in Seq(Entries), NEW msgs \in Seq(FeedMessage), Paired(msgs, rows),
           NEW k \in 1..Len(rows), NEW j \in 1..k, ChunkStart(msgs, 2 * k) = 2 * j - 1
    PROVE  LET s == SubSeq(msgs, 2 * j - 1, 2 * k)
           IN  /\ s \in Seq(FeedMessage) /\ Len(s) > 0 /\ InOrder(s) /\ s[Len(s)].role = "agent"
               /\ \A i \in 1..Len(s) : s[i].ts = entry[rows[k]].stamp
<1> DEFINE s == SubSeq(msgs, 2 * j - 1, 2 * k)
<1>1. /\ Len(rows) \in Nat /\ k \in Nat \ {0} /\ j \in Nat \ {0} /\ j <= k /\ k <= Len(rows)
      /\ Len(msgs) = 2 * Len(rows)
  BY LenProperties DEF Paired
<1>2. PICK a \in Nat, b \in Nat : /\ a = 2 * j - 1 /\ b = 2 * k /\ 1 <= a /\ a <= b
                                  /\ b <= 2 * Len(rows) /\ b \in Nat \ {0}
  BY <1>1
<1>3. ChunkStart(msgs, b) = a
  BY <1>2
<1>4. \A i \in a..b : msgs[i].ts = msgs[b].ts
  BY <1>2, <1>3, ChunkStartIs
<1>5. msgs[b] = SaidOf(rows[k], "agent")
  BY <1>2 DEF Paired
<1>6. msgs[b].role = "agent" /\ msgs[b].ts = entry[rows[k]].stamp
  BY <1>5 DEF SaidOf
<1>7. s = SubSeq(msgs, a, b)
  BY <1>2
<1> HIDE DEF s
<1>8. /\ s \in Seq(FeedMessage) /\ Len(s) = (b - a) + 1
      /\ \A i \in 1..((b - a) + 1) : s[i] = msgs[(a + i) - 1]
  <2>1. \A i \in a..b : msgs[i] \in FeedMessage
    <3>1. \A i \in a..b : i \in 1..Len(msgs)
      BY <1>1, <1>2
    <3> QED BY <3>1, ElementOfSeq
  <2> QED BY <2>1, <1>2, <1>7
<1>9. ASSUME NEW i \in 1..Len(s)
      PROVE  (a + i) - 1 \in a..b /\ s[i] = msgs[(a + i) - 1] /\ s[i].ts = msgs[b].ts
  <2>1. (a + i) - 1 \in a..b
    BY <1>2, <1>8
  <2> QED BY <2>1, <1>4, <1>8
<1>10. s[Len(s)] = msgs[b] /\ Len(s) > 0
  <2>1. Len(s) \in 1..Len(s) /\ (a + Len(s)) - 1 = b /\ Len(s) > 0
    BY <1>2, <1>8
  <2> QED BY <2>1, <1>9
<1>11. InOrder(s)
  <2> SUFFICES ASSUME NEW i \in 1..(Len(s) - 1)
               PROVE  /\ s[i].ts <= s[i + 1].ts
                      /\ s[i].role = "user" => s[i + 1].of = s[i].of /\ s[i + 1].role = "agent"
    BY DEF InOrder
  <2>0. Len(s) \in Nat
    BY <1>8, LenProperties
  <2>1. i \in 1..Len(s) /\ i + 1 \in 1..Len(s)
    BY <2>0
  <2>2. s[i].ts = msgs[b].ts /\ s[i + 1].ts = msgs[b].ts /\ msgs[b].ts \in Nat
    <3>1. b \in 1..Len(msgs)
      BY <1>1, <1>2
    <3>2. msgs[b] \in FeedMessage
      BY <3>1, ElementOfSeq
    <3>3. msgs[b].ts \in Nat
      BY <3>2 DEF FeedMessage
    <3> QED BY <2>1, <1>9, <3>3
  <2>3. PICK x \in Nat : x = (a + i) - 1
    BY <1>2
  <2>4. x \in 1..(2 * Len(rows) - 1) /\ (a + (i + 1)) - 1 = x + 1
    BY <2>1, <2>3, <1>1, <1>2, <1>8
  <2>5. s[i] = msgs[x] /\ s[i + 1] = msgs[x + 1]
    BY <2>1, <2>3, <2>4, <1>9
  <2>6. msgs[x].role = "user" => msgs[x + 1].of = msgs[x].of /\ msgs[x + 1].role = "agent"
    BY <2>4, NextIsAnswer
  <2> QED BY <2>2, <2>5, <2>6
<1>12. \A i \in 1..Len(s) : s[i].ts = entry[rows[k]].stamp
  BY <1>6, <1>9
<1> QED BY <1>6, <1>8, <1>10, <1>11, <1>12 DEF s

\* The whole page.
LEMMA PageTurned ==
    ASSUME NEW rows \in Seq(Entries), \A e \in Entries : entry[e].stamp \in Nat, NewestFirst(rows),
           NEW msgs \in Seq(FeedMessage), Paired(msgs, rows)
    PROVE  TurnedUpTo(Len(rows), rows, reverseRowChunks(msgs))
<1> DEFINE Bad == {k \in 0..Len(rows) : ~TurnedUpTo(k, rows, Turned(msgs)[2 * k])}
<1>0. Len(rows) \in Nat /\ Len(msgs) = 2 * Len(rows) /\ \A i \in 1..Len(rows) : rows[i] \in Entries
  BY LenProperties, ElementOfSeq DEF Paired
<1>1. ASSUME NEW k \in Bad, \A m \in Bad : k <= m PROVE FALSE
  <2>1. k \in Nat /\ k <= Len(rows)
    BY <1>0
  <2>2. CASE k = 0
    <3>1. Turned(msgs)[2 * k] = <<>>
      BY <2>2, TurnedIs
    <3>2. <<>> \in Seq(FeedMessage) /\ Len(<<>>) = 0 /\ InOrder(<<>>)
      BY DEF InOrder
    <3>3. TurnedUpTo(k, rows, <<>>)
      BY <2>2, <3>2 DEF TurnedUpTo
    <3> QED BY <3>1, <3>3
  <2>3. CASE k # 0
    <3>1. k \in 1..Len(rows) /\ 2 * k \in 1..Len(msgs)
      BY <2>1, <2>3, <1>0
    <3>2. PICK j \in 1..k : ChunkStart(msgs, 2 * k) = 2 * j - 1
      BY <3>1, ChunkOfRows
    <3> DEFINE s == SubSeq(msgs, 2 * j - 1, 2 * k)
               t == Turned(msgs)[2 * (j - 1)]
    <3>3. Turned(msgs)[2 * k] = s \o t
      <4>1. (2 * j - 1) - 1 = 2 * (j - 1)
        BY <3>2
      <4> QED BY <4>1, <3>1, <3>2, TurnedIs
    <3>4. /\ s \in Seq(FeedMessage) /\ Len(s) > 0 /\ InOrder(s) /\ s[Len(s)].role = "agent"
          /\ \A i \in 1..Len(s) : s[i].ts = entry[rows[k]].stamp
      BY <3>1, <3>2, ChunkIs
    <3>5. TurnedUpTo(j - 1, rows, t)
      <4>1. j - 1 \in 0..Len(rows) /\ ~(k <= j - 1)
        BY <3>1, <3>2, <1>0
      <4>2. j - 1 \notin Bad
        BY <4>1, <1>1
      <4> QED BY <4>1, <4>2
    <3> HIDE DEF s, t
    <3>6. /\ t \in Seq(FeedMessage) /\ InOrder(t)
          /\ \A i \in 1..Len(t) : \E l \in 1..(j - 1) : t[i].ts = entry[rows[l]].stamp
      BY <3>5 DEF TurnedUpTo
    <3>7. /\ s \o t \in Seq(FeedMessage) /\ Len(s \o t) = Len(s) + Len(t)
          /\ Len(s) \in Nat /\ Len(t) \in Nat
          /\ \A i \in 1..Len(s) : (s \o t)[i] = s[i]
          /\ \A i \in 1..Len(t) : (s \o t)[Len(s) + i] = t[i]
      BY <3>4, <3>6, ConcatIs
    <3>8. ASSUME NEW i \in 1..Len(t) PROVE s[Len(s)].ts <= t[i].ts
      <4>1. PICK l \in 1..(j - 1) : t[i].ts = entry[rows[l]].stamp
        BY <3>6
      <4>2. l \in 1..k
        BY <4>1, <3>2
      <4>3. entry[rows[l]].stamp >= entry[rows[k]].stamp
        BY <4>2, <3>1, NewestIs
      <4>4. s[Len(s)].ts = entry[rows[k]].stamp
        <5>1. Len(s) \in 1..Len(s)
          BY <3>4, <3>7
        <5> QED BY <5>1, <3>4
      <4>5. entry[rows[l]].stamp \in Nat /\ entry[rows[k]].stamp \in Nat
        <5>1. l \in 1..Len(rows)
          BY <4>2, <3>1, <1>0
        <5> QED BY <5>1, <3>1, <1>0
      <4> QED BY <4>1, <4>3, <4>4, <4>5
    <3>9. InOrder(s \o t)
      BY <3>4, <3>6, <3>8, InOrderConcat
    <3> DEFINE w == s \o t
    <3>10. ASSUME NEW i \in 1..Len(w) PROVE \E l \in 1..k : w[i].ts = entry[rows[l]].stamp
      <4>1. CASE i <= Len(s)
        <5>1. i \in 1..Len(s) /\ k \in 1..k
          BY <4>1, <3>7, <3>1
        <5>2. w[i].ts = entry[rows[k]].stamp
          BY <5>1, <3>4, <3>7
        <5> QED BY <5>1, <5>2
      <4>2. CASE ~(i <= Len(s))
        <5>0. i \in Nat /\ i > Len(s)
          BY <4>2, <3>7
        <5>1. PICK p \in Nat : p = i - Len(s)
          BY ONLY <5>0, <3>7, PastIs
        <5>2. p \in 1..Len(t) /\ Len(s) + p = i
          BY <5>1, <4>2, <3>7
        <5>3. PICK l \in 1..(j - 1) : t[p].ts = entry[rows[l]].stamp
          BY <5>2, <3>6
        <5>4. l \in 1..k
          BY <5>3, <3>2
        <5> QED BY <5>2, <5>3, <5>4, <3>7
      <4> QED BY <4>1, <4>2
    <3>11. TurnedUpTo(k, rows, s \o t)
      <4>1. Len(s \o t) > 0
        BY <3>4, <3>7
      <4> QED BY <4>1, <3>7, <3>9, <3>10 DEF TurnedUpTo
    <3> QED BY <3>3, <3>11
  <2> QED BY <2>2, <2>3
<1>2. Bad = {}
  <2> SUFFICES ASSUME Bad # {} PROVE FALSE
    OBVIOUS
  <2>1. Bad \in SUBSET Nat
    BY <1>0
  <2> HIDE DEF Bad
  <2>2. PICK k \in Bad : \A m \in Bad : k <= m
    BY <2>1, LeastNat
  <2> QED BY <2>2, <1>1
<1>3. TurnedUpTo(Len(rows), rows, Turned(msgs)[2 * Len(rows)])
  <2>1. Len(rows) \in 0..Len(rows)
    BY <1>0
  <2> QED BY <2>1, <1>2
<1> QED BY <1>0, <1>3, TurnedIs
-----------------------------------------------------------------------------
(***************************************************************************)
(* The feed.                                                               *)
(***************************************************************************)
FeedEntry == [phase : {"none", "begun", "inserted", "visible", "failed", "pruned"}, stamp : 0..MaxStamp,
              seq : Nat, chat : BOOLEAN, age : {"new", "soft", "hard"}]
FeedWalk == [at : {"closed", "paging", "end"}, before : Nat, was : SUBSET Entries,
             shown : SUBSET Entries, edges : SUBSET Nat, last : Seq(FeedMessage)]
FeedTypes ==
    /\ entry \in [Entries -> FeedEntry]
    /\ nextSeq \in Nat \ {0} /\ stampClock \in 1..MaxStamp
    /\ cursor \in Entries \union {0} /\ seen \subseteq Entries /\ acked \in Nat
    /\ lateRows \subseteq Entries /\ passedOver \subseteq Entries
    /\ pager \in FeedWalk

\* A number is drawn once.
Numbered(e) == entry[e].phase \in {"inserted", "visible", "pruned"}
NumbersAreOnce ==
    \A d \in Entries : Numbered(d) =>
       /\ 1 <= entry[d].seq /\ entry[d].seq < nextSeq
       /\ \A e \in Entries : Numbered(e) /\ e # d => entry[e].seq # entry[d].seq

\* What was handled was there; the cursor and the acknowledgement name such a row.
Written(e) == entry[e].phase \in {"visible", "pruned"}
SeenIsWritten ==
    /\ \A e \in seen : Written(e)
    /\ cursor \in seen \union {0}
    /\ acked = 0 \/ \E e \in seen : acked = entry[e].seq

\* A walk still has before it what it has not shown, but for the edges.
WalkInv ==
    /\ \A e \in pager.was : entry[e].chat /\ Written(e)
    /\ pager.at = "paging" =>
          \A e \in pager.was \intersect Visible :
             e \in pager.shown \/ entry[e].stamp \in pager.edges \/ entry[e].stamp < pager.before

FeedInv ==
    /\ FeedTypes /\ NumbersAreOnce /\ SeenIsWritten /\ PassedIsSeen
    /\ WalkInv /\ HistoryIsWhole /\ PageIsInOrder

LEMMA FeedStarts == FeedInit => FeedInv
<1> SUFFICES ASSUME FeedInit PROVE FeedInv
  OBVIOUS
<1>1. /\ entry = [e \in Entries |-> Unwritten] /\ nextSeq = 1 /\ stampClock = 1 /\ cursor = 0
      /\ seen = {} /\ acked = 0 /\ lateRows = {} /\ passedOver = {} /\ pager = NoWalk
  BY DEF FeedInit
<1>2. Unwritten \in FeedEntry /\ Unwritten.phase = "none"
  BY FeedAssumption DEF Unwritten, FeedEntry
<1>3. /\ NoWalk \in FeedWalk /\ NoWalk.at = "closed" /\ NoWalk.was = {} /\ NoWalk.last = <<>>
      /\ Len(<<>>) = 0
  BY DEF NoWalk, FeedWalk
<1>4. \A e \in Entries : entry[e].phase = "none"
  BY <1>1, <1>2
<1>5. FeedTypes
  <2>1. entry \in [Entries -> FeedEntry]
    BY <1>1, <1>2
  <2>2. stampClock \in 1..MaxStamp
    BY <1>1, FeedAssumption
  <2> QED BY <1>1, <1>3, <2>1, <2>2 DEF FeedTypes
<1>6. NumbersAreOnce /\ SeenIsWritten /\ PassedIsSeen
  BY <1>1, <1>4 DEF NumbersAreOnce, Numbered, SeenIsWritten, PassedIsSeen, Visible
<1>7. WalkInv /\ HistoryIsWhole /\ PageIsInOrder
  BY <1>1, <1>3 DEF WalkInv, HistoryIsWhole, PageIsInOrder
<1> QED BY <1>5, <1>6, <1>7 DEF FeedInv

\* What the types say of a row, one by one.
LEMMA EntryIs ==
    ASSUME FeedTypes, NEW e \in Entries
    PROVE  entry[e] \in FeedEntry /\ entry[e].stamp \in Nat /\ entry[e].seq \in Nat
  BY FeedAssumption DEF FeedTypes, FeedEntry

\* The feed's order is total on what has a number.
LEMMA OrderIs ==
    ASSUME FeedTypes, NumbersAreOnce, NEW d \in Entries, NEW e \in Entries, Numbered(d), Numbered(e)
    PROVE  /\ d # e => Before(d, e) \/ Before(e, d)
           /\ ~(Before(d, e) /\ Before(e, d))
<1>1. /\ entry[d].stamp \in Nat /\ entry[d].seq \in Nat
      /\ entry[e].stamp \in Nat /\ entry[e].seq \in Nat
  BY EntryIs
<1>2. d # e => entry[d].seq # entry[e].seq
  BY DEF NumbersAreOnce
<1> QED BY <1>1, <1>2 DEF Before

\* A page that is not empty has a last row.
LEMMA LastOfPage ==
    ASSUME FeedTypes, NumbersAreOnce, NEW page \in SUBSET Entries, page # {}, \A e \in page : Numbered(e)
    PROVE  \E e \in page : \A d \in page \ {e} : Before(d, e)
<1> DEFINE T == {entry[e].stamp : e \in page}
<1>1. T \in SUBSET Nat /\ T # {} /\ \A t \in T : t <= MaxStamp
  BY FeedAssumption DEF FeedTypes, FeedEntry
<1>2. PICK t \in T : \A u \in T : t >= u
  <2>1. MaxStamp \in Nat
    BY FeedAssumption
  <2> HIDE DEF T
  <2> QED BY <1>1, <2>1, GreatestNat
<1> DEFINE L == {e \in page : entry[e].stamp = t}
           Q == {entry[e].seq : e \in L}
<1>3. Q \in SUBSET Nat /\ Q # {} /\ nextSeq \in Nat /\ \A q \in Q : q <= nextSeq
  <2>1. L # {} /\ L \subseteq page
    BY <1>2
  <2>2. nextSeq \in Nat
    BY DEF FeedTypes
  <2>3. ASSUME NEW e \in page PROVE entry[e].seq \in Nat /\ entry[e].seq <= nextSeq
    <3>1. entry[e].seq \in Nat /\ entry[e].seq < nextSeq
      BY EntryIs DEF NumbersAreOnce
    <3> QED BY <3>1, <2>2
  <2>4. \A q \in Q : \E e \in page : q = entry[e].seq
    BY <2>1
  <2>5. Q \in SUBSET Nat /\ \A q \in Q : q <= nextSeq
    <3> HIDE DEF Q
    <3> QED BY <2>3, <2>4
  <2>6. Q # {}
    BY <2>1
  <2> QED BY <2>2, <2>5, <2>6
<1>4. PICK q \in Q : \A r \in Q : q >= r
  <2> HIDE DEF Q
  <2> QED BY <1>3, GreatestNat
<1>5. PICK e \in L : entry[e].seq = q
  BY <1>4
<1>6. ASSUME NEW d \in page \ {e} PROVE Before(d, e)
  <2>1. /\ entry[d].stamp \in Nat /\ entry[d].seq \in Nat
        /\ entry[e].stamp \in Nat /\ entry[e].seq \in Nat /\ d # e /\ e \in page
    BY <1>5, EntryIs
  <2>2. entry[d].stamp <= entry[e].stamp
    <3>1. entry[d].stamp \in T /\ t = entry[e].stamp
      BY <1>5
    <3> QED BY <3>1, <1>2, <2>1
  <2>3. entry[d].stamp = entry[e].stamp => entry[d].seq <= entry[e].seq
    BY <1>4, <1>5, <2>1
  <2>4. entry[d].seq # entry[e].seq
    BY <2>1 DEF NumbersAreOnce
  <2> QED BY <2>1, <2>2, <2>3, <2>4 DEF Before
<1> QED BY <1>5, <1>6

\* A row that was there keeps its stamp, its number and its kind, and only one
\* that was inserted becomes visible.
RowsKeep ==
    /\ \A e \in Entries : Written(e) =>
          /\ Written(e)' /\ entry'[e].stamp = entry[e].stamp /\ entry'[e].seq = entry[e].seq
          /\ entry'[e].chat = entry[e].chat
    /\ Visible' \subseteq Visible \union {e \in Entries : entry[e].phase = "inserted"}
    /\ UNCHANGED <<cursor, seen, acked, passedOver, pager>>

LEMMA KeptByRows ==
    ASSUME FeedInv, RowsKeep
    PROVE  SeenIsWritten' /\ WalkInv' /\ HistoryIsWhole' /\ PageIsInOrder'
<1>0. /\ seen \subseteq Entries /\ pager.was \subseteq Entries
      /\ UNCHANGED <<cursor, seen, acked, pager>>
  BY DEF FeedInv, FeedTypes, FeedWalk, RowsKeep
<1>1. SeenIsWritten'
  BY <1>0 DEF FeedInv, SeenIsWritten, RowsKeep
<1>2. \A e \in pager.was : /\ e \in Visible' => e \in Visible
                           /\ entry'[e].stamp = entry[e].stamp /\ entry'[e].chat = entry[e].chat
                           /\ Written(e)' /\ entry[e].chat
  BY <1>0 DEF FeedInv, WalkInv, RowsKeep, Written, Visible
<1>3. WalkInv'
  BY <1>0, <1>2 DEF FeedInv, WalkInv
<1>4. HistoryIsWhole'
  BY <1>0, <1>2 DEF FeedInv, HistoryIsWhole
<1>5. PageIsInOrder'
  BY <1>0 DEF FeedInv, PageIsInOrder
<1> QED BY <1>1, <1>3, <1>4, <1>5

LEMMA PassedByRows ==
    ASSUME FeedInv, RowsKeep, lateRows \subseteq lateRows',
           \A e \in Visible' \ Visible : (\E s \in seen : Before(e, s)') => e \in lateRows'
    PROVE  PassedIsSeen'
<1> SUFFICES ASSUME NEW e \in Visible', NEW s \in seen', Before(e, s)'
             PROVE  e \in seen' \union lateRows' \union passedOver'
  BY DEF PassedIsSeen
<1>1. seen' = seen /\ passedOver' = passedOver /\ seen \subseteq Entries /\ e \in Entries /\ s \in Entries
  BY DEF RowsKeep, FeedInv, FeedTypes, Visible
<1>2. CASE e \notin Visible
  BY <1>1, <1>2
<1>3. CASE e \in Visible
  <2>1. Written(e) /\ Written(s)
    BY <1>1, <1>3 DEF Written, Visible, FeedInv, SeenIsWritten
  <2>2. /\ entry'[e].stamp = entry[e].stamp /\ entry'[e].seq = entry[e].seq
        /\ entry'[s].stamp = entry[s].stamp /\ entry'[s].seq = entry[s].seq
    BY <1>1, <2>1 DEF RowsKeep
  <2>3. Before(e, s)
    BY <2>2 DEF Before
  <2>4. e \in seen \union lateRows \union passedOver
    BY <1>1, <1>3, <2>3 DEF FeedInv, PassedIsSeen
  <2> QED BY <1>1, <2>4
<1> QED BY <1>2, <1>3
\* One row changes.
OneRow(e, new) == entry' = [entry EXCEPT ![e] = new]

LEMMA OneRowIs ==
    ASSUME FeedTypes, NEW e \in Entries, NEW new \in FeedEntry, OneRow(e, new)
    PROVE  /\ entry' \in [Entries -> FeedEntry] /\ entry'[e] = new
           /\ \A d \in Entries : d # e => entry'[d] = entry[d]
  BY DEF FeedTypes, OneRow

LEMMA NumbersKept ==
    ASSUME FeedTypes, NumbersAreOnce, nextSeq' = nextSeq,
           \A d \in Entries : Numbered(d)' => Numbered(d) /\ entry'[d].seq = entry[d].seq
    PROVE  NumbersAreOnce'
  BY DEF NumbersAreOnce

LEMMA EmptyRow == Unwritten \in FeedEntry
  BY FeedAssumption DEF Unwritten, FeedEntry

LEMMA PhaseFits ==
    ASSUME NEW r \in FeedEntry
    PROVE  /\ [r EXCEPT !.phase = "failed"] \in FeedEntry
           /\ [r EXCEPT !.phase = "failed"].phase = "failed"
  BY DEF FeedEntry

LEMMA LogKeeps ==
    ASSUME FeedInv, NEW e \in Entries, LogActivity(e)
    PROVE  FeedInv'
<1> PICK chat \in BOOLEAN :
       entry' = [entry EXCEPT ![e].phase = "begun", ![e].stamp = stampClock, ![e].chat = chat]
  BY DEF LogActivity
<1> DEFINE new == [[[entry[e] EXCEPT !.phase = "begun"] EXCEPT !.stamp = stampClock] EXCEPT !.chat = chat]
<1>0. entry[e] \in FeedEntry /\ entry[e].phase = "none" /\ stampClock \in 0..MaxStamp /\ FeedTypes
  BY FeedAssumption DEF FeedInv, FeedTypes, LogActivity
<1>1. new \in FeedEntry /\ new.phase = "begun"
  BY <1>0 DEF FeedEntry
<1>2. OneRow(e, new)
  BY <1>0 DEF OneRow, FeedTypes
<1> HIDE DEF new
<1>3. /\ entry' \in [Entries -> FeedEntry] /\ entry'[e] = new
      /\ \A d \in Entries : d # e => entry'[d] = entry[d]
  BY <1>0, <1>1, <1>2, OneRowIs
<1>4. UNCHANGED <<nextSeq, stampClock, cursor, seen, acked, lateRows, passedOver, pager>>
  BY DEF LogActivity
<1>5. FeedTypes'
  BY <1>0, <1>3, <1>4 DEF FeedTypes
<1>6. NumbersAreOnce'
  <2>1. \A d \in Entries : Numbered(d)' => Numbered(d) /\ entry'[d].seq = entry[d].seq
    BY <1>1, <1>3 DEF Numbered
  <2> QED BY <2>1, <1>4, NumbersKept DEF FeedInv
<1>7. RowsKeep /\ Visible' \subseteq Visible
  BY <1>0, <1>1, <1>3, <1>4 DEF RowsKeep, Written, Visible
<1>8. PassedIsSeen'
  BY <1>4, <1>7, PassedByRows
<1> QED BY <1>5, <1>6, <1>7, <1>8, KeptByRows DEF FeedInv

LEMMA ExecKeeps ==
    ASSUME FeedInv, NEW e \in Entries, logActivityExec(e)
    PROVE  FeedInv'
<1>0. entry[e] \in FeedEntry /\ entry[e].phase = "begun" /\ FeedTypes /\ nextSeq \in Nat \ {0}
  BY DEF FeedInv, FeedTypes, logActivityExec
<1>4. UNCHANGED <<stampClock, cursor, seen, acked, lateRows, passedOver, pager>>
  BY DEF logActivityExec
<1> SUFFICES ASSUME NEW new \in FeedEntry, OneRow(e, new),
                    \/ new.phase = "inserted" /\ new.seq = nextSeq /\ nextSeq' = nextSeq + 1
                    \/ new.phase = "failed" /\ nextSeq' = nextSeq
             PROVE  FeedInv'
  <2>1. CASE entry' = [entry EXCEPT ![e].phase = "inserted", ![e].seq = nextSeq] /\ nextSeq' = nextSeq + 1
    <3> DEFINE new == [[entry[e] EXCEPT !.phase = "inserted"] EXCEPT !.seq = nextSeq]
    <3>1. new \in FeedEntry /\ new.phase = "inserted" /\ new.seq = nextSeq
      BY <1>0 DEF FeedEntry
    <3>2. OneRow(e, new)
      BY <1>0, <2>1 DEF OneRow, FeedTypes
    <3> HIDE DEF new
    <3> QED BY <3>1, <3>2, <2>1
  <2>2. CASE entry' = [entry EXCEPT ![e] = [Unwritten EXCEPT !.phase = "failed"]] /\ UNCHANGED nextSeq
    <3> DEFINE new == [Unwritten EXCEPT !.phase = "failed"]
    <3>1. new \in FeedEntry /\ new.phase = "failed"
      BY EmptyRow, PhaseFits
    <3>2. OneRow(e, new)
      BY <2>2 DEF OneRow
    <3> HIDE DEF new
    <3> QED BY <3>1, <3>2, <2>2
  <2> QED BY <2>1, <2>2 DEF logActivityExec
<1>3. /\ entry' \in [Entries -> FeedEntry] /\ entry'[e] = new
      /\ \A d \in Entries : d # e => entry'[d] = entry[d]
  BY <1>0, OneRowIs
<1>5. FeedTypes'
  <2>1. nextSeq' \in Nat \ {0}
    BY <1>0
  <2> QED BY <1>0, <1>3, <1>4, <2>1 DEF FeedTypes
<1>6. NumbersAreOnce'
  <2>1. CASE new.phase = "failed" /\ nextSeq' = nextSeq
    <3>1. \A d \in Entries : Numbered(d)' => Numbered(d) /\ entry'[d].seq = entry[d].seq
      BY <2>1, <1>3 DEF Numbered
    <3> QED BY <3>1, <2>1, NumbersKept DEF FeedInv
  <2>2. CASE new.phase = "inserted" /\ new.seq = nextSeq /\ nextSeq' = nextSeq + 1
    <3>1. \A d \in Entries : d # e /\ Numbered(d)' => Numbered(d) /\ entry'[d].seq = entry[d].seq
      BY <1>3 DEF Numbered
    <3>2. \A d \in Entries : d # e /\ Numbered(d)' =>
             /\ entry'[d].seq \in Nat /\ 1 <= entry'[d].seq /\ entry'[d].seq < nextSeq
             /\ \A c \in Entries : c # e /\ Numbered(c)' /\ c # d => entry'[c].seq # entry'[d].seq
      BY <3>1, <1>0, EntryIs DEF FeedInv, NumbersAreOnce
    <3>3. entry'[e].seq = nextSeq
      BY <1>3, <2>2
    <3> SUFFICES ASSUME NEW d \in Entries, Numbered(d)'
                 PROVE  /\ 1 <= entry'[d].seq /\ entry'[d].seq < nextSeq'
                        /\ \A c \in Entries : Numbered(c)' /\ c # d => entry'[c].seq # entry'[d].seq
      BY DEF NumbersAreOnce
    <3>4. CASE d = e
      <4>1. 1 <= nextSeq /\ nextSeq < nextSeq'
        BY <1>0, <2>2
      <4>2. \A c \in Entries : Numbered(c)' /\ c # d => entry'[c].seq # nextSeq
        BY <3>2, <3>4, <1>0
      <4> QED BY <3>3, <3>4, <4>1, <4>2
    <3>5. CASE d # e
      <4>1. 1 <= entry'[d].seq /\ entry'[d].seq < nextSeq' /\ entry'[d].seq # nextSeq
        BY <3>2, <3>5, <1>0, <2>2
      <4> QED BY <3>2, <3>3, <3>5, <4>1
    <3> QED BY <3>4, <3>5
  <2> QED BY <2>1, <2>2
<1>7. RowsKeep /\ Visible' \subseteq Visible
  BY <1>0, <1>3, <1>4 DEF RowsKeep, Written, Visible
<1>8. PassedIsSeen'
  BY <1>4, <1>7, PassedByRows
<1> QED BY <1>5, <1>6, <1>7, <1>8, KeptByRows DEF FeedInv

LEMMA CommitKeeps ==
    ASSUME FeedInv, NEW e \in Entries, Commit(e)
    PROVE  FeedInv'
<1> DEFINE new == [entry[e] EXCEPT !.phase = "visible"]
<1>0. entry[e] \in FeedEntry /\ entry[e].phase = "inserted" /\ FeedTypes
  BY DEF FeedInv, FeedTypes, Commit
<1>1. new \in FeedEntry /\ new.phase = "visible" /\ new.stamp = entry[e].stamp /\ new.seq = entry[e].seq
  BY <1>0 DEF FeedEntry
<1>2. OneRow(e, new)
  BY <1>0 DEF OneRow, FeedTypes, Commit
<1> HIDE DEF new
<1>3. /\ entry' \in [Entries -> FeedEntry] /\ entry'[e] = new
      /\ \A d \in Entries : d # e => entry'[d] = entry[d]
  BY <1>0, <1>1, <1>2, OneRowIs
<1>4. /\ UNCHANGED <<nextSeq, stampClock, cursor, seen, acked, passedOver, pager>>
      /\ lateRows' = IF \E s \in seen : Before(e, s) THEN lateRows \union {e} ELSE lateRows
  BY DEF Commit
<1>5. FeedTypes'
  BY <1>0, <1>3, <1>4 DEF FeedTypes
<1>6. NumbersAreOnce'
  <2>1. \A d \in Entries : Numbered(d)' => Numbered(d) /\ entry'[d].seq = entry[d].seq
    BY <1>0, <1>1, <1>3 DEF Numbered
  <2> QED BY <2>1, <1>4, NumbersKept DEF FeedInv
<1>7. RowsKeep /\ Visible' \subseteq Visible \union {e}
  BY <1>0, <1>1, <1>3, <1>4 DEF RowsKeep, Written, Visible
<1>8. PassedIsSeen'
  <2>1. ASSUME \E s \in seen : Before(e, s)' PROVE e \in lateRows'
    <3>1. PICK s \in seen : Before(e, s)'
      BY <2>1
    <3>2. s \in Entries
      BY <1>0 DEF FeedTypes
    <3>3. /\ entry'[e].stamp = entry[e].stamp /\ entry'[e].seq = entry[e].seq
          /\ entry'[s].stamp = entry[s].stamp /\ entry'[s].seq = entry[s].seq
      BY <1>1, <1>3, <3>2
    <3>4. Before(e, s)
      BY <3>1, <3>3 DEF Before
    <3> QED BY <3>4, <1>4
  <2> QED BY <2>1, <1>4, <1>7, PassedByRows
<1> QED BY <1>5, <1>6, <1>7, <1>8, KeptByRows DEF FeedInv

LEMMA AgesKeep ==
    ASSUME FeedInv, AgePasses
    PROVE  FeedInv'
<1>0. FeedTypes
  BY DEF FeedInv
<1>1. ASSUME NEW d \in Entries
      PROVE  /\ entry'[d] \in FeedEntry /\ entry'[d].phase = entry[d].phase
             /\ entry'[d].stamp = entry[d].stamp /\ entry'[d].seq = entry[d].seq
             /\ entry'[d].chat = entry[d].chat
  <2>1. entry[d] \in FeedEntry
    BY <1>0, EntryIs
  <2>2. entry'[d] = IF d \in Visible
                    THEN [entry[d] EXCEPT !.age = IF @ = "new" THEN "soft" ELSE "hard"]
                    ELSE entry[d]
    BY DEF AgePasses
  <2> QED BY <2>1, <2>2 DEF FeedEntry
<1>2. entry' \in [Entries -> FeedEntry]
  <2>1. entry' = [d \in Entries |-> entry'[d]]
    BY DEF AgePasses
  <2> QED BY <2>1, <1>1
<1>4. UNCHANGED <<nextSeq, stampClock, cursor, seen, acked, lateRows, passedOver, pager>>
  BY DEF AgePasses
<1>5. FeedTypes'
  BY <1>0, <1>2, <1>4 DEF FeedTypes
<1>6. NumbersAreOnce'
  <2>1. \A d \in Entries : Numbered(d)' => Numbered(d) /\ entry'[d].seq = entry[d].seq
    BY <1>1 DEF Numbered
  <2> QED BY <2>1, <1>4, NumbersKept DEF FeedInv
<1>7. RowsKeep /\ Visible' \subseteq Visible
  BY <1>1, <1>4 DEF RowsKeep, Written, Visible
<1>8. PassedIsSeen'
  BY <1>4, <1>7, PassedByRows
<1> QED BY <1>5, <1>6, <1>7, <1>8, KeptByRows DEF FeedInv

LEMMA PrunesKeep ==
    ASSUME FeedInv, PruneActivityLogs
    PROVE  FeedInv'
<1>0. FeedTypes
  BY DEF FeedInv
<1>1. ASSUME NEW d \in Entries
      PROVE  /\ entry'[d] \in FeedEntry
             /\ entry'[d].phase = entry[d].phase \/ (entry[d].phase = "visible" /\ entry'[d].phase = "pruned")
             /\ entry'[d].stamp = entry[d].stamp /\ entry'[d].seq = entry[d].seq
             /\ entry'[d].chat = entry[d].chat
  <2>1. entry[d] \in FeedEntry
    BY <1>0, EntryIs
  <2>2. /\ entry'[d] = IF d \in Prunable THEN [entry[d] EXCEPT !.phase = "pruned"] ELSE entry[d]
        /\ d \in Prunable => entry[d].phase = "visible"
    BY DEF PruneActivityLogs, Prunable, Visible
  <2> QED BY <2>1, <2>2 DEF FeedEntry
<1>2. entry' \in [Entries -> FeedEntry]
  <2>1. entry' = [d \in Entries |-> entry'[d]]
    BY DEF PruneActivityLogs
  <2> QED BY <2>1, <1>1
<1>4. UNCHANGED <<nextSeq, stampClock, cursor, seen, acked, lateRows, passedOver, pager>>
  BY DEF PruneActivityLogs
<1>5. FeedTypes'
  BY <1>0, <1>2, <1>4 DEF FeedTypes
<1>6. NumbersAreOnce'
  <2>1. \A d \in Entries : Numbered(d)' => Numbered(d) /\ entry'[d].seq = entry[d].seq
    BY <1>1 DEF Numbered
  <2> QED BY <2>1, <1>4, NumbersKept DEF FeedInv
<1>7. RowsKeep /\ Visible' \subseteq Visible
  BY <1>1, <1>4 DEF RowsKeep, Written, Visible
<1>8. PassedIsSeen'
  BY <1>4, <1>7, PassedByRows
<1> QED BY <1>5, <1>6, <1>7, <1>8, KeptByRows DEF FeedInv
\* The poller leaves the rows and the canvas alone.
LEMMA PollerAside ==
    ASSUME FeedInv, UNCHANGED <<entry, nextSeq, pager>>
    PROVE  NumbersAreOnce' /\ WalkInv' /\ HistoryIsWhole' /\ PageIsInOrder'
  BY DEF FeedInv, NumbersAreOnce, Numbered, WalkInv, Written, Visible, HistoryIsWhole, PageIsInOrder

LEMMA StampKeeps ==
    ASSUME FeedInv, StampMoves
    PROVE  FeedInv'
<1>1. UNCHANGED <<entry, nextSeq, cursor, seen, acked, lateRows, passedOver, pager>>
  BY DEF StampMoves
<1>2. FeedTypes'
  <2>1. stampClock' \in 1..MaxStamp
    BY FeedAssumption DEF FeedInv, FeedTypes, StampMoves
  <2> QED BY <1>1, <2>1 DEF FeedInv, FeedTypes
<1>3. SeenIsWritten' /\ PassedIsSeen'
  BY <1>1 DEF FeedInv, SeenIsWritten, Written, PassedIsSeen, Before, Visible
<1> QED BY <1>1, <1>2, <1>3, PollerAside DEF FeedInv

\* The cursor is dropped.
LEMMA DropsKeep ==
    ASSUME FeedInv, ListGone \/ PollerRestarts
    PROVE  FeedInv'
<1>1. cursor' = 0 /\ UNCHANGED <<entry, nextSeq, stampClock, seen, acked, lateRows, passedOver, pager>>
  BY DEF ListGone, PollerRestarts
<1>2. FeedTypes'
  BY <1>1 DEF FeedInv, FeedTypes
<1>3. SeenIsWritten' /\ PassedIsSeen'
  BY <1>1 DEF FeedInv, SeenIsWritten, Written, PassedIsSeen, Before, Visible
<1> QED BY <1>1, <1>2, <1>3, PollerAside DEF FeedInv

LEMMA AckKeeps ==
    ASSUME FeedInv, Ack
    PROVE  FeedInv'
<1>1. PICK e \in seen : acked' = IF entry[e].seq > acked THEN entry[e].seq ELSE acked
  BY DEF Ack
<1>2. UNCHANGED <<entry, nextSeq, stampClock, cursor, seen, lateRows, passedOver, pager>>
  BY DEF Ack
<1>3. entry[e].seq \in Nat
  BY <1>1, EntryIs DEF FeedInv, FeedTypes
<1>4. FeedTypes'
  BY <1>1, <1>2, <1>3 DEF FeedInv, FeedTypes
<1>5. SeenIsWritten'
  <2>1. acked' = acked \/ acked' = entry'[e].seq
    BY <1>1, <1>2
  <2> QED BY <1>2, <2>1 DEF FeedInv, SeenIsWritten, Written
<1>6. PassedIsSeen'
  BY <1>2 DEF FeedInv, PassedIsSeen, Before, Visible
<1> QED BY <1>2, <1>4, <1>5, <1>6, PollerAside DEF FeedInv

\* A page was handled, its last row is the cursor.
PageHandled(page) ==
    /\ page # {} /\ page \subseteq Visible /\ seen' = seen \union page
    /\ cursor' = CHOOSE e \in page : \A d \in page \ {e} : Before(d, e)
    /\ UNCHANGED <<entry, nextSeq, stampClock, acked, lateRows, pager>>

LEMMA PageKeeps ==
    ASSUME FeedInv, NEW page, PageHandled(page), passedOver' \subseteq Entries, PassedIsSeen'
    PROVE  FeedInv'
<1>1. /\ page \in SUBSET Entries /\ page # {} /\ \A e \in page : Numbered(e) /\ Written(e)
      /\ FeedTypes /\ NumbersAreOnce
  BY DEF PageHandled, Visible, Numbered, Written, FeedInv
<1>2. cursor' \in page
  <2>1. \E e \in page : \A d \in page \ {e} : Before(d, e)
    BY <1>1, LastOfPage
  <2> QED BY <2>1, Zenon DEF PageHandled
<1>3. seen' = seen \union page /\ UNCHANGED <<entry, nextSeq, stampClock, acked, lateRows, pager>>
  BY DEF PageHandled
<1>4. FeedTypes'
  BY <1>1, <1>2, <1>3 DEF FeedTypes
<1>5. SeenIsWritten'
  BY <1>1, <1>2, <1>3 DEF FeedInv, SeenIsWritten, Written
<1> QED BY <1>3, <1>4, <1>5, PollerAside DEF FeedInv

LEMMA SinceKeeps ==
    ASSUME FeedInv, ListSince
    PROVE  FeedInv'
<1>1. PICK page \in SUBSET AfterCursor :
         /\ page # {} /\ \A d \in AfterCursor \ page, e \in page : Before(e, d)
         /\ seen' = seen \union page
         /\ cursor' = CHOOSE e \in page : \A d \in page \ {e} : Before(d, e)
  BY DEF ListSince
<1>2. cursor \in Visible /\ UNCHANGED <<entry, nextSeq, stampClock, acked, lateRows, passedOver, pager>>
  BY DEF ListSince
<1>3. PageHandled(page)
  BY <1>1, <1>2 DEF PageHandled, AfterCursor
<1>0. FeedTypes /\ NumbersAreOnce /\ \A e \in Visible : e \in Entries /\ Numbered(e)
  BY DEF FeedInv, Visible, Numbered
<1>4. cursor \in seen
  <2>1. cursor \in Entries /\ 0 \notin Entries
    BY <1>0, <1>2, FeedAssumption DEF Entries
  <2> QED BY <2>1 DEF FeedInv, SeenIsWritten
<1>5. PassedIsSeen'
  <2>1. Visible' = Visible /\ lateRows' = lateRows /\ passedOver' = passedOver
    BY <1>2 DEF Visible
  <2>2. ASSUME NEW e \in Visible, NEW s \in seen', Before(e, s)
        PROVE  e \in seen' \union lateRows \union passedOver
    <3>1. CASE s \in seen
      BY <3>1, <2>2, <1>1 DEF FeedInv, PassedIsSeen
    <3>2. CASE s \in page
      <4>1. s \in Visible /\ Before(cursor, s)
        BY <3>2 DEF AfterCursor
      <4>2. CASE e \in page \/ e = cursor
        BY <4>2, <1>1, <1>4
      <4>3. CASE e \notin page /\ e # cursor
        <5>1. e \notin AfterCursor
          <6>1. ~(Before(s, e) /\ Before(e, s))
            BY <4>1, <1>0, OrderIs
          <6> QED BY <6>1, <2>2, <1>1, <3>2, <4>3
        <5>2. Before(e, cursor)
          <6>1. Before(e, cursor) \/ Before(cursor, e)
            BY <4>3, <1>0, <1>2, OrderIs
          <6> QED BY <6>1, <5>1 DEF AfterCursor
        <5> QED BY <5>2, <1>1, <1>4 DEF FeedInv, PassedIsSeen
      <4> QED BY <4>2, <4>3
    <3> QED BY <3>1, <3>2, <1>1
  <2>3. \A e \in Visible, s \in seen' : Before(e, s)' => Before(e, s)
    BY <1>2 DEF Before
  <2> QED BY <2>1, <2>2, <2>3 DEF PassedIsSeen
<1>6. passedOver' \subseteq Entries
  BY <1>0, <1>2 DEF FeedTypes
<1> QED BY <1>3, <1>5, <1>6, PageKeeps

LEMMA FewEntries == IsFiniteSet(Entries)
  BY FeedAssumption, FS_Interval DEF Entries

LEMMA RecentKeeps ==
    ASSUME FeedInv, ListRecent
    PROVE  FeedInv'
<1>1. PICK page \in SUBSET Visible :
         /\ Cardinality(page) < PageLimit => page = Visible
         /\ seen' = seen \union page
         /\ passedOver' = passedOver \union (Visible \ (page \union seen))
         /\ cursor' = CHOOSE e \in page : \A d \in page \ {e} : Before(d, e)
  BY DEF ListRecent
<1>2. Visible # {} /\ UNCHANGED <<entry, nextSeq, stampClock, acked, lateRows, pager>>
  BY DEF ListRecent
<1>3. page # {}
  <2> SUFFICES ASSUME page = {} PROVE FALSE
    OBVIOUS
  <2>1. Cardinality(page) = 0
    BY FS_EmptySet
  <2>2. Cardinality(page) < PageLimit
    BY <2>1, FeedAssumption
  <2> QED BY <2>2, <1>1, <1>2
<1>4. PageHandled(page)
  BY <1>1, <1>2, <1>3 DEF PageHandled
<1>5. passedOver' \subseteq Entries
  BY <1>1 DEF FeedInv, FeedTypes, Visible
<1>6. PassedIsSeen'
  <2>1. Visible' = Visible
    BY <1>2 DEF Visible
  <2>2. \A e \in Visible : e \in seen' \union passedOver'
    BY <1>1
  <2> QED BY <2>1, <2>2 DEF PassedIsSeen
<1> QED BY <1>4, <1>5, <1>6, PageKeeps

\* The canvas reads.
LEMMA CanvasAside ==
    ASSUME FeedInv, UNCHANGED <<entry, nextSeq, stampClock, cursor, seen, acked, lateRows, passedOver>>
    PROVE  /\ NumbersAreOnce' /\ SeenIsWritten' /\ PassedIsSeen' /\ Visible' = Visible
           /\ pager' \in FeedWalk => FeedTypes'
  BY DEF FeedInv, FeedTypes, NumbersAreOnce, Numbered, SeenIsWritten, Written, PassedIsSeen, Before, Visible

LEMMA OpensKeep ==
    ASSUME FeedInv, HistoryOpens
    PROVE  FeedInv'
<1>1. UNCHANGED <<entry, nextSeq, stampClock, cursor, seen, acked, lateRows, passedOver>>
  BY DEF HistoryOpens
<1>2. pager' = [at |-> "paging", before |-> MaxStamp + 1, was |-> {e \in Visible : entry[e].chat},
                shown |-> {}, edges |-> {}, last |-> <<>>]
  BY DEF HistoryOpens, NoWalk
<1>3. pager' \in FeedWalk
  BY <1>2, FeedAssumption DEF FeedWalk, Visible
<1>4. \A e \in Visible : /\ Written(e)' /\ entry' = entry /\ e \in Entries
                         /\ entry[e].stamp < MaxStamp + 1
  BY <1>1, FeedAssumption DEF Visible, Written, FeedInv, FeedTypes, FeedEntry
<1>5. WalkInv' /\ HistoryIsWhole'
  BY <1>1, <1>2, <1>4 DEF WalkInv, HistoryIsWhole
<1>6. PageIsInOrder'
  <2>1. pager'.last = <<>> /\ Len(<<>>) = 0
    BY <1>2
  <2> QED BY <2>1 DEF PageIsInOrder
<1> QED BY <1>1, <1>3, <1>5, <1>6, CanvasAside DEF FeedInv

\* The messages of a page: in order, and the first is as old as one of its rows.
LEMMA PageMessages ==
    ASSUME FeedTypes, NEW page \in SUBSET Entries, NEW rows \in SetToSeqs(page), NewestFirst(rows)
    PROVE  LET msgs == reverseRowChunks(FlattenSeq([i \in 1..Len(rows) |->
                                                      activityRowToChatMessages(rows[i])]))
           IN  /\ msgs \in Seq(FeedMessage) /\ InOrder(msgs)
               /\ page # {} => \E e \in page : msgs[1].ts = entry[e].stamp
<1> DEFINE flat == FlattenSeq([i \in 1..Len(rows) |-> activityRowToChatMessages(rows[i])])
           msgs == reverseRowChunks(flat)
<1>1. IsFiniteSet(page) /\ Cardinality(page) \in Nat
  BY FewEntries, FS_Subset, FS_CardinalityType
<1>2. rows \in [1..Cardinality(page) -> page]
  BY DEF SetToSeqs
<1>3. rows \in Seq(Entries) /\ Len(rows) = Cardinality(page) /\ \A i \in 1..Len(rows) : rows[i] \in page
  BY <1>1, <1>2
<1>4. \A e \in Entries : entry[e].stamp \in Nat
  BY EntryIs
<1>5. flat \in Seq(FeedMessage) /\ Paired(flat, rows)
  BY <1>3, <1>4, PagePairs
<1> HIDE DEF flat
<1>6. TurnedUpTo(Len(rows), rows, msgs)
  BY <1>3, <1>4, <1>5, PageTurned
<1> HIDE DEF msgs
<1>7. msgs \in Seq(FeedMessage) /\ InOrder(msgs)
  BY <1>6 DEF TurnedUpTo
<1>8. ASSUME page # {} PROVE \E e \in page : msgs[1].ts = entry[e].stamp
  <2>1. Len(rows) > 0
    <3>1. Cardinality(page) # 0
      BY <1>1, <1>8, FS_EmptySet
    <3> QED BY <3>1, <1>1, <1>3
  <2>2. Len(msgs) > 0
    BY <1>6, <2>1 DEF TurnedUpTo
  <2>3. 1 \in 1..Len(msgs)
    BY <2>2, <1>7, LenProperties
  <2>4. PICK j \in 1..Len(rows) : msgs[1].ts = entry[rows[j]].stamp
    BY <2>3, <1>6 DEF TurnedUpTo
  <2> QED BY <2>4, <1>3
<1> QED BY <1>7, <1>8 DEF msgs, flat

LEMMA HistoryKeeps ==
    ASSUME FeedInv, HistoryPage
    PROVE  FeedInv'
<1>a. PICK page \in SUBSET queryActivityRows :
         /\ Cardinality(page) < PageLimit => page = queryActivityRows
         /\ \A d \in queryActivityRows \ page, e \in page : entry[d].stamp <= entry[e].stamp
         /\ \E rows \in SetToSeqs(page) :
              /\ NewestFirst(rows)
              /\ LET msgs == reverseRowChunks(FlattenSeq([i \in 1..Len(rows) |->
                                                            activityRowToChatMessages(rows[i])]))
                     oldest == IF page = {} THEN pager.before ELSE msgs[1].ts
                 IN  pager' = [pager EXCEPT
                                 !.at = IF Cardinality(page) < PageLimit THEN "end" ELSE @,
                                 !.before = oldest, !.edges = @ \union {oldest},
                                 !.shown = @ \union page, !.last = msgs]
  BY ZenonT(60) DEF HistoryPage, NewestFirst
<1>b. PICK rows \in SetToSeqs(page) :
         /\ NewestFirst(rows)
         /\ LET msgs == reverseRowChunks(FlattenSeq([i \in 1..Len(rows) |->
                                                       activityRowToChatMessages(rows[i])]))
                oldest == IF page = {} THEN pager.before ELSE msgs[1].ts
            IN  pager' = [pager EXCEPT
                            !.at = IF Cardinality(page) < PageLimit THEN "end" ELSE @,
                            !.before = oldest, !.edges = @ \union {oldest},
                            !.shown = @ \union page, !.last = msgs]
  BY <1>a
<1> DEFINE msgs == reverseRowChunks(FlattenSeq([i \in 1..Len(rows) |->
                                                  activityRowToChatMessages(rows[i])]))
           oldest == IF page = {} THEN pager.before ELSE msgs[1].ts
<1>2. /\ FeedTypes /\ pager \in FeedWalk /\ pager.at = "paging"
      /\ queryActivityRows \subseteq Visible /\ Visible \subseteq Entries
  BY DEF FeedInv, FeedTypes, HistoryPage, queryActivityRows, Visible
<1>3. /\ msgs \in Seq(FeedMessage) /\ InOrder(msgs)
      /\ page # {} => \E e \in page : msgs[1].ts = entry[e].stamp
  BY <1>b, <1>2, PageMessages
<1>4. pager' = [pager EXCEPT !.at = IF Cardinality(page) < PageLimit THEN "end" ELSE @,
                             !.before = oldest, !.edges = @ \union {oldest},
                             !.shown = @ \union page, !.last = msgs]
  BY <1>b
<1> HIDE DEF msgs
<1>5. UNCHANGED <<entry, nextSeq, stampClock, cursor, seen, acked, lateRows, passedOver>>
  BY DEF HistoryPage
<1>6. oldest \in Nat
  <2>1. pager.before \in Nat
    BY <1>2 DEF FeedWalk
  <2>2. \A e \in page : entry[e].stamp \in Nat
    BY <1>2, EntryIs
  <2> QED BY <2>1, <2>2, <1>3
<1>7. page # {} => \E e \in page : oldest = entry[e].stamp
  BY <1>3
<1> HIDE DEF oldest
<1>8. /\ pager'.at = (IF Cardinality(page) < PageLimit THEN "end" ELSE "paging")
      /\ pager'.before = oldest /\ pager'.edges = pager.edges \union {oldest}
      /\ pager'.shown = pager.shown \union page /\ pager'.last = msgs /\ pager'.was = pager.was
      /\ pager' \in FeedWalk
  BY <1>2, <1>3, <1>4, <1>6 DEF FeedWalk
<1>9. ASSUME NEW e \in pager.was \intersect Visible
      PROVE  \/ e \in pager'.shown \/ entry[e].stamp \in pager'.edges
             \/ pager'.at = "paging" /\ entry[e].stamp < oldest
  <2>0. entry[e].chat /\ e \in Entries /\ entry[e].stamp \in Nat
    BY <1>2, EntryIs DEF FeedInv, WalkInv
  <2>1. CASE e \in pager.shown \/ entry[e].stamp \in pager.edges
    BY <2>1, <1>8
  <2>2. CASE entry[e].stamp < pager.before
    <3>1. e \in queryActivityRows
      BY <2>0, <2>2 DEF queryActivityRows
    <3>2. CASE e \in page
      BY <3>2, <1>8
    <3>3. CASE e \notin page
      <4>1. ~(Cardinality(page) < PageLimit) /\ pager'.at = "paging"
        BY <3>1, <3>3, <1>a, <1>8
      <4>2. page # {}
        <5>1. PageLimit \in Nat \ {0} /\ Cardinality({}) = 0
          BY FeedAssumption, FS_EmptySet
        <5>2. Cardinality({}) < PageLimit
          BY <5>1
        <5> QED BY <5>2, <4>1
      <4>3. PICK p \in page : oldest = entry[p].stamp
        BY <4>2, <1>7
      <4>4. entry[e].stamp <= oldest
        BY <3>1, <3>3, <4>3, <1>a
      <4> QED BY <2>0, <4>1, <4>4, <1>6, <1>8
    <3> QED BY <3>2, <3>3
  <2> QED BY <2>1, <2>2, <1>2 DEF FeedInv, WalkInv
<1>10. Visible' = Visible /\ entry' = entry
  BY <1>5 DEF Visible
<1>11. WalkInv'
  <2>1. \A e \in pager.was : entry[e].chat /\ Written(e)
    BY DEF FeedInv, WalkInv
  <2>2. \A e \in pager.was : entry'[e].chat /\ Written(e)'
    BY <2>1, <1>10 DEF Written
  <2> QED BY <2>2, <1>8, <1>9, <1>10 DEF WalkInv
<1>12. HistoryIsWhole'
  BY <1>8, <1>9, <1>10 DEF HistoryIsWhole
<1>13. PageIsInOrder'
  BY <1>3, <1>8 DEF PageIsInOrder, InOrder
<1> QED BY SMTT(40), <1>5, <1>8, <1>11, <1>12, <1>13, CanvasAside DEF FeedInv

LEMMA FeedAside == ASSUME FeedInv, UNCHANGED feedVars PROVE FeedInv'
<1>1. UNCHANGED <<entry, nextSeq, stampClock, cursor, seen, acked, lateRows, passedOver>> /\ pager' = pager
  BY DEF feedVars
<1>2. WalkInv' /\ HistoryIsWhole' /\ PageIsInOrder'
  BY <1>1, PollerAside
<1> QED BY <1>1, <1>2, CanvasAside DEF FeedInv, FeedTypes

LEMMA FeedStep == FeedInv /\ [FeedNext]_feedVars => FeedInv'
<1> SUFFICES ASSUME FeedInv, [FeedNext]_feedVars PROVE FeedInv'
  OBVIOUS
<1>1. CASE UNCHANGED feedVars
  BY <1>1, FeedAside
<1>2. CASE \E e \in Entries : LogActivity(e) \/ logActivityExec(e) \/ Commit(e)
  BY <1>2, LogKeeps, ExecKeeps, CommitKeeps
<1>3. CASE StampMoves \/ ListSince \/ ListGone \/ ListRecent \/ PollerRestarts \/ Ack
  BY <1>3, StampKeeps, SinceKeeps, DropsKeep, RecentKeeps, AckKeeps
<1>4. CASE AgePasses \/ PruneActivityLogs \/ HistoryOpens \/ HistoryPage
  BY <1>4, AgesKeep, PrunesKeep, OpensKeep, HistoryKeeps
<1> QED BY <1>1, <1>2, <1>3, <1>4 DEF FeedNext

-----------------------------------------------------------------------------
\* What is counted as read was handled, or is excused.
LEMMA ReadFollows == FeedInv => ReadIsSeen
<1> SUFFICES ASSUME FeedInv, NEW e \in Visible, e \notin receivedUnread PROVE e \in seen \union Excused
  BY DEF ReadIsSeen
<1>0. FeedTypes /\ NumbersAreOnce /\ e \in Entries /\ Numbered(e)
  BY DEF FeedInv, Visible, Numbered
<1>1. entry[e].seq \in Nat /\ 1 <= entry[e].seq /\ acked \in Nat
  BY <1>0, EntryIs DEF NumbersAreOnce, FeedTypes
<1>2. entry[e].seq <= acked
  BY <1>1 DEF receivedUnread
<1>3. PICK s \in seen : acked = entry[s].seq
  BY <1>1, <1>2 DEF FeedInv, SeenIsWritten
<1>4. s \in Entries /\ Numbered(s)
  BY <1>0, <1>3 DEF FeedInv, FeedTypes, SeenIsWritten, Written, Numbered
<1>5. CASE e = s
  BY <1>3, <1>5
<1>6. CASE Before(e, s)
  BY <1>3, <1>6 DEF FeedInv, PassedIsSeen, Excused
<1>7. CASE e # s /\ Before(s, e)
  <2>1. entry[e].seq # entry[s].seq /\ entry[s].seq \in Nat
    BY <1>0, <1>4, <1>7, EntryIs DEF NumbersAreOnce
  <2>2. entry[s].seq > entry[e].seq
    BY <2>1, <1>1, <1>2, <1>3
  <2>3. Crossed(e)
    BY <2>2, <1>3, <1>7 DEF Crossed
  <2> QED BY <2>3, <1>0 DEF Excused
<1> QED BY <1>0, <1>4, <1>5, <1>6, <1>7, OrderIs

LEMMA FeedHolds ==
    FeedInv => FeedTypeOK /\ PassedIsSeen /\ ReadIsSeen /\ HistoryIsWhole /\ PageIsInOrder
<1> SUFFICES ASSUME FeedInv PROVE FeedTypeOK
  BY SMTT(40), ReadFollows DEF FeedInv
<1> QED BY SMTT(40) DEF FeedInv, FeedTypes, FeedTypeOK, FeedEntry, FeedWalk

LEMMA PrunedIsAcked ==
    ASSUME FeedInv, [FeedNext]_feedVars, NEW e \in Entries, entry[e].phase = "visible",
           entry'[e].phase = "pruned", e \notin seen
    PROVE  entry[e].age = "hard" \/ e \in Excused
<1>0. e \in Visible /\ FeedTypes
  BY DEF Visible, FeedInv
<1>1. CASE PruneActivityLogs
  <2>1. e \in Prunable
    <3>1. entry'[e] = IF e \in Prunable THEN [entry[e] EXCEPT !.phase = "pruned"] ELSE entry[e]
      BY <1>1 DEF PruneActivityLogs
    <3> QED BY <3>1
  <2>2. CASE entry[e].age = "hard"
    BY <2>2
  <2>3. CASE entry[e].seq <= acked
    <3>1. e \notin receivedUnread
      <4>1. entry[e].seq \in Nat /\ acked \in Nat
        BY <1>0, EntryIs DEF FeedTypes
      <4> QED BY <4>1, <2>3 DEF receivedUnread
    <3> QED BY <3>1, <1>0, ReadFollows DEF ReadIsSeen
  <2> QED BY <2>1, <2>2, <2>3 DEF Prunable
<1>2. ASSUME NEW d \in Entries, LogActivity(d) \/ logActivityExec(d) \/ Commit(d) PROVE FALSE
  <2>1. d # e
    BY <1>2 DEF LogActivity, logActivityExec, Commit
  <2>2. entry'[e] = entry[e]
    BY <1>0, <1>2, <2>1 DEF LogActivity, logActivityExec, Commit, FeedTypes
  <2> QED BY <2>2
<1>3. CASE AgePasses
  <2>1. entry[e] \in FeedEntry
    BY <1>0, EntryIs
  <2>2. entry'[e].phase = entry[e].phase
    BY <1>3, <2>1 DEF AgePasses, FeedEntry
  <2> QED BY <2>2
<1>4. CASE UNCHANGED entry
  BY SMTT(40), <1>4
<1> QED
  BY <1>1, <1>2, <1>3, <1>4
  DEF FeedNext, feedVars, StampMoves, ListSince, ListGone, ListRecent, PollerRestarts, Ack,
      HistoryOpens, HistoryPage

LEMMA AckedGrows == ASSUME FeedInv, [FeedNext]_feedVars PROVE acked' >= acked
<1>0. acked \in Nat
  BY DEF FeedInv, FeedTypes
<1>1. CASE Ack
  <2>1. PICK e \in seen : acked' = IF entry[e].seq > acked THEN entry[e].seq ELSE acked
    BY <1>1 DEF Ack
  <2>2. entry[e].seq \in Nat
    BY <2>1, EntryIs DEF FeedInv, FeedTypes
  <2> QED BY <1>0, <2>1, <2>2
<1>2. CASE acked' = acked
  BY <1>0, <1>2
<1> QED
  BY <1>1, <1>2
  DEF FeedNext, feedVars, LogActivity, logActivityExec, Commit, StampMoves, ListSince, ListGone,
      ListRecent, PollerRestarts, AgePasses, PruneActivityLogs, HistoryOpens, HistoryPage

\* The readers of the activity log miss nothing but what the excuses name, what
\* is acknowledged stays so, and no page tears a message from its answer, for any rows,
\* stamps and page sizes (activity.go, mail_summary.go, retention.go,
\* postgres_store.go).
THEOREM FeedStaysComplete == FeedSpec => FeedIsComplete
<1>1. FeedInv /\ [FeedNext]_feedVars =>
         /\ \A e \in Entries :
               (entry[e].phase = "visible" /\ entry'[e].phase = "pruned" /\ e \notin seen)
                  => entry[e].age = "hard" \/ e \in Excused
         /\ acked' >= acked
  BY PrunedIsAcked, AckedGrows
<1> QED
  BY <1>1, FeedStarts, FeedStep, FeedHolds, PTL DEF FeedSpec, FeedIsComplete, PruneIsAcked, AckGrows
=============================================================================
