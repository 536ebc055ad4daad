--------------------------- MODULE ChannelPollers ---------------------------
(***************************************************************************)
(* The channel manager (channels/manager.go): one polling goroutine for    *)
(* each enabled row of workspace_channels.  Every API call that changes a  *)
(* row reloads the manager; chat discovery pauses pollers and reloads to   *)
(* resume them.  Reload reads the rows before it takes the mutex.          *)
(***************************************************************************)
EXTENDS Naturals

CONSTANTS
    Channels,          \* rows of workspace_channels
    ChannelCalls,      \* API calls that may be in flight at once
    MaxChannelFaults   \* bound on failed queries and pollers that end

ASSUME ChannelsAssumption == MaxChannelFaults \in Nat

VARIABLES
    enabled,     \* rows with enabled = true (a deleted row has none)
    pollers,     \* keys of the manager's map of cancel functions
    running,     \* goroutines of each channel whose context is not cancelled
    ccall,       \* the API calls
    outdated,    \* the last reload failed, read not all rows, or was overtaken
    channelFaults

channelVars == <<enabled, pollers, running, ccall, outdated, channelFaults>>

NoChannelCall == [pc |-> "none", read |-> {}, behind |-> FALSE]

ChannelsTypeOK ==
    /\ enabled \subseteq Channels /\ pollers \subseteq Channels
    /\ running \in [Channels -> 0..2]
    /\ ccall \in [ChannelCalls ->
                    [pc : {"none", "reload", "swap", "pause", "discover"},
                     read : SUBSET Channels, behind : BOOLEAN]]
    /\ outdated \in BOOLEAN
    /\ channelFaults \in 0..MaxChannelFaults

ChannelsInit ==
    /\ enabled = {} /\ pollers = {}
    /\ running = [h \in Channels |-> 0]
    /\ ccall = [c \in ChannelCalls |-> NoChannelCall]
    /\ outdated = FALSE /\ channelFaults = 0

ChannelFault == channelFaults < MaxChannelFaults /\ channelFaults' = channelFaults + 1

-----------------------------------------------------------------------------
\* Create, Update or Delete: the statement on one row, then Reload.
ChannelWrites(c, h) ==
    /\ ccall[c].pc = "none"
    /\ enabled' \in {enabled \union {h}, enabled \ {h}}
    /\ ccall' = [ccall EXCEPT ![c].pc = "reload"]
    /\ UNCHANGED <<pollers, running, outdated, channelFaults>>

\* One call read the rows, or tried to: what the others hold may be older.
Overtakes(c, mine) ==
    ccall' = [d \in ChannelCalls |->
                IF d = c THEN mine
                ELSE [ccall[d] EXCEPT !.behind = @ \/ ccall[d].pc = "swap"]]

\* Reload's query, without the mutex.
ReloadReads(c) ==
    /\ ccall[c].pc = "reload"
    /\ Overtakes(c, [pc |-> "swap", read |-> enabled, behind |-> FALSE])
    /\ UNCHANGED <<enabled, pollers, running, outdated, channelFaults>>

\* The query fails and nothing is reloaded, or the read of some rows fails (or
\* they do not decrypt) and those that were read are all there is.
ReloadFails(c) ==
    /\ ccall[c].pc = "reload" /\ ChannelFault
    /\ \/ Overtakes(c, NoChannelCall) /\ outdated' = TRUE
       \/ /\ \E some \in SUBSET enabled :
                Overtakes(c, [pc |-> "swap", read |-> some, behind |-> TRUE])
          /\ UNCHANGED outdated
    /\ UNCHANGED <<enabled, pollers, running>>

SwapWithoutCancel(c) ==
    LET desired == ccall[c].read IN
    /\ ccall[c].pc = "swap" /\ pollers' = desired
    /\ running' = [h \in Channels |-> IF h \in desired \ pollers THEN running[h] + 1
                                      ELSE running[h]]
    /\ outdated' = ccall[c].behind /\ UNCHANGED <<enabled, channelFaults>>
    /\ ccall' = [ccall EXCEPT ![c] = NoChannelCall]

\* Reload under the mutex: pollers of rows it did not read are cancelled, rows
\* without a poller get one.
ReloadSwaps(c) ==
    LET desired == ccall[c].read IN
    /\ ccall[c].pc = "swap"
    /\ pollers' = desired
    /\ running' = [h \in Channels |->
                     CASE h \in pollers \ desired -> 0
                       [] h \in desired \ pollers -> running[h] + 1
                       [] OTHER -> running[h]]
    /\ outdated' = ccall[c].behind
    /\ ccall' = [ccall EXCEPT ![c] = NoChannelCall]
    /\ UNCHANGED <<enabled, channelFaults>>

\* Discover: PausePollersForToken reads the rows of the workspace.
DiscoverArrives(c) ==
    /\ ccall[c].pc = "none"
    /\ ccall' = [ccall EXCEPT ![c] = [pc |-> "pause", read |-> enabled, behind |-> FALSE]]
    /\ UNCHANGED <<enabled, pollers, running, outdated, channelFaults>>

\* PausePollersForToken under the mutex: the pollers with the token (some of
\* the rows it read) are cancelled.
PausePollersForToken(c) ==
    /\ ccall[c].pc = "pause"
    /\ \E token \in SUBSET ccall[c].read :
           LET paused == token \intersect pollers IN
           /\ pollers' = pollers \ paused
           /\ running' = [h \in Channels |-> IF h \in paused THEN 0 ELSE running[h]]
           /\ ccall' = [ccall EXCEPT ![c] = [pc |-> "discover", read |-> paused,
                                             behind |-> FALSE]]
    /\ UNCHANGED <<enabled, outdated, channelFaults>>

\* The discovery answered or failed; what was paused is resumed by a reload
\* (the deferred resumeFn).
DiscoverEnds(c) ==
    /\ ccall[c].pc = "discover"
    /\ ccall' = [ccall EXCEPT ![c] = IF ccall[c].read = {} THEN NoChannelCall
                                     ELSE [NoChannelCall EXCEPT !.pc = "reload"]]
    /\ UNCHANGED <<enabled, pollers, running, outdated, channelFaults>>

\* StartPolling returns or panics: its key stays in the map.
PollerEnds(h) ==
    /\ running[h] > 0 /\ ChannelFault
    /\ running' = [running EXCEPT ![h] = @ - 1]
    /\ UNCHANGED <<enabled, pollers, ccall, outdated>>

\* The server restarts: no goroutine is left, Start reloads.
ChannelsRestart ==
    /\ ChannelFault
    /\ pollers' = enabled /\ running' = [h \in Channels |-> IF h \in enabled THEN 1 ELSE 0]
    /\ ccall' = [c \in ChannelCalls |-> NoChannelCall]
    /\ outdated' = FALSE
    /\ UNCHANGED enabled

ChannelCallStep(c) ==
    \/ ReloadReads(c) \/ ReloadFails(c) \/ ReloadSwaps(c)
    \/ PausePollersForToken(c) \/ DiscoverEnds(c)

ChannelsNext ==
    \/ \E c \in ChannelCalls : \/ \E h \in Channels : ChannelWrites(c, h)
                               \/ DiscoverArrives(c) \/ ChannelCallStep(c)
    \/ \E h \in Channels : PollerEnds(h)
    \/ ChannelsRestart

ChannelsSpec == ChannelsInit /\ [][ChannelsNext]_channelVars

-----------------------------------------------------------------------------
\* Every goroutine that polls has its cancel function in the map, and no channel
\* has two, so none outlives its row and none competes with another for the
\* bot's updates (Reload, PausePollersForToken).
OnePollerEach == \A h \in Channels : running[h] <= (IF h \in pollers THEN 1 ELSE 0)

\* When no call is in flight the pollers are those of the enabled rows, however
\* writes and discoveries overlapped, unless the last reload was overtaken between
\* its query and the mutex, or a read failed.
QuietIsRight ==
    ((\A c \in ChannelCalls : ccall[c].pc = "none") /\ ~outdated)
        => pollers = enabled

\* manager.go: pollers are paused "to avoid Telegram's 'only one getUpdates at a
\* time'": no paused channel polls during the discovery.  Refuted: the reload of
\* another call starts it again.
DiscoverAlone ==
    \A c \in ChannelCalls : ccall[c].pc = "discover" => ccall[c].read \intersect pollers = {}

\* The channel manager (Reload, discovery, the pollers) polls each channel once
\* at most, and is quiet only where it should be.
PollersMatchChannels ==
    /\ ChannelsTypeOK
    /\ OnePollerEach
    /\ QuietIsRight

=============================================================================
