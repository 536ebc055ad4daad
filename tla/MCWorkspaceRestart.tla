------------------------- MODULE MCWorkspaceRestart -------------------------
(***************************************************************************)
(* A workspace's restarts and its channels, for TLC: a behaviour is that   *)
(* of one crowd of goroutines that restart it (WorkspaceRestart), the      *)
(* others never ask, or of its messages from and to a chat                 *)
(* (ChannelMessages).  They share no state; the one that is not chosen     *)
(* rests.  Automatic restarts are followed without faults, the other       *)
(* crowds with them.  Goroutines of one kind are interchangeable.          *)
(***************************************************************************)
EXTENDS WorkspaceRestart, ChannelMessages, TLC

CONSTANTS Crowds, ChatScenes

ASSUME CrowdsAssumption == Crowds \subseteq SUBSET Callers

VARIABLES crowd, chatScene

crowdVars == <<vars, chatVars, crowd, chatScene>>

\* Of the two channel rows the first is polled or changed.  The second is
\* there to be mistaken for it.
FirstChannel == CHOOSE c \in ChatChannels : TRUE
FirstEvent == CHOOSE e \in ChatEvents : TRUE

CrowdInit ==
    /\ chatScene \in {"none"} \union ChatScenes /\ crowd \in Crowds
    /\ chatScene # "none" => crowd = CHOOSE c \in Crowds : TRUE
    /\ Init /\ ChatInit
    /\ polled \in {Nil, FirstChannel} /\ (polled # Nil <=> chatScene = "poll")
    /\ chatScene = "none" => platform = "lark"
    /\ \A c \in ChatChannels :
          /\ row[c].open
          /\ row[c].chats = {"here"} \/ (c = polled /\ row[c].chats = {})

CrowdStep ==
    \/ \E c \in crowd : Asks(c) \/ Goes(c)
    \/ \E c \in crowd : crowd \cap Autos = {} /\ FaultStep(c)
    \/ Register
    \/ Heartbeat
    \/ holdQueueAfterRestart
    \/ Tick

\* The second event is a plain one, and comes after the first.
ChatCast ==
    /\ \A e \in ChatEvents \ {FirstEvent} :
          /\ event'[e].kind \in {"none", "text", "command"}
          /\ event'[e].chat = "here" /\ event'[e].slug = Nil
          /\ event[FirstEvent].kind = "none" => event'[e].kind = "none"
    /\ polled # Nil => \A e \in ChatEvents : event'[e].slug = Nil
    /\ \A c \in ChatChannels \ {FirstChannel} : row'[c] = row[c]

CrowdNext ==
    \/ chatScene = "none" /\ CrowdStep /\ UNCHANGED <<chatVars, crowd, chatScene>>
    \/ chatScene = "poll" /\ PollNext /\ ChatCast /\ UNCHANGED <<vars, crowd, chatScene>>
    \/ chatScene = "hook" /\ HookNext /\ ChatCast /\ UNCHANGED <<vars, crowd, chatScene>>
    \/ chatScene = "post" /\ PostNext /\ ChatCast /\ UNCHANGED <<vars, crowd, chatScene>>
    \/ chatScene = "split" /\ SplitNext /\ UNCHANGED <<vars, crowd, chatScene>>

CrowdSpec == CrowdInit /\ [][CrowdNext]_crowdVars

\* The goroutines of the crowd go on.
FairCrowdSpec == CrowdSpec /\ Fairness

Symmetry == Permutations(Mutations) \cup Permutations(Writers) \cup Permutations(Autos)
=============================================================================
