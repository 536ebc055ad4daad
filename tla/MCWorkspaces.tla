---------------------------- MODULE MCWorkspaces ----------------------------
(***************************************************************************)
(* Workspaces under their owner's and their agent's hands, for TLC: a      *)
(* behaviour is that of a concierge's readiness gate (ConciergeGate), of   *)
(* the watchdogs over a busy agent (Watchdogs) or of a small forest of     *)
(* workspaces (WorkspaceTree).  The modules share no state; the ones that  *)
(* are not chosen rest in an initial state.                                *)
(***************************************************************************)
EXTENDS ConciergeGate, Watchdogs, WorkspaceTree

VARIABLES subject, crowd

workspacesVars == <<gateVars, watchVars, treeVars, subject, crowd>>

\* The forests a behaviour begins with: two orgs, with a shallow or a deeper
\* one, or a single deep org.  d may be free for a create.
TwoOrgs == [r |-> NoNode, a |-> "r", b |-> "r", c |-> NoNode, d |-> NoNode]
Deeper == [TwoOrgs EXCEPT !.b = "a"]
DeepOrg == [TwoOrgs EXCEPT !.c = "a", !.d = "b"]

\* Who is about, and where: two moves; a move, a delete and a create; an org
\* token that is minted during a move or a delete.  One statement fails where
\* a move meets a token.
Crowds ==
    ({{"m1", "m2"}} \X {TwoOrgs, DeepOrg}) \union ({{"m1", "delete", "create"}} \X {TwoOrgs})
    \union ({{"m1", "k"}, {"k", "delete"}} \X {Deeper})

WorkspacesInit ==
    /\ \/ /\ subject \in {"concierge", "busy"} /\ crowd = {}
          /\ parentOf = [n \in Nodes |-> NoNode]
          /\ presence = [n \in Nodes |-> "absent"]
       \/ /\ subject = "tree"
          /\ \E c \in Crowds : crowd = c[1] /\ parentOf = c[2]
          /\ presence = [n \in Nodes |->
                            IF n = "d" /\ parentOf["d"] = NoNode THEN "absent" ELSE "live"]
    /\ TreeInit /\ GateInit /\ WatchInit

\* The second move starts after the first: which is which does not matter.
TreeMoves ==
    \/ \E m \in crowd \cap Movers :
          /\ m # "m1" => mover["m1"].pc # "idle"
          /\ MoverStep(m)
          /\ treeFaults' # treeFaults => "k" \in crowd
    \/ "delete" \in crowd /\ DeleteStep
    \/ "create" \in crowd /\ CreateStep
    \/ \E k \in crowd \cap OrgTokens : TokenStep(k)

WorkspacesNext ==
    \/ subject = "concierge" /\ GateNext /\ UNCHANGED <<watchVars, treeVars, subject, crowd>>
    \/ subject = "busy" /\ WatchNext /\ UNCHANGED <<gateVars, treeVars, subject, crowd>>
    \/ subject = "tree" /\ TreeMoves /\ UNCHANGED <<gateVars, watchVars, subject, crowd>>

\* The fairness of the modules, each for the behaviours that are its own.
WorkspacesFairness ==
    /\ \A b \in GateBeats : WF_gateVars(subject = "concierge" /\ GateBeatStep(b))
    /\ WF_gateVars(subject = "concierge" /\ ClockRuns)
    /\ WF_gateVars(subject = "concierge" /\ gate = "hibernating" /\ GateHibernates)
    /\ WF_watchVars(subject = "busy" /\ BeatReportsTasks)
    /\ WF_watchVars(subject = "busy" /\ QuietGrows)
    /\ WF_watchVars(subject = "busy" /\ StallClocks)
    /\ WF_watchVars(subject = "busy" /\ HourPasses)
    /\ SF_watchVars(subject = "busy" /\ StallSelects)
    /\ WF_watchVars(subject = "busy" /\ DogStep)

WorkspacesSpec ==
    WorkspacesInit /\ [][WorkspacesNext]_workspacesVars /\ WorkspacesFairness

=============================================================================
