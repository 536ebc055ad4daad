---------------------------- MODULE MCLifecycle ----------------------------
(***************************************************************************)
(* The lifecycle of one workspace under fairness, for TLC: a behaviour is  *)
(* that of its container (StartDelete), of its machines (CPInstances), by  *)
(* what the deployment is configured for, or of its status row             *)
(* (WorkspaceStatus).  The machines are those of a workspace that is       *)
(* deleted, or of one that moves to another cloud ("moves").  Of the        *)
(* credentials (Registration) it is the registers and provisions that      *)
(* overlap and do not fail ("tokens"), those one at a time that may fail,  *)
(* of a root agent too ("faults"), or the browser's sessions.  The modules *)
(* share no state; those not chosen rest in their initial states.  The     *)
(* owner parks a container or an external workspace; a native one differs  *)
(* in its health rules only.                                               *)
(***************************************************************************)
EXTENDS StartDelete, CPInstances, WorkspaceStatus, Registration

VARIABLE view

lifecycleVars == <<startVars, cpVars, statusVars, regVars, view>>
otherVars == <<startVars, cpVars, statusVars, view>>

LifecycleInit ==
    /\ view \in {"container", "machines", "moves", "row", "tokens", "faults", "sessions"}
    /\ RegInit
    /\ view \notin {"tokens", "faults"} => regMode = "docker"
    /\ view # "faults" => regKind = "workspace"
    /\ view # "sessions" => ~member
    /\ StartDeleteInit /\ CPInit /\ StatusInit
    /\ view # "row" => runtime = "container"
    /\ view # "moves" => switch.kind = "switch"

LifecycleNext ==
    \/ view = "container" /\ StartDeleteNext /\ UNCHANGED <<cpVars, statusVars, regVars, view>>
    \/ view = "machines" /\ CPNext /\ UNCHANGED <<startVars, statusVars, moveVars, regVars, view>>
    \/ view = "moves" /\ CPNext /\ UNCHANGED <<startVars, statusVars, cpDel, regVars, view>>
    \/ view = "row" /\ StatusNext /\ UNCHANGED <<startVars, cpVars, regVars, view>>
       /\ (runtime = "native" => parking' = "no")
    \/ view = "tokens" /\ TokenStep /\ regFaults' = 0 /\ UNCHANGED <<otherVars, sessionVars>>
    \/ view = "faults" /\ TokenStep /\ UNCHANGED <<otherVars, sessionVars>>
       /\ Cardinality({r \in RegCalls : reg'[r].pc # "idle"}) <= 1
    \/ view = "sessions" /\ SessionStep /\ UNCHANGED otherVars

\* The fairness of the modules, each for the behaviours that are its own.
LifecycleFairness ==
    /\ \A s \in Starts : /\ WF_startVars(view = "container" /\ StartStep(s))
                         /\ WF_startVars(view = "container" /\ LateCreate(s))
    /\ WF_startVars(view = "container" /\ DeleteStep)
    /\ WF_startVars(view = "container" /\ SweepStep)
    /\ \A b \in Boots : WF_cpVars(view = "machines" /\ BootStep(b))
    /\ WF_cpVars(view = "machines" /\ CPDeleteStep)
    /\ WF_cpVars(view = "machines" /\ CPSweepStep)
    /\ \A b \in Beats : WF_statusVars(view = "row" /\ BeatStep(b))
    /\ WF_statusVars(view = "row" /\ StartLivenessMonitor)
    /\ WF_statusVars(view = "row" /\ DetectStep)
    /\ WF_statusVars(view = "row" /\ (PauseMarks \/ HibernateStops \/ HibernateMarks))
    /\ WF_statusVars(view = "row" /\ RestartMarksRow)
    /\ WF_statusVars(view = "row" /\ (BootCompletes \/ BootFails))
    /\ WF_statusVars(view = "row" /\ ~up /\ RowGoesQuiet)

LifecycleSpec ==
    LifecycleInit /\ [][LifecycleNext]_lifecycleVars /\ LifecycleFairness

=============================================================================
