----------------------------- MODULE MCMessages -----------------------------
(***************************************************************************)
(* What reaches agents and people, for TLC: a behaviour is that of one     *)
(* workspace's wake ledger (WakeIntents), of one request to a person or an *)
(* agent (HumanRequests), of the approvals of one gated action             *)
(* (Approvals), or of the files of one workspace (WorkspaceFiles): any two *)
(* calls ("files"), the restarts that three edits ask for ("edits"), or    *)
(* the calls that need the shared secret ("secret"), which get lost and    *)
(* fail on a machine only.  The modules share no state; those that are not *)
(* chosen rest in their initial states.                                    *)
(***************************************************************************)
EXTENDS WakeIntents, HumanRequests, Approvals, WorkspaceFiles

VARIABLE topic

messageVars == <<wakeVars, reqVars, grantVars, filesVars, topic>>

MessagesInit ==
    /\ topic \in {"wake", "request", "approval", "files", "edits", "secret"}
    /\ topic \notin {"files", "secret"} => place = "docker"
    /\ topic = "secret" => place \in {"docker", "machine"}
    /\ WakeInit /\ RequestsInit /\ ApprovalsInit /\ FilesInit
    /\ topic # "request" => kind = "task" /\ ~toAgent /\ ~idle
    /\ topic # "approval" => gated = "destructive"

\* Two calls in the "files" views, three in the "edits" views.
FilesAreCalled ==
    \/ topic = "files" /\ calls < 2
       /\ FileCallStarts({"read", "write", "replace", "delete"},
                         IF place = "docker" THEN Roots ELSE {"/configs"}, SUBSET FileSet)
    \/ topic = "files" /\ FileStep
    \/ topic = "edits" /\ fileFaults = 0 /\ FileCallStarts({"write"}, {"/configs"}, {{Note}})
    \/ topic = "edits" /\ FileStep /\ fileFaults' = 0
    \/ topic = "edits" /\ ClockTicks

SecretIsShared ==
    \/ topic = "secret" /\ place = "docker" /\ SecretCallStarts({"mint", "beat"})
    \/ topic = "secret" /\ place = "machine" /\ minted = 0 /\ SecretCallStarts({"forward"})
    \/ topic = "secret" /\ place = "machine" /\ SecretCallStarts({"beat"})
    \/ topic = "secret" /\ SecretStep /\ (place = "docker" => fileFaults' = 0)
    \/ topic = "secret" /\ ClockTicks

MessagesNext ==
    \/ topic = "wake" /\ WakeNext /\ UNCHANGED <<reqVars, grantVars, filesVars, topic>>
    \/ topic = "request" /\ RequestsNext /\ UNCHANGED <<wakeVars, grantVars, filesVars, topic>>
    \/ topic = "approval" /\ ApprovalsNext /\ UNCHANGED <<wakeVars, reqVars, filesVars, topic>>
    \/ FilesAreCalled /\ UNCHANGED <<wakeVars, reqVars, grantVars, topic>>
    \/ SecretIsShared /\ UNCHANGED <<wakeVars, reqVars, grantVars, topic>>

\* The fairness of the modules, each for the behaviours that are its own.
MessagesFairness ==
    /\ SF_wakeVars(topic = "wake" /\ IntentsAge)
    /\ WF_wakeVars(topic = "wake" /\ RedriveSelects)
    /\ WF_wakeVars(topic = "wake" /\ RedriveStep)
    /\ WF_wakeVars(topic = "wake" /\ GreetStep)
    /\ WF_wakeVars(topic = "wake" /\ DrainGreets)
    /\ WF_wakeVars(topic = "wake" /\ deliverFirstBootGreeting("drain"))
    /\ \A c \in ReqCalls : WF_reqVars(topic = "request" /\ ReqCallStep(c))
    /\ WF_reqVars(topic = "request" /\ NudgeStep)
    /\ WF_reqVars(topic = "request" /\ RequestAges)
    /\ WF_reqVars(topic = "request" /\ HourTurns)
    /\ WF_reqVars(topic = "request" /\ StampAges)

MessagesSpec == MessagesInit /\ [][MessagesNext]_messageVars /\ MessagesFairness

=============================================================================
