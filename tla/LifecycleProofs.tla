-------------------------- MODULE LifecycleProofs --------------------------
(***************************************************************************)
(* Proofs about the lifecycle of one workspace: its container (StartDelete) *)
(* for any number of starts and any faults, its credentials (Registration) *)
(* for any number of machines, registers and tokens, and its instances at  *)
(* the control plane (CPInstances) for any number of provisions and faults. *)
(*                                                                         *)
(* NoOrphanLeft: a start is in Provisioner.inflight from its first Docker  *)
(* call to its last, so the delete that marked the row cancels every start *)
(* that has passed its first removed-check, and every other start meets a  *)
(* removed row there.  Whatever is left in Docker once the delete has torn *)
(* down therefore belongs to a start that is on its way to discard it.     *)
(*                                                                         *)
(* AccessIsCurrent: the gate keeps one provision under way, so the token the *)
(* last one wrote, started its agent with or answered a register with is   *)
(* live until somebody else revokes, and everybody who revokes replaces the *)
(* agent.  A session was let in by a verdict that was true when it was     *)
(* asked for and is not older than its time to live.                       *)
(*                                                                         *)
(* MachinesStayAccounted: the id and the cloud on file are replaced only    *)
(* over an instance that was stopped, because nobody else records one while *)
(* a provision or a move that met nobody is under way.                     *)
(***************************************************************************)
EXTENDS StartDelete, Registration, CPInstances, TLAPS

-----------------------------------------------------------------------------
(* StartDelete.                                                            *)

\* Without a failed call, and before a dead row was brought back.
Undisturbed == startFaults = 0 /\ ~revived

Tracked == {"volume", "image", "clear", "check1", "ensure", "create", "boot", "check2",
            "return", "unwind", "discardBox", "discardVolume"}

\* The start is on its way to discardRemovedWorkspace, once the row is dead.
Discarding == {"volume", "image", "clear", "check1", "ensure", "create", "boot", "check2",
               "unwind", "discardBox"}

\* A start that passed its first check while the row was alive.
PastCheck == {"ensure", "create", "boot", "unwind"}

\* Provisioner.inflight holds the starts between trackStart and its release.
InflightIsTracked == \A s \in Starts : s \in inflight <=> startPC[s] \in Tracked

\* The row is dead exactly from the delete's UPDATE on, nothing is cancelled
\* before it, and no create is left with dockerd.
DeadSinceMark ==
    /\ row \in Dead <=> delPC \notin {"read", "mark"}
    /\ cancelled # {} => row \in Dead
    /\ late = {} /\ delPC # "stopFailed"

\* After the second CancelInflightStart no start past its check is uncancelled.
AllCancelled ==
    delPC \in {"stop", "volume", "purge", "done"} =>
        \A s \in Starts : startPC[s] \in PastCheck => s \in cancelled

\* What is left in Docker after the delete's teardown is some start's to discard.
LeftIsDiscarded ==
    /\ delPC \in {"volume", "purge", "done"} /\ box # NoStart =>
          \E s \in Starts : startPC[s] \in Discarding
    /\ delPC \in {"purge", "done"} /\ volume # "none" =>
          \E s \in Starts : startPC[s] \in Discarding \cup {"discardVolume"}

\* Only dead workspaces are torn down.
TeardownWhenDead ==
    /\ sweepPC \in {"stop", "volume"} => row \in Dead
    /\ \A s \in Starts : startPC[s] \in {"discardBox", "discardVolume"} => row \in Dead

DeleteInv ==
    /\ InflightIsTracked
    /\ Undisturbed => DeadSinceMark /\ AllCancelled /\ LeftIsDiscarded /\ TeardownWhenDead

\* The token the stale-token pass will revoke is the one it judged.
JudgedInv == sweepPC = "revoke" /\ aged /\ token # NoStart => token = judged

-----------------------------------------------------------------------------
(* The start's own steps.                                                  *)

LEMMA StartTypes ==
    ASSUME StartDeleteTypeOK, NEW s \in Starts, StartStep(s)
    PROVE  StartDeleteTypeOK'
<1> USE FaultsAssumption, StartsAssumption
    DEF StartDeleteTypeOK, StartGoto, StartFault, world, Docker, Tracking, Dead, Rows,
        StartPCs, ContainerRemove, RemoveVolume, VolumeCreate, MakeBox
<1>1. CASE RestartReads(s)
  BY <1>1 DEF RestartReads
<1>2. CASE markProvisioningForRestart(s)
  BY <1>2 DEF markProvisioningForRestart
<1>3. CASE RestartStops(s)
  BY <1>3 DEF RestartStops
<1>4. CASE PrepareFails(s)
  BY <1>4 DEF PrepareFails
<1>5. CASE mintWorkspaceSecrets(s)
  BY <1>5 DEF mintWorkspaceSecrets
<1>6. CASE trackStart(s)
  BY <1>6 DEF trackStart
<1>7. CASE \E at \in {"volume", "image", "ensure", "create"} : CallFails(s, at)
  BY <1>7 DEF CallFails
<1>8. CASE CreateConfigVolume(s)
  BY <1>8 DEF CreateConfigVolume
<1>9. CASE GetImage(s)
  BY <1>9 DEF GetImage
<1>10. CASE ClearStale(s)
  BY ZenonT(60), <1>10 DEF ClearStale
<1>11. CASE workspaceRemoved(s, "check1", "ensure")
  BY <1>11 DEF workspaceRemoved
<1>12. CASE EnsureVolume(s)
  BY <1>12 DEF EnsureVolume
<1>13. CASE ContainerCreate(s)
  <2>1. CASE MakeBox(s)
    BY <1>13, <2>1 DEF ContainerCreate
  <2>2. CASE UNCHANGED Docker
    BY <1>13, <2>2 DEF ContainerCreate
  <2> QED
    BY ONLY <1>13, <2>1, <2>2 DEF ContainerCreate
<1>14. CASE AbandonedCreate(s)
  <2>1. CASE MakeBox(s) /\ UNCHANGED <<late, startFaults>>
    BY <1>14, <2>1 DEF AbandonedCreate
  <2>2. CASE late' = late \cup {s} /\ StartFault /\ UNCHANGED Docker
    BY <1>14, <2>2 DEF AbandonedCreate
  <2> QED
    BY ONLY <1>14, <2>1, <2>2 DEF AbandonedCreate
<1>15. CASE ContainerStart(s)
  BY <1>15 DEF ContainerStart
<1>16. CASE ContainerStartFails(s)
  <2>1. CASE s \in cancelled \/ box # s
    BY <1>16, <2>1 DEF ContainerStartFails
  <2>2. CASE ~(s \in cancelled \/ box # s)
    <3>1. /\ StartGoto(s, "boot", "unwind") /\ StartFault
          /\ boxUp' \in BOOLEAN /\ box' = NoStart
          /\ UNCHANGED <<world, volume, Tracking>>
      BY ONLY <1>16, <2>2 DEF ContainerStartFails, ContainerRemove
    <3> QED
      BY ONLY StartDeleteTypeOK, FaultsAssumption, s \in Starts, <3>1
  <2> QED
    BY ONLY <2>1, <2>2
<1>17. CASE workspaceRemoved(s, "check2", "return")
  BY <1>17 DEF workspaceRemoved
<1>18. CASE Unwind(s)
  BY <1>18 DEF Unwind
<1>19. CASE DiscardBox(s)
  <2>1. CASE ContainerRemove /\ UNCHANGED startFaults
    BY <1>19, <2>1 DEF DiscardBox
  <2>2. CASE StartFault /\ UNCHANGED <<box, boxUp>>
    BY <1>19, <2>2 DEF DiscardBox
  <2> QED
    BY ONLY <1>19, <2>1, <2>2 DEF DiscardBox
<1>20. CASE DiscardVolume(s)
  BY <1>20 DEF DiscardVolume
<1>21. CASE StartReturns(s)
  BY <1>21 DEF StartReturns
<1>22. CASE markProvisionFailed(s)
  BY <1>22 DEF markProvisionFailed
<1> QED
  BY ONLY StartStep(s),
          <1>1, <1>2, <1>3, <1>4, <1>5, <1>6, <1>7, <1>8, <1>9, <1>10,
          <1>11, <1>12, <1>13, <1>14, <1>15, <1>16, <1>17, <1>18,
          <1>19, <1>20, <1>21, <1>22 DEF StartStep

\* A fault is counted for ever, and so is a row that was brought back.
LEMMA StartCalm ==
    ASSUME StartDeleteTypeOK, NEW s \in Starts, StartStep(s), Undisturbed'
    PROVE  Undisturbed
<1> USE FaultsAssumption DEF StartDeleteTypeOK, StartGoto, StartFault, world, Undisturbed
<1>1. CASE RestartReads(s)
  BY <1>1 DEF RestartReads
<1>2. CASE markProvisioningForRestart(s)
  BY <1>2 DEF markProvisioningForRestart
<1>3. CASE RestartStops(s)
  BY <1>3 DEF RestartStops
<1>4. CASE PrepareFails(s)
  BY <1>4 DEF PrepareFails
<1>5. CASE mintWorkspaceSecrets(s)
  BY <1>5 DEF mintWorkspaceSecrets
<1>6. CASE trackStart(s)
  BY <1>6 DEF trackStart
<1>7. CASE \E at \in {"volume", "image", "ensure", "create"} : CallFails(s, at)
  BY <1>7 DEF CallFails
<1>8. CASE CreateConfigVolume(s)
  BY <1>8 DEF CreateConfigVolume
<1>9. CASE GetImage(s)
  BY <1>9 DEF GetImage
<1>10. CASE ClearStale(s)
  BY <1>10 DEF ClearStale
<1>11. CASE workspaceRemoved(s, "check1", "ensure")
  BY <1>11 DEF workspaceRemoved
<1>12. CASE EnsureVolume(s)
  BY <1>12 DEF EnsureVolume
<1>13. CASE ContainerCreate(s)
  BY <1>13 DEF ContainerCreate
<1>14. CASE AbandonedCreate(s)
  BY <1>14 DEF AbandonedCreate
<1>15. CASE ContainerStart(s)
  BY <1>15 DEF ContainerStart
<1>16. CASE ContainerStartFails(s)
  BY <1>16 DEF ContainerStartFails
<1>17. CASE workspaceRemoved(s, "check2", "return")
  BY <1>17 DEF workspaceRemoved
<1>18. CASE Unwind(s)
  BY <1>18 DEF Unwind
<1>19. CASE DiscardBox(s)
  BY <1>19 DEF DiscardBox
<1>20. CASE DiscardVolume(s)
  BY <1>20 DEF DiscardVolume
<1>21. CASE StartReturns(s)
  BY <1>21 DEF StartReturns
<1>22. CASE markProvisionFailed(s)
  BY <1>22 DEF markProvisionFailed
<1> QED
  BY ONLY StartStep(s),
          <1>1, <1>2, <1>3, <1>4, <1>5, <1>6, <1>7, <1>8, <1>9, <1>10,
          <1>11, <1>12, <1>13, <1>14, <1>15, <1>16, <1>17, <1>18,
          <1>19, <1>20, <1>21, <1>22 DEF StartStep

LEMMA StartTracked ==
    ASSUME StartDeleteTypeOK, InflightIsTracked, NEW s \in Starts, StartStep(s)
    PROVE  InflightIsTracked'
<1>0. startPC \in [Starts -> StartPCs] /\ inflight \subseteq Starts
  BY DEF StartDeleteTypeOK
<1> USE <1>0 DEF InflightIsTracked, StartGoto, world, Docker, Tracking, Tracked
<1>1. CASE RestartReads(s)
  BY <1>1 DEF RestartReads
<1>2. CASE markProvisioningForRestart(s)
  BY <1>2 DEF markProvisioningForRestart
<1>3. CASE RestartStops(s)
  BY <1>3 DEF RestartStops
<1>4. CASE PrepareFails(s)
  BY <1>4 DEF PrepareFails
<1>5. CASE mintWorkspaceSecrets(s)
  BY <1>5 DEF mintWorkspaceSecrets
<1>6. CASE trackStart(s)
  BY <1>6 DEF trackStart
<1>7. CASE \E at \in {"volume", "image", "ensure", "create"} : CallFails(s, at)
  BY <1>7 DEF CallFails
<1>8. CASE CreateConfigVolume(s)
  BY <1>8 DEF CreateConfigVolume
<1>9. CASE GetImage(s)
  BY <1>9 DEF GetImage
<1>10. CASE ClearStale(s)
  BY <1>10 DEF ClearStale
<1>11. CASE workspaceRemoved(s, "check1", "ensure")
  BY <1>11 DEF workspaceRemoved
<1>12. CASE EnsureVolume(s)
  BY <1>12 DEF EnsureVolume
<1>13. CASE ContainerCreate(s)
  BY <1>13 DEF ContainerCreate
<1>14. CASE AbandonedCreate(s)
  BY <1>14 DEF AbandonedCreate
<1>15. CASE ContainerStart(s)
  BY <1>15 DEF ContainerStart
<1>16. CASE ContainerStartFails(s)
  BY <1>16 DEF ContainerStartFails
<1>17. CASE workspaceRemoved(s, "check2", "return")
  BY <1>17 DEF workspaceRemoved
<1>18. CASE Unwind(s)
  BY <1>18 DEF Unwind
<1>19. CASE DiscardBox(s)
  BY <1>19 DEF DiscardBox
<1>20. CASE DiscardVolume(s)
  BY <1>20 DEF DiscardVolume
<1>21. CASE StartReturns(s)
  BY <1>21 DEF StartReturns
<1>22. CASE markProvisionFailed(s)
  BY <1>22 DEF markProvisionFailed
<1> QED
  BY ONLY StartStep(s),
          <1>1, <1>2, <1>3, <1>4, <1>5, <1>6, <1>7, <1>8, <1>9, <1>10,
          <1>11, <1>12, <1>13, <1>14, <1>15, <1>16, <1>17, <1>18,
          <1>19, <1>20, <1>21, <1>22 DEF StartStep

\* With no fault and no revival: whatever the start leaves in Docker after the
\* delete's teardown it, or another start, is on its way to discard.
LEMMA StartDiscards ==
    ASSUME StartDeleteTypeOK, InflightIsTracked, DeadSinceMark, AllCancelled, LeftIsDiscarded,
           TeardownWhenDead, NEW s \in Starts, StartStep(s), Undisturbed, Undisturbed'
    PROVE  DeadSinceMark' /\ AllCancelled' /\ LeftIsDiscarded' /\ TeardownWhenDead'
<1>0. /\ row \in Rows /\ box \in Starts \cup {NoStart} /\ volume \in {"none", "labelled", "bare"}
      /\ startPC \in [Starts -> StartPCs] /\ delPC \in DelPCs /\ sweepPC \in SweepPCs
      /\ NoStart \notin Starts
  BY StartsAssumption DEF StartDeleteTypeOK, Starts
<1>a. startFaults = 0 /\ startFaults' = 0 /\ ~StartFault
  BY DEF Undisturbed, StartFault
<1> USE <1>0, <1>a
    DEF DeadSinceMark, AllCancelled, LeftIsDiscarded, TeardownWhenDead, PastCheck, Discarding,
        Tracked, Dead, Rows, world, Docker, Tracking, ContainerRemove, RemoveVolume,
        VolumeCreate, MakeBox, StartGoto
<1>1. CASE RestartReads(s)
  BY <1>1 DEF RestartReads
<1>2. CASE markProvisioningForRestart(s)
  <2>1. row # "removed"
    BY <1>2, Undisturbed' DEF markProvisioningForRestart, Undisturbed
  <2> QED
    BY <1>2, <2>1 DEF markProvisioningForRestart
<1>3. CASE RestartStops(s)
  BY <1>3 DEF RestartStops
<1>4. CASE PrepareFails(s)
  BY <1>4 DEF PrepareFails
<1>5. CASE mintWorkspaceSecrets(s)
  BY <1>5 DEF mintWorkspaceSecrets
<1>6. CASE trackStart(s)
  BY <1>6 DEF trackStart
<1>7. CASE \E at \in {"volume", "image", "ensure", "create"} : CallFails(s, at)
  BY <1>7 DEF CallFails
<1>8. CASE CreateConfigVolume(s)
  BY <1>8 DEF CreateConfigVolume
<1>9. CASE GetImage(s)
  BY <1>9 DEF GetImage
<1>10. CASE ClearStale(s)
  BY <1>10 DEF ClearStale
<1>11. CASE workspaceRemoved(s, "check1", "ensure")
  BY <1>11 DEF workspaceRemoved
<1>12. CASE EnsureVolume(s)
  BY <1>12 DEF EnsureVolume
<1>13. CASE ContainerCreate(s)
  BY <1>13 DEF ContainerCreate
<1>14. CASE AbandonedCreate(s)
  BY <1>14 DEF AbandonedCreate
<1>15. CASE ContainerStart(s)
  BY <1>15 DEF ContainerStart
<1>16. CASE ContainerStartFails(s)
  BY <1>16 DEF ContainerStartFails
<1>17. CASE workspaceRemoved(s, "check2", "return")
  BY <1>17 DEF workspaceRemoved
<1>18. CASE Unwind(s)
  BY <1>18 DEF Unwind
<1>19. CASE DiscardBox(s)
  BY <1>19 DEF DiscardBox
<1>20. CASE DiscardVolume(s)
  BY <1>20 DEF DiscardVolume
<1>21. CASE StartReturns(s)
  BY <1>21 DEF StartReturns
<1>22. CASE markProvisionFailed(s)
  BY <1>22 DEF markProvisionFailed
<1> QED
  BY ONLY StartStep(s),
          <1>1, <1>2, <1>3, <1>4, <1>5, <1>6, <1>7, <1>8, <1>9, <1>10,
          <1>11, <1>12, <1>13, <1>14, <1>15, <1>16, <1>17, <1>18,
          <1>19, <1>20, <1>21, <1>22 DEF StartStep

-----------------------------------------------------------------------------
(* dockerd's late creates, the delete, the sweeper, the runtime, time.     *)

SideStep == DeleteStep \/ SweepStep \/ SendRegister \/ Register \/ TokenAges

LEMMA SideTypes ==
    ASSUME StartDeleteTypeOK, SideStep
    PROVE  StartDeleteTypeOK'
<1> USE FaultsAssumption, StartsAssumption
    DEF StartDeleteTypeOK, StartGoto, StartFault, world, Docker, Tracking, Dead, Rows,
        StartPCs, ContainerRemove, RemoveVolume, VolumeCreate, MakeBox,
        DelGoto, DelKeeps, SweepKeeps, NextPass, DelPCs, SweepPCs
<1>1. CASE DeleteReads
  BY <1>1 DEF DeleteReads
<1>2. CASE MarkRemoved
  BY <1>2 DEF MarkRemoved
<1>3. CASE RevokeTokens
  BY <1>3 DEF RevokeTokens
<1>4. CASE CancelInflightStart
  BY <1>4 DEF CancelInflightStart
<1>5. CASE DeleteStops
  <2>1. CASE DelGoto("stop", "volume") /\ ContainerRemove /\ UNCHANGED startFaults
    <3>1. boxUp' \in BOOLEAN /\ box' = NoStart /\ delPC' = "volume"
          /\ UNCHANGED <<row, token, volume, inflight, cancelled, startFaults, DelKeeps>>
      BY ONLY <1>5, <2>1 DEF DeleteStops, DelGoto, ContainerRemove
    <3> QED
      BY ONLY StartDeleteTypeOK, <3>1
  <2>2. CASE DelGoto("stop", "stopFailed") /\ StartFault /\ UNCHANGED <<box, boxUp>>
    BY <1>5, <2>2 DEF DeleteStops
  <2> QED
    BY ONLY <1>5, <2>1, <2>2 DEF DeleteStops
<1>6. CASE DeleteRemovesVolume
  BY <1>6 DEF DeleteRemovesVolume
<1>7. CASE DeletePurges
  BY <1>7 DEF DeletePurges
<1>8. CASE SweepLists
  BY <1>8 DEF SweepLists
<1>9. CASE SweepReads
  BY <1>9 DEF SweepReads
<1>10. CASE SweepStops
  <2>1. CASE ContainerRemove /\ sweepPC' = "volume" /\ UNCHANGED <<pass, judged, startFaults>>
    <3>1. boxUp' \in BOOLEAN /\ box' = NoStart /\ sweepPC' = "volume"
          /\ UNCHANGED <<pass, judged, startFaults, token, aged, volume, SweepKeeps>>
      BY ONLY <1>10, <2>1 DEF SweepStops, ContainerRemove
    <3> QED
      BY ONLY StartDeleteTypeOK, <3>1
  <2>2. CASE StartFault /\ NextPass /\ UNCHANGED <<box, boxUp>>
    BY <1>10, <2>2 DEF SweepStops
  <2> QED
    BY ONLY <1>10, <2>1, <2>2 DEF SweepStops
<1>11. CASE SweepRemovesVolume
  BY <1>11 DEF SweepRemovesVolume
<1>12. CASE SweepRevokes
  BY <1>12 DEF SweepRevokes
<1>13. CASE SendRegister
  BY <1>13 DEF SendRegister
<1>14. CASE Register
  <2>1. revived' \in BOOLEAN
    BY ONLY <1>14, StartDeleteTypeOK DEF Register, StartDeleteTypeOK
  <2>2. aged' \in BOOLEAN /\ boxUp' \in BOOLEAN
    BY ONLY <1>14, StartDeleteTypeOK DEF Register, StartDeleteTypeOK, Docker
  <2>3. /\ row' \in Rows /\ token' \in Starts \cup {NoStart} /\ register' = NoStart
        /\ UNCHANGED <<judged, startPC, delPC, sweepPC, pass, box, volume, inflight, cancelled,
                      late, startFaults>>
    BY ONLY <1>14, StartDeleteTypeOK DEF Register, StartDeleteTypeOK, Docker, Tracking, Rows, Dead
  <2> QED
    BY <2>1, <2>2, <2>3
<1>15. CASE TokenAges
  BY <1>15 DEF TokenAges
<1> QED
  BY ONLY SideStep,
          <1>1, <1>2, <1>3, <1>4, <1>5, <1>6, <1>7, <1>8, <1>9, <1>10,
          <1>11, <1>12, <1>13, <1>14, <1>15 DEF SideStep, DeleteStep, SweepStep

LEMMA SideCalm ==
    ASSUME StartDeleteTypeOK, SideStep, Undisturbed'
    PROVE  Undisturbed
<1> USE FaultsAssumption DEF StartDeleteTypeOK, StartFault, Undisturbed, DelKeeps, SweepKeeps
<1>1. CASE DeleteReads
  BY <1>1 DEF DeleteReads
<1>2. CASE MarkRemoved
  BY <1>2 DEF MarkRemoved
<1>3. CASE RevokeTokens
  BY <1>3 DEF RevokeTokens
<1>4. CASE CancelInflightStart
  BY <1>4 DEF CancelInflightStart
<1>5. CASE DeleteStops
  BY <1>5 DEF DeleteStops
<1>6. CASE DeleteRemovesVolume
  BY <1>6 DEF DeleteRemovesVolume
<1>7. CASE DeletePurges
  BY <1>7 DEF DeletePurges
<1>8. CASE SweepLists
  BY <1>8 DEF SweepLists
<1>9. CASE SweepReads
  BY <1>9 DEF SweepReads
<1>10. CASE SweepStops
  BY <1>10 DEF SweepStops
<1>11. CASE SweepRemovesVolume
  BY <1>11 DEF SweepRemovesVolume
<1>12. CASE SweepRevokes
  BY <1>12 DEF SweepRevokes
<1>13. CASE SendRegister
  BY <1>13 DEF SendRegister
<1>14. CASE Register
  BY <1>14 DEF Register
<1>15. CASE TokenAges
  BY <1>15 DEF TokenAges
<1> QED
  BY ONLY SideStep,
          <1>1, <1>2, <1>3, <1>4, <1>5, <1>6, <1>7, <1>8, <1>9, <1>10,
          <1>11, <1>12, <1>13, <1>14, <1>15 DEF SideStep, DeleteStep, SweepStep

LEMMA SideTracked ==
    ASSUME InflightIsTracked, SideStep
    PROVE  InflightIsTracked'
<1> USE DEF InflightIsTracked, DelKeeps, SweepKeeps, Tracking
<1>1. CASE DeleteReads
  BY <1>1 DEF DeleteReads
<1>2. CASE MarkRemoved
  BY <1>2 DEF MarkRemoved
<1>3. CASE RevokeTokens
  BY <1>3 DEF RevokeTokens
<1>4. CASE CancelInflightStart
  BY <1>4 DEF CancelInflightStart
<1>5. CASE DeleteStops
  BY <1>5 DEF DeleteStops
<1>6. CASE DeleteRemovesVolume
  BY <1>6 DEF DeleteRemovesVolume
<1>7. CASE DeletePurges
  BY <1>7 DEF DeletePurges
<1>8. CASE SweepLists
  BY <1>8 DEF SweepLists
<1>9. CASE SweepReads
  BY <1>9 DEF SweepReads
<1>10. CASE SweepStops
  BY <1>10 DEF SweepStops
<1>11. CASE SweepRemovesVolume
  BY <1>11 DEF SweepRemovesVolume
<1>12. CASE SweepRevokes
  BY <1>12 DEF SweepRevokes
<1>13. CASE SendRegister
  BY <1>13 DEF SendRegister
<1>14. CASE Register
  BY <1>14 DEF Register
<1>15. CASE TokenAges
  BY <1>15 DEF TokenAges
<1> QED
  BY ONLY SideStep,
          <1>1, <1>2, <1>3, <1>4, <1>5, <1>6, <1>7, <1>8, <1>9, <1>10,
          <1>11, <1>12, <1>13, <1>14, <1>15 DEF SideStep, DeleteStep, SweepStep

\* The delete cancels whatever is past its check, then tears down; the sweeper
\* acts on what it read, and a dead row stays dead.
LEMMA SideDiscards ==
    ASSUME StartDeleteTypeOK, InflightIsTracked, DeadSinceMark, AllCancelled, LeftIsDiscarded,
           TeardownWhenDead, SideStep, Undisturbed, Undisturbed'
    PROVE  DeadSinceMark' /\ AllCancelled' /\ LeftIsDiscarded' /\ TeardownWhenDead'
<1>0. /\ row \in Rows /\ box \in Starts \cup {NoStart} /\ volume \in {"none", "labelled", "bare"}
      /\ startPC \in [Starts -> StartPCs] /\ delPC \in DelPCs /\ sweepPC \in SweepPCs
      /\ NoStart \notin Starts
  BY StartsAssumption DEF StartDeleteTypeOK, Starts
<1>a. startFaults = 0 /\ startFaults' = 0 /\ ~StartFault
  BY DEF Undisturbed, StartFault
<1> USE <1>0, <1>a
    DEF DeadSinceMark, AllCancelled, LeftIsDiscarded, TeardownWhenDead, PastCheck, Discarding,
        Tracked, Dead, Rows, world, Docker, Tracking, ContainerRemove, RemoveVolume,
        DelGoto, DelKeeps, SweepKeeps, NextPass, Orphaned, InflightIsTracked
<1>1. CASE DeleteReads
  BY <1>1 DEF DeleteReads
<1>2. CASE MarkRemoved
  BY <1>2 DEF MarkRemoved
<1>3. CASE RevokeTokens
  BY <1>3 DEF RevokeTokens
<1>4. CASE CancelInflightStart
  BY <1>4 DEF CancelInflightStart
<1>5. CASE DeleteStops
  BY <1>5 DEF DeleteStops
<1>6. CASE DeleteRemovesVolume
  BY <1>6 DEF DeleteRemovesVolume
<1>7. CASE DeletePurges
  BY <1>7 DEF DeletePurges
<1>8. CASE SweepLists
  BY <1>8 DEF SweepLists
<1>9. CASE SweepReads
  BY <1>9 DEF SweepReads
<1>10. CASE SweepStops
  BY <1>10 DEF SweepStops
<1>11. CASE SweepRemovesVolume
  BY <1>11 DEF SweepRemovesVolume
<1>12. CASE SweepRevokes
  BY <1>12 DEF SweepRevokes
<1>13. CASE SendRegister
  BY <1>13 DEF SendRegister
<1>14. CASE Register
  <2>1. ~(token \in {NoStart, register} /\ row = "gone")
    BY ONLY <1>14, Undisturbed' DEF Register, Undisturbed
  <2>2. \/ row' = row
        \/ row # "gone" /\ row' = IF row = "removed" THEN row ELSE "online"
    BY ONLY <1>14, <2>1 DEF Register
  <2> QED
    BY <1>14, <2>2 DEF Register
<1>15. CASE TokenAges
  BY <1>15 DEF TokenAges
<1> QED
  BY ONLY SideStep,
          <1>1, <1>2, <1>3, <1>4, <1>5, <1>6, <1>7, <1>8, <1>9, <1>10,
          <1>11, <1>12, <1>13, <1>14, <1>15 DEF SideStep, DeleteStep, SweepStep

LEMMA LateKeeps ==
    ASSUME StartDeleteTypeOK, DeleteInv, NEW s \in Starts, LateCreate(s)
    PROVE  StartDeleteTypeOK' /\ DeleteInv'
<1>1. StartDeleteTypeOK'
  <2> USE FaultsAssumption, StartsAssumption DEF StartDeleteTypeOK, world, Docker, MakeBox
  <2>1. CASE box = NoStart
    BY <2>1 DEF LateCreate
  <2>2. CASE box # NoStart
    BY <2>2 DEF LateCreate
  <2> QED
    BY ONLY <2>1, <2>2
<1>2. InflightIsTracked'
  BY DEF DeleteInv, InflightIsTracked, LateCreate
<1>3. ~Undisturbed
  BY DEF DeleteInv, DeadSinceMark, LateCreate
<1>4. ~Undisturbed'
  BY <1>3 DEF LateCreate, Undisturbed, world
<1> QED
  BY <1>1, <1>2, <1>4 DEF DeleteInv

-----------------------------------------------------------------------------
(* The invariant and the theorems.                                         *)

LEMMA DeleteInvInit == StartDeleteInit => StartDeleteTypeOK /\ DeleteInv /\ JudgedInv
<1> SUFFICES ASSUME StartDeleteInit PROVE StartDeleteTypeOK /\ DeleteInv /\ JudgedInv
  OBVIOUS
<1> USE DEF StartDeleteInit
<1>1. StartDeleteTypeOK
  <2>1. boxUp \in BOOLEAN /\ aged \in BOOLEAN /\ revived \in BOOLEAN
    OBVIOUS
  <2>2. startPC \in [Starts -> StartPCs]
    BY DEF StartPCs
  <2> QED
    BY <2>1, <2>2, FaultsAssumption DEF StartDeleteTypeOK, Rows, Dead, DelPCs, SweepPCs
<1>2. InflightIsTracked /\ JudgedInv
  BY DEF InflightIsTracked, Tracked, JudgedInv
<1>3. DeadSinceMark /\ AllCancelled /\ LeftIsDiscarded /\ TeardownWhenDead
  BY DEF DeadSinceMark, AllCancelled, LeftIsDiscarded, TeardownWhenDead, Dead
<1> QED
  BY <1>1, <1>2, <1>3 DEF DeleteInv

LEMMA DeleteInvStep ==
    ASSUME StartDeleteTypeOK, DeleteInv, [StartDeleteNext]_startVars
    PROVE  StartDeleteTypeOK' /\ DeleteInv'
<1>1. CASE \E s \in Starts : StartStep(s)
  <2> PICK s \in Starts : StartStep(s)
    BY <1>1
  <2>1. StartDeleteTypeOK' /\ InflightIsTracked'
    BY StartTypes, StartTracked DEF DeleteInv
  <2>2. ASSUME Undisturbed'
        PROVE  DeadSinceMark' /\ AllCancelled' /\ LeftIsDiscarded' /\ TeardownWhenDead'
    BY <2>2, StartCalm, StartDiscards DEF DeleteInv
  <2> QED
    BY <2>1, <2>2 DEF DeleteInv
<1>2. CASE \E s \in Starts : LateCreate(s)
  BY <1>2, LateKeeps
<1>3. CASE SideStep
  <2>1. StartDeleteTypeOK' /\ InflightIsTracked'
    BY <1>3, SideTypes, SideTracked DEF DeleteInv
  <2>2. ASSUME Undisturbed'
        PROVE  DeadSinceMark' /\ AllCancelled' /\ LeftIsDiscarded' /\ TeardownWhenDead'
    BY <1>3, <2>2, SideCalm, SideDiscards DEF DeleteInv
  <2> QED
    BY <2>1, <2>2 DEF DeleteInv
<1>4. CASE UNCHANGED startVars
  <2>1. StartDeleteTypeOK'
    BY <1>4 DEF startVars, StartDeleteTypeOK
  <2>2. DeleteInv'
    BY <1>4 DEF startVars, DeleteInv, InflightIsTracked, Undisturbed, DeadSinceMark,
                AllCancelled, LeftIsDiscarded, TeardownWhenDead
  <2> QED
    BY <2>1, <2>2
<1> QED
  BY <1>1, <1>2, <1>3, <1>4 DEF StartDeleteNext, SideStep

\* For any starts, any interleaving and any faults: once the delete and every
\* start have ended, a deleted workspace whose Docker calls all succeeded and
\* whose row nobody brought back has neither container nor volume.
THEOREM DeleteLeavesNothing == StartDeleteSpec => []NoOrphanLeft
<1>1. StartDeleteInit => StartDeleteTypeOK /\ DeleteInv
  BY DeleteInvInit
<1>2. StartDeleteTypeOK /\ DeleteInv /\ [StartDeleteNext]_startVars
        => (StartDeleteTypeOK /\ DeleteInv)'
  BY DeleteInvStep
<1>3. StartDeleteTypeOK /\ DeleteInv => NoOrphanLeft
  <2> SUFFICES ASSUME StartDeleteTypeOK, DeleteInv, delPC = "done", StartsAtRest, Undisturbed
               PROVE  box = NoStart /\ volume = "none"
    BY DEF NoOrphanLeft, Undisturbed
  <2>1. LeftIsDiscarded
    BY DEF DeleteInv
  <2>2. \A s \in Starts : startPC[s] \notin Discarding \cup {"discardVolume"}
    BY DEF StartsAtRest, Discarding
  <2> QED
    BY <2>1, <2>2 DEF LeftIsDiscarded
<1> QED
  BY <1>1, <1>2, <1>3, PTL DEF StartDeleteSpec

LEMMA JudgedStart ==
    ASSUME JudgedInv, NEW s \in Starts, StartStep(s)
    PROVE  JudgedInv'
<1> USE DEF JudgedInv, world
<1>1. CASE mintWorkspaceSecrets(s)
  BY <1>1 DEF mintWorkspaceSecrets
<1>2. CASE UNCHANGED <<token, aged, judged, sweepPC>>
  BY <1>2
<1>3. StartStep(s) => mintWorkspaceSecrets(s) \/ UNCHANGED <<token, aged, judged, sweepPC>>
  BY DEF StartStep, RestartReads, markProvisioningForRestart, RestartStops, PrepareFails,
         trackStart, CallFails, CreateConfigVolume, GetImage, ClearStale, workspaceRemoved,
         EnsureVolume, ContainerCreate, AbandonedCreate, ContainerStart, ContainerStartFails,
         Unwind, DiscardBox, DiscardVolume, StartReturns, markProvisionFailed
<1> QED
  BY <1>1, <1>2, <1>3

LEMMA JudgedStep ==
    ASSUME JudgedInv, [StartDeleteNext]_startVars
    PROVE  JudgedInv'
<1>1. CASE \E s \in Starts : StartStep(s)
  BY <1>1, JudgedStart
<1>2. CASE \E s \in Starts : LateCreate(s)
  BY <1>2 DEF LateCreate, world, JudgedInv
<1>3. CASE DeleteStep
  BY <1>3 DEF DeleteStep, DeleteReads, MarkRemoved, RevokeTokens, CancelInflightStart,
              DeleteStops, DeleteRemovesVolume, DeletePurges, DelKeeps, JudgedInv
<1>4. CASE SweepLists
  BY <1>4 DEF SweepLists, NextPass, JudgedInv
<1>5. CASE SweepReads
  BY <1>5 DEF SweepReads, NextPass, JudgedInv
<1>6. CASE SweepStops \/ SweepRemovesVolume
  BY <1>6 DEF SweepStops, SweepRemovesVolume, NextPass, JudgedInv
<1>7. CASE SweepRevokes
  BY <1>7 DEF SweepRevokes, NextPass, JudgedInv
<1>8. CASE SendRegister
  BY <1>8 DEF SendRegister, JudgedInv
<1>9. CASE Register
  BY <1>9 DEF Register, JudgedInv
<1>10. CASE TokenAges
  BY <1>10 DEF TokenAges, JudgedInv
<1>11. CASE UNCHANGED startVars
  BY <1>11 DEF startVars, JudgedInv
<1> QED
  BY <1>1, <1>2, <1>3, <1>4, <1>5, <1>6, <1>7, <1>8, <1>9, <1>10, <1>11
  DEF StartDeleteNext, SweepStep

\* Only SweepRevokes leaves "revoke".
LEMMA RevokesJudged ==
    ASSUME JudgedInv, StartDeleteNext, sweepPC = "revoke", sweepPC' = "list",
           token # NoStart, token' = NoStart
    PROVE  token = judged
<1>1. CASE SweepRevokes
  BY <1>1 DEF SweepRevokes, JudgedInv
<1>2. CASE \E s \in Starts : StartStep(s)
  <2> PICK s \in Starts : StartStep(s)
    BY <1>2
  <2>1. sweepPC' = sweepPC
    BY DEF StartStep, RestartReads, markProvisioningForRestart, RestartStops, PrepareFails,
           mintWorkspaceSecrets, trackStart, CallFails, CreateConfigVolume, GetImage, ClearStale,
           workspaceRemoved, EnsureVolume, ContainerCreate, AbandonedCreate, ContainerStart,
           ContainerStartFails, Unwind, DiscardBox, DiscardVolume, StartReturns,
           markProvisionFailed, world
  <2> QED
    BY <2>1
<1>3. CASE \E s \in Starts : LateCreate(s)
  BY <1>3 DEF LateCreate, world
<1>4. CASE DeleteStep
  BY <1>4 DEF DeleteStep, DeleteReads, MarkRemoved, RevokeTokens, CancelInflightStart,
              DeleteStops, DeleteRemovesVolume, DeletePurges, DelKeeps
<1>5. CASE SweepLists \/ SweepReads \/ SweepStops \/ SweepRemovesVolume
  BY <1>5 DEF SweepLists, SweepReads, SweepStops, SweepRemovesVolume
<1>6. CASE SendRegister \/ Register \/ TokenAges
  BY <1>6 DEF SendRegister, Register, TokenAges
<1> QED
  BY <1>1, <1>2, <1>3, <1>4, <1>5, <1>6 DEF StartDeleteNext, SweepStep

\* The orphan sweeper and the starts tear down dead workspaces only, and the
\* stale-token pass revokes no token but the one it judged, however its passes
\* interleave with starts, deletes and registrations.
THEOREM TeardownsAreJust == StartDeleteSpec => TeardownIsJust
<1>1. StartDeleteInit => StartDeleteTypeOK /\ DeleteInv /\ JudgedInv
  BY DeleteInvInit
<1>2. StartDeleteTypeOK /\ DeleteInv /\ [StartDeleteNext]_startVars
        => (StartDeleteTypeOK /\ DeleteInv)'
  BY DeleteInvStep
<1>3. JudgedInv /\ [StartDeleteNext]_startVars => JudgedInv'
  BY JudgedStep
<1>4. DeleteInv => TeardownOnlyWhenDead
  BY DEF DeleteInv, TeardownWhenDead, TeardownOnlyWhenDead, Undisturbed
<1>5. JudgedInv /\ [StartDeleteNext]_startVars =>
        [sweepPC = "revoke" /\ sweepPC' = "list" /\ token # NoStart /\ token' = NoStart
            => token = judged]_startVars
  BY RevokesJudged
<1> QED
  BY <1>1, <1>2, <1>3, <1>4, <1>5, PTL DEF StartDeleteSpec, TeardownIsJust, OnlyJudgedRevoked

-----------------------------------------------------------------------------
(* Registration.                                                           *)

\* Only minted tokens are held, on file or on their way.
Minted == {t \in Tokens : authToken[t] # "unborn"} \cup {NoToken}
MintedOnly ==
    /\ authFile \in Minted
    /\ \A b \in Boxes : held[b] \in Minted /\ fresh[b] \in Minted
    /\ \A r \in RegCalls : reg[r].tok \in Minted

\* A register comes from an agent that has been started, and brings a token
\* along in its answer only.
Started == {"inject", "done"}
CallersStarted ==
    /\ \A b \in regUp : prov[b] \in Started
    /\ \A r \in RegCalls : reg[r].pc # "idle" => prov[reg[r].box] \in Started
    /\ \A r \in RegCalls : reg[r].tok # NoToken => reg[r].pc = "answer"
    /\ regMode = "saas" => \A b \in Boxes : prov[b] \notin {"issue", "write", "inject"}
    /\ regMode = "external" => \A b \in Boxes : prov[b] \notin {"write", "inject"}

\* The gate: outside rotations one provision is under way, and until it revokes
\* it has only stopped the box of before.
GateSerial ==
    regMode # "external" /\ regFaults = 0 =>
        /\ \A b, c \in Boxes : Underway(b) /\ Underway(c) => b = c
        /\ \A b \in Boxes : Underway(b) => b = latest \/ prov[b] = "revoke"
        /\ regUp \subseteq {latest}
        /\ (\E b \in Boxes : Underway(b) /\ prov[b] # "inject") => regUp = {}

\* The token of the last one that revoked is good until somebody else revokes.
LatestKeeps ==
    regMode # "saas" /\ regFaults = 0 /\ ~RegRemoved =>
        /\ prov[latest] = "write" => fresh[latest] \in Live
        /\ prov[latest] = "start" => /\ fresh[latest] \in Live
                                     /\ regMode = "docker" => authFile = fresh[latest]
        /\ prov[latest] = "inject" => fresh[latest] \in Live /\ held[latest] = fresh[latest]
        /\ prov[latest] = "done" => held[latest] \in Live
        /\ prov[latest] \in Started => \/ latest \in regUp
                                       \/ \E b \in Boxes : prov[b] = "revoke"
        /\ \A r \in RegCalls : reg[r].pc # "idle" /\ reg[r].box = latest =>
              reg[r].pc # "issue" /\ reg[r].tok = NoToken
        /\ prov[latest] # "idle"

\* On SaaS the new box mints its own token.
BoxMints ==
    regMode = "saas" /\ regFaults = 0 /\ ~RegRemoved /\ ~crossedReg
    /\ (\A b \in Boxes : prov[b] # "revoke") =>
        /\ prov[latest] \in {"start", "done"}
        /\ prov[latest] = "start" => Live = {} /\ \A r \in RegCalls : reg[r].pc = "idle"
        /\ prov[latest] = "done" => latest \in regUp
        /\ \A r \in RegCalls : reg[r].pc # "idle" => reg[r].box = latest
        /\ \A r \in RegCalls : reg[r].tok # NoToken => reg[r].tok \in Live
        /\ Live # {} => held[latest] \in Live \/ \E r \in RegCalls : reg[r].tok # NoToken

\* Without an overlap, an agent that was replaced is not given a token.
ReplacedStaysOut ==
    ~crossedReg /\ regFaults = 0 =>
        /\ \A b \in Boxes : Underway(b) /\ b # latest => prov[b] = "revoke"
        /\ \A b \in regUp : \/ b = latest
                            \/ regMode = "external" /\ (prov[latest] = "issue" \/ Live # {})
        /\ (\E b \in Boxes : prov[b] = "issue") => \A r \in RegCalls : reg[r].pc = "idle"
        /\ \A r \in RegCalls : reg[r].pc # "idle" /\ reg[r].box # latest /\ reg[r].box \in regUp =>
              reg[r].pc # "issue" /\ reg[r].tok = NoToken
        /\ \A b \in Boxes : held[b] \in Live => b = latest

TokenInv == MintedOnly /\ CallersStarted /\ GateSerial /\ LatestKeeps /\ BoxMints /\ ReplacedStaysOut

\* A verdict that lets somebody in goes back to a membership not long ago.
VerdictInv ==
    /\ lastIn <= wall
    /\ \A v \in Sessions : verify[v].pc # "idle" =>
          /\ verify[v].began <= wall /\ wall <= verify[v].began + CPTimeout
          /\ verify[v].pc = "put" /\ verify[v].ok => member \/ lastIn >= verify[v].began
    /\ verdicts.ok /\ verdicts.until > 0 =>
          /\ verdicts.until <= wall + TTLOk
          /\ member \/ lastIn + TTLOk + CPTimeout >= verdicts.until

\* What the types say of the tokens alone.
TokenTypeOK ==
    /\ regMode \in {"docker", "saas", "external"}
    /\ regKind \in {"workspace", "platform"}
    /\ regRow \in {"provisioning", "online", "failed", "removed", "revoking"}
    /\ authToken \in [Tokens -> {"unborn", "live", "revoked"}]
    /\ authFile \in Tokens \cup {NoToken}
    /\ held \in [Boxes -> Tokens \cup {NoToken}]
    /\ regUp \subseteq Boxes
    /\ prov \in [Boxes -> ProvPCs]
    /\ fresh \in [Boxes -> Tokens \cup {NoToken}]
    /\ reg \in [RegCalls -> [pc : RegPCs, box : Boxes, bearer : Tokens \cup {NoToken},
                             tok : Tokens \cup {NoToken}]]
    /\ latest \in Boxes
    /\ crossedReg \in BOOLEAN
    /\ regFaults \in 0..MaxRegFaults

SessionTypeOK ==
    /\ member \in BOOLEAN
    /\ wall \in 0..MaxTime /\ lastIn \in 0..MaxTime
    /\ verdicts \in [until : 0..(MaxTime + TTLOk + TTLFail), ok : BOOLEAN]
    /\ verify \in [Sessions -> [pc : VerifyPCs, began : 0..MaxTime, ok : BOOLEAN]]

LEMMA TypesSplit == RegTypeOK <=> TokenTypeOK /\ SessionTypeOK
BY DEF RegTypeOK, TokenTypeOK, SessionTypeOK

-----------------------------------------------------------------------------
(* The steps of a session.                                                 *)

LEMMA SessionTypes ==
    ASSUME SessionTypeOK, SessionStep
    PROVE  SessionTypeOK'
<1> USE SessionsAssumption DEF SessionTypeOK, VerifyIdle, NoVerdict, VerifyPCs, SessionKeeps
<1>1. ASSUME NEW v \in Sessions, VerifyBegins(v) PROVE SessionTypeOK'
  BY <1>1 DEF VerifyBegins
<1>2. ASSUME NEW v \in Sessions, sessionCacheGet(v) PROVE SessionTypeOK'
  BY <1>2 DEF sessionCacheGet
<1>3. ASSUME NEW v \in Sessions, ControlPlaneAnswers(v) PROVE SessionTypeOK'
  <2> DEFINE Calls == [pc : VerifyPCs, began : 0..MaxTime, ok : BOOLEAN]
  <2>1. verify[v] \in Calls /\ VerifyIdle \in Calls
    BY <1>3
  <2>2. ASSUME NEW o \in BOOLEAN, verify' = [verify EXCEPT ![v].pc = "put", ![v].ok = o]
        PROVE  verify' \in [Sessions -> Calls]
    <3>1. verify'[v] = [[verify[v] EXCEPT !.pc = "put"] EXCEPT !.ok = o]
      BY <2>2
    <3>2. verify'[v] \in Calls
      BY ONLY <3>1, <2>1, o \in BOOLEAN DEF VerifyPCs
    <3> QED
      BY ONLY <2>2, <3>2, verify \in [Sessions -> Calls], v \in Sessions
  <2>3. verify' \in [Sessions -> Calls]
    BY <1>3, <2>1, <2>2 DEF ControlPlaneAnswers
  <2> QED
    BY <1>3, <2>3 DEF ControlPlaneAnswers
<1>4. ASSUME NEW v \in Sessions, sessionCachePut(v) PROVE SessionTypeOK'
  <2>1. verdicts' \in [until : 0..(MaxTime + TTLOk + TTLFail), ok : BOOLEAN]
    BY <1>4 DEF sessionCachePut
  <2> QED
    BY <1>4, <2>1 DEF sessionCachePut
<1>5. CASE MembershipChanges
  BY <1>5 DEF MembershipChanges
<1>6. CASE WallTicks
  BY <1>6 DEF WallTicks
<1> QED
  BY ONLY SessionStep, <1>1, <1>2, <1>3, <1>4, <1>5, <1>6 DEF SessionStep

LEMMA SessionKeepsVerdicts ==
    ASSUME SessionTypeOK, VerdictInv, SessionStep
    PROVE  VerdictInv'
<1> USE SessionsAssumption DEF SessionTypeOK, VerdictInv, VerifyIdle, NoVerdict, VerifyPCs, SessionKeeps
<1>1. ASSUME NEW v \in Sessions, VerifyBegins(v) PROVE VerdictInv'
  BY <1>1 DEF VerifyBegins
<1>2. ASSUME NEW v \in Sessions, sessionCacheGet(v) PROVE VerdictInv'
  BY <1>2 DEF sessionCacheGet
<1>3. ASSUME NEW v \in Sessions, ControlPlaneAnswers(v) PROVE VerdictInv'
  BY <1>3 DEF ControlPlaneAnswers
<1>4. ASSUME NEW v \in Sessions, sessionCachePut(v) PROVE VerdictInv'
  BY <1>4 DEF sessionCachePut
<1>5. CASE MembershipChanges
  BY <1>5 DEF MembershipChanges
<1>6. CASE WallTicks
  BY <1>6 DEF WallTicks
<1> QED
  BY ONLY SessionStep, <1>1, <1>2, <1>3, <1>4, <1>5, <1>6 DEF SessionStep

LEMMA VerdictInvSuffices == RegTypeOK /\ VerdictInv => VerdictIsRecent
BY SessionsAssumption DEF RegTypeOK, VerdictInv, VerdictIsRecent, VerdictIsFresh

LEMMA DoorsAlwaysShut == DoorsAreShut
BY DEF DoorsAreShut, Opens, WorkspaceAuth, AdminAuth, CanvasOrBearer, validateDiscoveryCaller,
       Valid, CookieOpens, Doors, Presented, Live, RegRemoved
-----------------------------------------------------------------------------
(* The steps of the tokens.                                                *)

\* A register that passes a gate, or is turned away at one.
GateGoto(r, pc) == reg' = [reg EXCEPT ![r].pc = pc] /\ (pc = "issue" => Live = {})
GateMove(r) ==
    /\ reg[r].pc \notin {"idle", "issue", "answer"}
    /\ RegEnds(r) \/ \E pc \in RegPCs \ {"idle"} : GateGoto(r, pc)
    /\ regFaults' \in 0..MaxRegFaults /\ (regFaults' = 0 => regFaults = 0)
    /\ regRow' \in {"provisioning", "online", "failed", "removed", "revoking"}
    /\ regFaults' = 0 => (RegRemoved' <=> RegRemoved)
    /\ UNCHANGED <<authToken, held, RegKeeps>>

Gates(r) ==
    \/ requireWorkspaceToken(r) \/ ValidateToken(r) \/ RecheckLive(r)
    \/ PayloadIsRefused(r) \/ validateAgentURL(r) \/ IdentityIsRefused(r) \/ PayloadIsFine(r)
    \/ Upsert(r) \/ CheckLive(r)

LEMMA FaultsCount ==
    ASSUME TokenTypeOK
    PROVE  /\ RegFault => regFaults' \in 0..MaxRegFaults /\ regFaults' # 0
           /\ RegFine => regFaults' = regFaults
BY TokensAssumption DEF TokenTypeOK, RegFault, RegFine

LEMMA GatesMove ==
    ASSUME TokenTypeOK, NEW r \in RegCalls, Gates(r)
    PROVE  GateMove(r)
<1> USE FaultsCount DEF TokenTypeOK, RegGoto, RegPCs
<1>1. CASE requireWorkspaceToken(r)
  <2>1. reg[r].pc = "auth" /\ (RegEnds(r) \/ GateGoto(r, "gates") \/ GateGoto(r, "validate"))
    BY <1>1 DEF requireWorkspaceToken, GateGoto
  <2> QED
    BY <1>1, <2>1 DEF requireWorkspaceToken, GateMove, RegRemoved
<1>2. CASE ValidateToken(r)
  <2>1. reg[r].pc = "validate" /\ (GateGoto(r, "gates") \/ GateGoto(r, "recheck"))
    BY <1>2 DEF ValidateToken, GateGoto
  <2> QED
    BY <1>2, <2>1 DEF ValidateToken, GateMove, RegRemoved
<1>3. CASE RecheckLive(r)
  <2>1. reg[r].pc = "recheck" /\ (RegEnds(r) \/ GateGoto(r, "gates"))
    BY <1>3 DEF RecheckLive, GateGoto
  <2> QED
    BY <1>3, <2>1 DEF RecheckLive, GateMove, RegRemoved
<1>4. CASE PayloadIsRefused(r)
  BY <1>4 DEF PayloadIsRefused, GateMove
<1>5. CASE validateAgentURL(r)
  BY <1>5 DEF validateAgentURL, GateMove
<1>6. CASE IdentityIsRefused(r)
  BY <1>6 DEF IdentityIsRefused, GateMove
<1>7. CASE PayloadIsFine(r)
  <2>1. reg[r].pc = "gates" /\ GateGoto(r, "upsert")
    BY <1>7 DEF PayloadIsFine, GateGoto
  <2> QED
    BY <1>7, <2>1 DEF PayloadIsFine, GateMove, RegRemoved
<1>8. CASE Upsert(r)
  <2>1. reg[r].pc = "upsert" /\ (RegEnds(r) \/ GateGoto(r, "check"))
    BY <1>8 DEF Upsert, GateGoto
  <2> QED
    BY <1>8, <2>1 DEF Upsert, GateMove, RegRemoved
<1>9. CASE CheckLive(r)
  <2>1. reg[r].pc = "check" /\ (GateGoto(r, "issue") \/ GateGoto(r, "answer"))
    BY <1>9 DEF CheckLive, GateGoto
  <2> QED
    BY <1>9, <2>1 DEF CheckLive, GateMove, RegRemoved
<1> QED
  BY ONLY Gates(r), <1>1, <1>2, <1>3, <1>4, <1>5, <1>6, <1>7, <1>8, <1>9 DEF Gates

\* The steps of a register: a call, a gate, a first token, an answer.
LEMMA RegisterSteps ==
    ASSUME TokenTypeOK, NEW r \in RegCalls, RegisterStep(r)
    PROVE  \/ \E b \in Boxes : RegisterCalls(r, b)
           \/ GateMove(r) \/ IssueFirst(r) \/ RegisterAnswers(r)
BY GatesMove DEF RegisterStep, Gates

LEMMA TokenRange == NoToken \notin Tokens
BY DEF NoToken, Tokens

\* A step mints the next token, or revokes, or leaves the table alone.
LEMMA Issued ==
    ASSUME TokenTypeOK, NEW t \in Tokens, IssueToken(t)
    PROVE  /\ authToken' \in [Tokens -> {"unborn", "live", "revoked"}]
           /\ Live' = Live \cup {t} /\ t \notin Minted /\ Minted' = Minted \cup {t}
BY TokenRange DEF TokenTypeOK, IssueToken, Live, Minted

LEMMA Revoked ==
    ASSUME TokenTypeOK, RevokeAll
    PROVE  /\ authToken' \in [Tokens -> {"unborn", "live", "revoked"}]
           /\ Live' = {} /\ Minted' = Minted
BY DEF TokenTypeOK, RevokeAll, Live, Minted

LEMMA TableKept ==
    ASSUME UNCHANGED authToken
    PROVE  Live' = Live /\ Minted' = Minted
BY DEF Live, Minted

-----------------------------------------------------------------------------
(* Types.                                                                  *)

LEMMA TokenTypes ==
    ASSUME TokenTypeOK, TokenStep
    PROVE  TokenTypeOK'
<1> USE FaultsCount DEF TokenTypeOK, ProvGoto, ProvPCs, RegKeeps, ProvKeeps
<1>1. ASSUME NEW b \in Boxes, ProvisionBegins(b) PROVE TokenTypeOK'
  BY <1>1 DEF ProvisionBegins
<1>2. ASSUME NEW b \in Boxes, ProvisionRevokes(b) PROVE TokenTypeOK'
  <2>1. crossedReg' \in BOOLEAN
    BY ONLY <1>2 DEF ProvisionRevokes
  <2>2. authToken' \in [Tokens -> {"unborn", "live", "revoked"}]
    BY <1>2, Revoked DEF ProvisionRevokes
  <2> QED
    BY <1>2, <2>1, <2>2 DEF ProvisionRevokes
<1>3. ASSUME NEW b \in Boxes, issueAndInjectToken(b) PROVE TokenTypeOK'
  BY <1>3, Issued DEF issueAndInjectToken
<1>4. ASSUME NEW b \in Boxes, WriteAuthTokenToVolume(b) PROVE TokenTypeOK'
  BY <1>4 DEF WriteAuthTokenToVolume
<1>5. ASSUME NEW b \in Boxes, AgentStarts(b) PROVE TokenTypeOK'
  BY <1>5 DEF AgentStarts
<1>6. ASSUME NEW b \in Boxes, AgentIsGivenFiles(b) PROVE TokenTypeOK'
  BY <1>6 DEF AgentIsGivenFiles
<1>7. CASE RowIsRemoved
  <2>1. authToken' \in [Tokens -> {"unborn", "live", "revoked"}]
    BY <1>7, Revoked DEF RowIsRemoved
  <2> QED
    BY <1>7, <2>1 DEF RowIsRemoved, RegRemoved
<1>8. ASSUME NEW t \in Tokens, Revoke(t) PROVE TokenTypeOK'
  BY <1>8 DEF Revoke
<1>9. ASSUME NEW r \in RegCalls, NEW b \in Boxes, RegisterCalls(r, b) PROVE TokenTypeOK'
  <2>1. crossedReg' \in BOOLEAN
    BY ONLY <1>9 DEF RegisterCalls
  <2>2. reg' = [reg EXCEPT ![r] = [pc |-> "auth", box |-> b, bearer |-> held[b], tok |-> NoToken]]
    BY ONLY <1>9 DEF RegisterCalls
  <2>3. reg' \in [RegCalls -> [pc : RegPCs, box : Boxes, bearer : Tokens \cup {NoToken},
                               tok : Tokens \cup {NoToken}]]
    BY <2>2 DEF RegPCs
  <2>4. UNCHANGED <<regRow, authToken, held, regFaults, regMode, regKind, authFile, regUp, prov, fresh,
                    latest, sessionVars>>
    BY ONLY <1>9 DEF RegisterCalls
  <2> QED
    BY ONLY TokenTypeOK, <2>1, <2>3, <2>4
<1>10. ASSUME NEW r \in RegCalls, GateMove(r) PROVE TokenTypeOK'
  <2>1. RegIdle \in [pc : RegPCs, box : Boxes, bearer : Tokens \cup {NoToken},
                     tok : Tokens \cup {NoToken}]
    BY TokensAssumption DEF RegIdle, RegPCs
  <2>2. reg' \in [RegCalls -> [pc : RegPCs, box : Boxes, bearer : Tokens \cup {NoToken},
                               tok : Tokens \cup {NoToken}]]
    BY <1>10, <2>1 DEF GateMove, GateGoto, RegEnds
  <2> QED
    BY <1>10, <2>2 DEF GateMove
<1>11. ASSUME NEW r \in RegCalls, IssueFirst(r) PROVE TokenTypeOK'
  <2>1. CASE \E t \in Tokens : /\ IssueToken(t) /\ RegFine
                               /\ reg' = [reg EXCEPT ![r].pc = "answer", ![r].tok = t]
    <3>1. PICK t \in Tokens : /\ IssueToken(t) /\ RegFine
                              /\ reg' = [reg EXCEPT ![r].pc = "answer", ![r].tok = t]
      BY <2>1
    <3> DEFINE Calls == [pc : RegPCs, box : Boxes, bearer : Tokens \cup {NoToken},
                         tok : Tokens \cup {NoToken}]
    <3>2. [[reg[r] EXCEPT !.pc = "answer"] EXCEPT !.tok = t] \in Calls
      BY ONLY reg[r] \in Calls, t \in Tokens DEF RegPCs
    <3>3. reg' \in [RegCalls -> Calls]
      BY ONLY <3>1, <3>2, reg \in [RegCalls -> Calls], r \in RegCalls
    <3> QED
      BY <1>11, <3>1, <3>3, Issued DEF IssueFirst
  <2>2. CASE RegFault /\ UNCHANGED authToken /\ RegGoto(r, "issue", "answer")
    BY <1>11, <2>2 DEF IssueFirst, RegGoto, RegPCs
  <2> QED
    BY <1>11, <2>1, <2>2 DEF IssueFirst
<1>12. ASSUME NEW r \in RegCalls, RegisterAnswers(r) PROVE TokenTypeOK'
  <2>1. RegIdle \in [pc : RegPCs, box : Boxes, bearer : Tokens \cup {NoToken},
                     tok : Tokens \cup {NoToken}]
    BY TokensAssumption DEF RegIdle, RegPCs
  <2> QED
    BY <1>12, <2>1 DEF RegisterAnswers, RegEnds
<1> QED
  BY ONLY TokenTypeOK, TokenStep, RegisterSteps,
          <1>1, <1>2, <1>3, <1>4, <1>5, <1>6, <1>7, <1>8, <1>9, <1>10, <1>11, <1>12
     DEF TokenStep, ProvisionStep
-----------------------------------------------------------------------------
(* What each step does to the calls.                                       *)

LEMMA CallEntry ==
    ASSUME TokenTypeOK, NEW r \in RegCalls, NEW b \in Boxes, RegisterCalls(r, b)
    PROVE  /\ \A q \in RegCalls : q # r => reg'[q] = reg[q]
           /\ reg'[r].pc = "auth" /\ reg'[r].box = b /\ reg'[r].tok = NoToken
           /\ reg[r].pc = "idle"
BY DEF TokenTypeOK, RegisterCalls

LEMMA GateEntry ==
    ASSUME TokenTypeOK, CallersStarted, NEW r \in RegCalls, GateMove(r)
    PROVE  /\ \A q \in RegCalls : q # r => reg'[q] = reg[q]
           /\ reg[r].pc # "idle" /\ reg[r].tok = NoToken /\ reg'[r].tok = NoToken
           /\ reg'[r].pc # "idle" => reg'[r].box = reg[r].box
           /\ reg'[r].pc = "issue" => Live = {}
<1>1. reg[r].pc # "idle" /\ reg[r].tok = NoToken
  BY DEF GateMove, CallersStarted
<1>2. CASE RegEnds(r)
  BY <1>1, <1>2 DEF RegEnds, RegIdle, TokenTypeOK
<1>3. ASSUME NEW pc \in RegPCs \ {"idle"}, GateGoto(r, pc)
      PROVE  /\ \A q \in RegCalls : q # r => reg'[q] = reg[q]
             /\ reg'[r].tok = reg[r].tok /\ reg'[r].box = reg[r].box
             /\ reg'[r].pc = "issue" => Live = {}
  BY <1>3 DEF GateGoto, TokenTypeOK
<1> QED
  BY <1>1, <1>2, <1>3 DEF GateMove

LEMMA IssueEntry ==
    ASSUME TokenTypeOK, NEW r \in RegCalls, IssueFirst(r)
    PROVE  /\ \A q \in RegCalls : q # r => reg'[q] = reg[q]
           /\ reg[r].pc = "issue" /\ reg'[r].pc = "answer" /\ reg'[r].box = reg[r].box
           /\ \/ RegFault /\ UNCHANGED authToken /\ reg'[r].tok = reg[r].tok
              \/ RegFine /\ \E t \in Tokens : IssueToken(t) /\ reg'[r].tok = t
           /\ UNCHANGED <<regRow, held, RegKeeps>>
<1>1. CASE \E t \in Tokens : /\ IssueToken(t) /\ RegFine
                             /\ reg' = [reg EXCEPT ![r].pc = "answer", ![r].tok = t]
  <2>1. PICK t \in Tokens : /\ IssueToken(t) /\ RegFine
                            /\ reg' = [reg EXCEPT ![r].pc = "answer", ![r].tok = t]
    BY <1>1
  <2>2. reg'[r] = [[reg[r] EXCEPT !.pc = "answer"] EXCEPT !.tok = t]
    BY <2>1 DEF TokenTypeOK
  <2>3. reg'[r].pc = "answer" /\ reg'[r].tok = t /\ reg'[r].box = reg[r].box
    BY <2>2 DEF TokenTypeOK
  <2> QED
    BY <2>1, <2>3 DEF IssueFirst, TokenTypeOK
<1>2. CASE RegFault /\ UNCHANGED authToken /\ RegGoto(r, "issue", "answer")
  BY <1>2 DEF IssueFirst, RegGoto, TokenTypeOK
<1> QED
  BY <1>1, <1>2 DEF IssueFirst

LEMMA AnswerEntry ==
    ASSUME TokenTypeOK, NEW r \in RegCalls, RegisterAnswers(r)
    PROVE  /\ \A q \in RegCalls : q # r => reg'[q] = reg[q]
           /\ reg[r].pc = "answer" /\ reg'[r].pc = "idle" /\ reg'[r].tok = NoToken
           /\ \A b \in Boxes : held'[b] # held[b] =>
                 b = reg[r].box /\ b \in regUp /\ reg[r].tok # NoToken /\ held'[b] = reg[r].tok
           /\ RegFine /\ reg[r].tok # NoToken /\ reg[r].box \in regUp =>
                 held'[reg[r].box] = reg[r].tok
           /\ RegFault \/ RegFine
           /\ UNCHANGED <<regRow, authToken, RegKeeps>>
<1>1. \A q \in RegCalls : q # r => reg'[q] = reg[q]
  BY DEF RegisterAnswers, RegEnds, TokenTypeOK
<1>2. reg[r].pc = "answer" /\ reg'[r].pc = "idle" /\ reg'[r].tok = NoToken
  BY DEF RegisterAnswers, RegEnds, RegIdle, TokenTypeOK
<1>3. CASE RegFault /\ UNCHANGED held
  <2>1. ~RegFine
    BY <1>3 DEF RegFault, RegFine, TokenTypeOK
  <2> QED
    BY ONLY <1>1, <1>2, <1>3, <2>1, RegisterAnswers(r) DEF RegisterAnswers
<1>4. CASE RegFine /\ held' = IF reg[r].tok # NoToken /\ reg[r].box \in regUp
                                THEN [held EXCEPT ![reg[r].box] = reg[r].tok] ELSE held
  <2>1. \A b \in Boxes : held'[b] # held[b] =>
                 b = reg[r].box /\ b \in regUp /\ reg[r].tok # NoToken /\ held'[b] = reg[r].tok
    BY <1>4 DEF TokenTypeOK
  <2>2. reg[r].tok # NoToken /\ reg[r].box \in regUp => held'[reg[r].box] = reg[r].tok
    BY <1>4 DEF TokenTypeOK
  <2> QED
    BY ONLY <1>1, <1>2, <1>4, <2>1, <2>2, RegisterAnswers(r) DEF RegisterAnswers
<1> QED
  BY <1>3, <1>4 DEF RegisterAnswers

-----------------------------------------------------------------------------
(* The invariants, step by step.                                           *)

LEMMA MintedKept ==
    ASSUME TokenTypeOK, CallersStarted, MintedOnly, TokenStep
    PROVE  MintedOnly'
<1> USE DEF MintedOnly, TokenTypeOK, ProvGoto, RegKeeps, ProvKeeps
<1>1. ASSUME NEW b \in Boxes, ProvisionBegins(b) PROVE MintedOnly'
  BY <1>1, TableKept DEF ProvisionBegins
<1>2. ASSUME NEW b \in Boxes, ProvisionRevokes(b) PROVE MintedOnly'
  BY <1>2, TableKept, Revoked DEF ProvisionRevokes
<1>3. ASSUME NEW b \in Boxes, issueAndInjectToken(b) PROVE MintedOnly'
  <2>1. CASE UNCHANGED <<authToken, fresh>>
    BY <1>3, <2>1, TableKept DEF issueAndInjectToken
  <2>2. ASSUME NEW t \in Tokens, IssueToken(t), fresh' = [fresh EXCEPT ![b] = t] PROVE MintedOnly'
    BY <1>3, <2>2, Issued DEF issueAndInjectToken
  <2> QED
    BY <1>3, <2>1, <2>2 DEF issueAndInjectToken
<1>4. ASSUME NEW b \in Boxes, WriteAuthTokenToVolume(b) PROVE MintedOnly'
  BY <1>4, TableKept DEF WriteAuthTokenToVolume
<1>5. ASSUME NEW b \in Boxes, AgentStarts(b) PROVE MintedOnly'
  <2>1. NoToken \in Minted
    BY DEF Minted
  <2> QED
    BY <1>5, <2>1, TableKept DEF AgentStarts
<1>6. ASSUME NEW b \in Boxes, AgentIsGivenFiles(b) PROVE MintedOnly'
  <2>1. NoToken \in Minted
    BY DEF Minted
  <2> QED
    BY <1>6, <2>1, TableKept DEF AgentIsGivenFiles
<1>7. CASE RowIsRemoved
  BY <1>7, TableKept, Revoked DEF RowIsRemoved
<1>8. ASSUME NEW t \in Tokens, Revoke(t) PROVE MintedOnly'
  <2>1. Minted' = Minted
    BY <1>8 DEF Revoke, Minted
  <2> QED
    BY <1>8, <2>1 DEF Revoke
<1>9. ASSUME NEW r \in RegCalls, NEW b \in Boxes, RegisterCalls(r, b) PROVE MintedOnly'
  <2>1. NoToken \in Minted
    BY DEF Minted
  <2> QED
    BY <1>9, <2>1, TableKept, CallEntry DEF RegisterCalls
<1>10. ASSUME NEW r \in RegCalls, GateMove(r) PROVE MintedOnly'
  <2>1. NoToken \in Minted
    BY DEF Minted
  <2> QED
    BY <1>10, <2>1, TableKept, GateEntry DEF GateMove
<1>11. ASSUME NEW r \in RegCalls, IssueFirst(r) PROVE MintedOnly'
  <2>1. CASE UNCHANGED authToken /\ reg'[r].tok = reg[r].tok
    BY <1>11, <2>1, TableKept, IssueEntry
  <2>2. ASSUME NEW t \in Tokens, IssueToken(t), reg'[r].tok = t PROVE MintedOnly'
    BY <1>11, <2>2, Issued, IssueEntry
  <2> QED
    BY <1>11, <2>1, <2>2, IssueEntry
<1>12. ASSUME NEW r \in RegCalls, RegisterAnswers(r) PROVE MintedOnly'
  <2>1. NoToken \in Minted
    BY DEF Minted
  <2> QED
    BY <1>12, <2>1, TableKept, AnswerEntry
<1> QED
  BY ONLY TokenTypeOK, TokenStep, RegisterSteps,
          <1>1, <1>2, <1>3, <1>4, <1>5, <1>6, <1>7, <1>8, <1>9, <1>10, <1>11, <1>12
     DEF TokenStep, ProvisionStep

LEMMA CallersKept ==
    ASSUME TokenTypeOK, CallersStarted, TokenStep
    PROVE  CallersStarted'
<1> USE DEF CallersStarted, TokenTypeOK, ProvGoto, RegKeeps, ProvKeeps, Started
<1>1. ASSUME NEW b \in Boxes, ProvisionBegins(b) PROVE CallersStarted'
  BY <1>1 DEF ProvisionBegins
<1>2. ASSUME NEW b \in Boxes, ProvisionRevokes(b) PROVE CallersStarted'
  BY <1>2 DEF ProvisionRevokes
<1>3. ASSUME NEW b \in Boxes, issueAndInjectToken(b) PROVE CallersStarted'
  BY <1>3 DEF issueAndInjectToken
<1>4. ASSUME NEW b \in Boxes, WriteAuthTokenToVolume(b) PROVE CallersStarted'
  BY <1>4 DEF WriteAuthTokenToVolume
<1>5. ASSUME NEW b \in Boxes, AgentStarts(b) PROVE CallersStarted'
  BY <1>5 DEF AgentStarts
<1>6. ASSUME NEW b \in Boxes, AgentIsGivenFiles(b) PROVE CallersStarted'
  BY <1>6 DEF AgentIsGivenFiles
<1>7. CASE RowIsRemoved
  BY <1>7 DEF RowIsRemoved
<1>8. ASSUME NEW t \in Tokens, Revoke(t) PROVE CallersStarted'
  BY <1>8 DEF Revoke
<1>9. ASSUME NEW r \in RegCalls, NEW b \in Boxes, RegisterCalls(r, b) PROVE CallersStarted'
  BY <1>9, CallEntry DEF RegisterCalls
<1>10. ASSUME NEW r \in RegCalls, GateMove(r) PROVE CallersStarted'
  BY <1>10, GateEntry DEF GateMove
<1>11. ASSUME NEW r \in RegCalls, IssueFirst(r) PROVE CallersStarted'
  BY <1>11, IssueEntry
<1>12. ASSUME NEW r \in RegCalls, RegisterAnswers(r) PROVE CallersStarted'
  BY <1>12, AnswerEntry
<1> QED
  BY ONLY TokenTypeOK, TokenStep, RegisterSteps,
          <1>1, <1>2, <1>3, <1>4, <1>5, <1>6, <1>7, <1>8, <1>9, <1>10, <1>11, <1>12
     DEF TokenStep, ProvisionStep

LEMMA GateKept ==
    ASSUME TokenTypeOK, CallersStarted, GateSerial, TokenStep
    PROVE  GateSerial'
<1> USE FaultsCount DEF GateSerial, TokenTypeOK, ProvGoto, RegKeeps, ProvKeeps, Underway
<1>1. ASSUME NEW b \in Boxes, ProvisionBegins(b) PROVE GateSerial'
  BY <1>1 DEF ProvisionBegins
<1>2. ASSUME NEW b \in Boxes, ProvisionRevokes(b) PROVE GateSerial'
  BY <1>2 DEF ProvisionRevokes
<1>3. ASSUME NEW b \in Boxes, issueAndInjectToken(b) PROVE GateSerial'
  BY <1>3 DEF issueAndInjectToken
<1>4. ASSUME NEW b \in Boxes, WriteAuthTokenToVolume(b) PROVE GateSerial'
  BY <1>4 DEF WriteAuthTokenToVolume
<1>5. ASSUME NEW b \in Boxes, AgentStarts(b) PROVE GateSerial'
  BY <1>5 DEF AgentStarts
<1>6. ASSUME NEW b \in Boxes, AgentIsGivenFiles(b) PROVE GateSerial'
  BY <1>6 DEF AgentIsGivenFiles
<1>7. CASE RowIsRemoved
  BY <1>7 DEF RowIsRemoved
<1>8. ASSUME NEW t \in Tokens, Revoke(t) PROVE GateSerial'
  BY <1>8 DEF Revoke
<1>9. ASSUME NEW r \in RegCalls, NEW b \in Boxes, RegisterCalls(r, b) PROVE GateSerial'
  BY <1>9 DEF RegisterCalls
<1>10. ASSUME NEW r \in RegCalls, GateMove(r) PROVE GateSerial'
  BY <1>10 DEF GateMove
<1>11. ASSUME NEW r \in RegCalls, IssueFirst(r) PROVE GateSerial'
  BY <1>11, IssueEntry
<1>12. ASSUME NEW r \in RegCalls, RegisterAnswers(r) PROVE GateSerial'
  BY <1>12, AnswerEntry
<1> QED
  BY ONLY TokenTypeOK, TokenStep, RegisterSteps,
          <1>1, <1>2, <1>3, <1>4, <1>5, <1>6, <1>7, <1>8, <1>9, <1>10, <1>11, <1>12
     DEF TokenStep, ProvisionStep
LEMMA LatestKept ==
    ASSUME TokenTypeOK, CallersStarted, GateSerial, LatestKeeps, TokenStep
    PROVE  LatestKeeps'
<1> USE FaultsCount, TokenRange DEF TokenTypeOK, ProvGoto, RegKeeps, ProvKeeps
<1>1. ASSUME NEW b \in Boxes, ProvisionBegins(b) PROVE LatestKeeps'
  BY <1>1, TableKept DEF ProvisionBegins, LatestKeeps, GateSerial, Underway, RegRemoved, ProvPCs, Started
<1>2. ASSUME NEW b \in Boxes, ProvisionRevokes(b) PROVE LatestKeeps'
  <2>1. \A r \in RegCalls : reg[r].box = b => reg[r].pc = "idle" /\ reg[r].tok = NoToken
    BY <1>2 DEF ProvisionRevokes, CallersStarted, Started
  <2>2. CASE RegFault
    BY <2>2 DEF LatestKeeps
  <2>3. CASE regMode = "saas"
    BY <1>2, <2>3 DEF LatestKeeps, ProvisionRevokes
  <2>4. CASE ~RegFault /\ regMode # "saas"
    <3>1. latest' = b /\ prov'[b] = "issue" /\ UNCHANGED reg
      BY <1>2, <2>4 DEF ProvisionRevokes
    <3> QED
      BY ONLY <2>1, <3>1 DEF LatestKeeps, Started
  <2> QED
    BY ONLY <2>2, <2>3, <2>4
<1>3. ASSUME NEW b \in Boxes, issueAndInjectToken(b) PROVE LatestKeeps'
  <2>1. CASE RegFault
    BY <2>1 DEF LatestKeeps
  <2>2. ASSUME NEW t \in Tokens, IssueToken(t), fresh' = [fresh EXCEPT ![b] = t], RegFine,
               ProvGoto(b, "issue", IF regMode = "external" THEN "start" ELSE "write")
        PROVE  LatestKeeps'
    BY <1>3, <2>2, Issued DEF issueAndInjectToken, LatestKeeps, Started, RegRemoved
  <2> QED
    BY <1>3, <2>1, <2>2 DEF issueAndInjectToken
<1>4. ASSUME NEW b \in Boxes, WriteAuthTokenToVolume(b) PROVE LatestKeeps'
  BY <1>4, TableKept DEF WriteAuthTokenToVolume, LatestKeeps, CallersStarted, GateSerial, Underway,
                         Started, RegRemoved
<1>5. ASSUME NEW b \in Boxes, AgentStarts(b) PROVE LatestKeeps'
  <2>1. regMode = "docker" /\ regFaults = 0 => b = latest
    BY <1>5 DEF AgentStarts, GateSerial, Underway
  <2>2. b = latest => \A r \in RegCalls : reg[r].box = b => reg[r].pc = "idle"
    BY <1>5 DEF AgentStarts, CallersStarted, Started
  <2> QED
    BY <1>5, <2>1, <2>2, TableKept DEF AgentStarts, LatestKeeps, Started, RegRemoved
<1>6. ASSUME NEW b \in Boxes, AgentIsGivenFiles(b) PROVE LatestKeeps'
  <2>1. regMode # "saas" => regMode = "docker"
    BY <1>6 DEF AgentIsGivenFiles, CallersStarted
  <2>2. regMode = "docker" /\ regFaults = 0 => b = latest
    BY <1>6 DEF AgentIsGivenFiles, GateSerial, Underway
  <2>3. RegFault \/ RegFine
    BY <1>6 DEF AgentIsGivenFiles
  <2> QED
    BY <1>6, <2>1, <2>2, <2>3, TableKept DEF AgentIsGivenFiles, LatestKeeps, Started, RegRemoved, Live
<1>7. CASE RowIsRemoved
  BY <1>7 DEF RowIsRemoved, LatestKeeps, RegRemoved
<1>8. ASSUME NEW t \in Tokens, Revoke(t) PROVE LatestKeeps'
  BY <1>8 DEF Revoke, LatestKeeps
<1>9. ASSUME NEW r \in RegCalls, NEW b \in Boxes, RegisterCalls(r, b) PROVE LatestKeeps'
  BY <1>9, CallEntry, TableKept DEF RegisterCalls, LatestKeeps, Started, RegRemoved
<1>10. ASSUME NEW r \in RegCalls, GateMove(r) PROVE LatestKeeps'
  <2>1. Live' = Live
    BY <1>10, TableKept DEF GateMove
  <2>2. CASE regFaults' = 0 /\ ~RegRemoved' /\ regMode # "saas"
    <3>1. regFaults = 0 /\ ~RegRemoved
      BY <1>10, <2>2 DEF GateMove
    <3>2. reg[r].pc # "idle" /\ reg[r].box = latest => Live # {}
      BY ONLY LatestKeeps, CallersStarted, <3>1, <2>2, r \in RegCalls
         DEF LatestKeeps, CallersStarted, Started
    <3> QED
      BY ONLY LatestKeeps, <1>10, <2>1, <2>2, <3>1, <3>2, GateEntry, TokenTypeOK, CallersStarted
         DEF LatestKeeps, GateMove, RegKeeps, Started
  <2>3. CASE ~(regFaults' = 0 /\ ~RegRemoved' /\ regMode # "saas")
    BY <1>10, <2>3 DEF GateMove, LatestKeeps
  <2> QED
    BY ONLY <2>2, <2>3
<1>11. ASSUME NEW r \in RegCalls, IssueFirst(r) PROVE LatestKeeps'
  <2>1. CASE RegFault
    BY <2>1 DEF LatestKeeps
  <2>2. ASSUME NEW t \in Tokens, RegFine, IssueToken(t), reg'[r].tok = t
        PROVE  LatestKeeps'
    BY <1>11, <2>2, Issued, IssueEntry DEF LatestKeeps, Started, RegRemoved
  <2> QED
    BY <1>11, <2>1, <2>2, IssueEntry
<1>12. ASSUME NEW r \in RegCalls, RegisterAnswers(r) PROVE LatestKeeps'
  <2>1. RegFault \/ RegFine
    BY <1>12, AnswerEntry
  <2> QED
    BY <1>12, <2>1, AnswerEntry, TableKept DEF LatestKeeps, Started, RegRemoved
<1> QED
  BY ONLY TokenTypeOK, TokenStep, RegisterSteps,
          <1>1, <1>2, <1>3, <1>4, <1>5, <1>6, <1>7, <1>8, <1>9, <1>10, <1>11, <1>12
     DEF TokenStep, ProvisionStep

LEMMA BoxKept ==
    ASSUME TokenTypeOK, CallersStarted, GateSerial, BoxMints, TokenStep
    PROVE  BoxMints'
<1> USE FaultsCount, TokenRange DEF TokenTypeOK, ProvGoto, RegKeeps, ProvKeeps
<1>1. ASSUME NEW b \in Boxes, ProvisionBegins(b) PROVE BoxMints'
  BY <1>1 DEF ProvisionBegins, BoxMints
<1>2. ASSUME NEW b \in Boxes, ProvisionRevokes(b) PROVE BoxMints'
  <2>1. CASE RegFault \/ regMode # "saas" \/ crossedReg'
    BY <1>2, <2>1 DEF ProvisionRevokes, BoxMints
  <2>2. CASE ~(RegFault \/ regMode # "saas" \/ crossedReg')
    <3>1. /\ \A r \in RegCalls : reg[r].pc = "idle"
          /\ RevokeAll /\ prov'[b] = "start" /\ latest' = b /\ UNCHANGED reg
      BY ONLY <1>2, <2>2, TokenTypeOK DEF ProvisionRevokes, TokenTypeOK, ProvGoto, ProvKeeps
    <3>2. \A r \in RegCalls : reg[r].tok = NoToken
      BY <3>1 DEF CallersStarted
    <3>3. Live' = {}
      BY <3>1, Revoked
    <3> QED
      BY ONLY <3>1, <3>2, <3>3 DEF BoxMints
  <2> QED
    BY ONLY <2>1, <2>2
<1>3. ASSUME NEW b \in Boxes, issueAndInjectToken(b) PROVE BoxMints'
  BY <1>3 DEF issueAndInjectToken, BoxMints, CallersStarted
<1>4. ASSUME NEW b \in Boxes, WriteAuthTokenToVolume(b) PROVE BoxMints'
  BY <1>4 DEF WriteAuthTokenToVolume, BoxMints, CallersStarted
<1>5. ASSUME NEW b \in Boxes, AgentStarts(b) PROVE BoxMints'
  <2>1. regMode = "saas" /\ regFaults = 0 => b = latest
    BY <1>5 DEF AgentStarts, GateSerial, Underway
  <2> QED
    BY <1>5, <2>1, TableKept DEF AgentStarts, BoxMints, CallersStarted, RegRemoved
<1>6. ASSUME NEW b \in Boxes, AgentIsGivenFiles(b) PROVE BoxMints'
  BY <1>6 DEF AgentIsGivenFiles, BoxMints, CallersStarted
<1>7. CASE RowIsRemoved
  BY <1>7 DEF RowIsRemoved, BoxMints, RegRemoved
<1>8. ASSUME NEW t \in Tokens, Revoke(t) PROVE BoxMints'
  BY <1>8 DEF Revoke, BoxMints
<1>9. ASSUME NEW r \in RegCalls, NEW b \in Boxes, RegisterCalls(r, b) PROVE BoxMints'
  <2>1. regMode = "saas" /\ regFaults = 0 => b = latest /\ prov[b] # "start"
    BY <1>9 DEF RegisterCalls, GateSerial, CallersStarted, Started
  <2>2. reg[r].tok = NoToken
    BY <1>9, CallEntry DEF CallersStarted
  <2>3. ~crossedReg' => ~crossedReg
    BY ONLY <1>9 DEF RegisterCalls
  <2>4. /\ UNCHANGED <<regRow, authToken, held, regFaults, regMode, regUp, prov, latest>>
        /\ b \in regUp
    BY ONLY <1>9 DEF RegisterCalls
  <2> QED
    BY <1>9, <2>1, <2>2, <2>3, <2>4, CallEntry, TableKept DEF BoxMints, RegRemoved
<1>10. ASSUME NEW r \in RegCalls, GateMove(r) PROVE BoxMints'
  BY <1>10, GateEntry, TableKept DEF GateMove, BoxMints
<1>11. ASSUME NEW r \in RegCalls, IssueFirst(r) PROVE BoxMints'
  <2>1. CASE RegFault
    BY <2>1 DEF BoxMints
  <2>2. ASSUME NEW t \in Tokens, RegFine, IssueToken(t), reg'[r].tok = t
        PROVE  BoxMints'
    BY <1>11, <2>2, Issued, IssueEntry DEF BoxMints, RegRemoved
  <2> QED
    BY <1>11, <2>1, <2>2, IssueEntry
<1>12. ASSUME NEW r \in RegCalls, RegisterAnswers(r) PROVE BoxMints'
  <2>1. CASE RegFault
    BY <2>1 DEF BoxMints
  <2>2. CASE RegFine
    <3>1. ASSUME regMode' = "saas", regFaults' = 0, ~RegRemoved', ~crossedReg',
                 \A b \in Boxes : prov'[b] # "revoke"
          PROVE  /\ regMode = "saas" /\ regFaults = 0 /\ ~RegRemoved /\ ~crossedReg
                 /\ \A b \in Boxes : prov[b] # "revoke"
      BY <1>12, <2>2, <3>1, AnswerEntry DEF RegRemoved
    <3>2. ASSUME regMode = "saas", regFaults = 0, ~RegRemoved, ~crossedReg,
                 \A b \in Boxes : prov[b] # "revoke"
          PROVE  reg[r].box = latest /\ latest \in regUp
      BY <1>12, <3>2, AnswerEntry DEF BoxMints
    <3> QED
      BY <1>12, <2>2, <3>1, <3>2, AnswerEntry, TableKept DEF BoxMints
  <2> QED
    BY <1>12, <2>1, <2>2, AnswerEntry
<1> QED
  BY ONLY TokenTypeOK, TokenStep, RegisterSteps,
          <1>1, <1>2, <1>3, <1>4, <1>5, <1>6, <1>7, <1>8, <1>9, <1>10, <1>11, <1>12
     DEF TokenStep, ProvisionStep

LEMMA ReplacedKept ==
    ASSUME TokenTypeOK, MintedOnly, CallersStarted, GateSerial, ReplacedStaysOut, TokenStep
    PROVE  ReplacedStaysOut'
<1> USE FaultsCount, TokenRange DEF TokenTypeOK, ProvGoto, RegKeeps, ProvKeeps
<1>1. ASSUME NEW b \in Boxes, ProvisionBegins(b) PROVE ReplacedStaysOut'
  <2>1. CASE RegFault
    BY <2>1 DEF ReplacedStaysOut
  <2>2. CASE RegFine
    BY <1>1, <2>2, TableKept DEF ProvisionBegins, ReplacedStaysOut, Underway, RegFault, RegFine
  <2> QED
    BY <1>1, <2>1, <2>2 DEF ProvisionBegins
<1>2. ASSUME NEW b \in Boxes, ProvisionRevokes(b) PROVE ReplacedStaysOut'
  <2>1. CASE RegFault \/ crossedReg'
    BY <1>2, <2>1 DEF ReplacedStaysOut
  <2>2. CASE ~(RegFault \/ crossedReg')
    <3>1. /\ \A r \in RegCalls : reg[r].pc = "idle"
          /\ \A c \in Boxes \ {b} : ~Underway(c)
          /\ RevokeAll /\ RegFine /\ latest' = b /\ UNCHANGED <<reg, held, regUp, regMode>>
          /\ prov[b] = "revoke"
          /\ prov' = [prov EXCEPT ![b] = IF regMode = "saas" THEN "start" ELSE "issue"]
      BY ONLY <1>2, <2>2 DEF ProvisionRevokes, ProvGoto, ProvKeeps
    <3>2. Live' = {}
      BY <3>1, Revoked
    <3>3. regFaults' = 0 /\ regMode # "external" => regUp = {}
      BY <3>1 DEF GateSerial, Underway
    <3> QED
      BY <3>1, <3>2, <3>3 DEF ReplacedStaysOut, Underway
  <2> QED
    BY ONLY <2>1, <2>2
<1>3. ASSUME NEW b \in Boxes, issueAndInjectToken(b) PROVE ReplacedStaysOut'
  <2>1. CASE RegFault
    BY <2>1 DEF ReplacedStaysOut
  <2>2. ASSUME NEW t \in Tokens, IssueToken(t), RegFine,
               ProvGoto(b, "issue", IF regMode = "external" THEN "start" ELSE "write")
        PROVE  ReplacedStaysOut'
    <3>1. /\ UNCHANGED <<regMode, reg, regUp, held, latest, crossedReg>>
      BY <1>3 DEF issueAndInjectToken
    <3>2. \A c \in Boxes : held[c] # t
      BY <2>2, Issued DEF MintedOnly
    <3> QED
      BY <2>2, <3>1, <3>2, Issued DEF ReplacedStaysOut, Underway
  <2> QED
    BY <1>3, <2>1, <2>2 DEF issueAndInjectToken
<1>4. ASSUME NEW b \in Boxes, WriteAuthTokenToVolume(b) PROVE ReplacedStaysOut'
  BY <1>4, TableKept DEF WriteAuthTokenToVolume, ReplacedStaysOut, Underway
<1>5. ASSUME NEW b \in Boxes, AgentStarts(b) PROVE ReplacedStaysOut'
  BY <1>5, TableKept DEF AgentStarts, ReplacedStaysOut, Underway
<1>6. ASSUME NEW b \in Boxes, AgentIsGivenFiles(b) PROVE ReplacedStaysOut'
  <2>1. RegFault \/ RegFine
    BY <1>6 DEF AgentIsGivenFiles
  <2> QED
    BY <1>6, <2>1, TableKept DEF AgentIsGivenFiles, ReplacedStaysOut, Underway
<1>7. CASE RowIsRemoved
  <2>1. CASE regRow = "revoking"
    BY <1>7, <2>1, Revoked DEF RowIsRemoved, ReplacedStaysOut, Underway
  <2>2. CASE regRow # "revoking"
    BY <1>7, <2>2, TableKept DEF RowIsRemoved, ReplacedStaysOut, Underway
  <2> QED
    BY ONLY <2>1, <2>2
<1>8. ASSUME NEW t \in Tokens, Revoke(t) PROVE ReplacedStaysOut'
  BY <1>8 DEF Revoke, ReplacedStaysOut
<1>9. ASSUME NEW r \in RegCalls, NEW b \in Boxes, RegisterCalls(r, b) PROVE ReplacedStaysOut'
  BY <1>9, CallEntry, TableKept DEF RegisterCalls, ReplacedStaysOut, Underway
<1>10. ASSUME NEW r \in RegCalls, GateMove(r) PROVE ReplacedStaysOut'
  BY <1>10, GateEntry, TableKept DEF GateMove, ReplacedStaysOut, Underway
<1>11. ASSUME NEW r \in RegCalls, IssueFirst(r) PROVE ReplacedStaysOut'
  <2>1. CASE RegFault
    BY <2>1 DEF ReplacedStaysOut
  <2>2. ASSUME NEW t \in Tokens, RegFine, IssueToken(t), reg'[r].tok = t
        PROVE  ReplacedStaysOut'
    <3>1. \A c \in Boxes : held[c] # t
      BY <2>2, Issued DEF MintedOnly
    <3> QED
      BY <1>11, <2>2, <3>1, Issued, IssueEntry DEF ReplacedStaysOut, Underway
  <2> QED
    BY <1>11, <2>1, <2>2, IssueEntry
<1>12. ASSUME NEW r \in RegCalls, RegisterAnswers(r) PROVE ReplacedStaysOut'
  <2>1. RegFault \/ RegFine
    BY <1>12, AnswerEntry
  <2> QED
    BY <1>12, <2>1, AnswerEntry, TableKept DEF ReplacedStaysOut, Underway
<1> QED
  BY ONLY TokenTypeOK, TokenStep, RegisterSteps,
          <1>1, <1>2, <1>3, <1>4, <1>5, <1>6, <1>7, <1>8, <1>9, <1>10, <1>11, <1>12
     DEF TokenStep, ProvisionStep
-----------------------------------------------------------------------------
(* The specification.                                                      *)

RegInv == RegTypeOK /\ TokenInv /\ VerdictInv

LEMMA RegInvInit == RegInit => RegInv
<1> SUFFICES ASSUME RegInit PROVE RegInv
  OBVIOUS
<1> USE TokensAssumption, SessionsAssumption DEF RegInit
<1>1. RegTypeOK
  <2>1. member \in BOOLEAN
    BY ONLY RegInit DEF RegInit
  <2>2. TokenTypeOK
    <3>1. crossedReg \in BOOLEAN
      BY ONLY RegInit DEF RegInit
    <3>2. reg \in [RegCalls -> [pc : RegPCs, box : Boxes, bearer : Tokens \cup {NoToken},
                               tok : Tokens \cup {NoToken}]]
      BY DEF RegPCs, RegIdle
    <3>3. regFaults \in 0..MaxRegFaults /\ regUp \subseteq Boxes /\ latest \in Boxes
      OBVIOUS
    <3>4. /\ regMode \in {"docker", "saas", "external"} /\ regKind \in {"workspace", "platform"}
          /\ regRow \in {"provisioning", "online", "failed", "removed", "revoking"}
      OBVIOUS
    <3>5. /\ authToken \in [Tokens -> {"unborn", "live", "revoked"}]
          /\ prov \in [Boxes -> ProvPCs]
      BY DEF ProvPCs
    <3>6. /\ authFile \in Tokens \cup {NoToken}
          /\ held \in [Boxes -> Tokens \cup {NoToken}] /\ fresh \in [Boxes -> Tokens \cup {NoToken}]
      OBVIOUS
    <3> QED
      BY ONLY <3>1, <3>2, <3>3, <3>4, <3>5, <3>6 DEF TokenTypeOK
  <2>3. SessionTypeOK
    BY <2>1 DEF SessionTypeOK, VerifyPCs, VerifyIdle, NoVerdict
  <2> QED
    BY ONLY <2>2, <2>3, TypesSplit
<1>2. TokenInv
  <2>1. MintedOnly
    BY DEF MintedOnly, Minted, RegIdle
  <2>2. CallersStarted
    BY DEF CallersStarted, Started, RegIdle
  <2>3. GateSerial
    BY DEF GateSerial, Underway
  <2>4. LatestKeeps
    BY DEF LatestKeeps, RegRemoved, RegIdle, Started
  <2>5. BoxMints
    BY DEF BoxMints
  <2>6. ReplacedStaysOut
    BY TokenRange DEF ReplacedStaysOut, Underway, RegIdle, Live
  <2> QED
    BY ONLY <2>1, <2>2, <2>3, <2>4, <2>5, <2>6 DEF TokenInv
<1>3. VerdictInv
  BY DEF VerdictInv, VerifyIdle, NoVerdict
<1> QED
  BY ONLY <1>1, <1>2, <1>3 DEF RegInv

LEMMA RegInvStep == RegInv /\ [RegNext]_regVars => RegInv'
<1> SUFFICES ASSUME RegInv, [RegNext]_regVars PROVE RegInv'
  OBVIOUS
<1>1. TokenTypeOK /\ SessionTypeOK /\ TokenInv /\ VerdictInv
  BY TypesSplit DEF RegInv
<1>2. ASSUME UNCHANGED sessionVars PROVE SessionTypeOK' /\ VerdictInv'
  BY <1>1, <1>2 DEF sessionVars, SessionTypeOK, VerdictInv
<1>3. ASSUME UNCHANGED tokenVars PROVE TokenTypeOK' /\ TokenInv'
  <2>1. TokenTypeOK'
    BY <1>1, <1>3 DEF tokenVars, TokenTypeOK
  <2>2. MintedOnly'
    BY <1>1, <1>3 DEF tokenVars, TokenInv, MintedOnly, Minted
  <2>3. CallersStarted'
    BY <1>1, <1>3 DEF tokenVars, TokenInv, CallersStarted
  <2>4. GateSerial'
    BY <1>1, <1>3 DEF tokenVars, TokenInv, GateSerial, Underway
  <2>5. LatestKeeps'
    BY <1>1, <1>3, TableKept DEF tokenVars, TokenInv, LatestKeeps, RegRemoved
  <2>6. BoxMints'
    BY <1>1, <1>3, TableKept DEF tokenVars, TokenInv, BoxMints, RegRemoved
  <2>7. ReplacedStaysOut'
    BY <1>1, <1>3, TableKept DEF tokenVars, TokenInv, ReplacedStaysOut, Underway
  <2> QED
    BY ONLY <2>1, <2>2, <2>3, <2>4, <2>5, <2>6, <2>7 DEF TokenInv
<1>4. CASE TokenStep /\ UNCHANGED sessionVars
  <2>1. TokenTypeOK'
    BY <1>1, <1>4, TokenTypes
  <2>2. TokenInv'
    BY <1>1, <1>4, MintedKept, CallersKept, GateKept, LatestKept, BoxKept, ReplacedKept DEF TokenInv
  <2>3. RegTypeOK'
    BY <1>2, <1>4, <2>1 DEF RegTypeOK, TokenTypeOK, SessionTypeOK
  <2> QED
    BY <1>2, <1>4, <2>2, <2>3 DEF RegInv
<1>5. CASE SessionStep
  <2>1. UNCHANGED tokenVars
    BY <1>5 DEF SessionStep, VerifyBegins, sessionCacheGet, ControlPlaneAnswers, sessionCachePut,
                MembershipChanges, WallTicks
  <2>2. SessionTypeOK' /\ VerdictInv'
    BY <1>1, <1>5, SessionTypes, SessionKeepsVerdicts
  <2>3. RegTypeOK'
    BY <1>3, <2>1, <2>2 DEF RegTypeOK, TokenTypeOK, SessionTypeOK
  <2> QED
    BY <1>3, <2>1, <2>2, <2>3 DEF RegInv
<1>6. CASE UNCHANGED regVars
  <2>1. UNCHANGED tokenVars /\ UNCHANGED sessionVars
    BY <1>6 DEF regVars
  <2>2. RegTypeOK'
    BY <1>2, <1>3, <2>1 DEF RegTypeOK, TokenTypeOK, SessionTypeOK
  <2> QED
    BY <1>2, <1>3, <2>1, <2>2 DEF RegInv
<1> QED
  BY <1>4, <1>5, <1>6 DEF RegNext

\* The token of the last provision, or of the box it made, is the one that works.
LEMMA RegInvLetsIn == RegInv => SomeAgentIsLetIn
<1> SUFFICES ASSUME RegInv, RegQuiet, ~RegRemoved, Live # {}, regFaults = 0,
                    regMode = "saas" => ~crossedReg
             PROVE  \E b \in regUp : held[b] \in Live
  BY DEF SomeAgentIsLetIn
<1>1. /\ latest \in Boxes /\ prov[latest] \in ProvPCs
      /\ \A b \in Boxes : prov[b] # "revoke"
      /\ \A r \in RegCalls : reg[r].tok = NoToken
  BY DEF RegInv, RegTypeOK, RegQuiet, Underway, TokenInv, CallersStarted
<1>2. CASE regMode = "saas"
  <2>1. /\ prov[latest] \in {"start", "done"}
        /\ prov[latest] = "done" => latest \in regUp
        /\ Live # {} => held[latest] \in Live \/ \E r \in RegCalls : reg[r].tok # NoToken
    BY <1>1, <1>2 DEF RegInv, TokenInv, BoxMints
  <2> QED
    BY <1>1, <2>1 DEF RegQuiet, Underway
<1>3. CASE regMode # "saas"
  <2>1. prov[latest] = "done"
    BY <1>1, <1>3 DEF RegInv, TokenInv, LatestKeeps, RegQuiet, Underway
  <2> QED
    BY <1>1, <1>3, <2>1 DEF RegInv, TokenInv, LatestKeeps, Started
<1> QED
  BY <1>2, <1>3

\* Whatever overlaps, the agents of a workspace can register and those that were
\* replaced cannot, no door opens on a failed look-up, and no cached verdict
\* outlives the membership by more than its time to live and one call (Register,
\* issueAndInjectToken, RotateExternalCredentials, VerifiedCPSession).
THEOREM AccessStaysCurrent == RegSpec => []AccessIsCurrent
<1>1. RegInv => AccessIsCurrent
  <2>1. RegInv => ReplacedIsOut
    BY DEF RegInv, TokenInv, ReplacedStaysOut, ReplacedIsOut
  <2> QED
    BY <2>1, RegInvLetsIn, VerdictInvSuffices, DoorsAlwaysShut DEF RegInv, AccessIsCurrent
<1> QED
  BY <1>1, RegInvInit, RegInvStep, PTL DEF RegSpec

-----------------------------------------------------------------------------
(* CPInstances.  The row's instance_id and its cloud are all that is known   *)
(* of an instance.  One provision is under way at a time (the gate), and a    *)
(* move that met nobody is alone, so what the stop resolved is what is on     *)
(* file when the id is cleared, and the instance that is asked for next is    *)
(* asked for on the cloud on file.                                            *)

\* The provisions that are under way.
Under == {b \in Boots : bootPC[b] \notin {"read", "done"}}

\* The instance on file, if there is one, does not run.
FileIsIdle == instance = NoInstance \/ machine[instance] # "running"

\* No call has failed, no delete has marked the row, and none of them met a move.
Smooth == cpFaults = 0 /\ ~crossed /\ cpDel \in {"read", "mark"}

\* An id is on file only once its provision is over, and is never its again.
FiledIsDone ==
    /\ instance # NoInstance => bootPC[instance] = "done"
    /\ candidate # NoInstance => bootPC[candidate] = "done"

\* What the reconciler saw of its candidate stays so while the id is on file.
CandidateInv ==
    /\ recon \in {"check", "reconfirm"} => candidate # NoInstance
    /\ recon = "reconfirm" /\ instance = candidate
          => machine[instance] # "running" \/ madeOn[instance] # cloud

\* One provision at a time, on the cloud on file, over an idle instance.
BootsInv ==
    /\ \A b \in Boots : madeOn[b] = "second" => cloud = "second"
    /\ \A b \in Boots : bootPC[b] \in {"start", "persist"} /\ ~crossed => madeOn[b] = cloud
    /\ \A b, c \in Under : b = c
    /\ Smooth => \A b \in Boots :
          /\ bootPC[b] = "terminate" => instance \in {target[b], NoInstance}
          /\ bootPC[b] \in {"mark", "start", "persist"} => FileIsIdle

\* A move that met nobody stops what is on file before it writes.
SwitchInv ==
    /\ switch.pc = "read" => ~crossed
    /\ Moving /\ ~crossed => NobodyElse
    /\ switch.prior \notin CPDead
    /\ switch.stuck => switch.kind = "switch" /\ cpFaults > 0
    /\ switch.pc = "dispatch" /\ switch.stuck => switch.named = switch.old \/ cpFaults > 1
    /\ ~crossed => /\ switch.pc = "terminate" => instance \in {target["switch"], NoInstance}
                   /\ switch.pc = "write" /\ ~switch.stuck => FileIsIdle
                   /\ switch.pc \in {"name", "dispatch"} => instance = NoInstance

\* The row is dead, and the sweeper at work, only once a delete has marked it.
LateInv ==
    /\ cpRow \in CPDead \/ cpSweep # "select" => cpDel \notin {"read", "mark"}
    /\ Smooth => lost = {}

\* The inductive invariant.
CPInv ==
    /\ CPTypeOK /\ RunningIsOnFile /\ CloudIsTheInstances
    /\ FiledIsDone /\ CandidateInv /\ BootsInv /\ SwitchInv /\ LateInv

\* The record of a move.
Moves == [kind : {"switch", "patch"}, pc : SwitchPCs, prior : CPRows,
          old : Boots \cup {NoInstance}, stuck : BOOLEAN, named : Boots \cup {NoInstance}]

\* A move that goes from one step to another keeps what it has read.
LEMMA MovePC ==
  ASSUME NEW s \in Moves, NEW pc \in SwitchPCs
  PROVE  LET t == [s EXCEPT !.pc = pc]
         IN  /\ t \in Moves /\ t.kind = s.kind /\ t.pc = pc /\ t.prior = s.prior
             /\ t.old = s.old /\ t.stuck = s.stuck /\ t.named = s.named
  BY DEF Moves

\* MoveGoto, field by field.
LEMMA MoveGoes ==
  ASSUME switch \in Moves, NEW from, NEW to \in SwitchPCs, MoveGoto(from, to)
  PROVE  /\ switch' \in Moves /\ switch'.kind = switch.kind /\ switch.pc = from /\ switch'.pc = to
         /\ to # "done" => /\ switch'.prior = switch.prior /\ switch'.old = switch.old
                           /\ switch'.stuck = switch.stuck /\ switch'.named = switch.named
         /\ to = "done" => switch'.prior = "online" /\ switch'.stuck = FALSE
<1>1. CASE to = "done"
  <2>1. switch' = MoveEnds
    BY <1>1 DEF MoveGoto
  <2> QED
    BY <1>1, <2>1 DEF MoveGoto, MoveEnds, Moves, CPRows, SwitchPCs
<1>2. CASE to # "done"
  BY <1>2, MovePC DEF MoveGoto
<1> QED
  BY <1>1, <1>2

\* Every step of a move leaves a move.
LEMMA MoveStaysTyped ==
  ASSUME CPTypeOK, SwitchStep
  PROVE  switch' \in Moves
<1>1. switch \in Moves
  BY DEF CPTypeOK, Moves
<1>2. CASE SwitchReads
  <2>1. PICK pc \in SwitchPCs : switch' = [switch EXCEPT !.pc = pc, !.prior = cpRow, !.old = instance]
    BY <1>2 DEF SwitchReads, SwitchPCs
  <2>2. cpRow \in CPRows /\ instance \in Boots \cup {NoInstance}
    BY DEF CPTypeOK
  <2> QED
    BY <1>1, <2>1, <2>2 DEF Moves
<1>3. CASE SwitchClaims \/ SwitchResolves \/ SwitchWrites \/ SwitchReverts
           \/ \E b \in Boots : SwitchDispatches(b)
  <2>1. \E from, to \in SwitchPCs : MoveGoto(from, to)
    BY <1>3 DEF SwitchClaims, SwitchResolves, SwitchWrites, SwitchReverts, SwitchDispatches, SwitchPCs
  <2> QED
    BY <1>1, <2>1, MoveGoes
<1>4. CASE SwitchTerminates
  <2>1. CASE MoveGoto("terminate", "write")
    BY <1>1, <2>1, MoveGoes DEF SwitchPCs
  <2>2. CASE switch' = [switch EXCEPT !.pc = "write", !.stuck = TRUE]
    BY <1>1, <2>2 DEF Moves, SwitchPCs
  <2>3. CASE switch' = MoveEnds
    BY <1>1, <2>3 DEF Moves, MoveEnds, CPRows, SwitchPCs
  <2> QED
    BY <1>4, <2>1, <2>2, <2>3 DEF SwitchTerminates
<1>5. CASE emitSwitchProviderStopExhausted
  <2>1. CASE MoveGoto("name", "dispatch")
    BY <1>1, <2>1, MoveGoes DEF SwitchPCs
  <2>2. CASE switch' = [switch EXCEPT !.pc = "dispatch", !.named = switch.old]
    BY <1>1, <2>2 DEF Moves, SwitchPCs
  <2> QED
    BY <1>5, <2>1, <2>2 DEF emitSwitchProviderStopExhausted
<1> QED
  BY <1>2, <1>3, <1>4, <1>5 DEF SwitchStep

\* Every step keeps the types.
LEMMA CPTypesStay ==
  ASSUME CPTypeOK, CPNext
  PROVE  CPTypeOK'
<1> USE BootsAssumption, CPFaultsAssumption
    DEF CPFault, BootGoto, Actors, resolveInstanceID, Terminate, Stopped, Forget,
        ClearInstanceID, CPDelGoto, CPDelKeeps, CPSweepKeeps, MoveKeeps, ReconKeeps,
        moveVars, CPTypeOK, CPRows, CPDead, BootPCs, CPDelPCs, CPSweepPCs, ReconPCs,
        Stoppers, Clouds
<1>1. ASSUME NEW b \in Boots, BootStep(b) PROVE CPTypeOK'
  <2>1. CASE RestartCycleReads(b)
    BY <2>1 DEF RestartCycleReads
  <2>2. CASE RestartResolves(b)
    BY <2>2 DEF RestartResolves
  <2>3. CASE RestartTerminates(b)
    BY <2>3 DEF RestartTerminates
  <2>4. CASE RestartMarks(b)
    BY <2>4 DEF RestartMarks
  <2>5. CASE CPStart(b)
    BY <2>5 DEF CPStart
  <2>6. CASE PersistInstanceID(b)
    BY <2>6 DEF PersistInstanceID
  <2>7. CASE CPMarkFailed(b)
    BY <2>7 DEF CPMarkFailed
  <2> QED
    BY <1>1, <2>1, <2>2, <2>3, <2>4, <2>5, <2>6, <2>7 DEF BootStep
<1>2. ASSUME NEW b \in Boots, MachineDies(b) PROVE CPTypeOK'
  BY <1>2 DEF MachineDies
<1>3. CASE CPDeleteStep
  <2>1. CASE CPDeleteReads
    BY <2>1 DEF CPDeleteReads
  <2>2. CASE CPMarkRemoved
    BY <2>2 DEF CPMarkRemoved
  <2>3. CASE DeleteResolves
    BY <2>3 DEF DeleteResolves
  <2>4. CASE DeleteTerminates
    BY <2>4 DEF DeleteTerminates
  <2>5. CASE clearWorkspaceInstanceIDAfterStop
    BY <2>5 DEF clearWorkspaceInstanceIDAfterStop
  <2>6. CASE CPDeletePurges
    BY <2>6 DEF CPDeletePurges
  <2> QED
    BY <1>3, <2>1, <2>2, <2>3, <2>4, <2>5, <2>6 DEF CPDeleteStep
<1>4. CASE CPSweepStep
  BY <1>4 DEF CPSweepStep, CPSweepSelects, CPSweepResolves, CPSweepTerminates, CPSweepClears
<1>5. CASE SwitchStep
  <2>0. switch' \in Moves
    BY <1>5, MoveStaysTyped   <2>1. CASE SwitchReads     BY <2>1, <2>0 DEF SwitchReads,
       Moves
  <2>2. CASE SwitchClaims
    BY <2>2, <2>0 DEF SwitchClaims, Moves
  <2>3. CASE SwitchResolves
    BY <2>3, <2>0 DEF SwitchResolves, Moves
  <2>4. CASE SwitchTerminates
    BY <2>4, <2>0 DEF SwitchTerminates, Moves
  <2>5. CASE SwitchWrites
    BY <2>5, <2>0 DEF SwitchWrites, Moves
  <2>6. CASE emitSwitchProviderStopExhausted
    BY <2>6, <2>0 DEF emitSwitchProviderStopExhausted, Moves
  <2>7. CASE SwitchReverts
    BY <2>7, <2>0 DEF SwitchReverts, Moves
  <2>8. ASSUME NEW b \in Boots, SwitchDispatches(b) PROVE CPTypeOK'
    BY <2>8, <2>0 DEF SwitchDispatches, Moves
  <2> QED
    BY <1>5, <2>1, <2>2, <2>3, <2>4, <2>5, <2>6, <2>7, <2>8 DEF SwitchStep
<1>6. CASE reconcileSelects \/ reconcileChecks \/ reconfirmStillOfflineCandidate \/ ReconcileFlips
  BY <1>6 DEF reconcileSelects, reconcileChecks, reconfirmStillOfflineCandidate,
     ReconcileFlips
<1>7. CASE CPRegister
  BY <1>7 DEF CPRegister
<1> QED
  BY <1>1, <1>2, <1>3, <1>4, <1>5, <1>6, <1>7 DEF CPNext

\* An instance that runs is on file, about to be recorded, or counted as
\* lost.
LEMMA OnFileStays ==
  ASSUME CPTypeOK, RunningIsOnFile, CPNext
  PROVE  RunningIsOnFile'
<1> USE BootsAssumption, CPFaultsAssumption
    DEF CPFault, BootGoto, Actors, resolveInstanceID, Terminate, Stopped, Forget,
        ClearInstanceID, CPDelGoto, CPDelKeeps, CPSweepKeeps, MoveKeeps, ReconKeeps,
        moveVars, CPTypeOK, RunningIsOnFile
<1>1. ASSUME NEW b \in Boots, BootStep(b) PROVE RunningIsOnFile'
  BY <1>1 DEF BootStep, RestartCycleReads, RestartResolves, RestartTerminates, RestartMarks,
     CPStart, PersistInstanceID, CPMarkFailed
<1>2. ASSUME NEW b \in Boots, MachineDies(b) PROVE RunningIsOnFile'
  BY <1>2 DEF MachineDies
<1>3. CASE CPDeleteStep
  BY <1>3 DEF CPDeleteStep, CPDeleteReads, CPMarkRemoved, DeleteResolves, DeleteTerminates,
     clearWorkspaceInstanceIDAfterStop, CPDeletePurges
<1>4. CASE CPSweepStep
  BY <1>4 DEF CPSweepStep, CPSweepSelects, CPSweepResolves, CPSweepTerminates, CPSweepClears
<1>5. CASE SwitchStep
  BY <1>5 DEF SwitchStep, SwitchReads, SwitchClaims, SwitchResolves, SwitchTerminates,
     SwitchWrites, emitSwitchProviderStopExhausted, SwitchReverts, SwitchDispatches,
     MoveGoto
<1>6. CASE reconcileSelects \/ reconcileChecks \/ reconfirmStillOfflineCandidate \/ ReconcileFlips
  BY <1>6 DEF reconcileSelects, reconcileChecks, reconfirmStillOfflineCandidate,
     ReconcileFlips
<1>7. CASE CPRegister
  BY <1>7 DEF CPRegister
<1> QED
  BY <1>1, <1>2, <1>3, <1>4, <1>5, <1>6, <1>7 DEF CPNext

\* The cloud on file is written over an idle instance, and an id is recorded
\* that was asked for on it.
LEMMA CloudStays ==
  ASSUME CPTypeOK, FiledIsDone, BootsInv, SwitchInv, CloudIsTheInstances, CPNext
  PROVE  CloudIsTheInstances'
<1> USE BootsAssumption, CPFaultsAssumption
    DEF CPFault, BootGoto, Actors, resolveInstanceID, Terminate, Stopped, Forget,
        ClearInstanceID, CPDelGoto, CPDelKeeps, CPSweepKeeps, MoveKeeps, ReconKeeps,
        moveVars, CPTypeOK, FiledIsDone, BootsInv, SwitchInv, CloudIsTheInstances,
        FileIsIdle, NobodyElse, MoveEnds
<1>1. ASSUME NEW b \in Boots, BootStep(b) PROVE CloudIsTheInstances'
  BY <1>1 DEF BootStep, RestartCycleReads, RestartResolves, RestartTerminates, RestartMarks,
     CPStart, PersistInstanceID, CPMarkFailed
<1>2. ASSUME NEW b \in Boots, MachineDies(b) PROVE CloudIsTheInstances'
  BY <1>2 DEF MachineDies
<1>3. CASE CPDeleteStep
  BY <1>3 DEF CPDeleteStep, CPDeleteReads, CPMarkRemoved, DeleteResolves, DeleteTerminates,
     clearWorkspaceInstanceIDAfterStop, CPDeletePurges
<1>4. CASE CPSweepStep
  BY <1>4 DEF CPSweepStep, CPSweepSelects, CPSweepResolves, CPSweepTerminates, CPSweepClears
<1>5. CASE SwitchStep
  BY <1>5 DEF SwitchStep, SwitchReads, SwitchClaims, SwitchResolves, SwitchTerminates,
     SwitchWrites, emitSwitchProviderStopExhausted, SwitchReverts, SwitchDispatches,
     MoveGoto
<1>6. CASE reconcileSelects \/ reconcileChecks \/ reconfirmStillOfflineCandidate \/ ReconcileFlips
  BY <1>6 DEF reconcileSelects, reconcileChecks, reconfirmStillOfflineCandidate,
     ReconcileFlips
<1>7. CASE CPRegister
  BY <1>7 DEF CPRegister
<1> QED
  BY <1>1, <1>2, <1>3, <1>4, <1>5, <1>6, <1>7 DEF CPNext

\* The provision that records its id is over with it.
LEMMA FiledStays ==
  ASSUME CPTypeOK, FiledIsDone, CPNext
  PROVE  FiledIsDone'
<1> USE BootsAssumption, CPFaultsAssumption
    DEF CPFault, BootGoto, Actors, resolveInstanceID, Terminate, Stopped, Forget,
        ClearInstanceID, CPDelGoto, CPDelKeeps, CPSweepKeeps, MoveKeeps, ReconKeeps,
        moveVars, CPTypeOK, FiledIsDone
<1>1. ASSUME NEW b \in Boots, BootStep(b) PROVE FiledIsDone'
  BY <1>1 DEF BootStep, RestartCycleReads, RestartResolves, RestartTerminates, RestartMarks,
     CPStart, PersistInstanceID, CPMarkFailed
<1>2. ASSUME NEW b \in Boots, MachineDies(b) PROVE FiledIsDone'
  BY <1>2 DEF MachineDies
<1>3. CASE CPDeleteStep
  BY <1>3 DEF CPDeleteStep, CPDeleteReads, CPMarkRemoved, DeleteResolves, DeleteTerminates,
     clearWorkspaceInstanceIDAfterStop, CPDeletePurges
<1>4. CASE CPSweepStep
  BY <1>4 DEF CPSweepStep, CPSweepSelects, CPSweepResolves, CPSweepTerminates, CPSweepClears
<1>5. CASE SwitchStep
  BY <1>5 DEF SwitchStep, SwitchReads, SwitchClaims, SwitchResolves, SwitchTerminates,
     SwitchWrites, emitSwitchProviderStopExhausted, SwitchReverts, SwitchDispatches,
     MoveGoto
<1>6. CASE reconcileSelects \/ reconcileChecks \/ reconfirmStillOfflineCandidate \/ ReconcileFlips
  BY <1>6 DEF reconcileSelects, reconcileChecks, reconfirmStillOfflineCandidate,
     ReconcileFlips
<1>7. CASE CPRegister
  BY <1>7 DEF CPRegister
<1> QED
  BY <1>1, <1>2, <1>3, <1>4, <1>5, <1>6, <1>7 DEF CPNext

\* No provision starts the candidate again, and no move goes back to its
\* cloud.
LEMMA CandidateStays ==
  ASSUME CPTypeOK, FiledIsDone, CandidateInv, BootsInv, CPNext
  PROVE  CandidateInv'
<1> USE BootsAssumption, CPFaultsAssumption
    DEF CPFault, BootGoto, Actors, resolveInstanceID, Terminate, Stopped, Forget,
        ClearInstanceID, CPDelGoto, CPDelKeeps, CPSweepKeeps, MoveKeeps, ReconKeeps,
        moveVars, CPTypeOK, FiledIsDone, CandidateInv, BootsInv, Clouds
<1>1. ASSUME NEW b \in Boots, BootStep(b) PROVE CandidateInv'
  BY <1>1 DEF BootStep, RestartCycleReads, RestartResolves, RestartTerminates, RestartMarks,
     CPStart, PersistInstanceID, CPMarkFailed
<1>2. ASSUME NEW b \in Boots, MachineDies(b) PROVE CandidateInv'
  BY <1>2 DEF MachineDies
<1>3. CASE CPDeleteStep
  BY <1>3 DEF CPDeleteStep, CPDeleteReads, CPMarkRemoved, DeleteResolves, DeleteTerminates,
     clearWorkspaceInstanceIDAfterStop, CPDeletePurges
<1>4. CASE CPSweepStep
  BY <1>4 DEF CPSweepStep, CPSweepSelects, CPSweepResolves, CPSweepTerminates, CPSweepClears
<1>5. CASE SwitchStep
  BY <1>5 DEF SwitchStep, SwitchReads, SwitchClaims, SwitchResolves, SwitchTerminates,
     SwitchWrites, emitSwitchProviderStopExhausted, SwitchReverts, SwitchDispatches,
     MoveGoto
<1>6. CASE reconcileSelects \/ reconcileChecks \/ reconfirmStillOfflineCandidate \/ ReconcileFlips
  BY <1>6 DEF reconcileSelects, reconcileChecks, reconfirmStillOfflineCandidate,
     ReconcileFlips
<1>7. CASE CPRegister
  BY <1>7 DEF CPRegister
<1> QED
  BY <1>1, <1>2, <1>3, <1>4, <1>5, <1>6, <1>7 DEF CPNext

\* The gate keeps the provisions apart, and a move that met nobody dispatches
\* one when none is under way.
LEMMA BootsStay ==
  ASSUME CPTypeOK, CloudIsTheInstances, BootsInv, SwitchInv, LateInv, FiledIsDone, CPNext
  PROVE  BootsInv'
<1> USE BootsAssumption, CPFaultsAssumption
    DEF CPFault, BootGoto, Actors, resolveInstanceID, Terminate, Stopped, Forget,
        ClearInstanceID, CPDelGoto, CPDelKeeps, CPSweepKeeps, MoveKeeps, ReconKeeps,
        moveVars, CPTypeOK, CloudIsTheInstances, BootsInv, SwitchInv, LateInv,
        FiledIsDone, Under, FileIsIdle, Smooth, GateFree, Moving, NobodyElse, Clouds,
        Stoppers
<1>1. ASSUME NEW b \in Boots, BootStep(b) PROVE BootsInv'
  <2>1. CASE RestartCycleReads(b)
    BY <2>1 DEF RestartCycleReads
  <2>2. CASE RestartResolves(b)
    BY <2>2 DEF RestartResolves
  <2>3. CASE RestartTerminates(b)
    BY <2>3 DEF RestartTerminates
  <2>4. CASE RestartMarks(b)
    BY <2>4 DEF RestartMarks
  <2>5. CASE CPStart(b)
    BY <2>5 DEF CPStart
  <2>6. CASE PersistInstanceID(b)
    BY <2>6 DEF PersistInstanceID
  <2>7. CASE CPMarkFailed(b)
    BY <2>7 DEF CPMarkFailed
  <2> QED
    BY <1>1, <2>1, <2>2, <2>3, <2>4, <2>5, <2>6, <2>7 DEF BootStep
<1>2. ASSUME NEW b \in Boots, MachineDies(b) PROVE BootsInv'
  BY <1>2 DEF MachineDies
<1>3. CASE CPDeleteStep
  BY <1>3 DEF CPDeleteStep, CPDeleteReads, CPMarkRemoved, DeleteResolves, DeleteTerminates,
     clearWorkspaceInstanceIDAfterStop, CPDeletePurges
<1>4. CASE CPSweepStep
  <2>1. CASE CPSweepSelects
    BY <2>1 DEF CPSweepSelects
  <2>2. CASE CPSweepResolves
    BY <2>2 DEF CPSweepResolves
  <2>3. CASE CPSweepTerminates
    BY <2>3 DEF CPSweepTerminates
  <2>4. CASE CPSweepClears
    BY <2>4 DEF CPSweepClears
  <2> QED
    BY <1>4, <2>1, <2>2, <2>3, <2>4 DEF CPSweepStep
<1>5. CASE SwitchStep
  BY <1>5 DEF SwitchStep, SwitchReads, SwitchClaims, SwitchResolves, SwitchTerminates,
     SwitchWrites, emitSwitchProviderStopExhausted, SwitchReverts, SwitchDispatches,
     MoveGoto
<1>6. CASE reconcileSelects \/ reconcileChecks \/ reconfirmStillOfflineCandidate \/ ReconcileFlips
  BY <1>6 DEF reconcileSelects, reconcileChecks, reconfirmStillOfflineCandidate,
     ReconcileFlips
<1>7. CASE CPRegister
  BY <1>7 DEF CPRegister
<1> QED
  BY <1>1, <1>2, <1>3, <1>4, <1>5, <1>6, <1>7 DEF CPNext

\* Whoever starts beside a move crosses it.
LEMMA SwitchStays ==
  ASSUME CPTypeOK, SwitchInv, CloudIsTheInstances, LateInv, CPNext
  PROVE  SwitchInv'
<1> USE BootsAssumption, CPFaultsAssumption
    DEF CPFault, BootGoto, Actors, resolveInstanceID, Terminate, Stopped, Forget,
        ClearInstanceID, CPDelGoto, CPDelKeeps, CPSweepKeeps, MoveKeeps, ReconKeeps,
        moveVars, CPTypeOK, SwitchInv, CloudIsTheInstances, LateInv, FileIsIdle,
        NobodyElse, Moving, Stoppers, CPDead
<1>1. ASSUME NEW b \in Boots, BootStep(b) PROVE SwitchInv'
  <2>1. CASE RestartCycleReads(b)
    <3>1. ~crossed' => ~crossed /\ ~Moving
      BY <2>1 DEF RestartCycleReads
    <3>2. switch.pc = "read" => ~crossed'
      BY <2>1 DEF RestartCycleReads
    <3> QED
      BY <2>1, <3>1, <3>2 DEF RestartCycleReads
  <2>2. CASE RestartResolves(b)
    BY <2>2 DEF RestartResolves
  <2>3. CASE RestartTerminates(b)
    BY <2>3 DEF RestartTerminates
  <2>4. CASE RestartMarks(b)
    BY <2>4 DEF RestartMarks
  <2>5. CASE CPStart(b)
    BY <2>5 DEF CPStart
  <2>6. CASE PersistInstanceID(b)
    BY <2>6 DEF PersistInstanceID
  <2>7. CASE CPMarkFailed(b)
    BY <2>7 DEF CPMarkFailed
  <2> QED
    BY <1>1, <2>1, <2>2, <2>3, <2>4, <2>5, <2>6, <2>7 DEF BootStep
<1>2. ASSUME NEW b \in Boots, MachineDies(b) PROVE SwitchInv'
  BY <1>2 DEF MachineDies
<1>3. CASE CPDeleteStep
  <2>1. CASE CPDeleteReads
    <3>1. ~crossed' => ~crossed /\ ~Moving
      BY <2>1 DEF CPDeleteReads
    <3>2. switch.pc = "read" => ~crossed'
      BY <2>1 DEF CPDeleteReads
    <3> QED
      BY <2>1, <3>1, <3>2 DEF CPDeleteReads
  <2>2. CASE CPMarkRemoved
    BY <2>2 DEF CPMarkRemoved
  <2>3. CASE DeleteResolves
    BY <2>3 DEF DeleteResolves
  <2>4. CASE DeleteTerminates
    BY <2>4 DEF DeleteTerminates
  <2>5. CASE clearWorkspaceInstanceIDAfterStop
    BY <2>5 DEF clearWorkspaceInstanceIDAfterStop
  <2>6. CASE CPDeletePurges
    BY <2>6 DEF CPDeletePurges
  <2> QED
    BY <1>3, <2>1, <2>2, <2>3, <2>4, <2>5, <2>6 DEF CPDeleteStep
<1>4. CASE CPSweepStep
  <2>1. CASE CPSweepSelects
    BY <2>1 DEF CPSweepSelects
  <2>2. CASE CPSweepResolves
    BY <2>2 DEF CPSweepResolves
  <2>3. CASE CPSweepTerminates
    BY <2>3 DEF CPSweepTerminates
  <2>4. CASE CPSweepClears
    BY <2>4 DEF CPSweepClears
  <2> QED
    BY <1>4, <2>1, <2>2, <2>3, <2>4 DEF CPSweepStep
<1>5. CASE SwitchStep
  <2>0. switch \in Moves
    BY DEF Moves
  <2>1. CASE SwitchReads
    <3>1. switch'.pc \in {"claim", "resolve"} /\ switch'.prior = cpRow
         /\ switch'.stuck = switch.stuck /\ switch'.kind = switch.kind
      BY <2>1, <2>0 DEF SwitchReads, Moves
    <3> QED
      BY <2>1, <3>1 DEF SwitchReads, CPRows
  <2>2. CASE SwitchClaims
    <3>1. CASE MoveGoto("claim", "done")
      <4>1. switch'.pc = "done" /\ switch'.prior = "online" /\ switch'.stuck = FALSE
        BY <3>1, <2>0, MoveGoes DEF SwitchPCs
      <4> QED
        BY <2>2, <3>1, <4>1 DEF SwitchClaims
    <3>2. CASE MoveGoto("claim", "resolve")
      <4>1. switch.pc = "claim" /\ switch'.pc = "resolve"
         /\ switch'.kind = switch.kind /\ switch'.prior = switch.prior /\ switch'.old = switch.old
         /\ switch'.stuck = switch.stuck /\ switch'.named = switch.named
        BY <3>2, <2>0, MoveGoes DEF SwitchPCs
      <4> QED
        BY <2>2, <3>2, <4>1 DEF SwitchClaims
    <3> QED
      BY <2>2, <3>1, <3>2 DEF SwitchClaims
  <2>3. CASE SwitchResolves
    <3>1. switch.pc = "resolve" /\ switch'.pc = "terminate"
         /\ switch'.kind = switch.kind /\ switch'.prior = switch.prior /\ switch'.old = switch.old
         /\ switch'.stuck = switch.stuck /\ switch'.named = switch.named
      BY <2>3, <2>0, MoveGoes DEF SwitchResolves, SwitchPCs
    <3> QED
      BY <2>3, <3>1 DEF SwitchResolves
  <2>4. CASE SwitchTerminates
    <3>1. CASE MoveGoto("terminate", "write") /\ Terminate("switch") /\ UNCHANGED cpFaults
      <4>1. switch.pc = "terminate" /\ switch'.pc = "write"
         /\ switch'.kind = switch.kind /\ switch'.prior = switch.prior /\ switch'.old = switch.old
         /\ switch'.stuck = switch.stuck /\ switch'.named = switch.named
        BY <3>1, <2>0, MoveGoes DEF SwitchPCs
      <4> QED
        BY <2>4, <3>1, <4>1 DEF SwitchTerminates
    <3>2. CASE CPFault /\ switch' = [switch EXCEPT !.pc = "write", !.stuck = TRUE]
              /\ switch.kind = "switch"
      <4>1. switch'.pc = "write" /\ switch'.kind = "switch" /\ switch'.prior = switch.prior
         /\ switch'.stuck = TRUE
        BY <3>2, <2>0 DEF Moves
      <4> QED
        BY <2>4, <3>2, <4>1 DEF SwitchTerminates
    <3>3. CASE switch' = MoveEnds
      <4>1. switch'.pc = "done" /\ switch'.prior = "online" /\ switch'.stuck = FALSE
        BY <3>3, <2>0 DEF MoveEnds, Moves
      <4> QED
        BY <2>4, <3>3, <4>1 DEF SwitchTerminates
    <3> QED
      BY <2>4, <3>1, <3>2, <3>3 DEF SwitchTerminates
  <2>5. CASE SwitchWrites
    <3>1. CASE switch.kind = "switch" /\ MoveGoto("write", IF switch.stuck THEN "name" ELSE "dispatch")
              /\ ClearInstanceID
      <4>1. switch.pc = "write" /\ switch'.pc = (IF switch.stuck THEN "name" ELSE "dispatch")
         /\ switch'.kind = switch.kind /\ switch'.prior = switch.prior /\ switch'.old = switch.old
         /\ switch'.stuck = switch.stuck /\ switch'.named = switch.named
        BY <3>1, <2>0, MoveGoes DEF SwitchPCs
      <4> QED
        BY <2>5, <3>1, <4>1 DEF SwitchWrites
    <3>2. CASE MoveGoto("write", "done")
      <4>1. switch'.pc = "done" /\ switch'.prior = "online" /\ switch'.stuck = FALSE
        BY <3>2, <2>0, MoveGoes DEF SwitchPCs
      <4> QED
        BY <2>5, <3>2, <4>1 DEF SwitchWrites
    <3>3. CASE MoveGoto("write", "revert")
      <4>1. switch.pc = "write" /\ switch'.pc = "revert"
         /\ switch'.kind = switch.kind /\ switch'.prior = switch.prior /\ switch'.old = switch.old
         /\ switch'.stuck = switch.stuck /\ switch'.named = switch.named
        BY <3>3, <2>0, MoveGoes DEF SwitchPCs
      <4> QED
        BY <2>5, <3>3, <4>1 DEF SwitchWrites
    <3> QED
      BY <2>5, <3>1, <3>2, <3>3 DEF SwitchWrites
  <2>6. CASE emitSwitchProviderStopExhausted
    <3>1. CASE switch' = [switch EXCEPT !.pc = "dispatch", !.named = switch.old]
      <4>1. switch'.pc = "dispatch" /\ switch'.kind = switch.kind /\ switch'.prior = switch.prior
         /\ switch'.old = switch.old /\ switch'.stuck = switch.stuck /\ switch'.named = switch.old
        BY <3>1, <2>0 DEF Moves
      <4> QED
        BY <2>6, <3>1, <4>1 DEF emitSwitchProviderStopExhausted
    <3>2. CASE MoveGoto("name", "dispatch") /\ CPFault
      <4>1. switch.pc = "name" /\ switch'.pc = "dispatch"
         /\ switch'.kind = switch.kind /\ switch'.prior = switch.prior /\ switch'.old = switch.old
         /\ switch'.stuck = switch.stuck /\ switch'.named = switch.named
        BY <3>2, <2>0, MoveGoes DEF SwitchPCs
      <4> QED
        BY <2>6, <3>2, <4>1 DEF emitSwitchProviderStopExhausted
    <3> QED
      BY <2>6, <3>1, <3>2 DEF emitSwitchProviderStopExhausted
  <2>7. CASE SwitchReverts
    <3>1. switch'.pc = "done" /\ switch'.prior = "online" /\ switch'.stuck = FALSE
      BY <2>7, <2>0, MoveGoes DEF SwitchReverts, SwitchPCs
    <3> QED
      BY <2>7, <3>1 DEF SwitchReverts
  <2>8. ASSUME NEW b \in Boots, SwitchDispatches(b) PROVE SwitchInv'
    <3>1. switch'.pc = "done" /\ switch'.prior = "online" /\ switch'.stuck = FALSE
      BY <2>8, <2>0, MoveGoes DEF SwitchDispatches, SwitchPCs
    <3> QED
      BY <2>8, <3>1 DEF SwitchDispatches
  <2> QED
    BY <1>5, <2>1, <2>2, <2>3, <2>4, <2>5, <2>6, <2>7, <2>8 DEF SwitchStep
<1>6. CASE reconcileSelects \/ reconcileChecks \/ reconfirmStillOfflineCandidate \/ ReconcileFlips
  BY <1>6 DEF reconcileSelects, reconcileChecks, reconfirmStillOfflineCandidate,
     ReconcileFlips
<1>7. CASE CPRegister
  BY <1>7 DEF CPRegister
<1> QED
  BY <1>1, <1>2, <1>3, <1>4, <1>5, <1>6, <1>7 DEF CPNext

\* An id is replaced or cleared over an idle instance until a delete has
\* marked the row.
LEMMA LateStays ==
  ASSUME CPTypeOK, LateInv, BootsInv, SwitchInv, CPNext
  PROVE  LateInv'
<1> USE BootsAssumption, CPFaultsAssumption
    DEF CPFault, BootGoto, Actors, resolveInstanceID, Terminate, Stopped, Forget,
        ClearInstanceID, CPDelGoto, CPDelKeeps, CPSweepKeeps, MoveKeeps, ReconKeeps,
        moveVars, CPTypeOK, LateInv, BootsInv, SwitchInv, FileIsIdle, Smooth, CPDead
<1>1. ASSUME NEW b \in Boots, BootStep(b) PROVE LateInv'
  BY <1>1 DEF BootStep, RestartCycleReads, RestartResolves, RestartTerminates, RestartMarks,
     CPStart, PersistInstanceID, CPMarkFailed
<1>2. ASSUME NEW b \in Boots, MachineDies(b) PROVE LateInv'
  BY <1>2 DEF MachineDies
<1>3. CASE CPDeleteStep
  BY <1>3 DEF CPDeleteStep, CPDeleteReads, CPMarkRemoved, DeleteResolves, DeleteTerminates,
     clearWorkspaceInstanceIDAfterStop, CPDeletePurges
<1>4. CASE CPSweepStep
  BY <1>4 DEF CPSweepStep, CPSweepSelects, CPSweepResolves, CPSweepTerminates, CPSweepClears
<1>5. CASE SwitchStep
  <2>1. CASE SwitchReads
    BY <2>1 DEF SwitchReads, MoveGoto
  <2>2. CASE SwitchClaims
    BY <2>2 DEF SwitchClaims, MoveGoto
  <2>3. CASE SwitchResolves
    BY <2>3 DEF SwitchResolves, MoveGoto
  <2>4. CASE SwitchTerminates
    BY <2>4 DEF SwitchTerminates, MoveGoto
  <2>5. CASE SwitchWrites
    BY <2>5 DEF SwitchWrites, MoveGoto
  <2>6. CASE emitSwitchProviderStopExhausted
    BY <2>6 DEF emitSwitchProviderStopExhausted, MoveGoto
  <2>7. CASE SwitchReverts
    BY <2>7 DEF SwitchReverts, MoveGoto
  <2>8. ASSUME NEW b \in Boots, SwitchDispatches(b) PROVE LateInv'
    BY <2>8 DEF SwitchDispatches, MoveGoto
  <2> QED
    BY <1>5, <2>1, <2>2, <2>3, <2>4, <2>5, <2>6, <2>7, <2>8 DEF SwitchStep
<1>6. CASE reconcileSelects \/ reconcileChecks \/ reconfirmStillOfflineCandidate \/ ReconcileFlips
  BY <1>6 DEF reconcileSelects, reconcileChecks, reconfirmStillOfflineCandidate,
     ReconcileFlips
<1>7. CASE CPRegister
  BY <1>7 DEF CPRegister
<1> QED
  BY <1>1, <1>2, <1>3, <1>4, <1>5, <1>6, <1>7 DEF CPNext

\* A workspace that is being created has no instance yet.
LEMMA CPStarts ==
  ASSUME CPInit
  PROVE  CPInv
<1> USE BootsAssumption, CPFaultsAssumption
    DEF CPInit, CPRows, CPDead, BootPCs, CPDelPCs, CPSweepPCs, ReconPCs, Stoppers, Clouds, SwitchPCs
<1>1. CPTypeOK
  <2>1. switch \in Moves
    <3>1. PICK kind \in {"switch", "patch"} :
             switch = [kind |-> kind, pc |-> "read", prior |-> "online",
                       old |-> NoInstance, stuck |-> FALSE, named |-> NoInstance]
      OBVIOUS
    <3> QED
      BY <3>1 DEF Moves
  <2>2. /\ cpRow \in CPRows /\ instance \in Boots \cup {NoInstance} /\ crossed \in BOOLEAN
        /\ machine \in [Boots -> {"none", "running", "stopped"}] /\ bootPC \in [Boots -> BootPCs]
        /\ target \in [Stoppers -> Boots \cup {NoInstance}] /\ madeOn \in [Boots -> Clouds]
    OBVIOUS
  <2>3. /\ cpDel \in CPDelPCs /\ cpSweep \in CPSweepPCs /\ recon \in ReconPCs /\ cloud \in Clouds
        /\ candidate \in Boots \cup {NoInstance} /\ cpFaults \in 0..MaxCPFaults /\ lost \subseteq Boots
    OBVIOUS
  <2> QED
    BY <2>1, <2>2, <2>3 DEF CPTypeOK, Moves
<1>2. RunningIsOnFile /\ CloudIsTheInstances /\ FiledIsDone /\ CandidateInv
  BY DEF RunningIsOnFile, CloudIsTheInstances, FiledIsDone, CandidateInv
<1>3. BootsInv
  BY DEF BootsInv, Under, Smooth, FileIsIdle
<1>4. SwitchInv
  BY DEF SwitchInv, Moving
<1>5. LateInv
  BY DEF LateInv
<1> QED
  BY <1>1, <1>2, <1>3, <1>4, <1>5 DEF CPInv

\* Every step keeps the invariant.
LEMMA CPInvStays ==
  ASSUME CPInv, [CPNext]_cpVars
  PROVE  CPInv'
<1>1. CASE CPNext
  BY <1>1, CPTypesStay, OnFileStays, CloudStays, FiledStays, CandidateStays, BootsStay, SwitchStays,
     LateStays DEF CPInv
<1>2. CASE UNCHANGED cpVars
  <2>1. CPTypeOK' /\ RunningIsOnFile' /\ CloudIsTheInstances' /\ FiledIsDone' /\ CandidateInv'
    BY <1>2 DEF CPInv, CPTypeOK, RunningIsOnFile, CloudIsTheInstances, FiledIsDone, CandidateInv,
                cpVars, baseVars, moveVars
  <2>2. BootsInv' /\ SwitchInv' /\ LateInv'
    BY <1>2 DEF CPInv, BootsInv, SwitchInv, LateInv, Under, FileIsIdle, Smooth, Moving, NobodyElse,
                cpVars, baseVars, moveVars
  <2> QED
    BY <2>1, <2>2 DEF CPInv
<1> QED
  BY <1>1, <1>2

\* What the reconciler has checked and confirmed is what it flips.
LEMMA FlipIsDead ==
  ASSUME CPInv, CPNext, recon = "reconfirm", recon' = "flip"
  PROVE  /\ instance # NoInstance
         /\ machine[instance] # "running" \/ (crossed /\ madeOn[instance] # cloud)
<1>1. reconfirmStillOfflineCandidate
  <2>1. ~ (reconcileSelects \/ reconcileChecks \/ ReconcileFlips)
    BY DEF reconcileSelects, reconcileChecks, ReconcileFlips
  <2>2. ~ CPRegister /\ \A b \in Boots : ~ MachineDies(b)
    BY DEF CPRegister, MachineDies, Actors
  <2>3. \A b \in Boots : ~ BootStep(b)
    BY DEF BootStep, RestartCycleReads, RestartResolves, RestartTerminates, RestartMarks, CPStart,
           PersistInstanceID, CPMarkFailed
  <2>4. ~ CPDeleteStep /\ ~ CPSweepStep
    BY DEF CPDeleteStep, CPDeleteReads, CPMarkRemoved, DeleteResolves, DeleteTerminates,
           clearWorkspaceInstanceIDAfterStop, CPDeletePurges, CPDelKeeps, CPSweepStep, CPSweepSelects,
           CPSweepResolves, CPSweepTerminates, CPSweepClears, CPSweepKeeps
  <2>5. ~ SwitchStep
    BY DEF SwitchStep, SwitchReads, SwitchClaims, SwitchResolves, SwitchTerminates, SwitchWrites,
           emitSwitchProviderStopExhausted, SwitchReverts, SwitchDispatches, MoveKeeps
  <2> QED
    BY <2>1, <2>2, <2>3, <2>4, <2>5 DEF CPNext
<1>2. instance = candidate /\ candidate # NoInstance
  BY <1>1 DEF reconfirmStillOfflineCandidate, CPInv, CandidateInv
<1> QED
  BY <1>2 DEF CPInv, CandidateInv, CloudIsTheInstances

\* The safety part of MachinesAreAccounted: an instance that runs is on file or
\* counted as lost, none is lost but by a race or a failed call, a stop is sent
\* to the cloud the instance is on, an instance a move could not stop is named,
\* and the reconciler flips only over an instance that does not run
\* (provisionWorkspaceCP, the DELETE, cpSweepOnce, the reconciler, SwitchProvider).
THEOREM MachinesStayAccounted ==
  CPSpec => /\ []CPTypeOK /\ []RunningIsOnFile /\ []LostOnlyByRace
            /\ []CloudIsTheInstances /\ []StuckIsNamed /\ FlipOnlyDead
<1>1. CPInit => CPInv
  BY CPStarts
<1>2. CPInv /\ [CPNext]_cpVars => CPInv'
  BY CPInvStays
<1>3. CPInv => CPTypeOK /\ RunningIsOnFile /\ CloudIsTheInstances
  BY DEF CPInv
<1>4. CPInv => LostOnlyByRace
  BY DEF CPInv, LostOnlyByRace, LateInv, Smooth
<1>5. CPInv => StuckIsNamed
  BY DEF CPInv, StuckIsNamed, SwitchInv
<1>6. CPInv /\ [CPNext]_cpVars
        => [recon = "reconfirm" /\ recon' = "flip"
              => /\ instance # NoInstance
                 /\ (machine[instance] # "running" \/ (crossed /\ madeOn[instance] # cloud))]_cpVars
  BY FlipIsDead
<1> QED
  BY <1>1, <1>2, <1>3, <1>4, <1>5, <1>6, PTL DEF CPSpec, FlipOnlyDead

=============================================================================
