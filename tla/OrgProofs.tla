----------------------------- MODULE OrgProofs -----------------------------
(***************************************************************************)
(* Proofs about an org, for any number of rows, calls and failed           *)
(* statements: first about the concierge at its root (ConciergeRoot), then *)
(* about the tree of workspaces below it (WorkspaceTree).                  *)
(*                                                                         *)
(* The unique index on the platform's row lets one install through at a    *)
(* time, so an install between its upsert and its commit is alone and has  *)
(* seen every root there is: its commit leaves one platform row and moves  *)
(* the list and the token of every root it displaced.  The row that is     *)
(* provisioned has no box until the provision ends, so tokens are revoked  *)
(* only where no box runs; and a pick of the owner made while a provision  *)
(* is under way is remembered in pickedAfter, or its model is that pick.   *)
(*                                                                         *)
(* Of the tree: what is above a row is a least closed set, which the       *)
(* bounded walk of the queries finds in full, by counting.  A move holds   *)
(* its row, its target and the root it read; but for the rows that a purge *)
(* cuts loose, that lock keeps the root while the move is under way, so of *)
(* two moves that together would close a cycle one is not let through.     *)
(***************************************************************************)
EXTENDS ConciergeRoot, WorkspaceTree, WellFoundedInduction, FiniteSetTheorems, TLAPS

-----------------------------------------------------------------------------

RowStatus == {"absent", "offline", "online", "degraded", "removed"}
RowType == [status : RowStatus, platform : BOOLEAN, parent : Rows \union {NoRow}]
InTx == {"roots", "copy", "commit"}
WriterType ==
    [pc : {"idle", "probe", "demote", "upsert", "roots", "copy", "commit", "name", "model", "revive", "kick"},
     id : Rows \union {NoRow}, found : BOOLEAN, revive : BOOLEAN, model : {NoModel, "p2", "own"},
     demoted : SUBSET Rows, roots : SUBSET Rows, copied : BOOLEAN]
ModelNames == PlatformModels \union {"own", NoModel}
ProvisionType ==
    [pc : {"idle", "resolve", "store", "pin", "mint", "revoke", "compose"}, id : Rows \union {NoRow},
     model : ModelNames, pin : BOOLEAN, key : KeyIds \union {0}]
FileStates == {"none", "unfilled", "filled"}
BoxType == [model : ModelNames, pin : BOOLEAN, key : KeyIds \union {0}, graft : BOOLEAN,
            file : FileStates, prompt : FileStates]

OrgTypes ==
    /\ wsRow \in [Rows -> RowType]
    /\ txHolder \in RootWriters \union {"none"}
    /\ writer \in [RootWriters -> WriterType]
    /\ listed \subseteq Rows /\ tokenOrg \in Rows
    /\ creating \in [pc : {"idle", "insert"}, parent : Rows \union {NoRow}]
    /\ boxes \subseteq Rows /\ lateList \in BOOLEAN
AgentTypes ==
    /\ stored \in ModelNames /\ pin \in BOOLEAN /\ default \in PlatformModels
    /\ provision \in ProvisionType
    /\ box \in [Rows -> BoxType]
    /\ keys \in [Rows -> SUBSET KeyIds]
    /\ pickedAfter \in BOOLEAN
    /\ world \in [org : BOOLEAN, claude : BOOLEAN, base : BOOLEAN, persona : {"none", "file", "prompt", "template"}]

\* One row is the platform's, a root with one of the two ids; the org's token
\* is anchored at a root; and nothing hangs below a row still being created.
RowsInv ==
    /\ \A n \in Rows : wsRow[n].platform => Root(n) /\ n \in {Canonical, Foreign}
    /\ \A m, n \in Rows : wsRow[m].platform /\ wsRow[n].platform => m = n
    /\ \A n \in Rows : wsRow[n].parent # n
    /\ Root(tokenOrg)
    /\ creating.parent # Fresh
    /\ creating.pc = "insert" => wsRow[Fresh].status = "absent"

\* An install past its upsert is alone, and has seen every root there is.
WriterInv(w) ==
    /\ writer[w].pc \in InTx => txHolder = w
    /\ writer[w].pc \notin {"idle", "kick"} => writer[w].id \in {Canonical, Foreign}
    /\ writer[w].id \notin writer[w].roots
    /\ \A n \in writer[w].roots : wsRow[n].status # "absent"
    /\ writer[w].pc \in {"copy", "commit"} =>
          \A n \in Rows : wsRow[n].platform => n \in writer[w].roots \union {writer[w].id}
    /\ writer[w].pc = "commit" /\ ~writer[w].copied => listed \cap writer[w].roots = {} \/ lateList
    /\ w = "cp" => writer[w].pc \notin {"name", "model", "revive", "kick"} /\ ~writer[w].revive
    /\ w = "boot" /\ writer[w].revive => writer[w].pc = "kick"

\* The row that is provisioned has no box, and its key is live once minted; a
\* pick made since its model was read is remembered.
ProvisionInv ==
    /\ provision.pc # "idle" => provision.id \in Rows \ boxes
    /\ provision.pc = "revoke" => provision.key \in keys[provision.id]
    /\ provision.pc = "compose" => provision.key \in keys[provision.id] \union {0}
    /\ BoxHasKey /\ GraftHasFile
    /\ provision.pc \in {"resolve", "store"} /\ stored = "own" => pickedAfter
    /\ provision.pc \in {"pin", "mint", "revoke", "compose"} /\ stored = "own" =>
          pickedAfter \/ provision.model = "own"

OrgInv == OrgTypes /\ RowsInv /\ \A w \in RootWriters : WriterInv(w)
AgentInv == AgentTypes /\ ProvisionInv
ConciergeInv == OrgInv /\ AgentInv

-----------------------------------------------------------------------------

LEMMA RowsDiffer ==
    /\ Canonical \notin {Foreign, Team, Fresh, NoRow} /\ Foreign \notin {Team, Fresh, NoRow}
    /\ Team \notin {Fresh, NoRow} /\ Fresh # NoRow
    /\ KeyIds \subseteq Nat \ {0}
  BY ConciergeAssumption DEF KeyIds

LEMMA ConciergeInvInit == ConciergeInit => ConciergeInv
<1> SUFFICES ASSUME ConciergeInit PROVE ConciergeInv
  OBVIOUS
<1>1. PICK top \in {NoRow, Canonical, Foreign}, s \in {"offline", "online", "degraded", "removed"} :
          wsRow = [n \in Rows |->
                    CASE n = top -> [status |-> s, platform |-> TRUE, parent |-> NoRow]
                      [] n = Team -> [status |-> "online", platform |-> FALSE, parent |-> NoRow]
                      [] OTHER -> Absent]
  BY DEF ConciergeInit
<1>2. \A n \in Rows : wsRow[n] = IF n = top THEN [status |-> s, platform |-> TRUE, parent |-> NoRow]
                                 ELSE IF n = Team THEN [status |-> "online", platform |-> FALSE, parent |-> NoRow]
                                 ELSE Absent
  BY <1>1, RowsDiffer
<1>3. wsRow \in [Rows -> RowType]
  <2>1. /\ [status |-> s, platform |-> TRUE, parent |-> NoRow] \in RowType
        /\ [status |-> "online", platform |-> FALSE, parent |-> NoRow] \in RowType
        /\ Absent \in RowType
    BY DEF RowType, RowStatus, Absent
  <2>2. \A n \in Rows : wsRow[n] \in RowType
    BY ONLY <1>2, <2>1
  <2> QED
    BY <1>1, <2>2
<1>4. NoWriter \in WriterType
  BY DEF NoWriter, WriterType, NoModel
<1>5. boxes \subseteq Rows
  BY DEF ConciergeInit
<1>6. OrgTypes
  BY <1>3, <1>4, <1>5 DEF ConciergeInit, OrgTypes, Rows
<1>7. RowsInv
  BY <1>2, RowsDiffer DEF RowsInv, Root, ConciergeInit, Absent, Rows
<1>8. \A w \in RootWriters : WriterInv(w)
  BY DEF ConciergeInit, WriterInv, NoWriter, InTx
<1>9. NoProvision \in ProvisionType /\ NoBox \in BoxType
  BY DEF NoProvision, ProvisionType, NoBox, BoxType, ModelNames, NoModel, FileStates
<1>10. AgentTypes
  BY <1>9 DEF ConciergeInit, AgentTypes, ModelNames, NoModel, PlatformModels
<1>11. ProvisionInv
  BY <1>5, RowsDiffer DEF ConciergeInit, ProvisionInv, NoProvision, NoBox, BoxHasKey, GraftHasFile
<1> QED
  BY <1>6, <1>7, <1>8, <1>10, <1>11 DEF ConciergeInv, OrgInv, AgentInv

\* A step that moves one writer and states of rows that are there.
LEMMA OrgMoves ==
    ASSUME OrgInv, NEW w \in RootWriters,
           wsRow' \in [Rows -> RowType],
           \A n \in Rows : /\ wsRow'[n].platform = wsRow[n].platform
                           /\ wsRow'[n].parent = wsRow[n].parent
                           /\ wsRow'[n].status = "absent" <=> wsRow[n].status = "absent",
           UNCHANGED <<listed, tokenOrg, creating, lateList>>, boxes' \subseteq Rows,
           writer' = [writer EXCEPT ![w] = writer'[w]], writer'[w] \in WriterType,
           txHolder' \in RootWriters \union {"none"},
           txHolder' = txHolder \/ \A v \in RootWriters \ {w} : writer[v].pc \notin InTx,
           WriterInv(w)'
    PROVE  OrgInv'
<1>1. OrgTypes'
  BY DEF OrgInv, OrgTypes
<1>2. RowsInv'
  <2>1. Fresh \in Rows
    BY DEF Rows
  <2>2. \A n \in Rows : Root(n)' <=> Root(n)
    BY DEF Root
  <2> QED
    BY <2>1, <2>2 DEF OrgInv, RowsInv, OrgTypes
<1>3. \A v \in RootWriters \ {w} : writer'[v] = writer[v]
  BY DEF OrgInv, OrgTypes
<1>4. ASSUME NEW v \in RootWriters \ {w} PROVE WriterInv(v)'
  <2>1. writer[v].roots \subseteq Rows
    BY DEF OrgInv, OrgTypes, WriterType
  <2> QED
    BY <2>1, <1>3 DEF OrgInv, WriterInv
<1> QED
  BY <1>1, <1>2, <1>4 DEF OrgInv

LEMMA OrgInvStays ==
    ASSUME OrgInv, UNCHANGED <<wsRow, txHolder, writer, listed, tokenOrg, creating, lateList>>,
           boxes' \subseteq Rows
    PROVE  OrgInv'
<1>1. OrgTypes' /\ RowsInv'
  BY DEF OrgInv, OrgTypes, RowsInv, Root
<1>2. \A w \in RootWriters : WriterInv(w)'
  BY DEF OrgInv, WriterInv
<1> QED
  BY <1>1, <1>2 DEF OrgInv

LEMMA AgentStays ==
    ASSUME AgentInv, UNCHANGED <<stored, pin, default, provision, box, keys, pickedAfter, world>>,
           boxes' \subseteq boxes
    PROVE  AgentInv'
<1>1. AgentTypes'
  BY DEF AgentInv, AgentTypes
<1>2. ProvisionInv'
  BY DEF AgentInv, ProvisionInv, BoxHasKey, GraftHasFile
<1> QED
  BY <1>1, <1>2 DEF AgentInv
-----------------------------------------------------------------------------
(* The writers of the row.                                                 *)

\* A writer that only moves on.
LEMMA GoesKeeps ==
    ASSUME ConciergeInv, NEW w \in RootWriters, NEW pc \in {"demote", "upsert", "name", "model", "revive", "kick"},
           writer[w].pc \notin InTx \union {"idle", "kick"}, w # "cp" \/ pc = "demote",
           w = "boot" => ~writer[w].revive,
           WriterGoes(w, pc), UNCHANGED <<wsRow, txHolder, listed, tokenOrg, creating, boxes, lateList>>
    PROVE  OrgInv'
<1>1. writer[w] \in WriterType /\ WriterInv(w) /\ OrgTypes
  BY DEF ConciergeInv, OrgInv, OrgTypes
<1>2. writer' = [writer EXCEPT ![w] = writer'[w]] /\ writer'[w] = [writer[w] EXCEPT !.pc = pc]
  BY <1>1 DEF WriterGoes, OrgTypes
<1>3. writer'[w] \in WriterType
  BY <1>1, <1>2 DEF WriterType
<1>4. WriterInv(w)'
  BY <1>1, <1>2 DEF WriterInv, WriterType, InTx
<1> QED
  BY <1>1, <1>2, <1>3, <1>4, OrgMoves DEF ConciergeInv, OrgInv, OrgTypes

\* A writer that ends.
LEMMA EndsKeeps ==
    ASSUME ConciergeInv, NEW w \in RootWriters, WriterEnds(w),
           txHolder' = txHolder \/ (writer[w].pc = "commit" /\ txHolder' = "none"),
           UNCHANGED <<wsRow, listed, tokenOrg, creating, boxes, lateList>>
    PROVE  OrgInv'
<1>1. writer[w] \in WriterType /\ WriterInv(w) /\ OrgTypes
  BY DEF ConciergeInv, OrgInv, OrgTypes
<1>2. writer' = [writer EXCEPT ![w] = writer'[w]] /\ writer'[w] = NoWriter
  BY <1>1 DEF WriterEnds, OrgTypes
<1>3. NoWriter \in WriterType /\ WriterInv(w)'
  BY <1>2 DEF NoWriter, WriterType, NoModel, WriterInv, InTx
<1>4. writer[w].pc = "commit" => \A v \in RootWriters \ {w} : writer[v].pc \notin InTx
  BY <1>1 DEF ConciergeInv, OrgInv, WriterInv, InTx
<1> QED
  BY <1>1, <1>2, <1>3, <1>4, OrgMoves DEF ConciergeInv, OrgInv, OrgTypes

\* A writer that begins, with what a lookup found.
LEMMA BeginsKeeps ==
    ASSUME ConciergeInv, NEW w \in RootWriters, NEW r \in WriterType,
           writer' = [writer EXCEPT ![w] = r],
           r.pc \in {"idle", "probe", "kick"}, r.roots = {}, r.pc = "probe" => r.id \in {Canonical, Foreign},
           w = "cp" => r.pc # "kick" /\ ~r.revive, w = "boot" /\ r.revive => r.pc = "kick",
           UNCHANGED <<wsRow, txHolder, listed, tokenOrg, creating, boxes, lateList>>
    PROVE  OrgInv'
<1>1. writer[w] \in WriterType /\ WriterInv(w) /\ OrgTypes
  BY DEF ConciergeInv, OrgInv, OrgTypes
<1>2. writer' = [writer EXCEPT ![w] = writer'[w]] /\ writer'[w] = r
  BY <1>1 DEF OrgTypes
<1>3. WriterInv(w)'
  BY <1>2 DEF WriterInv, InTx
<1> QED
  BY <1>1, <1>2, <1>3, OrgMoves DEF ConciergeInv, OrgInv, OrgTypes

LEMMA InstallBegins ==
    ASSUME ConciergeInv, InstallPlatformAgent
    PROVE  OrgInv'
<1>1. PICK id \in {Canonical, Foreign} :
         writer' = [writer EXCEPT !["cp"] = [NoWriter EXCEPT !.pc = "probe", !.id = id]]
  BY DEF InstallPlatformAgent
<1>2. [NoWriter EXCEPT !.pc = "probe", !.id = id] \in WriterType
  BY DEF NoWriter, WriterType, NoModel, Rows
<1> QED
  BY <1>1, <1>2, BeginsKeeps DEF InstallPlatformAgent, OrgKeeps, NoWriter, RootWriters

\* What decideEnsureAction makes of what the lookup found.
LEMMA DecideFits ==
    ASSUME ConciergeInv, NEW w \in {"ensure", "boot"}, NEW force \in BOOLEAN, NEW m \in {NoModel, "p2", "own"}
    PROVE  LET r == decideEnsureAction(w, platformRootLookup, force, m)
           IN /\ r \in WriterType /\ r.pc \in {"idle", "probe", "kick"} /\ r.roots = {}
              /\ r.pc = "probe" => r.id \in {Canonical, Foreign}
              /\ w = "boot" /\ r.revive => r.pc = "kick" \/ r.pc = "idle"
              /\ r.pc = "idle" => ~r.revive
<1> DEFINE n == platformRootLookup
<1>1. n = NoRow \/ n \in {Canonical, Foreign}
  BY DEF platformRootLookup, PlatformRoots, IsPlatform, ConciergeInv, OrgInv, RowsInv, Rows
<1>2. NoWriter \in WriterType /\ NoWriter.roots = {}
  BY DEF NoWriter, WriterType, NoModel
<1>3. NoRow \notin {Canonical, Foreign}
  BY RowsDiffer
<1> HIDE DEF n
<1>4. decideEnsureAction(w, n, force, m) \in WriterType
  <2>1. ASSUME NEW p \in {"idle", "probe", "kick"}, NEW id \in Rows, NEW f \in BOOLEAN, NEW v \in BOOLEAN
        PROVE  [NoWriter EXCEPT !.pc = p, !.id = id, !.found = f, !.model = m, !.revive = v] \in WriterType
    BY <1>2 DEF WriterType
  <2>2. (n # NoRow) \in BOOLEAN /\ (n # NoRow /\ wsRow[n].status = "removed") \in BOOLEAN
    BY Zenon
  <2>3. (IF n = NoRow THEN Canonical ELSE n) \in Rows
    BY <1>1 DEF Rows
  <2>4. (IF n = NoRow THEN "probe"
         ELSE IF wsRow[n].status = "online" /\ ~force THEN "idle"
         ELSE IF w = "boot" /\ wsRow[n].status = "removed" THEN "kick" ELSE "probe")
           \in {"idle", "probe", "kick"}
    OBVIOUS
  <2> QED
    BY <2>1, <2>2, <2>3, <2>4, Zenon DEF decideEnsureAction
<1> QED
  BY <1>1, <1>2, <1>3, <1>4 DEF decideEnsureAction, NoWriter, n
LEMMA EnsureBegins ==
    ASSUME ConciergeInv, EnsurePlatformAgent
    PROVE  OrgInv'
<1>1. PICK force \in BOOLEAN, m \in {NoModel, "p2", "own"} :
         writer' = [writer EXCEPT !["ensure"] = decideEnsureAction("ensure", platformRootLookup, force, m)]
  BY DEF EnsurePlatformAgent
<1> DEFINE r == decideEnsureAction("ensure", platformRootLookup, force, m)
<1>2. /\ r \in WriterType /\ r.pc \in {"idle", "probe", "kick"} /\ r.roots = {}
      /\ r.pc = "probe" => r.id \in {Canonical, Foreign}
  BY DecideFits
<1>3. writer' = [writer EXCEPT !["ensure"] = r]
  BY <1>1
<1> HIDE DEF r
<1> QED
  BY <1>2, <1>3, BeginsKeeps DEF EnsurePlatformAgent, OrgKeeps, RootWriters

\* The boot: every other writer died with the old process.
LEMMA BootBegins ==
    ASSUME ConciergeInv, EnsureSelfHostedPlatformAgent
    PROVE  ConciergeInv'
<1> DEFINE seed == decideEnsureAction("boot", platformRootLookup, FALSE, NoModel)
           first == IF world.org THEN NoWriter
                    ELSE IF seed.pc = "idle" THEN [NoWriter EXCEPT !.pc = "kick"] ELSE seed
<1>1. /\ seed \in WriterType /\ seed.pc \in {"idle", "probe", "kick"} /\ seed.roots = {}
      /\ seed.pc = "probe" => seed.id \in {Canonical, Foreign}
      /\ seed.revive => seed.pc = "kick" \/ seed.pc = "idle"
  BY DecideFits
<1>2. NoWriter \in WriterType /\ [NoWriter EXCEPT !.pc = "kick"] \in WriterType
  BY DEF NoWriter, WriterType, NoModel
<1>3. writer' = [w \in RootWriters |-> IF w # "boot" \/ world.org THEN NoWriter
                                       ELSE IF seed.pc = "idle" THEN [NoWriter EXCEPT !.pc = "kick"] ELSE seed]
  BY DEF EnsureSelfHostedPlatformAgent
<1> HIDE DEF seed
<1>4. /\ first \in WriterType /\ first.pc \in {"idle", "probe", "kick"} /\ first.roots = {}
      /\ first.pc = "probe" => first.id \in {Canonical, Foreign}
      /\ first.revive => first.pc = "kick"
  BY <1>1, <1>2 DEF NoWriter
<1>5. \A w \in RootWriters : writer'[w] = IF w = "boot" THEN first ELSE NoWriter
  BY <1>3
<1> HIDE DEF first
<1>6. writer' \in [RootWriters -> WriterType]
  <2>1. \A w \in RootWriters : writer'[w] \in WriterType
    BY ONLY <1>2, <1>4, <1>5
  <2> QED
    BY <1>3, <2>1
<1>7. /\ UNCHANGED <<wsRow, listed, tokenOrg, boxes, lateList, stored, pin, default, box, keys, pickedAfter, world>>
      /\ txHolder' = "none" /\ provision' = NoProvision /\ creating' = [pc |-> "idle", parent |-> NoRow]
  BY DEF EnsureSelfHostedPlatformAgent
<1>8. OrgTypes'
  BY <1>6, <1>7 DEF ConciergeInv, OrgInv, OrgTypes
<1>9. RowsInv'
  BY <1>7, RowsDiffer DEF ConciergeInv, OrgInv, RowsInv, Root
<1>10. \A w \in RootWriters : WriterInv(w)'
  BY <1>4, <1>5 DEF WriterInv, NoWriter, InTx
<1>11. AgentTypes'
  BY <1>7 DEF ConciergeInv, AgentInv, AgentTypes, NoProvision, ProvisionType, ModelNames, NoModel
<1>12. ProvisionInv'
  BY <1>7 DEF ConciergeInv, AgentInv, ProvisionInv, NoProvision, BoxHasKey, GraftHasFile
<1> QED
  BY <1>8, <1>9, <1>10, <1>11, <1>12 DEF ConciergeInv, OrgInv, AgentInv

\* The steps of the transaction that only read.
LEMMA DemoteKeeps ==
    ASSUME ConciergeInv, NEW w \in RootWriters, DemoteOtherRoots(w) \/ SelectOldRoots(w) \/ CopyAllowlist(w)
    PROVE  OrgInv'
<1>1. writer[w] \in WriterType /\ WriterInv(w) /\ OrgTypes /\ RowsInv
  BY DEF ConciergeInv, OrgInv, OrgTypes
<1>2. UNCHANGED <<wsRow, txHolder, listed, tokenOrg, creating, boxes, lateList>>
  BY DEF DemoteOtherRoots, SelectOldRoots, CopyAllowlist, OrgKeeps
<1>3. CASE DemoteOtherRoots(w)
  <2> DEFINE others == PlatformRoots \ {writer[w].id}
  <2>1. others \subseteq Rows
    BY DEF PlatformRoots
  <2>2. writer' = [writer EXCEPT ![w] = writer'[w]]
        /\ writer'[w] = [writer[w] EXCEPT !.pc = "upsert", !.demoted = others] /\ writer[w].pc = "demote"
    BY <1>1, <1>3 DEF DemoteOtherRoots, OrgTypes, WriterAt
  <2>3. writer'[w] \in WriterType /\ WriterInv(w)'
    BY <1>1, <1>2, <2>1, <2>2 DEF WriterType, WriterInv, InTx
  <2> QED
    BY <1>1, <1>2, <2>2, <2>3, OrgMoves DEF ConciergeInv, OrgTypes
<1>4. CASE SelectOldRoots(w)
  <2> DEFINE old == {n \in Rows : Root(n)} \ {writer[w].id}
  <2>1. old \subseteq Rows
    OBVIOUS
  <2>2. writer' = [writer EXCEPT ![w] = writer'[w]]
        /\ writer'[w] = [writer[w] EXCEPT !.pc = "copy", !.roots = old] /\ writer[w].pc = "roots"
    BY <1>1, <1>4 DEF SelectOldRoots, OrgTypes, WriterAt
  <2>3. \A n \in old : wsRow[n].status # "absent"
    BY DEF Root
  <2>4. \A n \in Rows : wsRow[n].platform => n \in old \union {writer[w].id}
    BY <1>1 DEF RowsInv
  <2> HIDE DEF old
  <2>5. writer'[w] \in WriterType
    BY <1>1, <2>1, <2>2 DEF WriterType
  <2>6. writer'[w].id \notin old
    BY <1>1, <2>2 DEF old, WriterType
  <2>7. WriterInv(w)'
    BY <1>1, <1>2, <2>2, <2>3, <2>4, <2>6 DEF WriterType, WriterInv, InTx
  <2> QED
    BY <1>1, <1>2, <2>2, <2>5, <2>7, OrgMoves DEF ConciergeInv, OrgTypes
<1>5. CASE CopyAllowlist(w)
  <2> DEFINE some == listed \cap writer[w].roots # {}
  <2>1. some \in BOOLEAN
    BY Zenon
  <2>2. writer' = [writer EXCEPT ![w] = writer'[w]]
        /\ writer'[w] = [writer[w] EXCEPT !.pc = "commit", !.copied = some] /\ writer[w].pc = "copy"
    BY <1>1, <1>5 DEF CopyAllowlist, OrgTypes, WriterAt
  <2>3. writer'[w] \in WriterType
    BY <1>1, <2>1, <2>2 DEF WriterType
  <2>4. writer'[w].copied = some /\ writer'[w].roots = writer[w].roots /\ writer'[w].pc = "commit"
        /\ writer'[w].id = writer[w].id /\ writer'[w].revive = writer[w].revive
    BY <1>1, <2>2 DEF WriterType
  <2>5. WriterInv(w)'
    BY <1>1, <1>2, <2>2, <2>4 DEF WriterInv, InTx
  <2> QED
    BY <1>1, <1>2, <2>2, <2>3, <2>5, OrgMoves DEF ConciergeInv, OrgTypes
<1> QED
  BY <1>3, <1>4, <1>5

LEMMA UpsertInstall ==
    ASSUME ConciergeInv, NEW w \in RootWriters, UpsertPlatformRow(w)
    PROVE  OrgInv'
<1>1. writer[w] \in WriterType /\ WriterInv(w) /\ OrgTypes
  BY DEF ConciergeInv, OrgInv, OrgTypes
<1>2. UNCHANGED <<wsRow, listed, tokenOrg, creating, boxes, lateList>> /\ txHolder = "none"
      /\ writer[w].pc = "upsert"
  BY DEF UpsertPlatformRow, WriterAt
<1>3. CASE txHolder' = w /\ WriterGoes(w, "roots")
  <2>1. writer' = [writer EXCEPT ![w] = writer'[w]] /\ writer'[w] = [writer[w] EXCEPT !.pc = "roots"]
    BY <1>1, <1>3 DEF WriterGoes, OrgTypes
  <2>2. writer'[w] \in WriterType /\ WriterInv(w)'
    BY <1>1, <1>2, <1>3, <2>1 DEF WriterType, WriterInv, InTx
  <2>3. \A v \in RootWriters \ {w} : writer[v].pc \notin InTx
    BY <1>2 DEF ConciergeInv, OrgInv, WriterInv, RootWriters
  <2> QED
    BY <1>1, <1>2, <1>3, <2>1, <2>2, <2>3, OrgMoves DEF ConciergeInv, OrgTypes
<1>4. CASE WriterEnds(w) /\ UNCHANGED txHolder
  BY <1>2, <1>4, EndsKeeps
<1> QED
  BY <1>3, <1>4 DEF UpsertPlatformRow
\* The commit: one platform row, the old roots below it, list and token moved.
LEMMA CommitMoves ==
    ASSUME ConciergeInv, NEW w \in RootWriters, writer[w].pc = "commit",
           wsRow' = [n \in Rows |->
                IF n = writer[w].id
                THEN [status |-> IF wsRow[n].status = "absent" THEN "offline" ELSE wsRow[n].status,
                      platform |-> TRUE, parent |-> NoRow]
                ELSE IF n \in writer[w].roots THEN [wsRow[n] EXCEPT !.parent = writer[w].id, !.platform = FALSE]
                ELSE IF n \in writer[w].demoted THEN [wsRow[n] EXCEPT !.platform = FALSE] ELSE wsRow[n]],
           MigrateAnchors(w), txHolder' = "none",
           \/ w = "cp" /\ WriterEnds(w)
           \/ w # "cp" /\ WriterGoes(w, "name"),
           UNCHANGED <<creating, boxes, lateList>>
    PROVE  /\ OrgInv'
           /\ \A n \in Rows : wsRow[n].status # "absent" => wsRow'[n].status = wsRow[n].status
           /\ wsRow'[writer[w].id].platform
           /\ (\E n \in listed : Root(n)) => (lateList' \/ \E m \in listed' : wsRow'[m].parent = NoRow)
<1> DEFINE id == writer[w].id
<1>1. /\ writer[w] \in WriterType /\ WriterInv(w) /\ OrgTypes /\ RowsInv
      /\ id \in {Canonical, Foreign} /\ id \in Rows /\ id \notin writer[w].roots
      /\ wsRow \in [Rows -> RowType]
  BY DEF ConciergeInv, OrgInv, OrgTypes, WriterInv, Rows
<1>2. \A n \in Rows :
         /\ wsRow'[n].platform = (n = id)
         /\ wsRow'[n].parent = IF n = id THEN NoRow
                               ELSE IF n \in writer[w].roots THEN id ELSE wsRow[n].parent
         /\ wsRow'[n].status = IF n = id /\ wsRow[n].status = "absent" THEN "offline" ELSE wsRow[n].status
         /\ wsRow'[n] \in RowType
  <2> SUFFICES ASSUME NEW n \in Rows
               PROVE  /\ wsRow'[n].platform = (n = id)
                      /\ wsRow'[n].parent = IF n = id THEN NoRow
                                            ELSE IF n \in writer[w].roots THEN id ELSE wsRow[n].parent
                      /\ wsRow'[n].status = IF n = id /\ wsRow[n].status = "absent" THEN "offline"
                                            ELSE wsRow[n].status
                      /\ wsRow'[n] \in RowType
    OBVIOUS
  <2>1. wsRow[n] \in RowType
    BY <1>1
  <2>2. CASE n = id
    <3>1. wsRow'[n] = [status |-> IF wsRow[n].status = "absent" THEN "offline" ELSE wsRow[n].status,
                       platform |-> TRUE, parent |-> NoRow]
      BY <2>2
    <3> QED
      BY <2>1, <2>2, <3>1 DEF RowType, RowStatus
  <2>3. CASE n # id /\ n \in writer[w].roots
    <3>1. wsRow'[n] = [wsRow[n] EXCEPT !.parent = id, !.platform = FALSE]
      BY <2>3
    <3> QED
      BY <1>1, <2>1, <2>3, <3>1 DEF RowType
  <2>4. CASE n # id /\ n \notin writer[w].roots
    <3>1. ~wsRow[n].platform
      BY <1>1, <2>4 DEF WriterInv
    <3>2. wsRow'[n] = [wsRow[n] EXCEPT !.platform = FALSE] \/ wsRow'[n] = wsRow[n]
      BY <2>4
    <3>3. wsRow[n].platform \in BOOLEAN
      BY <2>1 DEF RowType
    <3> QED
      BY <2>1, <2>4, <3>1, <3>2, <3>3 DEF RowType
  <2> QED
    BY <2>2, <2>3, <2>4
<1>3. wsRow' \in [Rows -> RowType]
  BY <1>2
<1>11. \A n \in Rows : wsRow'[n].platform <=> n = id
  BY ONLY <1>2, Zenon
<1>12. \A n \in Rows : n # id => wsRow'[n].status = wsRow[n].status
  BY ONLY <1>2
<1>13. wsRow'[id].status # "absent" /\ wsRow'[id].parent = NoRow
  BY ONLY <1>1, <1>2
<1>14. \A n \in Rows : n # id =>
         wsRow'[n].parent = IF n \in writer[w].roots THEN id ELSE wsRow[n].parent
  BY ONLY <1>2
<1>15. \A n \in Rows : wsRow[n].status # "absent" => wsRow'[n].status = wsRow[n].status
  BY ONLY <1>2
<1>4. /\ listed' = (listed \ writer[w].roots) \union (IF writer[w].copied THEN {id} ELSE {})
      /\ tokenOrg' = IF tokenOrg \in writer[w].roots THEN id ELSE tokenOrg
  BY DEF MigrateAnchors
<1>5. /\ writer' \in [RootWriters -> WriterType]
      /\ \A v \in RootWriters \ {w} : writer'[v] = writer[v]
      /\ \/ writer'[w] = NoWriter
         \/ w # "cp" /\ writer'[w] = [writer[w] EXCEPT !.pc = "name"]
  <2>1. NoWriter \in WriterType /\ [writer[w] EXCEPT !.pc = "name"] \in WriterType
    BY <1>1 DEF NoWriter, WriterType, NoModel
  <2> QED
    BY <1>1, <2>1 DEF WriterEnds, WriterGoes, OrgTypes
<1>6. OrgTypes'
  BY <1>1, <1>3, <1>4, <1>5 DEF OrgTypes
<1> HIDE DEF id
<1>7. RowsInv'
  <2>1. \A n \in Rows : wsRow'[n].platform => Root(n)' /\ n \in {Canonical, Foreign}
    BY ONLY <1>1, <1>11, <1>13 DEF Root
  <2>2. \A m, n \in Rows : wsRow'[m].platform /\ wsRow'[n].platform => m = n
    BY ONLY <1>11
  <2>3. \A n \in Rows : wsRow'[n].parent # n
    BY ONLY <1>1, <1>13, <1>14, RowsDiffer DEF RowsInv, Rows
  <2>4. Root(tokenOrg)'
    <3>1. tokenOrg \in Rows /\ Root(tokenOrg)
      BY ONLY <1>1 DEF RowsInv, OrgTypes
    <3> QED
      BY ONLY <1>1, <1>12, <1>13, <1>14, <1>4, <3>1 DEF Root
  <2>5. creating.pc = "insert" => wsRow'[Fresh].status = "absent"
    BY ONLY <1>1, <1>12, RowsDiffer DEF RowsInv, Rows
  <2> QED
    BY <1>1, <2>1, <2>2, <2>3, <2>4, <2>5 DEF RowsInv
<1>8. \A v \in RootWriters \ {w} : WriterInv(v)'
  <2> SUFFICES ASSUME NEW v \in RootWriters \ {w} PROVE WriterInv(v)'
    OBVIOUS
  <2>1. WriterInv(v) /\ writer'[v] = writer[v] /\ writer[v] \in WriterType
    BY <1>1, <1>5 DEF ConciergeInv, OrgInv, OrgTypes
  <2>2. writer[v].pc \notin InTx
    BY <1>1, <2>1 DEF WriterInv, InTx
  <2>3. \A n \in writer[v].roots : wsRow'[n].status # "absent"
    BY ONLY <1>12, <1>13, <2>1 DEF WriterInv, WriterType
  <2> QED
    BY <2>1, <2>2, <2>3 DEF WriterInv, InTx
<1>9. WriterInv(w)'
  <2>1. CASE writer'[w] = NoWriter
    BY ONLY <2>1, RowsDiffer DEF WriterInv, NoWriter, InTx
  <2>2. CASE w # "cp" /\ writer'[w] = [writer[w] EXCEPT !.pc = "name"]
    <3>1. /\ writer'[w].pc = "name" /\ writer'[w].id = id /\ writer'[w].roots = writer[w].roots
          /\ writer'[w].revive = writer[w].revive
      BY <1>1, <2>2 DEF WriterType, id
    <3>2. \A n \in writer[w].roots : wsRow'[n].status # "absent"
      BY ONLY <1>1, <1>12, <1>13 DEF WriterInv, WriterType
    <3>3. w = "boot" => ~writer[w].revive
      BY <1>1 DEF WriterInv
    <3> QED
      BY <1>1, <2>2, <3>1, <3>2, <3>3 DEF WriterInv, InTx
  <2> QED
    BY <1>5, <2>1, <2>2
<1>10. (\E n \in listed : Root(n)) => (lateList' \/ \E m \in listed' : wsRow'[m].parent = NoRow)
  <2> SUFFICES ASSUME NEW n \in listed, Root(n), ~lateList' PROVE \E m \in listed' : wsRow'[m].parent = NoRow
    OBVIOUS
  <2>1. n \in Rows /\ wsRow[n].parent = NoRow
    BY <1>1 DEF OrgTypes, Root
  <2>2. CASE n \in writer[w].roots
    <3>1. writer[w].copied
      BY <1>1, <2>2 DEF WriterInv
    <3> QED
      BY ONLY <1>1, <1>13, <1>4, <3>1
  <2>3. CASE n \notin writer[w].roots
    BY ONLY <1>13, <1>14, <1>4, <2>1, <2>3
  <2> QED
    BY <2>2, <2>3
<1> QED
  BY ONLY <1>1, <1>11, <1>15, <1>6, <1>7, <1>8, <1>9, <1>10 DEF OrgInv, id
\* What a step of the org may do to rows, list and removed rows.
RowsStep ==
    /\ PlatformRoots # {} => PlatformRoots' # {}
    /\ (\E n \in listed : Root(n)) => (lateList' \/ \E m \in listed' : wsRow'[m].parent = NoRow)
    /\ \A n \in Rows : (wsRow[n].status = "removed" /\ wsRow'[n].status # "removed") =>
          (writer["ensure"].revive /\ writer["ensure"].id = n)

\* What a start may do to the owner's own model.
PickStep ==
    /\ (provision.pc = "store" /\ stored = "own") => (stored' = "own" \/ pickedAfter)
    /\ (provision.pc = "compose" /\ box' # box /\ stored = "own") =>
          (box'[provision.id].model = "own" \/ pickedAfter)

\* Rows that only change their states keep roots and list.
LEMMA StatesKeepRows ==
    ASSUME OrgInv,
           \A n \in Rows : /\ wsRow'[n].platform = wsRow[n].platform
                           /\ wsRow'[n].parent = wsRow[n].parent
                           /\ wsRow'[n].status = "absent" <=> wsRow[n].status = "absent",
           listed \subseteq listed'
    PROVE  /\ PlatformRoots # {} => PlatformRoots' # {}
           /\ (\E n \in listed : Root(n)) => \E m \in listed' : wsRow'[m].parent = NoRow
<1>1. \A n \in Rows : Root(n)' <=> Root(n)
  BY DEF Root
<1>2. \A n \in Rows : IsPlatform(n)' <=> IsPlatform(n)
  BY <1>1, Zenon DEF IsPlatform
<1> QED
  BY <1>1, <1>2 DEF PlatformRoots, Root, OrgInv, OrgTypes

LEMMA SameRows ==
    ASSUME OrgInv, UNCHANGED wsRow, listed \subseteq listed'
    PROVE  RowsStep
<1>1. /\ PlatformRoots # {} => PlatformRoots' # {}
      /\ (\E n \in listed : Root(n)) => \E m \in listed' : wsRow'[m].parent = NoRow
  BY StatesKeepRows
<1> QED
  BY <1>1 DEF RowsStep

LEMMA CommitKeeps ==
    ASSUME ConciergeInv, NEW w \in RootWriters, CommitInstall(w)
    PROVE  OrgInv' /\ RowsStep
<1>1. writer[w].pc = "commit" /\ txHolder' = "none" /\ UNCHANGED <<creating, boxes, lateList>>
  BY DEF CommitInstall, WriterAt
<1>2. CASE WriterEnds(w) /\ UNCHANGED <<wsRow, listed, tokenOrg>>
  BY <1>1, <1>2, EndsKeeps, SameRows DEF ConciergeInv
<1>3. CASE ~(WriterEnds(w) /\ UNCHANGED <<wsRow, listed, tokenOrg>>)
  <2>1. /\ OrgInv'
        /\ \A n \in Rows : wsRow[n].status # "absent" => wsRow'[n].status = wsRow[n].status
        /\ wsRow'[writer[w].id].platform
        /\ (\E n \in listed : Root(n)) => (lateList' \/ \E m \in listed' : wsRow'[m].parent = NoRow)
    BY <1>1, <1>3, CommitMoves DEF CommitInstall
  <2>2. PICK id \in Rows : wsRow'[id].platform
    <3>1. WriterInv(w)
      BY DEF ConciergeInv, OrgInv
    <3>2. writer[w].id \in Rows
      BY <1>1, <3>1 DEF WriterInv, Rows
    <3> QED
      BY <2>1, <3>2
  <2>3. IsPlatform(id)'
    BY <2>1, <2>2 DEF OrgInv, RowsInv, IsPlatform
  <2>4. PlatformRoots' # {}
    BY <2>2, <2>3 DEF PlatformRoots
  <2> QED
    BY <2>1, <2>4 DEF RowsStep
<1> QED
  BY <1>2, <1>3

\* Names, models and revivals of the flow.
LEMMA FlowKeeps ==
    ASSUME ConciergeInv, NEW w \in RootWriters, FlowStep(w)
    PROVE  OrgInv' /\ RowsStep
<1>1. writer[w] \in WriterType /\ WriterInv(w) /\ OrgTypes /\ OrgInv
  BY DEF ConciergeInv, OrgInv, OrgTypes
<1>2. CASE FlowNames(w)
  <2>1. UNCHANGED <<wsRow, txHolder, listed, tokenOrg, creating, boxes, lateList>> /\ writer[w].pc = "name"
    BY <1>2 DEF FlowNames, OrgKeeps, WriterAt
  <2>2. w # "cp" /\ (w = "boot" => ~writer[w].revive)
    BY <1>1, <2>1 DEF WriterInv
  <2>3. WriterGoes(w, "model") \/ WriterEnds(w)
    BY <1>2 DEF FlowNames
  <2> QED
    BY <1>1, <2>1, <2>2, <2>3, GoesKeeps, EndsKeeps, SameRows DEF InTx
<1>3. CASE FlowStoresModel(w)
  <2>1. UNCHANGED <<wsRow, txHolder, listed, tokenOrg, creating, boxes, lateList>> /\ writer[w].pc = "model"
    BY <1>3 DEF FlowStoresModel, OrgKeeps, WriterAt
  <2>2. w # "cp" /\ (w = "boot" => ~writer[w].revive)
    BY <1>1, <2>1 DEF WriterInv
  <2>3. WriterGoes(w, "revive") \/ WriterEnds(w)
    BY <1>3 DEF FlowStoresModel
  <2> QED
    BY <1>1, <2>1, <2>2, <2>3, GoesKeeps, EndsKeeps, SameRows DEF InTx
<1>4. CASE reviveRemovedPlatformAgent(w)
  <2>1. UNCHANGED <<txHolder, listed, tokenOrg, creating, boxes, lateList>> /\ writer[w].pc = "revive"
    BY <1>4 DEF reviveRemovedPlatformAgent, WriterAt
  <2>2. w # "cp" /\ (w = "boot" => ~writer[w].revive)
    BY <1>1, <2>1 DEF WriterInv
  <2>3. CASE UNCHANGED wsRow /\ WriterGoes(w, "kick")
    BY <1>1, <2>1, <2>2, <2>3, GoesKeeps, SameRows DEF InTx
  <2>4. CASE UNCHANGED wsRow /\ WriterEnds(w)
    BY <1>1, <2>1, <2>2, <2>4, EndsKeeps, SameRows
  <2>5. CASE /\ WriterGoes(w, "kick") /\ writer[w].revive /\ wsRow[writer[w].id].status = "removed"
             /\ wsRow' = [wsRow EXCEPT ![writer[w].id].status = "offline"]
    <3> DEFINE id == writer[w].id
    <3>1. id \in Rows /\ w = "ensure"
      BY <1>1, <2>1, <2>2, <2>5 DEF WriterInv, Rows, RootWriters
    <3>2. wsRow[id] \in RowType /\ wsRow \in [Rows -> RowType]
      BY <1>1, <3>1 DEF OrgTypes
    <3>3. [wsRow[id] EXCEPT !.status = "offline"] \in RowType
      BY <3>2 DEF RowType, RowStatus
    <3>4. wsRow' = [wsRow EXCEPT ![id] = [wsRow[id] EXCEPT !.status = "offline"]]
      BY <2>5, <3>2
    <3>5. wsRow' \in [Rows -> RowType]
      BY ONLY <3>1, <3>2, <3>3, <3>4
    <3>6. \A n \in Rows : /\ wsRow'[n].platform = wsRow[n].platform
                          /\ wsRow'[n].parent = wsRow[n].parent
                          /\ wsRow'[n].status = IF n = id THEN "offline" ELSE wsRow[n].status
      BY ONLY <3>1, <3>2, <3>4 DEF RowType
    <3>7. \A n \in Rows : wsRow'[n].status = "absent" <=> wsRow[n].status = "absent"
      BY <3>1, <3>6, <2>5
    <3>8. writer' = [writer EXCEPT ![w] = writer'[w]] /\ writer'[w] = [writer[w] EXCEPT !.pc = "kick"]
      BY <1>1, <2>5 DEF WriterGoes, OrgTypes
    <3>9. writer'[w] \in WriterType
      BY <1>1, <3>8 DEF WriterType
    <3>10. WriterInv(w)'
      BY <1>1, <2>1, <3>1, <3>7, <3>8 DEF WriterInv, WriterType, InTx
    <3>11. OrgInv'
      BY <1>1, <2>1, <3>5, <3>6, <3>7, <3>8, <3>9, <3>10, OrgMoves DEF OrgTypes
    <3>12. \A n \in Rows : (wsRow[n].status = "removed" /\ wsRow'[n].status # "removed") =>
              (writer["ensure"].revive /\ writer["ensure"].id = n)
      BY <2>5, <3>1, <3>6
    <3>13. /\ PlatformRoots # {} => PlatformRoots' # {}
           /\ (\E n \in listed : Root(n)) => \E m \in listed' : wsRow'[m].parent = NoRow
      BY <1>1, <2>1, <3>6, <3>7, StatesKeepRows
    <3> QED
      BY <3>11, <3>12, <3>13 DEF RowsStep
  <2> QED
    BY <1>4, <2>3, <2>4, <2>5 DEF reviveRemovedPlatformAgent
<1> QED
  BY <1>2, <1>3, <1>4 DEF FlowStep

LEMMA InstallKeeps ==
    ASSUME ConciergeInv, NEW w \in RootWriters, InstallStep(w)
    PROVE  OrgInv' /\ RowsStep
<1>1. CASE ProbeLiveRoot(w)
  <2>1. UNCHANGED <<wsRow, txHolder, listed, tokenOrg, creating, boxes, lateList>> /\ writer[w].pc = "probe"
        /\ (WriterEnds(w) \/ WriterGoes(w, "demote"))
    BY <1>1 DEF ProbeLiveRoot, OrgKeeps, WriterAt
  <2>2. w = "boot" => ~writer[w].revive
    BY <2>1 DEF ConciergeInv, OrgInv, WriterInv
  <2> QED
    BY <2>1, <2>2, GoesKeeps, EndsKeeps, SameRows DEF InTx, ConciergeInv
<1>2. CASE DemoteOtherRoots(w) \/ SelectOldRoots(w) \/ CopyAllowlist(w)
  <2>1. UNCHANGED <<wsRow, listed>>
    BY <1>2 DEF DemoteOtherRoots, SelectOldRoots, CopyAllowlist, OrgKeeps
  <2> QED
    BY <1>2, <2>1, DemoteKeeps, SameRows DEF ConciergeInv
<1>3. CASE UpsertPlatformRow(w)
  BY <1>3, UpsertInstall, SameRows DEF UpsertPlatformRow, ConciergeInv
<1>4. CASE CommitInstall(w)
  BY <1>4, CommitKeeps
<1> QED
  BY <1>1, <1>2, <1>3, <1>4 DEF InstallStep
-----------------------------------------------------------------------------
(* Everybody else at the rows.                                             *)

\* States of rows that are there change, and nothing else of the org.
LEMMA StatesMove ==
    ASSUME OrgInv, NEW S \in SUBSET Rows, NEW st \in {"offline", "online", "removed"},
           wsRow' = [n \in Rows |-> IF n \in S THEN [wsRow[n] EXCEPT !.status = st] ELSE wsRow[n]],
           \A n \in S : wsRow[n].status \notin {"absent", "removed"},
           UNCHANGED <<txHolder, writer, listed, tokenOrg, creating, lateList>>, boxes' \subseteq Rows
    PROVE  OrgInv' /\ RowsStep
<1>1. OrgTypes /\ wsRow \in [Rows -> RowType] /\ writer \in [RootWriters -> WriterType]
      /\ "ensure" \in RootWriters
  BY DEF OrgInv, OrgTypes, RootWriters
<1>2. \A n \in S : [wsRow[n] EXCEPT !.status = st] \in RowType
  BY <1>1 DEF RowType, RowStatus
<1>3. wsRow' \in [Rows -> RowType]
  BY <1>1, <1>2
<1>4. \A n \in Rows : /\ wsRow'[n].platform = wsRow[n].platform
                      /\ wsRow'[n].parent = wsRow[n].parent
                      /\ wsRow'[n].status = IF n \in S THEN st ELSE wsRow[n].status
  BY <1>1 DEF RowType
<1>5. \A n \in Rows : wsRow'[n].status = "absent" <=> wsRow[n].status = "absent"
  BY <1>4
<1>6. writer' = [writer EXCEPT !["ensure"] = writer'["ensure"]] /\ writer'["ensure"] \in WriterType
  BY <1>1
<1>7. WriterInv("ensure")'
  BY <1>1, <1>4, <1>5 DEF OrgInv, WriterInv, WriterType, InTx
<1>8. OrgInv'
  BY <1>1, <1>3, <1>4, <1>5, <1>6, <1>7, OrgMoves DEF OrgTypes
<1>9. /\ PlatformRoots # {} => PlatformRoots' # {}
      /\ (\E n \in listed : Root(n)) => \E m \in listed' : wsRow'[m].parent = NoRow
  BY <1>4, <1>5, StatesKeepRows
<1>10. \A n \in Rows : wsRow[n].status = "removed" => wsRow'[n].status = "removed"
  BY <1>4
<1> QED
  BY <1>8, <1>9, <1>10 DEF RowsStep

LEMMA OthersKeep ==
    ASSUME ConciergeInv, (\E n \in Rows : Heartbeat(n)) \/ CascadeDelete
    PROVE  OrgInv' /\ RowsStep /\ boxes' \subseteq boxes
<1>1. OrgInv /\ OrgTypes /\ boxes \subseteq Rows /\ wsRow \in [Rows -> RowType]
  BY DEF ConciergeInv, OrgInv, OrgTypes
<1>2. ASSUME NEW n \in Rows, Heartbeat(n) PROVE OrgInv' /\ RowsStep /\ boxes' \subseteq boxes
  <2>1. /\ wsRow' = [wsRow EXCEPT ![n].status = "online"] /\ wsRow[n].status = "offline"
        /\ UNCHANGED <<txHolder, writer, listed, tokenOrg, creating, boxes, lateList>>
    BY <1>2 DEF Heartbeat
  <2>2. wsRow' = [m \in Rows |-> IF m \in {n} THEN [wsRow[m] EXCEPT !.status = "online"] ELSE wsRow[m]]
    BY <1>1, <2>1
  <2> QED
    BY <1>1, <2>1, <2>2, StatesMove
<1>3. CASE CascadeDelete
  <2>1. PICK S \in SUBSET Rows :
          /\ \A m \in S : Live(m)
          /\ wsRow' = [m \in Rows |-> IF m \in S THEN [wsRow[m] EXCEPT !.status = "removed"] ELSE wsRow[m]]
          /\ boxes' = boxes \ S
    BY <1>3 DEF CascadeDelete
  <2>2. UNCHANGED <<txHolder, writer, listed, tokenOrg, creating, lateList>>
    BY <1>3 DEF CascadeDelete
  <2> QED
    BY <1>1, <2>1, <2>2, StatesMove DEF Live
<1> QED
  BY <1>2, <1>3

LEMMA CreateReadsKeeps ==
    ASSUME ConciergeInv, CreateReads
    PROVE  OrgInv' /\ RowsStep
<1>1. /\ creating' = [pc |-> "insert", parent |-> defaultCreateParentID] /\ wsRow[Fresh] = Absent
      /\ UNCHANGED <<wsRow, txHolder, writer, listed, tokenOrg, boxes, lateList>>
  BY DEF CreateReads
<1>2. OrgTypes /\ RowsInv /\ OrgInv /\ ~Live(Fresh)
  BY <1>1 DEF ConciergeInv, OrgInv, Live, Absent
<1>3. \A s \in SUBSET {n \in Rows : Live(n)} : Only(s) \in (Rows \ {Fresh}) \union {NoRow}
  <2> SUFFICES ASSUME NEW s \in SUBSET {n \in Rows : Live(n)}, Cardinality(s) = 1
               PROVE  (CHOOSE n \in s : TRUE) \in Rows \ {Fresh}
    BY DEF Only
  <2>1. s # {}
    BY FS_EmptySet
  <2> QED
    BY <1>2, <2>1
<1>4. defaultCreateParentID \in (Rows \ {Fresh}) \union {NoRow}
  BY <1>3 DEF defaultCreateParentID
<1>5. OrgTypes'
  BY <1>1, <1>2, <1>4 DEF OrgTypes
<1>6. RowsInv'
  BY <1>1, <1>2, <1>4, RowsDiffer DEF RowsInv, Root, Absent
<1>7. \A w \in RootWriters : WriterInv(w)'
  BY <1>1, <1>2 DEF OrgInv, WriterInv
<1> QED
  BY <1>1, <1>2, <1>5, <1>6, <1>7, SameRows DEF OrgInv

LEMMA CreateInsertsKeeps ==
    ASSUME ConciergeInv, CreateInserts
    PROVE  OrgInv' /\ RowsStep
<1> DEFINE new == [status |-> "offline", platform |-> FALSE, parent |-> creating.parent]
<1>1. /\ creating.pc = "insert" /\ creating' = [pc |-> "idle", parent |-> NoRow]
      /\ wsRow' = [wsRow EXCEPT ![Fresh] = new]
      /\ UNCHANGED <<txHolder, writer, listed, tokenOrg, boxes, lateList>>
  BY DEF CreateInserts
<1>2. /\ OrgTypes /\ RowsInv /\ OrgInv /\ wsRow \in [Rows -> RowType] /\ Fresh \in Rows
      /\ creating.parent \in (Rows \ {Fresh}) \union {NoRow} /\ wsRow[Fresh].status = "absent"
  BY <1>1 DEF ConciergeInv, OrgInv, OrgTypes, RowsInv, Rows
<1>3. new \in RowType /\ new.status = "offline" /\ ~new.platform /\ new.parent = creating.parent
  BY <1>2 DEF RowType, RowStatus
<1> HIDE DEF new
<1>4. wsRow' \in [Rows -> RowType] /\ wsRow'[Fresh] = new
      /\ \A n \in Rows \ {Fresh} : wsRow'[n] = wsRow[n]
  BY <1>1, <1>2, <1>3
<1>5. OrgTypes'
  BY <1>1, <1>2, <1>4 DEF OrgTypes
<1>6. ~wsRow[Fresh].platform /\ ~Root(Fresh) /\ tokenOrg # Fresh
  BY <1>2, RowsDiffer DEF RowsInv, Root
<1>7. \A n \in Rows \ {Fresh} : (Root(n)' <=> Root(n)) /\ (IsPlatform(n)' <=> IsPlatform(n))
  BY <1>4 DEF Root, IsPlatform
<1>8. RowsInv'
  <2>1. \A n \in Rows : wsRow'[n].platform => Root(n)' /\ n \in {Canonical, Foreign} /\ wsRow[n].platform
    BY <1>2, <1>3, <1>4, <1>7 DEF RowsInv
  <2>2. \A m, n \in Rows : wsRow'[m].platform /\ wsRow'[n].platform => m = n
    BY <1>2, <2>1 DEF RowsInv
  <2>3. \A n \in Rows : wsRow'[n].parent # n
    BY <1>2, <1>3, <1>4 DEF RowsInv
  <2>4. Root(tokenOrg)'
    BY <1>1, <1>2, <1>4, <1>6 DEF RowsInv, Root, OrgTypes
  <2> QED
    BY <1>1, <2>1, <2>2, <2>3, <2>4, RowsDiffer DEF RowsInv
<1>9. ASSUME NEW w \in RootWriters PROVE WriterInv(w)'
  <2>1. WriterInv(w) /\ writer[w] \in WriterType /\ writer' = writer /\ lateList' = lateList
        /\ listed' = listed /\ txHolder' = txHolder
    BY <1>1, <1>2 DEF OrgInv, OrgTypes
  <2>2. \A n \in writer[w].roots : n \in Rows /\ n # Fresh /\ wsRow'[n].status # "absent"
    BY <1>2, <1>4, <2>1 DEF WriterInv, WriterType
  <2>3. \A n \in Rows : wsRow'[n].platform => wsRow[n].platform
    BY <1>3, <1>4
  <2> QED
    BY ONLY <2>1, <2>2, <2>3 DEF WriterInv, InTx
<1>10. RowsStep
  <2>1. PlatformRoots' = PlatformRoots
    BY <1>3, <1>4, <1>6, <1>7 DEF PlatformRoots, IsPlatform
  <2>2. (\E n \in listed : Root(n)) => \E m \in listed' : wsRow'[m].parent = NoRow
    BY <1>1, <1>2, <1>4, <1>6 DEF Root, OrgTypes
  <2>3. \A n \in Rows : wsRow[n].status = "removed" => wsRow'[n].status = "removed"
    BY <1>2, <1>4
  <2> QED
    BY <2>1, <2>2, <2>3 DEF RowsStep
<1> QED
  BY <1>5, <1>8, <1>9, <1>10 DEF OrgInv

LEMMA ListKeeps ==
    ASSUME ConciergeInv, PutAllowlist
    PROVE  OrgInv' /\ RowsStep
<1>1. PICK n \in Rows : listed' = listed \union {n}
  BY DEF PutAllowlist
<1>2. /\ lateList' = (lateList \/ \E w \in RootWriters : writer[w].pc \in {"copy", "commit"})
      /\ UNCHANGED <<wsRow, txHolder, writer, tokenOrg, creating, boxes>>
  BY DEF PutAllowlist
<1>3. OrgTypes /\ RowsInv /\ OrgInv
  BY DEF ConciergeInv, OrgInv
<1>4. (lateList \/ \E w \in RootWriters : writer[w].pc \in {"copy", "commit"}) \in BOOLEAN
  BY Zenon
<1>5. OrgTypes'
  BY <1>1, <1>2, <1>3, <1>4 DEF OrgTypes
<1>6. RowsInv'
  BY <1>2, <1>3 DEF RowsInv, Root
<1>7. ASSUME NEW w \in RootWriters PROVE WriterInv(w)'
  <2>1. WriterInv(w)
    BY <1>3 DEF OrgInv
  <2>2. writer[w].pc = "commit" => lateList'
    BY <1>2
  <2> QED
    BY <1>2, <2>1, <2>2 DEF WriterInv
<1> QED
  BY <1>1, <1>2, <1>3, <1>5, <1>6, <1>7, SameRows DEF OrgInv
LEMMA BootStarts ==
    ASSUME ConciergeInv, MaybeProvisionPlatformAgentOnBoot \/ triggerPlatformProvision
    PROVE  OrgInv' /\ RowsStep /\ AgentInv'
<1>1. /\ UNCHANGED <<wsRow, txHolder, listed, tokenOrg, creating, boxes, lateList>>
      /\ UNCHANGED <<stored, pin, default, provision, box, keys, pickedAfter, world>>
      /\ (WriterEnds("boot") \/ WriterEnds("ensure"))
  BY DEF MaybeProvisionPlatformAgentOnBoot, triggerPlatformProvision, OrgKeeps
<1>2. "boot" \in RootWriters /\ "ensure" \in RootWriters
  BY DEF RootWriters
<1>3. OrgInv'
  BY <1>1, <1>2, EndsKeeps
<1> QED
  BY <1>1, <1>3, SameRows, AgentStays DEF ConciergeInv

-----------------------------------------------------------------------------
(* The provision of the concierge.                                         *)

\* The owner's model is written, by SetModel or with a repair.
LEMMA PickKeeps ==
    ASSUME AgentInv, stored' \in ModelNames, pickedAfter' = (provision.pc # "idle"),
           UNCHANGED <<pin, default, provision, box, keys, boxes, world>>
    PROVE  AgentInv'
<1>1. (provision.pc # "idle") \in BOOLEAN
  BY Zenon
<1>2. AgentTypes'
  BY <1>1 DEF AgentInv, AgentTypes
<1>3. ProvisionInv'
  BY DEF AgentInv, ProvisionInv, BoxHasKey, GraftHasFile
<1> QED
  BY <1>2, <1>3 DEF AgentInv

LEMMA FlowKeepsAgent ==
    ASSUME ConciergeInv, NEW w \in RootWriters, FlowStep(w)
    PROVE  AgentInv'
<1>1. CASE FlowStoresModel(w) /\ ~UNCHANGED <<stored, pickedAfter>>
  <2>1. /\ stored' = writer[w].model /\ pickedAfter' = (provision.pc # "idle") /\ writer[w].model # NoModel
        /\ UNCHANGED <<pin, default, provision, box, keys, boxes, world>>
    BY <1>1 DEF FlowStoresModel, OrgKeeps
  <2>2. writer[w].model \in ModelNames
    BY DEF ConciergeInv, OrgInv, OrgTypes, WriterType, ModelNames, PlatformModels
  <2> QED
    BY <2>1, <2>2, PickKeeps DEF ConciergeInv
<1>2. CASE ~(FlowStoresModel(w) /\ ~UNCHANGED <<stored, pickedAfter>>)
  <2>1. UNCHANGED <<stored, pin, default, provision, box, keys, pickedAfter, world>> /\ boxes' = boxes
    BY <1>2 DEF FlowStep, FlowNames, FlowStoresModel, reviveRemovedPlatformAgent, OrgKeeps, AgentKeeps
  <2> QED
    BY <2>1, AgentStays DEF ConciergeInv
<1> QED
  BY <1>1, <1>2

LEMMA ProvisionBegins ==
    ASSUME ConciergeInv, applyConciergeProvisionConfig
    PROVE  OrgInv' /\ RowsStep /\ AgentInv'
<1> DEFINE n == platformRootLookup
           p == IF stored = "own" THEN "pin" ELSE "resolve"
<1>1. CASE n # NoRow /\ Live(n)
  <2>1. /\ provision' = [NoProvision EXCEPT !.id = n, !.model = stored, !.pc = p]
        /\ boxes' = boxes \ {n} /\ wsRow' = [wsRow EXCEPT ![n].status = "offline"]
        /\ pickedAfter' = FALSE
        /\ UNCHANGED <<txHolder, writer, listed, tokenOrg, creating, lateList, stored, pin, default, box, keys, world>>
    BY <1>1 DEF applyConciergeProvisionConfig
  <2>2. n \in Rows
    BY <1>1 DEF platformRootLookup, PlatformRoots
  <2>3. OrgInv /\ wsRow \in [Rows -> RowType] /\ boxes \subseteq Rows
    BY DEF ConciergeInv, OrgInv, OrgTypes
  <2> HIDE DEF n
  <2>4. wsRow' = [m \in Rows |-> IF m \in {n} THEN [wsRow[m] EXCEPT !.status = "offline"] ELSE wsRow[m]]
    BY <2>1, <2>2, <2>3
  <2>5. OrgInv' /\ RowsStep
    BY <1>1, <2>1, <2>2, <2>3, <2>4, StatesMove DEF Live
  <2>6. AgentTypes /\ ProvisionInv /\ NoProvision \in ProvisionType
    BY DEF ConciergeInv, AgentInv, NoProvision, ProvisionType, ModelNames, NoModel
  <2>7. provision' \in ProvisionType /\ provision'.id = n /\ provision'.model = stored /\ provision'.pc = p
    BY <2>1, <2>2, <2>6 DEF ProvisionType, AgentTypes
  <2>8. AgentTypes'
    BY <2>1, <2>6, <2>7 DEF AgentTypes
  <2>9. ProvisionInv'
    BY <2>1, <2>2, <2>3, <2>6, <2>7 DEF ProvisionInv, BoxHasKey, GraftHasFile
  <2> QED
    BY <2>5, <2>8, <2>9 DEF AgentInv
<1>2. CASE ~(n # NoRow /\ Live(n))
  <2>1. /\ UNCHANGED <<wsRow, txHolder, writer, listed, tokenOrg, creating, lateList, boxes>>
        /\ UNCHANGED <<stored, pin, default, provision, box, keys, pickedAfter, world>>
    BY <1>2 DEF applyConciergeProvisionConfig
  <2>2. boxes' \subseteq Rows
    BY <2>1 DEF ConciergeInv, OrgInv, OrgTypes
  <2> QED
    BY <2>1, <2>2, OrgInvStays, SameRows, AgentStays DEF ConciergeInv
<1> QED
  BY <1>1, <1>2

\* The model, the pin and the credential are settled one after the other.
LEMMA ProvisionSettles ==
    ASSUME ConciergeInv, ensureConciergeModel \/ setModelSecret \/ ensureConciergeProvider
    PROVE  AgentInv'
<1>1. AgentTypes /\ ProvisionInv /\ provision \in ProvisionType
  BY DEF ConciergeInv, AgentInv, AgentTypes
<1>2. UNCHANGED <<boxes, default, box, keys, pickedAfter, world>>
  BY DEF ensureConciergeModel, setModelSecret, ensureConciergeProvider, OrgKeeps
<1>3. CASE ensureConciergeModel
  <2>1. provision.pc = "resolve" /\ UNCHANGED <<stored, pin>>
    BY <1>3 DEF ensureConciergeModel, ProvisionAt
  <2>2. /\ provision' \in ProvisionType /\ provision'.pc \in {"pin", "store"} /\ provision'.id = provision.id
    <3>1. default \in ModelNames
      BY <1>1 DEF AgentTypes, ModelNames
    <3> QED
      BY <1>1, <1>3, <3>1 DEF ensureConciergeModel, ProvisionGoes, ProvisionType
  <2>3. ProvisionInv'
    BY <1>1, <1>2, <2>1, <2>2 DEF ProvisionInv, BoxHasKey, GraftHasFile
  <2> QED
    BY <1>1, <1>2, <2>1, <2>2, <2>3 DEF AgentInv, AgentTypes
<1>4. CASE setModelSecret
  <2>1. /\ provision.pc = "store" /\ UNCHANGED pin /\ stored' \in {stored, provision.model}
        /\ provision' = [provision EXCEPT !.pc = "pin"]
    BY <1>4 DEF setModelSecret, ProvisionAt, ProvisionGoes
  <2>2. provision' \in ProvisionType /\ stored' \in ModelNames /\ provision'.pc = "pin"
        /\ provision'.id = provision.id /\ provision'.model = provision.model
    BY <1>1, <2>1 DEF AgentTypes, ProvisionType
  <2>3. ProvisionInv'
    BY <1>1, <1>2, <2>1, <2>2 DEF ProvisionInv, BoxHasKey, GraftHasFile
  <2> QED
    BY <1>1, <1>2, <2>1, <2>2, <2>3 DEF AgentInv, AgentTypes
<1>5. CASE ensureConciergeProvider
  <2> DEFINE seeds == ~pin /\ conciergeModelIsPlatformManaged(provision.model)
  <2>1. /\ provision.pc = "pin" /\ UNCHANGED stored /\ pin' \in {pin, pin \/ seeds}
        /\ provision' = [provision EXCEPT !.pc = "mint", !.pin = seeds]
    BY <1>5 DEF ensureConciergeProvider, ProvisionAt
  <2>2. seeds \in BOOLEAN /\ (pin \/ seeds) \in BOOLEAN
    BY Zenon DEF conciergeModelIsPlatformManaged
  <2> HIDE DEF seeds
  <2>3. provision' \in ProvisionType /\ provision'.pc = "mint"
        /\ provision'.id = provision.id /\ provision'.model = provision.model
    BY <1>1, <2>1, <2>2 DEF ProvisionType
  <2>4. pin' \in BOOLEAN
    BY <1>1, <2>1, <2>2 DEF AgentTypes
  <2>5. ProvisionInv'
    BY <1>1, <1>2, <2>1, <2>3 DEF ProvisionInv, BoxHasKey, GraftHasFile
  <2> QED
    BY <1>1, <1>2, <2>1, <2>3, <2>4, <2>5 DEF AgentInv, AgentTypes
<1> QED
  BY <1>3, <1>4, <1>5
LEMMA MintKeeps ==
    ASSUME ConciergeInv, MintConciergeKey
    PROVE  AgentInv'
<1>1. /\ AgentTypes /\ ProvisionInv /\ provision \in ProvisionType /\ provision.pc = "mint"
      /\ keys \in [Rows -> SUBSET KeyIds]
      /\ UNCHANGED <<boxes, stored, pin, default, box, pickedAfter, world>>
  BY DEF ConciergeInv, AgentInv, AgentTypes, MintConciergeKey, ProvisionAt, OrgKeeps
<1>2. provision.id \in Rows \ boxes
  BY <1>1 DEF ProvisionInv
<1>3. CASE provision' = [provision EXCEPT !.pc = "compose", !.key = 0] /\ UNCHANGED keys
  <2>1. provision' \in ProvisionType /\ provision'.pc = "compose" /\ provision'.key = 0
        /\ provision'.id = provision.id /\ provision'.model = provision.model
    BY <1>1, <1>3 DEF ProvisionType
  <2>2. ProvisionInv'
    BY <1>1, <1>3, <2>1 DEF ProvisionInv, BoxHasKey, GraftHasFile
  <2> QED
    BY <1>1, <1>3, <2>1, <2>2 DEF AgentInv, AgentTypes
<1>4. CASE ~(provision' = [provision EXCEPT !.pc = "compose", !.key = 0] /\ UNCHANGED keys)
  <2>1. PICK k \in KeyIds : /\ keys' = [keys EXCEPT ![provision.id] = @ \union {k}]
                            /\ provision' = [provision EXCEPT !.pc = "revoke", !.key = k]
    BY <1>4 DEF MintConciergeKey
  <2>2. provision' \in ProvisionType /\ provision'.pc = "revoke" /\ provision'.key = k
        /\ provision'.id = provision.id /\ provision'.model = provision.model
    BY <1>1, <2>1 DEF ProvisionType
  <2>3. /\ keys' \in [Rows -> SUBSET KeyIds] /\ k \in keys'[provision.id]
        /\ \A n \in Rows : keys[n] \subseteq keys'[n]
    BY <1>1, <1>2, <2>1
  <2>4. BoxHasKey'
    BY <1>1, <2>3 DEF ProvisionInv, BoxHasKey, ConciergeInv, OrgInv, OrgTypes
  <2>5. ProvisionInv'
    BY <1>1, <2>2, <2>3, <2>4 DEF ProvisionInv, GraftHasFile
  <2> QED
    BY <1>1, <2>2, <2>3, <2>5 DEF AgentInv, AgentTypes
<1> QED
  BY <1>3, <1>4

\* Only tokens of the row that is provisioned are revoked, and that one has no box.
LEMMA RevokeKeeps ==
    ASSUME ConciergeInv, resolveConciergeAdminCredential
    PROVE  AgentInv'
<1>1. /\ AgentTypes /\ ProvisionInv /\ provision \in ProvisionType /\ provision.pc = "revoke"
      /\ keys \in [Rows -> SUBSET KeyIds] /\ provision' = [provision EXCEPT !.pc = "compose"]
      /\ UNCHANGED <<boxes, stored, pin, default, box, pickedAfter, world>>
  BY DEF ConciergeInv, AgentInv, AgentTypes, resolveConciergeAdminCredential, ProvisionAt, ProvisionGoes, OrgKeeps
<1>2. provision.id \in Rows \ boxes /\ provision.key \in keys[provision.id]
  BY <1>1 DEF ProvisionInv
<1>3. provision' \in ProvisionType /\ provision'.pc = "compose" /\ provision'.key = provision.key
      /\ provision'.id = provision.id /\ provision'.model = provision.model
  BY <1>1 DEF ProvisionType
<1>4. PICK kept \in SUBSET KeyIds : keys' = [keys EXCEPT ![provision.id] = kept] /\ provision.key \in kept
  <2>1. CASE RevokeOthers
    BY <1>1, <1>2, <2>1 DEF RevokeOthers
  <2>2. CASE ~RevokeOthers
    <3>1. PICK gone \in SUBSET (keys[provision.id] \ {provision.key}) :
             keys' = [keys EXCEPT ![provision.id] = @ \ gone]
      BY <2>2 DEF resolveConciergeAdminCredential
    <3> QED
      BY <1>1, <1>2, <3>1
  <2> QED
    BY <2>1, <2>2
<1>5. /\ keys' \in [Rows -> SUBSET KeyIds] /\ provision.key \in keys'[provision.id]
      /\ \A n \in Rows \ {provision.id} : keys'[n] = keys[n]
  BY <1>1, <1>2, <1>4
<1>6. BoxHasKey'
  BY <1>1, <1>2, <1>5 DEF ProvisionInv, BoxHasKey, ConciergeInv, OrgInv, OrgTypes
<1>7. ProvisionInv'
  BY <1>1, <1>3, <1>5, <1>6 DEF ProvisionInv, GraftHasFile
<1> QED
  BY <1>1, <1>3, <1>5, <1>7 DEF AgentInv, AgentTypes

LEMMA FilesFit ==
    ASSUME AgentTypes
    PROVE  /\ ConciergeFiles \in [graft : BOOLEAN, file : FileStates, prompt : FileStates]
           /\ ConciergeFiles.graft => ConciergeFiles.file = "filled"
<1>1. world.claude \in BOOLEAN /\ (~world.claude) \in BOOLEAN
  BY Zenon DEF AgentTypes
<1>2. /\ (IF world.persona = "file" THEN "unfilled" ELSE "none") \in FileStates
      /\ (IF world.persona = "prompt" THEN "filled" ELSE "none") \in FileStates
      /\ (IF world.claude THEN "filled" ELSE IF world.persona = "prompt" THEN "unfilled" ELSE "none") \in FileStates
      /\ "none" \in FileStates /\ "filled" \in FileStates /\ FALSE \in BOOLEAN
  BY DEF FileStates
<1> HIDE DEF FileStates
<1> QED
  BY <1>1, <1>2 DEF ConciergeFiles, DeliveredConfig, WithPersona, composeConciergeRuntimeConfig,
        stripConciergePersonaGraft

LEMMA BoxKeeps ==
    ASSUME ConciergeInv, BoxStarts
    PROVE  OrgInv' /\ RowsStep /\ AgentInv' /\ PickStep
<1>1. /\ AgentTypes /\ ProvisionInv /\ provision \in ProvisionType /\ provision.pc = "compose"
      /\ provision' = NoProvision /\ box \in [Rows -> BoxType]
      /\ UNCHANGED <<wsRow, txHolder, writer, listed, tokenOrg, creating, lateList>>
      /\ UNCHANGED <<stored, pin, default, keys, pickedAfter, world>>
  BY DEF ConciergeInv, AgentInv, AgentTypes, BoxStarts, ProvisionAt
<1>2. boxes \subseteq Rows /\ OrgInv
  BY DEF ConciergeInv, OrgInv, OrgTypes
<1>3. NoProvision \in ProvisionType /\ NoProvision.pc = "idle"
  BY DEF NoProvision, ProvisionType, ModelNames, NoModel
<1>4. /\ provision.id \in Rows \ boxes /\ provision.key \in keys[provision.id] \union {0}
      /\ stored = "own" => pickedAfter \/ provision.model = "own"
  BY <1>1 DEF ProvisionInv
<1>5. CASE UNCHANGED <<box, boxes>>
  <2>1. ProvisionInv'
    BY <1>1, <1>3, <1>5 DEF ProvisionInv, BoxHasKey, GraftHasFile
  <2>2. AgentTypes'
    BY <1>1, <1>3, <1>5 DEF AgentTypes
  <2> QED
    BY <1>1, <1>2, <1>5, <2>1, <2>2, OrgInvStays, SameRows DEF AgentInv, PickStep
<1>6. CASE ~UNCHANGED <<box, boxes>>
  <2> DEFINE n == provision.id
             new == [model |-> provision.model, pin |-> provision.pin, key |-> provision.key,
                     graft |-> ConciergeFiles.graft, file |-> ConciergeFiles.file,
                     prompt |-> ConciergeFiles.prompt]
  <2>1. boxes' = boxes \union {n} /\ box' = [box EXCEPT ![n] = new]
    BY <1>6 DEF BoxStarts
  <2>2. new \in BoxType /\ new.model = provision.model /\ new.key = provision.key
        /\ (new.graft => new.file = "filled")
    <3>1. /\ ConciergeFiles.graft \in BOOLEAN /\ ConciergeFiles.file \in FileStates
          /\ ConciergeFiles.prompt \in FileStates /\ (ConciergeFiles.graft => ConciergeFiles.file = "filled")
      BY <1>1, FilesFit
    <3>2. provision.model \in ModelNames /\ provision.pin \in BOOLEAN /\ provision.key \in KeyIds \union {0}
      BY <1>1 DEF ProvisionType
    <3> QED
      BY <3>1, <3>2 DEF BoxType
  <2> HIDE DEF new
  <2>3. /\ box' \in [Rows -> BoxType] /\ box'[n] = new /\ \A m \in Rows \ {n} : box'[m] = box[m]
        /\ boxes' \subseteq Rows
    BY <1>1, <1>2, <1>4, <2>1, <2>2
  <2>4. BoxHasKey'
    BY <1>1, <1>2, <1>4, <2>1, <2>2, <2>3 DEF ProvisionInv, BoxHasKey
  <2>5. GraftHasFile'
    BY <1>1, <1>4, <2>2, <2>3 DEF ProvisionInv, GraftHasFile
  <2>6. ProvisionInv'
    BY <1>1, <1>3, <2>4, <2>5 DEF ProvisionInv
  <2>7. AgentTypes'
    BY <1>1, <1>3, <2>3 DEF AgentTypes
  <2>8. PickStep
    BY <1>1, <1>4, <2>2, <2>3 DEF PickStep
  <2> QED
    BY <1>1, <1>2, <2>3, <2>6, <2>7, <2>8, OrgInvStays, SameRows DEF AgentInv
<1> QED
  BY <1>5, <1>6

-----------------------------------------------------------------------------
(* The theorem.                                                            *)

\* All that a step may do, in one place.
LEMMA ConciergeSteps ==
    ASSUME ConciergeInv, [RootNext \/ OrgNext \/ AgentNext]_conciergeVars
    PROVE  ConciergeInv' /\ RowsStep /\ PickStep
<1>1. OrgInv /\ AgentInv /\ boxes \subseteq Rows
  BY DEF ConciergeInv, OrgInv, OrgTypes
<1>2. ASSUME box' = box PROVE PickStep
  BY <1>2, <1>1 DEF PickStep, AgentInv, ProvisionInv
<1>3. CASE InstallPlatformAgent \/ EnsurePlatformAgent
  <2>1. /\ UNCHANGED <<wsRow, listed, boxes>>
        /\ UNCHANGED <<stored, pin, default, provision, box, keys, pickedAfter, world>>
    BY <1>3 DEF InstallPlatformAgent, EnsurePlatformAgent, OrgKeeps, AgentKeeps
  <2>2. OrgInv'
    BY <1>3, InstallBegins, EnsureBegins
  <2> QED
    BY <1>1, <1>2, <2>1, <2>2, SameRows, AgentStays DEF ConciergeInv
<1>4. CASE EnsureSelfHostedPlatformAgent
  <2>1. UNCHANGED <<wsRow, listed, box>>
    BY <1>4 DEF EnsureSelfHostedPlatformAgent
  <2> QED
    BY <1>1, <1>2, <1>4, <2>1, BootBegins, SameRows
<1>5. CASE MaybeProvisionPlatformAgentOnBoot \/ triggerPlatformProvision
  <2>1. box' = box
    BY <1>5 DEF MaybeProvisionPlatformAgentOnBoot, triggerPlatformProvision
  <2> QED
    BY <1>2, <1>5, <2>1, BootStarts DEF ConciergeInv
<1>6. ASSUME NEW w \in RootWriters, InstallStep(w) PROVE ConciergeInv' /\ RowsStep /\ PickStep
  <2>1. UNCHANGED <<stored, pin, default, provision, box, keys, pickedAfter, world>> /\ boxes' = boxes
    BY <1>6 DEF InstallStep, ProbeLiveRoot, DemoteOtherRoots, UpsertPlatformRow, SelectOldRoots,
          CopyAllowlist, CommitInstall, OrgKeeps, AgentKeeps
  <2> QED
    BY <1>1, <1>2, <1>6, <2>1, InstallKeeps, AgentStays DEF ConciergeInv
<1>7. ASSUME NEW w \in RootWriters, FlowStep(w) PROVE ConciergeInv' /\ RowsStep /\ PickStep
  <2>1. box' = box
    BY <1>7 DEF FlowStep, FlowNames, FlowStoresModel, reviveRemovedPlatformAgent, AgentKeeps
  <2> QED
    BY <1>2, <1>7, <2>1, FlowKeeps, FlowKeepsAgent DEF ConciergeInv
<1>8. CASE (\E n \in Rows : Heartbeat(n)) \/ CascadeDelete
  <2>1. UNCHANGED <<stored, pin, default, provision, box, keys, pickedAfter, world>>
    BY <1>8 DEF Heartbeat, CascadeDelete, AgentKeeps
  <2> QED
    BY <1>1, <1>2, <1>8, <2>1, OthersKeep, AgentStays DEF ConciergeInv
<1>9. CASE OrgNext
  <2>1. UNCHANGED <<stored, pin, default, provision, box, keys, pickedAfter, world>> /\ boxes' = boxes
    BY <1>9 DEF OrgNext, CreateReads, CreateInserts, PutAllowlist, AgentKeeps
  <2>2. OrgInv' /\ RowsStep
    BY <1>9, CreateReadsKeeps, CreateInsertsKeeps, ListKeeps DEF OrgNext
  <2> QED
    BY <1>1, <1>2, <2>1, <2>2, AgentStays DEF ConciergeInv
<1>10. CASE applyConciergeProvisionConfig
  <2>1. box' = box
    BY <1>10 DEF applyConciergeProvisionConfig
  <2> QED
    BY <1>2, <1>10, <2>1, ProvisionBegins DEF ConciergeInv
<1>11. CASE BoxStarts
  BY <1>11, BoxKeeps DEF ConciergeInv
<1>12. CASE \/ ensureConciergeModel \/ setModelSecret \/ ensureConciergeProvider \/ MintConciergeKey
            \/ resolveConciergeAdminCredential \/ SetModel \/ DefaultMoves
  <2>1. UNCHANGED <<wsRow, txHolder, writer, listed, tokenOrg, creating, lateList, boxes, box>>
    BY <1>12 DEF ensureConciergeModel, setModelSecret, ensureConciergeProvider, MintConciergeKey,
          resolveConciergeAdminCredential, SetModel, DefaultMoves, OrgKeeps
  <2>2. OrgInv' /\ RowsStep /\ PickStep
    BY <1>1, <1>2, <2>1, OrgInvStays, SameRows
  <2>3. CASE SetModel
    <3>1. stored' \in ModelNames
      BY <2>3 DEF SetModel, ModelNames, PlatformModels
    <3>2. pickedAfter' = (provision.pc # "idle") /\ UNCHANGED <<pin, default, provision, box, keys, boxes, world>>
      BY <2>3 DEF SetModel, ProvisionAt, OrgKeeps
    <3> QED
      BY <1>1, <2>2, <3>1, <3>2, PickKeeps DEF ConciergeInv
  <2>4. CASE DefaultMoves
    <3>1. UNCHANGED <<stored, pin, provision, box, keys, pickedAfter, world, boxes>> /\ default' \in PlatformModels
      BY <2>4 DEF DefaultMoves, OrgKeeps, PlatformModels
    <3>2. AgentTypes'
      BY <1>1, <3>1 DEF AgentInv, AgentTypes
    <3>3. ProvisionInv'
      BY <1>1, <3>1 DEF AgentInv, ProvisionInv, BoxHasKey, GraftHasFile
    <3> QED
      BY <2>2, <3>2, <3>3 DEF ConciergeInv, AgentInv
  <2> QED
    BY <1>12, <2>2, <2>3, <2>4, ProvisionSettles, MintKeeps, RevokeKeeps DEF ConciergeInv
<1>13. CASE UNCHANGED conciergeVars
  <2>1. /\ UNCHANGED <<wsRow, txHolder, writer, listed, tokenOrg, creating, lateList, boxes>>
        /\ UNCHANGED <<stored, pin, default, provision, box, keys, pickedAfter, world>>
    BY <1>13 DEF conciergeVars
  <2> QED
    BY <1>1, <1>2, <2>1, OrgInvStays, SameRows, AgentStays DEF ConciergeInv
<1> QED
  BY <1>3, <1>4, <1>5, <1>6, <1>7, <1>8, <1>9, <1>10, <1>11, <1>12, <1>13
  DEF RootNext, AgentNext, ProvisionStep

\* The invariant holds what the run checks of every state.
LEMMA ConciergeInvShows ==
    ASSUME ConciergeInv
    PROVE  ConciergeTypeOK /\ OneConcierge /\ BoxHasKey /\ GraftHasFile
<1>1. OrgTypes /\ RowsInv /\ AgentTypes /\ ProvisionInv
  BY DEF ConciergeInv, OrgInv, AgentInv
<1>2. ConciergeTypeOK
  <2>1. \A n \in Rows : wsRow[n].parent \in (Rows \ {n}) \union {NoRow}
    BY <1>1 DEF OrgTypes, RowsInv, RowType
  <2>2. \A n \in Rows : keys[n] \subseteq KeyIds /\ box[n].key \in KeyIds \union {0}
    BY <1>1 DEF AgentTypes, BoxType
  <2> QED
    BY <1>1, <2>1, <2>2 DEF OrgTypes, AgentTypes, ModelNames, ConciergeTypeOK
<1>3. {n \in Rows : wsRow[n].platform} = PlatformRoots
  BY <1>1 DEF RowsInv, PlatformRoots, IsPlatform
<1>4. Cardinality(PlatformRoots) <= 1
  <2>1. CASE PlatformRoots = {}
    BY <2>1, FS_EmptySet
  <2>2. CASE PlatformRoots # {}
    <3>1. PICK n \in Rows : PlatformRoots = {n}
      BY <2>2, <1>1, <1>3 DEF RowsInv
    <3> QED
      BY <3>1, FS_Singleton
  <2> QED
    BY <2>1, <2>2
<1> QED
  BY <1>1, <1>2, <1>3, <1>4 DEF RowsInv, OneConcierge, ProvisionInv

\* However installs, repairs, seeds, deletes and crashes of the concierge
\* overlap: one row at most is the platform's and the org keeps it, a removed
\* one stays removed until a repair that found it removed, every box that runs
\* holds a live credential, and a start leaves the owner's own model alone.
THEOREM ConciergeStaysKept == ConciergeSpec => ConciergeIsKept
<1>1. ConciergeInit => ConciergeInv
  BY ConciergeInvInit
<1>2. ConciergeInv /\ [RootNext \/ OrgNext \/ AgentNext]_conciergeVars => ConciergeInv' /\ RowsStep /\ PickStep
  BY ConciergeSteps
<1>3. ConciergeInv => ConciergeTypeOK /\ OneConcierge /\ BoxHasKey /\ GraftHasFile
  BY ConciergeInvShows
<1>4. RowsStep =>
        /\ /\ PlatformRoots # {} => PlatformRoots' # {}
           /\ (\E n \in listed : Root(n)) => (lateList' \/ \E m \in listed' : wsRow'[m].parent = NoRow)
        /\ \A n \in Rows : (wsRow[n].status = "removed" /\ wsRow'[n].status # "removed") =>
              (writer["ensure"].revive /\ writer["ensure"].id = n)
  BY DEF RowsStep
<1>5. PickStep =>
        /\ (ProvisionAt("store") /\ stored = "own") => (stored' = "own" \/ pickedAfter)
        /\ (ProvisionAt("compose") /\ box' # box /\ stored = "own") =>
              (box'[provision.id].model = "own" \/ pickedAfter)
  BY DEF PickStep, ProvisionAt
<1> QED
  BY <1>1, <1>2, <1>3, <1>4, <1>5, PTL DEF ConciergeSpec, ConciergeIsKept, RootIsKept, TombstoneIsKept, PickIsKept


-----------------------------------------------------------------------------
(***************************************************************************)
(* The tree: the inductive invariant.                                      *)
(***************************************************************************)
\* A row and everything above it: the least set that has the row and the parent
\* of each of its own.
ClosedUp(up, S) == \A x \in S : up[x] # NoNode => up[x] \in S
Above(up, n) == {m \in Nodes : \A S \in SUBSET Nodes : n \in S /\ ClosedUp(up, S) => m \in S}

MoveRecords ==
    [pc : {"idle", "target", "lock", "recheck", "cycle", "org", "write", "commit", "done"},
     self : Nodes \union {NoNode}, to : Nodes \union {NoNode}, selfRoot : Nodes \union {NoNode},
     toRoot : Nodes \union {NoNode}, adopts : BOOLEAN]
TokenRecords == [phase : {"none", "counted", "live", "revoked"}, org : Nodes \union {NoNode}]

TreeTypes ==
    /\ parentOf \in [Nodes -> Nodes \union {NoNode}]
    /\ presence \in [Nodes -> {"absent", "live", "removed"}]
    /\ rowLock \in [Nodes -> Movers \union {NoNode}]
    /\ mover \in [Movers -> MoveRecords]
    /\ deleter \in [pc : {"idle", "collect", "mark", "orphan", "purge", "done"},
                    of : Nodes \union {NoNode}, ids : SUBSET Nodes, purge : BOOLEAN]
    /\ maker \in [pc : {"idle", "insert", "done"}, parent : Nodes \union {NoNode}]
    /\ orgTok \in [OrgTokens -> TokenRecords]
    /\ strays \subseteq Nodes

\* The purge has cut off what it had not collected; until then, and but for the
\* strays, everything keeps its root.
Cut == deleter.purge /\ deleter.pc \in {"purge", "done"}
Steady(n) == ~Cut \/ n \notin strays

DeleteInv ==
    /\ deleter.pc \in {"idle", "collect"} => deleter.ids = {}
    /\ deleter.pc = "collect" => deleter.of \in Nodes /\ presence[deleter.of] = "live"
    /\ deleter.pc = "mark" => \A n \in deleter.ids : presence[n] = "live"
    /\ deleter.pc \in {"orphan", "purge"} \/ (deleter.pc = "done" /\ ~deleter.purge) =>
          \A n \in deleter.ids : presence[n] = "removed"
    /\ deleter.pc \in {"orphan", "purge"} => deleter.purge
    /\ \A n \in Nodes : presence[n] = "removed" => n \in deleter.ids /\ deleter.pc \in {"orphan", "purge", "done"}
    /\ maker.pc = "insert" => maker.parent \in Nodes

HangOnRows == \A n \in Nodes : Exists(n) /\ parentOf[n] # NoNode => Exists(parentOf[n])
StraysBelow ==
    \A n \in Nodes : presence[n] = "live" =>
       \A a \in Above(parentOf, n) : presence[a] = "removed" \/ a \in strays => n \in strays
OneTree == ~Cut => \A i, j \in deleter.ids : RootIn(parentOf, i) = RootIn(parentOf, j)
LocksOnRows == \A n \in Nodes : rowLock[n] # NoNode => Exists(n)
ForestInv == HangOnRows /\ StraysBelow /\ OneTree /\ ChainsEnd /\ LocksOnRows

Located(m) == mover[m].pc \in {"target", "lock", "recheck"}
Checked(m) == mover[m].pc \in {"cycle", "org", "write", "commit"}
Decided(m) == mover[m].pc \in {"write", "commit"}
Gone(n) == n \in deleter.ids /\ ~Exists(n)

LocatedInv(m) ==
    /\ Located(m) => mover[m].self \in Nodes
    /\ mover[m].pc \in {"target", "lock"} /\ mover[m].selfRoot # NoNode =>
          Exists(mover[m].selfRoot) \/ Gone(mover[m].selfRoot)
    /\ At(m, "recheck") /\ mover[m].selfRoot # NoNode =>
          rowLock[mover[m].selfRoot] = m \/ Gone(mover[m].selfRoot)
CheckedInv(m) == Checked(m) =>
    LET n == mover[m].self t == mover[m].to
    IN /\ n \in Nodes /\ t \in Nodes /\ n # t
       /\ presence[n] = "live" /\ presence[t] = "live" /\ rowLock[n] = m /\ rowLock[t] = m
       /\ Steady(n) => /\ RootIn(parentOf, n) = mover[m].selfRoot
                       /\ mover[m].selfRoot # NoNode => rowLock[mover[m].selfRoot] = m
DecidedInv(m) == Decided(m) =>
    LET n == mover[m].self t == mover[m].to old == mover[m].selfRoot new == mover[m].toRoot
    IN /\ old # NoNode /\ new # NoNode
       /\ rowLock[new] = m => parentOf[new] = NoNode
       /\ IF mover[m].adopts
          THEN parentOf[n] = NoNode /\ Children(n) = {} /\ new # n
          ELSE (Steady(t) => RootIn(parentOf, t) = old) /\ (parentOf[n] = NoNode => old = n)
CommitInv(m) == At(m, "commit") =>
    /\ ~mover[m].adopts => parentOf[mover[m].self] # NoNode
    /\ ~CutLoose \/ (Steady(mover[m].self) /\ Steady(mover[m].to)) =>
          mover[m].self \notin Above(parentOf, mover[m].to)
MoveInv(m) == LocatedInv(m) /\ CheckedInv(m) /\ DecidedInv(m) /\ CommitInv(m)

AnchorInv ==
    \A k \in OrgTokens :
       /\ orgTok[k].phase = "live" /\ orgTok[k].org # NoNode => Exists(orgTok[k].org)
       /\ orgTok[k].phase = "counted" =>
             orgTok[k].org \in Nodes /\ (Exists(orgTok[k].org) \/ Gone(orgTok[k].org))
       /\ k \notin lateMints /\ orgTok[k].phase \in {"counted", "live"} /\ orgTok[k].org # NoNode =>
             parentOf[orgTok[k].org] = NoNode

TreeInv == TreeTypes /\ DeleteInv /\ ForestInv /\ (\A m \in Movers : MoveInv(m)) /\ AnchorInv

(***************************************************************************)
(* Induction over the naturals, with a set for the predicate.              *)
(***************************************************************************)
Smaller == {p \in Nat \X Nat : p[1] < p[2]}

\* The order on the naturals, for the library's theorem on least elements.
LEMMA SmallerIsWellFounded == IsWellFoundedOn(Smaller, Nat)
  BY NatLessThanWellFounded DEF OpToRel, Smaller

\* A set of naturals with 0 and every successor has them all.
LEMMA EveryNat ==
    ASSUME NEW S \in SUBSET Nat, 0 \in S, \A n \in S : n + 1 \in S
    PROVE  S = Nat
<1> SUFFICES ASSUME Nat \ S # {} PROVE FALSE
  OBVIOUS
<1>1. PICK n \in Nat \ S : \A m \in Nat \ S : <<m, n>> \notin Smaller
  BY WFMin, SmallerIsWellFounded
<1>2. n # 0 /\ n - 1 \in Nat /\ n - 1 < n /\ (n - 1) + 1 = n
  BY <1>1
<1>3. <<n - 1, n>> \in Smaller
  BY <1>1, <1>2 DEF Smaller
<1>4. n - 1 \in S
  BY <1>1, <1>2, <1>3
<1> QED
  BY <1>1, <1>2, <1>4

(***************************************************************************)
(* What is above a row.                                                    *)
(***************************************************************************)
Forests == [Nodes -> Nodes \union {NoNode}]

\* The set of what is above a row is closed and within every closed set that has the row.
LEMMA AboveIsLeast ==
    ASSUME NEW up \in Forests, NEW n \in Nodes
    PROVE  /\ Above(up, n) \in SUBSET Nodes
           /\ n \in Above(up, n)
           /\ ClosedUp(up, Above(up, n))
           /\ \A S \in SUBSET Nodes : n \in S /\ ClosedUp(up, S) => Above(up, n) \subseteq S
<1>1. ASSUME NEW x \in Above(up, n), up[x] # NoNode PROVE up[x] \in Above(up, n)
  <2>1. x \in Nodes /\ up[x] \in Nodes
    BY <1>1 DEF Above, Forests
  <2>2. ASSUME NEW S \in SUBSET Nodes, n \in S, ClosedUp(up, S) PROVE up[x] \in S
    BY <1>1, <2>2 DEF Above, ClosedUp
  <2> QED BY <2>1, <2>2 DEF Above
<1> QED
  BY <1>1 DEF Above, ClosedUp

\* In the form the proofs below use: a set that has n and whatever follows.
LEMMA AboveIn ==
    ASSUME NEW up \in Forests, NEW n \in Nodes, NEW S \in SUBSET Nodes, n \in S,
           \A x \in S : up[x] # NoNode => up[x] \in S
    PROVE  Above(up, n) \subseteq S
  BY AboveIsLeast DEF ClosedUp

\* The parent of what is above a row is above it.
LEMMA AboveGoesUp ==
    ASSUME NEW up \in Forests, NEW n \in Nodes, NEW x \in Above(up, n), up[x] # NoNode
    PROVE  up[x] \in Above(up, n)
  BY AboveIsLeast DEF ClosedUp

\* What is above something above a row is above the row.
LEMMA AboveTrans ==
    ASSUME NEW up \in Forests, NEW n \in Nodes, NEW m \in Above(up, n)
    PROVE  m \in Nodes /\ Above(up, m) \subseteq Above(up, n)
<1>1. m \in Nodes /\ Above(up, n) \in SUBSET Nodes
  BY AboveIsLeast
<1>2. \A x \in Above(up, n) : up[x] # NoNode => up[x] \in Above(up, n)
  BY AboveGoesUp
<1> QED BY <1>1, <1>2, AboveIn

\* Nothing but itself is above a row without a parent.
LEMMA AboveRoot ==
    ASSUME NEW up \in Forests, NEW n \in Nodes, up[n] = NoNode
    PROVE  Above(up, n) = {n}
<1>1. {n} \in SUBSET Nodes /\ n \in {n} /\ \A x \in {n} : up[x] # NoNode => up[x] \in {n}
  OBVIOUS
<1>2. Above(up, n) \subseteq {n}
  BY <1>1, AboveIn
<1> QED BY <1>2, AboveIsLeast

\* Above a row: itself, and what is above its parent.
LEMMA AboveParent ==
    ASSUME NEW up \in Forests, NEW n \in Nodes, up[n] # NoNode
    PROVE  up[n] \in Nodes /\ Above(up, n) = {n} \union Above(up, up[n])
<1>1. up[n] \in Nodes
  BY DEF Forests
<1> DEFINE S == {n} \union Above(up, up[n])
<1>2. S \in SUBSET Nodes /\ up[n] \in S
  BY <1>1, AboveIsLeast
<1>3. \A x \in S : up[x] # NoNode => up[x] \in S
  BY <1>1, <1>2, AboveGoesUp
<1>4. Above(up, n) \subseteq S
  <2> HIDE DEF S
  <2>1. n \in S
    BY DEF S
  <2> QED BY <1>2, <1>3, <2>1, AboveIn
<1>5. n \in Above(up, n) /\ up[n] \in Above(up, n)
  BY AboveIsLeast, AboveGoesUp
<1>6. Above(up, up[n]) \subseteq Above(up, n)
  BY <1>5, AboveTrans
<1> QED BY <1>1, <1>4, <1>5, <1>6

\* A root above a row is above everything above that row.
LEMMA RootIsAbove ==
    ASSUME NEW up \in Forests, NEW n \in Nodes, NEW r \in Above(up, n), up[r] = NoNode,
           NEW m \in Above(up, n)
    PROVE  r \in Above(up, m)
<1> DEFINE S == {x \in Above(up, n) : r \in Above(up, x)}
<1>1. S \in SUBSET Nodes /\ n \in S
  BY AboveIsLeast
<1>2. ASSUME NEW x \in S, up[x] # NoNode PROVE up[x] \in S
  <2>1. x \in Nodes /\ x \in Above(up, n) /\ r \in Above(up, x) /\ r # x
    BY <1>1, <1>2
  <2>2. r \in Above(up, up[x])
    BY <2>1, <1>2, AboveParent
  <2>3. up[x] \in Above(up, n)
    BY <2>1, <1>2, AboveGoesUp
  <2> QED BY <2>2, <2>3
<1>3. Above(up, n) \subseteq S
  <2> HIDE DEF S
  <2> QED BY <1>1, <1>2, AboveIn
<1> QED BY <1>3

\* No row has two rows without a parent above it.
LEMMA RootIsOne ==
    ASSUME NEW up \in Forests, NEW n \in Nodes, NEW r \in Above(up, n), up[r] = NoNode,
           NEW q \in Above(up, n), up[q] = NoNode
    PROVE  r = q
<1>1. r \in Above(up, q) /\ q \in Nodes
  BY RootIsAbove, AboveIsLeast
<1> QED BY <1>1, AboveRoot

\* Two rows above each other are one, where the chain ends.
LEMMA AboveIsOrder ==
    ASSUME NEW up \in Forests, NEW x \in Nodes, NEW y \in Nodes, x \in Above(up, y), y \in Above(up, x),
           NEW r \in Above(up, x), up[r] = NoNode
    PROVE  x = y
<1> SUFFICES ASSUME x # y PROVE FALSE
  OBVIOUS
<1> DEFINE S == {z \in Nodes : x \in Above(up, z)}
<1>1. S \in SUBSET Nodes /\ x \in S
  BY AboveIsLeast
<1>2. ASSUME NEW z \in S, up[z] # NoNode PROVE up[z] \in S
  <2>1. z \in Nodes /\ x \in Above(up, z) /\ up[z] \in Nodes /\ Above(up, z) = {z} \union Above(up, up[z])
    BY <1>2, AboveParent
  <2>2. CASE z = x
    <3>1. y \in Above(up, up[z])
      BY <2>1, <2>2
    <3>2. x \in Above(up, up[z])
      BY <2>1, <3>1, AboveTrans
    <3> QED BY <2>1, <3>2
  <2>3. CASE z # x
    BY <2>1, <2>3
  <2> QED BY <2>2, <2>3
<1>3. r \in S
  <2> HIDE DEF S
  <2> QED BY <1>1, <1>2, AboveIn
<1>4. x = r
  BY <1>3, AboveRoot
<1> QED BY <1>4, AboveRoot

\* What is above a row and not the row is the parent of something there.
LEMMA ChildOnPath ==
    ASSUME NEW up \in Forests, NEW n \in Nodes, NEW a \in Above(up, n), a # n
    PROVE  \E c \in Above(up, n) : up[c] = a
<1> SUFFICES ASSUME \A c \in Above(up, n) : up[c] # a PROVE FALSE
  OBVIOUS
<1> DEFINE S == Above(up, n) \ {a}
<1>1. S \in SUBSET Nodes /\ n \in S
  BY AboveIsLeast
<1>2. \A x \in S : up[x] # NoNode => up[x] \in S
  BY AboveGoesUp
<1>3. Above(up, n) \subseteq S
  <2> HIDE DEF S
  <2> QED BY <1>1, <1>2, AboveIn
<1> QED BY <1>3

\* What changes elsewhere changes nothing above a row.
LEMMA AboveAgrees ==
    ASSUME NEW up \in Forests, NEW vp \in Forests, NEW n \in Nodes,
           \A x \in Above(up, n) : vp[x] = up[x]
    PROVE  Above(vp, n) = Above(up, n)
<1>1. n \in Above(up, n) /\ Above(up, n) \in SUBSET Nodes /\ n \in Above(vp, n) /\ Above(vp, n) \in SUBSET Nodes
  BY AboveIsLeast
<1>2. \A x \in Above(up, n) : vp[x] # NoNode => vp[x] \in Above(up, n)
  BY AboveGoesUp
<1>3. Above(vp, n) \subseteq Above(up, n)
  BY <1>1, <1>2, AboveIn
<1>4. \A x \in Above(vp, n) : up[x] # NoNode => up[x] \in Above(vp, n)
  BY <1>3, AboveGoesUp
<1>5. Above(up, n) \subseteq Above(vp, n)
  BY <1>1, <1>4, AboveIn
<1> QED BY <1>3, <1>5

\* A cut takes away from what is above.
LEMMA AboveShrinks ==
    ASSUME NEW up \in Forests, NEW vp \in Forests, NEW n \in Nodes,
           \A x \in Nodes : vp[x] \in {up[x], NoNode}
    PROVE  Above(vp, n) \subseteq Above(up, n)
<1>1. n \in Above(up, n) /\ Above(up, n) \in SUBSET Nodes
  BY AboveIsLeast
<1>2. \A x \in Above(up, n) : vp[x] # NoNode => vp[x] \in Above(up, n)
  BY <1>1, AboveGoesUp
<1> QED BY <1>1, <1>2, AboveIn

\* A move adds what is above its target to what has the moved row above it.
LEMMA AboveMoves ==
    ASSUME NEW up \in Forests, NEW s \in Nodes, NEW t \in Nodes, NEW vp \in Forests,
           vp[s] = t, \A x \in Nodes : x # s => vp[x] = up[x], NEW n \in Nodes
    PROVE  /\ s \in Above(up, n) <=> s \in Above(vp, n)
           /\ s \notin Above(up, n) => Above(vp, n) = Above(up, n)
           /\ Above(vp, n) \subseteq Above(up, n) \union Above(up, t)
<1>0. vp[s] = t /\ \A x \in Nodes : x # s => vp[x] = up[x]
  OBVIOUS
<1>1. /\ n \in Above(up, n) /\ Above(up, n) \in SUBSET Nodes /\ Above(up, t) \in SUBSET Nodes
      /\ t \in Above(up, t) /\ Above(vp, n) \in SUBSET Nodes
  BY AboveIsLeast
<1>2. s \notin Above(up, n) => Above(vp, n) = Above(up, n)
  <2> SUFFICES ASSUME s \notin Above(up, n) PROVE Above(vp, n) = Above(up, n)
    OBVIOUS
  <2>1. \A x \in Above(up, n) : vp[x] = up[x]
    BY <1>0, <1>1
  <2> QED BY <2>1, AboveAgrees
<1>3. s \notin Above(vp, n) => Above(up, n) = Above(vp, n)
  <2> SUFFICES ASSUME s \notin Above(vp, n) PROVE Above(up, n) = Above(vp, n)
    OBVIOUS
  <2>1. \A x \in Above(vp, n) : up[x] = vp[x]
    BY <1>0, <1>1
  <2> QED BY <2>1, AboveAgrees
<1>4. Above(vp, n) \subseteq Above(up, n) \union Above(up, t)
  <2> DEFINE S == Above(up, n) \union Above(up, t)
  <2>1. S \in SUBSET Nodes /\ n \in S /\ t \in S
    BY <1>1
  <2>2. ASSUME NEW x \in S, vp[x] # NoNode PROVE vp[x] \in S
    <3>1. CASE x = s
      BY <3>1, <1>0, <2>1
    <3>2. CASE x # s
      <4>1. vp[x] = up[x] /\ up[x] # NoNode
        BY <3>2, <1>0, <2>1, <2>2
      <4> QED BY <4>1, AboveGoesUp
    <3> QED BY <3>1, <3>2
  <2> HIDE DEF S
  <2>3. Above(vp, n) \subseteq S
    BY <2>1, <2>2, AboveIn
  <2> QED BY <2>3 DEF S
<1> QED BY <1>2, <1>3, <1>4
(***************************************************************************)
(* The walk of the recursive queries, which is bounded, finds all of it.   *)
(***************************************************************************)
LastDepth == Cardinality(Nodes)

\* The walk has a last step.
LEMMA DepthIsNat == LastDepth \in Nat
  BY FS_CardinalityType, TreeAssumption DEF LastDepth

\* The walk that Chain defines by its own earlier steps exists.
LEMMA ChainExists ==
    ASSUME NEW up \in Forests, NEW n \in Nodes
    PROVE  \E f : f = [d \in 0..LastDepth |->
                         IF d = 0 THEN n
                         ELSE LET below == f[d - 1] IN IF below = NoNode THEN NoNode ELSE up[below]]
<1> DEFINE One(f) == [d \in 0..LastDepth |->
                         IF d = 0 THEN n
                         ELSE LET below == f[d - 1] IN IF below = NoNode THEN NoNode ELSE up[below]]
           Good(k, f) == \A d \in 0..LastDepth : d < k => f[d] = One(f)[d]
           Found == {k \in Nat : \E f : Good(k, f)}
<1>0. LastDepth \in Nat
  BY DepthIsNat
<1>1. 0 \in Found
  <2>1. Good(0, <<>>)
    BY <1>0
  <2> QED BY <2>1
<1>2. ASSUME NEW k \in Found PROVE k + 1 \in Found
  <2>1. k \in Nat /\ k + 1 \in Nat
    OBVIOUS
  <2>2. PICK f : Good(k, f)
    OBVIOUS
  <2> DEFINE g == One(f)
  <2>3. ASSUME NEW d \in 0..LastDepth, d < k + 1 PROVE g[d] = One(g)[d]
    <3>1. CASE d = 0
      BY <3>1
    <3>2. CASE d # 0
      <4>1. d - 1 \in 0..LastDepth /\ d - 1 < k
        BY <3>2, <2>1, <2>3, <1>0
      <4>2. f[d - 1] = g[d - 1]
        BY <4>1, <2>2
      <4> QED
        BY <4>2, <3>2
    <3> QED BY <3>1, <3>2
  <2>4. Good(k + 1, g)
    BY <2>3
  <2> HIDE DEF Good
  <2> QED BY <2>1, <2>4
<1> HIDE DEF Good
<1>3. Found = Nat
  BY <1>1, <1>2, EveryNat
<1>4. PICK f : Good(LastDepth + 1, f)
  <2> HIDE DEF Found
  <2>1. LastDepth + 1 \in Nat
    BY <1>0
  <2>2. LastDepth + 1 \in Found
    BY <1>3, <2>1
  <2> QED BY <2>2 DEF Found
<1> DEFINE g == One(f)
<1>5. \A d \in 0..LastDepth : f[d] = g[d]
  BY <1>0, <1>4 DEF Good
<1>6. \A d \in 0..LastDepth : d # 0 => d - 1 \in 0..LastDepth
  BY <1>0
<1>7. g = One(g)
  BY <1>5, <1>6
<1> QED BY <1>7

\* Chain takes one parent a step.
LEMMA ChainWalks ==
    ASSUME NEW up \in Forests, NEW n \in Nodes
    PROVE  /\ DOMAIN Chain(up, n) = 0..LastDepth
           /\ Chain(up, n)[0] = n
           /\ \A d \in 0..LastDepth : d # 0 =>
                 Chain(up, n)[d] = IF Chain(up, n)[d - 1] = NoNode THEN NoNode ELSE up[Chain(up, n)[d - 1]]
<1> DEFINE walk == CHOOSE f : f = [d \in 0..LastDepth |->
                         IF d = 0 THEN n
                         ELSE LET below == f[d - 1] IN IF below = NoNode THEN NoNode ELSE up[below]]
<1>1. Chain(up, n) = walk
  BY DEF Chain, LastDepth
<1>2. walk = [d \in 0..LastDepth |->
                 IF d = 0 THEN n
                 ELSE LET below == walk[d - 1] IN IF below = NoNode THEN NoNode ELSE up[below]]
  BY ChainExists, Zenon
<1> HIDE DEF walk
<1>3. 0 \in 0..LastDepth
  BY DepthIsNat
<1> QED BY <1>1, <1>2, <1>3

\* The rows the walk has come by after d steps.
Walked(up, n, d) == {Chain(up, n)[e] : e \in 0..d} \ {NoNode}

\* The walk stays above the row it began at.
LEMMA ChainStays ==
    ASSUME NEW up \in Forests, NEW n \in Nodes
    PROVE  \A d \in 0..LastDepth : Chain(up, n)[d] \in Above(up, n) \union {NoNode}
<1> DEFINE S == {d \in Nat : d <= LastDepth => Chain(up, n)[d] \in Above(up, n) \union {NoNode}}
<1>1. 0 \in S
  BY ChainWalks, AboveIsLeast
<1>2. ASSUME NEW d \in S PROVE d + 1 \in S
  <2> SUFFICES ASSUME d + 1 <= LastDepth
               PROVE  Chain(up, n)[d + 1] \in Above(up, n) \union {NoNode}
    OBVIOUS
  <2>1. d \in Nat /\ d <= LastDepth /\ d + 1 \in 0..LastDepth /\ d + 1 # 0 /\ (d + 1) - 1 = d
    BY DepthIsNat
  <2>2. Chain(up, n)[d] \in Above(up, n) \union {NoNode}
    BY <2>1
  <2>3. Chain(up, n)[d + 1] = IF Chain(up, n)[d] = NoNode THEN NoNode ELSE up[Chain(up, n)[d]]
    BY <2>1, ChainWalks
  <2> QED BY <2>2, <2>3, AboveGoesUp
<1>3. S = Nat
  <2> HIDE DEF S
  <2>1. S \in SUBSET Nat
    BY DEF S
  <2> QED BY <1>1, <1>2, <2>1, EveryNat
<1> QED BY <1>3, DepthIsNat

\* After d steps the walk has d + 1 rows, or all there are.
LEMMA WalkGrows ==
    ASSUME NEW up \in Forests, NEW n \in Nodes
    PROVE  ClosedUp(up, Walked(up, n, LastDepth))
<1> DEFINE W(d) == Walked(up, n, d)
           S == {d \in Nat : d <= LastDepth => ClosedUp(up, W(d)) \/ Cardinality(W(d)) >= d + 1}
<1>0. \A d \in Nat : d <= LastDepth => W(d) \in SUBSET Nodes /\ IsFiniteSet(W(d)) /\ Cardinality(W(d)) \in Nat
  <2> SUFFICES ASSUME NEW d \in Nat, d <= LastDepth
               PROVE  W(d) \in SUBSET Nodes /\ IsFiniteSet(W(d)) /\ Cardinality(W(d)) \in Nat
    OBVIOUS
  <2>1. 0..d \subseteq 0..LastDepth
    BY DepthIsNat
  <2>2. W(d) \in SUBSET Nodes
    BY <2>1, ChainStays, AboveIsLeast DEF Walked
  <2> QED BY <2>2, FS_Subset, FS_CardinalityType, TreeAssumption
<1>1. 0 \in S
  <2>1. W(0) = {n}
    BY ChainWalks, TreeAssumption DEF Walked
  <2>2. Cardinality({n}) = 1
    BY FS_Singleton
  <2> QED BY <2>1, <2>2
<1>2. ASSUME NEW d \in S PROVE d + 1 \in S
  <2> SUFFICES ASSUME d + 1 <= LastDepth
               PROVE  ClosedUp(up, W(d + 1)) \/ Cardinality(W(d + 1)) >= (d + 1) + 1
    OBVIOUS
  <2>1. d \in Nat /\ d <= LastDepth /\ d + 1 \in 0..LastDepth /\ d + 1 # 0 /\ (d + 1) - 1 = d /\ d \in 0..d
    BY DepthIsNat
  <2> DEFINE x == Chain(up, n)[d]
             y == Chain(up, n)[d + 1]
  <2>2. y = IF x = NoNode THEN NoNode ELSE up[x]
    BY <2>1, ChainWalks
  <2>3. 0..(d + 1) = (0..d) \union {d + 1}
    BY <2>1
  <2>4. W(d + 1) = W(d) \union ({y} \ {NoNode})
    BY <2>3 DEF Walked
  <2>5. \A z \in W(d) : z # x /\ up[z] # NoNode => up[z] \in W(d)
    <3> SUFFICES ASSUME NEW z \in W(d), z # x, up[z] # NoNode PROVE up[z] \in W(d)
      OBVIOUS
    <3>1. PICK e \in 0..d : z = Chain(up, n)[e] /\ z # NoNode
      BY DEF Walked
    <3>2. e # d
      BY <3>1
    <3>3. e + 1 \in 0..d /\ e + 1 \in 0..LastDepth /\ e + 1 # 0 /\ (e + 1) - 1 = e
      BY <3>2, <2>1, DepthIsNat
    <3>4. Chain(up, n)[e + 1] = up[z]
      BY <3>1, <3>3, ChainWalks
    <3> QED BY <3>3, <3>4 DEF Walked
  <2>6. x # NoNode => x \in W(d)
    BY <2>1 DEF Walked
  <2> HIDE DEF W, x, y
  <2>7. CASE y = NoNode \/ y \in W(d)
    <3>1. W(d + 1) = W(d)
      BY <2>4, <2>7, <1>0, <2>1, TreeAssumption
    <3>2. \A z \in W(d) : up[z] # NoNode => up[z] \in W(d)
      <4>1. ASSUME NEW z \in W(d), up[z] # NoNode, z = x PROVE up[z] \in W(d)
        <5>1. x # NoNode
          BY <4>1, <1>0, <2>1, TreeAssumption
        <5> QED BY <5>1, <4>1, <2>2, <2>7
      <4> QED BY <4>1, <2>5
    <3> QED BY <3>1, <3>2 DEF ClosedUp
  <2>8. CASE y # NoNode /\ y \notin W(d)
    <3>1. W(d + 1) = W(d) \union {y}
      BY <2>4, <2>8
    <3>2. x # NoNode /\ y = up[x] /\ x \in W(d)
      BY <2>2, <2>6, <2>8
    <3>3. ~ClosedUp(up, W(d))
      BY <3>2, <2>8 DEF ClosedUp
    <3>4. Cardinality(W(d)) >= d + 1
      BY <3>3, <2>1
    <3>5. Cardinality(W(d + 1)) = Cardinality(W(d)) + 1
      BY <3>1, <2>8, <1>0, <2>1, FS_AddElement
    <3>6. Cardinality(W(d)) \in Nat
      BY <1>0, <2>1
    <3> QED BY <3>4, <3>5, <3>6, <2>1
  <2> QED BY <2>7, <2>8
<1>3. S = Nat
  <2> HIDE DEF S
  <2>1. S \in SUBSET Nat
    BY DEF S
  <2> QED BY <1>1, <1>2, <2>1, EveryNat
<1>4. CASE Cardinality(W(LastDepth)) >= LastDepth + 1
  <2>1. W(LastDepth) \in SUBSET Nodes /\ Cardinality(W(LastDepth)) \in Nat
    BY <1>0, DepthIsNat
  <2>2. Cardinality(W(LastDepth)) <= LastDepth
    BY <2>1, FS_Subset, TreeAssumption DEF LastDepth
  <2> HIDE DEF W
  <2> QED BY <1>4, <2>1, <2>2, DepthIsNat
<1> QED BY <1>3, <1>4, DepthIsNat

\* The walk passes all that is above the row: the queries read the whole chain.
LEMMA ChainIsAbove ==
    ASSUME NEW up \in Forests, NEW n \in Nodes
    PROVE  /\ Range(Chain(up, n)) \ {NoNode} = Above(up, n)
           /\ \A a \in Above(up, n) : \E d \in 0..LastDepth : Chain(up, n)[d] = a
<1> DEFINE W == Walked(up, n, LastDepth)
<1>1. W \subseteq Above(up, n)
  BY ChainStays DEF Walked
<1>2. n \in W
  BY ChainWalks, DepthIsNat, TreeAssumption DEF Walked
<1>3. Above(up, n) \subseteq W
  <2>1. W \in SUBSET Nodes
    BY <1>1, AboveIsLeast
  <2> HIDE DEF W
  <2>2. ClosedUp(up, W)
    BY WalkGrows DEF W
  <2> QED BY <1>2, <2>1, <2>2, AboveIsLeast
<1>4. Range(Chain(up, n)) \ {NoNode} = W
  BY ChainWalks DEF Range, Walked
<1> QED BY <1>1, <1>3, <1>4 DEF Walked

(***************************************************************************)
(* Roots, ancestors and descendants.                                       *)
(***************************************************************************)
LEMMA RootIs ==
    ASSUME NEW up \in Forests, NEW n \in Nodes
    PROVE  /\ RootIn(up, n) \in Nodes \union {NoNode}
           /\ \A r \in Nodes : RootIn(up, n) = r <=> r \in Above(up, n) /\ up[r] = NoNode
<1> DEFINE top == {m \in Above(up, n) : up[m] = NoNode}
<1>1. RootIn(up, n) = IF top = {} THEN NoNode ELSE CHOOSE m \in top : TRUE
  BY ChainIsAbove DEF RootIn
<1>2. top \in SUBSET Nodes
  BY AboveIsLeast
<1>3. \A p, q \in top : p = q
  BY RootIsOne
<1> HIDE DEF top
<1>4. CASE top = {}
  BY <1>1, <1>4, TreeAssumption DEF top
<1>5. CASE top # {}
  <2>1. PICK p \in top : TRUE
    BY <1>5
  <2>2. RootIn(up, n) \in top
    BY <1>1, <1>5, <2>1
  <2> QED BY <2>2, <1>2, <1>3 DEF top
<1> QED BY <1>4, <1>5

\* A row and what is above it have one root.
LEMMA RootOfAbove ==
    ASSUME NEW up \in Forests, NEW n \in Nodes, NEW a \in Above(up, n)
    PROVE  a \in Nodes /\ RootIn(up, a) = RootIn(up, n)
<1>1. a \in Nodes /\ Above(up, a) \subseteq Above(up, n)
  BY AboveTrans
<1>2. CASE RootIn(up, n) = NoNode
  <2>1. \A r \in Nodes : ~(r \in Above(up, n) /\ up[r] = NoNode)
    BY <1>2, RootIs, TreeAssumption
  <2> QED BY <1>1, <1>2, <2>1, RootIs
<1>3. CASE RootIn(up, n) # NoNode
  <2>1. PICK r \in Nodes : RootIn(up, n) = r
    BY <1>3, RootIs
  <2>2. r \in Above(up, n) /\ up[r] = NoNode
    BY <2>1, RootIs
  <2>3. r \in Above(up, a)
    BY <2>2, RootIsAbove
  <2> QED BY <1>1, <2>1, <2>2, <2>3, RootIs
<1> QED BY <1>2, <1>3

\* So have a row and its parent.
LEMMA RootOfParent ==
    ASSUME NEW up \in Forests, NEW n \in Nodes, up[n] # NoNode
    PROVE  up[n] \in Nodes /\ RootIn(up, up[n]) = RootIn(up, n)
  BY AboveIsLeast, AboveGoesUp, RootOfAbove

\* A row without a parent is its own root.
LEMMA RootOfRoot ==
    ASSUME NEW up \in Forests, NEW n \in Nodes, up[n] = NoNode
    PROVE  RootIn(up, n) = n
  BY RootIs, AboveIsLeast

\* Who keeps every parent above it keeps its root.
LEMMA RootAgrees ==
    ASSUME NEW up \in Forests, NEW vp \in Forests, NEW n \in Nodes,
           \A x \in Above(up, n) : vp[x] = up[x]
    PROVE  RootIn(vp, n) = RootIn(up, n) /\ Above(vp, n) = Above(up, n)
<1>1. Above(vp, n) = Above(up, n)
  BY AboveAgrees
<1>2. \A r \in Nodes : RootIn(vp, n) = r <=> RootIn(up, n) = r
  BY <1>1, RootIs
<1> QED BY <1>1, <1>2, RootIs

\* A move gives what is below the moved row the root of its target, and leaves the others theirs.
LEMMA RootMoves ==
    ASSUME NEW up \in Forests, NEW s \in Nodes, NEW t \in Nodes, NEW vp \in Forests,
           vp[s] = t, \A x \in Nodes : x # s => vp[x] = up[x], s \notin Above(up, t),
           NEW n \in Nodes
    PROVE  RootIn(vp, n) = IF s \in Above(up, n) THEN RootIn(up, t) ELSE RootIn(up, n)
<1>1. vp[s] = t /\ \A x \in Nodes : x # s => vp[x] = up[x]
  OBVIOUS
<1>2. \A m \in Nodes : s \notin Above(up, m) => RootIn(vp, m) = RootIn(up, m)
  <2> SUFFICES ASSUME NEW m \in Nodes, s \notin Above(up, m) PROVE RootIn(vp, m) = RootIn(up, m)
    OBVIOUS
  <2>1. \A x \in Above(up, m) : vp[x] = up[x]
    BY <1>1, AboveIsLeast
  <2> QED BY <2>1, RootAgrees
<1>3. CASE s \in Above(up, n)
  <2>1. s \in Above(vp, n)
    BY <1>1, <1>3, AboveMoves
  <2>2. RootIn(vp, s) = RootIn(vp, n)
    BY <2>1, RootOfAbove
  <2>3. RootIn(vp, t) = RootIn(vp, s)
    BY <1>1, RootOfParent, TreeAssumption
  <2> QED BY <1>2, <1>3, <2>2, <2>3
<1> QED BY <1>2, <1>3

\* A cut leaves every chain that ends an end.
LEMMA RootShrinks ==
    ASSUME NEW up \in Forests, NEW vp \in Forests, NEW n \in Nodes,
           \A x \in Nodes : vp[x] \in {up[x], NoNode}, RootIn(up, n) # NoNode
    PROVE  RootIn(vp, n) # NoNode
<1> SUFFICES ASSUME RootIn(vp, n) = NoNode PROVE FALSE
  OBVIOUS
<1> DEFINE S == {x \in Nodes : RootIn(vp, x) = NoNode}
<1>1. S \in SUBSET Nodes /\ n \in S
  OBVIOUS
<1>2. ASSUME NEW x \in S PROVE vp[x] # NoNode /\ vp[x] = up[x] /\ up[x] \in S
  <2>1. x \in Nodes /\ RootIn(vp, x) = NoNode
    OBVIOUS
  <2>2. vp[x] # NoNode
    BY <2>1, RootOfRoot, TreeAssumption
  <2>3. vp[x] \in Nodes /\ RootIn(vp, vp[x]) = NoNode
    BY <2>1, <2>2, RootOfParent
  <2> QED BY <2>2, <2>3
<1>3. PICK r \in Nodes : r \in Above(up, n) /\ up[r] = NoNode
  BY RootIs
<1>4. Above(up, n) \subseteq S
  <2> HIDE DEF S
  <2> QED BY <1>1, <1>2, AboveIn
<1> QED BY <1>2, <1>3, <1>4

\* isAncestorOf finds what is above a row, but the row itself.
LEMMA AncestorIs ==
    ASSUME parentOf \in Forests, NEW a, NEW n \in Nodes
    PROVE  /\ a \in Nodes /\ isAncestorOf(a, n) => a \in Above(parentOf, n)
           /\ a \in Above(parentOf, n) /\ a # n => isAncestorOf(a, n)
<1>1. ASSUME a \in Nodes, isAncestorOf(a, n) PROVE a \in Above(parentOf, n)
  <2>1. PICK d \in Depths : Chain(parentOf, n)[d] = a
    BY <1>1 DEF isAncestorOf
  <2> QED BY <1>1, <2>1, ChainStays, TreeAssumption DEF Depths, LastDepth
<1>2. ASSUME a \in Above(parentOf, n), a # n PROVE isAncestorOf(a, n)
  <2>1. PICK d \in 0..LastDepth : Chain(parentOf, n)[d] = a
    BY <1>2, ChainIsAbove
  <2>2. d # 0
    BY <1>2, <2>1, ChainWalks
  <2> QED BY <2>1, <2>2 DEF isAncestorOf, Depths, LastDepth
<1> QED BY <1>1, <1>2

\* What a cascade collects is live and has the deleted row above it.
LEMMA BelowIs ==
    ASSUME parentOf \in Forests, NEW n \in Nodes, NEW m \in Below(n)
    PROVE  m \in Nodes /\ presence[m] = "live" /\ n \in Above(parentOf, m)
<1>1. m \in Nodes
  BY DEF Below
<1>2. PICK d \in Depths \ {0} : /\ Chain(parentOf, m)[d] = n
                                /\ \A e \in 0..(d - 1) : presence[Chain(parentOf, m)[e]] = "live"
  BY DEF Below
<1>3. 0 \in 0..(d - 1) /\ d \in 0..LastDepth
  BY <1>2, DepthIsNat DEF Depths, LastDepth
<1>4. presence[m] = "live"
  BY <1>1, <1>2, <1>3, ChainWalks
<1>5. n \in Above(parentOf, m)
  BY <1>1, <1>2, <1>3, ChainStays, TreeAssumption
<1> QED BY <1>1, <1>4, <1>5-----------------------------------------------------------------------------
(***************************************************************************)
(* What the invariant says of a state.                                     *)
(***************************************************************************)
LEMMA TreeFacts ==
    ASSUME TreeInv
    PROVE  /\ parentOf \in Forests /\ NoNode \notin Nodes /\ NoNode \notin Movers
           /\ \A n \in Nodes : Exists(n) => \A a \in Above(parentOf, n) : a \in Nodes /\ Exists(a)
           /\ \A n \in Nodes : Exists(n) <=> presence[n] \in {"live", "removed"}
           /\ \A n \in Nodes : Exists(n) => reparentOrgRoot(n) = RootIn(parentOf, n)
<1>1. parentOf \in Forests /\ NoNode \notin Nodes /\ NoNode \notin Movers
  BY TreeAssumption DEF TreeInv, TreeTypes, Forests
<1>2. ASSUME NEW n \in Nodes, Exists(n) PROVE \A a \in Above(parentOf, n) : a \in Nodes /\ Exists(a)
  <2> DEFINE S == {a \in Nodes : Exists(a)}
  <2>1. ASSUME NEW x \in S, parentOf[x] # NoNode PROVE parentOf[x] \in S
    <3>1. x \in Nodes /\ Exists(x)
      OBVIOUS
    <3>2. Exists(parentOf[x])
      <4> HIDE DEF S
      <4> QED BY <2>1, <3>1 DEF TreeInv, ForestInv, HangOnRows
    <3>3. parentOf[x] \in Nodes
      BY <1>1, <2>1, <3>1 DEF Forests
    <3> QED BY <3>2, <3>3
  <2>2. S \in SUBSET Nodes /\ n \in S
    BY <1>2
  <2>3. Above(parentOf, n) \subseteq S
    <3> HIDE DEF S
    <3> QED BY <1>1, <2>1, <2>2, AboveIn
  <2> QED BY <2>3
<1>3. \A n \in Nodes : Exists(n) <=> presence[n] \in {"live", "removed"}
  BY DEF TreeInv, TreeTypes, Exists
<1>4. \A n \in Nodes : Exists(n) => reparentOrgRoot(n) = RootIn(parentOf, n)
  BY <1>1 DEF reparentOrgRoot
<1> QED BY <1>1, <1>2, <1>3, <1>4

\* The root of a row that is there is there.
LEMMA RootIsThere ==
    ASSUME TreeInv, NEW n \in Nodes, Exists(n), RootIn(parentOf, n) # NoNode
    PROVE  /\ RootIn(parentOf, n) \in Nodes /\ Exists(RootIn(parentOf, n))
           /\ parentOf[RootIn(parentOf, n)] = NoNode
<1>1. PICK r \in Nodes : RootIn(parentOf, n) = r
  BY TreeFacts, RootIs
<1>2. r \in Above(parentOf, n) /\ parentOf[r] = NoNode
  BY <1>1, TreeFacts, RootIs
<1> QED BY <1>1, <1>2, TreeFacts

\* What the invariant says of one move.
LEMMA MoveFacts ==
    ASSUME TreeInv, NEW m \in Movers
    PROVE  /\ mover \in [Movers -> MoveRecords] /\ mover[m] \in MoveRecords
           /\ rowLock \in [Nodes -> Movers \union {NoNode}] /\ MoveInv(m)
           /\ LocatedInv(m) /\ CheckedInv(m) /\ DecidedInv(m) /\ CommitInv(m)
  BY DEF TreeInv, TreeTypes, MoveInv

\* What has a row without live children above it has a removed one in between.
LEMMA ChildlessAbove ==
    ASSUME TreeInv, NEW i \in Nodes, presence[i] = "live", NEW s \in Above(parentOf, i), s # i,
           Children(s) = {}
    PROVE  /\ i \in strays
           /\ \E c \in Above(parentOf, i) : c \in deleter.ids /\ RootIn(parentOf, c) = RootIn(parentOf, i)
<1>1. PICK c \in Above(parentOf, i) : parentOf[c] = s
  BY TreeFacts, ChildOnPath
<1>2. c \in Nodes /\ Exists(c) /\ presence[c] # "live"
  BY <1>1, TreeFacts DEF Children
<1>3. presence[c] = "removed"
  BY <1>2, TreeFacts
<1>4. i \in strays
  BY <1>1, <1>3 DEF TreeInv, ForestInv, StraysBelow
<1>5. c \in deleter.ids
  BY <1>2, <1>3 DEF TreeInv, DeleteInv
<1>6. RootIn(parentOf, c) = RootIn(parentOf, i)
  BY <1>1, TreeFacts, RootOfAbove
<1> QED BY <1>1, <1>4, <1>5, <1>6

(***************************************************************************)
(* A move that others go by: what they must leave as it is.                *)
(***************************************************************************)
KeepsRows(m) ==
    /\ \A n \in Nodes : rowLock'[n] = m <=> rowLock[n] = m
    /\ \A n \in Nodes : rowLock[n] = m =>
          presence'[n] = presence[n] /\ parentOf'[n] = parentOf[n] /\ Children(n)' \subseteq Children(n)
    /\ \A n \in Nodes : Exists(n) /\ rowLock[n] # m => Exists(n)' \/ Gone(n)'
    /\ \A n \in Nodes : Gone(n) => Gone(n)'
KeepsRoots(m) ==
    LET n == mover[m].self t == mover[m].to
    IN /\ Checked(m) /\ Steady(n)' => RootIn(parentOf', n) = RootIn(parentOf, n)
       /\ Decided(m) /\ ~mover[m].adopts /\ Steady(t)' => RootIn(parentOf', t) = RootIn(parentOf, t)
       /\ At(m, "commit") /\ (~CutLoose' \/ (Steady(n)' /\ Steady(t)')) /\ n \in Above(parentOf', t) =>
             n \in Above(parentOf, t)
KeepsSteady == (\A n \in Nodes : Steady(n)' => Steady(n)) /\ (CutLoose => CutLoose')

\* What others do leaves a move's part of the invariant, if they spare its rows and its roots.
LEMMA MoveStays ==
    ASSUME TreeInv, NEW m \in Movers, mover'[m] = mover[m], KeepsRows(m), KeepsRoots(m), KeepsSteady
    PROVE  MoveInv(m)'
<1>0. /\ mover[m] \in MoveRecords /\ rowLock \in [Nodes -> Movers \union {NoNode}]
      /\ LocatedInv(m) /\ CheckedInv(m) /\ DecidedInv(m) /\ CommitInv(m)
      /\ NoNode \notin Nodes
  BY MoveFacts, TreeFacts
<1> DEFINE n == mover[m].self
           t == mover[m].to
           old == mover[m].selfRoot
           new == mover[m].toRoot
<1>1. old \in Nodes \union {NoNode} /\ new \in Nodes \union {NoNode} /\ mover[m].adopts \in BOOLEAN
  BY <1>0 DEF MoveRecords
<1>2. LocatedInv(m)'
  <2>1. Located(m) => n \in Nodes
    BY <1>0 DEF LocatedInv
  <2>2. ASSUME mover[m].pc \in {"target", "lock"}, old # NoNode PROVE Exists(old)' \/ Gone(old)'
    <3>1. old \in Nodes /\ (Exists(old) \/ Gone(old))
      BY <1>0, <1>1, <2>2 DEF LocatedInv
    <3>2. rowLock[old] = m /\ Exists(old) => Exists(old)'
      BY <3>1 DEF KeepsRows, Exists
    <3> QED BY <3>1, <3>2 DEF KeepsRows
  <2>3. ASSUME At(m, "recheck"), old # NoNode PROVE rowLock'[old] = m \/ Gone(old)'
    BY <1>0, <1>1, <2>3 DEF LocatedInv, KeepsRows
  <2> QED BY <2>1, <2>2, <2>3 DEF LocatedInv, Located, At
<1>3. CheckedInv(m)'
  <2> SUFFICES ASSUME Checked(m)
               PROVE  /\ n \in Nodes /\ t \in Nodes /\ n # t
                      /\ presence'[n] = "live" /\ presence'[t] = "live" /\ rowLock'[n] = m /\ rowLock'[t] = m
                      /\ Steady(n)' => /\ RootIn(parentOf', n) = old
                                       /\ old # NoNode => rowLock'[old] = m
    BY DEF CheckedInv, Checked, Steady, Cut
  <2>1. /\ n \in Nodes /\ t \in Nodes /\ n # t
        /\ presence[n] = "live" /\ presence[t] = "live" /\ rowLock[n] = m /\ rowLock[t] = m
        /\ Steady(n) => RootIn(parentOf, n) = old /\ (old # NoNode => rowLock[old] = m)
    BY <1>0 DEF CheckedInv
  <2>2. presence'[n] = "live" /\ presence'[t] = "live" /\ rowLock'[n] = m /\ rowLock'[t] = m
    BY <2>1 DEF KeepsRows
  <2>3. ASSUME Steady(n)' PROVE RootIn(parentOf', n) = old /\ (old # NoNode => rowLock'[old] = m)
    <3>1. Steady(n)
      BY <2>1, <2>3 DEF KeepsSteady
    <3>2. RootIn(parentOf', n) = RootIn(parentOf, n)
      BY <2>3 DEF KeepsRoots
    <3> QED BY <1>1, <2>1, <3>1, <3>2 DEF KeepsRows
  <2> QED BY <2>1, <2>2, <2>3
<1>4. DecidedInv(m)'
  <2> SUFFICES ASSUME Decided(m)
               PROVE  /\ old # NoNode /\ new # NoNode
                      /\ rowLock'[new] = m => parentOf'[new] = NoNode
                      /\ IF mover[m].adopts
                         THEN parentOf'[n] = NoNode /\ Children(n)' = {} /\ new # n
                         ELSE (Steady(t)' => RootIn(parentOf', t) = old) /\ (parentOf'[n] = NoNode => old = n)
    BY DEF DecidedInv, Decided, Steady, Cut, Children
  <2>1. /\ old # NoNode /\ new # NoNode
        /\ rowLock[new] = m => parentOf[new] = NoNode
        /\ IF mover[m].adopts
           THEN parentOf[n] = NoNode /\ Children(n) = {} /\ new # n
           ELSE (Steady(t) => RootIn(parentOf, t) = old) /\ (parentOf[n] = NoNode => old = n)
    BY <1>0 DEF DecidedInv
  <2>2. n \in Nodes /\ t \in Nodes /\ rowLock[n] = m /\ rowLock[t] = m
    BY <1>0 DEF CheckedInv, Checked, Decided
  <2>3. rowLock'[new] = m => parentOf'[new] = NoNode
    BY <1>1, <2>1 DEF KeepsRows
  <2>4. parentOf'[n] = parentOf[n] /\ Children(n)' \subseteq Children(n)
    BY <2>2 DEF KeepsRows
  <2>5. ~mover[m].adopts /\ Steady(t)' => RootIn(parentOf', t) = old
    BY <2>1, <2>2 DEF KeepsRoots, KeepsSteady
  <2> QED BY <2>1, <2>3, <2>4, <2>5
<1>5. CommitInv(m)'
  <2> SUFFICES ASSUME At(m, "commit")
               PROVE  /\ ~mover[m].adopts => parentOf'[n] # NoNode
                      /\ ~CutLoose' \/ (Steady(n)' /\ Steady(t)') => n \notin Above(parentOf', t)
    BY DEF CommitInv, At, Steady, Cut
  <2>1. /\ ~mover[m].adopts => parentOf[n] # NoNode
        /\ ~CutLoose \/ (Steady(n) /\ Steady(t)) => n \notin Above(parentOf, t)
    BY <1>0 DEF CommitInv
  <2>2. n \in Nodes /\ t \in Nodes /\ rowLock[n] = m
    BY <1>0 DEF CheckedInv, Checked, At
  <2> QED BY <2>1, <2>2 DEF KeepsRows, KeepsRoots, KeepsSteady
<1> QED BY <1>2, <1>3, <1>4, <1>5 DEF MoveInv

(***************************************************************************)
(* The steps of a move before its commit, which write no row.              *)
(***************************************************************************)
QuietStep(m, r) ==
    /\ r \in MoveRecords /\ r.pc # "idle" /\ mover' = [mover EXCEPT ![m] = r]
    /\ rowLock' \in [Nodes -> Movers \union {NoNode}]
    /\ \A k \in Movers \ {m} : \A n \in Nodes : rowLock'[n] = k <=> rowLock[n] = k
    /\ \A n \in Nodes : rowLock'[n] # NoNode => Exists(n)
    /\ UNCHANGED <<parentOf, presence, deleter, maker, orgTok, lateMints, strays>>

\* A move that goes on or ends does not end CutLoose.
LEMMA LooseStays ==
    ASSUME TreeInv, NEW m \in Movers, NEW r \in MoveRecords, r.pc # "idle", mover' = [mover EXCEPT ![m] = r],
           UNCHANGED deleter, strays \subseteq strays'
    PROVE  CutLoose => CutLoose'
<1>1. \A k \in Movers : mover'[k] = IF k = m THEN r ELSE mover[k]
  BY MoveFacts
<1>2. \A k \in Movers : ~At(k, "idle") => ~At(k, "idle")'
  BY <1>1 DEF At
<1> QED BY <1>2 DEF CutLoose

\* A step of a move that writes no row keeps the invariant if it keeps that of the move.
LEMMA QuietKeeps ==
    ASSUME TreeInv, NEW m \in Movers, NEW r, QuietStep(m, r), MoveInv(m)'
    PROVE  TreeInv'
<1>1. /\ r \in MoveRecords /\ r.pc # "idle" /\ mover' = [mover EXCEPT ![m] = r]
      /\ UNCHANGED <<parentOf, presence, deleter, maker, orgTok, lateMints, strays>>
      /\ mover \in [Movers -> MoveRecords]
  BY MoveFacts DEF QuietStep
<1>2. CutLoose => CutLoose'
  BY <1>1, LooseStays
<1>3. TreeTypes'
  BY <1>1 DEF QuietStep, TreeInv, TreeTypes
<1>4. DeleteInv'
  BY <1>1 DEF TreeInv, DeleteInv
<1>5. ForestInv'
  <2>1. HangOnRows' /\ StraysBelow' /\ OneTree'
    BY <1>1 DEF TreeInv, ForestInv, HangOnRows, StraysBelow, OneTree, Exists, Cut
  <2>2. ChainsEnd'
    BY <1>1, <1>2 DEF TreeInv, ForestInv, ChainsEnd, orgRootID, reparentOrgRoot, Exists
  <2>3. LocksOnRows'
    BY <1>1 DEF QuietStep, LocksOnRows, Exists
  <2> QED BY <2>1, <2>2, <2>3 DEF ForestInv
<1>6. AnchorInv'
  BY <1>1 DEF TreeInv, AnchorInv, Gone, Exists
<1>7. ASSUME NEW k \in Movers, k # m PROVE MoveInv(k)'
  <2>1. mover'[k] = mover[k]
    BY <1>1, <1>7
  <2>2. KeepsRows(k)
    BY <1>1, <1>7 DEF KeepsRows, QuietStep, Exists, Gone, Children
  <2>3. KeepsRoots(k)
    BY <1>1, <1>2 DEF KeepsRoots, Steady, Cut
  <2>4. KeepsSteady
    BY <1>1, <1>2 DEF KeepsSteady, Steady, Cut
  <2> QED BY <2>1, <2>2, <2>3, <2>4, MoveStays
<1> QED BY <1>3, <1>4, <1>5, <1>6, <1>7 DEF TreeInv

\* The record of a move that has ended.
LEMMA NoMoveIs ==
    /\ NoMove \in MoveRecords
    /\ [NoMove EXCEPT !.pc = "done"] \in MoveRecords /\ [NoMove EXCEPT !.pc = "done"].pc = "done"
<1>1. NoMove \in MoveRecords
  BY DEF NoMove, MoveRecords
<1>2. ASSUME NEW r \in MoveRecords
      PROVE  [r EXCEPT !.pc = "done"] \in MoveRecords /\ [r EXCEPT !.pc = "done"].pc = "done"
  BY DEF MoveRecords
<1> QED BY <1>1, <1>2

\* An ended move owes nothing.
LEMMA EndedMove ==
    ASSUME NEW m \in Movers, mover'[m].pc = "done"
    PROVE  MoveInv(m)'
  BY DEF MoveInv, LocatedInv, CheckedInv, DecidedInv, CommitInv, Located, Checked, Decided, At

\* The end of a transaction frees its own locks and no other.
LEMMA ReleaseIs ==
    ASSUME TreeInv, NEW m \in Movers, Release(m)
    PROVE  /\ rowLock' \in [Nodes -> Movers \union {NoNode}]
           /\ \A k \in Movers \ {m} : \A n \in Nodes : rowLock'[n] = k <=> rowLock[n] = k
           /\ \A n \in Nodes : rowLock'[n] # NoNode => Exists(n)
<1>1. rowLock \in [Nodes -> Movers \union {NoNode}] /\ NoNode \notin Movers
  BY MoveFacts, TreeFacts
<1>2. \A n \in Nodes : rowLock[n] # NoNode => Exists(n)
  BY DEF TreeInv, ForestInv, LocksOnRows
<1>3. rowLock' = [n \in Nodes |-> IF rowLock[n] = m THEN NoNode ELSE rowLock[n]]
  BY DEF Release
<1> QED BY <1>1, <1>2, <1>3

\* A refused move changes no row.
LEMMA RefuseKeeps ==
    ASSUME TreeInv, NEW m \in Movers, Refuse(m), UNCHANGED MoverKeeps
    PROVE  TreeInv'
<1> DEFINE r == [NoMove EXCEPT !.pc = "done"]
<1>1. r \in MoveRecords /\ r.pc = "done"
  BY NoMoveIs
<1>2. mover' = [mover EXCEPT ![m] = r] /\ mover \in [Movers -> MoveRecords]
  BY MoveFacts DEF Refuse
<1> HIDE DEF r
<1>3. MoveInv(m)'
  BY <1>1, <1>2, EndedMove
<1>4. QuietStep(m, r)
  BY <1>1, <1>2, ReleaseIs DEF QuietStep, Refuse, MoverKeeps
<1> QED BY <1>3, <1>4, QuietKeeps

\* A step that only goes on to the next label.
LEMMA StepIs ==
    ASSUME TreeInv, NEW m \in Movers, NEW pc \in {"recheck", "cycle", "org", "commit"}, Step(m, pc)
    PROVE  LET r == [mover[m] EXCEPT !.pc = pc]
           IN /\ r \in MoveRecords /\ r.pc = pc /\ mover' = [mover EXCEPT ![m] = r] /\ mover'[m] = r
              /\ r.self = mover[m].self /\ r.to = mover[m].to /\ r.selfRoot = mover[m].selfRoot
              /\ r.toRoot = mover[m].toRoot /\ r.adopts = mover[m].adopts
<1>1. mover \in [Movers -> MoveRecords] /\ mover[m] \in MoveRecords
  BY MoveFacts
<1>2. mover' = [mover EXCEPT ![m] = [mover[m] EXCEPT !.pc = pc]]
  BY <1>1 DEF Step
<1>3. ASSUME NEW q \in MoveRecords
      PROVE  LET r == [q EXCEPT !.pc = pc]
             IN /\ r \in MoveRecords /\ r.pc = pc
                /\ r.self = q.self /\ r.to = q.to /\ r.selfRoot = q.selfRoot
                /\ r.toRoot = q.toRoot /\ r.adopts = q.adopts
  BY DEF MoveRecords
<1> QED BY <1>1, <1>2, <1>3

\* A step that takes no lock.
LEMMA SameLocks ==
    ASSUME TreeInv, UNCHANGED rowLock
    PROVE  /\ rowLock' \in [Nodes -> Movers \union {NoNode}]
           /\ \A k \in Movers : \A n \in Nodes : rowLock'[n] = k <=> rowLock[n] = k
           /\ \A n \in Nodes : rowLock'[n] # NoNode => Exists(n)
  BY DEF TreeInv, TreeTypes, ForestInv, LocksOnRows
\* PreLocateSelf: the root that is read is there.
LEMMA LocateSelfKeeps ==
    ASSUME TreeInv, NEW m \in Movers, PreLocateSelf(m)
    PROVE  TreeInv'
<1>1. PICK n \in Nodes, t \in Nodes \union {NoNode} :
          /\ Exists(n)
          /\ mover' = [mover EXCEPT ![m] = [NoMove EXCEPT !.pc = "target", !.self = n, !.to = t,
                                              !.selfRoot = reparentOrgRoot(n)]]
  BY DEF PreLocateSelf
<1> DEFINE root == reparentOrgRoot(n)
           r == [NoMove EXCEPT !.pc = "target", !.self = n, !.to = t, !.selfRoot = root]
<1>2. root = RootIn(parentOf, n) /\ root \in Nodes \union {NoNode}
  BY <1>1, TreeFacts, RootIs
<1>3. root # NoNode => Exists(root)
  BY <1>1, <1>2, RootIsThere
<1> HIDE DEF root
<1>4. r \in MoveRecords /\ r.pc = "target" /\ r.self = n /\ r.selfRoot = root
  <2>1. ASSUME NEW q \in MoveRecords
        PROVE  LET s == [q EXCEPT !.pc = "target", !.self = n, !.to = t, !.selfRoot = root]
               IN s \in MoveRecords /\ s.pc = "target" /\ s.self = n /\ s.selfRoot = root
    BY <1>2 DEF MoveRecords
  <2> QED BY <2>1, NoMoveIs
<1>5. mover' = [mover EXCEPT ![m] = r] /\ mover'[m] = r
  BY <1>1, MoveFacts DEF root
<1> HIDE DEF r
<1>6. QuietStep(m, r)
  BY <1>4, <1>5, SameLocks DEF QuietStep, PreLocateSelf, MoverKeeps
<1>7. UNCHANGED presence
  BY DEF PreLocateSelf
<1>8. MoveInv(m)'
  BY <1>3, <1>4, <1>5, <1>7
  DEF MoveInv, LocatedInv, CheckedInv, DecidedInv, CommitInv, Located, Checked, Decided, At, Exists
<1> QED BY <1>6, <1>8, QuietKeeps

\* PreLocateTarget: the target's root is read in a statement of its own.
LEMMA LocateTargetKeeps ==
    ASSUME TreeInv, NEW m \in Movers, PreLocateTarget(m)
    PROVE  TreeInv'
<1> DEFINE root == IF mover[m].to = mover[m].self THEN NoNode ELSE reparentOrgRoot(mover[m].to)
           r == [mover[m] EXCEPT !.pc = "lock", !.toRoot = root]
<1>0. mover[m] \in MoveRecords /\ mover \in [Movers -> MoveRecords] /\ LocatedInv(m) /\ At(m, "target")
  BY MoveFacts DEF PreLocateTarget
<1>1. root \in Nodes \union {NoNode}
  <2>1. mover[m].to \in Nodes \union {NoNode}
    BY <1>0 DEF MoveRecords
  <2> QED BY <2>1, TreeFacts, RootIs DEF reparentOrgRoot
<1> HIDE DEF root
<1>2. /\ r \in MoveRecords /\ r.pc = "lock" /\ r.self = mover[m].self /\ r.selfRoot = mover[m].selfRoot
  <2>1. ASSUME NEW q \in MoveRecords
        PROVE  LET s == [q EXCEPT !.pc = "lock", !.toRoot = root]
               IN s \in MoveRecords /\ s.pc = "lock" /\ s.self = q.self /\ s.selfRoot = q.selfRoot
    BY <1>1 DEF MoveRecords
  <2> QED BY <2>1, <1>0
<1>3. mover' = [mover EXCEPT ![m] = r] /\ mover'[m] = r
  <2>1. mover' = [mover EXCEPT ![m] = r]
    BY <1>0 DEF PreLocateTarget, root
  <2> QED BY <2>1, <1>0
<1> HIDE DEF r
<1>4. QuietStep(m, r)
  BY <1>2, <1>3, SameLocks DEF QuietStep, PreLocateTarget, MoverKeeps
<1>5. UNCHANGED <<presence, deleter>>
  BY DEF PreLocateTarget, MoverKeeps
<1>6. MoveInv(m)'
  BY <1>0, <1>2, <1>3, <1>5
  DEF MoveInv, LocatedInv, CheckedInv, DecidedInv, CommitInv, Located, Checked, Decided, At, Exists, Gone
<1> QED BY <1>4, <1>6, QuietKeeps

\* LockRows: the root that was read is locked, or a purge has deleted it.
LEMMA LockKeeps ==
    ASSUME TreeInv, NEW m \in Movers, LockRows(m)
    PROVE  TreeInv'
<1> DEFINE r == [mover[m] EXCEPT !.pc = "recheck"]
<1>0. mover[m] \in MoveRecords /\ LocatedInv(m) /\ At(m, "lock")
  BY MoveFacts DEF LockRows
<1>1. /\ r \in MoveRecords /\ r.pc = "recheck" /\ mover' = [mover EXCEPT ![m] = r] /\ mover'[m] = r
      /\ r.self = mover[m].self /\ r.selfRoot = mover[m].selfRoot
  BY StepIs DEF LockRows
<1> HIDE DEF r
<1>2. /\ UNCHANGED <<parentOf, presence, deleter, maker, orgTok, lateMints, strays>>
      /\ \A n \in LockSet(m) : rowLock[n] = NoNode
      /\ rowLock' = [n \in Nodes |-> IF n \in LockSet(m) THEN m ELSE rowLock[n]]
  BY DEF LockRows, MoverKeeps
<1>3. /\ rowLock \in [Nodes -> Movers \union {NoNode}] /\ NoNode \notin Movers
      /\ \A n \in Nodes : rowLock[n] # NoNode => Exists(n)
  BY MoveFacts, TreeFacts DEF TreeInv, ForestInv, LocksOnRows
<1>4. \A n \in LockSet(m) : Exists(n)
  BY DEF LockSet
<1>5. QuietStep(m, r)
  <2>1. rowLock' \in [Nodes -> Movers \union {NoNode}]
    BY <1>2, <1>3
  <2>2. \A k \in Movers \ {m} : \A n \in Nodes : rowLock'[n] = k <=> rowLock[n] = k
    BY <1>2, <1>3
  <2>3. \A n \in Nodes : rowLock'[n] # NoNode => Exists(n)
    BY <1>2, <1>3, <1>4
  <2> QED BY <1>1, <1>2, <2>1, <2>2, <2>3 DEF QuietStep
<1>6. MoveInv(m)'
  <2>1. mover[m].selfRoot # NoNode /\ Exists(mover[m].selfRoot) => rowLock'[mover[m].selfRoot] = m
    <3> SUFFICES ASSUME mover[m].selfRoot # NoNode, Exists(mover[m].selfRoot)
                 PROVE  rowLock'[mover[m].selfRoot] = m
      OBVIOUS
    <3>1. mover[m].selfRoot \in LockSet(m) /\ mover[m].selfRoot \in Nodes
      BY <1>0 DEF LockSet, MoveRecords
    <3> QED BY <3>1, <1>2
  <2>2. LocatedInv(m)'
    BY <1>0, <1>1, <1>2, <2>1 DEF LocatedInv, Located, At, Gone, Exists
  <2>3. CheckedInv(m)' /\ DecidedInv(m)' /\ CommitInv(m)'
    BY <1>1 DEF CheckedInv, DecidedInv, CommitInv, Checked, Decided, At
  <2> QED BY <2>2, <2>3 DEF MoveInv
<1> QED BY <1>5, <1>6, QuietKeeps

\* MoveRechecks: after it the source's root is the one that is locked.
LEMMA RecheckKeeps ==
    ASSUME TreeInv, NEW m \in Movers, MoveRechecks(m)
    PROVE  TreeInv'
<1> DEFINE n == mover[m].self
           t == mover[m].to
           old == mover[m].selfRoot
           bad == \/ rowLock[n] # m
                  \/ reparentOrgRoot(n) # old
                  \/ presence[n] = "removed" \/ t = NoNode \/ t = n \/ parentOf[n] = t
                  \/ t # NoNode /\ (~Exists(t) \/ rowLock[t] # m \/ presence[t] = "removed")
<1>0. mover[m] \in MoveRecords /\ LocatedInv(m) /\ At(m, "recheck")
  BY MoveFacts DEF MoveRechecks
<1>1. CASE Refuse(m)
  BY <1>1, RefuseKeeps DEF MoveRechecks
<1>2. CASE ~bad /\ Step(m, "cycle") /\ UNCHANGED <<parentOf, presence, rowLock, orgTok, lateMints, strays>>
  <2> DEFINE r == [mover[m] EXCEPT !.pc = "cycle"]
  <2>1. /\ r \in MoveRecords /\ r.pc = "cycle" /\ mover' = [mover EXCEPT ![m] = r] /\ mover'[m] = r
        /\ r.self = n /\ r.to = t /\ r.selfRoot = old
    BY <1>2, StepIs
  <2> HIDE DEF r
  <2>2. UNCHANGED <<parentOf, presence, rowLock, deleter, maker, orgTok, lateMints, strays>>
    BY <1>2 DEF MoveRechecks, MoverKeeps
  <2>3. QuietStep(m, r)
    BY <2>1, <2>2, SameLocks DEF QuietStep
  <2>4. n \in Nodes /\ t \in Nodes /\ t # n /\ old \in Nodes \union {NoNode}
    BY <1>0, <1>2 DEF LocatedInv, Located, At, MoveRecords
  <2>5. /\ rowLock[n] = m /\ rowLock[t] = m /\ presence[n] # "removed" /\ presence[t] # "removed"
        /\ reparentOrgRoot(n) = old /\ Exists(t)
    BY <1>2, <2>4, TreeFacts
  <2>6. Exists(n)
    BY <2>4, <2>5, TreeFacts DEF TreeInv, ForestInv, LocksOnRows
  <2>7. presence[n] = "live" /\ presence[t] = "live" /\ RootIn(parentOf, n) = old
    BY <2>4, <2>5, <2>6, TreeFacts
  <2>8. old # NoNode => rowLock[old] = m
    <3> SUFFICES ASSUME old # NoNode PROVE rowLock[old] = m
      OBVIOUS
    <3>1. Exists(old)
      BY <2>4, <2>6, <2>7, RootIsThere
    <3> QED BY <1>0, <3>1 DEF LocatedInv, Gone
  <2>9. CheckedInv(m)'
    BY <2>1, <2>2, <2>4, <2>5, <2>7, <2>8 DEF CheckedInv
  <2>10. LocatedInv(m)' /\ DecidedInv(m)' /\ CommitInv(m)'
    BY <2>1 DEF LocatedInv, DecidedInv, CommitInv, Located, Decided, At
  <2> QED BY <2>3, <2>9, <2>10, QuietKeeps DEF MoveInv
<1> QED BY <1>1, <1>2 DEF MoveRechecks

\* MoveChecksCycle refuses or goes on.
LEMMA CycleKeeps ==
    ASSUME TreeInv, NEW m \in Movers, MoveChecksCycle(m)
    PROVE  TreeInv'
<1>0. CheckedInv(m) /\ At(m, "cycle")
  BY MoveFacts DEF MoveChecksCycle
<1>1. CASE Refuse(m)
  BY <1>1, RefuseKeeps DEF MoveChecksCycle
<1>2. CASE Step(m, "org") /\ UNCHANGED <<parentOf, presence, rowLock, orgTok, lateMints, strays>>
  <2> DEFINE r == [mover[m] EXCEPT !.pc = "org"]
  <2>1. /\ r \in MoveRecords /\ r.pc = "org" /\ mover' = [mover EXCEPT ![m] = r] /\ mover'[m] = r
        /\ r.self = mover[m].self /\ r.to = mover[m].to /\ r.selfRoot = mover[m].selfRoot
    BY <1>2, StepIs
  <2> HIDE DEF r
  <2>2. UNCHANGED <<parentOf, presence, rowLock, deleter, maker, orgTok, lateMints, strays>>
    BY <1>2 DEF MoveChecksCycle, MoverKeeps
  <2>3. QuietStep(m, r)
    BY <2>1, <2>2, SameLocks DEF QuietStep
  <2>4. CheckedInv(m)'
    BY <1>0, <2>1, <2>2 DEF CheckedInv, Checked, At, Steady, Cut
  <2>5. LocatedInv(m)' /\ DecidedInv(m)' /\ CommitInv(m)'
    BY <2>1 DEF LocatedInv, DecidedInv, CommitInv, Located, Decided, At
  <2> QED BY <2>3, <2>4, <2>5, QuietKeeps DEF MoveInv
<1> QED BY <1>1, <1>2 DEF MoveChecksCycle
\* MoveChecksOrg: the two roots are one, or a root without children is adopted.
LEMMA MoveOrgKeeps ==
    ASSUME TreeInv, NEW m \in Movers, MoveChecksOrg(m)
    PROVE  TreeInv'
<1> DEFINE n == mover[m].self
           t == mover[m].to
           old == reparentOrgRoot(n)
           new == reparentOrgRoot(t)
           adopts == Adopts(n, old, new)
           refused == old = NoNode \/ new = NoNode \/ (old # new /\ ~adopts)
           r == [mover[m] EXCEPT !.pc = "write", !.adopts = adopts, !.selfRoot = old, !.toRoot = new]
<1>0. mover[m] \in MoveRecords /\ mover \in [Movers -> MoveRecords] /\ CheckedInv(m) /\ At(m, "org")
  BY MoveFacts DEF MoveChecksOrg
<1>1. CASE Refuse(m)
  BY <1>1, RefuseKeeps DEF MoveChecksOrg
<1>2. CASE ~refused /\ mover' = [mover EXCEPT ![m] = r]
           /\ UNCHANGED <<parentOf, presence, rowLock, orgTok, lateMints, strays>>
  <2>1. /\ n \in Nodes /\ t \in Nodes /\ n # t
        /\ presence[n] = "live" /\ presence[t] = "live" /\ rowLock[n] = m /\ rowLock[t] = m
        /\ Steady(n) => RootIn(parentOf, n) = mover[m].selfRoot
                        /\ (mover[m].selfRoot # NoNode => rowLock[mover[m].selfRoot] = m)
    BY <1>0 DEF CheckedInv, Checked, At
  <2>2. Exists(n) /\ Exists(t)
    BY <2>1, TreeFacts
  <2>3. /\ old = RootIn(parentOf, n) /\ new = RootIn(parentOf, t) /\ old # NoNode /\ new # NoNode
        /\ old \in Nodes /\ new \in Nodes /\ parentOf[new] = NoNode
    BY <1>2, <2>1, <2>2, TreeFacts, RootIsThere
  <2>4. adopts \in BOOLEAN /\ (adopts => old # new /\ parentOf[n] = NoNode /\ Children(n) = {})
        /\ (~adopts => old = new)
    BY <1>2 DEF Adopts
  <2>5. parentOf[n] = NoNode => old = n
    BY <2>1, <2>3, TreeFacts, RootOfRoot
  <2> HIDE DEF old, new, adopts
  <2>6. /\ r \in MoveRecords /\ r.pc = "write" /\ r.self = n /\ r.to = t /\ r.selfRoot = old
        /\ r.toRoot = new /\ r.adopts = adopts
    <3>1. ASSUME NEW q \in MoveRecords
          PROVE  LET s == [q EXCEPT !.pc = "write", !.adopts = adopts, !.selfRoot = old, !.toRoot = new]
                 IN /\ s \in MoveRecords /\ s.pc = "write" /\ s.self = q.self /\ s.to = q.to
                    /\ s.selfRoot = old /\ s.toRoot = new /\ s.adopts = adopts
      BY <2>3, <2>4 DEF MoveRecords
    <3> QED BY <3>1, <1>0
  <2>7. mover' = [mover EXCEPT ![m] = r] /\ mover'[m] = r
    BY <1>0, <1>2
  <2> HIDE DEF r
  <2>8. UNCHANGED <<parentOf, presence, rowLock, deleter, maker, orgTok, lateMints, strays>>
    BY <1>2 DEF MoveChecksOrg, MoverKeeps
  <2>9. QuietStep(m, r)
    BY <2>6, <2>7, <2>8, SameLocks DEF QuietStep
  <2>10. CheckedInv(m)'
    BY <2>1, <2>3, <2>6, <2>7, <2>8 DEF CheckedInv, Steady, Cut
  <2>11. DecidedInv(m)'
    BY <2>3, <2>4, <2>5, <2>6, <2>7, <2>8 DEF DecidedInv, Children
  <2>12. LocatedInv(m)' /\ CommitInv(m)'
    BY <2>6, <2>7 DEF LocatedInv, CommitInv, Located, At
  <2> QED BY <2>9, <2>10, <2>11, <2>12, QuietKeeps DEF MoveInv
<1> QED BY <1>1, <1>2 DEF MoveChecksOrg

\* What the check of the written chain shows: the target is not below the row.
LEMMA VerifiedIsClear ==
    ASSUME NEW up \in Forests, NEW s \in Nodes, NEW t \in Nodes, s # t,
           RootIn([up EXCEPT ![s] = t], s) # NoNode
    PROVE  s \notin Above(up, t)
<1> DEFINE vp == [up EXCEPT ![s] = t]
<1>1. vp \in Forests /\ vp[s] = t /\ \A x \in Nodes : x # s => vp[x] = up[x]
  BY DEF Forests
<1> SUFFICES ASSUME s \in Above(up, t) PROVE FALSE
  OBVIOUS
<1>2. t # NoNode
  BY TreeAssumption
<1>3. vp = [up EXCEPT ![s] = t] /\ RootIn(vp, s) # NoNode
  OBVIOUS
<1> HIDE DEF vp
<1>4. s \in Above(vp, t)
  BY <1>1, <1>3, AboveMoves
<1>5. t \in Above(vp, s)
  BY <1>1, <1>2, AboveIsLeast, AboveGoesUp
<1>6. PICK r \in Nodes : r \in Above(vp, s) /\ vp[r] = NoNode
  BY <1>1, <1>3, RootIs
<1> QED BY <1>1, <1>4, <1>5, <1>6, AboveIsOrder

\* MoveVerifies: a chain that ends does not lead back to the moved row.
LEMMA VerifyKeeps ==
    ASSUME TreeInv, NEW m \in Movers, MoveVerifies(m)
    PROVE  TreeInv'
<1> DEFINE n == mover[m].self
           t == mover[m].to
           moved == [parentOf EXCEPT ![n] = t]
           expected == IF mover[m].adopts THEN mover[m].toRoot ELSE mover[m].selfRoot
           r == [mover[m] EXCEPT !.pc = "commit"]
<1>0. CheckedInv(m) /\ DecidedInv(m) /\ At(m, "write")
  BY MoveFacts DEF MoveVerifies
<1>1. CASE Refuse(m)
  BY <1>1, RefuseKeeps DEF MoveVerifies
<1>2. CASE RootIn(moved, n) = expected /\ Step(m, "commit")
           /\ UNCHANGED <<parentOf, presence, rowLock, orgTok, lateMints, strays>>
  <2>1. /\ r \in MoveRecords /\ r.pc = "commit" /\ mover' = [mover EXCEPT ![m] = r] /\ mover'[m] = r
        /\ r.self = n /\ r.to = t /\ r.selfRoot = mover[m].selfRoot
        /\ r.toRoot = mover[m].toRoot /\ r.adopts = mover[m].adopts
    BY <1>2, StepIs
  <2> HIDE DEF r
  <2>2. UNCHANGED <<parentOf, presence, rowLock, deleter, maker, orgTok, lateMints, strays>>
    BY <1>2 DEF MoveVerifies, MoverKeeps
  <2>3. QuietStep(m, r)
    BY <2>1, <2>2, SameLocks DEF QuietStep
  <2>4. CheckedInv(m)'
    BY <1>0, <2>1, <2>2 DEF CheckedInv, Checked, At, Steady, Cut
  <2>5. DecidedInv(m)'
    BY <1>0, <2>1, <2>2 DEF DecidedInv, Decided, At, Steady, Cut, Children
  <2>6. LocatedInv(m)'
    BY <2>1 DEF LocatedInv, Located, At
  <2>7. n \in Nodes /\ t \in Nodes /\ n # t /\ parentOf \in Forests
    BY <1>0, TreeFacts DEF CheckedInv, Checked, At
  <2>8. expected # NoNode /\ (~mover[m].adopts /\ parentOf[n] = NoNode => mover[m].selfRoot = n)
    BY <1>0 DEF DecidedInv, Decided, At
  <2>9. n \notin Above(parentOf, t)
    BY <1>2, <2>7, <2>8, VerifiedIsClear
  <2>10. ~mover[m].adopts => parentOf[n] # NoNode
    <3> SUFFICES ASSUME ~mover[m].adopts, parentOf[n] = NoNode PROVE FALSE
      OBVIOUS
    <3>1. RootIn(moved, n) = n
      BY <1>2, <2>8
    <3>2. moved \in Forests /\ moved[n] = t /\ t # NoNode
      BY <2>7, TreeFacts DEF Forests
    <3> HIDE DEF moved
    <3>3. moved[n] = NoNode
      BY <2>7, <3>1, <3>2, RootIs
    <3> QED BY <3>2, <3>3
  <2>11. CommitInv(m)'
    BY <2>1, <2>2, <2>9, <2>10 DEF CommitInv
  <2> QED BY <2>3, <2>4, <2>5, <2>6, <2>11, QuietKeeps DEF MoveInv
<1> QED BY <1>1, <1>2 DEF MoveVerifies
(***************************************************************************)
(* The commit of a move.                                                   *)
(***************************************************************************)
Migrates(m) == {k \in OrgTokens : mover[m].adopts /\ orgTok[k].phase = "live" /\ orgTok[k].org = mover[m].self}
Joins(n) == {i \in Nodes : presence[i] = "live" /\ (i = n \/ isAncestorOf(n, i))}
Commits(m) ==
    LET n == mover[m].self
    IN /\ At(m, "commit")
       /\ Migrates(m) # {} => Exists(mover[m].toRoot)
       /\ parentOf' = [parentOf EXCEPT ![n] = mover[m].to]
       /\ orgTok' = [k \in OrgTokens |->
                       IF k \in Migrates(m) THEN [orgTok[k] EXCEPT !.org = mover[m].toRoot] ELSE orgTok[k]]
       /\ lateMints' = lateMints \union
             {k \in OrgTokens : /\ mover[m].adopts /\ orgTok[k].org = n
                                /\ orgTok[k].phase = "live" => rowLock[mover[m].toRoot] # m}
       /\ strays' = IF mover[m].to \in strays THEN strays \union Joins(n) ELSE strays
       /\ mover' = [mover EXCEPT ![m] = [NoMove EXCEPT !.pc = "done"]]
       /\ Release(m) /\ UNCHANGED <<presence, deleter, maker>>

\* MoveCommits shows the move or is refused.
LEMMA CommitIs ==
    ASSUME NEW m \in Movers, MoveCommits(m)
    PROVE  Commits(m) \/ (Refuse(m) /\ UNCHANGED MoverKeeps)
  BY DEF MoveCommits, Commits, Migrates, Joins, MoverKeeps

\* What a commit writes.
LEMMA CommitFacts ==
    ASSUME TreeInv, NEW m \in Movers, Commits(m)
    PROVE  LET n == mover[m].self t == mover[m].to
           IN /\ n \in Nodes /\ t \in Nodes /\ n # t
              /\ presence[n] = "live" /\ presence[t] = "live" /\ rowLock[n] = m /\ rowLock[t] = m
              /\ Exists(n) /\ Exists(t)
              /\ parentOf' = [parentOf EXCEPT ![n] = t]
              /\ parentOf' \in Forests /\ parentOf'[n] = t
              /\ \A x \in Nodes : x # n => parentOf'[x] = parentOf[x]
              /\ strays \subseteq strays' /\ strays' \subseteq Nodes
              /\ KeepsSteady
              /\ \A i \in Nodes : presence[i] = "live" /\ t \in strays /\ n \in Above(parentOf, i) => i \in strays'
              /\ \A i \in Nodes : i \in strays' /\ i \notin strays => t \in strays /\ n \in Above(parentOf, i)
<1> DEFINE n == mover[m].self
           t == mover[m].to
<1>0. CheckedInv(m) /\ At(m, "commit") /\ parentOf \in Forests /\ mover \in [Movers -> MoveRecords]
  BY MoveFacts, TreeFacts DEF Commits
<1>1. /\ n \in Nodes /\ t \in Nodes /\ n # t
      /\ presence[n] = "live" /\ presence[t] = "live" /\ rowLock[n] = m /\ rowLock[t] = m
  BY <1>0 DEF CheckedInv, Checked, At
<1>2. Exists(n) /\ Exists(t)
  BY <1>1, TreeFacts
<1>3. parentOf' = [parentOf EXCEPT ![n] = t]
  BY DEF Commits
<1>4. parentOf' \in Forests /\ parentOf'[n] = t /\ \A x \in Nodes : x # n => parentOf'[x] = parentOf[x]
  BY <1>0, <1>1, <1>3 DEF Forests
<1>5. /\ strays' = IF t \in strays THEN strays \union Joins(n) ELSE strays
      /\ strays \subseteq Nodes
  BY DEF Commits, TreeInv, TreeTypes
<1>6. \A i \in Nodes : i \in Joins(n) <=> presence[i] = "live" /\ n \in Above(parentOf, i)
  <2> SUFFICES ASSUME NEW i \in Nodes
               PROVE  i \in Joins(n) <=> presence[i] = "live" /\ n \in Above(parentOf, i)
    OBVIOUS
  <2>1. i \in Joins(n) <=> presence[i] = "live" /\ (i = n \/ isAncestorOf(n, i))
    BY DEF Joins
  <2>2. isAncestorOf(n, i) => n \in Above(parentOf, i)
    BY <1>0, <1>1, AncestorIs
  <2>3. n \in Above(parentOf, i) /\ n # i => isAncestorOf(n, i)
    BY <1>0, AncestorIs
  <2>4. i \in Above(parentOf, i)
    BY <1>0, AboveIsLeast
  <2> QED BY <2>1, <2>2, <2>3, <2>4
<1>7. strays \subseteq strays' /\ strays' \subseteq Nodes
  BY <1>5 DEF Joins
<1>8. KeepsSteady
  <2>1. UNCHANGED deleter
    BY DEF Commits
  <2>2. CutLoose => CutLoose'
    <3>1. mover' = [mover EXCEPT ![m] = [NoMove EXCEPT !.pc = "done"]]
      BY DEF Commits
    <3> QED BY <2>1, <3>1, <1>7, NoMoveIs, LooseStays
  <2> QED BY <2>1, <2>2, <1>7 DEF KeepsSteady, Steady, Cut
<1> HIDE DEF n, t
<1>9. /\ \A i \in Nodes : presence[i] = "live" /\ t \in strays /\ n \in Above(parentOf, i) => i \in strays'
      /\ \A i \in Nodes : i \in strays' /\ i \notin strays => t \in strays /\ n \in Above(parentOf, i)
  BY <1>5, <1>6
<1> QED BY <1>1, <1>2, <1>3, <1>4, <1>7, <1>8, <1>9 DEF n, t

\* Where a row below the moved one is steady after the move, so were both ends.
LEMMA CommitSteady ==
    ASSUME TreeInv, NEW m \in Movers, Commits(m), NEW i \in Nodes, presence[i] = "live",
           mover[m].self \in Above(parentOf, i), Steady(i)'
    PROVE  /\ Steady(mover[m].self) /\ Steady(mover[m].to)
           /\ mover[m].self \notin Above(parentOf, mover[m].to)
           /\ RootIn(parentOf, i) = RootIn(parentOf, mover[m].self)
<1> DEFINE n == mover[m].self
           t == mover[m].to
<1>1. UNCHANGED deleter /\ At(m, "commit") /\ CommitInv(m)
  BY MoveFacts DEF Commits
<1>2. Cut => i \notin strays /\ i \notin strays'
  BY <1>1, CommitFacts DEF Steady, Cut
<1>3. Steady(n)
  BY <1>2 DEF Steady, TreeInv, ForestInv, StraysBelow
<1>4. Steady(t)
  BY <1>2, CommitFacts DEF Steady
<1>5. n \notin Above(parentOf, t)
  BY <1>1, <1>3, <1>4 DEF CommitInv
<1>6. RootIn(parentOf, i) = RootIn(parentOf, n)
  BY TreeFacts, RootOfAbove
<1> QED BY <1>3, <1>4, <1>5, <1>6

\* A commit within an org leaves everybody's root; an adoption changes that of the adopted row.
LEMMA CommitRoots ==
    ASSUME TreeInv, NEW m \in Movers, Commits(m), NEW i \in Nodes, presence[i] = "live", Steady(i)',
           mover[m].self \in Above(parentOf, i) => ~mover[m].adopts
    PROVE  RootIn(parentOf', i) = RootIn(parentOf, i)
<1> DEFINE n == mover[m].self
           t == mover[m].to
<1>0. n \in Nodes /\ t \in Nodes /\ parentOf \in Forests /\ parentOf' \in Forests
      /\ parentOf'[n] = t /\ \A x \in Nodes : x # n => parentOf'[x] = parentOf[x]
  BY CommitFacts, TreeFacts
<1>1. CASE n \notin Above(parentOf, i)
  <2>1. \A x \in Above(parentOf, i) : parentOf'[x] = parentOf[x]
    BY <1>0, <1>1, CommitFacts, AboveIsLeast
  <2> QED BY <1>0, <2>1, RootAgrees
<1>2. CASE n \in Above(parentOf, i)
  <2>1. Steady(n) /\ Steady(t) /\ n \notin Above(parentOf, t) /\ RootIn(parentOf, i) = RootIn(parentOf, n)
    BY <1>2, CommitSteady
  <2>2. RootIn(parentOf, n) = mover[m].selfRoot /\ RootIn(parentOf, t) = mover[m].selfRoot
    BY <1>2, <2>1, MoveFacts DEF CheckedInv, DecidedInv, Checked, Decided, Commits, At
  <2>3. RootIn(parentOf', i) = RootIn(parentOf, t)
    <3> HIDE DEF n, t
    <3> QED BY <1>0, <1>2, <2>1, RootMoves
  <2> QED BY <2>1, <2>2, <2>3
<1> QED BY <1>1, <1>2

\* A commit keeps the shape of the forest.
LEMMA CommitForest ==
    ASSUME TreeInv, NEW m \in Movers, Commits(m)
    PROVE  TreeTypes' /\ DeleteInv' /\ ForestInv'
<1> DEFINE n == mover[m].self
           t == mover[m].to
<1>0. /\ n \in Nodes /\ t \in Nodes /\ n # t /\ presence[n] = "live" /\ presence[t] = "live" /\ Exists(t)
      /\ parentOf \in Forests /\ parentOf' \in Forests
      /\ parentOf'[n] = t /\ \A x \in Nodes : x # n => parentOf'[x] = parentOf[x]
      /\ strays \subseteq strays' /\ strays' \subseteq Nodes /\ KeepsSteady
      /\ CheckedInv(m) /\ DecidedInv(m) /\ CommitInv(m) /\ At(m, "commit")
      /\ UNCHANGED <<presence, deleter, maker>>
  BY CommitFacts, TreeFacts, MoveFacts DEF Commits
<1>1. TreeTypes'
  <2>1. mover' \in [Movers -> MoveRecords]
    <3>1. mover' = [mover EXCEPT ![m] = [NoMove EXCEPT !.pc = "done"]]
      BY DEF Commits
    <3> QED BY <3>1, NoMoveIs, MoveFacts
  <2>2. rowLock' \in [Nodes -> Movers \union {NoNode}]
    BY ReleaseIs DEF Commits
  <2>3. orgTok' \in [OrgTokens -> TokenRecords]
    <3>1. mover[m].toRoot \in Nodes \union {NoNode}
      BY MoveFacts DEF MoveRecords
    <3>2. ASSUME NEW k \in OrgTokens
          PROVE  orgTok[k] \in TokenRecords /\ [orgTok[k] EXCEPT !.org = mover[m].toRoot] \in TokenRecords
      BY <3>1 DEF TreeInv, TreeTypes, TokenRecords
    <3>3. orgTok' = [k \in OrgTokens |->
                       IF k \in Migrates(m) THEN [orgTok[k] EXCEPT !.org = mover[m].toRoot] ELSE orgTok[k]]
      BY DEF Commits
    <3> QED BY <3>2, <3>3
  <2> QED BY <1>0, <2>1, <2>2, <2>3 DEF TreeInv, TreeTypes, Forests
<1>2. DeleteInv'
  BY <1>0 DEF TreeInv, DeleteInv
<1>3. HangOnRows'
  BY <1>0 DEF TreeInv, ForestInv, HangOnRows, Exists
<1>4. StraysBelow'
  <2> SUFFICES ASSUME NEW i \in Nodes, presence[i] = "live", NEW a \in Above(parentOf', i),
                      presence[a] = "removed" \/ a \in strays'
               PROVE  i \in strays'
    BY <1>0 DEF StraysBelow
  <2>1. \A j \in Nodes : presence[j] = "live" =>
           \A b \in Above(parentOf, j) : presence[b] = "removed" \/ b \in strays => j \in strays
    BY DEF TreeInv, ForestInv, StraysBelow
  <2>2. a \in Nodes
    BY <1>0, AboveIsLeast
  <2>3. t \in strays /\ n \in Above(parentOf, i) => i \in strays'
    BY CommitFacts
  <2>4. a \in strays' /\ a \notin strays => t \in strays /\ n \in Above(parentOf, a)
    BY <2>2, CommitFacts
  <2>5. CASE a \in Above(parentOf, i)
    <3>1. Above(parentOf, a) \subseteq Above(parentOf, i)
      BY <1>0, <2>5, AboveTrans
    <3> QED BY <2>1, <2>3, <2>4, <2>5, <3>1, <1>0
  <2>6. CASE a \notin Above(parentOf, i)
    <3>1. n \in Above(parentOf, i) /\ a \in Above(parentOf, t)
      <4> HIDE DEF n, t
      <4>1. /\ n \notin Above(parentOf, i) => Above(parentOf', i) = Above(parentOf, i)
            /\ Above(parentOf', i) \subseteq Above(parentOf, i) \union Above(parentOf, t)
        BY <1>0, AboveMoves
      <4> QED BY <2>6, <4>1
    <3>2. t \in strays
      BY <1>0, <2>1, <2>4, <3>1
    <3> QED BY <2>3, <3>1, <3>2
  <2> QED BY <2>5, <2>6
<1>5. OneTree'
  <2> SUFFICES ASSUME ~Cut, NEW i \in deleter.ids, NEW j \in deleter.ids
               PROVE  RootIn(parentOf', i) = RootIn(parentOf', j)
    BY <1>0 DEF OneTree, Cut
  <2>1. i \in Nodes /\ j \in Nodes /\ RootIn(parentOf, i) = RootIn(parentOf, j)
    BY DEF TreeInv, TreeTypes, ForestInv, OneTree
  <2>2. Steady(n) /\ Steady(t)
    BY DEF Steady
  <2>3. n \notin Above(parentOf, t)
    BY <1>0, <2>2 DEF CommitInv
  <2>4. \A x \in Nodes : RootIn(parentOf', x) = IF n \in Above(parentOf, x) THEN RootIn(parentOf, t)
                                                ELSE RootIn(parentOf, x)
    <3> HIDE DEF n, t
    <3> QED BY <1>0, <2>3, RootMoves
  <2>5. CASE mover[m].adopts
    <3>1. parentOf[n] = NoNode
      BY <1>0, <2>5 DEF DecidedInv, Decided, At
    <3>2. \A x \in Nodes : n \in Above(parentOf, x) <=> RootIn(parentOf, x) = n
      BY <1>0, <3>1, RootIs
    <3> QED BY <2>1, <2>4, <3>2
  <2>6. CASE ~mover[m].adopts
    <3>1. RootIn(parentOf, t) = RootIn(parentOf, n)
      BY <1>0, <2>2, <2>6 DEF CheckedInv, DecidedInv, Checked, Decided, At
    <3>2. \A x \in Nodes : n \in Above(parentOf, x) => RootIn(parentOf, n) = RootIn(parentOf, x)
      BY <1>0, RootOfAbove
    <3> QED BY <2>1, <2>4, <3>1, <3>2
  <2> QED BY <2>5, <2>6
<1>6. ChainsEnd'
  <2> SUFFICES ASSUME ~CutLoose', NEW i \in Nodes, Exists(i)
               PROVE  RootIn(parentOf', i) # NoNode
    <3>1. UNCHANGED presence /\ NoNode \notin Nodes
      BY <1>0, TreeFacts
    <3>2. \A i \in Nodes : Exists(i)' <=> Exists(i)
      BY <3>1 DEF Exists
    <3>3. \A i \in Nodes : Exists(i) => orgRootID(i)' = RootIn(parentOf', i)
      BY <3>1, <3>2 DEF orgRootID, reparentOrgRoot
    <3> QED BY <3>2, <3>3 DEF ChainsEnd
  <2>1. ~CutLoose /\ n \notin Above(parentOf, t)
    BY <1>0 DEF KeepsSteady, CommitInv
  <2>2. \A x \in Nodes : Exists(x) => RootIn(parentOf, x) # NoNode
    BY <2>1, TreeFacts DEF TreeInv, ForestInv, ChainsEnd, orgRootID
  <2> HIDE DEF n, t
  <2>3. RootIn(parentOf', i) = IF n \in Above(parentOf, i) THEN RootIn(parentOf, t) ELSE RootIn(parentOf, i)
    BY <1>0, <2>1, RootMoves
  <2> QED BY <1>0, <2>2, <2>3
<1>7. LocksOnRows'
  BY <1>0, ReleaseIs DEF LocksOnRows, Commits, Exists
<1> QED BY <1>1, <1>2, <1>3, <1>4, <1>5, <1>6, <1>7 DEF ForestInv
\* An adoption moves nobody that another call has locked, unless the purge has cut it loose.
LEMMA AdoptionSpares ==
    ASSUME TreeInv, NEW m \in Movers, Commits(m), mover[m].adopts, NEW i \in Nodes, presence[i] = "live",
           i # mover[m].self, mover[m].self \in Above(parentOf, i), Steady(i)'
    PROVE  /\ ~Cut /\ RootIn(parentOf, i) = mover[m].self
           /\ \E c \in deleter.ids : RootIn(parentOf, c) = mover[m].self
<1> DEFINE n == mover[m].self
<1>0. /\ n \in Nodes /\ parentOf[n] = NoNode /\ Children(n) = {} /\ Steady(i) /\ parentOf \in Forests
  BY CommitFacts, MoveFacts, TreeFacts DEF Commits, DecidedInv, Decided, At, KeepsSteady
<1>1. i \in strays /\ \E c \in Above(parentOf, i) : c \in deleter.ids /\ RootIn(parentOf, c) = RootIn(parentOf, i)
  BY <1>0, ChildlessAbove
<1>2. RootIn(parentOf, i) = n
  BY <1>0, RootIs
<1> QED BY <1>0, <1>1, <1>2 DEF Steady

\* A commit of one move spares the rows another has locked.
LEMMA CommitLeavesRows ==
    ASSUME TreeInv, NEW m \in Movers, Commits(m), NEW k \in Movers, k # m
    PROVE  KeepsRows(k)
<1> DEFINE n == mover[m].self
           t == mover[m].to
<1>0. /\ n \in Nodes /\ t \in Nodes /\ rowLock[n] = m /\ rowLock[t] = m /\ parentOf'[n] = t
      /\ \A x \in Nodes : x # n => parentOf'[x] = parentOf[x]
      /\ UNCHANGED <<presence, deleter>>
  BY CommitFacts DEF Commits
<1>1. \A x \in Nodes : rowLock'[x] = k <=> rowLock[x] = k
  BY ReleaseIs DEF Commits
<1>2. ASSUME NEW x \in Nodes, rowLock[x] = k
      PROVE  presence'[x] = presence[x] /\ parentOf'[x] = parentOf[x] /\ Children(x)' \subseteq Children(x)
  BY <1>0, <1>2 DEF Children
<1>3. \A x \in Nodes : (Exists(x)' <=> Exists(x)) /\ (Gone(x)' <=> Gone(x))
  BY <1>0 DEF Exists, Gone
<1> QED BY <1>1, <1>2, <1>3 DEF KeepsRows

\* And their roots; two moves whose commits would close a cycle share a locked root.
LEMMA CommitLeavesRoots ==
    ASSUME TreeInv, NEW m \in Movers, Commits(m), NEW k \in Movers, k # m
    PROVE  KeepsRoots(k)
<1> DEFINE n == mover[m].self
           t == mover[m].to
           s == mover[k].self
           u == mover[k].to
           rm == mover[m].selfRoot
           rk == mover[k].selfRoot
<1>0. /\ n \in Nodes /\ t \in Nodes /\ presence[t] = "live" /\ rowLock[n] = m /\ rowLock[t] = m
      /\ CheckedInv(m) /\ DecidedInv(m) /\ CheckedInv(k) /\ DecidedInv(k) /\ Checked(m) /\ Decided(m)
      /\ rm \in Nodes \union {NoNode} /\ rk \in Nodes \union {NoNode} /\ NoNode \notin Nodes
      /\ parentOf \in Forests /\ parentOf' \in Forests /\ KeepsSteady /\ UNCHANGED deleter
      /\ mover[m].adopts \in BOOLEAN /\ mover[k].adopts \in BOOLEAN
      /\ mover'[k] = mover[k]
  <2>1. mover'[k] = mover[k]
    BY MoveFacts DEF Commits
  <2> QED BY <2>1, CommitFacts, MoveFacts, TreeFacts DEF Commits, Checked, Decided, At, MoveRecords
<1>1. Checked(k) => /\ s \in Nodes /\ u \in Nodes /\ presence[s] = "live" /\ presence[u] = "live"
                    /\ rowLock[s] = k /\ rowLock[u] = k /\ s # n /\ u # n /\ s # t /\ u # t
                    /\ Steady(s) => RootIn(parentOf, s) = rk /\ (rk # NoNode => rowLock[rk] = k)
  BY <1>0 DEF CheckedInv
<1>2. ASSUME Checked(k), Steady(s)' PROVE RootIn(parentOf', s) = RootIn(parentOf, s)
  <2>1. n \in Above(parentOf, s) => ~mover[m].adopts
    <3> SUFFICES ASSUME n \in Above(parentOf, s), mover[m].adopts PROVE FALSE
      OBVIOUS
    <3>1. RootIn(parentOf, s) = n
      BY <1>0, <1>1, <1>2, AdoptionSpares
    <3>2. Steady(s)
      BY <1>0, <1>1, <1>2 DEF KeepsSteady
    <3> QED BY <1>0, <1>1, <1>2, <3>1, <3>2
  <2> QED BY <1>0, <1>1, <1>2, <2>1, CommitRoots
<1>3. ASSUME Decided(k), ~mover[k].adopts, Steady(u)' PROVE RootIn(parentOf', u) = RootIn(parentOf, u)
  <2>0. Checked(k) /\ Steady(u)
    BY <1>0, <1>1, <1>3 DEF Checked, Decided, KeepsSteady
  <2>1. n \in Above(parentOf, u) => ~mover[m].adopts
    <3> SUFFICES ASSUME n \in Above(parentOf, u), mover[m].adopts PROVE FALSE
      OBVIOUS
    <3>1. ~Cut /\ RootIn(parentOf, u) = n
      BY <1>0, <1>1, <1>3, <2>0, AdoptionSpares
    <3>2. Steady(s)
      BY <3>1 DEF Steady
    <3>3. RootIn(parentOf, u) = rk
      BY <1>0, <1>3, <2>0 DEF DecidedInv
    <3> QED BY <1>0, <1>1, <2>0, <3>1, <3>2, <3>3
  <2> QED BY <1>0, <1>1, <1>3, <2>0, <2>1, CommitRoots
<1>4. ASSUME At(k, "commit"), ~CutLoose' \/ (Steady(s)' /\ Steady(u)'), s \in Above(parentOf', u),
             s \notin Above(parentOf, u)
      PROVE  FALSE
  <2>1. Checked(k) /\ Decided(k)
    BY <1>4 DEF Checked, Decided, At
  <2>2. Steady(s)' /\ Steady(u)'
    <3> SUFFICES ASSUME ~CutLoose' PROVE Steady(s)' /\ Steady(u)'
      BY <1>4
    <3>1. mover'[m].pc = "done" /\ mover'[k].pc = "commit"
      BY <1>4, MoveFacts, NoMoveIs DEF Commits, At
    <3>2. ~Cut' \/ strays' = {}
      BY <3>1 DEF CutLoose, Cut, At
    <3> QED BY <3>2 DEF Steady
  <2>3. Steady(s) /\ Steady(u)
    BY <1>0, <1>1, <2>1, <2>2 DEF KeepsSteady
  <2>4. n \in Above(parentOf, u) /\ s \in Above(parentOf, t)
    <3>1. parentOf'[n] = t /\ \A x \in Nodes : x # n => parentOf'[x] = parentOf[x]
      BY CommitFacts
    <3>2. /\ n \notin Above(parentOf, u) => Above(parentOf', u) = Above(parentOf, u)
          /\ Above(parentOf', u) \subseteq Above(parentOf, u) \union Above(parentOf, t)
      <4> HIDE DEF n, t, u
      <4> QED BY <1>0, <1>1, <2>1, <3>1, AboveMoves
    <3> QED BY <1>4, <3>2
  <2>5. Steady(n) /\ Steady(t) /\ RootIn(parentOf, u) = RootIn(parentOf, n)
    BY <1>0, <1>1, <2>1, <2>2, <2>4, CommitSteady
  <2>6. RootIn(parentOf, s) = RootIn(parentOf, t)
    BY <1>0, <2>4, RootOfAbove
  <2>7. /\ RootIn(parentOf, n) = rm /\ rm \in Nodes /\ rowLock[rm] = m
        /\ RootIn(parentOf, s) = rk /\ rk \in Nodes /\ rowLock[rk] = k
    BY <1>0, <1>1, <2>1, <2>3, <2>5 DEF CheckedInv, DecidedInv
  <2>8. rm # rk
    BY <2>7
  <2>9. CASE ~mover[m].adopts
    <3>1. RootIn(parentOf, t) = rm
      BY <1>0, <2>5, <2>9 DEF DecidedInv
    <3> QED BY <2>6, <2>7, <2>8, <3>1
  <2>10. CASE ~mover[k].adopts
    <3>1. RootIn(parentOf, u) = rk
      BY <1>0, <2>1, <2>3, <2>10 DEF DecidedInv
    <3> QED BY <2>5, <2>7, <2>8, <3>1
  <2>11. CASE mover[m].adopts /\ mover[k].adopts
    <3>1. ~Cut /\ \E c \in deleter.ids : RootIn(parentOf, c) = n
      BY <1>0, <1>1, <2>1, <2>2, <2>4, <2>11, AdoptionSpares
    <3>2. Children(s) = {} /\ parentOf[s] = NoNode /\ parentOf[n] = NoNode
      BY <1>0, <2>1, <2>11 DEF DecidedInv
    <3>3. \E c \in deleter.ids : RootIn(parentOf, c) = RootIn(parentOf, t)
      BY <1>0, <1>1, <2>1, <2>4, <3>2, ChildlessAbove
    <3>4. RootIn(parentOf, t) = n
      BY <2>6, <3>1, <3>3 DEF TreeInv, ForestInv, OneTree
    <3>5. RootIn(parentOf, n) = n
      BY <1>0, <3>2, RootOfRoot
    <3> QED BY <2>6, <2>7, <2>8, <3>4, <3>5
  <2> QED BY <1>0, <2>9, <2>10, <2>11
<1> QED BY <1>2, <1>3, <1>4 DEF KeepsRoots
\* What the invariant says of one token.
LEMMA TokenFacts ==
    ASSUME TreeInv, NEW k \in OrgTokens
    PROVE  /\ orgTok[k] \in TokenRecords /\ orgTok[k].org \in Nodes \union {NoNode}
           /\ orgTok[k].phase = "live" /\ orgTok[k].org # NoNode => Exists(orgTok[k].org)
           /\ orgTok[k].phase = "counted" =>
                 orgTok[k].org \in Nodes /\ (Exists(orgTok[k].org) \/ Gone(orgTok[k].org))
           /\ k \notin lateMints /\ orgTok[k].phase \in {"counted", "live"} /\ orgTok[k].org # NoNode =>
                 parentOf[orgTok[k].org] = NoNode
  BY DEF TreeInv, TreeTypes, AnchorInv, TokenRecords

\* A migrated token stands at the root of the adopting org.
LEMMA CommitAnchors ==
    ASSUME TreeInv, NEW m \in Movers, Commits(m)
    PROVE  AnchorInv'
<1> DEFINE n == mover[m].self
           new == mover[m].toRoot
<1>0. /\ n \in Nodes /\ NoNode \notin Nodes /\ new \in Nodes /\ mover[m].adopts \in BOOLEAN
      /\ \A x \in Nodes : x # n => parentOf'[x] = parentOf[x]
      /\ rowLock[new] = m => parentOf[new] = NoNode
      /\ mover[m].adopts => new # n
      /\ ~mover[m].adopts => parentOf[n] # NoNode
  BY CommitFacts, MoveFacts, TreeFacts DEF Commits, DecidedInv, CommitInv, Decided, At, MoveRecords
<1>1. \A x \in Nodes : (Exists(x)' <=> Exists(x)) /\ (Gone(x)' <=> Gone(x))
  BY DEF Commits, Exists, Gone
<1> SUFFICES ASSUME NEW k \in OrgTokens
             PROVE  LET o == orgTok'[k].org
                        p == orgTok'[k].phase
                    IN /\ p = "live" /\ o # NoNode => o \in Nodes /\ Exists(o)
                       /\ p = "counted" => o \in Nodes /\ (Exists(o) \/ Gone(o))
                       /\ k \notin lateMints' /\ p \in {"counted", "live"} /\ o # NoNode => parentOf'[o] = NoNode
  BY <1>1 DEF AnchorInv
<1>2. CASE k \in Migrates(m)
  <2>1. mover[m].adopts /\ orgTok[k].phase = "live" /\ orgTok[k].org = n /\ Exists(new)
    BY <1>2 DEF Migrates, Commits
  <2>2. orgTok'[k].org = new /\ orgTok'[k].phase = "live"
    <3>1. orgTok'[k] = [orgTok[k] EXCEPT !.org = new]
      BY <1>2 DEF Commits
    <3>2. orgTok[k] \in TokenRecords
      BY TokenFacts
    <3> QED BY <2>1, <3>1, <3>2 DEF TokenRecords
  <2>3. k \notin lateMints' => rowLock[new] = m
    BY <2>1 DEF Commits
  <2> QED BY <1>0, <2>1, <2>2, <2>3
<1>3. CASE k \notin Migrates(m)
  <2>1. orgTok'[k] = orgTok[k]
    BY <1>3 DEF Commits
  <2>2. ASSUME k \notin lateMints', orgTok[k].phase \in {"counted", "live"}, orgTok[k].org # NoNode
        PROVE  parentOf'[orgTok[k].org] = NoNode
    <3>1. k \notin lateMints
      BY <2>2 DEF Commits
    <3>2. parentOf[orgTok[k].org] = NoNode /\ orgTok[k].org \in Nodes
      BY <2>2, <3>1, TokenFacts
    <3>3. orgTok[k].org # n
      BY <1>0, <1>3, <2>2, <3>2 DEF Migrates, Commits
    <3> QED BY <1>0, <3>2, <3>3
  <2> QED BY <2>1, <2>2, TokenFacts
<1> QED BY <1>2, <1>3

\* MoveCommits keeps the invariant.
LEMMA MoveCommitKeeps ==
    ASSUME TreeInv, NEW m \in Movers, MoveCommits(m)
    PROVE  TreeInv'
<1>1. CASE Refuse(m) /\ UNCHANGED MoverKeeps
  BY <1>1, RefuseKeeps
<1>2. CASE Commits(m)
  <2>1. mover'[m].pc = "done" /\ \A k \in Movers \ {m} : mover'[k] = mover[k]
    BY <1>2, MoveFacts, NoMoveIs DEF Commits
  <2>2. MoveInv(m)'
    BY <2>1, EndedMove
  <2>3. ASSUME NEW k \in Movers, k # m PROVE MoveInv(k)'
    <3>1. KeepsRows(k) /\ KeepsRoots(k) /\ KeepsSteady
      BY <1>2, <2>3, CommitLeavesRows, CommitLeavesRoots, CommitFacts
    <3> QED BY <2>1, <2>3, <3>1, MoveStays
  <2> QED BY <1>2, <2>2, <2>3, CommitForest, CommitAnchors DEF TreeInv
<1> QED BY <1>1, <1>2, CommitIs
(***************************************************************************)
(* The steps of a delete.                                                  *)
(***************************************************************************)
LEMMA MovesStay ==
    ASSUME TreeInv, UNCHANGED mover, KeepsSteady, \A m \in Movers : KeepsRows(m) /\ KeepsRoots(m)
    PROVE  \A m \in Movers : MoveInv(m)'
  BY MoveStays

\* Who writes no parent leaves the roots.
LEMMA SameParents ==
    ASSUME UNCHANGED <<parentOf, mover>>, NEW m \in Movers
    PROVE  KeepsRoots(m)
  BY DEF KeepsRoots

\* Who writes neither rows nor locks leaves the forest.
LEMMA SameForest ==
    ASSUME TreeInv, UNCHANGED <<parentOf, presence, rowLock, strays>>, KeepsSteady, OneTree'
    PROVE  ForestInv'
<1>1. \A n \in Nodes : (Exists(n)' <=> Exists(n)) /\ orgRootID(n)' = orgRootID(n)
  BY DEF Exists, orgRootID, reparentOrgRoot
<1>2. HangOnRows' /\ StraysBelow' /\ LocksOnRows'
  BY DEF TreeInv, ForestInv, HangOnRows, StraysBelow, LocksOnRows, Exists
<1>3. ChainsEnd'
  BY <1>1 DEF TreeInv, ForestInv, ChainsEnd, KeepsSteady
<1> QED BY <1>2, <1>3 DEF ForestInv

\* Before the purge has cut anything off, all is steady.
LEMMA EarlyIsSteady ==
    ASSUME deleter.pc \notin {"purge", "done"} \/ ~deleter.purge,
           deleter'.pc \notin {"purge", "done"} \/ ~deleter'.purge
    PROVE  KeepsSteady /\ ~Cut /\ ~CutLoose /\ ~Cut' /\ ~CutLoose'
  BY DEF KeepsSteady, Steady, Cut, CutLoose

\* What the invariant says of the delete.
LEMMA DeleterFacts ==
    ASSUME TreeInv
    PROVE  /\ deleter \in [pc : {"idle", "collect", "mark", "orphan", "purge", "done"},
                           of : Nodes \union {NoNode}, ids : SUBSET Nodes, purge : BOOLEAN]
           /\ deleter.ids \subseteq Nodes /\ deleter.purge \in BOOLEAN /\ DeleteInv
  BY DEF TreeInv, TreeTypes

\* What only the deleter's own record shows.
LEMMA DeleterQuiet ==
    ASSUME TreeInv, UNCHANGED <<parentOf, presence, rowLock, mover, maker, orgTok, lateMints, strays>>,
           deleter' \in [pc : {"idle", "collect", "mark", "orphan", "purge", "done"},
                         of : Nodes \union {NoNode}, ids : SUBSET Nodes, purge : BOOLEAN],
           deleter.ids = {}, KeepsSteady, OneTree', DeleteInv'
    PROVE  TreeInv'
<1>1. TreeTypes'
  BY DEF TreeInv, TreeTypes
<1>2. \A n \in Nodes : ~Gone(n) /\ (Exists(n)' <=> Exists(n))
  BY DEF Gone, Exists
<1>3. AnchorInv'
  BY <1>2, TokenFacts DEF AnchorInv
<1>4. \A m \in Movers : KeepsRows(m) /\ KeepsRoots(m)
  BY <1>2, SameParents DEF KeepsRows, Children
<1> QED BY <1>1, <1>3, <1>4, MovesStay, SameForest DEF TreeInv

\* DeleteBegins.
LEMMA DeleteBeginsKeeps ==
    ASSUME TreeInv, DeleteBegins
    PROVE  TreeInv'
<1>1. PICK n \in Nodes, purge \in BOOLEAN :
         presence[n] = "live" /\ deleter' = [pc |-> "collect", of |-> n, ids |-> {}, purge |-> purge]
  BY DEF DeleteBegins
<1>2. deleter.ids = {} /\ deleter.pc = "idle" /\ DeleteInv
  BY DeleterFacts DEF DeleteInv, DeleteBegins
<1>3. UNCHANGED <<parentOf, presence, rowLock, mover, maker, orgTok, lateMints, strays>>
  BY DEF DeleteBegins, DeleterKeeps
<1>4. DeleteInv'
  BY <1>1, <1>2, <1>3 DEF DeleteInv
<1>5. OneTree'
  BY <1>1 DEF OneTree
<1>6. KeepsSteady
  BY <1>1, <1>2, EarlyIsSteady
<1> QED BY <1>1, <1>2, <1>3, <1>4, <1>5, <1>6, DeleterQuiet

\* CascadeCollects: what is collected has one root.
LEMMA CollectsKeeps ==
    ASSUME TreeInv, CascadeCollects
    PROVE  TreeInv'
<1> DEFINE of == deleter.of
           ids == {of} \union Below(of)
<1>1. /\ deleter.ids = {} /\ deleter.pc = "collect" /\ DeleteInv /\ of \in Nodes /\ presence[of] = "live"
      /\ parentOf \in Forests
  BY DeleterFacts, TreeFacts DEF DeleteInv, CascadeCollects
<1>2. deleter' = [deleter EXCEPT !.pc = "mark", !.ids = ids]
  BY DEF CascadeCollects
<1>3. UNCHANGED <<parentOf, presence, rowLock, mover, maker, orgTok, lateMints, strays>>
  BY DEF CascadeCollects, DeleterKeeps
<1>4. \A i \in ids : i \in Nodes /\ presence[i] = "live" /\ RootIn(parentOf, i) = RootIn(parentOf, of)
  BY <1>1, BelowIs, RootOfAbove
<1> HIDE DEF ids
<1>5. /\ deleter' \in [pc : {"idle", "collect", "mark", "orphan", "purge", "done"},
                       of : Nodes \union {NoNode}, ids : SUBSET Nodes, purge : BOOLEAN]
      /\ deleter'.pc = "mark" /\ deleter'.ids = ids
  <2>1. ids \in SUBSET Nodes
    BY <1>4
  <2> QED BY <1>2, <2>1, DeleterFacts
<1>6. DeleteInv'
  BY <1>1, <1>3, <1>4, <1>5 DEF DeleteInv
<1>7. OneTree'
  BY <1>3, <1>4, <1>5 DEF OneTree
<1>8. KeepsSteady
  BY <1>1, <1>5, EarlyIsSteady
<1> QED BY <1>1, <1>3, <1>5, <1>6, <1>7, <1>8, DeleterQuiet
\* CascadeMarks: a live row below a marked one is a stray.
LEMMA MarksKeeps ==
    ASSUME TreeInv, CascadeMarks
    PROVE  TreeInv'
<1> DEFINE ids == deleter.ids
<1>0. /\ deleter.pc = "mark" /\ Unlocked(ids) /\ ids \in SUBSET Nodes /\ DeleteInv
      /\ \A n \in ids : presence[n] = "live" /\ n \in Nodes
      /\ \A n \in Nodes : presence[n] # "removed"
      /\ parentOf \in Forests /\ NoNode \notin Nodes /\ deleter.purge \in BOOLEAN
  BY DeleterFacts, TreeFacts DEF DeleteInv, CascadeMarks
<1>1. UNCHANGED <<parentOf, rowLock, mover, maker, orgTok, lateMints>>
  BY DEF CascadeMarks, DeleterKeeps
<1>2. /\ deleter'.pc = (IF deleter.purge THEN "orphan" ELSE "done") /\ deleter'.ids = ids
      /\ deleter'.purge = deleter.purge
      /\ deleter' \in [pc : {"idle", "collect", "mark", "orphan", "purge", "done"},
                       of : Nodes \union {NoNode}, ids : SUBSET Nodes, purge : BOOLEAN]
  BY DeleterFacts DEF CascadeMarks
<1>3. KeepsSteady /\ ~Cut /\ ~CutLoose /\ ~Cut' /\ ~CutLoose'
  BY <1>0, <1>2, EarlyIsSteady
<1>4. /\ presence \in [Nodes -> {"absent", "live", "removed"}]
      /\ presence' = [n \in Nodes |-> IF n \in ids THEN "removed" ELSE presence[n]]
      /\ strays' = strays \union {n \in Nodes \ ids : presence[n] = "live" /\ \E i \in ids : isAncestorOf(i, n)}
      /\ strays \subseteq Nodes
  BY DEF CascadeMarks, TreeInv, TreeTypes
<1>5. \A n \in Nodes : (Exists(n)' <=> Exists(n)) /\ (Gone(n)' <=> Gone(n))
  BY <1>0, <1>2, <1>4 DEF Exists, Gone
<1>6. TreeTypes'
  <2>1. presence' \in [Nodes -> {"absent", "live", "removed"}] /\ strays' \subseteq Nodes
    BY <1>4
  <2> QED BY <1>1, <1>2, <2>1 DEF TreeInv, TreeTypes
<1>7. DeleteInv'
  BY <1>0, <1>1, <1>2, <1>4 DEF DeleteInv
<1>8. HangOnRows' /\ LocksOnRows'
  <2>1. \A n \in Nodes : Exists(n) /\ parentOf[n] # NoNode => Exists(parentOf[n]) /\ parentOf[n] \in Nodes
    BY <1>0 DEF TreeInv, ForestInv, HangOnRows, Forests
  <2> QED BY <1>1, <1>5, <2>1 DEF TreeInv, ForestInv, HangOnRows, LocksOnRows
<1>9. StraysBelow'
  <2> SUFFICES ASSUME NEW n \in Nodes, presence'[n] = "live", NEW a \in Above(parentOf, n),
                      presence'[a] = "removed" \/ a \in strays'
               PROVE  n \in strays'
    BY <1>1 DEF StraysBelow
  <2>1. n \notin ids /\ presence[n] = "live" /\ a \in Nodes /\ Above(parentOf, a) \subseteq Above(parentOf, n)
    BY <1>0, <1>4, AboveTrans
  <2>2. ASSUME NEW i \in ids, i \in Above(parentOf, n) PROVE n \in strays'
    <3>1. isAncestorOf(i, n)
      BY <1>0, <2>1, <2>2, AncestorIs
    <3> QED BY <1>4, <2>1, <3>1
  <2>3. CASE a \in strays
    BY <1>4, <2>1, <2>3 DEF TreeInv, ForestInv, StraysBelow
  <2>4. CASE a \in ids
    BY <2>2, <2>4
  <2>5. CASE a \notin ids /\ a \notin strays
    <3>1. PICK i \in ids : isAncestorOf(i, a)
      BY <1>0, <1>4, <2>1, <2>5
    <3>2. i \in Above(parentOf, a)
      BY <1>0, <2>1, <3>1, AncestorIs
    <3> QED BY <2>1, <2>2, <3>2
  <2> QED BY <2>3, <2>4, <2>5
<1>10. OneTree'
  BY <1>1, <1>2, <1>3 DEF TreeInv, ForestInv, OneTree
<1>11. ChainsEnd'
  <2>1. \A n \in Nodes : orgRootID(n)' = orgRootID(n)
    BY <1>1, <1>5 DEF orgRootID, reparentOrgRoot
  <2> QED BY <1>3, <1>5, <2>1 DEF TreeInv, ForestInv, ChainsEnd
<1>12. AnchorInv'
  <2> SUFFICES ASSUME NEW k \in OrgTokens
               PROVE  LET o == orgTok[k].org
                          p == orgTok[k].phase
                      IN /\ p = "live" /\ o # NoNode => Exists(o)'
                         /\ p = "counted" => o \in Nodes /\ (Exists(o)' \/ Gone(o)')
                         /\ k \notin lateMints /\ p \in {"counted", "live"} /\ o # NoNode => parentOf[o] = NoNode
    BY <1>1 DEF AnchorInv
  <2> QED BY <1>1, <1>5, TokenFacts
<1>13. ASSUME NEW m \in Movers PROVE KeepsRows(m) /\ KeepsRoots(m)
  <2>1. \A n \in Nodes : rowLock[n] = m => n \notin ids
    BY <1>0, TreeAssumption DEF Unlocked
  <2>2. \A n \in Nodes : Children(n)' \subseteq Children(n)
    BY <1>1, <1>4 DEF Children
  <2>3. \A n \in Nodes : rowLock[n] = m => presence'[n] = presence[n]
    BY <1>4, <2>1
  <2> QED BY <1>1, <1>5, <2>2, <2>3, SameParents DEF KeepsRows
<1> QED BY <1>1, <1>3, <1>6, <1>7, <1>8, <1>9, <1>10, <1>11, <1>12, <1>13, MovesStay DEF TreeInv, ForestInv

\* PurgeOrphans: no row but a stray loses its root.
LEMMA OrphansKeeps ==
    ASSUME TreeInv, PurgeOrphans
    PROVE  TreeInv'
<1> DEFINE ids == deleter.ids
           cut == {n \in Nodes : parentOf[n] \in ids}
<1>0. /\ deleter.pc = "orphan" /\ Unlocked(cut) /\ ids \in SUBSET Nodes /\ DeleteInv /\ deleter.purge
      /\ \A n \in ids : presence[n] = "removed"
      /\ parentOf \in Forests /\ NoNode \notin Nodes
  BY DeleterFacts, TreeFacts DEF DeleteInv, PurgeOrphans
<1>1. UNCHANGED <<presence, rowLock, mover, maker, orgTok, lateMints, strays>>
  BY DEF PurgeOrphans, DeleterKeeps
<1>2. /\ deleter'.pc = "purge" /\ deleter'.ids = ids /\ deleter'.purge
      /\ deleter' \in [pc : {"idle", "collect", "mark", "orphan", "purge", "done"},
                       of : Nodes \union {NoNode}, ids : SUBSET Nodes, purge : BOOLEAN]
  BY <1>0, DeleterFacts DEF PurgeOrphans
<1>3. ~Cut /\ ~CutLoose /\ Cut'
  BY <1>0, <1>2 DEF Cut, CutLoose
<1>4. KeepsSteady
  BY <1>3 DEF KeepsSteady, Steady
<1>5. /\ parentOf' = [n \in Nodes |-> IF n \in cut THEN NoNode ELSE parentOf[n]]
      /\ parentOf' \in Forests
      /\ \A n \in Nodes : parentOf'[n] \in {parentOf[n], NoNode}
      /\ \A n \in Nodes : parentOf[n] \notin ids => parentOf'[n] = parentOf[n]
  BY <1>0 DEF PurgeOrphans, Forests
<1>6. \A n \in Nodes : (Exists(n)' <=> Exists(n)) /\ (Gone(n)' <=> Gone(n))
  BY <1>1, <1>2 DEF Exists, Gone
<1>7. TreeTypes'
  BY <1>1, <1>2, <1>5 DEF TreeInv, TreeTypes, Forests
<1>8. DeleteInv'
  BY <1>0, <1>1, <1>2 DEF DeleteInv
<1>9. HangOnRows' /\ LocksOnRows'
  <2>1. \A n \in Nodes : Exists(n) /\ parentOf[n] # NoNode => Exists(parentOf[n]) /\ parentOf[n] \in Nodes
    BY <1>0 DEF TreeInv, ForestInv, HangOnRows, Forests
  <2>2. HangOnRows'
    BY <1>5, <1>6, <2>1 DEF HangOnRows
  <2> QED BY <1>1, <1>6, <2>2 DEF TreeInv, ForestInv, LocksOnRows
<1>10. \A n \in Nodes : Above(parentOf', n) \subseteq Above(parentOf, n)
  BY <1>0, <1>5, AboveShrinks
<1>11. StraysBelow'
  BY <1>1, <1>10 DEF TreeInv, ForestInv, StraysBelow
<1>12. OneTree'
  BY <1>3 DEF OneTree
<1>13. ChainsEnd'
  <2>1. \A n \in Nodes : Exists(n) => RootIn(parentOf, n) # NoNode
    BY <1>3, TreeFacts DEF TreeInv, ForestInv, ChainsEnd, orgRootID
  <2>2. \A n \in Nodes : Exists(n) => RootIn(parentOf', n) # NoNode
    BY <1>0, <1>5, <2>1, RootShrinks
  <2>3. \A n \in Nodes : Exists(n) => orgRootID(n)' = RootIn(parentOf', n)
    BY <1>0, <1>6 DEF orgRootID, reparentOrgRoot
  <2> QED BY <1>6, <2>2, <2>3 DEF ChainsEnd
<1>14. AnchorInv'
  <2> SUFFICES ASSUME NEW k \in OrgTokens
               PROVE  LET o == orgTok[k].org
                          p == orgTok[k].phase
                      IN /\ p = "live" /\ o # NoNode => Exists(o)'
                         /\ p = "counted" => o \in Nodes /\ (Exists(o)' \/ Gone(o)')
                         /\ k \notin lateMints /\ p \in {"counted", "live"} /\ o # NoNode => parentOf'[o] = NoNode
    BY <1>1 DEF AnchorInv
  <2> QED BY <1>1, <1>5, <1>6, TokenFacts
<1>15. ASSUME NEW n \in Nodes, presence[n] = "live", Steady(n)'
       PROVE  RootIn(parentOf', n) = RootIn(parentOf, n)
  <2>1. n \notin strays
    BY <1>1, <1>3, <1>15 DEF Steady
  <2>2. \A a \in Above(parentOf, n) : a \notin ids
    BY <1>0, <1>15, <2>1 DEF TreeInv, ForestInv, StraysBelow
  <2>3. \A x \in Above(parentOf, n) : parentOf'[x] = parentOf[x]
    <3> SUFFICES ASSUME NEW x \in Above(parentOf, n) PROVE parentOf'[x] = parentOf[x]
      OBVIOUS
    <3>1. x \in Nodes /\ (parentOf[x] # NoNode => parentOf[x] \in Above(parentOf, n))
      BY <1>0, AboveTrans, AboveGoesUp
    <3> QED BY <1>0, <1>5, <2>2, <3>1
  <2> QED BY <1>0, <1>5, <2>3, RootAgrees
<1>16. ASSUME NEW m \in Movers PROVE KeepsRows(m) /\ KeepsRoots(m)
  <2>1. \A n \in Nodes : rowLock[n] = m => n \notin cut
    BY <1>0, TreeAssumption DEF Unlocked
  <2>2. \A n \in Nodes : Children(n)' \subseteq Children(n)
    BY <1>0, <1>1, <1>5 DEF Children
  <2>3. \A n \in Nodes : rowLock[n] = m => parentOf'[n] = parentOf[n]
    BY <1>5, <2>1
  <2>4. KeepsRows(m)
    BY <1>1, <1>6, <2>2, <2>3 DEF KeepsRows
  <2>5. /\ CheckedInv(m) /\ (Decided(m) => Checked(m)) /\ (At(m, "commit") => Checked(m)) /\ mover'[m] = mover[m]
    BY <1>1, MoveFacts DEF Checked, Decided, At
  <2>6. Checked(m) => /\ mover[m].self \in Nodes /\ mover[m].to \in Nodes
                      /\ presence[mover[m].self] = "live" /\ presence[mover[m].to] = "live"
    BY <2>5 DEF CheckedInv
  <2>7. KeepsRoots(m)
    BY <1>10, <1>15, <2>5, <2>6 DEF KeepsRoots
  <2> QED BY <2>4, <2>7
<1> QED BY <1>1, <1>4, <1>7, <1>8, <1>9, <1>11, <1>12, <1>13, <1>14, <1>16, MovesStay DEF TreeInv, ForestInv
\* PurgeRows: no row is left below one that is gone.
LEMMA RowsKeeps ==
    ASSUME TreeInv, PurgeRows
    PROVE  TreeInv'
<1> DEFINE ids == deleter.ids
           held == \E n \in Nodes : Exists(n) /\ parentOf[n] \in ids
<1>0. /\ deleter.pc = "purge" /\ Unlocked(ids) /\ ids \in SUBSET Nodes /\ DeleteInv /\ deleter.purge
      /\ \A n \in ids : presence[n] = "removed"
      /\ parentOf \in Forests /\ NoNode \notin Nodes
  BY DeleterFacts, TreeFacts DEF DeleteInv, PurgeRows
<1>1. UNCHANGED <<parentOf, rowLock, mover, maker, lateMints, strays>>
  BY DEF PurgeRows, DeleterKeeps
<1>2. /\ deleter'.pc = "done" /\ deleter'.ids = ids /\ deleter'.purge
      /\ deleter' \in [pc : {"idle", "collect", "mark", "orphan", "purge", "done"},
                       of : Nodes \union {NoNode}, ids : SUBSET Nodes, purge : BOOLEAN]
  BY <1>0, DeleterFacts DEF PurgeRows
<1>3. Cut /\ Cut' /\ (CutLoose' <=> CutLoose)
  BY <1>0, <1>1, <1>2 DEF Cut, CutLoose, At
<1>4. KeepsSteady
  BY <1>1, <1>3 DEF KeepsSteady, Steady
<1>5. /\ presence \in [Nodes -> {"absent", "live", "removed"}]
      /\ presence' = [n \in Nodes |-> IF ~held /\ n \in ids THEN "absent" ELSE presence[n]]
  BY DEF PurgeRows, TreeInv, TreeTypes
<1>6. \A n \in Nodes : /\ presence'[n] = presence[n] \/ (n \in ids /\ presence'[n] = "absent")
                       /\ held \/ n \notin ids => presence'[n] = presence[n]
                       /\ presence'[n] = "live" <=> presence[n] = "live"
                       /\ presence'[n] = "removed" => presence[n] = "removed"
                       /\ Exists(n)' => Exists(n)
                       /\ Gone(n) => Gone(n)'
                       /\ Exists(n) => Exists(n)' \/ Gone(n)'
  BY <1>0, <1>2, <1>5 DEF Exists, Gone
<1>7. \A k \in OrgTokens :
         /\ orgTok'[k] = IF ~held /\ orgTok[k].phase = "live" /\ orgTok[k].org \in ids
                         THEN [orgTok[k] EXCEPT !.org = NoNode] ELSE orgTok[k]
  BY DEF PurgeRows
<1>8. \A k \in OrgTokens :
         /\ orgTok'[k] \in TokenRecords
         /\ orgTok'[k] = orgTok[k] \/ (orgTok'[k].phase = "live" /\ orgTok'[k].org = NoNode)
         /\ ~held /\ orgTok[k].phase = "live" /\ orgTok[k].org \in ids => orgTok'[k].org = NoNode
  <2> SUFFICES ASSUME NEW k \in OrgTokens
               PROVE  /\ orgTok'[k] \in TokenRecords
                      /\ orgTok'[k] = orgTok[k] \/ (orgTok'[k].phase = "live" /\ orgTok'[k].org = NoNode)
                      /\ ~held /\ orgTok[k].phase = "live" /\ orgTok[k].org \in ids => orgTok'[k].org = NoNode
    OBVIOUS
  <2>1. orgTok[k] \in TokenRecords
    BY TokenFacts
  <2> HIDE DEF held, ids
  <2> QED BY <1>7, <2>1 DEF TokenRecords
<1>9. TreeTypes'
  <2>1. presence' \in [Nodes -> {"absent", "live", "removed"}]
    BY <1>5
  <2>2. orgTok' \in [OrgTokens -> TokenRecords]
    <3>1. DOMAIN orgTok' = OrgTokens /\ orgTok' = [k \in OrgTokens |-> orgTok'[k]]
      BY DEF PurgeRows
    <3> QED BY <1>8, <3>1
  <2> QED BY <1>1, <1>2, <2>1, <2>2 DEF TreeInv, TreeTypes
<1>10. DeleteInv'
  BY <1>0, <1>1, <1>2, <1>6 DEF DeleteInv
<1>11. HangOnRows' /\ LocksOnRows'
  <2>1. ASSUME NEW n \in Nodes, Exists(n)', parentOf[n] # NoNode PROVE Exists(parentOf[n])'
    <3>1. Exists(n) /\ parentOf[n] \in Nodes /\ Exists(parentOf[n])
      BY <1>0, <1>6, <2>1 DEF TreeInv, ForestInv, HangOnRows, Forests
    <3>2. held \/ parentOf[n] \notin ids
      BY <3>1
    <3> HIDE DEF held
    <3> QED BY <1>1, <1>6, <3>1, <3>2 DEF Exists
  <2>2. ASSUME NEW n \in Nodes, rowLock[n] # NoNode PROVE Exists(n)'
    BY <1>0, <1>6, <2>2 DEF Unlocked, TreeInv, ForestInv, LocksOnRows, Exists
  <2> QED BY <1>1, <2>1, <2>2 DEF HangOnRows, LocksOnRows
<1>12. StraysBelow'
  <2>1. \A n \in Nodes : Above(parentOf, n) \subseteq Nodes
    BY <1>0, AboveTrans
  <2> QED BY <1>1, <1>6, <2>1 DEF TreeInv, ForestInv, StraysBelow
<1>13. OneTree'
  BY <1>3 DEF OneTree
<1>14. ChainsEnd'
  <2>1. \A n \in Nodes : Exists(n)' => orgRootID(n)' = orgRootID(n)
    BY <1>0, <1>1, <1>6 DEF orgRootID, reparentOrgRoot
  <2> QED BY <1>3, <1>6, <2>1 DEF TreeInv, ForestInv, ChainsEnd
<1>15. AnchorInv'
  <2> SUFFICES ASSUME NEW k \in OrgTokens
               PROVE  LET o == orgTok'[k].org
                          p == orgTok'[k].phase
                      IN /\ p = "live" /\ o # NoNode => presence'[o] # "absent"
                         /\ p = "counted" => o \in Nodes /\ (presence'[o] # "absent" \/ o \in ids)
                         /\ k \notin lateMints /\ p \in {"counted", "live"} /\ o # NoNode => parentOf[o] = NoNode
    BY <1>1, <1>2 DEF AnchorInv, Exists, Gone
  <2>1. CASE orgTok'[k].phase = "live" /\ orgTok'[k].org = NoNode
    BY <2>1
  <2>2. CASE orgTok'[k] = orgTok[k] /\ ~(orgTok'[k].phase = "live" /\ orgTok'[k].org = NoNode)
    <3>1. orgTok[k].phase = "live" => /\ orgTok[k].org \in Nodes /\ Exists(orgTok[k].org)
                                      /\ held \/ orgTok[k].org \notin ids
      BY <1>8, <2>2, TokenFacts
    <3> HIDE DEF held
    <3>2. orgTok[k].phase = "live" => presence'[orgTok[k].org] # "absent"
      BY <1>6, <3>1 DEF Exists
    <3>3. orgTok[k].phase = "counted" =>
             orgTok[k].org \in Nodes /\ (presence'[orgTok[k].org] # "absent" \/ orgTok[k].org \in ids)
      BY <1>6, TokenFacts DEF Exists, Gone
    <3>4. k \notin lateMints /\ orgTok[k].phase \in {"counted", "live"} /\ orgTok[k].org # NoNode =>
             parentOf[orgTok[k].org] = NoNode
      BY TokenFacts
    <3> QED BY <2>2, <3>2, <3>3, <3>4
  <2> QED BY <1>8, <2>1, <2>2
<1>16. ASSUME NEW m \in Movers PROVE KeepsRows(m) /\ KeepsRoots(m)
  <2>1. \A n \in Nodes : rowLock[n] = m => n \notin ids
    BY <1>0, TreeAssumption DEF Unlocked
  <2>2. \A n \in Nodes : Children(n)' \subseteq Children(n)
    BY <1>1, <1>6 DEF Children
  <2> HIDE DEF held, ids
  <2> QED BY <1>1, <1>6, <2>1, <2>2, SameParents DEF KeepsRows
<1> QED BY <1>1, <1>4, <1>9, <1>10, <1>11, <1>12, <1>13, <1>14, <1>15, <1>16, MovesStay DEF TreeInv, ForestInv

(***************************************************************************)
(* Creates and tokens.                                                     *)
(***************************************************************************)
\* What neither the rows nor the calls on them show.
LEMMA RowsQuiet ==
    ASSUME TreeInv, UNCHANGED <<parentOf, presence, rowLock, mover, deleter, lateMints, strays>>,
           maker' \in [pc : {"idle", "insert", "done"}, parent : Nodes \union {NoNode}],
           maker'.pc = "insert" => maker'.parent \in Nodes,
           orgTok' \in [OrgTokens -> TokenRecords], AnchorInv'
    PROVE  TreeInv'
<1>1. TreeTypes' /\ DeleteInv'
  BY DEF TreeInv, TreeTypes, DeleteInv
<1>2. KeepsSteady
  BY DEF KeepsSteady, Steady, Cut, CutLoose, At
<1>3. OneTree'
  BY DEF TreeInv, ForestInv, OneTree, Cut
<1>4. \A n \in Nodes : (Gone(n)' <=> Gone(n)) /\ (Exists(n)' <=> Exists(n))
  BY DEF Gone, Exists
<1>5. \A m \in Movers : KeepsRows(m) /\ KeepsRoots(m)
  BY <1>4, SameParents DEF KeepsRows, Children
<1> QED BY <1>1, <1>2, <1>3, <1>5, MovesStay, SameForest DEF TreeInv

\* validateCreateParentID reads alone.
LEMMA ParentCheckKeeps ==
    ASSUME TreeInv, validateCreateParentID
    PROVE  TreeInv'
<1>1. /\ maker' \in [pc : {"idle", "insert", "done"}, parent : Nodes \union {NoNode}] /\ maker'.parent \in Nodes
      /\ UNCHANGED <<parentOf, presence, rowLock, mover, deleter, orgTok, lateMints, strays>>
  BY DEF validateCreateParentID
<1>2. AnchorInv' /\ orgTok' \in [OrgTokens -> TokenRecords]
  BY <1>1 DEF TreeInv, TreeTypes, AnchorInv, Exists, Gone
<1> QED BY <1>1, <1>2, RowsQuiet

\* A mint, its insert and a revocation.
LEMMA TokenKeeps ==
    ASSUME TreeInv, NEW k \in OrgTokens, TokenStep(k)
    PROVE  TreeInv'
<1>0. UNCHANGED <<parentOf, presence, rowLock, mover, deleter, maker, lateMints, strays>>
  BY DEF TokenStep, MintCounts, IssueWithExpiry, RevokeOrgToken
<1>1. PICK r \in TokenRecords :
         /\ orgTok' = [orgTok EXCEPT ![k] = r]
         /\ r.phase = "live" /\ r.org # NoNode => Exists(r.org)
         /\ r.phase = "counted" => r.org \in Nodes /\ (Exists(r.org) \/ Gone(r.org))
         /\ k \notin lateMints /\ r.phase \in {"counted", "live"} /\ r.org # NoNode => parentOf[r.org] = NoNode
  <2>1. CASE MintCounts(k)
    <3>1. PICK o \in Nodes : /\ presence[o] = "live" /\ parentOf[o] = NoNode
                             /\ orgTok' = [orgTok EXCEPT ![k] = [phase |-> "counted", org |-> o]]
      BY <2>1 DEF MintCounts
    <3> [phase |-> "counted", org |-> o] \in TokenRecords
      BY DEF TokenRecords
    <3> WITNESS [phase |-> "counted", org |-> o] \in TokenRecords
    <3> QED BY <3>1 DEF TokenRecords, Exists
  <2>2. CASE IssueWithExpiry(k) /\ Exists(orgTok[k].org)
    <3>1. /\ orgTok' = [orgTok EXCEPT ![k] = [phase |-> "live", org |-> orgTok[k].org]]
          /\ orgTok[k].org \in Nodes /\ orgTok[k].phase = "counted"
      BY <2>2, TokenFacts DEF IssueWithExpiry
    <3>2. k \notin lateMints => parentOf[orgTok[k].org] = NoNode
      BY <3>1, TokenFacts, TreeAssumption
    <3> [phase |-> "live", org |-> orgTok[k].org] \in TokenRecords
      BY <3>1 DEF TokenRecords
    <3> WITNESS [phase |-> "live", org |-> orgTok[k].org] \in TokenRecords
    <3> QED BY <2>2, <3>1, <3>2 DEF TokenRecords
  <2>3. CASE (IssueWithExpiry(k) /\ ~Exists(orgTok[k].org)) \/ RevokeOrgToken(k)
    <3>1. orgTok' = [orgTok EXCEPT ![k] = [phase |-> "revoked", org |-> NoNode]]
      BY <2>3 DEF IssueWithExpiry, RevokeOrgToken
    <3> [phase |-> "revoked", org |-> NoNode] \in TokenRecords
      BY DEF TokenRecords
    <3> WITNESS [phase |-> "revoked", org |-> NoNode] \in TokenRecords
    <3> QED BY <3>1 DEF TokenRecords
  <2> QED BY <2>1, <2>2, <2>3 DEF TokenStep
<1>2. orgTok \in [OrgTokens -> TokenRecords]
  BY DEF TreeInv, TreeTypes
<1>3. orgTok' \in [OrgTokens -> TokenRecords] /\ orgTok'[k] = r
      /\ \A j \in OrgTokens : j # k => orgTok'[j] = orgTok[j]
  BY <1>1, <1>2
<1>4. \A n : (Exists(n)' <=> Exists(n)) /\ (Gone(n)' <=> Gone(n))
  BY <1>0 DEF Exists, Gone
<1>5. ASSUME NEW j \in OrgTokens
      PROVE  LET o == orgTok'[j].org
                 p == orgTok'[j].phase
             IN /\ p = "live" /\ o # NoNode => Exists(o)
                /\ p = "counted" => o \in Nodes /\ (Exists(o) \/ Gone(o))
                /\ j \notin lateMints /\ p \in {"counted", "live"} /\ o # NoNode => parentOf[o] = NoNode
  BY <1>1, <1>3, TokenFacts
<1>6. AnchorInv'
  BY <1>0, <1>5 DEF AnchorInv, Exists, Gone
<1> QED BY <1>0, <1>3, <1>6, RowsQuiet DEF TreeInv, TreeTypes, DeleteInv
\* Before the purge has deleted anything, what was collected is there.
LEMMA CollectedExist ==
    ASSUME TreeInv, ~Cut, NEW i \in deleter.ids
    PROVE  i \in Nodes /\ Exists(i)
  BY DeleterFacts DEF DeleteInv, Cut, Exists

\* CreateUnder: the new row joins the root of its parent, and its strays.
LEMMA CreateKeeps ==
    ASSUME TreeInv, CreateUnder
    PROVE  TreeInv'
<1> DEFINE p == maker.parent
<1>0. /\ p \in Nodes /\ rowLock[p] = NoNode /\ parentOf \in Forests /\ NoNode \notin Nodes /\ DeleteInv
      /\ deleter.ids \subseteq Nodes
  BY DeleterFacts, TreeFacts DEF CreateUnder, DeleteInv
<1>1. /\ UNCHANGED <<rowLock, mover, deleter, orgTok, lateMints>>
      /\ maker' = [maker EXCEPT !.pc = "done"]
      /\ maker' \in [pc : {"idle", "insert", "done"}, parent : Nodes \union {NoNode}] /\ maker'.pc = "done"
  BY DEF CreateUnder, TreeInv, TreeTypes
<1>2. CASE UNCHANGED <<presence, parentOf, strays>>
  <2>1. AnchorInv' /\ orgTok' \in [OrgTokens -> TokenRecords]
    BY <1>1, <1>2 DEF TreeInv, TreeTypes, AnchorInv, Exists, Gone
  <2> QED BY <1>1, <1>2, <2>1, RowsQuiet
<1>3. ASSUME Exists(p), NEW n \in Nodes, presence[n] = "absent", n \notin deleter.ids,
             presence' = [presence EXCEPT ![n] = "live"], parentOf' = [parentOf EXCEPT ![n] = p],
             strays' = IF presence[p] = "removed" \/ p \in strays THEN strays \union {n} ELSE strays
      PROVE  TreeInv'
  <2>0. presence \in [Nodes -> {"absent", "live", "removed"}] /\ strays \subseteq Nodes
    BY DEF TreeInv, TreeTypes
  <2>1. /\ presence'[n] = "live" /\ parentOf'[n] = p /\ n # p /\ ~Exists(n) /\ Exists(n)'
        /\ \A x \in Nodes : x # n => presence'[x] = presence[x] /\ parentOf'[x] = parentOf[x]
        /\ presence' \in [Nodes -> {"absent", "live", "removed"}] /\ parentOf' \in Forests
    BY <1>0, <1>3, <2>0 DEF Exists, Forests
  <2>2. \A x \in Nodes : /\ x # n => (Exists(x)' <=> Exists(x)) /\ (Gone(x)' <=> Gone(x))
                         /\ ~Gone(n)
    BY <1>1, <1>3, <2>1 DEF Exists, Gone
  <2>3. /\ strays \subseteq strays' /\ strays' \subseteq strays \union {n} /\ strays' \subseteq Nodes
        /\ presence[p] = "removed" \/ p \in strays => n \in strays'
    BY <1>3, <2>0
  <2>4. KeepsSteady /\ (Cut' <=> Cut)
    BY <1>1, <2>3 DEF KeepsSteady, Steady, Cut, CutLoose, At
  <2>5. ASSUME NEW i \in Nodes, Exists(i)
        PROVE  /\ i # n /\ RootIn(parentOf', i) = RootIn(parentOf, i) /\ Above(parentOf', i) = Above(parentOf, i)
               /\ \A a \in Above(parentOf, i) : a \in Nodes /\ a # n /\ Exists(a)
    <3>1. i # n /\ \A a \in Above(parentOf, i) : a \in Nodes /\ a # n /\ Exists(a)
      BY <2>1, <2>5, TreeFacts
    <3>2. \A x \in Above(parentOf, i) : parentOf'[x] = parentOf[x]
      BY <2>1, <3>1
    <3> QED BY <1>0, <2>1, <3>1, <3>2, RootAgrees
  <2>6. RootIn(parentOf', n) = RootIn(parentOf, p) /\ Above(parentOf', n) = {n} \union Above(parentOf, p)
    <3>1. RootIn(parentOf', p) = RootIn(parentOf, p) /\ Above(parentOf', p) = Above(parentOf, p)
      BY <1>0, <1>3, <2>5
    <3> QED BY <1>0, <2>1, <3>1, RootOfParent, AboveParent
  <2>7. TreeTypes'
    BY <1>1, <2>1, <2>3 DEF TreeInv, TreeTypes, Forests
  <2>8. DeleteInv'
    <3>1. \A i \in deleter.ids : i \in Nodes /\ i # n /\ presence'[i] = presence[i]
      BY <1>0, <1>3, <2>1
    <3>2. deleter.pc = "collect" => deleter.of \in Nodes /\ presence'[deleter.of] = "live"
      BY <1>0, <2>1 DEF DeleteInv
    <3>3. \A x \in Nodes : presence'[x] = "removed" => presence[x] = "removed"
      BY <2>1
    <3> QED BY <1>0, <1>1, <3>1, <3>2, <3>3 DEF DeleteInv
  <2>9. HangOnRows' /\ LocksOnRows'
    <3>1. ASSUME NEW x \in Nodes, Exists(x)', parentOf'[x] # NoNode PROVE presence'[parentOf'[x]] # "absent"
      <4>1. CASE x = n
        BY <1>0, <1>3, <2>1, <4>1 DEF Exists
      <4>2. CASE x # n
        <5>1. Exists(x) /\ parentOf[x] \in Nodes /\ Exists(parentOf[x])
          BY <1>0, <2>1, <2>2, <3>1, <4>2 DEF TreeInv, ForestInv, HangOnRows, Forests
        <5> QED BY <2>1, <4>2, <5>1 DEF Exists
      <4> QED BY <4>1, <4>2
    <3>2. \A x \in Nodes : rowLock[x] # NoNode => Exists(x)'
      BY <2>1, <2>2 DEF TreeInv, ForestInv, LocksOnRows
    <3> QED BY <1>1, <3>1, <3>2 DEF HangOnRows, LocksOnRows, Exists
  <2>10. StraysBelow'
    <3>1. \A j \in Nodes : presence[j] = "live" =>
             \A b \in Above(parentOf, j) : presence[b] = "removed" \/ b \in strays => j \in strays
      BY DEF TreeInv, ForestInv, StraysBelow
    <3> SUFFICES ASSUME NEW i \in Nodes, presence'[i] = "live", NEW a \in Above(parentOf', i),
                        presence'[a] = "removed" \/ a \in strays'
                 PROVE  i \in strays'
      BY DEF StraysBelow
    <3>2. CASE i # n
      <4>1. presence[i] = "live" /\ Exists(i)
        BY <2>1, <3>2 DEF Exists
      <4>2. a \in Above(parentOf, i) /\ a \in Nodes /\ a # n
        BY <2>5, <4>1
      <4> QED BY <2>1, <2>3, <3>1, <4>1, <4>2
    <3>3. CASE i = n /\ a # n
      <4>1. a \in Above(parentOf, p) /\ a \in Nodes
        BY <1>0, <1>3, <2>5, <2>6, <3>3
      <4>2. presence[a] = "removed" \/ a \in strays
        BY <2>1, <2>3, <3>3, <4>1
      <4>3. presence[p] = "live" => p \in strays
        BY <1>0, <3>1, <4>1, <4>2
      <4>4. presence[p] \in {"live", "removed"}
        BY <1>0, <1>3, TreeFacts
      <4> QED BY <2>3, <3>3, <4>3, <4>4
    <3>4. CASE i = n /\ a = n
      BY <2>1, <3>4
    <3> QED BY <3>2, <3>3, <3>4
  <2>11. OneTree'
    <3> SUFFICES ASSUME ~Cut, NEW i \in deleter.ids, NEW j \in deleter.ids
                 PROVE  RootIn(parentOf', i) = RootIn(parentOf', j)
      BY <1>1, <2>4 DEF OneTree
    <3>1. RootIn(parentOf, i) = RootIn(parentOf, j)
      BY DEF TreeInv, ForestInv, OneTree
    <3> QED BY <2>5, <3>1, CollectedExist
  <2>12. ChainsEnd'
    <3> SUFFICES ASSUME ~CutLoose', NEW i \in Nodes, Exists(i)'
                 PROVE  RootIn(parentOf', i) # NoNode
      <4>1. \A i \in Nodes : Exists(i)' => orgRootID(i)' = RootIn(parentOf', i)
        BY <1>0 DEF orgRootID, reparentOrgRoot
      <4> QED BY <4>1 DEF ChainsEnd
    <3>1. \A x \in Nodes : Exists(x) => RootIn(parentOf, x) # NoNode
      BY <2>4, TreeFacts DEF TreeInv, ForestInv, ChainsEnd, orgRootID, KeepsSteady
    <3>2. CASE i = n
      BY <1>0, <1>3, <2>6, <3>1, <3>2
    <3>3. CASE i # n
      BY <2>2, <2>5, <3>1, <3>3
    <3> QED BY <3>2, <3>3
  <2>13. AnchorInv'
    <3> SUFFICES ASSUME NEW k \in OrgTokens
                 PROVE  LET o == orgTok[k].org
                            q == orgTok[k].phase
                        IN /\ q = "live" /\ o # NoNode => Exists(o)'
                           /\ q = "counted" => o \in Nodes /\ (Exists(o)' \/ Gone(o)')
                           /\ k \notin lateMints /\ q \in {"counted", "live"} /\ o # NoNode => parentOf'[o] = NoNode
      BY <1>1 DEF AnchorInv
    <3>1. orgTok[k].phase \in {"counted", "live"} /\ orgTok[k].org # NoNode =>
             orgTok[k].org \in Nodes /\ orgTok[k].org # n
      BY <2>1, <2>2, TokenFacts
    <3> QED BY <1>1, <2>1, <2>2, <3>1, TokenFacts
  <2>14. ASSUME NEW m \in Movers PROVE KeepsRows(m) /\ KeepsRoots(m)
    <3>0. rowLock \in [Nodes -> Movers \union {NoNode}] /\ m # NoNode
      BY TreeAssumption DEF TreeInv, TreeTypes
    <3>1. ASSUME NEW x \in Nodes, rowLock[x] = m
          PROVE  presence'[x] = presence[x] /\ parentOf'[x] = parentOf[x] /\ Children(x)' \subseteq Children(x)
      <4>1. x # n /\ x # p
        BY <1>0, <2>1, <3>0, <3>1 DEF TreeInv, ForestInv, LocksOnRows
      <4> QED BY <2>1, <4>1 DEF Children
    <3>2. KeepsRows(m)
      <4>1. \A x \in Nodes : Exists(x) /\ rowLock[x] # m => Exists(x)' \/ Gone(x)'
        BY <2>1, <2>2
      <4>2. \A x \in Nodes : Gone(x) => Gone(x)'
        BY <2>2
      <4> QED BY <1>1, <3>1, <4>1, <4>2 DEF KeepsRows
    <3>3. /\ CheckedInv(m) /\ (Decided(m) => Checked(m)) /\ (At(m, "commit") => Checked(m)) /\ mover'[m] = mover[m]
      BY <1>1, MoveFacts DEF Checked, Decided, At
    <3>4. Checked(m) => /\ mover[m].self \in Nodes /\ mover[m].to \in Nodes
                        /\ Exists(mover[m].self) /\ Exists(mover[m].to)
      BY <3>3 DEF CheckedInv, Exists
    <3>5. KeepsRoots(m)
      BY <2>5, <3>3, <3>4 DEF KeepsRoots
    <3> QED BY <3>2, <3>5
  <2> QED BY <1>1, <2>4, <2>7, <2>8, <2>9, <2>10, <2>11, <2>12, <2>13, <2>14, MovesStay DEF TreeInv, ForestInv
<1> QED BY <1>2, <1>3 DEF CreateUnder
(***************************************************************************)
(* The invariant.                                                          *)
(***************************************************************************)
LEMMA TreeStarts == TreeInit => TreeInv
<1> SUFFICES ASSUME TreeInit PROVE TreeInv
  OBVIOUS
<1>0. /\ presence \in [Nodes -> {"absent", "live"}] /\ parentOf \in Forests /\ strays = {}
      /\ \A n \in Nodes : parentOf[n] # NoNode => presence[n] = "live" /\ presence[parentOf[n]] = "live"
      /\ \A n \in Nodes : RootIn(parentOf, n) # NoNode
      /\ NoNode \notin Nodes
  BY TreeAssumption DEF TreeInit, Forests
<1>1. \A k \in OrgTokens : orgTok[k].phase = "none" /\ orgTok[k].org = NoNode
  BY DEF TreeInit
<1>2. \A m \in Movers : mover[m].pc = "idle" /\ mover[m] \in MoveRecords
  BY NoMoveIs DEF TreeInit, NoMove
<1>3. TreeTypes
  <2>1. mover \in [Movers -> MoveRecords]
    BY NoMoveIs DEF TreeInit
  <2>2. orgTok \in [OrgTokens -> TokenRecords]
    BY DEF TreeInit, TokenRecords
  <2>3. deleter \in [pc : {"idle", "collect", "mark", "orphan", "purge", "done"},
                     of : Nodes \union {NoNode}, ids : SUBSET Nodes, purge : BOOLEAN]
    BY DEF TreeInit
  <2>4. /\ maker \in [pc : {"idle", "insert", "done"}, parent : Nodes \union {NoNode}]
        /\ rowLock \in [Nodes -> Movers \union {NoNode}]
    BY DEF TreeInit
  <2> QED BY <1>0, <2>1, <2>2, <2>3, <2>4 DEF TreeTypes, Forests
<1>4. DeleteInv
  BY <1>0 DEF TreeInit, DeleteInv
<1>5. HangOnRows /\ OneTree /\ LocksOnRows
  BY <1>0 DEF TreeInit, HangOnRows, OneTree, LocksOnRows, Exists
<1>6. StraysBelow
  <2>1. \A n \in Nodes : Above(parentOf, n) \subseteq Nodes
    BY <1>0, AboveTrans
  <2> QED BY <1>0, <2>1 DEF StraysBelow
<1>7. ChainsEnd
  BY <1>0 DEF ChainsEnd, orgRootID, reparentOrgRoot
<1>8. \A m \in Movers : MoveInv(m)
  BY <1>2 DEF MoveInv, LocatedInv, CheckedInv, DecidedInv, CommitInv, Located, Checked, Decided, At
<1>9. AnchorInv
  BY <1>1 DEF AnchorInv
<1> QED BY <1>3, <1>4, <1>5, <1>6, <1>7, <1>8, <1>9 DEF TreeInv, ForestInv

\* A step that changes nothing.
LEMMA TreeStutters ==
    ASSUME TreeInv, UNCHANGED treeVars
    PROVE  TreeInv'
<1>1. UNCHANGED <<parentOf, presence, rowLock, mover, deleter, maker, orgTok, lateMints, strays>>
  BY DEF treeVars
<1>2. AnchorInv'
  BY <1>1 DEF TreeInv, AnchorInv, Exists, Gone
<1>3. /\ maker' \in [pc : {"idle", "insert", "done"}, parent : Nodes \union {NoNode}]
      /\ maker'.pc = "insert" => maker'.parent \in Nodes
      /\ orgTok' \in [OrgTokens -> TokenRecords]
  BY <1>1 DEF TreeInv, TreeTypes, DeleteInv
<1> QED BY <1>1, <1>2, <1>3, RowsQuiet

\* Every step keeps the invariant.
LEMMA TreeStep ==
    ASSUME TreeInv, [TreeNext]_treeVars
    PROVE  TreeInv'
<1>1. CASE UNCHANGED treeVars
  BY <1>1, TreeStutters
<1>2. ASSUME NEW m \in Movers, MoverStep(m) PROVE TreeInv'
  BY <1>2, LocateSelfKeeps, LocateTargetKeeps, LockKeeps, RecheckKeeps, CycleKeeps, MoveOrgKeeps, VerifyKeeps,
     MoveCommitKeeps DEF MoverStep
<1>3. CASE DeleteStep
  BY <1>3, DeleteBeginsKeeps, CollectsKeeps, MarksKeeps, OrphansKeeps, RowsKeeps DEF DeleteStep
<1>4. CASE CreateStep
  BY <1>4, ParentCheckKeeps, CreateKeeps DEF CreateStep
<1>5. ASSUME NEW k \in OrgTokens, TokenStep(k) PROVE TreeInv'
  BY <1>5, TokenKeeps
<1> QED BY <1>1, <1>2, <1>3, <1>4, <1>5 DEF TreeNext

(***************************************************************************)
(* What it gives.                                                          *)
(***************************************************************************)
LEMMA TalkStaysInside ==
    ASSUME TreeInv, NEW n \in Nodes, NEW m \in Nodes, Exists(n), CanCommunicate(n, m)
    PROVE  orgRootID(m) = orgRootID(n)
<1>0. parentOf \in Forests /\ NoNode \notin Nodes
  BY TreeFacts
<1>1. CASE n = m
  BY <1>1
<1>2. CASE n # m
  <2>0. Exists(m) /\ orgRootID(n) = RootIn(parentOf, n) /\ orgRootID(m) = RootIn(parentOf, m)
    BY <1>2, TreeFacts DEF CanCommunicate, orgRootID
  <2>1. \A x \in Nodes : parentOf[x] # NoNode =>
           parentOf[x] \in Nodes /\ RootIn(parentOf, parentOf[x]) = RootIn(parentOf, x)
    BY <1>0, RootOfParent
  <2>2. \A a, x \in Nodes : isAncestorOf(a, x) => RootIn(parentOf, a) = RootIn(parentOf, x)
    BY <1>0, AncestorIs, RootOfAbove
  <2> QED BY <1>0, <1>2, <2>0, <2>1, <2>2 DEF CanCommunicate
<1> QED BY <1>1, <1>2

\* The invariant gives the property.
LEMMA InvIsSound == TreeInv => TreeIsSound
<1> SUFFICES ASSUME TreeInv PROVE TreeIsSound
  OBVIOUS
<1>1. TreeTypeOK
  BY DEF TreeInv, TreeTypes, TreeTypeOK
<1>2. ChainsEnd
  BY DEF TreeInv, ForestInv
<1>3. AnchorIsRoot
  BY TokenFacts DEF AnchorIsRoot
<1>4. PeersMayTalk
  <2> SUFFICES ASSUME NEW n \in Nodes, presence[n] = "live", NEW m \in Nodes
               PROVE  /\ m \in Peers(n) => CanCommunicate(n, m) /\ CanCommunicate(m, n)
                      /\ orgRootID(m) # orgRootID(n) => ~CanCommunicate(n, m)
    BY DEF PeersMayTalk
  <2>1. m \in Peers(n) => CanCommunicate(n, m) /\ CanCommunicate(m, n)
    BY DEF Peers, CanCommunicate, Exists
  <2>2. Exists(n)
    BY DEF Exists
  <2> QED BY <2>1, <2>2, TalkStaysInside
<1>5. TokenReachesItsOrg
  <2> SUFFICES ASSUME ~CutLoose, NEW k \in OrgTokens, orgTok[k].phase = "live", orgTok[k].org # NoNode,
                      NEW n \in Nodes, Exists(n)
               PROVE  orgTokenConfirmedCrossOrg(orgTok[k].org, n) <=> ~sameOrg(orgTok[k].org, n)
    BY DEF TokenReachesItsOrg
  <2> DEFINE o == orgTok[k].org
  <2>1. o \in Nodes /\ Exists(o) /\ parentOf \in Forests
    BY TokenFacts, TreeFacts
  <2>2. \A x \in Nodes : Exists(x) => orgRootID(x) = RootIn(parentOf, x) /\ orgRootID(x) # NoNode
    BY TreeFacts DEF orgRootID, TreeInv, ForestInv, ChainsEnd
  <2>3. orgRootID(n) \in Nodes /\ orgRootID(orgRootID(n)) = orgRootID(n)
    BY <2>1, <2>2, RootIsThere, RootOfRoot
  <2> HIDE DEF o
  <2> QED BY <2>1, <2>2, <2>3 DEF orgTokenConfirmedCrossOrg, sameOrg, o
<1> QED BY <1>1, <1>2, <1>3, <1>4, <1>5 DEF TreeIsSound

\* Only a commit, a create and the purge change who hangs under whom.
LEMMA WhoMoves ==
    ASSUME TreeNext, parentOf' # parentOf
    PROVE  (\E m \in Movers : Commits(m)) \/ PurgeOrphans \/ CreateUnder
<1>1. ASSUME NEW m \in Movers, MoverStep(m) PROVE Commits(m)
  BY <1>1, CommitIs DEF MoverStep, PreLocateSelf, PreLocateTarget, LockRows, MoveRechecks, MoveChecksCycle,
     MoveChecksOrg, MoveVerifies, Refuse
<1>2. CASE DeleteStep
  BY <1>2 DEF DeleteStep, DeleteBegins, CascadeCollects, CascadeMarks, PurgeRows
<1>3. CASE CreateStep
  BY <1>3 DEF CreateStep, validateCreateParentID
<1>4. ~\E k \in OrgTokens : TokenStep(k)
  BY DEF TokenStep, MintCounts, IssueWithExpiry, RevokeOrgToken
<1> QED BY <1>1, <1>2, <1>3, <1>4 DEF TreeNext

\* A step that moves a row puts it under one that is live.
LEMMA LandsOnLive ==
    ASSUME TreeInv, TreeNext, NEW n \in Nodes, parentOf'[n] # parentOf[n], parentOf'[n] # NoNode, Exists(n)
    PROVE  presence'[parentOf'[n]] = "live"
<1>1. ASSUME NEW m \in Movers, Commits(m) PROVE presence'[parentOf'[n]] = "live"
  BY <1>1, CommitFacts DEF Commits
<1>2. ~PurgeOrphans
  BY DEF PurgeOrphans
<1>3. ~CreateUnder
  BY TreeFacts DEF CreateUnder, Exists, Forests
<1> QED BY <1>1, <1>2, <1>3, WhoMoves

\* A step that changes who hangs under whom changes nobody else's org.
LEMMA OrgsStay ==
    ASSUME TreeInv, TreeNext, parentOf' # parentOf, NEW n \in Nodes, presence[n] = "live", presence'[n] = "live",
           n \notin strays', RootIn(parentOf', n) # RootIn(parentOf, n)
    PROVE  (parentOf[n] = NoNode /\ parentOf'[n] # NoNode) \/ deleter.pc = "orphan"
<1>1. ASSUME NEW m \in Movers, Commits(m) PROVE parentOf[n] = NoNode /\ parentOf'[n] # NoNode
  <2> DEFINE s == mover[m].self
  <2>1. Steady(n)' /\ n \notin strays
    BY <1>1, CommitFacts DEF Steady
  <2>2. s \in Above(parentOf, n) /\ mover[m].adopts
    BY <1>1, <2>1, CommitRoots
  <2>3. /\ parentOf[s] = NoNode /\ Children(s) = {} /\ parentOf'[s] = mover[m].to /\ mover[m].to \in Nodes
        /\ NoNode \notin Nodes
    BY <1>1, <2>2, CommitFacts, MoveFacts, TreeFacts DEF Commits, DecidedInv, Decided, At
  <2>4. n = s
    BY <2>1, <2>2, <2>3, ChildlessAbove
  <2> QED BY <2>3, <2>4
<1>2. CASE PurgeOrphans
  BY <1>2 DEF PurgeOrphans
<1>3. ~CreateUnder
  <2> SUFFICES ASSUME CreateUnder PROVE FALSE
    OBVIOUS
  <2>1. PICK x \in Nodes : presence[x] = "absent" /\ parentOf' = [parentOf EXCEPT ![x] = maker.parent]
    BY DEF CreateUnder
  <2>2. maker.parent \in Nodes /\ parentOf \in Forests
    BY DeleterFacts, TreeFacts DEF DeleteInv, CreateUnder
  <2>3. parentOf' \in Forests /\ \A y \in Nodes : y # x => parentOf'[y] = parentOf[y]
    BY <2>1, <2>2 DEF Forests
  <2>4. \A y \in Above(parentOf, n) : y \in Nodes /\ y # x
    BY <2>1, TreeFacts DEF Exists
  <2> QED BY <2>2, <2>3, <2>4, RootAgrees
<1> QED BY <1>1, <1>2, <1>3, WhoMoves

(***************************************************************************)
(* THEOREM: a chain that is there ends at a row without a parent whatever  *)
(* moves, deletes, creates and mints overlap (workspace_reparent.go,       *)
(* workspace_crud.go), a live token stands at its org's root               *)
(* (org_tokens.go) and reaches that org alone, and nobody talks across     *)
(* orgs (registry/access.go).                                              *)
(***************************************************************************)
THEOREM TreeStaysSound == TreeSpec => []TreeIsSound
<1>1. TreeInit => TreeInv
  BY TreeStarts
<1>2. TreeInv /\ [TreeNext]_treeVars => TreeInv'
  BY TreeStep
<1>3. TreeInv => TreeIsSound
  BY InvIsSound
<1> QED BY <1>1, <1>2, <1>3, PTL DEF TreeSpec

\* THEOREM: a move puts a row under one that is live when it shows, and nobody
\* changes its org by the move of another (reparentWorkspaceTx).
THEOREM MovesStayJust == TreeSpec => MovesAreJust
<1>1. TreeInit => TreeInv
  BY TreeStarts
<1>2. TreeInv /\ [TreeNext]_treeVars => TreeInv'
  BY TreeStep
<1>3. TreeInv /\ [TreeNext]_treeVars =>
         [\A n \in Nodes : (parentOf'[n] # parentOf[n] /\ parentOf'[n] # NoNode /\ Exists(n))
             => presence'[parentOf'[n]] = "live"]_treeVars
  BY LandsOnLive
<1>4. TreeInv /\ [TreeNext]_treeVars =>
         [parentOf' # parentOf =>
             \A n \in Nodes :
                (/\ presence[n] = "live" /\ presence'[n] = "live" /\ n \notin strays'
                 /\ RootIn(parentOf', n) # RootIn(parentOf, n))
                   => \/ parentOf[n] = NoNode /\ parentOf'[n] # NoNode
                      \/ deleter.pc = "orphan"]_treeVars
  BY OrgsStay
<1> QED BY <1>1, <1>2, <1>3, <1>4, PTL DEF TreeSpec, MovesAreJust, MoveLandsOnLive, OrgStays
=============================================================================
