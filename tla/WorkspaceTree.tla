--------------------------- MODULE WorkspaceTree ---------------------------
(***************************************************************************)
(* The tree of workspaces.  An org is a root of parent_id and what hangs   *)
(* below it; who may talk to whom, whose memories are read and which       *)
(* tokens apply are all read off the parent chain.  Moves, creates,        *)
(* cascading deletes with their purge and the minting of org tokens run at *)
(* the same time, each in statements of its own at READ COMMITTED.         *)
(*                                                                         *)
(* Source: workspace-server/internal, handlers/workspace_reparent.go,      *)
(* workspace_crud.go (Update, Delete, CascadeDelete), org_tokens.go,       *)
(* org_scope.go, discovery.go, orgtoken/tokens.go, registry/access.go and  *)
(* middleware/wsauth_middleware.go.                                        *)
(***************************************************************************)
EXTENDS Naturals, FiniteSets, Functions

CONSTANTS
    Nodes,          \* workspaces, the ones not yet created included
    NoNode,         \* no parent, no anchor, nobody
    Movers,         \* PATCH calls with a parent_id
    OrgTokens,      \* org API tokens, minted or not
    MintCeiling,    \* live tokens of one org
    MaxTreeFaults   \* bound: failed statements

ASSUME TreeAssumption ==
    NoNode \notin Nodes \union Movers /\ IsFiniteSet(Nodes) /\ MintCeiling \in Nat /\ MaxTreeFaults \in Nat

VARIABLES
    parentOf, presence,  \* each row's parent_id; "absent", "live" or "removed"
    rowLock,             \* the mover that holds the row FOR UPDATE
    mover,               \* each PATCH: where it is, and what it has read
    deleter,             \* the DELETE call and the ids it collected
    maker,               \* the POST /workspaces and its parent
    orgTok,              \* each org token: "none", "counted" or "live", and its org_id
    lateMints,           \* history: tokens minted during an adoption, or adopted into an unlocked org
    strays,              \* history: live rows that a delete of their parent missed, and what joins them
    treeFaults

treeVars == <<parentOf, presence, rowLock, mover, deleter, maker, orgTok, lateMints, strays,
              treeFaults>>

NoMove == [pc |-> "idle", self |-> NoNode, to |-> NoNode, selfRoot |-> NoNode,
           toRoot |-> NoNode, adopts |-> FALSE]

TreeFault == treeFaults < MaxTreeFaults /\ treeFaults' = treeFaults + 1
NoTreeFault == UNCHANGED treeFaults
Exists(n) == presence[n] # "absent"

---------------------------------------------------------------------------
(* Reading the chain.                                                      *)

\* The row d levels above n, the walk of the recursive queries.
Chain(up, n) ==
    LET walk[d \in 0..Cardinality(Nodes)] ==
            IF d = 0 THEN n
            ELSE LET below == walk[d - 1] IN IF below = NoNode THEN NoNode ELSE up[below]
    IN walk
Depths == 0..Cardinality(Nodes)
RootIn(up, n) ==
    LET top == {m \in Range(Chain(up, n)) \ {NoNode} : up[m] = NoNode}
    IN IF top = {} THEN NoNode ELSE CHOOSE m \in top : TRUE

\* The root of a row that is there; a chain that does not end has none.
reparentOrgRoot(n) == IF n # NoNode /\ Exists(n) THEN RootIn(parentOf, n) ELSE NoNode
orgRootID(n) == reparentOrgRoot(n)
sameOrg(a, b) == a = b \/ (orgRootID(a) # NoNode /\ orgRootID(a) = orgRootID(b))

\* Below n by way of rows that are not removed.
Below(n) ==
    {m \in Nodes : LET c == Chain(parentOf, m) IN
        \E d \in Depths \ {0} : c[d] = n /\ \A e \in 0..(d - 1) : presence[c[e]] = "live"}
reparentIsDescendant(n, m) == m = n \/ m \in Below(n)

Children(n) == {m \in Nodes : parentOf[m] = n /\ presence[m] = "live"}

---------------------------------------------------------------------------
(* Any forest whose chains end; the rows that are not there yet have no    *)
(* parent.                                                                 *)

TreeInit ==
    /\ presence \in [Nodes -> {"absent", "live"}]
    /\ parentOf \in [Nodes -> Nodes \union {NoNode}]
    /\ \A n \in Nodes : parentOf[n] # NoNode => presence[n] = "live" /\ presence[parentOf[n]] = "live"
    /\ \A n \in Nodes : RootIn(parentOf, n) # NoNode
    /\ rowLock = [n \in Nodes |-> NoNode]
    /\ mover = [m \in Movers |-> NoMove]
    /\ deleter = [pc |-> "idle", of |-> NoNode, ids |-> {}, purge |-> FALSE]
    /\ maker = [pc |-> "idle", parent |-> NoNode]
    /\ orgTok = [k \in OrgTokens |-> [phase |-> "none", org |-> NoNode]]
    /\ lateMints = {} /\ strays = {} /\ treeFaults = 0

---------------------------------------------------------------------------
(* Who may talk to whom.                                                   *)

isAncestorOf(a, n) == LET c == Chain(parentOf, n) IN \E d \in Depths \ {0} : c[d] = a

\* Itself, siblings, parent and child, and any ancestor with its descendants.
CanCommunicate(a, b) ==
    \/ a = b
    \/ /\ Exists(a) /\ Exists(b)
       /\ \/ parentOf[a] # NoNode /\ parentOf[a] = parentOf[b]
          \/ parentOf[b] = a \/ parentOf[a] = b
          \/ parentOf[b] # NoNode /\ isAncestorOf(a, parentOf[b])
          \/ parentOf[a] # NoNode /\ isAncestorOf(b, parentOf[a])

\* GET /registry/:id/peers: siblings, children and the parent that are live.
Peers(n) ==
    {m \in Nodes \ {n} :
        /\ presence[m] = "live"
        /\ \/ parentOf[n] # NoNode /\ parentOf[m] = parentOf[n]
           \/ parentOf[m] = n \/ parentOf[n] = m}

\* An org token acts on a workspace unless the two are known to be of two orgs.
orgTokenConfirmedCrossOrg(anchor, n) ==
    /\ orgRootID(n) # NoNode /\ anchor # orgRootID(n)
    /\ orgRootID(anchor) # NoNode /\ orgRootID(anchor) # orgRootID(n)

---------------------------------------------------------------------------
(* PATCH /workspaces/:id with a parent_id: one transaction.                *)

MoverKeeps == <<deleter, maker>>
At(m, pc) == mover[m].pc = pc
Step(m, pc) == mover' = [mover EXCEPT ![m].pc = pc]

\* The transaction ends, with or without its write, and its locks are free.
Release(m) == rowLock' = [n \in Nodes |-> IF rowLock[n] = m THEN NoNode ELSE rowLock[n]]
Refuse(m) ==
    /\ mover' = [mover EXCEPT ![m] = [NoMove EXCEPT !.pc = "done"]]
    /\ Release(m)
    /\ UNCHANGED <<parentOf, presence, orgTok, lateMints, strays>>

\* The candidates for the locks are read without a lock, in two statements.
PreLocateSelf(m) ==
    /\ At(m, "idle")
    /\ \E n \in Nodes, t \in Nodes \union {NoNode} :
          /\ Exists(n)
          /\ mover' = [mover EXCEPT ![m] = [NoMove EXCEPT !.pc = "target", !.self = n, !.to = t,
                                              !.selfRoot = reparentOrgRoot(n)]]
    /\ NoTreeFault /\ UNCHANGED <<parentOf, presence, rowLock, orgTok, lateMints, strays, MoverKeeps>>
PreLocateTarget(m) ==
    /\ At(m, "target")
    /\ mover' = [mover EXCEPT ![m].pc = "lock",
                   ![m].toRoot = IF mover[m].to = mover[m].self THEN NoNode
                                 ELSE reparentOrgRoot(mover[m].to)]
    /\ NoTreeFault /\ UNCHANGED <<parentOf, presence, rowLock, orgTok, lateMints, strays, MoverKeeps>>

\* The row, its new parent and both roots, FOR UPDATE in the order of their ids.
LockSetPair(m) == {n \in {mover[m].self, mover[m].to} \ {NoNode} : Exists(n)}
LockSet(m) ==
    {n \in {mover[m].self, mover[m].to, mover[m].selfRoot, mover[m].toRoot} \ {NoNode} : Exists(n)}
LockRows(m) ==
    /\ At(m, "lock")
    /\ \A n \in LockSet(m) : rowLock[n] = NoNode
    /\ rowLock' = [n \in Nodes |-> IF n \in LockSet(m) THEN m ELSE rowLock[n]]
    /\ Step(m, "recheck")
    /\ NoTreeFault /\ UNCHANGED <<parentOf, presence, orgTok, lateMints, strays, MoverKeeps>>

\* The source's root must still be the one that is locked.  Root promotion,
\* a parent of itself, a removed row and the present parent end here.
MoveRechecks(m) ==
    LET n == mover[m].self t == mover[m].to
        bad == \/ rowLock[n] # m
               \/ reparentOrgRoot(n) # mover[m].selfRoot
               \/ presence[n] = "removed" \/ t = NoNode \/ t = n \/ parentOf[n] = t
               \/ t # NoNode /\ (~Exists(t) \/ rowLock[t] # m \/ presence[t] = "removed")
    IN /\ At(m, "recheck")
       /\ \/ bad /\ Refuse(m) /\ NoTreeFault
          \/ /\ ~bad /\ Step(m, "cycle") /\ NoTreeFault
             /\ UNCHANGED <<parentOf, presence, rowLock, orgTok, lateMints, strays>>
          \/ TreeFault /\ Refuse(m)
       /\ UNCHANGED MoverKeeps

MoveChecksCycle(m) ==
    /\ At(m, "cycle")
    /\ \/ reparentIsDescendant(mover[m].self, mover[m].to) /\ Refuse(m)
       \/ /\ ~reparentIsDescendant(mover[m].self, mover[m].to) /\ Step(m, "org")
          /\ UNCHANGED <<parentOf, presence, rowLock, orgTok, lateMints, strays>>
    /\ NoTreeFault /\ UNCHANGED MoverKeeps

\* Within the org, or a root without children into another one: adoption.
AdoptsAnyRoot(n, old, new) == old # new /\ parentOf[n] = NoNode
Adopts(n, old, new) == old # new /\ parentOf[n] = NoNode /\ Children(n) = {}
MoveChecksOrg(m) ==
    LET n == mover[m].self
        old == reparentOrgRoot(n)
        new == reparentOrgRoot(mover[m].to)
        adopts == Adopts(n, old, new)
        refused == old = NoNode \/ new = NoNode \/ (old # new /\ ~adopts)
    IN /\ At(m, "org")
       /\ \/ refused /\ Refuse(m)
          \/ /\ ~refused
             /\ mover' = [mover EXCEPT ![m].pc = "write", ![m].adopts = adopts,
                                       ![m].selfRoot = old, ![m].toRoot = new]
             /\ UNCHANGED <<parentOf, presence, rowLock, orgTok, lateMints, strays>>
       /\ NoTreeFault /\ UNCHANGED MoverKeeps

\* The update and, with the write still the transaction's own, the check of
\* the chain it leads to.  The name may be taken.
MoveVerifies(m) ==
    LET moved == [parentOf EXCEPT ![mover[m].self] = mover[m].to]
        expected == IF mover[m].adopts THEN mover[m].toRoot ELSE mover[m].selfRoot
        verified == RootIn(moved, mover[m].self) = expected
    IN /\ At(m, "write")
       /\ \/ ~verified /\ Refuse(m) /\ NoTreeFault
          \/ /\ verified /\ Step(m, "commit") /\ NoTreeFault
             /\ UNCHANGED <<parentOf, presence, rowLock, orgTok, lateMints, strays>>
          \/ TreeFault /\ Refuse(m)
       /\ UNCHANGED MoverKeeps

\* The commit shows the move and the migration of an adopted org's tokens,
\* whose foreign key waits for the new root and asks that it is there.
MoveCommits(m) ==
    LET n == mover[m].self
        migrated == {k \in OrgTokens : mover[m].adopts /\ orgTok[k].phase = "live" /\ orgTok[k].org = n}
        rootless == migrated # {} /\ ~Exists(mover[m].toRoot)
    IN /\ At(m, "commit")
       /\ \/ /\ ~rootless /\ (migrated # {} => rowLock[mover[m].toRoot] \in {NoNode, m})
             /\ parentOf' = [parentOf EXCEPT ![n] = mover[m].to]
             /\ orgTok' = [k \in OrgTokens |->
                   IF k \in migrated THEN [orgTok[k] EXCEPT !.org = mover[m].toRoot] ELSE orgTok[k]]
             /\ lateMints' = lateMints \union
                   {k \in OrgTokens : /\ mover[m].adopts /\ orgTok[k].org = n
                                      /\ orgTok[k].phase = "live" => rowLock[mover[m].toRoot] # m}
             /\ strays' = IF mover[m].to \in strays
                          THEN strays \union {i \in Nodes : presence[i] = "live" /\ (i = n \/ isAncestorOf(n, i))}
                          ELSE strays
             /\ mover' = [mover EXCEPT ![m] = [NoMove EXCEPT !.pc = "done"]]
             /\ Release(m) /\ NoTreeFault /\ UNCHANGED presence
          \/ /\ ~rootless => treeFaults < MaxTreeFaults
             /\ treeFaults' = IF rootless THEN treeFaults ELSE treeFaults + 1
             /\ Refuse(m)
       /\ UNCHANGED MoverKeeps

MoverStep(m) ==
    \/ PreLocateSelf(m) \/ PreLocateTarget(m) \/ LockRows(m) \/ MoveRechecks(m) \/ MoveChecksCycle(m)
    \/ MoveChecksOrg(m) \/ MoveVerifies(m) \/ MoveCommits(m)

---------------------------------------------------------------------------
(* DELETE /workspaces/:id.                                                 *)

DeleterKeeps == <<rowLock, mover, maker, treeFaults>>
Unlocked(ids) == \A n \in ids : rowLock[n] = NoNode

\* The row is there, the name and the cascade are confirmed.
DeleteBegins ==
    /\ deleter.pc = "idle"
    /\ \E n \in Nodes, purge \in BOOLEAN :
          /\ presence[n] = "live"
          /\ deleter' = [pc |-> "collect", of |-> n, ids |-> {}, purge |-> purge]
    /\ UNCHANGED <<parentOf, presence, orgTok, lateMints, strays, DeleterKeeps>>
CascadeCollects ==
    /\ deleter.pc = "collect"
    /\ deleter' = [deleter EXCEPT !.pc = "mark", !.ids = {deleter.of} \union Below(deleter.of)]
    /\ UNCHANGED <<parentOf, presence, orgTok, lateMints, strays, DeleterKeeps>>

\* The ids that were collected are marked, whoever joined them meanwhile.
CascadeMarks ==
    /\ deleter.pc = "mark" /\ Unlocked(deleter.ids)
    /\ presence' = [n \in Nodes |-> IF n \in deleter.ids THEN "removed" ELSE presence[n]]
    /\ strays' = strays \union {n \in Nodes \ deleter.ids :
                    presence[n] = "live" /\ \E i \in deleter.ids : isAncestorOf(i, n)}
    /\ deleter' = [deleter EXCEPT !.pc = IF deleter.purge THEN "orphan" ELSE "done"]
    /\ UNCHANGED <<parentOf, orgTok, lateMints, DeleterKeeps>>

\* The purge cuts what still hangs below off, and deletes the rows; a row that
\* came to hang there in between makes the delete fail.  An org token of a
\* deleted org loses its anchor.
PurgeOrphans ==
    LET cut == {n \in Nodes : parentOf[n] \in deleter.ids}
    IN /\ deleter.pc = "orphan" /\ Unlocked(cut)
       /\ parentOf' = [n \in Nodes |-> IF n \in cut THEN NoNode ELSE parentOf[n]]
       /\ deleter' = [deleter EXCEPT !.pc = "purge"]
       /\ UNCHANGED <<presence, orgTok, lateMints, strays, DeleterKeeps>>
PurgeRows ==
    LET held == \E n \in Nodes : Exists(n) /\ parentOf[n] \in deleter.ids
    IN /\ deleter.pc = "purge" /\ Unlocked(deleter.ids)
       /\ deleter' = [deleter EXCEPT !.pc = "done"]
       /\ presence' = [n \in Nodes |-> IF ~held /\ n \in deleter.ids THEN "absent" ELSE presence[n]]
       /\ orgTok' = [k \in OrgTokens |->
                       IF ~held /\ orgTok[k].phase = "live" /\ orgTok[k].org \in deleter.ids
                       THEN [orgTok[k] EXCEPT !.org = NoNode] ELSE orgTok[k]]
       /\ UNCHANGED <<parentOf, lateMints, strays, DeleterKeeps>>

---------------------------------------------------------------------------
(* POST /workspaces: the parent is checked before the insert, and the      *)
(* foreign key waits for a lock on it and only asks that the row is there. *)

validateCreateParentID ==
    /\ maker.pc = "idle"
    /\ \E p \in Nodes : presence[p] = "live" /\ maker' = [pc |-> "insert", parent |-> p]
    /\ UNCHANGED <<parentOf, presence, rowLock, mover, deleter, orgTok, lateMints, strays, treeFaults>>
CreateUnder ==
    /\ maker.pc = "insert" /\ rowLock[maker.parent] = NoNode
    /\ maker' = [maker EXCEPT !.pc = "done"]
    /\ \/ /\ Exists(maker.parent)
          /\ \E n \in Nodes :
                /\ presence[n] = "absent" /\ n \notin deleter.ids
                /\ presence' = [presence EXCEPT ![n] = "live"]
                /\ parentOf' = [parentOf EXCEPT ![n] = maker.parent]
                /\ strays' = IF presence[maker.parent] = "removed" \/ maker.parent \in strays
                             THEN strays \union {n} ELSE strays
       \/ ~Exists(maker.parent) /\ UNCHANGED <<presence, parentOf, strays>>
    /\ UNCHANGED <<rowLock, mover, deleter, orgTok, lateMints, treeFaults>>

---------------------------------------------------------------------------
(* POST /org/tokens by the holder of a token of that org: the live ones    *)
(* are counted, then the new one is inserted under the org read before.    *)

TokensOf(o) == {k \in OrgTokens : orgTok[k] = [phase |-> "live", org |-> o]}
MintCounts(k) ==
    /\ orgTok[k].phase = "none"
    /\ \E o \in Nodes :
          /\ presence[o] = "live" /\ parentOf[o] = NoNode
          /\ Cardinality(TokensOf(o)) < MintCeiling
          /\ orgTok' = [orgTok EXCEPT ![k] = [phase |-> "counted", org |-> o]]
    /\ UNCHANGED <<parentOf, presence, rowLock, mover, deleter, maker, lateMints, strays, treeFaults>>
IssueWithExpiry(k) ==
    /\ orgTok[k].phase = "counted" /\ rowLock[orgTok[k].org] = NoNode
    /\ orgTok' = [orgTok EXCEPT ![k] = IF Exists(orgTok[k].org)
                                       THEN [phase |-> "live", org |-> orgTok[k].org]
                                       ELSE [phase |-> "revoked", org |-> NoNode]]
    /\ UNCHANGED <<parentOf, presence, rowLock, mover, deleter, maker, lateMints, strays, treeFaults>>
RevokeOrgToken(k) ==
    /\ orgTok[k].phase = "live"
    /\ orgTok' = [orgTok EXCEPT ![k] = [phase |-> "revoked", org |-> NoNode]]
    /\ UNCHANGED <<parentOf, presence, rowLock, mover, deleter, maker, lateMints, strays, treeFaults>>

DeleteStep == DeleteBegins \/ CascadeCollects \/ CascadeMarks \/ PurgeOrphans \/ PurgeRows
CreateStep == validateCreateParentID \/ CreateUnder
TokenStep(k) == MintCounts(k) \/ IssueWithExpiry(k) \/ RevokeOrgToken(k)

TreeNext ==
    \/ \E m \in Movers : MoverStep(m)
    \/ DeleteStep \/ CreateStep
    \/ \E k \in OrgTokens : TokenStep(k)

TreeSpec == TreeInit /\ [][TreeNext]_treeVars

---------------------------------------------------------------------------
(* Properties.                                                             *)

\* One type invariant.
TreeTypeOK ==
    /\ \A n \in Nodes : /\ presence[n] \in {"absent", "live", "removed"}
                        /\ parentOf[n] \in Nodes \union {NoNode}
    /\ \A n \in Nodes : rowLock[n] \in Movers \union {NoNode}
    /\ deleter.ids \subseteq Nodes

\* A purge has cut live rows off that its cascade had missed.  Of two moves
\* below them one may then hold the root of before and the other that of after.
CutLoose ==
    /\ strays # {} /\ deleter.purge /\ deleter.pc \in {"purge", "done"}
    /\ \E m, k \in Movers : m # k /\ ~At(m, "idle") /\ ~At(k, "idle")

\* Every chain ends at a row without a parent, whatever moves overlap: two
\* moves that each are harmless close no cycle together, not even by way of
\* removed rows, which the check for descendants does not walk.
ChainsEnd == CutLoose \/ \A n \in Nodes : Exists(n) => orgRootID(n) # NoNode

\* A live token of an org is anchored at the root its org has now, unless it
\* was minted while the org was adopted, or the adopting org's root was not locked.
AnchorIsRoot ==
    \A k \in OrgTokens \ lateMints :
       (orgTok[k].phase = "live" /\ orgTok[k].org # NoNode) => parentOf[orgTok[k].org] = NoNode

\* Who is shown as a peer may be talked to, both ways, and talking never
\* crosses the org.
PeersMayTalk ==
    LET root == [n \in Nodes |-> orgRootID(n)]
    IN \A n \in Nodes : presence[n] = "live" =>
          \A m \in Nodes : /\ m \in Peers(n) => CanCommunicate(n, m) /\ CanCommunicate(m, n)
                           /\ root[m] # root[n] => ~CanCommunicate(n, m)

\* A token of an org reaches who is in it, and nobody of an org that is
\* another's, through an adoption too.
TokenReachesItsOrg ==
    CutLoose \/ \A k \in OrgTokens : (orgTok[k].phase = "live" /\ orgTok[k].org # NoNode) =>
       \A n \in Nodes : Exists(n) =>
          (orgTokenConfirmedCrossOrg(orgTok[k].org, n) <=> ~sameOrg(orgTok[k].org, n))

\* The tree stays a forest of orgs under concurrent moves and deletes.
TreeIsSound == TreeTypeOK /\ ChainsEnd /\ AnchorIsRoot /\ PeersMayTalk /\ TokenReachesItsOrg

\* A move puts a workspace under one that is live, though the target was named
\* and its roots were read before any lock.
MoveLandsOnLive ==
    [][\A n \in Nodes : (parentOf'[n] # parentOf[n] /\ parentOf'[n] # NoNode /\ Exists(n))
          => presence'[parentOf'[n]] = "live"]_treeVars

\* Nobody changes its org by the move of somebody else: only an adopted
\* workspace itself does, the rows cut off by a purge and the strays.
OrgStays ==
    [][parentOf' # parentOf =>
          \A n \in Nodes :
             (/\ presence[n] = "live" /\ presence'[n] = "live" /\ n \notin strays'
              /\ RootIn(parentOf', n) # RootIn(parentOf, n))
                => \/ parentOf[n] = NoNode /\ parentOf'[n] # NoNode
                   \/ deleter.pc = "orphan"]_treeVars

\* What a move may do to the mover and to everybody else.
MovesAreJust == MoveLandsOnLive /\ OrgStays

\* Refuted: a delete takes everything below with it.  A workspace created in
\* or moved into the subtree after the ids were collected stays live.
DeleteIsWhole == strays = {}

\* Refuted: an org has no more live tokens than the ceiling; two mints may
\* count before either inserts.
CeilingHolds == \A o \in Nodes : Cardinality(TokensOf(o)) <= MintCeiling

=============================================================================
