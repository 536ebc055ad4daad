----------------------------- MODULE MCA2AQueue -----------------------------
(***************************************************************************)
(* What a workspace is told and what it remembers, for TLC: a behaviour is *)
(* that of its message queue (A2AQueue), of its memories in the plugin, or *)
(* of one key of its memory table (both Memories).  They share no state;   *)
(* those that are not chosen rest in an initial state.                     *)
(***************************************************************************)
EXTENDS A2AQueue, Memories, TLC

VARIABLE keeper

keeperVars == <<vars, memoryVars, keeper>>

\* The queues of snapshots, and workspaces that go offline, are run by
\* MCDeliveries: a heartbeat's drain asks for no status.  The row that is to be
\* copied belongs to a child: it may move, and its parent may go.
KeeperInit ==
    /\ keeper \in {"queue", "store", "key"}
    /\ Init /\ MemoriesInit
    /\ \A w \in LegacyRows : parentOf[w] # NoOwner

KeeperNext ==
    \/ keeper = "queue" /\ Next /\ UNCHANGED <<online, memoryVars, keeper>>
    \/ keeper = "store" /\ StoreNext /\ UNCHANGED <<vars, keeper>>
    \/ keeper = "key" /\ KeyNext /\ UNCHANGED <<vars, keeper>>

KeeperSpec == KeeperInit /\ [][KeeperNext]_keeperVars

Symmetry == Permutations(Drainers) \union Permutations(MemCalls)
=============================================================================
