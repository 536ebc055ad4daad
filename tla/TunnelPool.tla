----------------------------- MODULE TunnelPool -----------------------------
(***************************************************************************)
(* The pool of SSH tunnels to workspace instances: concurrent file calls   *)
(* share a tunnel while it is fresh, the first of several callers builds   *)
(* it while the others wait, and a tunnel is closed by its last user, by   *)
(* the janitor, by an acquire that finds it stale, or to make room.        *)
(*                                                                         *)
(* Source: workspace-server/internal/handlers/eic_tunnel_pool.go; the pool *)
(* mutex makes each action here one critical section.                      *)
(***************************************************************************)
EXTENDS Naturals, FiniteSets

CONSTANTS
    Instances,         \* EC2 instances
    Users,             \* callers of pooledWithEICTunnel
    Tunnels,           \* tunnel processes: one that is closed is used again
    Nil,               \* no tunnel, no instance
    poolMaxEntries     \* entries beyond which an idle one is evicted

ASSUME PoolAssumption ==
    /\ Nil \notin Tunnels \union Instances /\ poolMaxEntries \in Nat \ {0}
    /\ IsFiniteSet(Instances) /\ IsFiniteSet(Users)

VARIABLES
    entries,       \* pool.entries: the tunnel of each instance
    pendingSetups, \* the instances with a setup in flight
    user,          \* each user: where it stands, its instance, its tunnel
    open,          \* the tunnels that are up
    stale,         \* tunnels past expiresAt, or poisoned by a user
    refcount       \* refcount of each tunnel

poolVars == <<entries, pendingSetups, user, open, stale, refcount>>

Gone == [pc |-> "gone", at |-> Nil, tunnel |-> Nil]
Pooled == {entries[i] : i \in Instances} \ {Nil}

PoolInit ==
    /\ entries = [i \in Instances |-> Nil] /\ pendingSetups = {}
    /\ user = [u \in Users |-> Gone]
    /\ open = {} /\ stale = {} /\ refcount = [t \in Tunnels |-> 0]

\* Closing a tunnel (its cleanup goroutine) makes its process reusable.
Close(ts) == open' = open \ ts /\ stale' = stale \ ts

-----------------------------------------------------------------------------
UserCalls(u, i) ==
    /\ user[u] = Gone
    /\ user' = [user EXCEPT ![u] = [Gone EXCEPT !.pc = "acquire", !.at = i]]
    /\ UNCHANGED <<entries, pendingSetups, open, stale, refcount>>

\* acquire: a fresh entry is shared, ...
Shares(u) ==
    LET i == user[u].at
        t == entries[i] IN
    /\ user[u].pc = "acquire" /\ t # Nil /\ t \notin stale
    /\ refcount' = [refcount EXCEPT ![t] = @ + 1]
    /\ user' = [user EXCEPT ![u].pc = "use", ![u].tunnel = t]
    /\ UNCHANGED <<entries, pendingSetups, open, stale>>

StaleOrNone(i) == entries[i] = Nil \/ entries[i] \in stale

\* ... a setup in flight is waited for, until it ends or the caller's context
\* does, ...
GivesUpWaiting(u) ==
    /\ user[u].pc = "acquire"
    /\ StaleOrNone(user[u].at) /\ user[u].at \in pendingSetups
    /\ user' = [user EXCEPT ![u] = Gone]
    /\ UNCHANGED <<entries, pendingSetups, open, stale, refcount>>

\* ... and otherwise the caller takes the setup slot; a stale entry nobody uses
\* is dropped and closed.
Reserves(u) ==
    LET i == user[u].at
        old == {t \in {entries[i]} \ {Nil} : refcount[t] = 0} IN
    /\ user[u].pc = "acquire" /\ StaleOrNone(i) /\ i \notin pendingSetups
    /\ entries' = IF old = {} THEN entries ELSE [entries EXCEPT ![i] = Nil]
    /\ Close(old)
    /\ pendingSetups' = pendingSetups \union {i}
    /\ user' = [user EXCEPT ![u].pc = "setup"]
    /\ UNCHANGED refcount

EvictionsNone(i) == {{}}

\* evictLRUIfFullLocked: in a full pool one idle entry of another instance
\* makes room (the least recently used one, here any); none if all are used.
Evictions(i) ==
    LET idleOnes == {k \in Instances \ {i} : entries[k] # Nil
                                             /\ refcount[entries[k]] = 0} IN
    IF Cardinality(Pooled) < poolMaxEntries \/ idleOnes = {} THEN {{}}
    ELSE {{k} : k \in idleOnes}

\* The setup succeeds: the new entry replaces the instance's old one, which its
\* last user will close.
SetsUp(u) ==
    LET i == user[u].at IN
    /\ user[u].pc = "setup"
    /\ pendingSetups' = pendingSetups \ {i}
    /\ \E t \in Tunnels \ open, ks \in Evictions(i) :
           LET out == {entries[k] : k \in ks} IN
           /\ refcount[t] = 0
           /\ entries' = [k \in Instances |-> IF k = i THEN t
                                               ELSE IF k \in ks THEN Nil ELSE entries[k]]
           /\ open' = (open \ out) \union {t} /\ stale' = stale \ (out \union {t})
           /\ refcount' = [refcount EXCEPT ![t] = 1]
           /\ user' = [user EXCEPT ![u].pc = "use", ![u].tunnel = t]

\* The setup fails: the slot is freed, those who wait try again.
SetupFails(u) ==
    /\ user[u].pc = "setup"
    /\ pendingSetups' = pendingSetups \ {user[u].at}
    /\ user' = [user EXCEPT ![u] = Gone]
    /\ UNCHANGED <<entries, open, stale, refcount>>

\* The releaser: the call returns or panics, and a tunnel fault or a panic
\* poisons the tunnel. Its last user closes a stale one, pooled or not.
Releases(u) ==
    LET t == user[u].tunnel
        left == refcount[t] - 1 IN
    /\ user[u].pc = "use"
    /\ \E poisoned \in BOOLEAN :
           LET bad == poisoned \/ t \in stale IN
           IF left = 0 /\ bad
           THEN /\ entries' = [i \in Instances |->
                                  IF entries[i] = t THEN Nil ELSE entries[i]]
                /\ Close({t})
           ELSE /\ stale' = (IF bad THEN stale \union {t} ELSE stale)
                /\ UNCHANGED <<entries, open>>
    /\ refcount' = [refcount EXCEPT ![t] = left]
    /\ user' = [user EXCEPT ![u] = Gone]
    /\ UNCHANGED pendingSetups

\* poolTTL runs out.
TunnelExpires(t) ==
    /\ t \in open \ stale
    /\ stale' = stale \union {t}
    /\ UNCHANGED <<entries, pendingSetups, user, open, refcount>>

\* The janitor's sweep: expired entries nobody uses are dropped and closed (a
\* poisoned one that nobody uses was closed by its last user).
JanitorSweeps ==
    LET old == {t \in Pooled : refcount[t] = 0 /\ t \in stale} IN
    /\ old # {}
    /\ entries' = [i \in Instances |->
                      IF entries[i] \in old THEN Nil ELSE entries[i]]
    /\ Close(old)
    /\ UNCHANGED <<pendingSetups, user, refcount>>

UserStep(u) ==
    Shares(u) \/ Reserves(u) \/ SetsUp(u) \/ SetupFails(u) \/ Releases(u)

PoolNext ==
    \/ \E u \in Users : \/ \E i \in Instances : UserCalls(u, i)
                        \/ UserStep(u) \/ GivesUpWaiting(u)
    \/ \E t \in Tunnels : TunnelExpires(t)
    \/ JanitorSweeps

PoolSpec == PoolInit /\ [][PoolNext]_poolVars

\* A caller goes on when it can, setups and calls end (each has a timeout),
\* the janitor ticks for ever, and a tunnel's time runs out.
PoolFairSpec ==
    /\ PoolSpec
    /\ \A u \in Users : WF_poolVars(UserStep(u))
    /\ \A t \in Tunnels : WF_poolVars(TunnelExpires(t))
    /\ WF_poolVars(JanitorSweeps)

-----------------------------------------------------------------------------
\* The type invariant.
PoolTypeOK ==
    /\ entries \in [Instances -> Tunnels \union {Nil}]
    /\ pendingSetups \subseteq Instances
    /\ user \in [Users -> [pc : {"gone", "acquire", "setup", "use"},
                           at : Instances \union {Nil},
                           tunnel : Tunnels \union {Nil}]]
    /\ open \subseteq Tunnels /\ stale \subseteq open
    /\ refcount \in [Tunnels -> Nat]

\* A call never runs on a tunnel that was closed under it, by an eviction, the
\* janitor, a replacement or another user's release (refcount).
UsedStaysOpen == \A u \in Users : user[u].pc = "use" => user[u].tunnel \in open

\* No tunnel process is left behind: one that is up is in the pool, where the
\* janitor finds it, or has a user, who will close it (the releaser closes a
\* stale tunnel whether or not the pool still holds it).
NoTunnelLeaks == \A t \in open : t \in Pooled \/ refcount[t] > 0

\* The pool is over its bound only while every tunnel but the newcomer's is in
\* use (evictLRUIfFullLocked).
OverfullOnlyInUse ==
    [][(Cardinality(Pooled') > Cardinality(Pooled)
          /\ Cardinality(Pooled') > poolMaxEntries) =>
              \A t \in Pooled : refcount[t] > 0]_poolVars

\* One setup at a time for an instance, and nobody waits on a slot whose setup
\* has ended (acquire frees it on success and on failure).
SlotHasOneOwner ==
    \A i \in Instances :
        Cardinality({u \in Users : user[u].pc = "setup" /\ user[u].at = i})
            = IF i \in pendingSetups THEN 1 ELSE 0

\* A tunnel past its time or poisoned is closed in the end, also one the pool
\* has replaced and one nobody asks for any more.
StaleIsClosed == \A t \in Tunnels : []<>(t \notin stale)

\* The tunnel pool (acquire, release, eviction, the janitor) closes what nobody
\* uses and nothing else.
TunnelsAreShared ==
    /\ []PoolTypeOK
    /\ []UsedStaysOpen
    /\ []NoTunnelLeaks
    /\ []SlotHasOneOwner
    /\ OverfullOnlyInUse
    /\ StaleIsClosed

=============================================================================
