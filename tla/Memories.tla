------------------------------ MODULE Memories ------------------------------
(***************************************************************************)
(* The memories of the agents.  Facts are records in the namespaces of a   *)
(* plugin, reached over HTTP through a client with a circuit breaker;      *)
(* which namespaces a workspace may read and write follows from its place  *)
(* in the tree, resolved anew for every call.  Beside them each workspace  *)
(* has a key-value table whose writes may be conditional on a version.     *)
(*                                                                         *)
(* Source: workspace-server/internal/memory (client, namespace, pgplugin), *)
(* internal/handlers/mcp_tools_memory_v2.go and its legacy shim,           *)
(* memories.go, memories_v2.go, admin_memories.go, memory.go, and          *)
(* cmd/memory-backfill.  Contents, kinds, redaction, labels and the order  *)
(* of results are left out, and so is the time to live of a record, which  *)
(* only hides it from a search.  A call that is refused before it reaches  *)
(* the plugin changes nothing and is not an action.                        *)
(***************************************************************************)
EXTENDS Naturals, FiniteSets

CONSTANTS
    Owners, NoOwner,    \* the workspaces with memories; no parent
    MemCalls,           \* calls in flight at a time
    LegacyRows,         \* rows of agent_memories, one per workspace named
    NotACopy,           \* a record that is no copy
    ChainDepth,         \* maxChainDepth
    FailuresToOpen,     \* ConfigConsecutiveFailuresToOpen
    MaxMemCalls, MaxMemFaults,    \* bounds
    KeyWriters,         \* the writers of one key of workspace_memory
    MaxKeyWrites        \* bound: writes of the key

ASSUME MemoriesAssumption ==
    /\ NoOwner \notin Owners
    /\ LegacyRows \subseteq Owners /\ NotACopy \notin LegacyRows
    /\ ChainDepth \in Nat \ {0} /\ FailuresToOpen \in Nat \ {0}
    /\ {MaxMemCalls, MaxMemFaults, MaxKeyWrites} \subseteq Nat

VARIABLES
    ownerRows, parentOf,    \* the workspaces table: its rows and their parents
    spaces, mem,            \* memory_namespaces and memory_records
    memCall,                \* the calls in flight
    pluginFailures,         \* the breaker's count, and breakerOpenedAt: zero, less
    breaker,                \* than ConfigBreakerCooldown ago, or longer ago
    memCalls, memFaults,    \* calls and faults so far
    ackedMem,               \* acknowledged records nobody has deleted since
    cleared,                \* purged workspaces whose namespace was dropped while
                            \* no call of theirs was in flight
    badStreak,              \* failures since the last success, as answered
    keyRow, keyWriter,      \* the row of the key; its writers
    keyWrites, overwritten  \* writes so far; what conditional writes replaced

storeVars == <<ownerRows, parentOf, spaces, mem, memCall, pluginFailures, breaker,
               memCalls, memFaults, ackedMem, cleared, badStreak>>
keyVars == <<keyRow, keyWriter, keyWrites, overwritten>>
memoryVars == <<storeVars, keyVars>>

Kinds == {"workspace", "team", "org"}
Spaces == Kinds \X Owners
IdleCall == [op |-> "idle", by |-> NoOwner, spaces |-> {}, id |-> 0, row |-> NotACopy,
             at |-> "over", wire |-> "none"]

-----------------------------------------------------------------------------
(* The namespaces of a workspace.                                          *)

IsRoot(w) == parentOf[w] = NoOwner

\* walkChain: the last workspace of the chain of parents, which is cut off.
RootOf(w) ==
    LET climb[n \in 0..ChainDepth] ==
            IF n = 0 THEN w
            ELSE IF IsRoot(climb[n - 1]) THEN climb[n - 1] ELSE parentOf[climb[n - 1]]
    IN IF IsRoot(w) THEN w ELSE climb[ChainDepth]

\* derive and ReadableNamespaces.
ReadableNamespaces(w) ==
    {<<"workspace", w>>, <<"team", IF IsRoot(w) THEN w ELSE parentOf[w]>>,
     <<"org", RootOf(w)>>}

\* WritableNamespaces: the organisation's is written by its root alone.
WritableNamespaces(w) ==
    {s \in ReadableNamespaces(w) : s[1] = "org" => IsRoot(w)}

\* CanWrite, for a namespace the caller names.
CanWrite(w, s) == w \in ownerRows /\ s \in WritableNamespaces(w)

\* IntersectReadable: nothing requested means everything readable.
IntersectReadable(w, requested) ==
    IF requested = {} THEN ReadableNamespaces(w)
    ELSE ReadableNamespaces(w) \intersect requested

-----------------------------------------------------------------------------
(* The calls.  Each resolves its namespaces at once and then goes to the   *)
(* plugin with what it found.                                              *)

Begin(q, op, w, nss, id, row, at) ==
    /\ memCall[q].at = "over" /\ memCalls < MaxMemCalls
    /\ memCalls' = memCalls + 1
    /\ memCall' = [memCall EXCEPT ![q] =
           [op |-> op, by |-> w, spaces |-> nss, id |-> id, row |-> row, at |-> at,
            wire |-> "none"]]
    /\ UNCHANGED <<ownerRows, parentOf, spaces, mem, pluginFailures, breaker,
                   memFaults, ackedMem, cleared, badStreak>>

\* The one writable namespace of a kind, by which the scopes LOCAL, TEAM and
\* GLOBAL are mapped: none for an organisation's below its root.
OfKind(w, kind) == {s \in WritableNamespaces(w) : s[1] = kind}

\* toolCommitMemoryV2.
ToolCommit(q, w, s) ==
    CanWrite(w, s) /\ Begin(q, "commit", w, {s}, memCalls + 1, NotACopy, "upsert")

\* commitMemoryLegacyShim: never the organisation's; CanWrite is asked again.
ShimCommit(q, w, kind) ==
    /\ w \in ownerRows /\ kind # "org"
    /\ \E s \in OfKind(w, kind) : ToolCommit(q, w, s)

\* MemoriesHandler.Commit, whose own look at parent_id can only refuse more.
HttpCommit(q, w, kind) ==
    /\ w \in ownerRows
    /\ \E s \in OfKind(w, kind) :
           Begin(q, "commit", w, {s}, memCalls + 1, NotACopy, "upsert")

\* importViaPlugin, one entry; a failing entry does not end the import.
ImportEntry(q, w, kind) ==
    /\ w \in ownerRows
    /\ \E s \in OfKind(w, kind) :
           Begin(q, "commit", w, {s}, memCalls + 1, NotACopy, "upsert")

\* The backfill's loop, one row: it carries the row's own id.  A run goes over
\* the rows again from the first, so that any row may be next.
CopyRow(q, w, kind) ==
    /\ w \in ownerRows \intersect LegacyRows
    /\ \A p \in MemCalls : memCall[p].at = "over" \/ memCall[p].op # "copy"
    /\ \E s \in OfKind(w, kind) : Begin(q, "copy", w, {s}, w, w, "upsert")

\* toolCommitSummary: it does not ask for the namespace to be created.
CommitSummary(q, w, s) ==
    CanWrite(w, s) /\ Begin(q, "commit", w, {s}, memCalls + 1, NotACopy, "commit")

\* toolSearchMemory; an empty intersection is answered without a call.
SearchMemory(q, w, requested) ==
    /\ w \in ownerRows /\ IntersectReadable(w, requested) # {}
    /\ Begin(q, "search", w, IntersectReadable(w, requested), 0, NotACopy, "search")

\* MemoriesV2Handler.Search asks for one namespace.
SearchView(q, w, s) == SearchMemory(q, w, {s})

\* MemoriesHandler.Search asks for all.
HttpSearch(q, w) ==
    /\ w \in ownerRows
    /\ Begin(q, "search", w, ReadableNamespaces(w), 0, NotACopy, "search")

\* recallMemoryLegacyShim: by scope, the kinds of which are given.
Scoped(w, kinds) == {s \in ReadableNamespaces(w) : s[1] \in kinds}
Recall(q, w, kinds) ==
    /\ w \in ownerRows
    /\ Begin(q, "search", w, Scoped(w, kinds), 0, NotACopy, "search")

\* exportViaPlugin, which belongs to no workspace: the shared namespaces of
\* every root and the private one of everybody below.
ExportSpaces ==
    UNION {ReadableNamespaces(r) : r \in {w \in ownerRows : IsRoot(w)}}
        \union {<<"workspace", w>> : w \in ownerRows}
Export(q) ==
    /\ ExportSpaces # {}
    /\ Begin(q, "search", NoOwner, ExportSpaces, 0, NotACopy, "search")

\* toolForgetMemory, in a namespace the caller may write.
ForgetTool(q, w, s, id) ==
    CanWrite(w, s) /\ Begin(q, "forget", w, {s}, id, NotACopy, "forget")

\* MemoriesV2Handler.Forget: the private namespace alone, without a look-up.
ForgetOwn(q, w, id) ==
    Begin(q, "forget", w, {<<"workspace", w>>}, id, NotACopy, "forget")

\* The tail of a purge: the row is gone, then its private namespace is dropped,
\* best effort; children lose their parent.
PurgeOwner(q, w) ==
    /\ w \in ownerRows
    /\ memCall[q].at = "over" /\ memCalls < MaxMemCalls
    /\ memCalls' = memCalls + 1
    /\ ownerRows' = ownerRows \ {w}
    /\ parentOf' = [v \in Owners |-> IF v = w \/ parentOf[v] = w THEN NoOwner
                                     ELSE parentOf[v]]
    /\ memCall' = [memCall EXCEPT ![q] =
           [op |-> "purge", by |-> w, spaces |-> {<<"workspace", w>>}, id |-> 0,
            row |-> NotACopy, at |-> "drop", wire |-> "none"]]
    /\ UNCHANGED <<spaces, mem, pluginFailures, breaker, memFaults, ackedMem, cleared,
                   badStreak>>

\* The tree changes under the calls (WorkspaceTree models how).
TreeMoves(w) ==
    /\ w \in ownerRows
    /\ \E p \in (ownerRows \ {w}) \union {NoOwner} :
           /\ p # parentOf[w] /\ (p # NoOwner => RootOf(p) # w /\ IsRoot(p))
           /\ parentOf' = [parentOf EXCEPT ![w] = p]
    /\ \A v \in Owners : parentOf[v] # w
    /\ memFaults < MaxMemFaults /\ memFaults' = memFaults + 1
    /\ UNCHANGED <<ownerRows, spaces, mem, memCall, pluginFailures, breaker,
                   memCalls, ackedMem, cleared, badStreak>>

-----------------------------------------------------------------------------
(* The client: doJSON around every call to the plugin.                     *)

CallEnds(q) == memCall' = [memCall EXCEPT ![q] = IdleCall]
Goes(q, at, wire) == memCall' = [memCall EXCEPT ![q].at = at, ![q].wire = wire]

\* breakerIsOpen, the read: closed sends, open refuses, and an open one whose
\* cooldown is over is reset, in a second critical section.
BreakerReads(q) ==
    /\ memCall[q].at # "over" /\ memCall[q].wire = "none"
    /\ \/ breaker = "closed" /\ Goes(q, memCall[q].at, "sent")
       \/ breaker = "open" /\ CallEnds(q)
       \/ breaker = "cooled" /\ Goes(q, memCall[q].at, "reset")
    /\ UNCHANGED <<ownerRows, parentOf, spaces, mem, pluginFailures, breaker,
                   memCalls, memFaults, ackedMem, cleared, badStreak>>

BreakerResets(q) ==
    /\ memCall[q].wire = "reset"
    /\ breaker' = "closed" /\ pluginFailures' = 0
    /\ Goes(q, memCall[q].at, "sent")
    /\ UNCHANGED <<ownerRows, parentOf, spaces, mem, memCalls, memFaults,
                   ackedMem, cleared, badStreak>>

RecordFailure ==
    /\ pluginFailures' = pluginFailures + 1
    /\ breaker' = IF pluginFailures + 1 >= FailuresToOpen /\ breaker = "closed"
                  THEN "open" ELSE breaker
    /\ badStreak' = badStreak + 1

RecordSuccess == pluginFailures' = 0 /\ breaker' = "closed" /\ badStreak' = 0

-----------------------------------------------------------------------------
(* The plugin's store.                                                     *)

Target(q) == CHOOSE s \in memCall[q].spaces : TRUE

\* CommitMemory: an id that is given replaces the record that has it; without
\* one the record gets an id of its own, here the number of its call.
MemRecord(q) == [id |-> memCall[q].id, space |-> Target(q), by |-> memCall[q].by,
                 row |-> memCall[q].row]

WithRecord(q) == {m \in mem : m.id # memCall[q].id} \union {MemRecord(q)}

ForgetsAnywhere(q) == {m \in mem : m.id = memCall[q].id}

\* ForgetMemory: the id in the namespace that was named, and in no other.
Forgotten(q) == {m \in mem : m.id = memCall[q].id /\ m.space = Target(q)}

\* DeleteNamespace: the records go with it (ON DELETE CASCADE).
Dropped(q) == {m \in mem : m.space = Target(q)}

Loses(gone) == mem' = mem \ gone /\ ackedMem' = ackedMem \ {m.id : m \in gone}

\* Search, for whoever asked.
Found(q) == {m \in mem : m.space \in memCall[q].spaces}

\* UpsertNamespace: ON CONFLICT the row is updated where it is.
UpsertNamespace(q) ==
    /\ spaces' = spaces \union {Target(q)}
    /\ UNCHANGED <<mem, ackedMem, cleared>>

\* A record without its namespace violates the foreign key: a 5xx.
Refused(q) == memCall[q].at = "commit" /\ Target(q) \notin spaces

CommitMemory(q, heard) ==
    /\ mem' = IF Refused(q) THEN mem ELSE WithRecord(q)
    /\ ackedMem' = ackedMem \union IF heard /\ ~Refused(q) THEN {memCall[q].id} ELSE {}
    /\ UNCHANGED <<spaces, cleared>>

DeleteNamespace(q) ==
    /\ spaces' = spaces \ {Target(q)} /\ Loses(Dropped(q))
    /\ cleared' = IF \E p \in MemCalls \ {q} : memCall[p].at \in {"upsert", "commit"}
                                             /\ memCall[p].by = memCall[q].by
                  THEN cleared ELSE cleared \union {memCall[q].by}

\* What the plugin does with a request that reaches it; a search changes nothing.
ServeHTTP(q, heard) ==
    \/ memCall[q].at = "upsert" /\ UpsertNamespace(q)
    \/ memCall[q].at = "commit" /\ CommitMemory(q, heard)
    \/ memCall[q].at = "search" /\ UNCHANGED <<spaces, mem, ackedMem, cleared>>
    \/ memCall[q].at = "forget" /\ Loses(Forgotten(q)) /\ UNCHANGED <<spaces, cleared>>
    \/ memCall[q].at = "drop" /\ DeleteNamespace(q)

\* The answer arrives; an upsert is followed by its commit.
Answered(q) ==
    /\ memCall[q].wire = "sent" /\ ServeHTTP(q, TRUE)
    /\ IF Refused(q) THEN RecordFailure ELSE RecordSuccess
    /\ IF memCall[q].at = "upsert" THEN Goes(q, "commit", "none") ELSE CallEnds(q)
    /\ UNCHANGED <<ownerRows, parentOf, memCalls, memFaults>>

\* The plugin cannot be reached, or it fails, or its answer is lost after it has
\* done what it was asked: the call ends in an error.
Unanswered(q) ==
    /\ memCall[q].wire = "sent"
    /\ memFaults < MaxMemFaults /\ memFaults' = memFaults + 1
    /\ ServeHTTP(q, FALSE) \/ UNCHANGED <<spaces, mem, ackedMem, cleared>>
    /\ RecordFailure
    /\ CallEnds(q)
    /\ UNCHANGED <<ownerRows, parentOf, memCalls>>

\* ConfigBreakerCooldown passes.
BreakerCools ==
    /\ breaker = "open" /\ breaker' = "cooled"
    /\ UNCHANGED <<ownerRows, parentOf, spaces, mem, memCall, pluginFailures, memCalls,
                   memFaults, ackedMem, cleared, badStreak>>

StoreInit ==
    /\ ownerRows = Owners
    /\ \E r \in Owners : parentOf = [w \in Owners |-> IF w = r THEN NoOwner ELSE r]
    /\ spaces = {} /\ mem = {} /\ memCall = [q \in MemCalls |-> IdleCall]
    /\ pluginFailures = 0 /\ breaker = "closed" /\ memCalls = 0 /\ memFaults = 0
    /\ ackedMem = {} /\ cleared = {} /\ badStreak = 0

StoreCall(q) ==
    /\ memCall[q].at = "over" /\ memCalls < MaxMemCalls
    /\ \/ \E w \in Owners :
              \/ \E s \in Spaces : ToolCommit(q, w, s) \/ CommitSummary(q, w, s)
              \/ \E k \in Kinds : \/ ShimCommit(q, w, k) \/ HttpCommit(q, w, k)
                                   \/ ImportEntry(q, w, k) \/ CopyRow(q, w, k)
              \/ SearchMemory(q, w, {}) \/ HttpSearch(q, w)
              \/ \E s \in Spaces : SearchMemory(q, w, {s}) \/ SearchView(q, w, s)
              \/ \E ks \in {{"workspace"}, {"workspace", "team"}} : Recall(q, w, ks)
              \/ \E m \in mem : \/ ForgetOwn(q, w, m.id)
                                \/ \E s \in Spaces : ForgetTool(q, w, s, m.id)
              \/ PurgeOwner(q, w)
       \/ Export(q)

StoreNext ==
    /\ \/ \E q \in MemCalls : \/ StoreCall(q) \/ BreakerReads(q) \/ BreakerResets(q)
                              \/ Answered(q) \/ Unanswered(q)
       \/ \E w \in Owners : TreeMoves(w)
       \/ BreakerCools
    /\ UNCHANGED keyVars

-----------------------------------------------------------------------------
(* One key of workspace_memory.                                            *)

NoKey == [version |-> 0, value |-> 0, fresh |-> FALSE]
IdleWriter == [at |-> "get", version |-> 0, value |-> 0, replaced |-> FALSE]

\* MemoryHandler.Get: an expired row is not found, and then the caller expects
\* version 0, that is, no row.
KeyGet(p) ==
    /\ keyWriter[p].at = "get"
    /\ keyWriter' = [keyWriter EXCEPT ![p] =
           IF keyRow.fresh
           THEN [at |-> "set", version |-> keyRow.version, value |-> keyRow.value,
                 replaced |-> FALSE]
           ELSE [at |-> "set", version |-> 0, value |-> 0, replaced |-> FALSE]]
    /\ UNCHANGED <<keyRow, keyWrites, overwritten>>

KeyGoes(p, at) == keyWriter' = [keyWriter EXCEPT ![p].at = at]
KeyWrite(version) ==
    /\ keyWrites < MaxKeyWrites /\ keyWrites' = keyWrites + 1
    /\ keyRow' = [version |-> version, value |-> keyWrites + 1, fresh |-> TRUE]

\* Set without if_match_version: the last writer wins.
KeySet(p) ==
    /\ keyWriter[p].at = "get"
    /\ KeyWrite(keyRow.version + 1)
    /\ UNCHANGED <<keyWriter, overwritten>>

VersionMatches(p) == keyRow.version > 0 /\ keyRow.version = keyWriter[p].version

\* Set with if_match_version: one conditional UPDATE, which an expired row can
\* satisfy too, ...
KeyUpdate(p) ==
    /\ keyWriter[p].at = "set"
    /\ IF VersionMatches(p)
       THEN /\ KeyWrite(keyRow.version + 1) /\ KeyGoes(p, "get")
            /\ overwritten' = overwritten \union
                   {[read |-> keyWriter[p].value, found |-> keyRow.value,
                     replaced |-> keyWriter[p].replaced]}
       ELSE KeyGoes(p, "probe") /\ UNCHANGED <<keyRow, keyWrites, overwritten>>

\* ... then, when it found nothing, a look at the row: there is one, or the
\* caller expected one, and it is told 409; else the row is created.
KeyProbe(p) ==
    /\ keyWriter[p].at = "probe"
    /\ KeyGoes(p, IF keyRow.version > 0 \/ keyWriter[p].version > 0 THEN "get"
                  ELSE "create")
    /\ UNCHANGED <<keyRow, keyWrites, overwritten>>

\* The unique index refuses a second row: 500.
KeyCreate(p) ==
    /\ keyWriter[p].at = "create" /\ KeyGoes(p, "get")
    /\ IF keyRow.version = 0 THEN KeyWrite(1) ELSE UNCHANGED <<keyRow, keyWrites>>
    /\ UNCHANGED overwritten

\* Delete, and a row's time to live, which hides it and leaves it there. The
\* versions of a row created again start over.
KeyDelete ==
    /\ keyRow.version > 0 /\ keyRow' = NoKey
    /\ keyWriter' = [p \in KeyWriters |-> [keyWriter[p] EXCEPT !.replaced = TRUE]]
    /\ UNCHANGED <<keyWrites, overwritten>>

KeyExpires ==
    /\ keyRow.fresh /\ keyRow' = [keyRow EXCEPT !.fresh = FALSE]
    /\ UNCHANGED <<keyWriter, keyWrites, overwritten>>

KeyInit ==
    /\ keyRow = NoKey /\ keyWriter = [p \in KeyWriters |-> IdleWriter]
    /\ keyWrites = 0 /\ overwritten = {}

KeyNext ==
    /\ \/ \E p \in KeyWriters : \/ KeyGet(p) \/ KeySet(p) \/ KeyUpdate(p)
                                 \/ KeyProbe(p) \/ KeyCreate(p)
       \/ KeyDelete \/ KeyExpires
    /\ UNCHANGED storeVars

MemoriesInit == StoreInit /\ KeyInit
MemoriesNext == StoreNext \/ KeyNext
MemoriesSpec == MemoriesInit /\ [][MemoriesNext]_memoryVars

-----------------------------------------------------------------------------
\* The type invariant.
MemoriesTypeOK ==
    /\ ownerRows \subseteq Owners /\ parentOf \in [Owners -> Owners \union {NoOwner}]
    /\ spaces \subseteq Spaces /\ \A m \in mem : m.space \in Spaces /\ m.by \in Owners
    /\ \A q \in MemCalls : memCall[q].wire \in {"none", "reset", "sent"}
    /\ breaker \in {"closed", "open", "cooled"}
    /\ keyRow.version \in 0..MaxKeyWrites

\* A record is housed: its namespace exists (the foreign key, which a commit
\* racing DeleteNamespace runs into).
RecordsAreHoused == \A m \in mem : m.space \in spaces

\* What is private to a workspace was written for it, what belongs to an
\* organisation by its root, and nobody but the export reads the private
\* records of another, wherever workspaces move between look-up and call
\* (ReadableNamespaces, WritableNamespaces, the scopes of five entry points).
OwnersWrite ==
    /\ \A m \in mem : m.space[1] # "team" => m.by = m.space[2]
    /\ \A q \in MemCalls : (memCall[q].at = "search" /\ memCall[q].by # NoOwner) =>
           \A m \in Found(q) : m.space[1] = "workspace" => m.by = memCall[q].by

\* A record that was acknowledged is there until somebody who was allowed to
\* write its namespace forgot it or its owner was purged (UpsertNamespace and
\* CommitMemory leave the others alone, ForgetMemory looks at the namespace).
AckedIsRemembered ==
    /\ \A i \in ackedMem : \E m \in mem : m.id = i
    /\ \A q \in MemCalls : memCall[q].at = "forget" =>
           \A m \in Forgotten(q) : m.space \in memCall[q].spaces

\* However often the backfill runs, is stopped or loses an answer, a row of
\* agent_memories has one copy at most (its id is the record's).
CopiedOnce == \A m, n \in mem : (m.row = n.row /\ m.row # NotACopy) => m = n

\* The private records of a purged workspace go with its namespace and never
\* come back, unless a call of its own was in flight when it was dropped.
PurgedIsForgotten == \A m \in mem : m.space \notin {<<"workspace", w>> : w \in cleared}

\* The breaker is open only while the last answers, three of them at least,
\* were failures (recordFailure, recordSuccess, the half-open reset).
OpenIsEarned == breaker # "closed" => badStreak >= FailuresToOpen

\* A write conditional on a version replaces the value its writer had read,
\* unless the row was deleted and created again meanwhile (Set).
NoLostUpdate == \A o \in overwritten : o.replaced \/ o.read = o.found

\* Refuted: only a plugin that fails opens the breaker.  A summary committed
\* before anything else runs into the foreign key, and that is a 5xx too.
OpenIsThePlugins == breaker # "closed" => memFaults > 0

\* Refuted: nothing private is left of a purged workspace.  A commit that was
\* resolved before creates the namespace again.
PurgedLeavesNothing ==
    \A w \in Owners \ ownerRows :
        (\A q \in MemCalls : memCall[q].by # w) =>
            \A m \in mem : m.space # <<"workspace", w>>

\* Refuted: a conditional write replaces what its writer read.  The versions of
\* a key that was deleted and set again are the old ones again.
ConditionalIsExact == \A o \in overwritten : o.read = o.found

\* The memory plugin's client, store and callers, and the key-value table.
MemoriesAreKept ==
    /\ MemoriesTypeOK /\ RecordsAreHoused /\ OwnersWrite /\ AckedIsRemembered
    /\ CopiedOnce /\ PurgedIsForgotten /\ OpenIsEarned /\ NoLostUpdate

=============================================================================
