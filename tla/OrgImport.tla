------------------------------ MODULE OrgImport ------------------------------
(***************************************************************************)
(* Importing an organisation template: the template is read (an external   *)
(* part through a cache on disk), the required secrets are checked, the    *)
(* tree of workspaces is created node by node, and in reconcile mode the   *)
(* rows of earlier imports with the same names are deleted.  Several       *)
(* imports, a user's delete and a process restart overlap.                 *)
(*                                                                         *)
(* Source: workspace-server/internal/handlers, org.go, org_import.go,      *)
(* org_helpers.go, org_external.go, org_include.go.                        *)
(***************************************************************************)
EXTENDS Naturals, Sequences, FiniteSets

CONSTANTS
    Importers,       \* import calls that may run side by side
    Concurrency,     \* MOLECULE_PROVISION_CONCURRENCY, per import
    MaxSchedules,    \* maxTemplateSchedules
    MaxImports,      \* bound: import calls
    MaxImportRows,   \* bound: rows
    MaxRefs,         \* bound: commits of the external part
    MaxOrgDeletes,   \* bound: deletes by a user
    MaxImportFaults  \* bound: failed statements, commands, process restarts

ASSUME ImportAssumption ==
    /\ {MaxSchedules, MaxImports, MaxImportRows, MaxRefs, MaxOrgDeletes, MaxImportFaults} \subseteq Nat
    /\ Concurrency \in Nat \ {0}

\* The template: a lead with one report.  Rows of an organisation that was
\* imported before stand at the top or under the platform agent.
Nodes == {"lead", "dev"}
Children(n) == IF n = "lead" THEN <<"dev">> ELSE <<>>
RowIds == 1..MaxImportRows
NoId == 0
Top == 0
Platform == MaxImportRows + 1

VARIABLES
    anchored,   \* whether the platform agent's row is there
    org,        \* the template: for each node its kind, spawning, validity, schedules
    needs,      \* the secrets the template requires
    globals,    \* the global secrets that have a value
    external,   \* whether a part of the template is external
    ref,        \* the commit its ref is at
    cache,      \* what lies complete in the cache directory of each commit
    orgRows,    \* the workspaces
    call,       \* each import: where it is and what it holds
    starting,   \* provisioning goroutines, each holding a slot of its import
    importFaults, imports, orgDeletes

importVars == <<anchored, org, needs, globals, external, ref, cache, orgRows, call, starting,
             importFaults, imports, orgDeletes>>
template == <<anchored, org, needs, globals, external>>
counters == <<importFaults, imports, orgDeletes>>

NoRowYet == [name |-> "none", parent |-> Top, status |-> "absent", model |-> FALSE,
             schedules |-> {}, plugins |-> {}, channels |-> FALSE]
NoCall == [pc |-> "idle", mode |-> "merge", todo |-> <<>>, reported |-> {}, at |-> NoId,
           orphans |-> {}, sha |-> 0, failed |-> FALSE]

LiveRow(id) == orgRows[id].status \notin {"absent", "removed"}
FreshIds == {id \in RowIds : orgRows[id].status = "absent"}

\* A required secret is one name, or a group of which any one will do.
EnvNames == {"k", "l"}
EnvGroups == [names : SUBSET EnvNames, strict : {FALSE}] \union [names : {{n} : n \in EnvNames}, strict : {TRUE}]

\* Two nodes, of whatever kind; an older tree at the top, or none.
OldTree(old) ==
    [id \in RowIds |->
        IF ~old \/ id > 2 THEN NoRowYet
        ELSE [NoRowYet EXCEPT !.name = IF id = 1 THEN "lead" ELSE "dev", !.status = "online",
                              !.parent = IF id = 1 THEN Top ELSE 1, !.model = TRUE]]
ImportInit ==
    /\ anchored \in BOOLEAN
    /\ org \in [Nodes -> [kind : {"agent", "external", "mock"}, spawning : BOOLEAN, valid : BOOLEAN,
                          schedules : {<<>>, <<[slug |-> "s", ok |-> TRUE], [slug |-> "s", ok |-> TRUE]>>}]]
    /\ needs \in {R \in SUBSET EnvGroups : Cardinality(R) <= 3}
    /\ globals \in SUBSET EnvNames
    /\ external \in BOOLEAN
    /\ ref = 1 /\ cache = [c \in 1..MaxRefs |-> 0]
    /\ \E old \in BOOLEAN : orgRows = OldTree(old)
    /\ call = [i \in Importers |-> NoCall]
    /\ starting = {}
    /\ importFaults = 0 /\ imports = 0 /\ orgDeletes = 0

ImportFault ==
    /\ importFaults < MaxImportFaults /\ importFaults' = importFaults + 1
    /\ UNCHANGED <<imports, orgDeletes>>
CallAt(i, pc) == call[i].pc = pc
CallGoes(i, pc) == call' = [call EXCEPT ![i].pc = pc]
CallEnds(i) == call' = [call EXCEPT ![i] = NoCall]

---------------------------------------------------------------------------
(* Reading the template.                                                   *)

Import(i) ==
    /\ CallAt(i, "idle") /\ imports < MaxImports /\ imports' = imports + 1
    /\ \E mode \in {"merge", "reconcile"} :
          call' = [call EXCEPT ![i] = [NoCall EXCEPT !.pc = IF external THEN "resolve" ELSE "preflight",
                                                     !.mode = mode]]
    /\ UNCHANGED <<template, ref, cache, orgRows, starting, importFaults, orgDeletes>>

\* ls-remote names the commit; a complete directory is used as it is, any
\* other is removed and cloned anew, the clone of the ref and not the commit.
resolveRefToSHA(i) ==
    /\ CallAt(i, "resolve")
    /\ \/ /\ call' = [call EXCEPT ![i].sha = ref, ![i].pc = IF cache[ref] # 0 THEN "read" ELSE "wipe"]
          /\ UNCHANGED counters
       \/ ImportFault /\ CallEnds(i)
    /\ UNCHANGED <<template, ref, cache, orgRows, starting>>
FetchWipes(i) ==
    /\ CallAt(i, "wipe")
    /\ cache' = [cache EXCEPT ![call[i].sha] = 0] /\ CallGoes(i, "clone")
    /\ UNCHANGED <<template, ref, orgRows, starting, counters>>
FetchClones(i) ==
    /\ CallAt(i, "clone")
    /\ \/ call' = [call EXCEPT ![i].pc = "rename", ![i].at = ref] /\ UNCHANGED counters
       \/ ImportFault /\ CallEnds(i)
    /\ UNCHANGED <<template, ref, cache, orgRows, starting>>
\* A rename onto a directory that is there fails: then the winner's is used.
FetchRenames(i) ==
    /\ CallAt(i, "rename")
    /\ call' = [call EXCEPT ![i].pc = "read", ![i].at = NoId]
    /\ cache' = IF cache[call[i].sha] = 0 THEN [cache EXCEPT ![call[i].sha] = call[i].at] ELSE cache
    /\ UNCHANGED <<template, ref, orgRows, starting, counters>>
\* The file must be there; another import may have removed it.
resolveExternalMapping(i) ==
    /\ CallAt(i, "read")
    /\ IF cache[call[i].sha] = 0 THEN CallEnds(i) ELSE CallGoes(i, "preflight")
    /\ UNCHANGED <<template, ref, cache, orgRows, starting, counters>>
RefMoves ==
    /\ external /\ ref < MaxRefs /\ ref' = ref + 1
    /\ UNCHANGED <<template, cache, orgRows, call, starting, counters>>

---------------------------------------------------------------------------
(* The preflight: required secrets against the global ones.                *)

Members(r) == r.names
IsSatisfied(r, configured) == Members(r) \intersect configured # {}
StrictNames(reqs) == UNION {r.names : r \in {q \in reqs : q.strict}}
\* Within a tier a strict name absorbs the groups that mention it.
pruneSameTier(reqs) == {r \in reqs : r.strict \/ r.names \intersect StrictNames(reqs) = {}}
collectOrgEnv(reqs) == pruneSameTier({r \in reqs : r.names # {}})

preflightMissing == {r \in collectOrgEnv(needs) : ~IsSatisfied(r, globals)}
Preflight(i) ==
    /\ CallAt(i, "preflight")
    /\ \/ /\ IF preflightMissing # {} THEN CallEnds(i) ELSE CallGoes(i, "plan")
          /\ UNCHANGED counters
       \/ ImportFault /\ CallEnds(i)
    /\ UNCHANGED <<template, ref, cache, orgRows, starting>>

---------------------------------------------------------------------------
(* The tree.                                                               *)

\* Under the platform agent if its row is found; an error reads as not found.
lookupPlatformAgentAnchor(i, parent) ==
    \/ parent = (IF anchored THEN Platform ELSE Top) /\ UNCHANGED counters
    \/ anchored /\ parent = Top /\ ImportFault
planTopLevelImport(i) ==
    /\ CallAt(i, "plan")
    /\ \E parent \in {Top, Platform} :
          /\ lookupPlatformAgentAnchor(i, parent)
          /\ call' = [call EXCEPT ![i].pc = "create", ![i].todo = <<[node |-> "lead", parent |-> parent]>>]
    /\ UNCHANGED <<template, ref, cache, orgRows, starting>>

Next1(i) == Head(call[i].todo)
\* The subtree below a node comes next, then what was waiting.
recurseChildrenForImport(i, id) ==
    LET kids == Children(Next1(i).node)
    IN [j \in 1..Len(kids) |-> [node |-> kids[j], parent |-> id]] \o Tail(call[i].todo)
lookupExistingChild(name, parent) ==
    {id \in RowIds : LiveRow(id) /\ orgRows[id].name = name /\ orgRows[id].parent = parent}

\* A node that is not spawned is left out with its subtree; one that is not
\* valid ends the import.  The insert gives way to a live row of that name
\* under that parent.
createWorkspaceTree(i) ==
    /\ CallAt(i, "create") /\ call[i].todo # <<>>
    /\ LET n == Next1(i).node IN
       \/ /\ ~org[n].spawning
          /\ call' = [call EXCEPT ![i].todo = Tail(call[i].todo)]
          /\ UNCHANGED <<orgRows, counters>>
       \/ /\ org[n].spawning /\ ~org[n].valid
          /\ call' = [call EXCEPT ![i].pc = "reload", ![i].failed = TRUE]
          /\ UNCHANGED <<orgRows, counters>>
       \/ /\ org[n].spawning /\ org[n].valid
          /\ IF lookupExistingChild(n, Next1(i).parent) # {}
             THEN CallGoes(i, "conflict") /\ UNCHANGED orgRows
             ELSE \E id \in FreshIds :
                     /\ \A other \in FreshIds : id <= other
                     /\ orgRows' = [orgRows EXCEPT ![id] =
                           [NoRowYet EXCEPT !.name = n, !.parent = Next1(i).parent, !.status = "provisioning"]]
                     /\ call' = [call EXCEPT ![i].pc = "fill", ![i].at = id]
          /\ UNCHANGED counters
       \/ /\ org[n].spawning /\ org[n].valid /\ ImportFault
          /\ call' = [call EXCEPT ![i].pc = "reload", ![i].failed = TRUE]
          /\ UNCHANGED orgRows
    /\ UNCHANGED <<template, ref, cache, starting>>

\* The row in the way is looked up; it may have been deleted since.
ConflictForgets(i) ==
    /\ CallAt(i, "conflict")
    /\ LET found == lookupExistingChild(Next1(i).node, Next1(i).parent)
       IN IF found = {} THEN call' = [call EXCEPT ![i].pc = "reload", ![i].failed = TRUE]
          ELSE \E id \in found :
                  call' = [call EXCEPT ![i].pc = "create", ![i].todo = recurseChildrenForImport(i, id)]
    /\ UNCHANGED <<template, ref, cache, orgRows, starting, counters>>
ConflictReselects(i) ==
    /\ CallAt(i, "conflict")
    /\ LET found == lookupExistingChild(Next1(i).node, Next1(i).parent)
       IN IF found = {} THEN call' = [call EXCEPT ![i].pc = "reload", ![i].failed = TRUE]
          ELSE \E id \in found :
                  call' = [call EXCEPT ![i].pc = "create", ![i].reported = @ \union {id},
                                       ![i].todo = recurseChildrenForImport(i, id)]
    /\ UNCHANGED <<template, ref, cache, orgRows, starting, counters>>

\* The first valid schedule of each slug is rendered, up to the limit.
renderTemplateSchedulesYAML(scheds) ==
    LET Claims(k) == scheds[k].ok /\ \A j \in 1..(k - 1) : scheds[j].ok => scheds[j].slug # scheds[k].slug
    IN {k \in DOMAIN scheds :
           Claims(k) /\ Cardinality({j \in 1..(k - 1) : Claims(j)}) < MaxSchedules}
\* Entries of the node add to the defaults or, marked, take away; the last one counts.
mergePlugins(defaults, entries) ==
    LET Last(p) == {k \in DOMAIN entries :
                       entries[k].name = p /\ \A j \in DOMAIN entries : entries[j].name = p => j <= k}
    IN {p \in defaults \union {entries[k].name : k \in DOMAIN entries} :
           IF Last(p) = {} THEN p \in defaults ELSE \A k \in Last(p) : ~entries[k].drop}
NodeEntries(n) == IF n = "dev" THEN <<[name |-> "scheduler", drop |-> TRUE]>> ELSE <<>>

\* The row is filled, each write best effort: its model, layout and memories;
\* then, by kind, it is online at once or gets its config, plugins, schedules,
\* prompts and secrets.  A config that cannot be generated fails the row.
FilledRow(row, n, lost) ==
    LET rendered == renderTemplateSchedulesYAML(org[n].schedules)
        declared == mergePlugins({"scheduler"}, NodeEntries(n))
        base == [row EXCEPT !.model = lost # "model"]
    IN IF org[n].kind # "agent" THEN [base EXCEPT !.status = "online"]
       ELSE IF lost = "config" THEN [base EXCEPT !.status = "failed"]
       ELSE [base EXCEPT
               !.schedules = {org[n].schedules[k].slug : k \in rendered},
               !.plugins = IF lost = "declare" THEN {}
                           ELSE declared \union (IF rendered # {} THEN {"scheduler"} ELSE {})]
\* The write of online does not look at the status: a row deleted meanwhile
\* comes back, if its name is still free.
Revivable(id, n) == org[n].kind # "agent" /\ lookupExistingChild(n, orgRows[id].parent) = {}
FillRow(i) ==
    /\ CallAt(i, "fill")
    /\ LET id == call[i].at n == Next1(i).node IN
       /\ \E lost \in {"none", "model", "config", "declare"} :
             /\ IF lost = "none" THEN UNCHANGED counters ELSE ImportFault
             /\ orgRows' = [orgRows EXCEPT ![id] = IF @.status = "removed" /\ ~Revivable(id, n) THEN @
                                                   ELSE FilledRow(@, n, lost)]
             /\ CallGoes(i, IF org[n].kind = "agent" /\ lost # "config" THEN "slot" ELSE "report")
    /\ UNCHANGED <<template, ref, cache, starting>>

\* A slot of the import's semaphore, then a goroutine that gives it back.
Held(i) == {s \in starting : s[1] = i}
TakeSlot(i) ==
    /\ CallAt(i, "slot") /\ Cardinality(Held(i)) < Concurrency
    /\ starting' = starting \union {<<i, call[i].at>>} /\ CallGoes(i, "report")
    /\ UNCHANGED <<template, ref, cache, orgRows, counters>>
provisionWorkspaceAuto(s) ==
    /\ s \in starting /\ starting' = starting \ {s}
    /\ LET Ends(status) == orgRows' = IF orgRows[s[2]].status = "provisioning"
                                      THEN [orgRows EXCEPT ![s[2]].status = status] ELSE orgRows
       IN \/ Ends("online") /\ UNCHANGED counters
          \/ Ends("failed") /\ ImportFault
    /\ UNCHANGED <<template, ref, cache, call>>

\* The channels are upserted and the node is reported.
importChannels(i) ==
    /\ CallAt(i, "report")
    /\ orgRows' = [orgRows EXCEPT ![call[i].at].channels = TRUE]
    /\ call' = [call EXCEPT ![i].pc = "create", ![i].reported = @ \union {call[i].at}, ![i].at = NoId,
                            ![i].todo = recurseChildrenForImport(i, call[i].at)]
    /\ UNCHANGED <<template, ref, cache, starting, counters>>

---------------------------------------------------------------------------
(* Reconcile.                                                              *)

AllCreated(i) ==
    /\ CallAt(i, "create") /\ call[i].todo = <<>> /\ CallGoes(i, "reload")
    /\ UNCHANGED <<template, ref, cache, orgRows, starting, counters>>
\* Pollers are reloaded; the answer follows unless rows are to be compared.
ReloadAndGo(i) ==
    /\ CallAt(i, "reload")
    /\ IF call[i].mode = "reconcile" /\ ~call[i].failed /\ call[i].reported # {}
       THEN CallGoes(i, "orphans") ELSE CallEnds(i)
    /\ UNCHANGED <<template, ref, cache, orgRows, starting, counters>>

\* Every name of the tree, those of nodes that are not spawned included.
walkOrgWorkspaceNames == Nodes
SelectOrphans(i) ==
    /\ CallAt(i, "orphans")
    /\ \/ /\ call' = [call EXCEPT ![i].pc = "delete",
                 ![i].orphans = {id \in RowIds : /\ LiveRow(id) /\ id \notin call[i].reported
                                                 /\ orgRows[id].name \in walkOrgWorkspaceNames}]
          /\ UNCHANGED counters
       \/ ImportFault /\ CallEnds(i)
    /\ UNCHANGED <<template, ref, cache, orgRows, starting>>

\* A row and the live rows below it.
Below(id) == {d \in RowIds : LiveRow(d) /\ orgRows[d].parent = id}
Removed(id) ==
    [r \in RowIds |-> IF r = id \/ r \in Below(id) THEN [orgRows[r] EXCEPT !.status = "removed"]
                      ELSE orgRows[r]]
DeleteOrphan(i) ==
    /\ CallAt(i, "delete")
    /\ \E id \in call[i].orphans :
          /\ call' = [call EXCEPT ![i].orphans = @ \ {id}]
          /\ \/ orgRows' = Removed(id) /\ UNCHANGED counters
             \/ UNCHANGED orgRows /\ ImportFault
    /\ UNCHANGED <<template, ref, cache, starting>>
ImportAnswers(i) ==
    /\ CallAt(i, "delete") /\ call[i].orphans = {} /\ CallEnds(i)
    /\ UNCHANGED <<template, ref, cache, orgRows, starting, counters>>

---------------------------------------------------------------------------
(* A user's delete; a restart of the process.                              *)

DeleteRow ==
    /\ orgDeletes < MaxOrgDeletes /\ orgDeletes' = orgDeletes + 1
    /\ \E id \in RowIds : LiveRow(id) /\ orgRows' = Removed(id)
    /\ UNCHANGED <<template, ref, cache, call, starting, importFaults, imports>>
ServerRestarts ==
    /\ ImportFault /\ (starting # {} \/ \E i \in Importers : ~CallAt(i, "idle"))
    /\ call' = [i \in Importers |-> NoCall] /\ starting' = {}
    /\ UNCHANGED <<template, ref, cache, orgRows>>

ImportStep(i) ==
    \/ resolveRefToSHA(i) \/ FetchWipes(i) \/ FetchClones(i) \/ FetchRenames(i)
    \/ resolveExternalMapping(i) \/ Preflight(i) \/ planTopLevelImport(i)
    \/ createWorkspaceTree(i) \/ ConflictReselects(i) \/ FillRow(i) \/ TakeSlot(i)
    \/ importChannels(i) \/ AllCreated(i) \/ ReloadAndGo(i) \/ SelectOrphans(i)
    \/ DeleteOrphan(i) \/ ImportAnswers(i)
ProvisionEnds == \E s \in starting : provisionWorkspaceAuto(s)

ImportNext ==
    \/ \E i \in Importers : Import(i) \/ ImportStep(i)
    \/ ProvisionEnds \/ RefMoves \/ DeleteRow \/ ServerRestarts

\* Handlers and goroutines run on.
ImportFairness ==
    /\ \A i \in Importers : WF_importVars(ImportStep(i))
    /\ WF_importVars(ProvisionEnds)

ImportSpec == ImportInit /\ [][ImportNext]_importVars /\ ImportFairness

---------------------------------------------------------------------------
(* Properties.                                                             *)

\* One type invariant.
ImportTypeOK ==
    /\ \A id \in RowIds : orgRows[id].status \in {"absent", "provisioning", "online", "failed", "removed"}
    /\ starting \subseteq Importers \X RowIds
    /\ \A i \in Importers : call[i].reported \subseteq RowIds

\* The preflight asks for neither more nor less than the template requires:
\* what is absorbed by a strict name is satisfied with it.  A group that names
\* nothing is ignored.
PreflightIsExact ==
    [][\A i \in Importers :
          (CallAt(i, "preflight") /\ call'[i] # call[i] /\ importFaults' = importFaults)
              => (call'[i].pc = "plan" <=> \A r \in needs : r.names # {} => IsSatisfied(r, globals))]_importVars

\* Two rows of one name under one parent are never live together.
NamesAreUnique ==
    \A a, b \in RowIds : (LiveRow(a) /\ LiveRow(b) /\ a # b)
        => <<orgRows[a].name, orgRows[a].parent>> # <<orgRows[b].name, orgRows[b].parent>>

\* A rendered schedule has the plugin that fires it, even if the node took
\* that plugin out of the defaults.
SchedulesHaveScheduler ==
    \A id \in RowIds : orgRows[id].schedules # {} => ("scheduler" \in orgRows[id].plugins \/ importFaults > 0)

\* A reconcile removes no row that its own import reported, directly or below
\* a row it removes.
OwnAreKept ==
    [][\A i \in Importers :
          (CallAt(i, "delete") /\ call'[i].orphans # call[i].orphans)
              => \A id \in call[i].reported : orgRows'[id].status = orgRows[id].status]_importVars

\* When an import answers without an error, and nothing failed or was deleted
\* meanwhile, the spawned part of the template stands where it was planned,
\* whatever other imports of it did; and after a reconcile nothing else of
\* those names is left.
Planned(n) ==
    LET lead == lookupExistingChild("lead", IF anchored THEN Platform ELSE Top)
    IN IF n = "lead" THEN lead # {} ELSE \E id \in lead : lookupExistingChild("dev", id) # {}
TemplateStands ==
    [][\A i \in Importers :
          (/\ call[i].pc \in {"reload", "delete"} /\ call'[i].pc = "idle" /\ ~call[i].failed
           /\ importFaults' = 0 /\ orgDeletes' = 0)
             => /\ \A n \in Nodes : (org["lead"].spawning /\ org[n].spawning) => Planned(n)
                /\ call[i].pc = "delete" =>
                      \A id \in RowIds : (LiveRow(id) /\ orgRows[id].name \in Nodes) => id \in call[i].reported]_importVars

\* Imports end, and what they started to provision settles unless the process
\* was restarted.
ImportsSettle ==
    /\ \A i \in Importers : []<>CallAt(i, "idle")
    /\ []<>((\A id \in RowIds : orgRows[id].status # "provisioning") \/ importFaults > 0)

\* An organisation is imported as its template says.
ImportsAreKept ==
    /\ [](ImportTypeOK /\ NamesAreUnique /\ SchedulesHaveScheduler)
    /\ PreflightIsExact /\ OwnAreKept /\ TemplateStands /\ ImportsSettle

\* Refuted: a node whose spawning is off keeps its workspace, its "names ...
\* remain registered so reconcile won't double-create them".  Its name is in
\* the list and its row is not among the reported ones: it is deleted.
SkippedIsKept ==
    [][\A id \in RowIds : (orgDeletes' = orgDeletes /\ LiveRow(id) /\ ~org[orgRows[id].name].spawning)
          => orgRows'[id].status # "removed"]_importVars

\* Refuted: importing the same template again keeps what it created.  A failed
\* read of the platform agent plans a second tree at the top, and the
\* reconcile deletes the first.
ReimportKeepsTree ==
    [][\A id \in RowIds : (/\ orgDeletes' = orgDeletes /\ LiveRow(id)
                           /\ orgRows[id].parent = (IF anchored THEN Platform ELSE Top)
                           /\ org["lead"].spawning)
          => orgRows'[id].status # "removed"]_importVars

\* Refuted: the directory of a commit holds that commit.  The clone takes
\* whatever the ref is at by then.
CacheIsExact == \A c \in 1..MaxRefs : cache[c] \in {0, c}

\* Refuted: a re-import repairs what an interrupted one left.  The row is
\* there, so it is skipped, and nobody provisions it.
RepeatProvisions ==
    []<>(\A id \in RowIds : orgRows[id].status = "provisioning" => \E s \in starting : s[2] = id)

=============================================================================
