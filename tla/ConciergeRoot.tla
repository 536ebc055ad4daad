--------------------------- MODULE ConciergeRoot ---------------------------
(***************************************************************************)
(* The org's concierge: the one row of kind platform at the top of the     *)
(* tree, and what its box is started with.  The row is written by a        *)
(* row-only install call, by the create-or-repair call and by the seed of  *)
(* a self-hosted boot; every provision seeds model, provider pin, admin    *)
(* credential and persona beside the owner's own model writes.             *)
(*                                                                         *)
(* Source: workspace-server/internal/handlers, platform_agent.go,          *)
(* platform_agent_ensure.go, platform_agent_flow.go and secrets.go.        *)
(***************************************************************************)
EXTENDS Naturals, FiniteSets

CONSTANTS
    Canonical, Foreign, Team, Fresh,  \* rows: the derived id, another id, a root, one being created
    NoRow,
    MaxConciergeFaults  \* bound: failed statements and calls

ASSUME ConciergeAssumption ==
    /\ Canonical \notin {Foreign, Team, Fresh, NoRow} /\ Foreign \notin {Team, Fresh, NoRow}
    /\ Team \notin {Fresh, NoRow} /\ Fresh # NoRow
    /\ MaxConciergeFaults \in Nat

Rows == {Canonical, Foreign, Team, Fresh}
RootWriters == {"cp", "ensure", "boot"}
PlatformModels == {"p1", "p2"}
NoModel == "none"

VARIABLES
    wsRow,        \* each row: status, kind is platform, parent
    txHolder,     \* the install that has written the platform row and not committed
    writer,       \* each of the three: where it is and what it has read
    listed,       \* org_plugin_allowlist: the rows whose org lists the plugin
    tokenOrg,     \* the org_id of the org's token
    creating,     \* POST /workspaces without a parent: the parent it has read
    boxes,        \* rows with a running container
    stored, pin,  \* the concierge's MODEL and LLM_PROVIDER secrets
    default,      \* the platform's default model
    provision,    \* the provision of the concierge: where it is and what it has
    rebootDue,     \* a restart of the concierge is due
    box,          \* what each row's box was last started with as a concierge
    keys,         \* the live org tokens of each row
    world,        \* org id set, the runtime is claude-code, base config at hand, the persona's place
    lateList,     \* history: the list was written while an install was moving it
    pickedAfter,  \* history: the owner wrote a model after the provision read it
    conciergeFaults

conciergeVars == <<wsRow, txHolder, writer, listed, tokenOrg, creating, boxes, stored, pin, default,
                   provision, rebootDue, box, keys, world, lateList, pickedAfter, conciergeFaults>>

Absent == [status |-> "absent", platform |-> FALSE, parent |-> NoRow]
NoWriter == [pc |-> "idle", id |-> NoRow, found |-> FALSE, revive |-> FALSE, model |-> NoModel,
             demoted |-> {}, roots |-> {}, copied |-> FALSE]
NoProvision == [pc |-> "idle", id |-> NoRow, model |-> NoModel, pin |-> FALSE, key |-> 0]
NoBox == [model |-> NoModel, pin |-> FALSE, key |-> 0, graft |-> FALSE,
          file |-> "none", prompt |-> "none"]

Root(n) == wsRow[n].status # "absent" /\ wsRow[n].parent = NoRow
IsPlatform(n) == Root(n) /\ wsRow[n].platform
PlatformRoots == {n \in Rows : IsPlatform(n)}
Live(n) == wsRow[n].status \notin {"absent", "removed"}

ConciergeInit ==
    /\ \E top \in {NoRow, Canonical, Foreign}, s \in {"offline", "online", "degraded", "removed"} :
          wsRow = [n \in Rows |->
                    CASE n = top -> [status |-> s, platform |-> TRUE, parent |-> NoRow]
                      [] n = Team -> [status |-> "online", platform |-> FALSE, parent |-> NoRow]
                      [] OTHER -> Absent]
    /\ \E booted \in BOOLEAN :   \* a box that runs and has not sent its first heartbeat
          boxes = {n \in Rows : \/ wsRow[n].status \in {"online", "degraded"}
                                \/ booted /\ wsRow[n].status = "offline"}
    /\ txHolder = "none" /\ writer = [w \in RootWriters |-> NoWriter]
    /\ listed \in {{}, {Team}} /\ tokenOrg = Team /\ creating = [pc |-> "idle", parent |-> NoRow]
    /\ stored \in {NoModel, "p1", "own"} /\ pin = FALSE /\ default = "p1"
    /\ provision = NoProvision /\ rebootDue = FALSE
    /\ box = [n \in Rows |-> NoBox] /\ keys = [n \in Rows |-> {}]
    /\ world \in [org : BOOLEAN, claude : BOOLEAN, base : BOOLEAN, persona : {"none", "file", "prompt", "template"}]
    /\ lateList = FALSE /\ pickedAfter = FALSE /\ conciergeFaults = 0

ConciergeFault == conciergeFaults < MaxConciergeFaults /\ conciergeFaults' = conciergeFaults + 1
NoConciergeFault == UNCHANGED conciergeFaults
WriterAt(w, pc) == writer[w].pc = pc
WriterGoes(w, pc) == writer' = [writer EXCEPT ![w].pc = pc]
WriterEnds(w) == writer' = [writer EXCEPT ![w] = NoWriter]

\* The server listens once the seed of its boot is done.
Serving == WriterAt("boot", "idle")

\* What most steps leave alone.
OrgKeeps == <<wsRow, txHolder, listed, tokenOrg, creating, boxes, lateList>>
AgentKeeps == <<stored, pin, default, provision, rebootDue, box, keys, pickedAfter>>

---------------------------------------------------------------------------
(* installPlatformAgent, one transaction at READ COMMITTED.                *)

InstallPlatformAgent ==
    /\ Serving /\ WriterAt("cp", "idle")
    /\ \E id \in {Canonical, Foreign} :
          writer' = [writer EXCEPT !["cp"] = [NoWriter EXCEPT !.pc = "probe", !.id = id]]
    /\ NoConciergeFault /\ UNCHANGED <<OrgKeeps, AgentKeeps, world>>

\* A live root under another id is not displaced by a row without a box.
LiveRootInTheWay(w) == \E n \in PlatformRoots \ {writer[w].id} : wsRow[n].status \in {"online", "degraded"}
ProbeLiveRoot(w) ==
    /\ WriterAt(w, "probe")
    /\ IF LiveRootInTheWay(w) THEN WriterEnds(w) ELSE WriterGoes(w, "demote")
    /\ NoConciergeFault /\ UNCHANGED <<OrgKeeps, AgentKeeps, world>>

\* Rows a transaction has updated are locked until it ends.
Locked(n, w) ==
    \E v \in RootWriters \ {w} : writer[v].pc \in {"upsert", "roots", "copy", "commit"}
                             /\ (n \in writer[v].demoted \/ (txHolder = v /\ n = writer[v].id))
DemoteOtherRoots(w) ==
    /\ WriterAt(w, "demote")
    /\ LET others == PlatformRoots \ {writer[w].id}
       IN /\ \A n \in others : ~Locked(n, w)
          /\ writer' = [writer EXCEPT ![w].pc = "upsert", ![w].demoted = others]
    /\ NoConciergeFault /\ UNCHANGED <<OrgKeeps, AgentKeeps, world>>

\* The unique index lets one platform row through; status, runtime and the
\* broadcast right of a row that is there are kept, the plugin is declared.
UpsertPlatformRow(w) ==
    /\ WriterAt(w, "upsert") /\ txHolder = "none" /\ ~Locked(writer[w].id, w)
    /\ IF PlatformRoots \subseteq writer[w].demoted \union {writer[w].id}
       THEN \/ txHolder' = w /\ WriterGoes(w, "roots") /\ NoConciergeFault
            \/ ConciergeFault /\ WriterEnds(w) /\ UNCHANGED txHolder
       ELSE WriterEnds(w) /\ NoConciergeFault /\ UNCHANGED txHolder
    /\ UNCHANGED <<wsRow, listed, tokenOrg, creating, boxes, lateList, AgentKeeps, world>>
SelectOldRoots(w) ==
    /\ WriterAt(w, "roots")
    /\ writer' = [writer EXCEPT ![w].pc = "copy",
                                ![w].roots = {n \in Rows : Root(n)} \ {writer[w].id}]
    /\ NoConciergeFault /\ UNCHANGED <<OrgKeeps, AgentKeeps, world>>
CopyAllowlist(w) ==
    /\ WriterAt(w, "copy")
    /\ writer' = [writer EXCEPT ![w].pc = "commit", ![w].copied = listed \cap writer[w].roots # {}]
    /\ NoConciergeFault /\ UNCHANGED <<OrgKeeps, AgentKeeps, world>>
MigrateAnchors(w) ==
    /\ listed' = (listed \ writer[w].roots) \union (IF writer[w].copied THEN {writer[w].id} ELSE {})
    /\ tokenOrg' = IF tokenOrg \in writer[w].roots THEN writer[w].id ELSE tokenOrg
CommitInstall(w) ==
    /\ WriterAt(w, "commit") /\ txHolder' = "none"
    /\ \/ /\ wsRow' = [n \in Rows |->
                IF n = writer[w].id
                THEN [status |-> IF wsRow[n].status = "absent" THEN "offline" ELSE wsRow[n].status,
                      platform |-> TRUE, parent |-> NoRow]
                ELSE IF n \in writer[w].roots THEN [wsRow[n] EXCEPT !.parent = writer[w].id, !.platform = FALSE]
                ELSE IF n \in writer[w].demoted THEN [wsRow[n] EXCEPT !.platform = FALSE] ELSE wsRow[n]]
          /\ MigrateAnchors(w)
          /\ IF w = "cp" THEN WriterEnds(w) ELSE WriterGoes(w, "name")
          /\ NoConciergeFault
       \/ /\ ConciergeFault /\ WriterEnds(w) /\ UNCHANGED <<wsRow, listed, tokenOrg>>
    /\ UNCHANGED <<creating, boxes, lateList, AgentKeeps, world>>

---------------------------------------------------------------------------
(* ensurePlatformAgentFlow: repair by the owner, seed by the boot.         *)

DecideIgnoresTombstone(w, n, force, model) ==
    [NoWriter EXCEPT !.pc = IF n # NoRow /\ wsRow[n].status = "online" /\ ~force THEN "idle" ELSE "probe",
                     !.id = IF n = NoRow THEN Canonical ELSE n, !.found = n # NoRow, !.model = model,
                     !.revive = n # NoRow /\ wsRow[n].status = "removed"]
\* A root is looked up, tombstones included.  An online one is left alone
\* unless forced; the boot leaves a removed one alone.
decideEnsureAction(w, n, force, model) ==
    [NoWriter EXCEPT !.pc = IF n = NoRow THEN "probe"
                           ELSE IF wsRow[n].status = "online" /\ ~force THEN "idle"
                           ELSE IF w = "boot" /\ wsRow[n].status = "removed" THEN "kick" ELSE "probe",
                     !.id = IF n = NoRow THEN Canonical ELSE n, !.found = n # NoRow, !.model = model,
                     !.revive = n # NoRow /\ wsRow[n].status = "removed"]
platformRootLookup == IF PlatformRoots = {} THEN NoRow ELSE CHOOSE n \in PlatformRoots : TRUE
EnsurePlatformAgent ==
    /\ Serving /\ WriterAt("ensure", "idle")
    /\ \E force \in BOOLEAN, m \in {NoModel, "p2", "own"} :
          writer' = [writer EXCEPT !["ensure"] = decideEnsureAction("ensure", platformRootLookup, force, m)]
    /\ NoConciergeFault /\ UNCHANGED <<OrgKeeps, AgentKeeps, world>>

\* Before the server listens: no other call runs, those of the old process
\* died.  Only a self-hosted one seeds the row.
EnsureSelfHostedPlatformAgent ==
    /\ Serving
    /\ LET seed == decideEnsureAction("boot", platformRootLookup, FALSE, NoModel)
       IN writer' = [w \in RootWriters |->
                        IF w # "boot" \/ world.org THEN NoWriter
                        ELSE IF seed.pc = "idle" THEN [NoWriter EXCEPT !.pc = "kick"] ELSE seed]
    /\ txHolder' = "none" /\ provision' = NoProvision /\ rebootDue' = FALSE
    /\ creating' = [pc |-> "idle", parent |-> NoRow]
    /\ NoConciergeFault
    /\ UNCHANGED <<wsRow, listed, tokenOrg, boxes, lateList, stored, pin, default, box, keys, pickedAfter, world>>

\* After the commit the name, the caller's model, and only then the revival
\* and the provision; each may fail and end the call.
FlowNames(w) ==
    /\ WriterAt(w, "name")
    /\ \/ WriterGoes(w, "model") /\ NoConciergeFault
       \/ writer[w].found /\ ConciergeFault /\ WriterEnds(w)
    /\ UNCHANGED <<OrgKeeps, AgentKeeps, world>>
FlowStoresModel(w) ==
    /\ WriterAt(w, "model")
    /\ IF writer[w].model = NoModel THEN WriterGoes(w, "revive") /\ NoConciergeFault /\ UNCHANGED <<stored, pickedAfter>>
       ELSE \/ /\ stored' = writer[w].model /\ WriterGoes(w, "revive") /\ NoConciergeFault
               /\ pickedAfter' = (provision.pc # "idle")
            \/ ConciergeFault /\ WriterEnds(w) /\ UNCHANGED <<stored, pickedAfter>>
    /\ UNCHANGED <<OrgKeeps, pin, default, provision, rebootDue, box, keys, world>>
reviveRemovedPlatformAgent(w) ==
    /\ WriterAt(w, "revive")
    /\ \/ /\ WriterGoes(w, "kick") /\ NoConciergeFault
          /\ wsRow' = IF writer[w].revive /\ wsRow[writer[w].id].status = "removed"
                      THEN [wsRow EXCEPT ![writer[w].id].status = "offline"] ELSE wsRow
       \/ writer[w].revive /\ ConciergeFault /\ WriterEnds(w) /\ UNCHANGED wsRow
    /\ UNCHANGED <<txHolder, listed, tokenOrg, creating, boxes, lateList, AgentKeeps, world>>
triggerPlatformProvision ==
    /\ WriterAt("ensure", "kick") /\ WriterEnds("ensure") /\ rebootDue' = TRUE
    /\ NoConciergeFault
    /\ UNCHANGED <<OrgKeeps, stored, pin, default, provision, box, keys, pickedAfter, world>>

\* After the seed the boot starts a root that does not run and has a model;
\* one that runs is started again if its prompt is missing or unfilled.
platformAgentModelConfigured == stored # NoModel
conciergeIdentityPresent(n) == box[n].prompt = "filled"
MaybeProvisionPlatformAgentOnBoot ==
    /\ WriterAt("boot", "kick") /\ WriterEnds("boot")
    /\ rebootDue' = IF \E n \in PlatformRoots :
                        IF n \in boxes THEN ~conciergeIdentityPresent(n) ELSE platformAgentModelConfigured
                   THEN TRUE ELSE rebootDue
    /\ NoConciergeFault
    /\ UNCHANGED <<OrgKeeps, stored, pin, default, provision, box, keys, pickedAfter, world>>

---------------------------------------------------------------------------
(* A provision of the concierge.                                           *)

ProvisionAt(pc) == provision.pc = pc
ProvisionGoes(pc) == provision' = [provision EXCEPT !.pc = pc]

\* A restart finds a row that is not removed, stops its box and loads the
\* secrets; the stored model is read.
applyConciergeProvisionConfig ==
    /\ rebootDue /\ rebootDue' = FALSE /\ ProvisionAt("idle")
    /\ LET n == platformRootLookup
       IN IF n # NoRow /\ Live(n)
          THEN /\ provision' = [NoProvision EXCEPT !.id = n, !.model = stored,
                                                  !.pc = IF stored = "own" THEN "pin" ELSE "resolve"]
               /\ boxes' = boxes \ {n} /\ wsRow' = [wsRow EXCEPT ![n].status = "offline"]
               /\ pickedAfter' = FALSE /\ ~Locked(n, "none")
          ELSE UNCHANGED <<provision, boxes, wsRow, pickedAfter>>
    /\ NoConciergeFault
    /\ UNCHANGED <<txHolder, writer, listed, tokenOrg, creating, lateList, stored, pin, default, box, keys, world>>

\* No model, or one of the platform's: the default is asked for, and written
\* if it is another.  The owner's own is left alone.
conciergeModelIsPlatformManaged(m) == m # "own"
ensureConciergeModel ==
    /\ ProvisionAt("resolve")
    /\ \/ /\ provision' = [provision EXCEPT !.pc = IF default = provision.model THEN "pin" ELSE "store",
                                             !.model = default]
          /\ NoConciergeFault
       \/ world.org /\ ConciergeFault /\ ProvisionGoes("pin")
    /\ UNCHANGED <<OrgKeeps, writer, stored, pin, default, rebootDue, box, keys, pickedAfter, world>>
setModelSecret ==
    /\ ProvisionAt("store") /\ ProvisionGoes("pin")
    /\ \/ stored' = provision.model /\ NoConciergeFault
       \/ ConciergeFault /\ UNCHANGED stored
    /\ UNCHANGED <<OrgKeeps, writer, pin, default, rebootDue, box, keys, pickedAfter, world>>

\* The pin is seeded once; a pin on file is not put into the environment.
ensureConciergeProvider ==
    /\ ProvisionAt("pin")
    /\ LET seeds == ~pin /\ conciergeModelIsPlatformManaged(provision.model)
       IN /\ provision' = [provision EXCEPT !.pc = "mint", !.pin = seeds]
          /\ \/ pin' = (pin \/ seeds) /\ NoConciergeFault
             \/ seeds /\ ConciergeFault /\ UNCHANGED pin
    /\ UNCHANGED <<OrgKeeps, writer, stored, default, rebootDue, box, keys, pickedAfter, world>>

\* A new token, then the others of the row are revoked; without an org,
\* or when the mint fails, the admin token.
KeyIds == 1..(MaxConciergeFaults + 2)   \* bound: tokens a crash may leave behind
MintConciergeKey ==
    /\ ProvisionAt("mint")
    /\ \/ /\ world.org
          /\ KeyIds \ keys[provision.id] # {}
          /\ LET k == CHOOSE i \in KeyIds : i \notin keys[provision.id]
             IN /\ keys' = [keys EXCEPT ![provision.id] = @ \union {k}]
                /\ provision' = [provision EXCEPT !.pc = "revoke", !.key = k]
          /\ NoConciergeFault
       \/ /\ IF world.org THEN ConciergeFault ELSE NoConciergeFault
          /\ provision' = [provision EXCEPT !.pc = "compose", !.key = 0] /\ UNCHANGED keys
    /\ UNCHANGED <<OrgKeeps, writer, stored, pin, default, rebootDue, box, pickedAfter, world>>
RevokeOthers == keys' = [keys EXCEPT ![provision.id] = {provision.key}]
resolveConciergeAdminCredential ==
    /\ ProvisionAt("revoke") /\ ProvisionGoes("compose")
    /\ \/ RevokeOthers /\ NoConciergeFault
       \/ /\ ConciergeFault
          /\ \E gone \in SUBSET (keys[provision.id] \ {provision.key}) :
                keys' = [keys EXCEPT ![provision.id] = @ \ gone]
    /\ UNCHANGED <<OrgKeeps, writer, stored, pin, default, rebootDue, box, pickedAfter, world>>

\* The persona comes from the delivered files or the template; without one the
\* graft is stripped again.  Without a base config the delivered files are
\* kept and the system prompt's name filled in.  A file is absent, unfilled or
\* filled.
resolveConciergePersonaBytes == world.persona # "none"
composeConciergeRuntimeConfig == [graft |-> ~world.claude, file |-> "none", prompt |-> "none"]
WithPersona(config) ==
    [config EXCEPT !.file = "filled",
                   !.prompt = IF world.claude THEN "filled"
                              ELSE IF world.persona = "prompt" THEN "unfilled" ELSE "none"]
stripConciergePersonaGraft(config) == [config EXCEPT !.graft = FALSE]
DeliveredConfig ==
    [graft |-> FALSE, file |-> IF world.persona = "file" THEN "unfilled" ELSE "none",
     prompt |-> IF world.persona = "prompt" THEN "filled" ELSE "none"]
ConciergeFiles ==
    IF ~world.base THEN DeliveredConfig
    ELSE IF resolveConciergePersonaBytes THEN WithPersona(composeConciergeRuntimeConfig)
    ELSE stripConciergePersonaGraft(composeConciergeRuntimeConfig)

\* Without a model the start is refused.  A provision goes on for its row, even
\* if that is displaced meanwhile.
BoxStarts ==
    /\ ProvisionAt("compose") /\ provision' = NoProvision
    /\ LET n == provision.id
       IN IF provision.model = NoModel \/ ~Live(n) THEN UNCHANGED <<box, boxes>>
          ELSE /\ boxes' = boxes \union {n}
               /\ box' = [box EXCEPT ![n] = [model |-> provision.model, pin |-> provision.pin, key |-> provision.key,
                                             graft |-> ConciergeFiles.graft, file |-> ConciergeFiles.file,
                                             prompt |-> ConciergeFiles.prompt]]
    /\ NoConciergeFault
    /\ UNCHANGED <<wsRow, txHolder, writer, listed, tokenOrg, creating, lateList, stored, pin, default,
                   rebootDue, keys, pickedAfter, world>>

---------------------------------------------------------------------------
(* Everyone else.                                                          *)

SetModel ==
    /\ Serving /\ stored' \in {NoModel, "p1", "p2", "own"} \ {stored} /\ rebootDue' = TRUE
    /\ pickedAfter' = ~ProvisionAt("idle")
    /\ NoConciergeFault /\ UNCHANGED <<OrgKeeps, writer, pin, default, provision, box, keys, world>>

\* The control plane serves another default, or the server's environment names one.
DefaultMoves ==
    /\ default = "p1" /\ default' = "p2"
    /\ NoConciergeFault /\ UNCHANGED <<OrgKeeps, writer, stored, pin, provision, rebootDue, box, keys, pickedAfter, world>>

\* A heartbeat of a running box brings its row online.
Heartbeat(n) ==
    /\ Serving /\ n \in boxes /\ wsRow[n].status = "offline" /\ ~Locked(n, "none")
    /\ wsRow' = [wsRow EXCEPT ![n].status = "online"]
    /\ NoConciergeFault /\ UNCHANGED <<txHolder, writer, listed, tokenOrg, creating, boxes, lateList, AgentKeeps, world>>

\* The concierge and what hangs below it is deleted; its row stays.
CascadeDelete ==
    /\ Serving
    /\ \E n \in PlatformRoots :
          LET gone == {m \in Rows : Live(m) /\ (m = n \/ wsRow[m].parent = n)}
          IN /\ Live(n) /\ \A m \in gone : ~Locked(m, "none")
             /\ wsRow' = [m \in Rows |-> IF m \in gone THEN [wsRow[m] EXCEPT !.status = "removed"] ELSE wsRow[m]]
             /\ boxes' = boxes \ gone
    /\ NoConciergeFault /\ UNCHANGED <<txHolder, writer, listed, tokenOrg, creating, lateList, AgentKeeps, world>>

\* A create without a parent: the one concierge, else the one root, else none.
Only(s) == IF Cardinality(s) = 1 THEN CHOOSE n \in s : TRUE ELSE NoRow
defaultCreateParentID ==
    LET plats == {n \in Rows : Live(n) /\ wsRow[n].platform}
    IN IF plats # {} THEN Only(plats) ELSE Only({n \in Rows : Live(n) /\ Root(n)})
CreateReads ==
    /\ Serving /\ creating.pc = "idle" /\ wsRow[Fresh] = Absent
    /\ creating' = [pc |-> "insert", parent |-> defaultCreateParentID]
    /\ NoConciergeFault
    /\ UNCHANGED <<wsRow, txHolder, writer, listed, tokenOrg, boxes, lateList, AgentKeeps, world>>
CreateInserts ==
    /\ creating.pc = "insert" /\ creating' = [pc |-> "idle", parent |-> NoRow]
    /\ wsRow' = [wsRow EXCEPT ![Fresh] = [status |-> "offline", platform |-> FALSE, parent |-> creating.parent]]
    /\ NoConciergeFault
    /\ UNCHANGED <<txHolder, writer, listed, tokenOrg, boxes, lateList, AgentKeeps, world>>

PutAllowlist ==
    /\ Serving
    /\ \E n \in Rows : Root(n) /\ n \notin listed /\ listed' = listed \union {n}
    /\ lateList' = (lateList \/ \E w \in RootWriters : writer[w].pc \in {"copy", "commit"})
    /\ NoConciergeFault
    /\ UNCHANGED <<wsRow, txHolder, writer, tokenOrg, creating, boxes, AgentKeeps, world>>

InstallStep(w) ==
    \/ ProbeLiveRoot(w) \/ DemoteOtherRoots(w) \/ UpsertPlatformRow(w) \/ SelectOldRoots(w)
    \/ CopyAllowlist(w) \/ CommitInstall(w)
FlowStep(w) == FlowNames(w) \/ FlowStoresModel(w) \/ reviveRemovedPlatformAgent(w)
ProvisionStep ==
    \/ applyConciergeProvisionConfig \/ ensureConciergeModel \/ setModelSecret \/ ensureConciergeProvider
    \/ MintConciergeKey \/ resolveConciergeAdminCredential \/ BoxStarts

RootNext ==
    \/ InstallPlatformAgent \/ EnsurePlatformAgent
    \/ EnsureSelfHostedPlatformAgent \/ MaybeProvisionPlatformAgentOnBoot \/ triggerPlatformProvision
    \/ \E w \in RootWriters : InstallStep(w) \/ FlowStep(w)
    \/ \E n \in Rows : Heartbeat(n)
    \/ CascadeDelete
OrgNext == CreateReads \/ CreateInserts \/ PutAllowlist
AgentNext == SetModel \/ DefaultMoves \/ ProvisionStep

ConciergeSpec == ConciergeInit /\ [][RootNext \/ OrgNext \/ AgentNext]_conciergeVars

---------------------------------------------------------------------------
(* Properties.                                                             *)

\* One type invariant.
ConciergeTypeOK ==
    /\ \A n \in Rows : wsRow[n].parent \in (Rows \ {n}) \union {NoRow}
    /\ txHolder \in RootWriters \union {"none"} /\ stored \in PlatformModels \union {"own", NoModel}
    /\ \A n \in Rows : keys[n] \subseteq KeyIds /\ box[n].key \in KeyIds \union {0}

\* However installs, repairs, seeds and crashes overlap, at most one row is
\* the platform's, it is a root, and the org's token is anchored at a root.
OneConcierge ==
    /\ {n \in Rows : wsRow[n].platform} = PlatformRoots /\ Cardinality(PlatformRoots) <= 1
    /\ Root(tokenOrg)

\* A box that runs, of the concierge or of one displaced, holds an admin
\* credential that is alive, however provisions are cut off and tokens revoked.
BoxHasKey == \A n \in boxes : box[n].key \in keys[n] \union {0}

\* A config names a prompt file only if the file is delivered, name filled in.
GraftHasFile == \A n \in Rows : box[n].graft => box[n].file = "filled"

\* An org that has a concierge keeps one, and a displaced root's list moves on
\* with it, unless the list was written while it was moved.
RootIsKept ==
    [][/\ PlatformRoots # {} => PlatformRoots' # {}
       /\ (\E n \in listed : Root(n)) =>
             (lateList' \/ \E m \in listed' : wsRow'[m].parent = NoRow)]_conciergeVars

\* A removed concierge comes back only by a repair that found it removed.
TombstoneIsKept ==
    [][\A n \in Rows : (wsRow[n].status = "removed" /\ wsRow'[n].status # "removed") =>
          (writer["ensure"].revive /\ writer["ensure"].id = n)]_conciergeVars

\* A start neither overwrites nor ignores the owner's own model unless it was
\* set while the start was under way.
PickIsKept ==
    [][/\ (ProvisionAt("store") /\ stored = "own") => (stored' = "own" \/ pickedAfter)
       /\ (ProvisionAt("compose") /\ box' # box /\ stored = "own") =>
             (box'[provision.id].model = "own" \/ pickedAfter)]_conciergeVars

ConciergeIsKept ==
    /\ [](ConciergeTypeOK /\ OneConcierge /\ BoxHasKey /\ GraftHasFile)
    /\ RootIsKept /\ TombstoneIsKept /\ PickIsKept

\* Refuted: an online root is never displaced; it may come online after the probe.
LiveRootIsKept ==
    [][\A n \in Rows : (wsRow[n].platform /\ wsRow[n].status = "online") => wsRow'[n].platform]_conciergeVars

\* Refuted: "customer setting > platform default".  The owner's model is read,
\* the default asked for and written over a pick made in between.
PickSurvives == [][(ProvisionAt("store") /\ stored = "own") => stored' = "own"]_conciergeVars

\* Refuted: the pin "survives restart".  The second start finds the pin on
\* file, leaves it to loadWorkspaceSecrets, and that drops the key.
PinIsInBox == \A n \in PlatformRoots \cap boxes : box[n].model \in PlatformModels => box[n].pin

\* Refuted: "the very first provision resolves the caller's model".  A caller's
\* model of the platform's own is replaced by the default.
CallerModelIsUsed ==
    [][(ProvisionAt("store") /\ stored = "p2" /\ ~pickedAfter) => stored' = "p2"]_conciergeVars

\* Refuted: a container that runs is left alone by a boot.  Only claude-code is
\* given the system prompt that the boot looks for.
HealthyIsLeftAlone ==
    [][\A n \in PlatformRoots \cap boxes :
          (WriterAt("boot", "kick") /\ rebootDue') => box[n].file # "filled"]_conciergeVars

=============================================================================
