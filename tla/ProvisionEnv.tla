---------------------------- MODULE ProvisionEnv ----------------------------
(***************************************************************************)
(* How a workspace is created, which language-model credentials its        *)
(* container is started with, and how later writes of secrets reach it.    *)
(* The secrets on file (the organisation's and the workspace's own), the   *)
(* model and the deployment's proxy decide who pays: the platform, through *)
(* its proxy, or a vendor, through a key of the owner's.                   *)
(*                                                                         *)
(* Source: workspace-server, internal/handlers/workspace.go (Create),      *)
(* workspace_provision.go, workspace_provision_shared.go, secrets.go,      *)
(* model_registry_validation.go, workspace_provision_forbidden_env.go,     *)
(* internal/providers/derive_provider.go and providers.go.                 *)
(***************************************************************************)
EXTENDS Naturals, FiniteSets, Sequences, Functions

CONSTANTS
    Keys,           \* names of secrets
    BypassKeys,     \* platformManagedDirectLLMBypassKeys: vendor credentials
    OperatorKeys,   \* forbiddenTenantEnvKeys
    AdminKeys,      \* the privileged keys no container may get
    ProxyKey,       \* where the proxy's token goes by default
    Vendors,        \* the registry's providers
    Platform,       \* the provider that is the platform's own proxy
    AuthEnv,        \* for each provider, the keys it accepts
    TokenEnv,       \* for each provider, the key its adapter reads, or Nothing
    Models,
    Exact,          \* for each model, the providers that list it, in order
    Prefix,         \* for each model, the providers whose pattern matches it
    Bare,           \* for each model, its name without the vendor's prefix
    Nothing,        \* no model, no key, no provider
    MaxWrites,      \* bound: writes of secrets and models
    MaxEnvFaults    \* bound: failed statements and calls

\* The registry's tables.  No provider's token is read from a key that is the
\* operator's or the administrator's.
ASSUME RegistryAssumption ==
    /\ BypassKeys \subseteq Keys /\ OperatorKeys \subseteq Keys /\ AdminKeys \subseteq Keys
    /\ ProxyKey \in BypassKeys \ (OperatorKeys \union AdminKeys)
    /\ IsFiniteSet(Vendors) /\ Platform \in Vendors /\ Nothing \notin Models \union Vendors
    /\ \A v \in Vendors : /\ AuthEnv[v] \subseteq Keys
                          /\ TokenEnv[v] \in (Keys \ (OperatorKeys \union AdminKeys)) \union {Nothing}
    /\ \A m \in Models : Exact[m] \in Seq(Vendors) /\ Prefix[m] \subseteq Vendors /\ Bare[m] \in Models
    /\ MaxWrites \in Nat /\ MaxEnvFaults \in Nat

VARIABLES
    proxy,          \* PlatformManagedProxyConfigured: the server's own environment
    native,         \* the runtime speaks to the vendor's native endpoint
    rootModel,      \* the concierge's MODEL secret, or Nothing
    globals, own,   \* the keys of global_secrets and of workspace_secrets
    ownModel,       \* the workspace's MODEL secret, or Nothing
    wsRow,          \* workspaces.status, "none" before the insert
    creation,       \* the POST /workspaces: where it is and what it asks for
    launch,         \* the provisioning goroutine
    agentBox,       \* what the running container was started with
    writer,         \* a call that writes a secret
    owed,           \* a restart was requested and not begun
    untold,         \* history: a write whose restart was left out, or that the create's
                    \* own provisioning passes over
    envFaults, writes

envVars == <<proxy, native, rootModel, globals, own, ownModel, wsRow, creation, launch,
             agentBox, writer, owed, untold, envFaults, writes>>
deployment == <<proxy, native, rootModel>>

NoLaunch == [pc |-> "idle", model |-> Nothing, env |-> [k \in Keys |-> "none"], blurred |-> FALSE]
NoBox == [up |-> FALSE]
NoWriter == [pc |-> "idle", op |-> "none", key |-> Nothing, self |-> FALSE]

EnvInit ==
    /\ proxy \in BOOLEAN /\ native \in BOOLEAN
    /\ rootModel \in Models \union {Nothing}
    /\ globals \in SUBSET Keys /\ own = {} /\ ownModel = Nothing
    /\ wsRow = "none"
    /\ creation = [pc |-> "idle", model |-> Nothing, keys |-> {}, odd |-> FALSE]
    /\ launch = NoLaunch /\ agentBox = NoBox /\ writer = NoWriter
    /\ owed = FALSE /\ untold = FALSE /\ envFaults = 0 /\ writes = 0

EnvFault == envFaults < MaxEnvFaults /\ envFaults' = envFaults + 1
NoFault == UNCHANGED envFaults

---------------------------------------------------------------------------
(* The registry: which provider serves a model.                            *)

authEnvMatches(vs, avail) == {v \in vs : AuthEnv[v] \cap avail # {}}
disambiguateByAuthEnv(vs, avail) ==
    IF Cardinality(authEnvMatches(vs, avail)) = 1
    THEN CHOOSE v \in vs : v \in authEnvMatches(vs, avail) ELSE Nothing

\* The providers that list the model come first; several are told apart by the
\* keys at hand, else the first is taken.  Then those whose pattern matches.
DeriveProvider(m, avail) ==
    IF m = Nothing THEN Nothing
    ELSE IF Exact[m] # <<>>
         THEN LET d == disambiguateByAuthEnv(Range(Exact[m]), avail)
              IN IF Len(Exact[m]) = 1 \/ d = Nothing THEN Exact[m][1] ELSE d
         ELSE IF Cardinality(Prefix[m]) = 1 THEN CHOOSE v \in Prefix[m] : TRUE
              ELSE disambiguateByAuthEnv(Prefix[m], avail)

authEnvNameSet == UNION {AuthEnv[v] : v \in Vendors}

---------------------------------------------------------------------------
(* The environment a container is started with: for each key, where its    *)
(* value comes from.                                                       *)

\* The workspace's own value of a key replaces the organisation's.
loadWorkspaceSecrets(g, o) ==
    [k \in Keys |-> IF k \in o THEN "own" ELSE IF k \in g THEN "global" ELSE "none"]

availableAuthEnvNames(env) == {k \in authEnvNameSet : env[k] # "none"}

hasAnyPlatformManagedLLMKey(v, env) ==
    v # Nothing /\ \E k \in AuthEnv[v] \cap BypassKeys : env[k] # "none"

\* Without a proxy, a model of the platform's falls back on the concierge's
\* own choice, if a key for that is at hand.
onboardingSelectedFallback(env) ==
    LET fits(m) == LET v == DeriveProvider(m, availableAuthEnvNames(env))
                   IN v \notin {Nothing, Platform} /\ hasAnyPlatformManagedLLMKey(v, env)
    IN IF rootModel = Nothing THEN Nothing
       ELSE IF fits(rootModel) THEN rootModel
       ELSE IF fits(Bare[rootModel]) THEN Bare[rootModel] ELSE Nothing

\* Vendor keys of the organisation's that are not for the resolved provider go.
StripNothing(env, m, avail) == env
stripNonMatchingGlobalOriginLLMCreds(env, m, avail) ==
    LET v == DeriveProvider(m, avail)
    IN IF v = Nothing THEN env
       ELSE [k \in Keys |-> IF env[k] = "global" /\ k \in BypassKeys \ AuthEnv[v]
                            THEN "none" ELSE env[k]]

stripPlatformManagedLLMBypassEnv(env) ==
    [k \in Keys |-> IF k \in BypassKeys THEN "none" ELSE env[k]]

\* The adapter's key gets the value of one of the keys the provider accepts.
projectToken(v, env) ==
    IF /\ native /\ v # Nothing /\ TokenEnv[v] # Nothing /\ env[TokenEnv[v]] = "none"
       /\ \E k \in AuthEnv[v] : env[k] # "none"
    THEN [env EXCEPT ![TokenEnv[v]] = env[CHOOSE k \in AuthEnv[v] : env[k] # "none"]]
    ELSE env

\* Platform or vendor?  The model decides; a vendor's model without a key of
\* that vendor goes to the platform where a proxy is configured.
Route(env, m) ==
    LET avail == availableAuthEnvNames(env)
        derived == DeriveProvider(m, avail)
        toPlatform == \/ derived = Platform
                      \/ derived = Nothing /\ proxy
                      \/ derived # Nothing /\ proxy /\ ~hasAnyPlatformManagedLLMKey(derived, env)
        fallback == IF derived = Platform /\ ~proxy THEN onboardingSelectedFallback(env) ELSE Nothing
    IN [model |-> IF fallback # Nothing THEN fallback ELSE m,
        routed |-> toPlatform /\ fallback = Nothing,
        provider |-> IF fallback # Nothing THEN DeriveProvider(fallback, avail)
                     ELSE IF toPlatform /\ derived # Nothing THEN Platform ELSE derived]

\* The environment after the routing: the proxy's token and nothing else of a
\* vendor's, or the vendor's keys.
applyPlatformManagedLLMEnv(env, m) ==
    LET r == Route(env, m)
        avail == availableAuthEnvNames(env)
        vendorEnv == projectToken(r.provider, stripNonMatchingGlobalOriginLLMCreds(env, r.model, avail))
        tokenKey == IF native /\ r.provider # Nothing /\ TokenEnv[r.provider] # Nothing
                    THEN TokenEnv[r.provider] ELSE ProxyKey
        proxyEnv == [stripPlatformManagedLLMBypassEnv(env) EXCEPT ![tokenKey] = "proxy"]
    IN IF r.routed
       THEN [routed |-> TRUE, provider |-> r.provider, model |-> r.model,
             usable |-> proxy, env |-> IF proxy THEN proxyEnv ELSE env]
       ELSE [routed |-> FALSE, provider |-> r.provider, model |-> r.model,
             usable |-> hasAnyPlatformManagedLLMKey(r.provider, vendorEnv), env |-> vendorEnv]

findForbiddenTenantEnvKeysFromGlobals(env) == {k \in OperatorKeys : env[k] = "global"}
findPrivilegedTenantAdminEnvKeys(env) == {k \in AdminKeys : env[k] # "none"}

\* What is refused before anything is started.
ProvisionAborts(env, m) ==
    \/ findForbiddenTenantEnvKeysFromGlobals(env) # {}
    \/ findPrivilegedTenantAdminEnvKeys(env) # {}
    \/ m = Nothing
    \/ ~applyPlatformManagedLLMEnv(env, m).usable

effectiveModelForBilling(m) == IF m # Nothing THEN m ELSE ownModel

---------------------------------------------------------------------------
(* POST /workspaces.                                                       *)

validateRegisteredModelForRuntime(m) ==
    Exact[m] # <<>> \/ DeriveProvider(m, {}) # Nothing

\* A vendor's model needs a key of that vendor in the request or on file.
validateBYOKCredentialSatisfiable(m, keys) ==
    LET first == DeriveProvider(m, keys)
        second == DeriveProvider(m, keys \union globals)
    IN \/ first \in {Nothing, Platform} \/ AuthEnv[first] \cap keys # {}
       \/ second \in {Nothing, Platform} \/ AuthEnv[second] \cap (keys \union globals) # {}

\* Fields, template, runtime, parent, compute: any of them may be wrong.
CreateRefused ==
    /\ creation.pc = "idle"
    /\ creation' = [creation EXCEPT !.pc = "refused"]
    /\ UNCHANGED <<deployment, globals, own, ownModel, wsRow, launch, agentBox, writer, owed,
                   untold, envFaults, writes>>

\* The model and its credential; the list of the organisation's keys may fail,
\* and then the check is left to the provisioning.
CreateValidates ==
    /\ creation.pc = "idle"
    /\ \E m \in Models, keys \in SUBSET (Keys \ AdminKeys) :
          /\ Cardinality(keys) <= 1
          /\ creation' = [creation EXCEPT
                !.pc = IF validateRegisteredModelForRuntime(m) /\ validateBYOKCredentialSatisfiable(m, keys)
                       THEN "valid" ELSE "refused",
                !.model = m, !.keys = keys]
    /\ UNCHANGED <<deployment, globals, own, ownModel, wsRow, launch, agentBox, writer, owed,
                   untold, envFaults, writes>>

\* rejectPlatformManagedDirectLLMBypassForWorkspace for a key of the request:
\* only where the model and the request's keys are not a vendor's.
CreateAllowsVendorKeys(m, keys) == DeriveProvider(m, keys) \notin {Nothing, Platform}

\* One transaction: the row, under a name that is free, and its secrets.
CreateInserts ==
    /\ creation.pc = "valid"
    /\ \/ /\ ~CreateAllowsVendorKeys(creation.model, creation.keys) /\ creation.keys \cap BypassKeys # {}
          /\ creation' = [creation EXCEPT !.pc = "refused"]
          /\ NoFault /\ UNCHANGED <<wsRow, own>>
       \/ /\ CreateAllowsVendorKeys(creation.model, creation.keys) \/ creation.keys \cap BypassKeys = {}
          /\ creation' = [creation EXCEPT !.pc = "stored"]
          /\ wsRow' = "provisioning" /\ own' = creation.keys /\ NoFault
       \/ /\ EnvFault /\ creation' = [creation EXCEPT !.pc = "refused"]
          /\ UNCHANGED <<wsRow, own>>
    /\ UNCHANGED <<deployment, globals, ownModel, launch, agentBox, writer, owed, untold, writes>>

\* The MODEL secret is written after the commit; a failure is only logged.
CreateSetsModel ==
    /\ creation.pc = "stored"
    /\ creation' = [creation EXCEPT !.pc = "modelled"]
    /\ \/ ownModel' = creation.model /\ NoFault
       \/ EnvFault /\ UNCHANGED ownModel
    /\ UNCHANGED <<deployment, globals, own, wsRow, launch, agentBox, writer, owed, untold, writes>>

\* An external workspace has nothing to provision.
CreateExternal ==
    /\ creation.pc = "stored"
    /\ creation' = [creation EXCEPT !.pc = "done"]
    /\ wsRow' = "external"
    /\ UNCHANGED <<deployment, globals, own, ownModel, launch, agentBox, writer, owed, untold,
                   envFaults, writes>>

\* A template that is not there, or a required variable that is missing, marks
\* the row failed; a default configuration that cannot be written does not.
CreateConfigFails ==
    /\ creation.pc = "modelled"
    /\ \/ /\ wsRow' = "failed"
          /\ creation' = [creation EXCEPT !.pc = "refused"]
       \/ /\ creation' = [creation EXCEPT !.pc = "refused", !.odd = TRUE]
          /\ UNCHANGED wsRow
    /\ EnvFault
    /\ UNCHANGED <<deployment, globals, own, ownModel, launch, agentBox, writer, owed, untold, writes>>

\* provisionWorkspaceAuto takes the gate before it answers.  It is given the
\* model of the request, though another may have been set since the broadcast.
CreateProvisions ==
    /\ creation.pc = "modelled" /\ launch.pc = "idle"
    /\ creation' = [creation EXCEPT !.pc = "done"]
    /\ launch' = [NoLaunch EXCEPT !.pc = "globals", !.model = creation.model]
    /\ untold' = (untold \/ ownModel \notin {Nothing, creation.model})
    /\ UNCHANGED <<deployment, globals, own, ownModel, wsRow, agentBox, writer, owed,
                   envFaults, writes>>

---------------------------------------------------------------------------
(* The provisioning goroutine.                                             *)

\* A restart stops the container and provisions with what is on file.
RestartBegins ==
    /\ owed /\ launch.pc = "idle" /\ wsRow \in {"provisioning", "failed", "online"}
    /\ owed' = FALSE /\ agentBox' = NoBox /\ wsRow' = "provisioning"
    /\ launch' = [NoLaunch EXCEPT !.pc = "globals"]
    /\ untold' = FALSE
    /\ UNCHANGED <<deployment, globals, own, ownModel, creation, writer, envFaults, writes>>

\* Two SELECTs; one that fails is passed over in silence.
ReadGlobals ==
    /\ launch.pc = "globals"
    /\ \/ /\ launch' = [launch EXCEPT !.pc = "own", !.env = loadWorkspaceSecrets(globals, {})]
          /\ NoFault
       \/ /\ EnvFault /\ launch' = [launch EXCEPT !.pc = "own", !.blurred = TRUE]
    /\ UNCHANGED <<deployment, globals, own, ownModel, wsRow, creation, agentBox, writer, owed,
                   untold, writes>>
ReadOwn ==
    /\ launch.pc = "own"
    /\ \/ /\ launch' = [launch EXCEPT !.pc = "prepare", !.model = effectiveModelForBilling(@),
                          !.env = [k \in Keys |-> IF k \in own THEN "own" ELSE @[k]]]
          /\ NoFault
       \/ EnvFault /\ launch' = [launch EXCEPT !.pc = "prepare", !.blurred = TRUE]
    /\ UNCHANGED <<deployment, globals, own, ownModel, wsRow, creation, agentBox, writer, owed,
                   untold, writes>>

\* prepareProvisionContext, then the pinned image, the tokens and the start.
LaunchAborts ==
    /\ launch.pc = "prepare" /\ ProvisionAborts(launch.env, launch.model)
    /\ wsRow' = "failed" /\ launch' = NoLaunch
    /\ UNCHANGED <<deployment, globals, own, ownModel, creation, agentBox, writer, owed, untold,
                   envFaults, writes>>
LaunchFails ==
    /\ launch.pc = "prepare" /\ EnvFault
    /\ wsRow' = "failed" /\ launch' = NoLaunch
    /\ UNCHANGED <<deployment, globals, own, ownModel, creation, agentBox, writer, owed, untold, writes>>
LaunchStarts ==
    /\ launch.pc = "prepare" /\ ~ProvisionAborts(launch.env, launch.model)
    /\ \E applied \in {applyPlatformManagedLLMEnv(launch.env, launch.model)} :
          agentBox' = [up |-> TRUE, read |-> launch.env, blurred |-> launch.blurred,
                       routed |-> applied.routed, provider |-> applied.provider,
                       model |-> applied.model, env |-> applied.env]
    /\ wsRow' = "online" /\ launch' = NoLaunch
    /\ UNCHANGED <<deployment, globals, own, ownModel, creation, writer, owed, untold, envFaults, writes>>

---------------------------------------------------------------------------
(* Writes of secrets and of the model.  A workspace is known to others     *)
(* once its provisioning is broadcast, behind the write of its MODEL.      *)

Announced == wsRow # "none" /\ creation.pc \notin {"idle", "valid", "stored"}

\* The workspace is one of the platform's by what is on file now.
platformManagedLLMModeForWorkspace ==
    DeriveProvider(ownModel, own \cap authEnvNameSet) \in {Nothing, Platform}

WriteBegins ==
    /\ writer.pc = "idle" /\ writes < MaxWrites /\ writes' = writes + 1
    /\ \E op \in {"set", "delete", "setGlobal", "deleteGlobal"}, k \in Keys, self \in BOOLEAN :
          /\ op = "set" => Announced /\ ~(platformManagedLLMModeForWorkspace /\ k \in BypassKeys)
          /\ op = "delete" => Announced /\ k \in own
          /\ op = "deleteGlobal" => k \in globals
          /\ writer' = [pc |-> "write", op |-> op, key |-> k, self |-> self]
    /\ UNCHANGED <<deployment, globals, own, ownModel, wsRow, creation, launch, agentBox, owed,
                   untold, envFaults>>

WriteLandsOnFile ==
    /\ writer.pc = "write"
    /\ writer' = [writer EXCEPT !.pc = "restart"]
    /\ own' = CASE writer.op = "set" -> own \union {writer.key}
                [] writer.op = "delete" -> own \ {writer.key} [] OTHER -> own
    /\ globals' = CASE writer.op = "setGlobal" -> globals \union {writer.key}
                    [] writer.op = "deleteGlobal" -> globals \ {writer.key} [] OTHER -> globals
    /\ UNCHANGED <<deployment, ownModel, wsRow, creation, launch, agentBox, owed, untold,
                   envFaults, writes>>

\* autoRestartAllowed: not for a write by the workspace itself, and not when
\* its kind cannot be read.  restartAllAffectedByGlobalKey: not where the
\* workspace has a value of its own.
RestartAffected == /\ wsRow \notin {"none", "external"}
                   /\ writer.op \in {"set", "delete"} \/ writer.key \notin own
WriteRequestsRestart ==
    /\ writer.pc = "restart" /\ writer' = NoWriter
    /\ \/ /\ RestartAffected /\ wsRow # "none" /\ ~writer.self
          /\ owed' = TRUE /\ UNCHANGED untold /\ NoFault
       \/ /\ RestartAffected /\ writer.self
          /\ untold' = TRUE /\ UNCHANGED owed /\ NoFault
       \/ ~RestartAffected /\ UNCHANGED <<owed, untold>> /\ NoFault
       \/ EnvFault /\ untold' = TRUE /\ UNCHANGED owed
    /\ UNCHANGED <<deployment, globals, own, ownModel, wsRow, creation, launch, agentBox, writes>>

\* PUT /model: checked against the registry, written, and always a restart.
SetModel ==
    /\ writer.pc = "idle" /\ writes < MaxWrites /\ writes' = writes + 1
    /\ Announced /\ wsRow # "external"
    /\ \E m \in Models \union {Nothing} :
          /\ m # Nothing => validateRegisteredModelForRuntime(m)
          /\ ownModel' = m
    /\ owed' = TRUE
    /\ UNCHANGED <<deployment, globals, own, wsRow, creation, launch, agentBox, writer, untold, envFaults>>

EnvNext ==
    \/ CreateRefused \/ CreateValidates \/ CreateInserts \/ CreateSetsModel \/ CreateExternal
    \/ CreateConfigFails \/ CreateProvisions
    \/ RestartBegins \/ ReadGlobals \/ ReadOwn \/ LaunchAborts \/ LaunchFails \/ LaunchStarts
    \/ WriteBegins \/ WriteLandsOnFile \/ WriteRequestsRestart \/ SetModel

EnvSpec == EnvInit /\ [][EnvNext]_envVars

---------------------------------------------------------------------------
(* Properties.                                                             *)

\* One type invariant.
EnvTypeOK ==
    /\ globals \subseteq Keys /\ own \subseteq Keys
    /\ wsRow \in {"none", "provisioning", "failed", "online", "external"}
    /\ creation.pc \in {"idle", "valid", "stored", "modelled", "done", "refused"}
    /\ launch.pc \in {"idle", "globals", "own", "prepare"}
    /\ writer.pc \in {"idle", "write", "restart"} /\ owed \in BOOLEAN

\* Who pays is who was chosen: a container of the proxy's holds no vendor key,
\* and one of a vendor's no key of the organisation's for another vendor, but
\* for the copy its adapter reads.
BoxIsClean ==
    agentBox.up =>
       \A k \in BypassKeys :
          /\ agentBox.routed => agentBox.env[k] \in {"none", "proxy"}
          /\ ~agentBox.routed /\ agentBox.env[k] = "global" =>
                k \in AuthEnv[agentBox.provider] \union {TokenEnv[agentBox.provider]}

\* What is started can talk to its model, whatever was written or deleted
\* between the checks of the create and the start.
BoxHasCredential ==
    agentBox.up => IF agentBox.routed THEN \E k \in Keys : agentBox.env[k] = "proxy"
                   ELSE \E k \in AuthEnv[agentBox.provider] : agentBox.env[k] # "none"

\* The operator's keys and the administrator's reach no container by way of
\* the organisation's secrets.
BoxHasNoOperatorKey ==
    agentBox.up => \A k \in Keys : /\ k \in OperatorKeys => agentBox.env[k] # "global"
                                   /\ k \in AdminKeys => agentBox.env[k] = "none"

\* When no restart is owed or under way, the container runs with the secrets
\* and the model on file, unless a restart was left out or a read had failed.
SecretsAreInBox ==
    agentBox.up /\ ~owed /\ ~untold /\ launch.pc = "idle" /\ writer.pc # "restart"
    /\ ~agentBox.blurred =>
       /\ agentBox.read = loadWorkspaceSecrets(globals, own)
       /\ ownModel # Nothing =>
             agentBox.model = Route(loadWorkspaceSecrets(globals, own), ownModel).model

\* The container of a workspace holds the credentials its files call for.
CredentialsAreRight ==
    EnvTypeOK /\ BoxIsClean /\ BoxHasCredential /\ BoxHasNoOperatorKey /\ SecretsAreInBox

\* Refuted: a vendor's key on file means a vendor's model.  The model may be
\* changed afterwards, or between the check of the write and the write.
VendorKeyMeansVendor == own \cap BypassKeys # {} => ~platformManagedLLMModeForWorkspace

\* Refuted: a create that was refused leaves no row that waits for its container.
RefusedIsFailed == creation.pc = "refused" /\ writes = 0 => wsRow \in {"none", "failed"}

=============================================================================
