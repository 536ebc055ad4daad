--------------------------- MODULE PlatformProofs ---------------------------
(***************************************************************************)
(* Proofs about what a container is started with (ProvisionEnv), for any   *)
(* registry, secrets, writes and faults, and about a message on its way to *)
(* a workspace (MessageDispatch), for any number of sends and troubles.    *)
(*                                                                         *)
(* ProvisionEnv: which credentials a container gets is decided by one      *)
(* function of what was read (applyPlatformManagedLLMEnv), so the first    *)
(* three promises are lemmas about that function.  That the container runs *)
(* with what is on file takes an invariant over the provisioning: what it  *)
(* has read so far is what is on file, unless a restart is owed, was left  *)
(* out, or will be requested by a write that is under way.                 *)
(*                                                                         *)
(* MessagesAreKept: what a send has told the canvas and what the log shows *)
(* follow from where its request is and what it got; one row per keyed     *)
(* message takes all its outcomes and its status leaves an error only for  *)
(* success; and an unkeyed row is added once by each send at most.         *)
(***************************************************************************)
EXTENDS ProvisionEnv, MessageDispatch, FiniteSetTheorems, TLAPS

-----------------------------------------------------------------------------
(* ProvisionEnv.                                                           *)

Source == {"none", "own", "global"}

CreationRecord == [pc : {"idle", "valid", "stored", "modelled", "done", "refused"},
                   model : Models \union {Nothing}, keys : SUBSET Keys, odd : BOOLEAN]
LaunchRecord == [pc : {"idle", "globals", "own", "prepare"}, model : Models \union {Nothing},
                 env : [Keys -> Source], blurred : BOOLEAN]
WriterRecord == [pc : {"idle", "write", "restart"},
                 op : {"none", "set", "delete", "setGlobal", "deleteGlobal"},
                 key : Keys \union {Nothing}, self : BOOLEAN]

EnvShape ==
    /\ globals \subseteq Keys /\ own \subseteq Keys
    /\ rootModel \in Models \union {Nothing} /\ ownModel \in Models \union {Nothing}
    /\ wsRow \in {"none", "provisioning", "failed", "online", "external"}
    /\ creation \in CreationRecord /\ launch \in LaunchRecord /\ writer \in WriterRecord
    /\ writer.pc # "idle" => writer.op # "none" /\ writer.key \in Keys
    /\ owed \in BOOLEAN

\* Until its MODEL is written, and for an external workspace, nothing starts.
Modelless ==
    creation.pc \in {"idle", "valid", "stored"} \/ wsRow \in {"none", "external"} =>
        ownModel = Nothing /\ ~agentBox.up /\ launch.model = Nothing
Stages ==
    /\ creation.pc \in {"idle", "valid"} => wsRow = "none"
    /\ creation.pc \in {"stored", "modelled"} => wsRow \in {"provisioning", "failed", "online"}
    /\ wsRow = "none" => launch.pc = "idle"

\* No restart is owed, was left out, or is about to be requested.
Settled == ~owed /\ ~untold /\ ~(writer.pc = "restart" /\ RestartAffected)

\* What the provisioning has read so far is what is on file.
LaunchIsCurrent ==
    Settled =>
       /\ launch.pc \in {"own", "prepare"} /\ ~launch.blurred /\ wsRow # "external" =>
             \A k \in Keys : (launch.pc = "prepare" \/ k \notin own) =>
                launch.env[k] = loadWorkspaceSecrets(globals, own)[k]
       /\ launch.pc # "idle" /\ ownModel # Nothing => launch.model \in {Nothing, ownModel}
BoxIsCurrent ==
    agentBox.up /\ Settled /\ ~agentBox.blurred =>
       /\ agentBox.read = loadWorkspaceSecrets(globals, own)
       /\ \A e \in {agentBox.read}, m \in {ownModel} \ {Nothing} : agentBox.model = Route(e, m).model

EnvInv == EnvShape /\ Modelless /\ Stages /\ LaunchIsCurrent /\ BoxIsCurrent
-----------------------------------------------------------------------------
(* The registry and the environment of a start.                            *)

LEMMA OneMatchIsVendor ==
    ASSUME NEW vs \in SUBSET Vendors, NEW avail
    PROVE  disambiguateByAuthEnv(vs, avail) \in vs \union {Nothing}
<1>1. CASE Cardinality(authEnvMatches(vs, avail)) = 1
  <2>1. IsFiniteSet(authEnvMatches(vs, avail))
    BY RegistryAssumption, FS_Subset DEF authEnvMatches
  <2>2. PICK v : authEnvMatches(vs, avail) = {v}
    BY <1>1, <2>1, FS_Singleton
  <2>3. \E w \in vs : w \in authEnvMatches(vs, avail)
    BY <2>2 DEF authEnvMatches
  <2> QED
    BY <1>1, <2>3 DEF disambiguateByAuthEnv
<1> QED
  BY <1>1 DEF disambiguateByAuthEnv

LEMMA DerivedIsVendor ==
    ASSUME NEW m \in Models \union {Nothing}, NEW avail
    PROVE  DeriveProvider(m, avail) \in Vendors \union {Nothing}
<1>1. CASE m = Nothing
  BY <1>1 DEF DeriveProvider
<1>2. CASE m # Nothing /\ Exact[m] # <<>>
  <2>1. Exact[m] \in Seq(Vendors)
    BY <1>2, RegistryAssumption
  <2>2. Exact[m][1] \in Vendors /\ Range(Exact[m]) \subseteq Vendors
    BY <1>2, <2>1 DEF Range
  <2>3. disambiguateByAuthEnv(Range(Exact[m]), avail) \in Vendors \union {Nothing}
    BY <2>2, OneMatchIsVendor
  <2> QED
    BY <1>2, <2>2, <2>3 DEF DeriveProvider
<1>3. CASE m # Nothing /\ Exact[m] = <<>>
  <2>1. Prefix[m] \subseteq Vendors
    BY <1>3, RegistryAssumption
  <2>2. Cardinality(Prefix[m]) = 1 => (CHOOSE v \in Prefix[m] : TRUE) \in Vendors
    <3>1. IsFiniteSet(Prefix[m])
      BY <2>1, RegistryAssumption, FS_Subset
    <3> QED
      BY <2>1, <3>1, FS_Singleton
  <2>3. disambiguateByAuthEnv(Prefix[m], avail) \in Vendors \union {Nothing}
    BY <2>1, OneMatchIsVendor
  <2> QED
    BY <1>3, <2>2, <2>3 DEF DeriveProvider
<1> QED
  BY <1>1, <1>2, <1>3

\* The provider of a route is the model's own, or the platform.
LEMMA RouteIsDerived ==
    ASSUME NEW env, NEW m \in Models \union {Nothing}, rootModel \in Models \union {Nothing}
    PROVE  LET r == Route(env, m)
           IN /\ r.routed => r.provider \in {Platform, Nothing}
              /\ ~r.routed => r.provider = DeriveProvider(r.model, availableAuthEnvNames(env))
              /\ r.model \in Models \union {Nothing}
<1> DEFINE avail == availableAuthEnvNames(env)
           derived == DeriveProvider(m, avail)
           toPlatform == \/ derived = Platform
                         \/ derived = Nothing /\ proxy
                         \/ derived # Nothing /\ proxy /\ ~hasAnyPlatformManagedLLMKey(derived, env)
           fallback == IF derived = Platform /\ ~proxy THEN onboardingSelectedFallback(env) ELSE Nothing
           r == Route(env, m)
<1>1. /\ r.model = IF fallback # Nothing THEN fallback ELSE m
      /\ r.routed = (toPlatform /\ fallback = Nothing)
      /\ r.provider = IF fallback # Nothing THEN DeriveProvider(fallback, avail)
                      ELSE IF toPlatform /\ derived # Nothing THEN Platform ELSE derived
  BY DEF Route
<1>2. fallback \in Models \union {Nothing}
  <2>1. onboardingSelectedFallback(env) \in {Nothing, rootModel, Bare[rootModel]}
    BY DEF onboardingSelectedFallback
  <2>2. rootModel # Nothing => Bare[rootModel] \in Models
    BY RegistryAssumption
  <2>3. rootModel = Nothing => onboardingSelectedFallback(env) = Nothing
    BY DEF onboardingSelectedFallback
  <2> QED
    BY <2>1, <2>2, <2>3
<1> HIDE DEF r, toPlatform, fallback, derived, avail
<1>3. r.routed => r.provider \in {Platform, Nothing}
  BY <1>1
<1>4. ~r.routed => r.provider = DeriveProvider(r.model, avail)
  BY <1>1 DEF derived
<1>5. r.model \in Models \union {Nothing}
  BY <1>1, <1>2
<1> QED
  BY <1>3, <1>4, <1>5 DEF r, avail
\* The proxy's environment: its token, and nothing of a vendor's.
LEMMA ProxyEnvIsClean ==
    ASSUME NEW env \in [Keys -> Source], NEW m \in Models \union {Nothing},
           rootModel \in Models \union {Nothing}, ~ProvisionAborts(env, m), Route(env, m).routed,
           NEW a, a = applyPlatformManagedLLMEnv(env, m)
    PROVE  /\ a.routed
           /\ \A k \in BypassKeys : a.env[k] \in {"none", "proxy"}
           /\ \E k \in Keys : a.env[k] = "proxy"
           /\ \A k \in Keys : /\ k \in OperatorKeys => a.env[k] # "global"
                              /\ k \in AdminKeys => a.env[k] = "none"
<1> DEFINE r == Route(env, m)
           stripped == stripPlatformManagedLLMBypassEnv(env)
           tokenKey == IF native /\ r.provider # Nothing /\ TokenEnv[r.provider] # Nothing
                       THEN TokenEnv[r.provider] ELSE ProxyKey
           proxyEnv == [stripped EXCEPT ![tokenKey] = "proxy"]
<1>1. a.routed /\ a.usable = proxy /\ a.env = IF proxy THEN proxyEnv ELSE env
  BY DEF applyPlatformManagedLLMEnv
<1>2. proxy
  BY <1>1 DEF ProvisionAborts
<1>3. a.env = proxyEnv
  BY <1>1, <1>2
<1>4. r.provider \in Vendors \union {Nothing}
  BY RouteIsDerived, RegistryAssumption
<1>5. tokenKey \in Keys \ (OperatorKeys \union AdminKeys)
  BY <1>4, RegistryAssumption
<1>6. /\ stripped \in [Keys -> Source]
      /\ \A k \in BypassKeys : stripped[k] = "none"
      /\ \A k \in Keys : stripped[k] \in {"none", env[k]}
  BY RegistryAssumption DEF stripPlatformManagedLLMBypassEnv, Source
<1>7. \A k \in Keys : /\ k \in OperatorKeys => env[k] # "global"
                      /\ k \in AdminKeys => env[k] = "none"
  BY DEF ProvisionAborts, findForbiddenTenantEnvKeysFromGlobals, findPrivilegedTenantAdminEnvKeys
<1> HIDE DEF stripped, tokenKey
<1>8. \A k \in Keys : proxyEnv[k] = IF k = tokenKey THEN "proxy" ELSE stripped[k]
  BY <1>5, <1>6
<1>9. \A k \in BypassKeys : a.env[k] \in {"none", "proxy"}
  BY <1>3, <1>6, <1>8, RegistryAssumption
<1>10. \E k \in Keys : a.env[k] = "proxy"
  BY <1>3, <1>5, <1>8
<1> HIDE DEF proxyEnv
<1>11. ASSUME NEW k \in Keys
       PROVE  /\ k \in OperatorKeys => a.env[k] # "global"
              /\ k \in AdminKeys => a.env[k] = "none"
  <2>1. a.env[k] = IF k = tokenKey THEN "proxy" ELSE stripped[k]
    BY <1>3, <1>8
  <2>2. k \in OperatorKeys => a.env[k] # "global"
    BY <2>1, <1>6, <1>7
  <2>3. k \in AdminKeys => a.env[k] = "none"
    BY <2>1, <1>5, <1>6, <1>7
  <2> QED
    BY <2>2, <2>3
<1> QED
  BY <1>1, <1>9, <1>10, <1>11

\* A vendor's environment: a key of that vendor's, and no global key of another.
LEMMA VendorEnvIsClean ==
    ASSUME NEW env \in [Keys -> Source], NEW m \in Models \union {Nothing},
           rootModel \in Models \union {Nothing}, ~ProvisionAborts(env, m), ~Route(env, m).routed,
           NEW a, a = applyPlatformManagedLLMEnv(env, m)
    PROVE  /\ ~a.routed
           /\ \A k \in BypassKeys : a.env[k] = "global" =>
                 k \in AuthEnv[a.provider] \union {TokenEnv[a.provider]}
           /\ \E k \in AuthEnv[a.provider] : a.env[k] # "none"
           /\ \A k \in Keys : /\ k \in OperatorKeys => a.env[k] # "global"
                              /\ k \in AdminKeys => a.env[k] = "none"
<1> DEFINE r == Route(env, m)
           v == r.provider
           stripped == stripNonMatchingGlobalOriginLLMCreds(env, r.model, availableAuthEnvNames(env))
           vendorEnv == projectToken(v, stripped)
<1>1. /\ ~a.routed /\ a.provider = v /\ a.env = vendorEnv
      /\ a.usable = hasAnyPlatformManagedLLMKey(v, vendorEnv)
  BY DEF applyPlatformManagedLLMEnv
<1>2. hasAnyPlatformManagedLLMKey(v, vendorEnv)
  BY <1>1 DEF ProvisionAborts
<1>3. v # Nothing /\ \E k \in AuthEnv[v] : vendorEnv[k] # "none"
  BY <1>2 DEF hasAnyPlatformManagedLLMKey
<1>4. v = DeriveProvider(r.model, availableAuthEnvNames(env)) /\ v \in Vendors
  BY <1>3, RouteIsDerived, DerivedIsVendor
<1>5. /\ stripped \in [Keys -> Source]
      /\ \A k \in Keys : stripped[k] \in {"none", env[k]}
      /\ \A k \in BypassKeys : stripped[k] = "global" => k \in AuthEnv[v]
  BY <1>3, <1>4, RegistryAssumption DEF stripNonMatchingGlobalOriginLLMCreds, Source
<1>6. \A k \in Keys : /\ k \in OperatorKeys => env[k] # "global"
                      /\ k \in AdminKeys => env[k] = "none"
  BY DEF ProvisionAborts, findForbiddenTenantEnvKeysFromGlobals, findPrivilegedTenantAdminEnvKeys
<1> HIDE DEF stripped, v
<1>7. \A k \in Keys : k # TokenEnv[v] => vendorEnv[k] = stripped[k]
  BY <1>5 DEF projectToken
<1>8. TokenEnv[v] \notin OperatorKeys \union AdminKeys \/ TokenEnv[v] = Nothing
  BY <1>4, RegistryAssumption
<1>9. TokenEnv[v] = Nothing => vendorEnv = stripped
  BY DEF projectToken
<1> HIDE DEF vendorEnv
<1>10. ASSUME NEW k \in BypassKeys, a.env[k] = "global"
       PROVE  k \in AuthEnv[a.provider] \union {TokenEnv[a.provider]}
  BY <1>1, <1>5, <1>7, <1>10, RegistryAssumption
<1>11. ASSUME NEW k \in Keys
       PROVE  /\ k \in OperatorKeys => a.env[k] # "global"
              /\ k \in AdminKeys => a.env[k] = "none"
  <2>1. k \in OperatorKeys \union AdminKeys => a.env[k] = stripped[k]
    BY <1>1, <1>7, <1>8, <1>9
  <2>2. stripped[k] \in {"none", env[k]}
    BY <1>5
  <2> QED
    BY ONLY <2>1, <2>2, <1>6, k \in Keys
<1> QED
  BY <1>1, <1>3, <1>10, <1>11
-----------------------------------------------------------------------------
(* What a container is started with.                                       *)

LEMMA StartIsClean ==
    ASSUME EnvShape, LaunchStarts
    PROVE  (BoxIsClean /\ BoxHasCredential /\ BoxHasNoOperatorKey)'
<1> DEFINE applied == applyPlatformManagedLLMEnv(launch.env, launch.model)
<1>1. /\ launch.env \in [Keys -> Source] /\ launch.model \in Models \union {Nothing}
      /\ rootModel \in Models \union {Nothing} /\ ~ProvisionAborts(launch.env, launch.model)
  BY DEF EnvShape, LaunchRecord, LaunchStarts
<1>2. agentBox' = [up |-> TRUE, read |-> launch.env, blurred |-> launch.blurred,
                   routed |-> applied.routed, provider |-> applied.provider,
                   model |-> applied.model, env |-> applied.env]
  BY DEF LaunchStarts
<1> HIDE DEF applied
<1>3. /\ agentBox'.routed = applied.routed /\ agentBox'.provider = applied.provider
      /\ agentBox'.env = applied.env
  BY <1>2
<1>4. CASE Route(launch.env, launch.model).routed
  <2>1. /\ applied.routed
        /\ \A k \in BypassKeys : applied.env[k] \in {"none", "proxy"}
        /\ \E k \in Keys : applied.env[k] = "proxy"
        /\ \A k \in Keys : /\ k \in OperatorKeys => applied.env[k] # "global"
                           /\ k \in AdminKeys => applied.env[k] = "none"
    BY <1>1, <1>4, ProxyEnvIsClean DEF applied
  <2>2. agentBox'.routed
    BY <1>3, <2>1
  <2>3. BoxIsClean'
    BY ONLY <1>3, <2>1, <2>2, Zenon DEF BoxIsClean
  <2>4. BoxHasCredential'
    BY ONLY <1>3, <2>1, <2>2 DEF BoxHasCredential
  <2>5. BoxHasNoOperatorKey'
    BY ONLY <1>3, <2>1 DEF BoxHasNoOperatorKey
  <2> QED
    BY <2>3, <2>4, <2>5
<1>5. CASE ~Route(launch.env, launch.model).routed
  <2>1. /\ ~applied.routed
        /\ \A k \in BypassKeys : applied.env[k] = "global" =>
              k \in AuthEnv[applied.provider] \union {TokenEnv[applied.provider]}
        /\ \E k \in AuthEnv[applied.provider] : applied.env[k] # "none"
        /\ \A k \in Keys : /\ k \in OperatorKeys => applied.env[k] # "global"
                           /\ k \in AdminKeys => applied.env[k] = "none"
    BY <1>1, <1>5, VendorEnvIsClean DEF applied
  <2>2. ~agentBox'.routed
    BY <1>3, <2>1
  <2>3. BoxIsClean'
    BY ONLY <1>3, <2>1, <2>2, Zenon DEF BoxIsClean
  <2>4. BoxHasCredential'
    BY ONLY <1>3, <2>1, <2>2 DEF BoxHasCredential
  <2>5. BoxHasNoOperatorKey'
    BY ONLY <1>3, <2>1 DEF BoxHasNoOperatorKey
  <2> QED
    BY <2>3, <2>4, <2>5
<1> QED
  BY <1>4, <1>5

-----------------------------------------------------------------------------
(* The steps.                                                              *)

LEMMA ShapeStep ==
    ASSUME EnvShape, EnvNext
    PROVE  EnvShape'
<1> USE RegistryAssumption
    DEF EnvShape, CreationRecord, LaunchRecord, WriterRecord, Source, deployment, NoLaunch, NoWriter
<1>1. CASE CreateRefused
  BY <1>1 DEF CreateRefused
<1>2. CASE CreateValidates
  <2>1. PICK m \in Models, keys \in SUBSET (Keys \ AdminKeys), pc \in {"valid", "refused"} :
             creation' = [creation EXCEPT !.pc = pc, !.model = m, !.keys = keys]
    BY ONLY <1>2 DEF CreateValidates
  <2>2. creation' \in CreationRecord
    BY ONLY <2>1, EnvShape DEF EnvShape, CreationRecord
  <2> QED
    BY ONLY <1>2, <2>2, EnvShape DEF CreateValidates, EnvShape, deployment
<1>3. CASE CreateInserts
  BY <1>3 DEF CreateInserts
<1>4. CASE CreateSetsModel
  BY <1>4 DEF CreateSetsModel
<1>5. CASE CreateExternal
  BY <1>5 DEF CreateExternal
<1>6. CASE CreateConfigFails
  <2>1. creation' \in CreationRecord
    BY ONLY <1>6, EnvShape DEF CreateConfigFails, EnvShape, CreationRecord
  <2>2. wsRow' \in {"failed", wsRow}
    BY ONLY <1>6 DEF CreateConfigFails
  <2> QED
    BY ONLY <1>6, <2>1, <2>2, EnvShape DEF CreateConfigFails, EnvShape, deployment
<1>7. CASE CreateProvisions
  BY <1>7 DEF CreateProvisions
<1>8. CASE RestartBegins
  <2>1. launch' \in LaunchRecord
    BY ONLY <1>8 DEF RestartBegins, NoLaunch, LaunchRecord, Source
  <2>2. owed' \in BOOLEAN
    BY ONLY <1>8 DEF RestartBegins
  <2>3. /\ wsRow' = "provisioning"
        /\ UNCHANGED <<globals, own, rootModel, ownModel, creation, writer>>
    BY ONLY <1>8 DEF RestartBegins, deployment
  <2> QED
    BY ONLY <2>1, <2>2, <2>3, EnvShape DEF EnvShape
<1>9. CASE ReadGlobals
  <2>1. launch' \in LaunchRecord
    <3>1. launch \in LaunchRecord
      BY ONLY EnvShape DEF EnvShape
    <3>2. loadWorkspaceSecrets(globals, {}) \in [Keys -> Source]
      BY ONLY TRUE DEF loadWorkspaceSecrets, Source
    <3> QED
      BY ONLY <1>9, <3>1, <3>2 DEF ReadGlobals, LaunchRecord
  <2> QED
    BY ONLY <1>9, <2>1, EnvShape DEF ReadGlobals, EnvShape, deployment
<1>10. CASE ReadOwn
  <2>1. launch' \in LaunchRecord
    <3>1. launch \in LaunchRecord /\ ownModel \in Models \union {Nothing}
      BY ONLY EnvShape DEF EnvShape
    <3>2. effectiveModelForBilling(launch.model) \in Models \union {Nothing}
      BY ONLY <3>1 DEF effectiveModelForBilling, LaunchRecord
    <3>3. [k \in Keys |-> IF k \in own THEN "own" ELSE launch.env[k]] \in [Keys -> Source]
      BY ONLY <3>1 DEF LaunchRecord, Source
    <3> QED
      BY ONLY <1>10, <3>1, <3>2, <3>3 DEF ReadOwn, LaunchRecord
  <2> QED
    BY ONLY <1>10, <2>1, EnvShape DEF ReadOwn, EnvShape, deployment
<1>11. CASE LaunchAborts
  BY <1>11 DEF LaunchAborts
<1>12. CASE LaunchFails
  BY <1>12 DEF LaunchFails
<1>13. CASE LaunchStarts
  BY <1>13 DEF LaunchStarts
<1>14. CASE WriteBegins
  BY <1>14 DEF WriteBegins
<1>15. CASE WriteLandsOnFile
  <2>1. writer' \in WriterRecord /\ writer'.op = writer.op /\ writer'.key = writer.key
    BY ONLY <1>15, EnvShape DEF WriteLandsOnFile, EnvShape, WriterRecord
  <2>2. writer.key \in Keys /\ writer.op # "none"
    BY ONLY <1>15, EnvShape DEF WriteLandsOnFile, EnvShape, WriterRecord
  <2>3. own' \subseteq Keys /\ globals' \subseteq Keys
    BY ONLY <1>15, <2>2, EnvShape DEF WriteLandsOnFile, EnvShape
  <2>4. UNCHANGED <<rootModel, ownModel, wsRow, creation, launch, owed>>
    BY ONLY <1>15 DEF WriteLandsOnFile, deployment
  <2> QED
    BY ONLY <2>1, <2>2, <2>3, <2>4, EnvShape DEF EnvShape
<1>16. CASE WriteRequestsRestart
  <2>1. writer' \in WriterRecord /\ writer'.pc = "idle"
    BY ONLY <1>16 DEF WriteRequestsRestart, NoWriter, WriterRecord
  <2>2. owed' \in BOOLEAN
    BY ONLY <1>16, EnvShape DEF WriteRequestsRestart, EnvShape
  <2>3. UNCHANGED <<globals, own, rootModel, ownModel, wsRow, creation, launch>>
    BY ONLY <1>16 DEF WriteRequestsRestart, deployment
  <2> QED
    BY ONLY <2>1, <2>2, <2>3, EnvShape DEF EnvShape
<1>17. CASE SetModel
  BY <1>17 DEF SetModel
<1> QED
  BY ONLY EnvNext, <1>1, <1>2, <1>3, <1>4, <1>5, <1>6, <1>7, <1>8, <1>9, <1>10, <1>11, <1>12,
          <1>13, <1>14, <1>15, <1>16, <1>17 DEF EnvNext

LEMMA StageStep ==
    ASSUME EnvShape, Modelless, Stages, EnvNext
    PROVE  Modelless' /\ Stages'
<1>0. creation \in CreationRecord /\ launch \in LaunchRecord
  BY DEF EnvShape
<1> USE <1>0 DEF Modelless, Stages, CreationRecord, LaunchRecord, NoLaunch
<1>1. CASE CreateRefused
  BY <1>1 DEF CreateRefused
<1>2. CASE CreateValidates
  BY <1>2 DEF CreateValidates
<1>3. CASE CreateInserts
  BY <1>3 DEF CreateInserts
<1>4. CASE CreateSetsModel
  BY <1>4 DEF CreateSetsModel
<1>5. CASE CreateExternal
  BY <1>5 DEF CreateExternal
<1>6. CASE CreateConfigFails
  BY <1>6 DEF CreateConfigFails
<1>7. CASE CreateProvisions
  BY <1>7 DEF CreateProvisions
<1>8. CASE RestartBegins
  <2>1. ~agentBox'.up
    BY ONLY <1>8 DEF RestartBegins, NoBox
  <2>2. /\ launch'.model = Nothing /\ wsRow \in {"provisioning", "failed", "online"}
        /\ wsRow' = "provisioning" /\ UNCHANGED <<ownModel, creation>>
    BY ONLY <1>8 DEF RestartBegins, NoLaunch
  <2> QED
    BY <2>1, <2>2
<1>9. CASE ReadGlobals
  BY <1>9 DEF ReadGlobals
<1>10. CASE ReadOwn
  <2>1. launch'.model \in {launch.model, effectiveModelForBilling(launch.model)}
    BY ONLY <1>10, <1>0 DEF ReadOwn, LaunchRecord
  <2>2. launch'.pc = "prepare" /\ launch.pc = "own" /\ UNCHANGED <<ownModel, creation, wsRow, agentBox>>
    BY ONLY <1>10, <1>0 DEF ReadOwn, LaunchRecord
  <2> QED
    BY <2>1, <2>2 DEF effectiveModelForBilling
<1>11. CASE LaunchAborts
  BY <1>11 DEF LaunchAborts
<1>12. CASE LaunchFails
  BY <1>12 DEF LaunchFails
<1>13. CASE LaunchStarts
  <2>1. launch.model # Nothing /\ wsRow' = "online" /\ UNCHANGED <<ownModel, creation>>
    BY ONLY <1>13 DEF LaunchStarts, ProvisionAborts
  <2> QED
    BY <2>1
<1>14. CASE WriteBegins
  BY <1>14 DEF WriteBegins
<1>15. CASE WriteLandsOnFile
  BY <1>15 DEF WriteLandsOnFile
<1>16. CASE WriteRequestsRestart
  BY <1>16 DEF WriteRequestsRestart
<1>17. CASE SetModel
  <2>1. /\ wsRow \notin {"none", "external"} /\ creation.pc \notin {"idle", "valid", "stored"}
        /\ UNCHANGED <<wsRow, creation, launch, agentBox>>
    BY ONLY <1>17 DEF SetModel, Announced
  <2> QED
    BY <2>1
<1> QED
  BY ONLY EnvNext, <1>1, <1>2, <1>3, <1>4, <1>5, <1>6, <1>7, <1>8, <1>9, <1>10, <1>11, <1>12,
          <1>13, <1>14, <1>15, <1>16, <1>17 DEF EnvNext

LEMMA RouteIsStable ==
    ASSUME UNCHANGED deployment, NEW e, NEW m
    PROVE  Route(e, m)' = Route(e, m)
  BY DEF Route, onboardingSelectedFallback, deployment

\* The container and what is on file stay, and no restart was called off.
LEMMA BoxQuiet ==
    ASSUME BoxIsCurrent, UNCHANGED <<deployment, globals, own, ownModel, agentBox>>,
           Settled' => Settled
    PROVE  BoxIsCurrent'
<1> SUFFICES ASSUME agentBox'.up, Settled', ~agentBox'.blurred
             PROVE  /\ agentBox'.read = loadWorkspaceSecrets(globals', own')
                    /\ \A e \in {agentBox'.read}, m \in {ownModel'} \ {Nothing} :
                          agentBox'.model = Route(e, m)'.model
  BY DEF BoxIsCurrent, loadWorkspaceSecrets
<1>1. /\ agentBox.read = loadWorkspaceSecrets(globals, own)
      /\ \A e \in {agentBox.read}, m \in {ownModel} \ {Nothing} : agentBox.model = Route(e, m).model
  BY DEF BoxIsCurrent
<1>2. UNCHANGED deployment
  OBVIOUS
<1>3. agentBox' = agentBox /\ ownModel' = ownModel /\ globals' = globals /\ own' = own
  OBVIOUS
<1>4. ASSUME NEW e \in {agentBox'.read}, NEW m \in {ownModel'} \ {Nothing}
      PROVE  agentBox'.model = Route(e, m)'.model
  <2>1. Route(e, m)' = Route(e, m)
    BY <1>2, RouteIsStable
  <2>2. agentBox.model = Route(e, m).model
    BY <1>1, <1>3
  <2> QED
    BY <1>3, <2>1, <2>2
<1> QED
  BY <1>1, <1>3, <1>4

LEMMA LaunchQuiet ==
    ASSUME LaunchIsCurrent, UNCHANGED <<globals, own, ownModel, launch>>, Settled' => Settled,
           wsRow = "external" => wsRow' = "external" \/ launch.pc = "idle"
    PROVE  LaunchIsCurrent'
  BY DEF LaunchIsCurrent, loadWorkspaceSecrets

\* Nothing is read and nothing runs.
LEMMA CurrentIdle ==
    ASSUME launch'.pc \in {"idle", "globals"}, ~agentBox'.up,
           Settled' /\ launch'.pc # "idle" /\ ownModel' # Nothing => launch'.model \in {Nothing, ownModel'}
    PROVE  LaunchIsCurrent' /\ BoxIsCurrent'
<1>1. LaunchIsCurrent'
  BY DEF LaunchIsCurrent
<1>2. BoxIsCurrent'
  BY DEF BoxIsCurrent
<1> QED
  BY <1>1, <1>2

LEMMA CreateCurrent ==
    ASSUME EnvInv,
           \/ CreateRefused \/ CreateValidates \/ CreateInserts \/ CreateSetsModel \/ CreateExternal
           \/ CreateConfigFails \/ CreateProvisions
    PROVE  LaunchIsCurrent' /\ BoxIsCurrent'
<1>0. EnvShape /\ Modelless /\ Stages /\ LaunchIsCurrent /\ BoxIsCurrent
  BY DEF EnvInv
<1>1. CASE CreateRefused \/ CreateValidates
  <2>1. /\ UNCHANGED <<deployment, globals, own, ownModel, agentBox>> /\ UNCHANGED launch
        /\ UNCHANGED <<owed, untold, writer, wsRow>>
    BY <1>1 DEF CreateRefused, CreateValidates
  <2>2. Settled' => Settled
    BY <2>1 DEF Settled, RestartAffected
  <2> QED
    BY <1>0, <2>1, <2>2, BoxQuiet, LaunchQuiet
<1>2. CASE CreateInserts
  <2>1. creation.pc = "valid" /\ UNCHANGED <<agentBox, launch, ownModel>>
    BY <1>2 DEF CreateInserts
  <2>2. launch.pc = "idle" /\ ~agentBox.up
    BY <1>0, <2>1 DEF Modelless, Stages
  <2>3. launch'.pc = "idle" /\ ~agentBox'.up
    BY <2>1, <2>2
  <2> QED
    BY <2>3, CurrentIdle
<1>3. CASE CreateSetsModel
  <2>1. creation.pc = "stored" /\ UNCHANGED <<globals, own, agentBox, launch, wsRow>>
    BY <1>3 DEF CreateSetsModel
  <2>2. UNCHANGED <<owed, untold, writer>>
    BY <1>3 DEF CreateSetsModel
  <2>3. launch.model = Nothing /\ ~agentBox.up
    BY <1>0, <2>1 DEF Modelless
  <2>4. ~agentBox'.up
    BY <2>1, <2>3
  <2>5. Settled' => Settled
    BY <2>1, <2>2 DEF Settled, RestartAffected
  <2>6. LaunchIsCurrent'
    BY <1>0, <2>1, <2>3, <2>5 DEF LaunchIsCurrent, loadWorkspaceSecrets
  <2>7. BoxIsCurrent'
    BY <2>4 DEF BoxIsCurrent
  <2> QED
    BY <2>6, <2>7
<1>4. CASE CreateExternal
  <2>1. /\ creation.pc = "stored" /\ UNCHANGED <<agentBox, launch, ownModel>>
        /\ wsRow' = "external"
    BY <1>4 DEF CreateExternal
  <2>2. ownModel = Nothing /\ ~agentBox.up
    BY <1>0, <2>1 DEF Modelless
  <2>3. ~agentBox'.up /\ ownModel' = Nothing
    BY <2>1, <2>2
  <2>4. LaunchIsCurrent'
    BY <2>1, <2>3 DEF LaunchIsCurrent
  <2>5. BoxIsCurrent'
    BY <2>3 DEF BoxIsCurrent
  <2> QED
    BY <2>4, <2>5
<1>5. CASE CreateConfigFails
  <2>1. /\ UNCHANGED <<deployment, globals, own, ownModel, agentBox>> /\ UNCHANGED launch
        /\ UNCHANGED <<owed, untold, writer>> /\ wsRow' \in {"failed", wsRow}
        /\ creation.pc = "modelled"
    BY <1>5 DEF CreateConfigFails
  <2>2. wsRow \in {"provisioning", "failed", "online"}
    BY <1>0, <2>1 DEF Stages
  <2>3. Settled' => Settled
    BY <2>1, <2>2 DEF Settled, RestartAffected
  <2> QED
    BY <1>0, <2>1, <2>2, <2>3, BoxQuiet, LaunchQuiet
<1>6. CASE CreateProvisions
  <2>1. /\ UNCHANGED <<deployment, globals, own, ownModel, agentBox>>
        /\ UNCHANGED <<owed, writer, wsRow>>
        /\ launch'.pc = "globals" /\ launch'.model = creation.model
    BY <1>6 DEF CreateProvisions, NoLaunch
  <2>2. ~untold' => ~untold /\ ownModel \in {Nothing, creation.model}
    BY <1>6 DEF CreateProvisions
  <2>3. Settled' => Settled
    BY <2>1, <2>2 DEF Settled, RestartAffected
  <2>4. Settled' => ownModel' \in {Nothing, launch'.model}
    BY <2>1, <2>2 DEF Settled
  <2>5. LaunchIsCurrent'
    BY <2>1, <2>4 DEF LaunchIsCurrent
  <2> QED
    BY <1>0, <2>1, <2>3, <2>5, BoxQuiet
<1> QED
  BY <1>1, <1>2, <1>3, <1>4, <1>5, <1>6

LEMMA ReadCurrent ==
    ASSUME EnvInv, RestartBegins \/ ReadGlobals \/ ReadOwn
    PROVE  LaunchIsCurrent' /\ BoxIsCurrent'
<1>0. EnvShape /\ LaunchIsCurrent /\ BoxIsCurrent
  BY DEF EnvInv
<1>1. CASE RestartBegins
  <2>1. ~agentBox'.up
    BY <1>1 DEF RestartBegins, NoBox
  <2>2. launch'.pc = "globals" /\ launch'.model = Nothing
    BY <1>1 DEF RestartBegins, NoLaunch
  <2> QED
    BY <2>1, <2>2, CurrentIdle
<1>2. CASE ReadGlobals
  <2>1. /\ UNCHANGED <<deployment, globals, own, ownModel, agentBox>>
        /\ UNCHANGED <<owed, untold, writer, wsRow>>
    BY <1>2 DEF ReadGlobals
  <2>2. Settled' => Settled
    BY <2>1 DEF Settled, RestartAffected
  <2>3. launch'.pc = "own" /\ launch'.model = launch.model /\ launch.pc = "globals"
    BY <1>0, <1>2 DEF ReadGlobals, EnvShape, LaunchRecord
  <2>4. launch'.blurred \/ launch'.env = loadWorkspaceSecrets(globals, {})
    BY <1>0, <1>2 DEF ReadGlobals, EnvShape, LaunchRecord
  <2>5. ASSUME ~launch'.blurred, NEW k \in Keys, k \notin own'
        PROVE  launch'.env[k] = loadWorkspaceSecrets(globals', own')[k]
    <3>1. launch'.env = loadWorkspaceSecrets(globals, {})
      BY <2>4, <2>5
    <3> QED
      BY <2>1, <2>5, <3>1 DEF loadWorkspaceSecrets
  <2>6. LaunchIsCurrent'
    BY <1>0, <2>1, <2>2, <2>3, <2>5 DEF LaunchIsCurrent, loadWorkspaceSecrets
  <2> QED
    BY <1>0, <2>1, <2>2, <2>6, BoxQuiet
<1>3. CASE ReadOwn
  <2>1. /\ UNCHANGED <<deployment, globals, own, ownModel, agentBox>>
        /\ UNCHANGED <<owed, untold, writer, wsRow>>
    BY <1>3 DEF ReadOwn
  <2>2. Settled' => Settled
    BY <2>1 DEF Settled, RestartAffected
  <2>3. /\ launch'.pc = "prepare" /\ launch.pc = "own"
        /\ launch'.model \in {launch.model, effectiveModelForBilling(launch.model)}
    BY <1>0, <1>3 DEF ReadOwn, EnvShape, LaunchRecord
  <2>4. \/ launch'.blurred
        \/ /\ launch'.blurred = launch.blurred
           /\ launch'.env = [k \in Keys |-> IF k \in own THEN "own" ELSE launch.env[k]]
    BY <1>0, <1>3 DEF ReadOwn, EnvShape, LaunchRecord
  <2>5. ASSUME ~launch'.blurred, Settled', wsRow' # "external", NEW k \in Keys
        PROVE  launch'.env[k] = loadWorkspaceSecrets(globals', own')[k]
    <3>1. ~launch.blurred /\ launch'.env = [j \in Keys |-> IF j \in own THEN "own" ELSE launch.env[j]]
      BY <2>4, <2>5
    <3>2. k \notin own => launch.env[k] = loadWorkspaceSecrets(globals, own)[k]
      BY <1>0, <2>1, <2>2, <2>3, <2>5, <3>1 DEF LaunchIsCurrent
    <3> QED
      BY <2>1, <3>1, <3>2 DEF loadWorkspaceSecrets
  <2>6. Settled' /\ ownModel' # Nothing => launch'.model \in {Nothing, ownModel'}
    BY <1>0, <2>1, <2>2, <2>3 DEF LaunchIsCurrent, effectiveModelForBilling
  <2>7. LaunchIsCurrent'
    BY <2>3, <2>5, <2>6 DEF LaunchIsCurrent, loadWorkspaceSecrets
  <2> QED
    BY <1>0, <2>1, <2>2, <2>7, BoxQuiet
<1> QED
  BY <1>1, <1>2, <1>3

LEMMA LaunchCurrent ==
    ASSUME EnvInv, LaunchAborts \/ LaunchFails \/ LaunchStarts
    PROVE  LaunchIsCurrent' /\ BoxIsCurrent'
<1>0. EnvShape /\ Modelless /\ Stages /\ LaunchIsCurrent /\ BoxIsCurrent
  BY DEF EnvInv
<1>a. launch.pc = "prepare" /\ launch'.pc = "idle" /\ UNCHANGED <<own, writer, owed, untold>>
  BY DEF LaunchAborts, LaunchFails, LaunchStarts, NoLaunch
<1>b. LaunchIsCurrent'
  BY <1>a DEF LaunchIsCurrent
<1>c. wsRow # "none"
  BY <1>0, <1>a DEF Stages
<1>1. CASE LaunchAborts \/ LaunchFails
  <2>1. wsRow' = "failed" /\ UNCHANGED <<deployment, globals, own, ownModel, agentBox>>
    BY <1>1 DEF LaunchAborts, LaunchFails
  <2>2. CASE wsRow = "external"
    <3>1. ~agentBox.up
      BY <1>0, <2>2 DEF Modelless
    <3>2. ~agentBox'.up
      BY <2>1, <3>1
    <3> QED
      BY <1>b, <3>2 DEF BoxIsCurrent
  <2>3. CASE wsRow # "external"
    <3>1. Settled' => Settled
      BY <1>a, <1>c, <2>1, <2>3 DEF Settled, RestartAffected
    <3> QED
      BY <1>0, <1>b, <2>1, <3>1, BoxQuiet
  <2> QED
    BY <2>2, <2>3
<1>2. CASE LaunchStarts
  <2> DEFINE applied == applyPlatformManagedLLMEnv(launch.env, launch.model)
  <2>1. /\ agentBox' = [up |-> TRUE, read |-> launch.env, blurred |-> launch.blurred,
                        routed |-> applied.routed, provider |-> applied.provider,
                        model |-> applied.model, env |-> applied.env]
        /\ wsRow' = "online" /\ launch.model # Nothing
        /\ UNCHANGED deployment /\ UNCHANGED <<globals, own, ownModel>>
    BY <1>2 DEF LaunchStarts, ProvisionAborts
  <2>2. applied.model = Route(launch.env, launch.model).model
    BY DEF applyPlatformManagedLLMEnv
  <2> HIDE DEF applied
  <2>3. /\ agentBox'.read = launch.env /\ agentBox'.blurred = launch.blurred
        /\ agentBox'.model = Route(launch.env, launch.model).model
    BY <2>1, <2>2
  <2>4. wsRow # "external"
    BY <1>0, <2>1 DEF Modelless
  <2>5. Settled' => Settled
    BY <1>a, <1>c, <2>1, <2>4 DEF Settled, RestartAffected
  <2>6. ASSUME Settled', ~agentBox'.blurred
        PROVE  agentBox'.read = loadWorkspaceSecrets(globals', own')
    <3>1. ~launch.blurred
      BY <2>3, <2>6
    <3>2. \A k \in Keys : launch.env[k] = loadWorkspaceSecrets(globals, own)[k]
      BY <1>0, <1>a, <2>4, <2>5, <2>6, <3>1 DEF LaunchIsCurrent
    <3>3. launch.env \in [Keys -> Source]
      BY <1>0 DEF EnvShape, LaunchRecord
    <3>4. launch.env = loadWorkspaceSecrets(globals, own)
      BY <3>2, <3>3 DEF loadWorkspaceSecrets
    <3> QED
      BY <2>1, <2>3, <3>4 DEF loadWorkspaceSecrets
  <2>7. ASSUME Settled', NEW e \in {agentBox'.read}, NEW m \in {ownModel'} \ {Nothing}
        PROVE  agentBox'.model = Route(e, m)'.model
    <3>1. e = launch.env /\ m = ownModel /\ ownModel # Nothing
      BY <2>1, <2>3, <2>7
    <3>2. launch.model = m
      BY <1>0, <1>a, <2>1, <2>5, <2>7, <3>1 DEF LaunchIsCurrent
    <3>3. Route(e, m)' = Route(e, m)
      BY <2>1, RouteIsStable
    <3> QED
      BY <2>3, <3>1, <3>2, <3>3
  <2>8. BoxIsCurrent'
    BY <2>6, <2>7 DEF BoxIsCurrent, loadWorkspaceSecrets
  <2> QED
    BY <1>b, <2>8
<1> QED
  BY <1>1, <1>2

\* A write that lands where it is read is followed by a request to restart.
LEMMA WriteCurrent ==
    ASSUME EnvInv, WriteBegins \/ WriteLandsOnFile \/ WriteRequestsRestart \/ SetModel
    PROVE  LaunchIsCurrent' /\ BoxIsCurrent'
<1>0. EnvShape /\ Modelless /\ Stages /\ LaunchIsCurrent /\ BoxIsCurrent
  BY DEF EnvInv
<1>1. CASE WriteBegins
  <2>1. /\ UNCHANGED <<deployment, globals, own, ownModel, agentBox>> /\ UNCHANGED launch
        /\ UNCHANGED <<owed, untold, wsRow>> /\ writer.pc = "idle"
    BY <1>1 DEF WriteBegins
  <2>2. Settled' => Settled
    BY <2>1 DEF Settled
  <2> QED
    BY <1>0, <2>1, <2>2, BoxQuiet, LaunchQuiet
<1>2. CASE WriteLandsOnFile
  <2>1. /\ UNCHANGED <<deployment, ownModel, wsRow, launch, agentBox>>
        /\ UNCHANGED <<owed, untold>> /\ writer.pc = "write"
    BY <1>2 DEF WriteLandsOnFile
  <2>2. /\ writer'.pc = "restart" /\ writer'.op = writer.op /\ writer'.key = writer.key
        /\ writer.op \in {"set", "delete", "setGlobal", "deleteGlobal"}
    BY <1>0, <1>2 DEF WriteLandsOnFile, EnvShape, WriterRecord
  <2>3. Settled' => Settled
    BY <2>1 DEF Settled
  <2>4. CASE wsRow \in {"none", "external"}
    <3>1. ~agentBox.up /\ ownModel = Nothing /\ (wsRow = "none" => launch.pc = "idle")
      BY <1>0, <2>4 DEF Modelless, Stages
    <3>2. ~agentBox'.up
      BY <2>1, <3>1
    <3>3. LaunchIsCurrent'
      BY <2>1, <2>4, <3>1 DEF LaunchIsCurrent
    <3> QED
      BY <3>2, <3>3 DEF BoxIsCurrent
  <2>5. CASE wsRow \notin {"none", "external"}
    <3>1. Settled' => writer.op \in {"setGlobal", "deleteGlobal"} /\ writer.key \in own'
      BY <2>1, <2>2, <2>5 DEF Settled, RestartAffected
    <3>2. Settled' => own' = own /\ \A k \in Keys \ own : k \in globals' <=> k \in globals
      BY <1>2, <3>1 DEF WriteLandsOnFile
    <3>3. Settled' => loadWorkspaceSecrets(globals', own') = loadWorkspaceSecrets(globals, own)
      BY <3>2 DEF loadWorkspaceSecrets
    <3>4. LaunchIsCurrent'
      BY <1>0, <2>1, <2>3, <3>2, <3>3 DEF LaunchIsCurrent, loadWorkspaceSecrets
    <3>5. ASSUME agentBox'.up, Settled', ~agentBox'.blurred
          PROVE  /\ agentBox'.read = loadWorkspaceSecrets(globals', own')
                 /\ \A e \in {agentBox'.read}, m \in {ownModel'} \ {Nothing} :
                       agentBox'.model = Route(e, m)'.model
      <4>1. agentBox' = agentBox /\ ownModel' = ownModel
        BY <2>1
      <4>2. /\ agentBox.read = loadWorkspaceSecrets(globals, own)
            /\ \A e \in {agentBox.read}, m \in {ownModel} \ {Nothing} :
                  agentBox.model = Route(e, m).model
        BY <1>0, <2>3, <3>5, <4>1 DEF BoxIsCurrent
      <4>3. ASSUME NEW e \in {agentBox'.read}, NEW m \in {ownModel'} \ {Nothing}
            PROVE  agentBox'.model = Route(e, m)'.model
        <5>1. Route(e, m)' = Route(e, m)
          BY <2>1, RouteIsStable
        <5>2. agentBox.model = Route(e, m).model
          BY <4>1, <4>2
        <5> QED
          BY <4>1, <5>1, <5>2
      <4> QED
        BY <3>3, <3>5, <4>1, <4>2, <4>3
    <3>6. BoxIsCurrent'
      BY <3>5 DEF BoxIsCurrent, loadWorkspaceSecrets
    <3> QED
      BY <3>4, <3>6
  <2> QED
    BY <2>4, <2>5
<1>3. CASE WriteRequestsRestart
  <2>1. /\ UNCHANGED <<deployment, globals, own, ownModel, agentBox>> /\ UNCHANGED <<launch, wsRow>>
        /\ writer.pc = "restart"
    BY <1>3 DEF WriteRequestsRestart
  <2>2. RestartAffected => owed' \/ untold'
    BY <1>3 DEF WriteRequestsRestart
  <2>3. ~owed' => ~owed
    BY <1>3 DEF WriteRequestsRestart
  <2>4. ~untold' => ~untold
    BY <1>3 DEF WriteRequestsRestart
  <2>5. Settled' => Settled
    BY <2>2, <2>3, <2>4 DEF Settled
  <2> QED
    BY <1>0, <2>1, <2>5, BoxQuiet, LaunchQuiet
<1>4. CASE SetModel
  <2>1. owed'
    BY <1>4 DEF SetModel
  <2>2. ~Settled'
    BY <2>1 DEF Settled
  <2>3. LaunchIsCurrent'
    BY <2>2 DEF LaunchIsCurrent
  <2> QED
    BY <2>2, <2>3 DEF BoxIsCurrent
<1> QED
  BY <1>1, <1>2, <1>3, <1>4

-----------------------------------------------------------------------------
(* The theorem.                                                            *)

BoxPromise == BoxIsClean /\ BoxHasCredential /\ BoxHasNoOperatorKey

LEMMA EnvInvInit == EnvInit => EnvInv /\ BoxPromise
<1> SUFFICES ASSUME EnvInit PROVE EnvInv /\ BoxPromise
  OBVIOUS
<1>1. ~agentBox.up
  BY DEF EnvInit, NoBox
<1>2. launch.pc = "idle" /\ launch.model = Nothing /\ launch \in LaunchRecord
  BY DEF EnvInit, NoLaunch, LaunchRecord, Source
<1>3. creation.pc = "idle" /\ creation \in CreationRecord
  BY DEF EnvInit, CreationRecord
<1>4. writer.pc = "idle" /\ writer \in WriterRecord
  BY DEF EnvInit, NoWriter, WriterRecord
<1>5. owed \in BOOLEAN
  BY DEF EnvInit
<1>6. /\ globals \subseteq Keys /\ own = {} /\ ownModel = Nothing /\ wsRow = "none"
      /\ rootModel \in Models \union {Nothing}
  BY DEF EnvInit
<1>7. EnvShape
  BY <1>2, <1>3, <1>4, <1>5, <1>6 DEF EnvShape
<1>8. Modelless /\ Stages
  BY <1>1, <1>2, <1>3, <1>6 DEF Modelless, Stages
<1>9. LaunchIsCurrent /\ BoxIsCurrent
  BY <1>1, <1>2 DEF LaunchIsCurrent, BoxIsCurrent
<1>10. BoxPromise
  BY <1>1 DEF BoxPromise, BoxIsClean, BoxHasCredential, BoxHasNoOperatorKey
<1> QED
  BY <1>7, <1>8, <1>9, <1>10 DEF EnvInv

LEMMA EnvInvStep ==
    ASSUME EnvInv, BoxPromise, [EnvNext]_envVars
    PROVE  EnvInv' /\ BoxPromise'
<1>1. CASE EnvNext
  <2>1. EnvShape' /\ Modelless' /\ Stages'
    BY <1>1, ShapeStep, StageStep DEF EnvInv
  <2>2. LaunchIsCurrent' /\ BoxIsCurrent'
    BY <1>1, CreateCurrent, ReadCurrent, LaunchCurrent, WriteCurrent DEF EnvNext
  <2>3. CASE LaunchStarts
    BY <2>1, <2>2, <2>3, StartIsClean DEF EnvInv, BoxPromise
  <2>4. CASE RestartBegins
    <3>1. ~agentBox'.up
      BY <2>4 DEF RestartBegins, NoBox
    <3>2. BoxPromise'
      BY <3>1 DEF BoxPromise, BoxIsClean, BoxHasCredential, BoxHasNoOperatorKey
    <3> QED
      BY <2>1, <2>2, <3>2 DEF EnvInv
  <2>5. CASE ~LaunchStarts /\ ~RestartBegins
    <3>1. UNCHANGED agentBox
      BY <1>1, <2>5
      DEF EnvNext, CreateRefused, CreateValidates, CreateInserts, CreateSetsModel, CreateExternal,
          CreateConfigFails, CreateProvisions, ReadGlobals, ReadOwn, LaunchAborts, LaunchFails,
          WriteBegins, WriteLandsOnFile, WriteRequestsRestart, SetModel
    <3>2. BoxPromise'
      BY <3>1 DEF BoxPromise, BoxIsClean, BoxHasCredential, BoxHasNoOperatorKey
    <3> QED
      BY <2>1, <2>2, <3>2 DEF EnvInv
  <2> QED
    BY <2>3, <2>4, <2>5
<1>2. CASE UNCHANGED envVars
  <2>1. /\ UNCHANGED <<deployment, globals, own, ownModel, agentBox>> /\ UNCHANGED launch
        /\ UNCHANGED <<owed, untold, writer, wsRow, creation>>
    BY <1>2 DEF envVars, deployment
  <2>2. EnvShape' /\ Modelless' /\ Stages'
    BY <2>1 DEF EnvInv, EnvShape, Modelless, Stages, deployment
  <2>3. Settled' => Settled
    BY <2>1 DEF Settled, RestartAffected
  <2>4. LaunchIsCurrent' /\ BoxIsCurrent'
    BY <2>1, <2>3, BoxQuiet, LaunchQuiet DEF EnvInv
  <2>5. BoxPromise'
    BY <2>1 DEF BoxPromise, BoxIsClean, BoxHasCredential, BoxHasNoOperatorKey
  <2> QED
    BY <2>2, <2>4, <2>5 DEF EnvInv
<1> QED
  BY <1>1, <1>2

\* For any registry, secrets and interleaving of create, writes and restarts:
\* the container of a workspace holds the credentials its files call for, one
\* that works, and none of the operator's, and it is up to date unless a
\* restart is owed, was left out, or a read had failed.
THEOREM CredentialsHold == EnvSpec => []CredentialsAreRight
<1>1. EnvInit => EnvInv /\ BoxPromise
  BY EnvInvInit
<1>2. (EnvInv /\ BoxPromise) /\ [EnvNext]_envVars => (EnvInv /\ BoxPromise)'
  BY EnvInvStep
<1>3. EnvInv /\ BoxPromise => CredentialsAreRight
  <2> SUFFICES ASSUME EnvInv, BoxPromise PROVE EnvTypeOK /\ SecretsAreInBox
    BY DEF CredentialsAreRight, BoxPromise
  <2>1. EnvTypeOK
    BY DEF EnvInv, EnvShape, EnvTypeOK, CreationRecord, LaunchRecord, WriterRecord
  <2>2. SecretsAreInBox
    <3> SUFFICES ASSUME agentBox.up, ~owed, ~untold, writer.pc # "restart", ~agentBox.blurred
                 PROVE  /\ agentBox.read = loadWorkspaceSecrets(globals, own)
                        /\ ownModel # Nothing =>
                              agentBox.model = Route(loadWorkspaceSecrets(globals, own), ownModel).model
      BY DEF SecretsAreInBox
    <3>1. Settled
      BY DEF Settled
    <3> QED
      BY <3>1 DEF EnvInv, BoxIsCurrent
  <2> QED
    BY <2>1, <2>2
<1> QED
  BY <1>1, <1>2, <1>3, PTL DEF EnvSpec

-----------------------------------------------------------------------------
(* MessageDispatch.                                                        *)

SendPCs == {"idle", "ingest", "mode", "resolve", "forward", "turn", "answered", "alive", "done"}
Underway == {"mode", "resolve", "forward", "turn", "answered", "alive"}
SendType ==
    [pc : SendPCs, by : {"canvas", "inbound", "peer", "self", "system"}, http : BOOLEAN,
     logs : BOOLEAN, capped : BOOLEAN,
     answer : {"none", "denied", "queued", "retry", "error", "reply"},
     got : {"nothing", "ok", "empty", "cut", "failure", "deadline", "refused", "dropped", "gateway"},
     told : SUBSET {"userMessage", "activity", "error", "reply"},
     queued : BOOLEAN, unsaved : BOOLEAN]
LogRowType == [resp : {"none", "null", "failure", "reply"}, status : {"absent", "ok", "error"}]

DispatchTypes ==
    /\ nature \in Natures /\ refusal \in Refusals
    /\ send \in [Sends -> SendType]
    /\ logRow \in LogRowType
    /\ logRow.status = "absent" <=> logRow = NoRow
    /\ unkeyed \in Nat
    /\ asyncLogs \subseteq Sends \X {"failure", "busy"}

Told(s) == \/ send[s].told \intersect {"reply", "error"} # {}
           \/ send[s].queued \/ send[s].unsaved
           \/ send[s].got \in {"empty", "cut"}

\* What a send carries where it stands.
Carries(s) ==
    /\ send[s].pc # "done" => send[s].answer = "none"
    /\ send[s].pc = "idle" =>
          ~send[s].queued /\ send[s].told = {} /\ send[s].got = "nothing" /\ ~send[s].capped
    /\ send[s].capped => send[s].pc \in {"turn", "answered", "alive", "done"} /\ send[s].logs
    /\ send[s].capped => send[s].by \in CanvasClass
    /\ send[s].http => send[s].logs
    /\ send[s].pc \in Underway /\ send[s].by # "system" => logRow # NoRow \/ send[s].unsaved
    /\ send[s].answer = "queued" =>
          \/ send[s].queued \/ logRow # NoRow \/ send[s].unsaved
          \/ send[s].by = "system" /\ ~send[s].logs
    /\ send[s].answer = "denied" =>
          ~send[s].queued /\ send[s].told = {} /\ send[s].got = "nothing" /\ ~send[s].capped
    /\ send[s].pc = "done" /\ send[s].capped => Told(s) \/ <<s, "failure">> \in asyncLogs

\* A log that waits for its goroutine is that of a send that has ended.
LogsFollow == \A l \in asyncLogs : SendEnded(l[1]) /\ send[l[1]].answer # "denied"

\* A send that has not ended, or whose unkeyed row is still to be written,
\* may add one.
MayAdd == {s \in Sends : ~SendEnded(s) \/ <<s, "busy">> \in asyncLogs}
RowsAreFew == unkeyed + Cardinality(MayAdd) <= Cardinality(Sends)

TargetType == [status : {"online", "provisioning", "offline", "hibernated"}, platform : BOOLEAN,
               mode : {"push", "poll"}, url : BOOLEAN, cached : BOOLEAN,
               agent : {"up", "busy", "starting", "gone"}, boot : BOOLEAN, enrolled : BOOLEAN]

DispatchInv ==
    /\ DispatchTypes
    /\ \A s \in Sends : Carries(s)
    /\ LogsFollow
    /\ RowsAreFew

-----------------------------------------------------------------------------

LEMMA DispatchInvInit == DispatchInit => DispatchInv
<1> SUFFICES ASSUME DispatchInit PROVE DispatchInv
  OBVIOUS
<1>1. NotBegun \in SendType
  BY DEF NotBegun, SendType, SendPCs
<1>2. DispatchTypes
  BY <1>1 DEF DispatchInit, DispatchTypes, NoRow, LogRowType
<1>3. \A s \in Sends : Carries(s)
  BY DEF DispatchInit, Carries, NotBegun, Underway
<1>4. LogsFollow
  BY DEF DispatchInit, LogsFollow
<1>5. MayAdd \subseteq Sends /\ IsFiniteSet(Sends)
  BY DispatchAssumption DEF MayAdd
<1>6. Cardinality(MayAdd) <= Cardinality(Sends) /\ Cardinality(MayAdd) \in Nat
  BY <1>5, FS_Subset, FS_CardinalityType
<1>7. RowsAreFew
  BY <1>6, <1>5, FS_CardinalityType DEF RowsAreFew, DispatchInit
<1> QED
  BY <1>2, <1>3, <1>4, <1>7 DEF DispatchInv

\* What is left of MayAdd when nobody joins it.
LEMMA FewerMayAdd ==
    ASSUME RowsAreFew, unkeyed \in Nat, unkeyed' = unkeyed, MayAdd' \subseteq MayAdd
    PROVE  RowsAreFew'
<1>1. IsFiniteSet(MayAdd) /\ IsFiniteSet(Sends)
  BY DispatchAssumption, FS_Subset DEF MayAdd
<1>2. Cardinality(MayAdd') <= Cardinality(MayAdd) /\ IsFiniteSet(MayAdd')
  BY <1>1, FS_Subset
<1>3. Cardinality(MayAdd') \in Nat /\ Cardinality(MayAdd) \in Nat /\ Cardinality(Sends) \in Nat
  BY <1>1, <1>2, FS_CardinalityType
<1> QED
  BY <1>2, <1>3 DEF RowsAreFew

\* A step of one send that has not ended.
LEMMA OneSend ==
    ASSUME DispatchInv, NEW s \in Sends, ~SendEnded(s),
           send' = [send EXCEPT ![s] = send'[s]], send'[s] \in SendType,
           UNCHANGED <<nature, refusal, unkeyed>>,
           logRow' \in LogRowType, logRow'.status = "absent" <=> logRow' = NoRow,
           logRow # NoRow => logRow' # NoRow,
           asyncLogs' \in {asyncLogs, asyncLogs \union {<<s, "failure">>},
                           asyncLogs \union {<<s, "busy">>}},
           asyncLogs' = asyncLogs \/ (SendEnded(s)' /\ send'[s].answer # "denied"),
           Carries(s)'
    PROVE  DispatchInv'
<1>1. DispatchTypes'
  BY DEF DispatchInv, DispatchTypes
<1>2. \A q \in Sends \ {s} : send'[q] = send[q]
  BY DEF DispatchInv, DispatchTypes
<1>3. asyncLogs \subseteq asyncLogs'
  OBVIOUS
<1>4. ASSUME NEW q \in Sends PROVE Carries(q)'
  <2>1. CASE q = s
    BY <2>1
  <2>2. CASE q # s
    BY <1>2, <1>3, <2>2 DEF DispatchInv, Carries, Told
  <2> QED
    BY <2>1, <2>2
<1>5. LogsFollow'
  <2> SUFFICES ASSUME NEW l \in asyncLogs' PROVE SendEnded(l[1])' /\ send'[l[1]].answer # "denied"
    BY DEF LogsFollow
  <2>1. CASE l \in asyncLogs
    <3>1. SendEnded(l[1]) /\ send[l[1]].answer # "denied" /\ l[1] \in Sends
      BY <2>1 DEF DispatchInv, LogsFollow, DispatchTypes
    <3> QED
      BY <3>1, <1>2 DEF SendEnded
  <2>2. CASE l \notin asyncLogs
    BY <2>2
  <2> QED
    BY <2>1, <2>2
<1>6. MayAdd' \subseteq MayAdd
  <2> SUFFICES ASSUME NEW q \in MayAdd' PROVE q \in MayAdd
    OBVIOUS
  <2>1. CASE q = s
    BY <2>1 DEF MayAdd
  <2>2. CASE q # s
    BY <2>2, <1>2 DEF MayAdd, SendEnded
  <2> QED
    BY <2>1, <2>2
<1>7. RowsAreFew'
  BY <1>6, FewerMayAdd DEF DispatchInv, DispatchTypes
<1> QED
  BY <1>1, <1>4, <1>5, <1>7 DEF DispatchInv

\* The row never goes away, and is kept in one of its forms.
LEMMA UpsertKeeps ==
    ASSUME DispatchTypes, NEW resp \in {"none", "null", "failure", "reply"}, NEW st \in {"ok", "error"},
           logRow' = Upsert(logRow, resp, st)
    PROVE  /\ logRow' \in LogRowType /\ logRow' # NoRow
           /\ (logRow'.status = "absent" <=> logRow' = NoRow)
           /\ (logRow.resp # "none" /\ logRow.status = "ok") => logRow'.status = "ok"
<1>1. logRow \in LogRowType /\ (logRow.status = "absent" <=> logRow = NoRow)
  BY DEF DispatchTypes
<1>2. CASE logRow = NoRow
  BY <1>1, <1>2 DEF Upsert, NoRow, LogRowType
<1>3. CASE logRow # NoRow
  <2>1. logRow'.status \in {"ok", "error"} /\ logRow' \in LogRowType
    BY <1>1, <1>3 DEF Upsert, LogRowType
  <2>2. NoRow.status = "absent"
    BY DEF NoRow
  <2> QED
    BY <1>1, <1>3, <2>1, <2>2 DEF Upsert, LogRowType
<1> QED
  BY <1>2, <1>3
\* The record of a send that changes in some fields only.
LEMMA SendFields ==
    ASSUME DispatchTypes, NEW s \in Sends
    PROVE  send[s] \in SendType
  BY DEF DispatchTypes

\* A send that ends, or goes on, without touching the record.
LEMMA ToKeeps ==
    ASSUME DispatchInv, NEW s \in Sends, NEW pc \in Underway,
           send[s].pc \in Underway \/ (send[s].pc = "ingest" /\ send[s].by = "system"),
           ~send[s].capped \/ (pc = "alive" /\ send[s].pc = "answered"),
           To(s, pc), UNCHANGED <<nature, refusal, unkeyed, logRow, asyncLogs>>
    PROVE  DispatchInv'
<1>1. send[s] \in SendType /\ Carries(s) /\ ~SendEnded(s) /\ s \in DOMAIN send
  BY DEF DispatchInv, DispatchTypes, SendEnded, Underway
<1>2. /\ send' = [send EXCEPT ![s] = send'[s]]
      /\ send'[s] = [send[s] EXCEPT !.pc = pc]
  BY <1>1 DEF DispatchInv, DispatchTypes, To
<1>3. send'[s] \in SendType
  BY <1>1, <1>2 DEF SendType, SendPCs, Underway
<1>4. Carries(s)'
  BY <1>1, <1>2 DEF Carries, SendType, Underway, Told
<1> QED
  BY <1>1, <1>2, <1>3, <1>4, OneSend DEF DispatchInv, DispatchTypes

\* A send that ends unlogged, or whose failure is logged later.
LEMMA EndKeeps ==
    ASSUME DispatchInv, NEW s \in Sends, NEW a \in {"retry", "error"}, ~SendEnded(s),
           send[s].pc # "idle", End(s, a), UNCHANGED <<nature, refusal, unkeyed, logRow>>,
           \/ asyncLogs' = asyncLogs /\ (send[s].capped => Told(s))
           \/ logA2AFailure(s)
    PROVE  DispatchInv'
<1>1. send[s] \in SendType /\ Carries(s) /\ s \in DOMAIN send
  BY DEF DispatchInv, DispatchTypes
<1>2. /\ send' = [send EXCEPT ![s] = send'[s]]
      /\ send'[s] = [send[s] EXCEPT !.pc = "done", !.answer = a]
  BY <1>1 DEF DispatchInv, DispatchTypes, End, Answered
<1>3. send'[s] \in SendType /\ SendEnded(s)' /\ send'[s].answer # "denied"
  BY <1>1, <1>2 DEF SendType, SendPCs, SendEnded
<1>4. asyncLogs' \in {asyncLogs, asyncLogs \union {<<s, "failure">>}}
  BY DEF logA2AFailure
<1>5. Carries(s)'
  BY <1>1, <1>2 DEF Carries, SendType, Underway, Told, logA2AFailure
<1> QED
  BY <1>1, <1>2, <1>3, <1>4, <1>5, OneSend DEF DispatchInv, DispatchTypes

\* A send that is queued, which a log without a key may follow.
LEMMA QueueKeeps ==
    ASSUME DispatchInv, NEW s \in Sends, ~SendEnded(s), send[s].pc # "idle",
           send' = [send EXCEPT ![s] = [Answered(s, "queued") EXCEPT !.queued = TRUE]],
           UNCHANGED <<nature, refusal, unkeyed, logRow>>,
           asyncLogs' = asyncLogs \/ logA2ABusyQueued(s)
    PROVE  DispatchInv'
<1>1. send[s] \in SendType /\ Carries(s) /\ s \in DOMAIN send
  BY DEF DispatchInv, DispatchTypes
<1>2. /\ send' = [send EXCEPT ![s] = send'[s]]
      /\ send'[s] = [send[s] EXCEPT !.pc = "done", !.answer = "queued", !.queued = TRUE]
  BY <1>1 DEF DispatchInv, DispatchTypes, Answered
<1>3. send'[s] \in SendType /\ SendEnded(s)' /\ send'[s].answer # "denied"
  BY <1>1, <1>2 DEF SendType, SendPCs, SendEnded
<1>4. asyncLogs' \in {asyncLogs, asyncLogs \union {<<s, "busy">>}}
  BY DEF logA2ABusyQueued
<1>5. Carries(s)'
  BY <1>1, <1>2 DEF Carries, SendType, Underway, Told
<1> QED
  BY <1>1, <1>2, <1>3, <1>4, <1>5, OneSend DEF DispatchInv, DispatchTypes

\* An answer that is logged before the send returns.
LEMMA SuccessKeeps ==
    ASSUME DispatchInv, NEW s \in Sends, send[s].pc \in {"mode", "answered"},
           NEW resp \in {"null", "failure", "reply"}, NEW st \in {"ok", "error"},
           NEW a \in {"reply", "error", "none"},
           st = "error" \/ resp = "reply" \/ send[s].got = "cut",
           logA2ASuccess(s, resp, st, a), UNCHANGED <<nature, refusal, unkeyed, asyncLogs>>
    PROVE  DispatchInv'
<1>1. send[s] \in SendType /\ Carries(s) /\ s \in DOMAIN send /\ ~SendEnded(s) /\ DispatchTypes
  BY DEF DispatchInv, DispatchTypes, SendEnded
<1>2. logRow \in LogRowType /\ (logRow.status = "absent" <=> logRow = NoRow) /\ send \in [Sends -> SendType]
  BY <1>1 DEF DispatchTypes
<1>3. CASE ~send[s].logs
  <2>1. /\ send' = [send EXCEPT ![s] = send'[s]]
        /\ send'[s] = [send[s] EXCEPT !.pc = "done", !.answer = a]
        /\ logRow' = logRow
    BY <1>1, <1>2, <1>3 DEF logA2ASuccess, Answered
  <2>2. send'[s] \in SendType
    BY <1>1, <2>1 DEF SendType, SendPCs
  <2>3. Carries(s)'
    BY <1>1, <1>3, <2>1 DEF Carries, SendType, Underway
  <2> QED
    BY <1>1, <1>2, <2>1, <2>2, <2>3, OneSend
<1>4. ASSUME NEW t, send' = [send EXCEPT ![s] = [Answered(s, a) EXCEPT !.told = t]],
             t = send[s].told \union ToldBy(s, resp, st), logRow' = Upsert(logRow, resp, st)
      PROVE  DispatchInv'
  <2>1. /\ send' = [send EXCEPT ![s] = send'[s]]
        /\ send'[s] = [send[s] EXCEPT !.pc = "done", !.answer = a, !.told = t]
    BY <1>1, <1>2, <1>4 DEF Answered
  <2>2. t \subseteq {"userMessage", "activity", "error", "reply"}
    BY <1>1, <1>4 DEF ToldBy, SendType
  <2>3. send'[s] \in SendType
    BY <1>1, <2>1, <2>2 DEF SendType, SendPCs
  <2>4. send[s].capped => t \intersect {"reply", "error"} # {} \/ send[s].got = "cut"
    BY <1>1, <1>4 DEF ToldBy, Carries
  <2>5. Carries(s)'
    BY <1>1, <2>1, <2>4 DEF Carries, SendType, Underway, Told
  <2>6. /\ logRow' \in LogRowType /\ logRow' # NoRow
        /\ (logRow'.status = "absent" <=> logRow' = NoRow)
    BY <1>1, <1>4, UpsertKeeps
  <2> QED
    BY <1>1, <2>1, <2>3, <2>5, <2>6, OneSend
<1>5. ASSUME NEW t, send' = [send EXCEPT ![s] = [Answered(s, a) EXCEPT !.unsaved = TRUE, !.told = t]],
             t = send[s].told \union (ToldBy(s, resp, st) \intersect {"reply"}), logRow' = logRow
      PROVE  DispatchInv'
  <2>1. /\ send' = [send EXCEPT ![s] = send'[s]]
        /\ send'[s] = [send[s] EXCEPT !.pc = "done", !.answer = a, !.unsaved = TRUE, !.told = t]
    BY <1>1, <1>2, <1>5 DEF Answered
  <2>2. t \subseteq {"userMessage", "activity", "error", "reply"}
    BY <1>1, <1>5 DEF ToldBy, SendType
  <2>3. send'[s] \in SendType
    BY <1>1, <2>1, <2>2 DEF SendType, SendPCs
  <2>5. Carries(s)'
    BY <1>1, <2>1 DEF Carries, SendType, Underway, Told
  <2> QED
    BY <1>1, <1>2, <1>5, <2>1, <2>3, <2>5, OneSend
<1>6. CASE send[s].logs /\ logRow' = Upsert(logRow, resp, st)
             /\ send' = [send EXCEPT ![s] = [Answered(s, a) EXCEPT !.told = @ \union ToldBy(s, resp, st)]]
  <2>1. Answered(s, a).told = send[s].told
    BY <1>1 DEF Answered, SendType
  <2> QED
    BY <1>4, <1>6, <2>1
<1>7. CASE logRow' = logRow
             /\ send' = [send EXCEPT ![s] = [Answered(s, a) EXCEPT !.unsaved = TRUE,
                          !.told = @ \union (ToldBy(s, resp, st) \intersect {"reply"})]]
  <2>1. Answered(s, a).told = send[s].told /\ [Answered(s, a) EXCEPT !.unsaved = TRUE].told = send[s].told
    BY <1>1 DEF Answered, SendType
  <2> QED
    BY <1>5, <1>7, <2>1
<1> QED
  BY <1>3, <1>6, <1>7 DEF logA2ASuccess
\* The gates: a refused send has nothing of its own.
LEMMA GatesKeep ==
    ASSUME DispatchInv, NEW s \in Sends, At(s, "idle"),
           NEW by \in {"canvas", "inbound", "peer", "self", "system"}, NEW http \in BOOLEAN,
           NEW logs \in BOOLEAN, http => logs, Gates(s, by, http, logs),
           UNCHANGED <<Elsewhere, target, logRow, unkeyed, asyncLogs>>
    PROVE  DispatchInv'
<1>1. send[s] \in SendType /\ Carries(s) /\ s \in DOMAIN send /\ ~SendEnded(s) /\ send[s].pc = "idle"
  BY DEF DispatchInv, DispatchTypes, SendEnded, At
<1>2. ASSUME NEW pc \in {"done", "ingest"}, NEW a \in {"denied", "none"}, pc = "done" <=> a = "denied",
             send' = [send EXCEPT ![s].pc = pc, ![s].answer = a, ![s].by = by,
                                  ![s].http = http, ![s].logs = logs]
      PROVE  DispatchInv'
  <2>1. /\ send' = [send EXCEPT ![s] = send'[s]]
        /\ send'[s] = [send[s] EXCEPT !.pc = pc, !.answer = a, !.by = by, !.http = http, !.logs = logs]
    BY <1>1, <1>2 DEF DispatchInv, DispatchTypes
  <2>2. send'[s] \in SendType
    BY <1>1, <1>2, <2>1 DEF SendType, SendPCs
  <2>3. Carries(s)'
    BY <1>1, <1>2, <2>1 DEF Carries, SendType, Underway, Told
  <2> QED
    BY <1>1, <2>1, <2>2, <2>3, OneSend DEF DispatchInv, DispatchTypes, Elsewhere
<1> QED
  BY <1>2 DEF Gates

LEMMA IngestKeeps ==
    ASSUME DispatchInv, NEW s \in Sends, Ingest(s)
    PROVE  DispatchInv'
<1>1. /\ send[s] \in SendType /\ Carries(s) /\ s \in DOMAIN send /\ ~SendEnded(s)
      /\ send[s].pc = "ingest" /\ ~send[s].capped /\ DispatchTypes
      /\ send \in [Sends -> SendType]
      /\ logRow \in LogRowType /\ (logRow.status = "absent" <=> logRow = NoRow)
  BY DEF DispatchInv, DispatchTypes, SendEnded, Ingest, At, Carries
<1>2. UNCHANGED <<nature, refusal, unkeyed, asyncLogs>>
  BY DEF Ingest, Elsewhere
<1>3. CASE send[s].by = "system" /\ To(s, "mode") /\ UNCHANGED logRow
  BY <1>1, <1>2, <1>3, ToKeeps DEF Underway
<1>4. CASE /\ send[s].by # "system" /\ logRow' = Upsert(logRow, "none", "ok")
           /\ send' = [send EXCEPT ![s].pc = "mode",
                        ![s].told = IF send[s].by \in CanvasClass
                                    THEN @ \union {"userMessage"} ELSE @]
  <2>1. PICK t \in SUBSET {"userMessage", "activity", "error", "reply"} :
           /\ send' = [send EXCEPT ![s] = send'[s]]
           /\ send'[s] = [send[s] EXCEPT !.pc = "mode", !.told = t]
    <3> DEFINE t == IF send[s].by \in CanvasClass THEN send[s].told \union {"userMessage"}
                    ELSE send[s].told
    <3>1. t \in SUBSET {"userMessage", "activity", "error", "reply"}
      BY <1>1 DEF SendType
    <3>2. send'[s] = [send[s] EXCEPT !.pc = "mode", !.told = t] /\ send' = [send EXCEPT ![s] = send'[s]]
      BY <1>1, <1>4 DEF SendType
    <3> QED
      BY <3>1, <3>2
  <2>2. send'[s] \in SendType
    BY <1>1, <2>1 DEF SendType, SendPCs
  <2>3. /\ logRow' \in LogRowType /\ logRow' # NoRow
        /\ (logRow'.status = "absent" <=> logRow' = NoRow)
    BY <1>1, <1>4, UpsertKeeps
  <2>4. Carries(s)'
    BY <1>1, <2>1, <2>3 DEF Carries, SendType, Underway
  <2> QED
    BY <1>1, <1>2, <2>1, <2>2, <2>3, <2>4, OneSend
<1>5. CASE send' = [send EXCEPT ![s].pc = "mode", ![s].unsaved = TRUE] /\ logRow' = logRow
  <2>1. /\ send' = [send EXCEPT ![s] = send'[s]]
        /\ send'[s] = [send[s] EXCEPT !.pc = "mode", !.unsaved = TRUE]
    BY <1>1, <1>5
  <2>2. send'[s] \in SendType
    BY <1>1, <2>1 DEF SendType, SendPCs
  <2>3. Carries(s)'
    BY <1>1, <1>5, <2>1 DEF Carries, SendType, Underway
  <2> QED
    BY <1>1, <1>2, <1>5, <2>1, <2>2, <2>3, OneSend
<1> QED
  BY <1>3, <1>4, <1>5 DEF Ingest, persistUserMessageAtIngest

\* The inbox of a workspace that polls.
LEMMA PollQueuedKeeps ==
    ASSUME DispatchInv, NEW s \in Sends, At(s, "mode"), logA2AReceiveQueued(s),
           UNCHANGED <<nature, refusal, unkeyed, asyncLogs>>
    PROVE  DispatchInv'
<1>1. /\ send[s] \in SendType /\ Carries(s) /\ s \in DOMAIN send /\ ~SendEnded(s)
      /\ send[s].pc = "mode" /\ DispatchTypes /\ send \in [Sends -> SendType]
      /\ logRow \in LogRowType /\ (logRow.status = "absent" <=> logRow = NoRow)
  BY DEF DispatchInv, DispatchTypes, SendEnded, At
<1>2. ASSUME NEW lost \in BOOLEAN,
             send' = [send EXCEPT ![s] = [Answered(s, "queued") EXCEPT !.unsaved = lost]],
             logRow' = logRow \/ logRow' = Upsert(logRow, "none", "ok"),
             \/ lost
             \/ lost = send[s].unsaved /\ (~send[s].logs \/ logRow' = Upsert(logRow, "none", "ok"))
      PROVE  DispatchInv'
  <2>1. /\ send' = [send EXCEPT ![s] = send'[s]]
        /\ send'[s] = [send[s] EXCEPT !.pc = "done", !.answer = "queued", !.unsaved = lost]
    BY <1>1, <1>2 DEF Answered
  <2>2. send'[s] \in SendType
    BY <1>1, <1>2, <2>1 DEF SendType, SendPCs
  <2>3. /\ logRow' \in LogRowType /\ (logRow # NoRow => logRow' # NoRow)
        /\ (logRow'.status = "absent" <=> logRow' = NoRow)
        /\ logRow' = Upsert(logRow, "none", "ok") => logRow' # NoRow
    BY <1>1, <1>2, UpsertKeeps
  <2>4. Carries(s)'
    BY <1>1, <1>2, <2>1, <2>3 DEF Carries, SendType, Underway
  <2> QED
    BY <1>1, <2>1, <2>2, <2>3, <2>4, OneSend
<1>3. Answered(s, "queued") = [Answered(s, "queued") EXCEPT !.unsaved = send[s].unsaved]
      /\ send[s].unsaved \in BOOLEAN
  BY <1>1 DEF Answered, SendType
<1>4. CASE End(s, "queued")
           /\ logRow' = IF send[s].logs THEN Upsert(logRow, "none", "ok") ELSE logRow
  BY <1>2, <1>3, <1>4 DEF End
<1>5. CASE logRow' = logRow
           /\ send' = [send EXCEPT ![s] = [Answered(s, "queued") EXCEPT !.unsaved = TRUE]]
  BY <1>2, <1>5
<1> QED
  BY <1>4, <1>5 DEF logA2AReceiveQueued
-----------------------------------------------------------------------------

LEMMA ModeKeeps ==
    ASSUME DispatchInv, NEW s \in Sends, lookupDeliveryMode(s)
    PROVE  DispatchInv'
<1>1. /\ send[s] \in SendType /\ Carries(s) /\ ~SendEnded(s) /\ send[s].pc = "mode" /\ ~send[s].capped
      /\ UNCHANGED <<nature, refusal, unkeyed, asyncLogs>>
  BY DEF DispatchInv, DispatchTypes, SendEnded, At, lookupDeliveryMode, Elsewhere, Carries
<1>2. CASE logA2AReceiveQueued(s)
  BY <1>1, <1>2, PollQueuedKeeps DEF At
<1>3. CASE bootTurnGate(s) /\ UNCHANGED logRow
  BY <1>1, <1>3, ToKeeps, QueueKeeps DEF bootTurnGate, Underway
<1>4. CASE handleMockA2A(s)
  BY <1>1, <1>4, SuccessKeeps DEF handleMockA2A
<1>5. CASE UNCHANGED logRow /\ (End(s, "retry") \/ To(s, "resolve"))
  BY <1>1, <1>5, ToKeeps, EndKeeps DEF Underway
<1> QED
  BY <1>2, <1>3, <1>4, <1>5 DEF lookupDeliveryMode

LEMMA ResolveKeeps ==
    ASSUME DispatchInv, NEW s \in Sends, resolveAgentURL(s)
    PROVE  DispatchInv'
<1>1. /\ send[s] \in SendType /\ Carries(s) /\ ~SendEnded(s) /\ send[s].pc = "resolve" /\ ~send[s].capped
      /\ UNCHANGED <<nature, refusal, unkeyed, logRow>>
  BY DEF DispatchInv, DispatchTypes, SendEnded, At, resolveAgentURL, Elsewhere, Carries
<1>2. CASE UNCHANGED asyncLogs /\ To(s, "forward")
  BY <1>1, <1>2, ToKeeps DEF Underway
<1>3. CASE UNCHANGED asyncLogs /\ (End(s, "retry") \/ End(s, "error"))
  BY <1>1, <1>3, EndKeeps
<1>4. CASE enqueueBusyA2A(s, End(s, "retry") /\ UNCHANGED asyncLogs)
  BY <1>1, <1>3, <1>4, QueueKeeps DEF enqueueBusyA2A
<1> QED
  BY <1>2, <1>3, <1>4 DEF resolveAgentURL

LEMMA ForwardKeeps ==
    ASSUME DispatchInv, NEW s \in Sends, Forward(s)
    PROVE  DispatchInv'
<1>1. /\ send[s] \in SendType /\ Carries(s) /\ ~SendEnded(s) /\ send[s].pc = "forward" /\ ~send[s].capped
      /\ UNCHANGED <<nature, refusal, unkeyed, logRow, asyncLogs>>
  BY DEF DispatchInv, DispatchTypes, SendEnded, At, Forward, Elsewhere, Carries
<1>2. To(s, "turn") \/ End(s, "retry") \/ End(s, "error")
  BY DEF Forward, preflightContainerHealth, resolveA2AInboundSecret, dispatchA2A
<1> QED
  BY <1>1, <1>2, ToKeeps, EndKeeps DEF Underway

\* The budget of the canvas ends, or the turn does.
LEMMA TurnKeeps ==
    ASSUME DispatchInv, target \in TargetType, NEW s \in Sends,
           canvasBudgetEnds(s) \/ AgentAnswers(s) \/ applyIdleTimeout(s)
    PROVE  DispatchInv'
<1>1. /\ send[s] \in SendType /\ Carries(s) /\ ~SendEnded(s) /\ send[s].pc = "turn"
      /\ UNCHANGED <<nature, refusal, unkeyed, logRow, asyncLogs>>
      /\ DispatchTypes /\ send \in [Sends -> SendType]
  BY DEF DispatchInv, DispatchTypes, SendEnded, At, canvasBudgetEnds, AgentAnswers, applyIdleTimeout, Elsewhere
<1>2. CASE canvasBudgetEnds(s)
  <2>1. /\ send' = [send EXCEPT ![s] = send'[s]]
        /\ send'[s] = [send[s] EXCEPT !.capped = TRUE]
        /\ send[s].http /\ send[s].by \in CanvasClass
    BY <1>1, <1>2 DEF canvasBudgetEnds
  <2>2. send'[s] \in SendType
    BY <1>1, <2>1 DEF SendType
  <2>3. Carries(s)'
    BY <1>1, <2>1 DEF Carries, SendType, Underway
  <2> QED
    BY <1>1, <2>1, <2>2, <2>3, OneSend DEF DispatchTypes
<1>3. ASSUME NEW g \in {"ok", "empty", "cut", "failure", "deadline", "refused", "dropped", "gateway"},
             send' = [send EXCEPT ![s].pc = "answered", ![s].got = g]
      PROVE  DispatchInv'
  <2>1. /\ send' = [send EXCEPT ![s] = send'[s]]
        /\ send'[s] = [send[s] EXCEPT !.pc = "answered", !.got = g]
    BY <1>1, <1>3
  <2>2. send'[s] \in SendType
    BY <1>1, <1>3, <2>1 DEF SendType, SendPCs
  <2>3. Carries(s)'
    BY <1>1, <2>1 DEF Carries, SendType, Underway
  <2> QED
    BY <1>1, <2>1, <2>2, <2>3, OneSend DEF DispatchTypes
<1>4. Answers[target.agent] \subseteq
           {"ok", "empty", "cut", "failure", "deadline", "refused", "dropped", "gateway"}
  BY DEF Answers, TargetType
<1>5. CASE applyIdleTimeout(s)
  BY <1>3, <1>5 DEF applyIdleTimeout
<1>6. CASE AgentAnswers(s)
  BY <1>3, <1>4, <1>6 DEF AgentAnswers
<1> QED
  BY <1>2, <1>5, <1>6

LEMMA AnswerKeeps ==
    ASSUME DispatchInv, NEW s \in Sends, AnswerRead(s) \/ GatewayAnswer(s)
    PROVE  DispatchInv'
<1>1. /\ send[s] \in SendType /\ Carries(s) /\ ~SendEnded(s) /\ send[s].pc = "answered"
      /\ UNCHANGED <<nature, refusal, unkeyed, asyncLogs>>
  BY DEF DispatchInv, DispatchTypes, SendEnded, At, AnswerRead, GatewayAnswer, Elsewhere
<1>2. CASE send[s].got = "empty" /\ End(s, "error") /\ UNCHANGED logRow
  BY <1>1, <1>2, EndKeeps DEF Told
<1>3. CASE \/ send[s].got = "ok" /\ logA2ASuccess(s, "reply", "ok", "reply")
           \/ send[s].got = "cut" /\ logA2ASuccess(s, "null", "ok", "error")
           \/ send[s].got = "failure" /\ logA2ASuccess(s, "failure", "error", "error")
           \/ send[s].got = "gateway" /\ logA2ASuccess(s, "null", "error", "none")
  BY <1>1, <1>3, SuccessKeeps
<1> QED
  BY <1>2, <1>3 DEF AnswerRead, GatewayAnswer

LEMMA DeadKeeps ==
    ASSUME DispatchInv, NEW s \in Sends, maybeMarkContainerDead(s) \/ handleA2ADispatchError(s)
    PROVE  DispatchInv'
<1>1. /\ send[s] \in SendType /\ Carries(s) /\ ~SendEnded(s) /\ send[s].pc \in {"answered", "alive"}
      /\ UNCHANGED <<nature, refusal, unkeyed, logRow>>
  BY DEF DispatchInv, DispatchTypes, SendEnded, At, maybeMarkContainerDead, handleA2ADispatchError, Elsewhere
<1>2. CASE send[s].pc = "answered" /\ To(s, "alive") /\ UNCHANGED asyncLogs
  BY <1>1, <1>2, ToKeeps DEF Underway
<1>3. CASE (End(s, "retry") \/ End(s, "error")) /\ logA2AFailure(s)
  BY <1>1, <1>3, EndKeeps
<1>4. CASE maybeMarkContainerDead(s)
  BY <1>1, <1>2, <1>3, <1>4, QueueKeeps DEF maybeMarkContainerDead, enqueueBusyA2A, At
<1>5. CASE handleA2ADispatchError(s)
  BY <1>1, <1>3, <1>5, QueueKeeps DEF handleA2ADispatchError, enqueueBusyA2A
<1> QED
  BY <1>4, <1>5
\* What a gateway's answer is taken for, once it is logged.
LEMMA UpstreamKeeps ==
    ASSUME DispatchInv, NEW s \in Sends, UpstreamDead(s)
    PROVE  DispatchInv'
<1>1. /\ send[s] \in SendType /\ Carries(s) /\ ~SendEnded(s) /\ send[s].pc = "done"
      /\ send[s].got = "gateway" /\ send[s].answer = "none" /\ LogsFollow
      /\ UNCHANGED <<nature, refusal, unkeyed, logRow>>
  BY DEF DispatchInv, DispatchTypes, SendEnded, At, UpstreamDead, Elsewhere
<1>2. send[s].capped => Told(s)
  BY <1>1 DEF Carries, LogsFollow
<1>3. CASE UNCHANGED asyncLogs /\ (End(s, "retry") \/ End(s, "error"))
  BY <1>1, <1>2, <1>3, EndKeeps
<1>4. CASE enqueueBusyA2A(s, End(s, "error") /\ UNCHANGED asyncLogs)
  BY <1>1, <1>3, <1>4, QueueKeeps DEF enqueueBusyA2A
<1> QED
  BY <1>3, <1>4 DEF UpstreamDead

\* A log that its goroutine writes, or fails to.
LEMMA AsyncKeeps ==
    ASSUME DispatchInv, NEW l \in asyncLogs, AsyncLogRuns(l)
    PROVE  DispatchInv'
<1> DEFINE s == l[1]
<1>1. /\ s \in Sends /\ l = <<s, l[2]>> /\ l[2] \in {"failure", "busy"}
      /\ asyncLogs' = asyncLogs \ {l} /\ UNCHANGED <<nature, refusal>> /\ DispatchTypes
      /\ SendEnded(s) /\ send[s].answer # "denied" /\ LogsFollow
      /\ send \in [Sends -> SendType] /\ send[s] \in SendType
      /\ logRow \in LogRowType /\ (logRow.status = "absent" <=> logRow = NoRow)
  BY DEF DispatchInv, DispatchTypes, LogsFollow, AsyncLogRuns, Elsewhere
<1>2. \/ /\ l[2] = "failure" /\ logRow' = Upsert(logRow, "none", "error") /\ unkeyed' = unkeyed
         /\ send' = [send EXCEPT ![s].told = @ \union {"error"}]
      \/ /\ l[2] = "busy" /\ unkeyed' = unkeyed + 1 /\ send' = send /\ logRow' = logRow
      \/ /\ send' = [send EXCEPT ![s].unsaved = TRUE] /\ logRow' = logRow /\ unkeyed' = unkeyed
  BY DEF AsyncLogRuns
<1>3. /\ logRow' \in LogRowType /\ (logRow'.status = "absent" <=> logRow' = NoRow)
      /\ logRow # NoRow => logRow' # NoRow
  BY <1>1, <1>2, UpsertKeeps
<1>4. \/ send' = send
      \/ send' = [send EXCEPT ![s] = [send[s] EXCEPT !.told = @ \union {"error"}]]
      \/ send' = [send EXCEPT ![s] = [send[s] EXCEPT !.unsaved = TRUE]]
  BY <1>1, <1>2 DEF SendType
<1>5. /\ send' \in [Sends -> SendType]
      /\ \A q \in Sends \ {s} : send'[q] = send[q]
  <2>1. send[s].told \union {"error"} \in SUBSET {"userMessage", "activity", "error", "reply"}
    BY <1>1 DEF SendType
  <2>2. /\ [send[s] EXCEPT !.told = @ \union {"error"}] \in SendType
        /\ [send[s] EXCEPT !.unsaved = TRUE] \in SendType
    BY ONLY <1>1, <2>1 DEF SendType
  <2>3. PICK r \in SendType : send' = send \/ send' = [send EXCEPT ![s] = r]
    BY <1>1, <1>4, <2>2
  <2> QED
    BY ONLY <1>1, <2>3
<1>6. /\ send'[s].pc = send[s].pc /\ send'[s].answer = send[s].answer
      /\ send'[s].capped = send[s].capped /\ send'[s].logs = send[s].logs
      /\ send'[s].by = send[s].by /\ send'[s].http = send[s].http
      /\ send'[s].queued = send[s].queued /\ send'[s].got = send[s].got
      /\ send[s].unsaved => send'[s].unsaved
      /\ send[s].told \subseteq send'[s].told
  BY <1>1, <1>4 DEF SendType
<1>7. <<s, "failure">> \in asyncLogs /\ <<s, "failure">> \notin asyncLogs' => Told(s)'
  BY <1>1, <1>2, <1>4 DEF Told, SendType
<1>8. DispatchTypes'
  BY <1>1, <1>2, <1>3, <1>5 DEF DispatchTypes
<1>9. ASSUME NEW q \in Sends PROVE Carries(q)'
  <2>1. Carries(q)
    BY DEF DispatchInv
  <2>2. CASE q = s
    <3>1. Told(s) => Told(s)'
      BY <1>6 DEF Told
    <3>2. Carries(s)
      BY <2>1, <2>2
    <3>3. send[s].pc = "done" /\ send[s].answer \notin {"none", "denied"}
      BY <1>1 DEF SendEnded
    <3>4. Carries(s)'
      BY ONLY <1>3, <1>6, <1>7, <3>1, <3>2, <3>3 DEF Carries, Underway
    <3> QED
      BY <3>4, <2>2
  <2>3. CASE q # s
    <3>1. send'[q] = send[q] /\ <<q, "failure">> \in asyncLogs' <=> <<q, "failure">> \in asyncLogs
      BY <1>1, <1>5, <2>3
    <3>2. Told(q)' <=> Told(q)
      BY <3>1, <1>5, <2>3 DEF Told
    <3> QED
      BY <2>1, <1>5, <2>3, <1>1, <3>2, <1>3 DEF Carries
  <2> QED
    BY <2>2, <2>3
<1>10. \A q \in Sends : SendEnded(q)' <=> SendEnded(q)
  BY <1>5, <1>6 DEF SendEnded
<1>11. LogsFollow'
  BY <1>1, <1>5, <1>6, <1>10, <1>8 DEF LogsFollow, DispatchTypes
<1>12. MayAdd' \subseteq MayAdd
  BY <1>1, <1>10 DEF MayAdd
<1>13. CASE unkeyed' = unkeyed
  <2>1. RowsAreFew'
    BY <1>1, <1>12, <1>13, FewerMayAdd DEF DispatchInv, DispatchTypes
  <2> QED
    BY <1>8, <1>9, <1>11, <2>1 DEF DispatchInv
<1>14. CASE l[2] = "busy" /\ unkeyed' = unkeyed + 1
  <2>1. s \in MayAdd /\ s \notin MayAdd'
    BY <1>1, <1>10, <1>14 DEF MayAdd
  <2>2. IsFiniteSet(MayAdd) /\ IsFiniteSet(Sends)
    BY DispatchAssumption, FS_Subset DEF MayAdd
  <2>3. IsFiniteSet(MayAdd \ {s}) /\ Cardinality(MayAdd \ {s}) = Cardinality(MayAdd) - 1
    BY <2>1, <2>2, FS_RemoveElement
  <2>4. MayAdd' \subseteq MayAdd \ {s}
    BY <1>12, <2>1
  <2>5. Cardinality(MayAdd') <= Cardinality(MayAdd) - 1 /\ IsFiniteSet(MayAdd')
    BY <2>3, <2>4, FS_Subset
  <2>6. Cardinality(MayAdd') \in Nat /\ Cardinality(MayAdd) \in Nat /\ Cardinality(Sends) \in Nat
    BY <2>2, <2>5, FS_CardinalityType
  <2>7. RowsAreFew'
    BY <1>1, <1>14, <2>5, <2>6 DEF RowsAreFew, DispatchInv, DispatchTypes
  <2> QED
    BY <1>8, <1>9, <1>11, <2>7 DEF DispatchInv
<1> QED
  BY <1>2, <1>13, <1>14
-----------------------------------------------------------------------------

\* The target keeps its types whatever happens to it.
LEMMA TargetKeeps ==
    ASSUME target \in TargetType, DispatchNext
    PROVE  target' \in TargetType
<1> DEFINE Moved ==
      \/ target' = target
      \/ target' = [target EXCEPT !.cached = TRUE]
      \/ target' = [target EXCEPT !.status = "provisioning"]
      \/ declareContainerDead
      \/ target' = [target EXCEPT !.enrolled = TRUE]
      \/ \E a \in {"up", "busy", "starting", "gone"} : target' = [target EXCEPT !.agent = a]
      \/ target' = [target EXCEPT !.status = "provisioning", !.url = FALSE,
                      !.cached = FALSE, !.agent = "starting"]
      \/ target' = [target EXCEPT !.status = "online", !.url = TRUE,
                      !.cached = TRUE, !.agent = "up", !.boot = TRUE]
      \/ target' = [target EXCEPT !.status = "hibernated", !.url = FALSE,
                      !.cached = FALSE, !.agent = "gone"]
      \/ target' = [target EXCEPT !.boot = ~@]
<1>1. Moved
  <2>1. TargetMoves => Moved
    BY DEF TargetMoves
  <2>2. ASSUME NEW l \in asyncLogs, AsyncLogRuns(l) PROVE Moved
    BY <2>2 DEF AsyncLogRuns
  <2>3. ASSUME NEW s \in Sends,
               \/ ProxyA2A(s) \/ ReceiveA2AInbound(s) \/ ProxyA2ARequest(s) \/ Ingest(s)
               \/ lookupDeliveryMode(s) \/ AnswerRead(s) \/ GatewayAnswer(s)
               \/ handleA2ADispatchError(s) \/ canvasBudgetEnds(s) \/ AgentAnswers(s) \/ applyIdleTimeout(s)
        PROVE  Moved
    BY <2>3 DEF ProxyA2A, ReceiveA2AInbound, ProxyA2ARequest, Ingest, lookupDeliveryMode, AnswerRead,
        GatewayAnswer, handleA2ADispatchError, canvasBudgetEnds, AgentAnswers, applyIdleTimeout
  <2>4. ASSUME NEW s \in Sends, resolveAgentURL(s)
        PROVE  Moved
    BY <2>4 DEF resolveAgentURL
  <2>5. ASSUME NEW s \in Sends, Forward(s)
        PROVE  Moved
    BY <2>5 DEF Forward, preflightContainerHealth, resolveA2AInboundSecret, dispatchA2A
  <2>6. ASSUME NEW s \in Sends, maybeMarkContainerDead(s) \/ UpstreamDead(s)
        PROVE  Moved
    BY <2>6 DEF maybeMarkContainerDead, UpstreamDead
  <2> HIDE DEF Moved
  <2> QED
    BY <2>1, <2>2, <2>3, <2>4, <2>5, <2>6 DEF DispatchNext, SendStep
<1>2. (~target.boot) \in BOOLEAN
  <2>1. target.boot \in {TRUE, FALSE}
    BY DEF TargetType
  <2>2. (~TRUE) = FALSE /\ (~FALSE) = TRUE
    OBVIOUS
  <2> QED
    BY ONLY <2>1, <2>2, Zenon
<1>3. declareContainerDead => target' \in TargetType
  BY DEF declareContainerDead, TargetType
<1> QED
  BY <1>1, <1>2, <1>3 DEF TargetType

LEMMA DispatchInvStep ==
    ASSUME DispatchInv, target \in TargetType, [DispatchNext]_dispatchVars
    PROVE  DispatchInv' /\ target' \in TargetType
<1>1. CASE UNCHANGED dispatchVars
  <2>1. MayAdd' = MayAdd
    BY <1>1 DEF MayAdd, SendEnded, dispatchVars
  <2> QED
    BY <1>1, <2>1 DEF dispatchVars, DispatchInv, DispatchTypes, Carries, Told, LogsFollow, SendEnded, RowsAreFew
<1>2. ASSUME NEW s \in Sends, ProxyA2A(s) PROVE DispatchInv'
  BY <1>2, GatesKeep DEF ProxyA2A, authenticateA2AHTTPCaller
<1>3. ASSUME NEW s \in Sends, ReceiveA2AInbound(s) PROVE DispatchInv'
  BY <1>3, GatesKeep DEF ReceiveA2AInbound
<1>4. ASSUME NEW s \in Sends, ProxyA2ARequest(s) PROVE DispatchInv'
  BY <1>4, GatesKeep DEF ProxyA2ARequest
<1>5. ASSUME NEW s \in Sends, SendStep(s) PROVE DispatchInv'
  BY <1>5, IngestKeeps, ModeKeeps, ResolveKeeps, ForwardKeeps, AnswerKeeps, DeadKeeps, UpstreamKeeps
  DEF SendStep
<1>6. ASSUME NEW s \in Sends, canvasBudgetEnds(s) \/ AgentAnswers(s) \/ applyIdleTimeout(s)
      PROVE  DispatchInv'
  BY <1>6, TurnKeeps
<1>7. ASSUME NEW l \in asyncLogs, AsyncLogRuns(l) PROVE DispatchInv'
  BY <1>7, AsyncKeeps
<1>8. ASSUME TargetMoves PROVE DispatchInv'
  <2>1. UNCHANGED <<nature, refusal, send, logRow, unkeyed, asyncLogs>>
    BY <1>8 DEF TargetMoves, Elsewhere
  <2>2. MayAdd' = MayAdd
    BY <2>1 DEF MayAdd, SendEnded
  <2>3. DispatchTypes' /\ RowsAreFew'
    BY <2>1, <2>2 DEF DispatchInv, DispatchTypes, RowsAreFew
  <2>4. \A s \in Sends : Carries(s)'
    BY <2>1 DEF DispatchInv, Carries, Told
  <2>5. LogsFollow'
    BY <2>1 DEF DispatchInv, LogsFollow, SendEnded
  <2> QED
    BY <2>3, <2>4, <2>5 DEF DispatchInv
<1>9. DispatchInv'
  BY <1>1, <1>2, <1>3, <1>4, <1>5, <1>6, <1>7, <1>8 DEF DispatchNext
<1>10. target' \in TargetType
  BY <1>1, TargetKeeps DEF dispatchVars
<1> QED
  BY <1>9, <1>10

\* What the run checks of every state.
LEMMA DispatchInvKeeps ==
    ASSUME DispatchInv
    PROVE  DispatchTypeOK /\ AckMeansKept /\ TurnIsOnFile /\ RefusedLeavesNothing /\ CappedIsTold
<1>1. \A s \in Sends : Carries(s) /\ send[s] \in SendType
  BY DEF DispatchInv, DispatchTypes
<1>2. DispatchTypeOK
  <2>1. IsFiniteSet(Sends) /\ IsFiniteSet(MayAdd)
    BY DispatchAssumption, FS_Subset DEF MayAdd
  <2>2. Cardinality(Sends) \in Nat /\ Cardinality(MayAdd) \in Nat
    BY <2>1, FS_CardinalityType
  <2>3. unkeyed \in 0..Cardinality(Sends)
    BY <2>2 DEF DispatchInv, DispatchTypes, RowsAreFew
  <2> QED
    BY <2>3 DEF DispatchInv, DispatchTypes, DispatchTypeOK, LogRowType
<1>3. AckMeansKept
  BY <1>1 DEF AckMeansKept, Carries
<1>4. TurnIsOnFile
  BY <1>1 DEF TurnIsOnFile, Carries, Underway
<1>5. RefusedLeavesNothing
  BY <1>1 DEF RefusedLeavesNothing, Carries
<1>6. CappedIsTold
  BY <1>1 DEF CappedIsTold, Carries, Told, SendEnded
<1> QED
  BY <1>2, <1>3, <1>4, <1>5, <1>6

\* An answered row keeps its status, whoever writes it again.
LEMMA CompletedStep ==
    ASSUME DispatchInv, [DispatchNext]_dispatchVars, logRow.resp # "none" /\ logRow.status = "ok"
    PROVE  logRow'.status = "ok"
<1>1. \/ logRow' = logRow
      \/ \E resp \in {"none", "null", "failure", "reply"}, st \in {"ok", "error"} :
            logRow' = Upsert(logRow, resp, st)
  <2>1. ASSUME NEW s, NEW resp \in {"none", "null", "failure", "reply"}, NEW st \in {"ok", "error"}, NEW a,
               logA2ASuccess(s, resp, st, a)
        PROVE  logRow' = logRow \/ logRow' = Upsert(logRow, resp, st)
    BY <2>1 DEF logA2ASuccess
  <2>2. ASSUME NEW l \in asyncLogs, AsyncLogRuns(l)
        PROVE  logRow' = logRow \/ logRow' = Upsert(logRow, "none", "error")
    BY <2>2 DEF AsyncLogRuns
  <2>3. ASSUME NEW s \in Sends, lookupDeliveryMode(s)
        PROVE  \/ logRow' = logRow \/ logRow' = Upsert(logRow, "none", "ok")
               \/ logRow' = Upsert(logRow, "reply", "ok")
    BY <2>1, <2>3 DEF lookupDeliveryMode, logA2AReceiveQueued, handleMockA2A
  <2>4. ASSUME NEW s \in Sends, Ingest(s)
        PROVE  logRow' = logRow \/ logRow' = Upsert(logRow, "none", "ok")
    BY <2>4 DEF Ingest, persistUserMessageAtIngest
  <2>5. ASSUME NEW s \in Sends, AnswerRead(s) \/ GatewayAnswer(s)
        PROVE  \/ logRow' = logRow \/ logRow' = Upsert(logRow, "reply", "ok")
               \/ logRow' = Upsert(logRow, "null", "ok") \/ logRow' = Upsert(logRow, "failure", "error")
               \/ logRow' = Upsert(logRow, "null", "error")
    BY <2>1, <2>5 DEF AnswerRead, GatewayAnswer
  <2>6. ASSUME NEW s \in Sends,
               \/ ProxyA2A(s) \/ ReceiveA2AInbound(s) \/ ProxyA2ARequest(s) \/ resolveAgentURL(s)
               \/ Forward(s) \/ maybeMarkContainerDead(s) \/ handleA2ADispatchError(s) \/ UpstreamDead(s)
               \/ canvasBudgetEnds(s) \/ AgentAnswers(s) \/ applyIdleTimeout(s)
        PROVE  logRow' = logRow
    BY <2>6 DEF ProxyA2A, ReceiveA2AInbound, ProxyA2ARequest, resolveAgentURL, Forward,
        maybeMarkContainerDead, handleA2ADispatchError, UpstreamDead, canvasBudgetEnds,
        AgentAnswers, applyIdleTimeout
  <2>7. CASE TargetMoves
    BY <2>7 DEF TargetMoves
  <2>8. CASE UNCHANGED dispatchVars
    BY <2>8 DEF dispatchVars
  <2> QED
    BY <2>2, <2>3, <2>4, <2>5, <2>6, <2>7, <2>8 DEF DispatchNext, SendStep
<1>2. DispatchTypes
  BY DEF DispatchInv
<1> QED
  BY <1>1, <1>2, UpsertKeeps

\* For any number of sends, natures of the target and troubles: what the proxy
\* acknowledges is queued or on file, a turn is on file before it starts, a
\* refusal leaves no trace, a capped canvas hears what came of its turn, and a
\* completed message stays completed
\* (ProxyA2A, logActivityExec).
THEOREM MessagesStayKept == DispatchSpec => MessagesAreKept
<1>1. DispatchInit => DispatchInv /\ target \in TargetType
  BY DispatchInvInit DEF DispatchInit, TargetType
<1>2. DispatchInv /\ target \in TargetType /\ [DispatchNext]_dispatchVars
      => (DispatchInv /\ target \in TargetType)'
  BY DispatchInvStep
<1>3. DispatchInv =>
        DispatchTypeOK /\ AckMeansKept /\ TurnIsOnFile /\ RefusedLeavesNothing /\ CappedIsTold
  BY DispatchInvKeeps
<1>4. DispatchInv /\ [DispatchNext]_dispatchVars =>
        [(logRow.resp # "none" /\ logRow.status = "ok") => logRow'.status = "ok"]_dispatchVars
  BY CompletedStep
<1> QED
  BY <1>1, <1>2, <1>3, <1>4, PTL DEF DispatchSpec, MessagesAreKept, CompletedStays

=============================================================================
