---------------------------- MODULE Registration ----------------------------
(***************************************************************************)
(* How the agent of a workspace gets its credential and keeps it: a        *)
(* provision revokes the workspace's instance tokens and mints one, into   *)
(* the config volume (Docker) or by way of the new box's first register    *)
(* (SaaS); an owner rotates the credentials of an external agent; Register *)
(* admits a call by requireWorkspaceToken, upserts the row and mints a      *)
(* token when none is live.  A second part is the browser's way in: the    *)
(* verdicts of the control plane on a session, cached for a while.         *)
(* Every statement is a step.  The agents and the control plane are        *)
(* external.                                                               *)
(***************************************************************************)
EXTENDS Naturals, FiniteSets

CONSTANTS
    MaxTokens,      \* bound: rows of workspace_auth_tokens, kind 'instance'
    Boxes,          \* provisions or rotations; each makes one agent
    FirstBox,
    RegCalls,       \* register calls in flight at once
    FailClosed,     \* MOLECULE_REGISTRY_TOKEN_CHECK_FAIL_CLOSED
    AdminSecret,    \* ADMIN_TOKEN is set
    MaxRegFaults,   \* bound: failed statements, lost answers, tokens revoked by hand
    Sessions,       \* verifications in flight at once
    TTLOk, TTLFail, \* sessionCacheTTLOK, sessionCacheTTLFail
    CPTimeout,      \* of the call to the control plane
    MaxTime         \* bound of the clock

ASSUME TokensAssumption == MaxTokens \in Nat /\ FirstBox \in Boxes /\ MaxRegFaults \in Nat
ASSUME SessionsAssumption == TTLOk \in Nat /\ TTLFail \in Nat /\ CPTimeout \in Nat /\ MaxTime \in Nat

Tokens == 1..MaxTokens
NoToken == 0

VARIABLES
    regMode,        \* how agents get their token: "docker", "saas", "external"
    regKind,        \* workspaces.kind
    regRow,         \* workspaces.status, as far as tokens go
    authToken,      \* unborn, live or revoked
    authFile,       \* .auth_token in the config volume
    held,           \* the token each agent has
    regUp,          \* agents that run
    prov,           \* where each provision or rotation is
    fresh,          \* the token a provision minted
    reg,            \* the register calls
    latest,         \* history: the box of the last revocation
    crossedReg,     \* history: a register overlapped a provision or rotation, or two rotations did
    regFaults,
    member, wall, lastIn,         \* the control plane's view of the session, and the clock
    verdicts,       \* sessionCache's entry
    verify          \* the verifications in flight

tokenVars == <<regMode, regKind, regRow, authToken, authFile, held, regUp, prov, fresh, reg, latest,
               crossedReg, regFaults>>
sessionVars == <<member, wall, lastIn, verdicts, verify>>
regVars == <<tokenVars, sessionVars>>

ProvPCs == {"idle", "revoke", "issue", "write", "start", "inject", "done"}
RegPCs == {"idle", "auth", "validate", "recheck", "gates", "upsert", "check", "issue", "answer"}
RegIdle == [pc |-> "idle", box |-> FirstBox, bearer |-> NoToken, tok |-> NoToken]
VerifyPCs == {"idle", "cache", "ask", "put"}
NoVerdict == [until |-> 0, ok |-> FALSE]
VerifyIdle == [pc |-> "idle", began |-> 0, ok |-> FALSE]

RegTypeOK ==
    /\ regMode \in {"docker", "saas", "external"}
    /\ regKind \in {"workspace", "platform"}
    /\ regRow \in {"provisioning", "online", "failed", "removed", "revoking"}
    /\ authToken \in [Tokens -> {"unborn", "live", "revoked"}]
    /\ authFile \in Tokens \cup {NoToken}
    /\ held \in [Boxes -> Tokens \cup {NoToken}]
    /\ regUp \subseteq Boxes
    /\ prov \in [Boxes -> ProvPCs]
    /\ fresh \in [Boxes -> Tokens \cup {NoToken}]
    /\ reg \in [RegCalls -> [pc : RegPCs, box : Boxes, bearer : Tokens \cup {NoToken},
                             tok : Tokens \cup {NoToken}]]
    /\ latest \in Boxes
    /\ crossedReg \in BOOLEAN
    /\ regFaults \in 0..MaxRegFaults
    /\ member \in BOOLEAN
    /\ wall \in 0..MaxTime /\ lastIn \in 0..MaxTime
    /\ verdicts \in [until : 0..(MaxTime + TTLOk + TTLFail), ok : BOOLEAN]
    /\ verify \in [Sessions -> [pc : VerifyPCs, began : 0..MaxTime, ok : BOOLEAN]]

RegInit ==
    /\ regMode \in {"docker", "saas", "external"}
    /\ regKind \in {"workspace", "platform"}
    /\ regRow = "provisioning"
    /\ authToken = [t \in Tokens |-> "unborn"]
    /\ authFile = NoToken
    /\ held = [b \in Boxes |-> NoToken]
    /\ regUp = {}
    /\ prov = [b \in Boxes |-> IF b = FirstBox THEN "revoke" ELSE "idle"]
    /\ fresh = [b \in Boxes |-> NoToken]
    /\ reg = [r \in RegCalls |-> RegIdle]
    /\ latest = FirstBox
    /\ crossedReg = FALSE
    /\ regFaults = 0
    /\ member \in BOOLEAN
    /\ wall = 0 /\ lastIn = 0
    /\ verdicts = NoVerdict
    /\ verify = [v \in Sessions |-> VerifyIdle]

Live == {t \in Tokens : authToken[t] = "live"}
RegFault == regFaults < MaxRegFaults /\ regFaults' = regFaults + 1
RegFine == UNCHANGED regFaults
RegRemoved == regRow \in {"removed", "revoking"}
Underway(b) == prov[b] \notin {"idle", "done"}

\* RevokeInstanceTokensForWorkspace, RevokeAllForWorkspace.
RevokeAll == authToken' = [t \in Tokens |-> IF authToken[t] = "live" THEN "revoked" ELSE authToken[t]]

\* IssueToken inserts a live row under the hash of a fresh plaintext.
IssueToken(t) ==
    /\ authToken[t] = "unborn" /\ \A u \in 1..(t - 1) : authToken[u] # "unborn"
    /\ authToken' = [authToken EXCEPT ![t] = "live"]

\* lookupTokenByHash: live, and the workspace's row not removed.
Valid(t) == t # NoToken /\ authToken[t] = "live" /\ ~RegRemoved

-----------------------------------------------------------------------------
(* A provision.  Those of one workspace are serial (its gate); rotations    *)
(* of an external agent are requests like any other.                        *)

ProvGoto(b, from, to) == prov[b] = from /\ prov' = [prov EXCEPT ![b] = to]
ProvKeeps == <<regMode, regKind, reg, sessionVars>>

\* A restart stops the old box first; a stop may fail.  A rotation does not ask
\* whether the workspace is removed.
ProvisionBegins(b) ==
    /\ regMode = "external" \/ ~RegRemoved
    /\ regMode = "external" \/ \A c \in Boxes : ~Underway(c)
    /\ ProvGoto(b, "idle", "revoke")
    /\ regRow' = IF regMode = "external" THEN regRow ELSE "provisioning"
    /\ IF regMode = "external" THEN RegFine /\ UNCHANGED regUp
       ELSE (RegFine /\ regUp' = {}) \/ (RegFault /\ regMode = "saas" /\ UNCHANGED regUp)
    /\ UNCHANGED <<authToken, authFile, held, fresh, latest, crossedReg, ProvKeeps>>

\* Mutant of ProvisionRevokes: the token of before stays good.
ProvisionForgets(b) ==
    /\ ProvGoto(b, "revoke", IF regMode = "saas" THEN "start" ELSE "issue")
    /\ RegFine /\ latest' = b
    /\ UNCHANGED <<authToken, regRow, authFile, held, regUp, fresh, crossedReg, ProvKeeps>>

\* The revocation comes first in every mode; one that fails ends a rotation and
\* leaves a provision without a token of its own.
ProvisionRevokes(b) ==
    /\ \/ /\ RevokeAll /\ RegFine
          /\ ProvGoto(b, "revoke", IF regMode = "saas" THEN "start" ELSE "issue")
       \/ /\ RegFault /\ UNCHANGED authToken
          /\ ProvGoto(b, "revoke", IF regMode = "external" THEN "done" ELSE "start")
    /\ latest' = b
    /\ crossedReg' = \/ crossedReg
                     \/ \E r \in RegCalls : reg[r].pc # "idle"
                     \/ \E c \in Boxes \ {b} : Underway(c)
    /\ UNCHANGED <<regRow, authFile, held, regUp, fresh, ProvKeeps>>

issueAndInjectToken(b) ==
    /\ \/ \E t \in Tokens : IssueToken(t) /\ fresh' = [fresh EXCEPT ![b] = t] /\ RegFine
          /\ ProvGoto(b, "issue", IF regMode = "external" THEN "start" ELSE "write")
       \/ RegFault /\ UNCHANGED <<authToken, fresh>>
          /\ ProvGoto(b, "issue", IF regMode = "external" THEN "done" ELSE "start")
    /\ UNCHANGED <<regRow, authFile, held, regUp, latest, crossedReg, ProvKeeps>>

\* WriteAuthTokenToVolume, before the container starts; best effort.
WriteAuthTokenToVolume(b) ==
    /\ ProvGoto(b, "write", "start")
    /\ (authFile' = fresh[b] /\ RegFine) \/ (RegFault /\ UNCHANGED authFile)
    /\ UNCHANGED <<regRow, authToken, held, regUp, fresh, latest, crossedReg, ProvKeeps>>

\* A container reads its volume, the owner hands a rotated token to the agent,
\* a SaaS box has none.
AgentStarts(b) ==
    /\ ProvGoto(b, "start", IF regMode = "docker" THEN "inject" ELSE "done")
    /\ regUp' = regUp \cup {b}
    /\ held' = [held EXCEPT ![b] = CASE regMode = "docker"   -> authFile
                                     [] regMode = "external" -> fresh[b]
                                     [] OTHER                -> NoToken]
    /\ fresh' = IF regMode = "docker" THEN fresh ELSE [fresh EXCEPT ![b] = NoToken]
    /\ RegFine
    /\ UNCHANGED <<regRow, authToken, authFile, latest, crossedReg, ProvKeeps>>

\* WriteFilesToContainer writes the token once more, into the running container.
AgentIsGivenFiles(b) ==
    /\ ProvGoto(b, "inject", "done")
    /\ \/ /\ RegFine /\ fresh[b] # NoToken
          /\ authFile' = fresh[b] /\ held' = [held EXCEPT ![b] = fresh[b]]
       \/ RegFine /\ fresh[b] = NoToken /\ UNCHANGED <<authFile, held>>
       \/ RegFault /\ UNCHANGED <<authFile, held>>
    /\ fresh' = [fresh EXCEPT ![b] = NoToken]
    /\ UNCHANGED <<regRow, authToken, regUp, latest, crossedReg, ProvKeeps>>

ProvisionStep(b) ==
    \/ ProvisionBegins(b) \/ ProvisionRevokes(b) \/ issueAndInjectToken(b)
    \/ WriteAuthTokenToVolume(b) \/ AgentStarts(b) \/ AgentIsGivenFiles(b)

\* DELETE marks the row and revokes; an owner revokes one token (Revoke).
RowIsRemoved ==
    /\ regRow' = CASE regRow = "revoking" -> "removed"
                   [] ~RegRemoved            -> "revoking"
                   [] OTHER               -> "none"
    /\ regRow' # "none"
    /\ IF regRow = "revoking" THEN RevokeAll /\ regUp' = {} ELSE UNCHANGED <<authToken, regUp>>
    /\ UNCHANGED <<authFile, held, prov, fresh, latest, crossedReg, regFaults, ProvKeeps>>

Revoke(t) ==
    /\ authToken[t] = "live" /\ authToken' = [authToken EXCEPT ![t] = "revoked"]
    /\ RegFault
    /\ UNCHANGED <<regRow, authFile, held, regUp, prov, fresh, latest, crossedReg, ProvKeeps>>

-----------------------------------------------------------------------------
(* Register.                                                               *)

RegGoto(r, from, to) == reg[r].pc = from /\ reg' = [reg EXCEPT ![r].pc = to]
RegEnds(r) == reg' = [reg EXCEPT ![r] = RegIdle]
RegKeeps == <<regMode, regKind, authFile, regUp, prov, fresh, latest, crossedReg, sessionVars>>

RegisterCalls(r, b) ==
    /\ b \in regUp /\ reg[r].pc = "idle"
    /\ r = CHOOSE q \in RegCalls : reg[q].pc = "idle"  \* calls differ by nothing else
    /\ reg' = [reg EXCEPT ![r] = [pc |-> "auth", box |-> b, bearer |-> held[b], tok |-> NoToken]]
    /\ crossedReg' = (crossedReg \/ \E c \in Boxes : prov[c] = "issue")
    /\ UNCHANGED <<regRow, authToken, held, regFaults, regMode, regKind, authFile, regUp, prov, fresh,
                   latest, sessionVars>>

\* requireWorkspaceToken: with no live instance token every caller is the first
\* of its workspace.
requireWorkspaceToken(r) ==
    /\ reg[r].pc = "auth"
    /\ \/ RegFine /\ Live = {} /\ RegGoto(r, "auth", "gates")
       \/ RegFine /\ Live # {} /\ reg[r].bearer = NoToken /\ RegEnds(r)
       \/ RegFine /\ Live # {} /\ reg[r].bearer # NoToken /\ RegGoto(r, "auth", "validate")
       \/ RegFault /\ IF FailClosed THEN RegEnds(r) ELSE RegGoto(r, "auth", "gates")
    /\ UNCHANGED <<regRow, authToken, held, RegKeeps>>

\* ValidateToken; any error of the lookup is an invalid token.
ValidateToken(r) ==
    /\ \/ RegFine /\ RegGoto(r, "validate", IF Valid(reg[r].bearer) THEN "gates" ELSE "recheck")
       \/ RegFault /\ RegGoto(r, "validate", "recheck")
    /\ UNCHANGED <<regRow, authToken, held, RegKeeps>>

\* A token that was revoked under the call is forgiven when none is live now.
RecheckLive(r) ==
    /\ reg[r].pc = "recheck"
    /\ \/ RegFine /\ Live = {} /\ RegGoto(r, "recheck", "gates")
       \/ RegFine /\ Live # {} /\ RegEnds(r)
       \/ RegFault /\ RegEnds(r)
    /\ UNCHANGED <<regRow, authToken, held, RegKeeps>>

\* An unknown delivery mode or kind, a kind the row does not have; a failed read.
PayloadIsRefused(r) ==
    /\ reg[r].pc = "gates" /\ RegFault /\ RegEnds(r)
    /\ UNCHANGED <<regRow, authToken, held, RegKeeps>>

\* An agent that is pushed to needs an address: a public one, or this host's by its
\* name; on SaaS one of the private network, or a tunnel whose name is not known yet.
Hosts == {"localhost", "public", "private", "tunnel", "loopback", "reserved", "unknown"}
AddressAllowed(host) ==
    \/ host \in {"localhost", "public"}
    \/ host \in {"private", "tunnel"} /\ regMode = "saas"

validateAgentURL(r) ==
    /\ reg[r].pc = "gates" /\ RegFault /\ RegEnds(r)
    /\ \E host \in Hosts : ~AddressAllowed(host)
    /\ UNCHANGED <<regRow, authToken, held, RegKeeps>>

\* A root agent without its model or its management MCP server is marked failed,
\* whatever its row says by now, and turned away.
IdentityIsRefused(r) ==
    /\ reg[r].pc = "gates" /\ regKind = "platform" /\ RegFault
    /\ regRow' = "failed" /\ RegEnds(r)
    /\ UNCHANGED <<authToken, held, RegKeeps>>

\* reconcileAgentCardIdentity fills the card from the row; nothing else to do.
PayloadIsFine(r) ==
    /\ RegGoto(r, "gates", "upsert") /\ RegFine
    /\ UNCHANGED <<regRow, authToken, held, RegKeeps>>

\* INSERT ... ON CONFLICT: a removed row stays as it is, a platform row keeps its status.
Upsert(r) ==
    /\ \/ /\ RegFine /\ RegGoto(r, "upsert", "check")
          /\ regRow' = IF RegRemoved \/ regKind = "platform" THEN regRow ELSE "online"
       \/ RegFault /\ reg[r].pc = "upsert" /\ RegEnds(r) /\ UNCHANGED regRow
    /\ UNCHANGED <<authToken, held, RegKeeps>>

\* After caches and broadcast: is any token live?  "Cannot tell" mints none.
CheckLive(r) ==
    /\ \/ RegFine /\ RegGoto(r, "check", IF Live = {} THEN "issue" ELSE "answer")
       \/ RegFault /\ RegGoto(r, "check", "answer")
    /\ UNCHANGED <<regRow, authToken, held, RegKeeps>>

IssueFirst(r) ==
    /\ reg[r].pc = "issue"
    /\ \/ \E t \in Tokens : IssueToken(t) /\ RegFine
                            /\ reg' = [reg EXCEPT ![r].pc = "answer", ![r].tok = t]
       \/ RegFault /\ UNCHANGED authToken /\ RegGoto(r, "issue", "answer")
    /\ UNCHANGED <<regRow, held, RegKeeps>>

\* The agent keeps the token it is sent; the answer may be lost.
RegisterAnswers(r) ==
    /\ reg[r].pc = "answer" /\ RegEnds(r)
    /\ \/ /\ RegFine
          /\ held' = IF reg[r].tok # NoToken /\ reg[r].box \in regUp
                       THEN [held EXCEPT ![reg[r].box] = reg[r].tok] ELSE held
       \/ reg[r].tok # NoToken /\ RegFault /\ UNCHANGED held
    /\ UNCHANGED <<regRow, authToken, RegKeeps>>

RegisterStep(r) ==
    \/ \E b \in Boxes : RegisterCalls(r, b)
    \/ requireWorkspaceToken(r) \/ ValidateToken(r) \/ RecheckLive(r)
    \/ PayloadIsRefused(r) \/ validateAgentURL(r) \/ IdentityIsRefused(r) \/ PayloadIsFine(r)
    \/ Upsert(r) \/ CheckLive(r) \/ IssueFirst(r) \/ RegisterAnswers(r)

-----------------------------------------------------------------------------
(* The other doors of the API.  "unsure" is a database that does not answer: *)
(* orgtoken.Validate and ValidateToken call that an invalid token.          *)

Doors == {"workspace", "admin", "canvas", "discovery"}
Presented == {"admin", "org", "stranger", "session", "page", "none"} \X {NoToken}
                 \cup {"bearer"} \X Tokens

\* What is tried last on every door: the session's cookie.
CookieOpens(kind) == kind = "session" /\ member

\* An organisation's key opens the workspaces of its own tree (see WorkspaceTree).
WorkspaceAuth(kind, t, unsure) ==
    \/ kind = "admin" /\ AdminSecret
    \/ kind = "org" /\ ~unsure
    \/ kind = "bearer" /\ Valid(t) /\ ~unsure
    \/ CookieOpens(kind)

\* Without ADMIN_TOKEN any live workspace token is an admin's.  The database is
\* asked before anything else.
AdminAuth(kind, t, unsure) ==
    /\ ~unsure
    /\ \/ CookieOpens(kind)
       \/ kind \in {"org", "stranger"}
       \/ kind = "admin" /\ AdminSecret
       \/ kind = "bearer" /\ ~AdminSecret /\ Valid(t)

\* The canvas's own page needs no credential for what is cosmetic; any live
\* workspace token will do.
CanvasOrBearer(kind, t, unsure) ==
    /\ ~unsure
    /\ \/ kind = "admin" /\ AdminSecret
       \/ kind = "bearer" /\ Valid(t)
       \/ kind = "page"

\* A workspace that has no live token lets everybody through to discovery.
validateDiscoveryCaller(kind, t, unsure) ==
    /\ ~unsure
    /\ \/ Live = {}
       \/ kind = "admin" /\ AdminSecret
       \/ kind \in {"org", "stranger"}
       \/ kind = "bearer" /\ Valid(t)
       \/ CookieOpens(kind)

Opens(d, kind, t, unsure) ==
    \/ d = "workspace" /\ WorkspaceAuth(kind, t, unsure)
    \/ d = "admin"     /\ AdminAuth(kind, t, unsure)
    \/ d = "canvas"    /\ CanvasOrBearer(kind, t, unsure)
    \/ d = "discovery" /\ validateDiscoveryCaller(kind, t, unsure)

-----------------------------------------------------------------------------
(* VerifiedCPSession: the cache, the control plane's answer, the cache.     *)

SessionKeeps == <<member, wall, lastIn>>

VerifyBegins(v) ==
    /\ verify[v].pc = "idle"
    /\ verify' = [verify EXCEPT ![v] = [pc |-> "cache", began |-> wall, ok |-> FALSE]]
    /\ UNCHANGED <<verdicts, SessionKeeps, tokenVars>>

\* An entry that has not expired answers; the verdict is the answer's ok.
VerdictIsFresh == verdicts.until > 0 /\ wall <= verdicts.until
CacheAnswers == VerdictIsFresh
sessionCacheGet(v) ==
    /\ verify[v].pc = "cache"
    /\ verify' = [verify EXCEPT ![v] = IF CacheAnswers THEN VerifyIdle
                                       ELSE [pc |-> "ask", began |-> wall, ok |-> FALSE]]
    /\ verdicts' = IF CacheAnswers THEN verdicts ELSE NoVerdict
    /\ UNCHANGED <<SessionKeeps, tokenVars>>

\* The control plane answers within the client's timeout.  An error of its own
\* counts as a refusal; no answer is a refusal that is not kept.
ControlPlaneAnswers(v) ==
    /\ verify[v].pc = "ask"
    /\ \/ verify' = [verify EXCEPT ![v].pc = "put", ![v].ok = member]
       \/ verify' = [verify EXCEPT ![v].pc = "put", ![v].ok = FALSE]
       \/ verify' = [verify EXCEPT ![v] = VerifyIdle]
    /\ UNCHANGED <<verdicts, SessionKeeps, tokenVars>>

sessionCachePut(v) ==
    /\ verify[v].pc = "put"
    /\ verdicts' = [until |-> wall + (IF verify[v].ok THEN TTLOk ELSE TTLFail), ok |-> verify[v].ok]
    /\ verify' = [verify EXCEPT ![v] = VerifyIdle]
    /\ UNCHANGED <<SessionKeeps, tokenVars>>

\* The membership begins or ends at the control plane.
MembershipChanges ==
    /\ member' = ~member
    /\ lastIn' = IF member THEN wall ELSE lastIn
    /\ UNCHANGED <<wall, verdicts, verify, tokenVars>>

\* A call that waits for the control plane is over within its timeout.
WallTicks ==
    /\ wall < MaxTime
    /\ \A v \in Sessions : verify[v].pc # "idle" => wall < verify[v].began + CPTimeout
    /\ wall' = wall + 1
    /\ lastIn' = IF member THEN wall' ELSE lastIn
    /\ UNCHANGED <<member, verdicts, verify, tokenVars>>

SessionStep ==
    \/ \E v \in Sessions : \/ VerifyBegins(v) \/ sessionCacheGet(v)
                           \/ ControlPlaneAnswers(v) \/ sessionCachePut(v)
    \/ MembershipChanges \/ WallTicks

TokenStep ==
    \/ \E b \in Boxes : ProvisionStep(b)
    \/ RowIsRemoved \/ \E t \in Tokens : Revoke(t)
    \/ \E r \in RegCalls : RegisterStep(r)

RegNext == (TokenStep /\ UNCHANGED sessionVars) \/ SessionStep
RegSpec == RegInit /\ [][RegNext]_regVars

-----------------------------------------------------------------------------
(* Properties.                                                             *)

RegQuiet ==
    /\ \A r \in RegCalls : reg[r].pc = "idle"
    /\ \A b \in Boxes : ~Underway(b)

\* Once everything has come to rest, a workspace that asks for a token has an
\* agent that holds one: no overlap of registers, provisions and rotations
\* leaves everybody out (workspace_provision.go:539).  A failed call may, and
\* on SaaS a register that was under way while the tokens were revoked.
SomeAgentIsLetIn ==
    RegQuiet /\ ~RegRemoved /\ Live # {} /\ regFaults = 0 /\ (regMode = "saas" => ~crossedReg)
        => \E b \in regUp : held[b] \in Live

\* And an agent that was replaced holds none (external_rotate.go:17), unless it
\* was registering in that moment.
ReplacedIsOut ==
    RegQuiet /\ regFaults = 0 /\ ~crossedReg
        => \A b \in Boxes : held[b] \in Live => b = latest

\* A door that could not look up what it needed lets in the operator and the
\* members of the organisation only, and a token that is revoked, or whose
\* workspace is removed, opens none but discovery of a workspace without tokens.
DoorsAreShut ==
    \A d \in Doors, c \in Presented :
        /\ Opens(d, c[1], c[2], TRUE) => c[1] \in {"admin", "session"}
        /\ (c[1] = "bearer" /\ Opens(d, c[1], c[2], FALSE))
              => \/ authToken[c[2]] = "live" /\ ~RegRemoved
                 \/ d = "discovery" /\ Live = {}

\* While the cache lets a session in, its user was a member within the time to
\* live and the time of one call.
VerdictIsRecent ==
    VerdictIsFresh /\ verdicts.ok => member \/ lastIn + TTLOk + CPTimeout >= wall

\* The agents of a workspace are let in, the replaced ones and the former
\* members of the organisation are not (Register, requireWorkspaceToken,
\* issueAndInjectToken, RotateExternalCredentials, VerifiedCPSession).
AccessIsCurrent ==
    RegTypeOK /\ SomeAgentIsLetIn /\ ReplacedIsOut /\ DoorsAreShut /\ VerdictIsRecent

(***************************************************************************)
(* Claims of the sources that the code does not keep.                      *)
(***************************************************************************)
\* workspace_provision.go:545: revoking "clears the gate so the register
\* handler's bootstrap path can mint a fresh token" for the new box.
NewBoxGetsIn ==
    RegQuiet /\ ~RegRemoved /\ regFaults = 0 /\ regUp = {latest} /\ Live # {}
        => held[latest] \in Live

\* external_rotate.go:18: "Old credentials stop working immediately".
RotationIsExact ==
    RegQuiet /\ regFaults = 0 => \A b \in Boxes : held[b] \in Live => b = latest

\* A removed workspace is minted no token.
NoTokenOnceRemoved == [][RegRemoved => \A t \in Tokens : authToken'[t] = "live" => authToken[t] = "live"]_regVars

=============================================================================
