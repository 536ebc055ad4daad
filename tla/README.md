# TLA+ specifications of the workspace server

The repository is a platform for teams of agents. Every agent runs in a
*workspace* (a container or a machine of its own); the Go program
`workspace-server` keeps the workspaces' rows in Postgres, starts and stops
their containers, and passes agent-to-agent (A2A) messages between them. The
`canvas` is its browser interface. The core logic, and nearly everything that is
hard about it, is in `workspace-server/internal`: HTTP handlers, background
sweepers and detached goroutines that share Postgres rows and a few
mutex-protected maps, with no transaction around most multi-statement
operations.

This directory holds the models of that core, the TLC configurations that check
them, and the TLAPS proofs about them. `PROJECT.json` lists the runs, the source
lines each definition models, the hazards and the findings.

## 1. Inventory

| Part | State it keeps | What is hard | What makes it correct | Module |
|---|---|---|---|---|
| Delegation ledger, handler and sweeper (`delegation*.go`) | one status row per delegation, the caller's inbox | a SELECT and a compare-and-swap with four kinds of writers between them; failed statements; a flag that changes over a restart | status moves forward only; one writer tells the caller, and tells what the row says; an overdue delegation is closed | `DelegationLedger`, `DelegationReply` |
| A2A queue and restart context (`a2a_queue.go`, `restart_context.go`) | queue rows: status, key, attempts, settling since, expiry; a boot-turn mark | concurrent drains; a drained message that meets its own row; crash with a row claimed | a row is delivered by one drain; no message vanishes; retries end | `A2AQueue` |
| A2A proxy (`a2a_proxy*.go`) | activity rows, the poll queue | answers of many shapes; a log row written after the forward; a retry of what was done | a message that was acknowledged is on file | `MessageDispatch` |
| Activity log, inbox, chat history | rows with a commit order, a cursor | rows that commit out of order under a cursor; pruning | what a reader has passed it has seen | `InboxFeed` |
| Restart coalescing, breaker and queue hold (`workspace_restart.go`, `auto_restart_breaker.go`) | `restartState`, the per-workspace gate, times of counted restarts | requests merged into one flag; panics; owner and automatic restarts on one container; pause without the gate | one boot at a time; a committed write reaches a container; a limit of automatic restarts per window; every request ends | `WorkspaceRestart` |
| Start, delete and orphan sweeps (`provisioner/`, `workspace_crud.go`, `internal/registry`) | the row, the in-process guard, Docker's containers and volumes | a start racing a delete; a create that dockerd finishes late | no container outlives its deleted workspace | `StartDelete` |
| Control-plane instances and moves between clouds | `instance_id`, the cloud's machines | lost answers, a reconciler on stale reads, a rollback across two clouds | every running machine is on file or named | `CPInstances` |
| Registry, heartbeat and sweeps (`registry.go`, `internal/registry`) | status, heartbeat time, a liveness marker | many writers of one status column | the status follows the agent; parked rows stay parked | `WorkspaceStatus` |
| Concierge readiness | a warm-up clock in the row | overlapping beats, a clock that an old wake left behind | online only when verified; a mute one is surfaced | `ConciergeGate` |
| Watchdogs | probe and cooldown marks | each pass is many statements over a stale list | a hung agent is restarted, a working one asked first | `Watchdogs` |
| Wake intents, first greeting | one intent per workspace and generation | claims, re-drives, a crash between claim and send | one greeting; intents end | `WakeIntents` |
| Human requests, approvals | one row per item | claims racing decisions and sweeps | a decision is told; an approval is spent once | `HumanRequests`, `Approvals` |
| Creation and credentials | secrets, model, the container's environment | what a provision has read is changed under it | a container has the right credential and nobody else's | `ProvisionEnv` |
| Tree of workspaces, org tokens | `parent_id` | moves racing a cascading delete | no cycle; a token reaches its own organisation only | `WorkspaceTree` |
| Tokens and sessions | token rows, the inbound secret, a cache of verdicts | overlapping registers, rotations and revocations | what was replaced opens nothing, what is current does | `Registration` |
| Workspace files | the volume, the mirror, a secret and its cache | debounced restarts, file-by-file writes | edits get loaded; a read tells what is there | `WorkspaceFiles` |
| Platform agent | its row, box, key and model | repairs, installs and picks that overlap | one concierge with the right key | `ConciergeRoot` |
| Organisation import | the rows of a template | imports in parallel, deletes in between | unique names, what others made is kept | `OrgImport` |
| Plugins | the directory in the box, the row, the drift queue | a directory swap while the source moves | nothing lost half way; the record catches up | `PluginDelivery` |
| Memories | the plugin's namespaces and records, a breaker, a key-value table | lost answers, a purge beside a commit, versions that start again | what was acknowledged stays; conditional writes lose nothing | `Memories` |
| Channels | pollers, offsets, hooks, a budget | overlapping reloads, redelivery, check-then-act | an event is tried once by a reader; pollers match rows | `ChannelPollers`, `ChannelMessages` |
| Desktop, tunnels, uploads, credential refresher | a lock, a pool, staged rows, a token file | viewers and reapers; waiters; sweeps; lost answers | see the modules | `DesktopSidecar`, `TunnelPool`, `PendingUploads`, `CodexRefresher` |

How they interact: `executeDelegation` sends through the proxy; a busy target
makes the proxy enqueue; the target's heartbeat starts a drain, which goes
through the proxy again and stitches the late reply into the delegation's
ledger row. Recovery sweeps ask for automatic restarts; a counted automatic
restart arms the queue hold, which stops drains until the workspace has been
healthy. Every restart puts a snapshot into the queue. File, secret and plugin
writes ask for restarts; a provision reads the secrets, mints the token a
register presents, and the heartbeat that follows moves the status on.

## 2. How the project is laid out

Each component has a module with its `VARIABLES`, a type invariant, `Init`, one
action per handler step, `Next`, and its properties; the bounds are `CONSTANTS`
under named assumptions. A step is one statement, one critical section or one
call: whatever another goroutine can see between two of them is a state.
`*Proofs.tla` extend the modules they are about and TLAPS.

The `MC*.tla` modules compose for TLC. Where modules share no state a behaviour
is that of one of them, which a variable (`record`, `act`, `keeper`, `goods`,
`chatScene`, `scene`, `view`, `subject`, `topic`, `service`) chooses in the
initial state; the others rest in an initial state. The same variable picks a
cast: which of the callers act in a behaviour and which of them meet a fault. So
one run asks one question of each of its modules, with the full interleaving
inside each.

| MC module | Composes |
|---|---|
| `MCDelegationLedger` | `DelegationLedger`, `InboxFeed` |
| `MCOrg` | `DelegationLedger`, `ConciergeRoot`, `OrgImport` |
| `MCA2AQueue` | `A2AQueue`, `Memories` |
| `MCDeliveries` | `A2AQueue`, `PluginDelivery` |
| `MCWorkspaceRestart` | `WorkspaceRestart`, `ChannelMessages` |
| `MCPlatform` | `StartDelete`, `MessageDispatch`, `ProvisionEnv` |
| `MCLifecycle` | `StartDelete`, `CPInstances`, `WorkspaceStatus`, `Registration` |
| `MCWorkspaces` | `ConciergeGate`, `Watchdogs`, `WorkspaceTree` |
| `MCMessages` | `WakeIntents`, `HumanRequests`, `Approvals`, `WorkspaceFiles` |
| `MCServices` | `DesktopSidecar`, `ChannelPollers`, `TunnelPool`, `PendingUploads`, `CodexRefresher` |

A run checks one conjunction per module, whose parts are named in the module:
`WakesAreKept`, for instance, is `GreetOnce`, `GenerationsCount`,
`GreetLostOnlyByFault`, `EndedIntentsStay` and `IntentsEnd`.

What is left to do: compositions across components that do share state (the
queue with the ledger through the stitch, the queue hold with the restart
cycle); an abstract at-least-once queue that `A2AQueue` implements up to its
named losses; a proof for the safety part of `TunnelPool`, along the lines of
section 5.

## 3. Modules

### DelegationLedger, DelegationReply

A goroutine (`proc`) is a route through the code: the executor, a status POST,
the drain's stitch, or the sweeper. `SetStatus` is two actions,
`SetStatusSelect` and `SetStatusUpdate`, with `SetStatusError` and
`SetStatusRowsUnknown` for the error returns of either statement; what the
caller of `SetStatus` does with the returned `ReplyAuthority` is `Return`,
`pushDelegationResultToInbox`, `StaySilent` and `PushFailed`. `Routes` chooses
which parts of the environment a run has (`dark` is the ledger flag
`DELEGATION_LEDGER_WRITE` off, `quiet` the reply flag
`DELEGATION_RESULT_INBOX_PUSH` off, `restart` a process restart, which may come up
with other flags where the run has them). `said`, `mine`, `blind` and `unsent` record what
the caller was told and on which authority.

`DelegationReply` is what the ledger promises: a delegation is opened, closed
once with an outcome, and notified at most once with that outcome. The mapping
takes the reply sent on `ReplyMine` as the notification.

A reply needs both flags: `pushDelegationResultToInbox` returns at once without
the second, and the sweeper's reply is withheld without the first
(`InboxIsOpen`). The source says that the second is set nowhere, and
`WarnOnPartialDelegationRollout` calls the first without the second a trap. So
`OverdueCallerIsTold` promises a notice only from a process that has `pushing` and
`enabled` set; with the reply flag off every delegation still ends
(`OverdueIsClosed`) and nobody is told. The safety properties hold under
any setting: with a flag off there are fewer replies.

### A2AQueue

Rows are numbered by `enqueued_at`. A drain call is a record with its program
counter, its remaining capacity and its claimed row. `DequeueNext` claims the
oldest eligible row of the highest priority; `ProxyDelivers`, `ProxyFails`,
`ProxyRequeues` and `ProxyDefers` are the outcomes of `proxyA2ARequest`; the
mark actions are separate statements that may fail (`MarkError`). A message's
key is its messageId; a snapshot's is the fixed restart key until the proxy
re-queues it, when it becomes its messageId. `EnqueueA2A`'s supersede and
INSERT are one action: what could run between them shows in the unique index,
which `Conflict` models.

A drain is begun by the sweeper's tick (`sweepA2AQueue`: only on a server with a
provisioner, and only for a workspace that is online or degraded and has an
unexpired queued row) or by a heartbeat that reports spare capacity
(`StartDrain`). Only the first is owed: no agent has to beat, let alone be idle.
`online` is the part of `workspaces.status` that the sweeper looks at, and
`WorkspaceFlaps` changes it at any time. `NoZombie`, the liveness part of
`SnapshotsSettle`, is therefore about a workspace that in the end stays online
and has no boot turn in progress, on a server with a provisioner. Without that
premise TLC refutes it: the rows of a workspace that stays offline are stranded,
which is what `CountStrandedQueueItems` counts.

### WorkspaceRestart

Each goroutine makes one request; one critical section or one statement is one
action. `stamp` and `age` are saturating clocks against the debounce and breaker
windows. `written`, `riding`, `serves`, `excused` follow a committed write from
the request that is to deliver it to the container that has it. Status writes
and stops that only log an error may fail (`WriteStatus`, `StopOrLeak`). Owners
(restart, resume, wake) provision under the gate; parkers (pause, hibernate)
stop the container and write the row without it. `Register` and `Heartbeat` are
what the container's own messages do to the status; a register sent before a
stop may arrive after it. The queue hold is a flag here.

### StartDelete

A start is a goroutine with a program counter through `provisionWorkspace` and
`Start`; the DELETE, the orphan sweeper and the runtime's register have one
each. Docker is external: a call under a cancelled context fails, and a failed
create may have made the container, at once or later (`LateCreate`).
`NoOrphanLeft` is about ends: once the delete and the starts it raced are over,
nothing failed and nobody revived the row, neither container nor volume is left.
The sweeper's own part is `OrphansAreReaped`.

### CPInstances

The same question against a control plane, where the row's `instance_id` is all
the server knows. `SwitchProvider` with its claim, stop, new provision and
rollback is one actor, the reconciler another. `MachinesAreAccounted` joins what
the file says (`RunningIsOnFile`, `StuckIsNamed`, `CloudIsTheInstances`) with
what steps may do (`FlipOnlyDead`, `RemovedInstanceStops`). The DELETE's mark
and its clearing of the id may fail as well: both are logged and the teardown
goes on, so a row may stay live over an instance that was stopped, and an id
that was to be cleared is left to the sweeper. In a behaviour a workspace is
deleted or moved, not both.

### WorkspaceStatus, ConciergeGate, Watchdogs

`WorkspaceStatus` has every writer of one status column, each with the stale
reading it acts on. The agent is a flag (`up`), its heartbeats arrive late.
`ConciergeGate` is the platform branch of `evaluateStatus`: every beat reads the
row once and writes clock and status separately. `Watchdogs` takes the stall
watchdog and the phantom-busy sweeper statement by statement against an agent
that works, rests or hangs.

### WakeIntents, HumanRequests, Approvals

`WakeIntents` has the wake ledger with its generations, the heartbeat that
settles it, the re-drive and the greeting that the greeter and a drain both try
to deliver. `HumanRequests` has the three handlers that answer, ask about or
withdraw a request, and the nudge sweep with its hour key. `Approvals` has
`requireApproval`'s statements with the two kinds of operation behind it.

### ProvisionEnv

The registry of providers is a parameter (`AuthEnv`, `TokenEnv`, `Exact`,
`Prefix`, `Bare`), and `Route` is the function the code computes from it:
`DeriveProvider`, the choice between proxy and vendor key, and what is stripped
from the environment. Around it run Create with its validations and inserts, the
provision with one action per read, and one writer of secrets or of the model.

### WorkspaceTree

Moves, creates, the cascading delete and the minting of org tokens over one
forest, at READ COMMITTED. A move is the transaction it is: the roots to lock
are located without a lock, the rows are locked, and the checks read what is
committed by then. `strays` remembers the rows that a delete of their parent
missed and whatever joins them later; `lateMints` the tokens whose anchor was
moved, or should have been, under an adoption that did not hold the row it moved
them to. Migrated tokens wait for that row's lock and are refused when it is
gone, as their foreign key has it. It begins with any forest whose chains end:
only the server's own statements write `parent_id`. `CutLoose` is the one
situation in which the chain is not promised: a purge has cut strays off while
two moves below them are under way.

### MessageDispatch, InboxFeed

`MessageDispatch` follows one message through the gates of the proxy, the
ingest, the poll queue, the forward and its failures to the log row, for push,
poll and mock workspaces and for several sends with one messageId. `InboxFeed`
takes the rows from there: stamped and numbered in one order, visible in
another, under a cursor, an acknowledgement, pages and pruning.

### Registration, WorkspaceFiles

`Registration` has provisions, rotations, revocations and registers of one
workspace, statement by statement, against the doors its token opens; a second
part is the cached verdict on a browser session. `WorkspaceFiles` has the files
API over its four places (container, volume, mirror, machine) with the debounced
restart, and the secret under which chat files are forwarded, with its cache.

### ConciergeRoot, OrgImport, PluginDelivery

`ConciergeRoot` has the writers of the platform agent's row and the provision
that seeds its model, key and persona. Boxes and live tokens belong to a row
each, so a provision that started under one id and ends under another revokes
and starts what is that row's. `OrgImport` has preflight, inserts with
their conflicts, external parts with their cache, reconcile and provisioning.
`PluginDelivery` has install, reconcile, drift sweep, apply and uninstall of one
plugin, with the swap of its directory as the separate renames it is.

### Memories

A call is resolved against the tree when it begins and carries its namespaces;
the plugin's answer may be lost (`wire`). The client's breaker counts failures.
The legacy backfill copies rows; a purge drops a namespace. The key-value table
has writers that read, then write on a condition.

### ChannelPollers, ChannelMessages

`ChannelPollers` has which pollers run under overlapping reloads.
`ChannelMessages` has what they and the webhooks do: offsets, the turn an event
becomes, the reply, posts within a budget, and the splitting of long texts, a
function whose chunks must make up the text again. `Reload` cancels the poller
of a row that is gone or disabled, starts one for an enabled row that has none,
and skips a row that the manager's map names (`InMap`): a running poller
keeps its offset and the chats it was started with, and one that ended by
itself stays named (`lapsed`), so that no reload starts another before the row
was disabled, paused or the server restarted. `PausePoller` is a discovery with
the row's token: it takes the poller out of the map, and the reload when it is
done starts a new one without an offset. Only these cancellations, the end of a
poller and a restart let the service offer an event again (`again`).

### DesktopSidecar, TunnelPool, PendingUploads, CodexRefresher

Each is one small state machine with its background pass: the idle sweeper of
the desktop, the janitor of the tunnels, the sweep of the staged files, the
refresh loop with its single-use token.

## 4. Runs

| Run | Shows |
|---|---|
| `ledger_races` | two goroutines and the sweeper on one delegation, a failed statement, a restart, the flag on or off: one licence to reply, one true reply, refinement of `DelegationReply`; rows of the activity log that commit late under a reader's cursor, acknowledgement, pages and pruning |
| `org` | an overdue delegation is closed and, with both flags on, its caller told; installs, moves, boots and model picks of the platform agent; overlapping imports of one template |
| `queue_drains` | two drains, retries, blips, expiry, cleanup, a fault and a crash over a message's rows: exclusive claims, honest attempts, unique keys, nothing lost except to a counted fault or the swallowed re-queue, drops only past the ceiling; memories through a plugin with a breaker, and conditional writes of one key |
| `deliveries` | snapshots and boot turns share the queue under the sweeper's tick: what met a settling target comes to an end once the workspace stays online; one plugin's deliveries while its source moves |
| `restart_requests` | crowds of mutation restarts, secret writes, probes and the owner: one runner, one boot at a time, writes land, the limit per window; and a chat's messages in and out |
| `restarts_end` | every mutation restart, resume, wake, pause and hibernation of a platform workspace ends, one fault included |
| `platform` | create, restart, DELETE, sweep and register over one container; one message through the proxy; credentials of a created and restarted workspace |
| `lifecycle` | containers of a deleted workspace are reaped; machines are accounted for across deletes and moves; the status follows the agent; tokens and sessions open what they should |
| `workspaces` | the readiness gate of the platform agent, the watchdogs, and the forest of workspaces under moves, deletes and mints |
| `messages` | wake intents and the greeting; requests; approvals; files and the secret they are forwarded under |
| `services` | desktop, pollers, tunnels, uploads and the refresher, each with faults and restarts |

One run expects a violation: `restart_dropped`. A comment in
`workspace_restart.go`, quoted in `findings`, says that no request is lost; a
request between the runner's last look at `pending` and the clearing of
`running` is left with nobody to serve it.

The modules keep more sentences of the source's comments and docs as
definitions, without a standing run. TLC refutes each of them when it is added to
the configuration named (without its `SYMMETRY`), or checked of the module's own
specification where that is named.

| Definition | Configuration | What happens |
|---|---|---|
| `SilenceIsCovered` | `MCDelegationLedger` | a terminal report loses its compare-and-swap to the sweeper's stuck mark and stays silent while the row is in flight |
| `StuckIsTerminal` | `MCOrg` | a stuck row is completed or failed later |
| `TerminalOwesOneReply` | `MCOrg` | a status POST whose first call is deferred completes the row with its second call's authority discarded |
| `NoneIsLate` | `MCDelegationLedger` | a row that commits late lies behind the cursor and is never handled |
| `RequeueRowExists` | `MCDeliveries` | a drained message that the proxy re-queues meets its own row, which the drain then completes |
| `ReplyIsReal` | `MCDeliveries` | the proxy's 200 with a queued envelope is stored as the agent's reply |
| `DeclinedForAnother` | `MCDeliveries`, a second snapshot | a snapshot stands back for one whose re-queue is swallowed |
| `OneSnapshotPending` | `MCDeliveries`, a second snapshot, `Ceiling = 1`, `MaxRows = 3` | a re-queued snapshot and a newer one are both pending |
| `OneAttemptPerDrain` | `MCA2AQueue` | a drain with capacity left claims the row it has just failed |
| `DropsOnlySustained` | `MCA2AQueue` | two settling episodes with a failure between them count as one |
| `WritesGuaranteed` | `MCWorkspaceRestart` | the debounce drops the request of a secret written during a restart |
| `NeverRefused` | `MCWorkspaceRestart` | a mutation restart joins an automatic run and is refused with it |
| `AutosApart` | `MCWorkspaceRestart`, `AutoLimit = 2` | the debounce counts from the request, so two stops come closer than the window |
| `RecoveryIsUnheld` | `MCWorkspaceRestart` | an automatic cycle arms the hold after the owner's reset |
| `DormantIsStopped` | `RestartsEnd`, `MaxFaults = 0` | a pause or a hibernation takes no gate, so one that overlaps a restart or a wake leaves a parked row over a running container |
| `RemovedIsFinal` | `MCPlatform` | `markProvisioningForRestart` writes without a guard and revives a removed row |
| `ClearedIsStopped` | `MCLifecycle`, `MaxCPFaults = 0` | an `instance_id` is cleared over an instance that still runs |
| `RollbackUnstrands` | `MCLifecycle` | a move that fails leaves the row in `provisioning` |
| `RollbackSparesOthers` | `MCLifecycle` | a move's rollback takes back a status that a provision in flight has taken over |
| `ClaimSparesRemoved` | `CPSpec` alone | a move that read the row before a delete claims the removed row |
| `BeatRefreshesMarker` | `MCLifecycle` | a beat only extends a marker that is still there, an expired one stays gone |
| `NewBoxGetsIn` | `MCLifecycle` | a register of the old box, in flight during the revoke, takes the mint; the new box is locked out |
| `RotationIsExact` | `MCLifecycle` | two rotations overlap, and the credential that opens doors is not the one handed out last |
| `NoTokenOnceRemoved` | `MCLifecycle` | a grandfathered register of a removed row mints a token |
| `WarmClockIsFresh` | `MCWorkspaces` | a wake keeps the clock of an earlier episode |
| `HeartbeatKeepsParked` | `MCWorkspaces` | a beat that read the row before a pause or a hibernation writes its status over it |
| `ProbeIsRetried` | `MCWorkspaces` | the next sweep finds the failed probe's hour key taken and sends nothing |
| `DeleteIsWhole` | `MCWorkspaces` | a workspace created in or moved into the subtree after its ids were collected stays live |
| `CeilingHolds` | `TreeSpec` alone, two tokens | two mints pass the ceiling's count together |
| `DeliveredIsSeen` | `MCMessages` | an intent is marked delivered though its wake has not reached anybody |
| `RootsAgree` | `MCMessages` | reads honour the root of a path, writes and deletes go to `/configs` |
| `LastEditIsLoaded` | `MCMessages` | the debounce has no trailing edge: an edit soon after the last restart stays unread |
| `DefaultSparesConfig` | `FilesSpec` alone, two callers, three calls | a replace without `config.yaml` overwrites one written between its probe and its copy |
| `CacheIsRow` | `MCMessages` | a slow read fills the cache with the value from before a mint |
| `ReplyIsKept` | `MCPlatform` | the reply on file is replaced by the null or error body with which a later send of the message ends |
| `OneRowPerMessage` | `MCPlatform` | a busy agent's queued message gets a second row |
| `VendorKeyMeansVendor` | `MCPlatform` | the model is changed after, or during, the check of the key's write |
| `RefusedIsFailed` | `MCPlatform` | a Create that is refused after its INSERT leaves the row waiting for a container |
| `LiveRootIsKept` | `MCOrg` | a root comes online after the install's probe, and is displaced |
| `PickSurvives` | `MCOrg` | the platform's default is written over a pick made since the model was read |
| `PinIsInBox` | `MCOrg` | the second start finds the pin on file, leaves it to `loadWorkspaceSecrets`, and that drops the key |
| `CallerModelIsUsed` | `MCOrg` | a caller's model that is one of the platform's is replaced by the default |
| `HealthyIsLeftAlone` | `MCOrg` | the boot looks for a system prompt that only one runtime is given, and restarts the others |
| `SkippedIsKept` | `MCOrg` | a node whose spawning is off is named but not reported: the reconcile deletes its workspace |
| `ReimportKeepsTree` | `MCOrg` | after a failed read of the platform agent a second tree is planned at the top, and the first deleted |
| `CacheIsExact` | `MCOrg` | the clone for a commit takes whatever the ref is at by then |
| `RepeatProvisions` | `MCOrg` | a re-import skips the row an interrupted one left, and nobody provisions it |
| `ConvergedIsFresh` | `MCDeliveries` | the commit is asked for after the download, so the row records one the box does not have |
| `HotIsLoaded` | `MCDeliveries` | the trees are compared before the lock: another delivery changed more in between |
| `ApplySparesConcierge` | `MCDeliveries` | the delivery inside an apply asks for a restart of the platform agent |
| `OnlyListedDelivered` | `MCDeliveries` | reconcile and apply deliver what the organisation's list omits |
| `OpenIsThePlugins` | `MCA2AQueue` | summaries that run into a foreign key open the breaker |
| `PurgedLeavesNothing` | `MCA2AQueue` | a commit resolved before the purge makes the namespace again |
| `ConditionalIsExact` | `MCA2AQueue` | versions restart after a delete, so an old condition holds on a new value |
| `ReloadPicksUp` | `MCWorkspaceRestart` | a reload skips the poller that runs, so an updated channel is polled with its old chats |
| `BudgetIsKept` | `MCWorkspaceRestart` | two sends pass the budget's count together |
| `AnsweredOnce` | `MCWorkspaceRestart` | an event the service offers again is asked and answered again |
| `ChunksAreWhole` | `MCWorkspaceRestart` | a first chunk may be empty, and a cut by bytes splits a character |
| `DiscoverAlone` | `MCServices` | the reload of another call starts the poller that was paused |
| `ForwardLists` | `MCServices` | `stopped` lands after a new start was recorded, and the desktop is no longer listed |

### What else the models showed

Behaviour a reader of the code may want to know; none of it is a property.

* *Files, memories.* `auditOrgWrite` inserts columns that `activity_logs`
  (migrations/009) does not have, so the tool's organisation audit never lands.
  `commit_summary` upserts no namespace, and its foreign-key failure counts
  towards the breaker. An open breaker lets every call through once its time is
  up, not one probe. Writes that go file by file and fail half way leave the
  earlier files and ask for no restart.
* *Channels.* `disableChannelByChatID` names a column `config` that is
  `channel_config` (migrations/016). An accepted webhook is lost on a crash.
  `loadChannel` does not check `enabled`.
* *Status.* ONLINE and DEGRADED are broadcast even when the compare-and-swap wrote
  no row. The remote stale sweep's guard leaves out the hibernating states.
* *Approvals, requests.* No unique index keeps two callers from filing the same
  pending approval. A destructive operation that fails leaves its approval
  consumed. The hour key makes a failed nudge wait for the next hour.
* *Tokens.* When the answer of the first register is lost, the agent gets 401
  until its next restart. A control plane's 5xx is cached like a refusal.
* *Trees.* Two moves and a purge close a cycle. A row that came under a deleted
  workspace after its ids were collected hangs below a removed row; when the
  purge sets its `parent_id` to NULL (`workspace_crud.go:866`) it becomes a root,
  and of two moves below it one may have located and locked the root of before
  and the other that of after. Neither sees the other's write, so both pass the
  check for descendants. The comment at `workspace_reparent.go:436` takes the
  root's lock to serialise them. The root of an adopting org is not located again
  under the lock, unlike the source's; an adoption counts live children only.
* *Uploads, credentials.* An acknowledged row past its expiry can no longer be
  read although its retention runs. The refresher's write-back may overwrite a
  credential that was re-seeded while its POST was under way.

### Bounds

Every bound is a constant of the configuration, with the value the run uses.

* *Delegations.* One suffices because `SetStatus` and the sweeper treat rows
  independently; the races are between writers of one row, and two goroutines
  next to the sweeper give every pair and the triple that decides who replies.
  The feed has three rows, the least in which one is passed, one is late and one
  is between, with pages of two.
* *Queue.* One message with two rows is the least in which a re-queue meets its
  own row, and two drains the least that can claim together; `MaxAttempts` and
  `Capacity` of 1 or 2 reach each limit from both sides. The settling ceiling is
  longer than the back-off (2 ticks against 1), as in the code, so that a row is
  claimed again before it is past it. A run stops inserting at `MaxRows`; drains
  and the clock go on.
* *Restarts.* The crowds are the pairs and triples of kinds that meet at one
  flag: two mutations with a write, a mutation and a write with the owner, and
  two probes against a limit of one, which leave one to pass the door early.
* *Faults.* `Max…Faults` counts failed statements, failed calls and crashes; one
  shows every single point of failure. Where a module's actors are many, a
  behaviour has either its full cast or its faults, and the MC module's comment
  says which.
* *Trees.* Five nodes are two organisations with a chain of three, two movers the
  pair that can close a cycle. Two movers and a delete do not meet in one
  behaviour of the run; `CutLoose` says what was seen where they do. Memories have
  a parent and a child.
* *Watchdogs.* `MaxInbound` bounds the rows that others log against a hung agent.
  Each postpones the stall watchdog's verdict; what has no end, nothing promises
  to outlast.
* *Excused.* `NothingLost` excuses what a counted fault leaves behind: a row
  that stays dispatched for ever after a failed mark or a restart is so excused. The
  manual restart is not among the goroutines of `restarts_end`; it is in
  `restart_requests`.
* *Tokens, files.* Two boxes and two registers are a box and its successor; three
  tokens let one be replaced twice. Two file calls in flight of three in all let a
  third come between the two steps of another. `Retries` is 2 where the code has
  4: both are a loop that gives up.
* *Texts* have at most five characters with chunks of three: shorter than, equal
  to, and longer than a chunk, with a cut at a space and without.
* *Clocks* saturate just past the largest window they are compared with.

`CHECK_DEADLOCK FALSE` stands wherever a behaviour may have used up its calls and
rests.

### Fairness

* Ledger: weak fairness of each goroutine's own steps and of the sweeper, which
  a ticker starts and `supervised` restarts after a panic. Nothing is assumed of
  agents, callers, the flags or the process not restarting; that both flags are on
  is a premise of the one property that needs it.
* Queue: weak fairness of the steps of a drain that has begun, of the sweeper's
  tick where the server has a provisioner, and of the clock. Nothing is assumed
  of heartbeats or of the target; that it stays online is a premise of the
  property.
* Restarts: strong fairness of each goroutine's steps. It matters only at the
  gate, where a waiter's step is enabled and disabled by others; Go's
  `sync.Mutex` hands over to a waiter that has starved for a millisecond, so a
  waiter that is enabled again and again does get it. The property is about
  requests already made, of which a run has finitely many.
* Elsewhere: weak fairness of the steps of a call that has begun and of every
  background pass that a ticker starts, and of the passing of time. Two passes
  have strong fairness (`StallSelects`, `IntentsAge`): the ticker comes round
  again and again while beats or a running greeter disable its step. So does
  `BoxRestarts`, a requested restart, which waits for the lock of the plugin's
  directory. Nothing is assumed of users, agents, or calls that have not begun.

## 5. Proofs

All theorems hold for every value of the constants under the `ASSUME` of the
module concerned. They are about the components' own specifications; a run of a
composed module checks the same property on one instance.

* `DelegationLedgerProofs`: `Inv == TypeOK /\ Core`. `LicenceIsExclusive` is not
  inductive alone: `WriterOK` says what each program counter implies of the
  goroutine's record (which status it read, that it holds `Mine` only after a
  won terminal compare-and-swap), and `RepliesOK` ties the recorded replies to
  the licences. From `Inv` follow type correctness, `ReplyMineIsExclusive`,
  `ReplyIsTrue`, the conjunction of the three `RepliesHold`, `DoubleReplyNeedsUnarbitrated`,
  `StatusMovesForward` and the refinement `ImplementsSingleReply`. Behind all of
  them is one fact: the compare-and-swap succeeds only from the status read, and
  no transition leaves a terminal status.
* `A2AQueueProofs`: `Inv` joins typing, `HoldsWhileWorking` (a drain past its
  claim has a dispatched row), `InsertedInOrder` (only absent rows lie past the
  last insert), `ClaimIsExclusive` and `AttemptsCountFailures`; `KeysInv` adds
  the keys. Results: `OneDrainPerRow`, `AttemptsAreFailures`,
  `DropWaitsForCeiling`, `KeyIsUnique`. `NoMessageIsLost`
  adds `KeptInv`: a message that was accepted, or ever had a row, is delivered,
  swallowed, or kept by a row that is neither completed nor in the hands of a
  drain whose next statement completes it; and `HeldUnlessFault`: a claimed row
  without a drain means that a fault or a restart was counted. The types need both (a row
  in a drain's hands carries a message): with them `QueueSendsOneOfEach`.
* `WorkspaceRestartProofs`: `Control` says which labels each kind of goroutine
  visits, that the gate is held by exactly the goroutine between its lock and
  its unlock, and that `running` is set exactly while one coalescer is in the
  loop. It gives `RunnerIsAlone`, `BootsDoNotOverlap` and, with the types, which
  need nothing beyond themselves, `RestartsDoNotOverlap`.
  `BreakerInv` adds that an automatic cycle which passed the check under the
  gate and is not counted yet leaves room for itself; with `Control` nobody else
  can count in between, so `LimitPerWindow` follows, although any number of
  probes may have passed the door. `WritesReachTheBox` follows each write
  (`LandInv`): it is excused, in the container, before the debounce, riding on
  the pending flag, or served by a cycle that has not started its container yet;
  and whoever is about to start one was given every write that the present
  container has, because the gate lets nobody start in between.
* `MessagesProofs`, `Approvals`: the consuming UPDATE makes a caller the only owner of a row
  (`Ownership`), so what a row was spent on can be read off it (`Spending`).
  The bound on pending rows needs a count: pending rows and callers about to
  file are together no more than the callers (`FilingBound`, by the theorems on
  cardinality). With that `ApprovalsSpentOnce`.
  `WorkspaceFiles`: `EditInv` follows each edit to the restart that loads it,
  the one that is due, or the fault that dropped the request; `StampInv` keeps two fires
  a window apart; `ReadInv` says what a read in flight has seen of the file.
  `SecretInv` gives every value of the shared secret, in the row, in the cache, in
  a call or in the container, the time since when it was current. `FilesDoArrive`
  follows; its bound is the cache's time to live and two calls, because a slow
  read may fill the cache with the value of before a mint just as the
  container's beat starts.
* `LifecycleProofs`, `StartDelete`: a start is in `inflight` from its first Docker call to its
  last (`InflightIsTracked`). Without a failed call or a revived row, the second
  cancellation leaves no start past its check uncancelled (`AllCancelled`), so
  whatever Docker holds after the teardown belongs to a start on its way to
  discard it (`LeftIsDiscarded`). `DeleteLeavesNothing` follows; `TeardownsAreJust`
  needs `TeardownWhenDead` and, for the stale-token pass, `JudgedInv`.
  `Registration`: `TokenInv` says that what anybody holds was minted, that a
  register comes from a box that was started (`CallersStarted`), that the gate
  lets one provision at a time be under way (`GateSerial`), that the last one to
  revoke has a live token at each of its steps (`LatestKeeps`), or on SaaS mints
  one by its register (`BoxMints`), and that no replaced box is given one
  (`ReplacedStaysOut`), each without failed calls and, where it matters, crossed
  registers. `VerdictInv` bounds the age of the cached verdict and of the checks
  under way. With both `AccessStaysCurrent`.
  `CPInstances`: an id is on file only when its provision is over
  (`FiledIsDone`), what the reconciler saw of its candidate stays true while the id
  is on file (`CandidateInv`), one provision at a time runs, on the cloud on file
  (`BootsInv`), and a move that met nobody stops what is on file before it writes
  (`SwitchInv`). As long as no call failed and nothing met, a provision past its
  stop stands over an idle instance, so no id of a running one is replaced
  (`LateInv`). With these the safety part of `MachinesAreAccounted`,
  `MachinesStayAccounted`.
* `PlatformProofs`, `ProvisionEnv`: the first three promises of `CredentialsAreRight` are
  lemmas about the function `Route`, for any registry whose token keys are
  disjoint from the operator's and the administrator's. That a container runs
  with what is on file needs `LaunchIsCurrent` and `BoxIsCurrent`: what a
  provision has read so far is what is on file, unless a restart is owed, was
  left out, or is about to be requested by a write under way.
  `MessageDispatch`: `Carries(s)` says what has become of a send at each label
  (past the ingest its row is on file or counted as unsaved, an answer of "queued" has a
  row behind it), `LogsFollow` that a pending log belongs to a send that ended,
  and `RowsAreFew` that the rows without a key and the sends that may still add
  one are no more than the sends. With that `MessagesStayKept`.
* `OrgProofs`, `ConciergeRoot`: `OrgInv` says that an install past its upsert is alone and
  has seen every platform row there is (`WriterInv`), so that at most one row is
  the platform's when it commits, and that the token's anchor is a root
  (`RowsInv`). `AgentInv` says that the row being provisioned has no box, that
  its key is live once minted, and that a pick made since the model was read is
  remembered. `ConciergeStaysKept` follows.
  `WorkspaceTree`: `Above(up, n)`, the least set closed under parents, is what the
  proofs reason with; that the walk of the recursive queries, which is bounded by
  the number of rows, finds all of it is proved by counting what it has passed
  (`ChainIsAbove`), and what a move, a cut and a create do to it are lemmas about
  any forest. `TreeInv` then follows each move through its checks: a row that is
  not a stray of a purge under way (`Steady`) has, from the recheck on, the root that was
  read, and that root is locked (`CheckedInv`); a move that may commit does not put its row
  above itself (`CommitInv`). Another's commit could break that only where the target of
  each hangs below the row of the other. Then the two moves have locked one root,
  which no two can; or both adopt, and what lies between them was collected by one
  delete, so that all of it had one root (`OneTree`). That a live token's row is
  there needs its foreign key (`AnchorInv`). Together `TreeStaysSound`, and from the same
  invariant the action property in `MovesStayJust`.
* `ChannelProofs`, `ChannelPollers`: `Reload` may install an old set of rows, so "the pollers
  are the rows" is no invariant. While no call is about to reload, a swap that
  was not overtaken carries exactly the rows (`SwapIsFresh`), and unless a swap
  is outstanding the pollers already are the rows (`SettledOrSwap`). With that
  `PollersAreRight`.
  `ChannelMessages`: `EntryInv` keeps one way in open at a time; by `LoopInv` at
  most one poller lives, it alone moves the service's offset, and its batch is
  what lies behind that; `TriedInv` says that whatever a live poller has behind
  it was tried or is in its hands; `OnceInv` that an event which is not offered
  again has at most one call that will still ask the agent, and none once it was asked;
  `QuietInv` that a row which went off has no late post, counting the replies
  against the turns; `BudgetInv` that the posts counted and those past the check
  exceed the budget by no more than the sends that raced. Two of them compare
  cardinalities of sets of calls. That splitting keeps the text is a
  statement about recursive functions on sequences: `Words` and the three
  splitters are taken apart by well-founded induction on the length, with the lemmas on
  `FlattenSeq` the library lacks. Together `ChatsStayServed`.
  `InboxFeed`: sequence numbers are given once (`NumbersAreOnce`); what was handled, and
  what the cursor and the acknowledgement name, is a written row (`SeenIsWritten`);
  a walk through the pages has shown what is still there, or has it before it, or
  the row's stamp is one at which a page was cut (`WalkInv`). A page is turned
  around run by run: that the runs are those of one stamp, so that an answer stays
  behind its message, is proved by induction on the prefix turned so far.
  Together `FeedStaysComplete`.
* `A2AQueueProofs`, `Memories`: `StoreInv` says what a call in flight carries (a call that
  writes has one namespace, and unless that is a team's it is its caller's), that
  a cleared workspace has neither a row nor a writing call left, and that the
  client never counts more failures than there were. `KeyInv` says that what a
  writer read is the value of the version it remembers, until the row is
  deleted under it. With both `MemoriesHold`.

Induction over data is possible where a recursive definition is a function: the
set of counterexamples, if it is not empty, has a least element
(`WellFoundedInduction`, in its form for sets), and one unfolding of the function
refutes that. It is out of reach for `RECURSIVE` operators and `SelectSeq`.

Only model-checked:

* every liveness property, and the conjunctions with a temporal part: the prover
  has neither fairness nor `ENABLED`. Of the invariants and action properties in
  such conjunctions those of `MachinesAreAccounted` are proved; those of
  `TunnelsAreShared`, `GateHolds` and the like are not.

## 6. Not modelled

`PROJECT.json` names every component left out and why. Within the modelled
parts: message bodies, previews, logs and activity rows are reduced to what a
property tells apart; validation that rejects before any state changes is left
out where no property is about it; backend selection (Docker or control plane)
only changes which call fails, except in `WorkspaceFiles` and `PluginDelivery`,
where it decides where files go; the status write of a halted breaker is taken
to succeed; the subtree forms of pause and resume repeat the single form per
workspace. In the files run the mirror and the machine are under `/configs` only,
and a call for the inbound secret fails on a machine only.
