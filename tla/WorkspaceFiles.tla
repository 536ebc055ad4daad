--------------------------- MODULE WorkspaceFiles ---------------------------
(***************************************************************************)
(* The files of one workspace.  The files API lists, reads, writes,        *)
(* replaces and deletes them in a running container, in the config volume  *)
(* of a stopped one, in the host's mirror of a workspace whose engine is   *)
(* out of reach, or through a tunnel to a machine; a write asks for a      *)
(* restart unless one was asked for a moment ago                           *)
(* (maybeRestartAfterFileWrite).  Files of the chat are forwarded to the   *)
(* agent under a shared secret, which the platform mints, heals, caches    *)
(* and hands out with every heartbeat.  The agent, its engine and its      *)
(* machine are external; the restart itself is WorkspaceRestart.           *)
(***************************************************************************)
EXTENDS Naturals, FiniteSets

CONSTANTS
    FileCalls,      \* calls of the files API in flight
    Config, Note,   \* config.yaml and another file
    Window,         \* fileWriteRestartDebounceWindow
    Retries,        \* of the compare-and-swap loop
    MaxFileCalls,   \* bound: calls of the files API
    MaxFileFaults,  \* bound: calls that fail, containers that stop by themselves
    SecretCalls,    \* calls that need the shared secret
    CacheTTL,       \* inboundSecretCacheTTL
    CallTime,       \* the time a call that needs the secret takes at most
    MaxSecrets,     \* bound: secrets minted
    MaxClock        \* bound of the clock

ASSUME FilesAssumption ==
    /\ Window \in Nat /\ Retries \in Nat /\ CacheTTL \in Nat \ {0} /\ CallTime \in Nat
    /\ MaxFileCalls \in Nat /\ MaxFileFaults \in Nat /\ MaxSecrets \in Nat /\ MaxClock \in Nat \ {0}
    /\ Config # Note

FileSet == {Config, Note}
Roots == {"/configs", "/workspace"}
Contents == 0..(MaxFileCalls + 1)   \* 0 is no file, 1 what the template ships
Shipped == 1

VARIABLES
    place,          \* where the files are: "docker", "mirror", "machine"
    boxUp,          \* the agent runs
    disk,           \* the files
    loaded,         \* the files of /configs as the agent read them when it started
    lastFire,       \* fileWriteRestartLastFireAt
    fires,          \* history: the stamps under which restarts were asked for
    due,            \* a restart was asked for and has not begun
    unserved,       \* history: files changed with no restart to come
    calls,          \* calls begun; each writes a content of its own
    fcall,          \* the calls of the files API
    fileFaults,
    clock,
    secretRow,      \* workspaces.platform_inbound_secret
    secretCache,    \* inboundSecretCache
    secretHeld,     \* the agent's .platform_inbound_secret
    minted,
    changedAt, beatAt,  \* history: the last write of the row; the begin of the last heartbeat that ended
    scall           \* the calls that need the secret

fileVars == <<place, boxUp, disk, loaded, lastFire, fires, due, unserved, calls, fcall, fileFaults>>
secretVars == <<secretRow, secretCache, secretHeld, minted, changedAt, beatAt, scall>>
filesVars == <<fileVars, secretVars, clock>>

FilePCs == {"idle", "find", "box", "probe", "fill", "volume", "tunnel", "shelf", "stamp", "load",
            "swap", "answered"}
FileIdle == [pc |-> "idle", op |-> "read", root |-> "/configs", files |-> {}, new |-> 0, now |-> 0,
             last |-> 0, tries |-> 0, live |-> TRUE, seen |-> {}]
SecretPCs == {"idle", "cache", "row", "fill", "mint", "store", "use"}
SecretIdle == [pc |-> "idle", kind |-> "beat", val |-> 0, began |-> 0]

FilesTypeOK ==
    /\ place \in {"docker", "mirror", "machine"} /\ boxUp \in BOOLEAN
    /\ disk \in [Roots -> [FileSet -> Contents]]
    /\ loaded \in [FileSet -> Contents]
    /\ lastFire \in 0..MaxClock /\ fires \subseteq 0..MaxClock
    /\ due \in BOOLEAN /\ unserved \in BOOLEAN
    /\ calls \in 0..MaxFileCalls /\ fileFaults \in 0..MaxFileFaults /\ clock \in 1..MaxClock
    /\ fcall \in [FileCalls -> [pc : FilePCs, op : {"read", "write", "replace", "delete"},
                                root : Roots, files : SUBSET FileSet, new : Contents,
                                now : 0..MaxClock, last : 0..MaxClock, tries : 0..Retries,
                                live : BOOLEAN, seen : SUBSET Contents]]
    /\ secretRow \in 0..MaxSecrets /\ secretHeld \in 0..MaxSecrets /\ minted \in 0..MaxSecrets
    /\ secretCache \in [val : 0..MaxSecrets, until : 0..(MaxClock + CacheTTL)]
    /\ changedAt \in 0..MaxClock /\ beatAt \in 0..MaxClock
    /\ scall \in [SecretCalls -> [pc : SecretPCs, kind : {"mint", "beat", "forward"},
                                  val : 0..MaxSecrets, began : 0..MaxClock]]

FilesInit ==
    /\ place \in {"docker", "mirror", "machine"} /\ boxUp = TRUE
    /\ disk = [r \in Roots |-> [f \in FileSet |-> IF r = "/configs" /\ f = Config THEN Shipped ELSE 0]]
    /\ loaded = disk["/configs"]
    /\ lastFire = 0 /\ fires = {} /\ due = FALSE /\ unserved = FALSE /\ calls = 0
    /\ fcall = [c \in FileCalls |-> FileIdle]
    /\ fileFaults = 0 /\ clock = 1
    /\ secretRow = 0 /\ secretHeld = 0 /\ minted = 0
    /\ secretCache = [val |-> 0, until |-> 0]
    /\ changedAt = 0 /\ beatAt = 0
    /\ scall = [s \in SecretCalls |-> SecretIdle]

FileFault == fileFaults < MaxFileFaults /\ fileFaults' = fileFaults + 1
FileFine == UNCHANGED fileFaults

-----------------------------------------------------------------------------
(* The files API.                                                          *)

FileGoto(c, from, to) == fcall[c].pc = from /\ fcall' = [fcall EXCEPT ![c].pc = to]
FileEnds(c) == fcall' = [fcall EXCEPT ![c] = FileIdle]
RestartKeeps == <<lastFire, fires, due, clock, secretVars>>

\* What a change of the files does to the reads under way.
Put(root, files, content) ==
    disk' = [disk EXCEPT ![root] = [f \in FileSet |-> IF f \in files THEN content ELSE disk[root][f]]]
Noted(fc, was) ==
    [c \in FileCalls |-> IF fc[c].pc \in {"find", "box", "shelf", "tunnel"} /\ fc[c].op = "read"
                           THEN [fc[c] EXCEPT !.seen = @ \cup {was[fc[c].root][f] : f \in fc[c].files}]
                           ELSE fc[c]]

\* A replacement is one of /configs; the others name their root and one file.
FileCallBegins(c, op, root, files) ==
    /\ calls < MaxFileCalls /\ calls' = calls + 1
    /\ fcall[c].pc \in {"idle", "answered"}
    /\ c = CHOOSE q \in FileCalls : fcall[q].pc \in {"idle", "answered"}
    /\ op = "replace" => root = "/configs"
    /\ op # "replace" => Cardinality(files) = 1
    /\ files # {}
    /\ fcall' = [fcall EXCEPT ![c] = [FileIdle EXCEPT !.pc = "find", !.op = op, !.root = root,
                     !.files = files, !.live = boxUp, !.new = IF op \in {"write", "replace"} THEN calls + 2 ELSE 0,
                     !.seen = IF op = "read" THEN {disk[root][f] : f \in files} ELSE {}]]
    /\ UNCHANGED <<place, boxUp, disk, loaded, unserved, fileFaults, RestartKeeps>>

\* isEC2InstanceID, then findContainer: a running container or none.
FindContainer(c) ==
    /\ fcall[c].pc = "find"
    /\ FileGoto(c, "find", IF place = "machine" THEN "tunnel"
                           ELSE IF place = "docker" /\ boxUp THEN "box"
                           ELSE IF fcall[c].op = "read" THEN "shelf" ELSE "volume")
    /\ UNCHANGED <<place, boxUp, disk, loaded, unserved, calls, fileFaults, RestartKeeps>>

\* Writes and deletes in the container are done under /configs, whatever the root.
Target(c) == IF place = "machine" THEN fcall[c].root ELSE "/configs"

\* copyFilesToContainer puts one archive; an exec (a delete) needs the container
\* to run.  A replacement that brings no config.yaml looks for one.
BoxWrites(c) ==
    /\ fcall[c].pc = "box" /\ fcall[c].op # "read"
    /\ \/ /\ FileFine /\ (fcall[c].op = "delete" => boxUp)
          /\ Put(Target(c), fcall[c].files, fcall[c].new)
          /\ fcall' = [Noted(fcall, disk') EXCEPT ![c].pc =
                          IF fcall[c].op = "replace" /\ Config \notin fcall[c].files
                            THEN "probe" ELSE "stamp"]
       \/ FileFine /\ fcall[c].op = "delete" /\ ~boxUp /\ FileEnds(c) /\ UNCHANGED disk
       \/ FileFault /\ FileEnds(c) /\ UNCHANGED disk
    /\ UNCHANGED <<place, boxUp, loaded, unserved, calls, RestartKeeps>>

\* A probe that fails leaves the file alone.
ConfigProbe(c) ==
    /\ FileGoto(c, "probe", IF boxUp /\ disk["/configs"][Config] = 0 THEN "fill" ELSE "stamp")
    /\ UNCHANGED <<place, boxUp, disk, loaded, unserved, calls, fileFaults, RestartKeeps>>

generateDefaultConfig(c) ==
    /\ fcall[c].pc = "fill"
    /\ \/ FileFine /\ Put("/configs", {Config}, Shipped)
          /\ fcall' = [Noted(fcall, disk') EXCEPT ![c].pc = "stamp"]
       \/ FileFault /\ UNCHANGED disk /\ FileGoto(c, "fill", "stamp")
    /\ UNCHANGED <<place, boxUp, loaded, unserved, calls, RestartKeeps>>

\* The volume of a stopped container, by way of a helper, in one archive.
writeViaEphemeral(c) ==
    /\ fcall[c].pc = "volume" /\ place = "docker"
    /\ \/ FileFine /\ Put("/configs", fcall[c].files, fcall[c].new)
          /\ fcall' = [Noted(fcall, disk') EXCEPT ![c].pc = "stamp"]
       \/ FileFault /\ UNCHANGED disk /\ FileEnds(c)
    /\ UNCHANGED <<place, boxUp, loaded, unserved, calls, RestartKeeps>>

\* The host's mirror, or a machine: file by file.  One that fails ends the call
\* with those before it written; an answer lost by the tunnel, with its own too.
FileByFile(c, pc) ==
    /\ fcall[c].pc = pc /\ fcall[c].op # "read"
    /\ \E f \in fcall[c].files :
          \/ /\ FileFine /\ Put(Target(c), {f}, fcall[c].new)
             /\ fcall' = [Noted(fcall, disk') EXCEPT
                            ![c].files = @ \ {f},
                            ![c].pc = IF fcall[c].files = {f} THEN "stamp" ELSE pc]
             /\ UNCHANGED unserved
          \/ /\ FileFault /\ unserved' = TRUE
             /\ UNCHANGED disk /\ FileEnds(c)
          \/ /\ FileFault /\ unserved' = TRUE
             /\ pc = "tunnel" /\ Put(Target(c), {f}, fcall[c].new)
             /\ fcall' = [Noted(fcall, disk') EXCEPT ![c] = FileIdle]
    /\ UNCHANGED <<place, boxUp, loaded, calls, RestartKeeps>>

writeFilesLocal(c) == place = "mirror" /\ FileByFile(c, "volume")
writeFileViaEIC(c) == FileByFile(c, "tunnel")

\* Reads: the container, else the mirror for /configs, else the template that has
\* the workspace's name.
Answers(c, what) ==
    fcall' = [fcall EXCEPT ![c] = [FileIdle EXCEPT !.pc = "answered", !.new = what,
                                                  !.live = @ /\ fcall[c].live, !.seen = fcall[c].seen]]

BoxReads(c) ==
    /\ fcall[c].pc = "box" /\ fcall[c].op = "read"
    /\ \E f \in fcall[c].files :
          LET there == disk[fcall[c].root][f] IN
          \/ FileFine /\ boxUp /\ there # 0 /\ Answers(c, there)
          \/ FileFine /\ (~boxUp \/ there = 0) /\ FileGoto(c, "box", "shelf")
          \/ FileFault /\ fcall' = [fcall EXCEPT ![c].pc = "shelf", ![c].live = FALSE]
    /\ UNCHANGED <<place, boxUp, disk, loaded, unserved, calls, RestartKeeps>>

ShelfReads(c) ==
    /\ fcall[c].pc = "shelf"
    /\ \E f \in fcall[c].files :
          Answers(c, IF place = "mirror" /\ fcall[c].root = "/configs" THEN disk["/configs"][f]
                     ELSE IF f = Config THEN Shipped ELSE 0)
    /\ UNCHANGED <<place, boxUp, disk, loaded, unserved, calls, fileFaults, RestartKeeps>>

readFileViaEIC(c) ==
    /\ fcall[c].pc = "tunnel" /\ fcall[c].op = "read"
    /\ \/ FileFine /\ \E f \in fcall[c].files : Answers(c, disk[fcall[c].root][f])
       \/ FileFault /\ FileEnds(c)
    /\ UNCHANGED <<place, boxUp, disk, loaded, unserved, calls, RestartKeeps>>

\* maybeRestartAfterFileWrite, after the answer: now is read once, and then
\* compared with the stamp until the stamp can be replaced.
DebounceReadsClock(c) ==
    /\ fcall[c].pc = "stamp"
    /\ fcall' = [fcall EXCEPT ![c].pc = "load", ![c].now = clock]
    /\ UNCHANGED <<place, boxUp, disk, loaded, unserved, calls, fileFaults, RestartKeeps>>

WithinWindow(now, last) == last # 0 /\ now < last + Window

DebounceLoads(c) ==
    /\ fcall[c].pc = "load"
    /\ IF WithinWindow(fcall[c].now, lastFire)
         THEN FileEnds(c) /\ unserved' = TRUE
         ELSE fcall' = [fcall EXCEPT ![c].pc = "swap", ![c].last = lastFire] /\ UNCHANGED unserved
    /\ UNCHANGED <<place, boxUp, disk, loaded, calls, fileFaults, RestartKeeps>>

\* Mutant of DebounceSwaps: the stamp is stored without comparing.
DebounceStores(c) ==
    /\ fcall[c].pc = "swap" /\ lastFire' = fcall[c].now
    /\ due' = TRUE /\ FileEnds(c) /\ fires' = fires \cup {fcall[c].now}
    /\ UNCHANGED <<place, boxUp, disk, loaded, unserved, calls, fileFaults, clock, secretVars>>

DebounceSwaps(c) ==
    /\ fcall[c].pc = "swap"
    /\ \/ /\ lastFire = fcall[c].last /\ lastFire' = fcall[c].now
          /\ due' = TRUE /\ FileEnds(c) /\ fires' = fires \cup {fcall[c].now}
       \/ /\ lastFire # fcall[c].last /\ fcall[c].tries + 1 < Retries
          /\ fcall' = [fcall EXCEPT ![c].pc = "load", ![c].tries = @ + 1]
          /\ UNCHANGED <<lastFire, due, fires>>
       \/ /\ lastFire # fcall[c].last /\ fcall[c].tries + 1 = Retries
          /\ due' = TRUE /\ FileEnds(c) /\ UNCHANGED <<lastFire, fires>>
    /\ UNCHANGED <<place, boxUp, disk, loaded, unserved, calls, fileFaults, clock, secretVars>>

\* RestartByID stops the agent and starts another, which reads the files.
AgentStops ==
    /\ boxUp /\ boxUp' = FALSE
    /\ \/ due /\ due' = FALSE /\ FileFine
       \/ FileFault /\ UNCHANGED due
    /\ fcall' = [c \in FileCalls |-> [fcall[c] EXCEPT !.live = @ /\ fcall[c].pc \in {"idle", "answered"}]]
    /\ UNCHANGED <<place, disk, loaded, lastFire, fires, unserved, calls, clock, secretVars>>

AgentLoads ==
    /\ ~boxUp /\ boxUp' = TRUE
    /\ loaded' = disk["/configs"] /\ unserved' = FALSE
    /\ UNCHANGED <<place, disk, calls, fcall, fileFaults, RestartKeeps>>

FileCallMoves(c) ==
    \/ FindContainer(c) \/ BoxWrites(c) \/ ConfigProbe(c) \/ generateDefaultConfig(c)
    \/ writeViaEphemeral(c) \/ writeFilesLocal(c) \/ writeFileViaEIC(c)
    \/ BoxReads(c) \/ ShelfReads(c) \/ readFileViaEIC(c)
    \/ DebounceReadsClock(c) \/ DebounceLoads(c) \/ DebounceSwaps(c)

-----------------------------------------------------------------------------
(* The shared secret.                                                      *)

CacheIsFresh == secretCache.until > clock
CacheOf(v) == [val |-> v, until |-> clock + CacheTTL]
SecretGoto(s, from, to) == scall[s].pc = from /\ scall' = [scall EXCEPT ![s].pc = to]
SecretEnds(s) == scall' = [scall EXCEPT ![s] = SecretIdle]

\* A provision mints; a heartbeat or a register hands out; a file is forwarded.
SecretCallBegins(s, k) ==
    /\ scall[s].pc = "idle" /\ s = CHOOSE q \in SecretCalls : scall[q].pc = "idle"
    /\ scall' = [scall EXCEPT ![s] = [SecretIdle EXCEPT !.kind = k, !.began = clock,
                                       !.pc = IF k = "mint" THEN "mint" ELSE "cache"]]
    /\ UNCHANGED <<secretRow, secretCache, secretHeld, minted, changedAt, beatAt, clock, fileVars>>

\* ReadPlatformInboundSecret: the cache, the row, the cache.
CacheReads(s) ==
    /\ scall[s].pc = "cache"
    /\ scall' = [scall EXCEPT ![s].pc = IF CacheIsFresh THEN "use" ELSE "row",
                              ![s].val = IF CacheIsFresh THEN secretCache.val ELSE 0]
    /\ UNCHANGED <<secretRow, secretCache, secretHeld, minted, changedAt, beatAt, clock, fileVars>>

\* readOrLazyHealInboundSecret mints when the row has none; an error is an answer
\* without a secret.
RowReads(s) ==
    /\ scall[s].pc = "row"
    /\ \/ /\ FileFine
          /\ scall' = [scall EXCEPT ![s].pc = IF secretRow = 0 THEN "mint" ELSE "fill",
                                    ![s].val = secretRow]
       \/ FileFault /\ SecretEnds(s)
    /\ UNCHANGED <<secretRow, secretCache, secretHeld, minted, changedAt, beatAt, clock, place, boxUp,
                   disk, loaded, lastFire, fires, due, unserved, calls, fcall>>

\* IssuePlatformInboundSecret: the row, the cache.
RowMints(s) ==
    /\ scall[s].pc = "mint"
    /\ \/ /\ FileFine /\ minted < MaxSecrets /\ minted' = minted + 1
          /\ secretRow' = minted' /\ changedAt' = clock
          /\ scall' = [scall EXCEPT ![s].pc = "fill", ![s].val = minted']
       \/ FileFault /\ SecretEnds(s) /\ UNCHANGED <<minted, secretRow, changedAt>>
    /\ UNCHANGED <<secretCache, secretHeld, beatAt, clock, place, boxUp, disk, loaded, lastFire, fires,
                   due, unserved, calls, fcall>>

CacheFills(s) ==
    /\ SecretGoto(s, "fill", "use")
    /\ secretCache' = CacheOf(scall[s].val)
    /\ UNCHANGED <<secretRow, secretHeld, minted, changedAt, beatAt, clock, fileVars>>

\* A mint reaches the volume, or on SaaS the next heartbeat; the answer of a
\* heartbeat may be lost.
SecretIsHandedOut(s) ==
    /\ scall[s].pc = "use" /\ scall[s].kind # "forward" /\ SecretEnds(s)
    /\ \/ /\ FileFine
          /\ secretHeld' = IF scall[s].kind = "mint" /\ place = "machine" THEN secretHeld ELSE scall[s].val
          /\ beatAt' = IF scall[s].kind = "beat" /\ scall[s].began > beatAt THEN scall[s].began ELSE beatAt
       \/ FileFault /\ UNCHANGED <<secretHeld, beatAt>>
    /\ UNCHANGED <<secretRow, secretCache, minted, changedAt, clock, place, boxUp, disk, loaded, lastFire,
                   fires, due, unserved, calls, fcall>>

\* resolveWorkspaceForwardCreds asks the caller back later when it has just minted.
ForwardWorks == secretHeld = IF CacheIsFresh THEN secretCache.val ELSE secretRow
ChatFileForwards(s) ==
    /\ scall[s].pc = "use" /\ scall[s].kind = "forward" /\ SecretEnds(s)
    /\ UNCHANGED <<secretRow, secretCache, secretHeld, minted, changedAt, beatAt, clock, fileVars>>
Upload(s) == ChatFileForwards(s)
Download(s) == ChatFileForwards(s)

\* A rotation by hand does not know the cache.
OperatorRotates ==
    /\ minted < MaxSecrets /\ minted' = minted + 1
    /\ secretRow' = minted' /\ changedAt' = clock
    /\ UNCHANGED <<secretCache, secretHeld, beatAt, scall, clock, fileVars>>

SecretCallStarts(kinds) == \E s \in SecretCalls, k \in kinds : SecretCallBegins(s, k)
SecretStep ==
    \/ \E s \in SecretCalls :
          \/ CacheReads(s) \/ RowReads(s) \/ RowMints(s) \/ CacheFills(s)
          \/ SecretIsHandedOut(s) \/ Upload(s) \/ Download(s)
    \/ OperatorRotates

ClockTicks ==
    /\ clock < MaxClock /\ clock' = clock + 1
    /\ \A s \in SecretCalls : scall[s].pc # "idle" => clock < scall[s].began + CallTime
    /\ UNCHANGED <<fileVars, secretVars>>

FileCallStarts(ops, roots, sets) ==
    \E c \in FileCalls, op \in ops, r \in roots, fs \in sets : FileCallBegins(c, op, r, fs)
FileStep == (\E c \in FileCalls : FileCallMoves(c)) \/ AgentStops \/ AgentLoads
FilesNext ==
    \/ FileCallStarts({"read", "write", "replace", "delete"}, Roots, SUBSET FileSet) \/ FileStep
    \/ SecretCallStarts({"mint", "beat", "forward"}) \/ SecretStep \/ ClockTicks
FilesSpec == FilesInit /\ [][FilesNext]_filesVars

-----------------------------------------------------------------------------
(* Properties.                                                             *)

\* Calls that have changed a file and have not asked for the restart yet.
Unasked == {c \in FileCalls : fcall[c].pc \in {"probe", "fill", "stamp", "load", "swap"}
                                \/ (fcall[c].pc \in {"volume", "tunnel"} /\ fcall[c].op = "replace")}

\* An agent that runs has read the files as they are, unless a call that will ask
\* for its restart is under way, was dropped for being too close to another, or
\* failed half way (maybeRestartAfterFileWrite).
EditsAreLoaded == boxUp /\ ~due /\ ~unserved /\ Unasked = {} => loaded = disk["/configs"]

\* However many calls race for the stamp, two restarts are a window apart.
FiresAreSpaced == \A a, b \in fires : a < b => b >= a + Window

\* A read of a running workspace answers with what the file was at some moment of
\* the read, or with the template's if it was missing then.
ReadsAreHonest ==
    \A c \in FileCalls : fcall[c].pc = "answered" /\ fcall[c].live /\ place # "mirror" =>
        fcall[c].new \in fcall[c].seen \/ (0 \in fcall[c].seen /\ fcall[c].new = Shipped)

\* The cache departs from the row for its time to live and one call at most, and
\* with every call at rest a heartbeat that began when that and one more call were
\* over has the agent and the platform agree (ReadPlatformInboundSecret, IssuePlatformInboundSecret).
StaleIsBounded ==
    CacheIsFresh /\ secretCache.val # secretRow => clock <= changedAt + CacheTTL + CallTime
SecretsMeet ==
    /\ \A s \in SecretCalls : scall[s].pc = "idle"
    /\ beatAt >= changedAt + CacheTTL + 2 * CallTime
    => ForwardWorks

\* What is written to a workspace reaches its agent and its readers, and files of
\* the chat are forwarded under a secret both sides know (WriteFile, ReplaceFiles,
\* DeleteFile, ReadFile, resolveWorkspaceForwardCreds).
FilesArrive ==
    FilesTypeOK /\ EditsAreLoaded /\ FiresAreSpaced /\ ReadsAreHonest /\ StaleIsBounded /\ SecretsMeet

(***************************************************************************)
(* Claims of the sources that the code does not keep.                      *)
(***************************************************************************)
\* template_import.go: the probe keeps a default from clobbering "the workspace's
\* real config"; one that is written between the probe and the copy is lost.
DefaultSparesConfig ==
    [][\A c \in FileCalls : fcall[c].pc = "fill" /\ fcall'[c].pc = "stamp"
          => disk["/configs"][Config] \in {0, disk'["/configs"][Config]}]_filesVars

\* templates.go: "list/read/write/delete agree on what file a tree row points to".
RootsAgree ==
    [][\A c \in FileCalls : fcall[c].op = "write" /\ fcall[c].pc = "box" /\ fcall'[c].pc = "stamp"
          => \A f \in fcall[c].files : disk'[fcall[c].root][f] = fcall[c].new]_filesVars

\* workspace_restart.go: a deliberate "edit, wait, edit again" restarts twice, so
\* that an agent at rest has read the last edit.
LastEditIsLoaded == boxUp /\ ~due /\ Unasked = {} /\ fileFaults = 0 => loaded = disk["/configs"]

\* platform_inbound.go: a mint "never sees a stale read of the value it just wrote".
CacheIsRow ==
    (\A s \in SecretCalls : scall[s].pc = "idle") /\ CacheIsFresh /\ fileFaults = 0
        => secretCache.val = secretRow

=============================================================================
