--------------------------- MODULE DesktopSidecar ---------------------------
(***************************************************************************)
(* The desktop sidecar of one workspace: it is scaled up by the first      *)
(* screenshot, input or viewer (desktopgateway/gateway.go), kept up by     *)
(* agent activity and by people who watch, and scaled to zero by the idle  *)
(* sweeper, which finds it by its lifecycle row only.  The display-control *)
(* lock decides whether the agent may drive.  Each database statement and  *)
(* each Docker call is a step of its own.                                  *)
(***************************************************************************)
EXTENDS Integers, FiniteSets

CONSTANTS
    DesktopCalls,      \* requests that may be in flight at once
    People,            \* callers who may take display control
    MaxDesktopFaults   \* bound on failed statements, restarts and exits

ASSUME DesktopAssumption ==
    {"none", "agent"} \intersect People = {} /\ MaxDesktopFaults \in Nat

VARIABLES
    holder,           \* controlled_by of the unexpired display-control lock
    sidecarUp,        \* the container runs
    listed,           \* workspace_desktop_lifecycle.state = 'running'
    recorded,         \* the gateway's recordedRunning
    watching,         \* calls the gateway's viewers map counts
    vnc,              \* vnc_connections
    warm,             \* agent activity or VNC input within idleTimeout
    dcall,            \* the requests in flight
    reaper,           \* where the idle sweeper is
    mishaps,          \* what a race or a fault left wrong (for the properties)
    desktopFaults

desktopVars == <<holder, sidecarUp, listed, recorded, watching, vnc, warm, dcall,
                 reaper, mishaps, desktopFaults>>

NoCall == [pc |-> "none", kind |-> "look", scaled |-> FALSE, n |-> 0, cut |-> FALSE,
           seen |-> FALSE]
DesktopCallStates ==
    [pc : {"none", "acquire", "inspect", "boot", "record", "note", "forward",
           "connect", "arriving", "watch", "leaving"},
     kind : {"look", "input", "view"}, scaled : BOOLEAN,
     n : 0..Cardinality(DesktopCalls),
     cut : BOOLEAN,    \* a person took control after this input was admitted
     seen : BOOLEAN]   \* this viewer watched when the sweeper last looked
Mirroring == {c \in DesktopCalls : dcall[c].pc \in {"arriving", "leaving"}}

DesktopTypeOK ==
    /\ holder \in {"none", "agent"} \union People
    /\ sidecarUp \in BOOLEAN /\ listed \in BOOLEAN /\ recorded \in BOOLEAN
    /\ watching \subseteq DesktopCalls /\ vnc \in 0..Cardinality(DesktopCalls)
    /\ warm \in BOOLEAN
    /\ dcall \in [DesktopCalls -> DesktopCallStates]
    /\ reaper \in {"idle", "check", "stop", "mark"}
    /\ mishaps \subseteq {"hidden", "miscount"}
    /\ desktopFaults \in 0..MaxDesktopFaults

DesktopInit ==
    /\ holder = "none"
    /\ sidecarUp = FALSE /\ listed = FALSE /\ recorded = FALSE
    /\ watching = {} /\ vnc = 0 /\ warm = FALSE
    /\ dcall = [c \in DesktopCalls |-> NoCall]
    /\ reaper = "idle" /\ mishaps = {} /\ desktopFaults = 0

DesktopFault(why) ==
    /\ desktopFaults < MaxDesktopFaults /\ desktopFaults' = desktopFaults + 1
    /\ mishaps' = mishaps \union why
NoMishap == UNCHANGED <<mishaps, desktopFaults>>

Goes(c, pc) == dcall' = [dcall EXCEPT ![c].pc = pc]
Ends(c) == dcall' = [dcall EXCEPT ![c] = NoCall]

-----------------------------------------------------------------------------
\* A request arrives: Screenshot and HumanNavigate ("look"), Input, or
\* DisplaySession, a person who opens the viewer ("view").
DesktopCallArrives(c) ==
    /\ dcall[c].pc = "none"
    /\ \E k \in {"look", "input", "view"} :
           dcall' = [dcall EXCEPT ![c] = [NoCall EXCEPT
                        !.pc = IF k = "input" THEN "acquire" ELSE "inspect", !.kind = k]]
    /\ UNCHANGED <<holder, sidecarUp, listed, recorded, watching, vnc, warm, reaper>>
    /\ NoMishap

HumanDrives == holder \in People

\* AcquireAgentControl: the agent's lease is granted or refreshed unless a
\* person holds an unexpired lock; then the input is refused.
AcquireAgentControl(c) ==
    /\ dcall[c].pc = "acquire"
    /\ \/ ~HumanDrives /\ holder' = "agent" /\ Goes(c, "inspect")
       \/ HumanDrives /\ Ends(c) /\ UNCHANGED holder
    /\ UNCHANGED <<sidecarUp, listed, recorded, watching, vnc, warm, reaper>> /\ NoMishap

\* The end of ensureRunning with an error: a viewer is connected anyway.
StartFails(c) ==
    IF dcall[c].kind = "view" THEN Goes(c, "connect") ELSE Ends(c)

\* StartDesktop's one inspect: a running container is returned as it is.
InspectDesktop(c) ==
    /\ dcall[c].pc = "inspect"
    /\ Goes(c, IF sidecarUp THEN "record" ELSE "boot")
    /\ UNCHANGED <<holder, sidecarUp, listed, recorded, watching, vnc, warm, reaper>>
    /\ NoMishap

\* StartDesktop from there: the network, the proxy, the container; it fails
\* before the container starts, or after it (the platform's attachment).
BootDesktop(c) ==
    /\ dcall[c].pc = "boot"
    /\ \/ /\ sidecarUp' = TRUE /\ NoMishap
          /\ dcall' = [dcall EXCEPT ![c].pc = "record", ![c].scaled = TRUE]
       \/ sidecarUp' = TRUE /\ DesktopFault({"hidden"}) /\ StartFails(c)
       \/ UNCHANGED sidecarUp /\ DesktopFault({}) /\ StartFails(c)
    /\ UNCHANGED <<holder, listed, recorded, watching, vnc, warm, reaper>>

AfterRecord(c) == IF dcall[c].kind = "view" THEN "connect" ELSE "note"

\* The end of ensureRunning: SetState 'running' if this call scaled the
\* desktop up or no write is known to have succeeded; best-effort.
RecordRunning(c) ==
    LET writes == dcall[c].scaled \/ ~recorded IN
    /\ dcall[c].pc = "record"
    /\ \/ ~writes /\ NoMishap /\ UNCHANGED <<listed, recorded>>
       \/ /\ writes /\ listed' = TRUE /\ recorded' = TRUE
          /\ mishaps' = mishaps \ {"hidden"} /\ UNCHANGED desktopFaults
       \/ writes /\ DesktopFault({"hidden"}) /\ UNCHANGED <<listed, recorded>>
    /\ dcall' = [dcall EXCEPT ![c].pc = AfterRecord(c), ![c].scaled = FALSE]
    /\ UNCHANGED <<holder, sidecarUp, watching, vnc, warm, reaper>>

\* recordActivity: best-effort.
RecordAgentActivity(c) ==
    /\ dcall[c].pc = "note"
    /\ \/ warm' = TRUE /\ NoMishap
       \/ UNCHANGED warm /\ DesktopFault({})
    /\ Goes(c, "forward")
    /\ UNCHANGED <<holder, sidecarUp, listed, recorded, watching, vnc, reaper>>

\* The request is sent to the sidecar, which takes it if it runs.
ForwardToSidecar(c) ==
    /\ dcall[c].pc = "forward" /\ Ends(c)
    /\ UNCHANGED <<holder, sidecarUp, listed, recorded, watching, vnc, warm, reaper>>
    /\ NoMishap

\* A count that is about to be written while another is, may land second.
CrossedWrites ==
    /\ mishaps' = IF Mirroring = {} THEN mishaps ELSE mishaps \union {"miscount"}
    /\ UNCHANGED desktopFaults

\* ViewerConnected: the count under the mutex, to be mirrored without it.
ViewerConnected(c) ==
    /\ dcall[c].pc = "connect"
    /\ watching' = watching \union {c}
    /\ dcall' = [dcall EXCEPT ![c].pc = "arriving", ![c].n = Cardinality(watching')]
    /\ CrossedWrites
    /\ UNCHANGED <<holder, sidecarUp, listed, recorded, vnc, warm, reaper>>

\* ViewerDisconnected, when the websocket has closed.
ViewerDisconnected(c) ==
    /\ dcall[c].pc = "watch"
    /\ watching' = watching \ {c}
    /\ dcall' = [dcall EXCEPT ![c].pc = "leaving", ![c].n = Cardinality(watching'),
                              ![c].seen = FALSE]
    /\ CrossedWrites
    /\ UNCHANGED <<holder, sidecarUp, listed, recorded, vnc, warm, reaper>>

\* mirrorViewers: SetVNCPresence writes the count it was given and the time of
\* a VNC input; best-effort.
mirrorViewers(c) ==
    /\ dcall[c].pc \in {"arriving", "leaving"}
    /\ \/ vnc' = dcall[c].n /\ warm' = TRUE /\ NoMishap
       \/ UNCHANGED <<vnc, warm>> /\ DesktopFault({"miscount"})
    /\ IF dcall[c].pc = "leaving" THEN Ends(c)
       ELSE dcall' = [dcall EXCEPT ![c].pc = "watch", ![c].n = 0]
    /\ UNCHANGED <<holder, sidecarUp, listed, recorded, watching, reaper>>

DesktopCallStep(c) ==
    \/ AcquireAgentControl(c) \/ InspectDesktop(c) \/ BootDesktop(c) \/ RecordRunning(c)
    \/ RecordAgentActivity(c) \/ ForwardToSidecar(c)
    \/ ViewerConnected(c) \/ mirrorViewers(c)

-----------------------------------------------------------------------------
\* AcquireDisplayControl: a person takes a free or expired lock, refreshes the
\* own one, or preempts the agent, whose admitted inputs are cut (remembered
\* for the properties).
AcquireDisplayControl(p) ==
    /\ holder \in {"none", "agent", p}
    /\ holder' = p
    /\ dcall' = [c \in DesktopCalls |->
                   [dcall[c] EXCEPT !.cut = @ \/ (dcall[c].kind = "input"
                                                  /\ dcall[c].pc # "acquire")]]
    /\ UNCHANGED <<sidecarUp, listed, recorded, watching, vnc, warm, reaper>> /\ NoMishap

\* ReleaseDisplayControl: the caller's own lock, or any lock by force.
ReleaseDisplayControl(p) ==
    /\ holder # "none"
    /\ \E force \in BOOLEAN : force \/ holder = p
    /\ holder' = "none"
    /\ UNCHANGED <<sidecarUp, listed, recorded, watching, vnc, warm, dcall, reaper>>
    /\ NoMishap

\* expires_at passes: every statement treats the row as absent from then on.
LockLapses ==
    /\ holder # "none" /\ holder' = "none"
    /\ UNCHANGED <<sidecarUp, listed, recorded, watching, vnc, warm, dcall, reaper>>
    /\ NoMishap

\* idleTimeout passes since the last activity and the last VNC input.
ActivityAges ==
    /\ warm /\ warm' = FALSE
    /\ UNCHANGED <<holder, sidecarUp, listed, recorded, watching, vnc, dcall, reaper>>
    /\ NoMishap

-----------------------------------------------------------------------------
\* Sweep: the rows in state 'running'.
ReaperLists ==
    /\ reaper = "idle" /\ listed /\ reaper' = "check"
    /\ UNCHANGED <<holder, sidecarUp, listed, recorded, watching, vnc, warm, dcall>>
    /\ NoMishap

IdleUnlessHeld == vnc = 0 /\ ~warm /\ holder = "none"

\* DesktopIsIdle: no viewer and every activity older than idleTimeout.
DesktopIsIdle == vnc = 0 /\ ~warm

\* Sweep: the activity is loaded again and judged; a failed read keeps the
\* desktop.  Who watches now is remembered for the properties.
ReaperChecks ==
    /\ reaper = "check"
    /\ \/ DesktopIsIdle /\ reaper' = "stop" /\ NoMishap
       \/ ~DesktopIsIdle /\ reaper' = "idle" /\ NoMishap
       \/ reaper' = "idle" /\ DesktopFault({})
    /\ dcall' = [c \in DesktopCalls |->
                   [dcall[c] EXCEPT !.seen = reaper' = "stop" /\ dcall[c].pc = "watch"]]
    /\ UNCHANGED <<holder, sidecarUp, listed, recorded, watching, vnc, warm>>

\* StopDesktop: the container is stopped and kept, its network removed.
StopDesktop ==
    /\ reaper = "stop"
    /\ \/ sidecarUp' = FALSE /\ reaper' = "mark" /\ NoMishap
       \/ UNCHANGED sidecarUp /\ reaper' = "idle" /\ DesktopFault({})
    /\ dcall' = [c \in DesktopCalls |-> [dcall[c] EXCEPT !.seen = FALSE]]
    /\ UNCHANGED <<holder, listed, recorded, watching, vnc, warm>>

\* The teardown's second half: SetState 'stopped', whatever happened since.
MarkStopped ==
    /\ reaper = "mark" /\ reaper' = "idle"
    /\ \/ /\ listed' = FALSE
          /\ mishaps' = IF sidecarUp THEN mishaps \union {"hidden"} ELSE mishaps
          /\ UNCHANGED desktopFaults
       \/ UNCHANGED listed /\ DesktopFault({})
    /\ UNCHANGED <<holder, sidecarUp, recorded, watching, vnc, warm, dcall>>

ReaperStep == ReaperLists \/ ReaperChecks \/ StopDesktop \/ MarkStopped

\* The server restarts: its requests, its viewers and its memory are gone.
DesktopServerRestarts ==
    /\ DesktopFault({"hidden", "miscount"})
    /\ dcall' = [c \in DesktopCalls |-> NoCall]
    /\ watching' = {} /\ recorded' = FALSE /\ reaper' = "idle"
    /\ UNCHANGED <<holder, sidecarUp, listed, vnc, warm>>

\* The sidecar exits by itself (RestartPolicy "no").
SidecarExits ==
    /\ sidecarUp /\ sidecarUp' = FALSE /\ DesktopFault({})
    /\ UNCHANGED <<holder, listed, recorded, watching, vnc, warm, dcall, reaper>>

DesktopNext ==
    \/ \E c \in DesktopCalls : \/ DesktopCallArrives(c) \/ DesktopCallStep(c)
                               \/ ViewerDisconnected(c)
    \/ \E p \in People : AcquireDisplayControl(p) \/ ReleaseDisplayControl(p)
    \/ LockLapses \/ ActivityAges
    \/ ReaperStep
    \/ DesktopServerRestarts \/ SidecarExits

DesktopSpec == DesktopInit /\ [][DesktopNext]_desktopVars

\* The requests run, the clock runs, the sweeper ticks.
DesktopFairSpec ==
    /\ DesktopSpec
    /\ \A c \in DesktopCalls : WF_desktopVars(DesktopCallStep(c))
    /\ WF_desktopVars(ActivityAges)
    /\ WF_desktopVars(ReaperStep)

-----------------------------------------------------------------------------
\* A sidecar that runs is in the one list the sweeper works from, or the call
\* that started it is about to put it there: only a write that failed, a start
\* that failed half way, a restart, or a 'stopped' that came after a new start
\* can hide it (ensureRunning's ScaledUp and recordedRunning).
UpIsListed ==
    (sidecarUp /\ ~listed) => \/ "hidden" \in mishaps
                              \/ \E c \in DesktopCalls : dcall[c].pc = "record"

\* When no viewer comes or goes, vnc_connections is the number of people who
\* watch, unless two of the writes overlapped or one was lost
\* (ViewerConnected, ViewerDisconnected, mirrorViewers).
CountIsMirrored ==
    (Mirroring = {} /\ "miscount" \notin mishaps) => vnc = Cardinality(watching)

\* The sweeper never goes on to stop a desktop that somebody watched when it
\* loaded the activity (Sweep, DesktopIsIdle, the viewer count).
ReapSparesViewers ==
    (reaper = "stop" /\ "miscount" \notin mishaps) =>
        \A c \in DesktopCalls : ~dcall[c].seen

\* While a person drives, the only agent inputs on their way to the desktop
\* are those the lock admitted before the person took it (Input,
\* AcquireAgentControl, AcquireDisplayControl).
InputWasAdmitted ==
    HumanDrives => \A c \in DesktopCalls :
        (dcall[c].kind = "input" /\ dcall[c].pc # "acquire") => dcall[c].cut

\* A desktop that nobody uses any more is scaled to zero, whatever stop or
\* statement of the sweeper failed, unless it is hidden from the sweeper or
\* pinned by a viewer count that a lost or crossed write left behind.
IdleIsReaped ==
    <>[](\A c \in DesktopCalls : dcall[c].pc = "none") =>
        \/ <>[]~sidecarUp
        \/ <>[]("hidden" \in mishaps) \/ <>[]("miscount" \in mishaps)

\* gateway.go: a failed write "can no longer permanently hide the desktop from
\* the sweeper": every forward that lost no write leaves the desktop listed.
\* Refuted: 'stopped' may land after a new start was recorded.
ForwardLists ==
    [][\A c \in DesktopCalls :
          (dcall[c].pc = "record" /\ dcall'[c].pc \in {"note", "connect"}
           /\ desktopFaults' = desktopFaults /\ sidecarUp) => listed']_desktopVars

\* The desktop sidecar (the gateway's scale-up and forward, the viewer count,
\* display control, the idle reaper) runs while it is used and only then.
DesktopIsKept ==
    /\ []DesktopTypeOK
    /\ []UpIsListed
    /\ []CountIsMirrored
    /\ []ReapSparesViewers
    /\ []InputWasAdmitted
    /\ IdleIsReaped

=============================================================================
