----------------------------- MODULE MCServices -----------------------------
(***************************************************************************)
(* The services around a workspace, for TLC: a behaviour is that of its    *)
(* desktop (DesktopSidecar), of the channel manager (ChannelPollers), of   *)
(* the tunnel pool (TunnelPool), of its staged files (PendingUploads) or   *)
(* of the credential refresher (CodexRefresher).  The modules share no     *)
(* state; those that are not chosen rest in their initial states.          *)
(***************************************************************************)
EXTENDS DesktopSidecar, ChannelPollers, TunnelPool, PendingUploads, CodexRefresher

VARIABLE service

serviceVars == <<desktopVars, channelVars, poolVars, uploadVars, codexVars, service>>

ServicesInit ==
    /\ service \in {"desktop", "channels", "tunnels", "uploads", "codex"}
    /\ DesktopInit /\ ChannelsInit /\ PoolInit /\ UploadsInit /\ CodexInit
    /\ service # "codex" => blob = NoSeed

ServicesNext ==
    \/ /\ service = "desktop" /\ DesktopNext
       /\ UNCHANGED <<channelVars, poolVars, uploadVars, codexVars, service>>
    \/ /\ service = "channels" /\ ChannelsNext
       /\ UNCHANGED <<desktopVars, poolVars, uploadVars, codexVars, service>>
    \/ /\ service = "tunnels" /\ PoolNext
       /\ UNCHANGED <<desktopVars, channelVars, uploadVars, codexVars, service>>
    \/ /\ service = "uploads" /\ UploadsNext
       /\ UNCHANGED <<desktopVars, channelVars, poolVars, codexVars, service>>
    \/ /\ service = "codex" /\ CodexNext
       /\ UNCHANGED <<desktopVars, channelVars, poolVars, uploadVars, service>>

\* The fairness of the modules, each for the behaviours that are its own.
ServicesFairness ==
    /\ \A c \in DesktopCalls : WF_desktopVars(service = "desktop" /\ DesktopCallStep(c))
    /\ WF_desktopVars(service = "desktop" /\ ActivityAges)
    /\ WF_desktopVars(service = "desktop" /\ ReaperStep)
    /\ \A u \in Users : WF_poolVars(service = "tunnels" /\ UserStep(u))
    /\ \A t \in Tunnels : WF_poolVars(service = "tunnels" /\ TunnelExpires(t))
    /\ WF_poolVars(service = "tunnels" /\ JanitorSweeps)
    /\ WF_uploadVars(service = "uploads" /\ UploadsSweep)
    /\ \A f \in Files : /\ WF_uploadVars(service = "uploads" /\ UploadExpires(f))
                        /\ WF_uploadVars(service = "uploads" /\ AckSettles(f))
    /\ WF_codexVars(service = "codex" /\ RefreshStep)

ServicesSpec == ServicesInit /\ [][ServicesNext]_serviceVars /\ ServicesFairness

=============================================================================
