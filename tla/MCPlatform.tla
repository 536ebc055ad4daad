----------------------------- MODULE MCPlatform -----------------------------
(***************************************************************************)
(* The platform's own handlers, for TLC: a behaviour is that of a          *)
(* container under create, restart and delete (StartDelete), of messages   *)
(* on their way to an agent (MessageDispatch) or of a workspace's          *)
(* credentials (ProvisionEnv).  The modules share no state; those that are *)
(* not chosen rest in an initial state.                                    *)
(***************************************************************************)
EXTENDS StartDelete, MessageDispatch, ProvisionEnv

CONSTANT FirstSend   \* the send that begins first

VARIABLE scene

platformVars == <<startVars, dispatchVars, envVars, scene>>

\* A registry of three providers: the platform's proxy, one whose models the
\* proxy serves too, and one that is found by a pattern.
RegAuth == [v \in Vendors |-> CASE v = "platform" -> {"usage"}
                                [] v = "minimax" -> {"mini", "auth"} [] v = "oauth" -> {"oauth"}]
RegToken == [v \in Vendors |-> IF v = "oauth" THEN Nothing ELSE "auth"]
RegExact == [m \in Models |-> CASE m = "mm" -> <<"platform", "minimax">>
                                [] m = "pl" -> <<"platform">> [] OTHER -> <<>>]
RegPrefix == [m \in Models |-> CASE m = "cl" -> {"oauth"}
                                 [] m = "any" -> {"oauth", "minimax"} [] OTHER -> {}]
RegBare == [m \in Models |-> IF m = "pl" THEN "mm" ELSE m]

PlatformInit ==
    /\ scene \in {"container", "dispatch", "env"}
    /\ StartDeleteInit /\ DispatchInit
    /\ EnvInit /\ globals \in {{}, {"mini"}, {"oauth"}, {"mini", "oauth"}, {"operator"}, {"admin"}}
    /\ rootModel \in {Nothing, "pl"} /\ (rootModel # Nothing => native /\ ~proxy)
    /\ scene # "env" => ~proxy /\ ~native /\ globals = {} /\ rootModel = Nothing
    /\ refusal # "nothing" => nature = "docker" /\ ~target.platform
    /\ scene # "dispatch" => refusal = "nothing" /\ nature = "docker" /\ ~target.platform

\* The sends differ in nothing but who makes them: one begins first, it is the
\* user's, and the platform's own are told apart only before they begin.  Who
\* comes second depends on what runs the agent.
DispatchCast ==
    /\ \A s \in Sends \ {FirstSend} :
          send'[s].pc = "idle" \/ (nature \in {"docker", "mock"} <=> send'[s].by \in {"canvas", "peer"})
    /\ send'[FirstSend].pc = "idle" => \A s \in Sends : send'[s].pc = "idle"
    /\ send'[FirstSend].by \in {"canvas", "system"}
    /\ send'[FirstSend].by = "system" => send'[FirstSend].pc = "idle"

\* A write is of a key that some provider reads.
EnvCast ==
    /\ writer'.key \in {"mini", "oauth", Nothing}
    /\ creation'.keys \subseteq {"mini", "oauth", "auth"}

PlatformNext ==
    \/ /\ scene = "container" /\ StartDeleteNext
       /\ UNCHANGED <<dispatchVars, envVars, scene>>
    \/ /\ scene = "dispatch" /\ DispatchNext /\ DispatchCast
       /\ UNCHANGED <<startVars, envVars, scene>>
    \/ /\ scene = "env" /\ EnvNext /\ EnvCast
       /\ UNCHANGED <<startVars, dispatchVars, scene>>

PlatformSpec == PlatformInit /\ [][PlatformNext]_platformVars
=============================================================================
