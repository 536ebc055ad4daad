---------------------------- MODULE WakeIntents ----------------------------
(***************************************************************************)
(* The wake ledger of one workspace: the table wake_intents with the       *)
(* generation counters desired_generation and observed_generation          *)
(* (internal/handlers/wake_lifecycle.go), the heartbeat that settles       *)
(* intents (registry.go), the re-drive of stuck ones (wake_redrive.go),    *)
(* and the first-boot greeting with its marker has_greeted                 *)
(* (first_boot_greeting.go), which the synchronous greeter and the drain   *)
(* of a queued greeting deliver through one claim.                         *)
(***************************************************************************)
EXTENDS Naturals, FiniteSets

CONSTANTS
    OtherKeys,      \* idempotency keys of restart-context, stall and nudge wakes
    Greet,          \* the key of the first-boot greeting
    WakeBeats,      \* heartbeat requests that may be in flight together
    MaxRedrives,    \* redriveMaxAttempts
    MaxWakeFaults   \* bound: failed statements and sends, swept rows, restarts

ASSUME WakeAssumption ==
    /\ Greet \notin OtherKeys
    /\ MaxRedrives \in Nat \ {0} /\ MaxWakeFaults \in Nat

WakeKeys == OtherKeys \cup {Greet}

VARIABLES
    desired, observed,  \* the two generation columns
    intent,             \* wake_intents
    wbeat,              \* the heartbeat handlers
    aged,               \* ten minutes since the intents were made or re-driven
    redrive,            \* ReDriveStuckWakes: what is left of its scan
    hasGreeted,         \* workspaces.has_greeted
    greeter,            \* the FirstBootGreeter goroutine (one per process)
    deliver,            \* deliverFirstBootGreeting, for the greeter and for the drain
    greetQueued,        \* whether a greeting turn waits in the A2A queue
    greetings,          \* greetings the user has seen
    wakeFaults

wakeVars == <<desired, observed, intent, wbeat, aged, redrive, hasGreeted, greeter,
              deliver, greetQueued, greetings, wakeFaults>>
greetVars == <<hasGreeted, greeter, deliver, greetQueued, greetings>>
ledgerVars == <<desired, observed, intent, wbeat, aged, redrive>>

MaxGen == Cardinality(OtherKeys) + 1
Open == {"pending", "delivered"}
IdleWakeBeat == [at |-> "idle", carried |-> 0, read |-> 0]

WakeTypeOK ==
    /\ {desired, observed} \subseteq 0..MaxGen
    /\ intent \in [WakeKeys -> [status : {"none", "pending", "delivered", "settled", "dropped"},
                                gen : 0..MaxGen, tries : 0..MaxRedrives]]
    /\ wbeat \in [WakeBeats -> [at : {"idle", "settle"}, carried : 0..MaxGen,
                                read : 0..MaxGen]]
    /\ aged \in BOOLEAN /\ redrive \subseteq WakeKeys
    /\ hasGreeted \in BOOLEAN /\ greetQueued \in BOOLEAN
    /\ greeter \in {"idle", "check", "deliver", "mark"}
    /\ deliver \in [{"greeter", "drain"} -> {"idle", "claim", "send"}]
    /\ greetings \in 0..2
    /\ wakeFaults \in 0..MaxWakeFaults

WakeInit ==
    /\ desired = 0 /\ observed = 0
    /\ intent = [k \in WakeKeys |->
                   [status |-> "none", gen |-> 0, tries |-> 0]]
    /\ wbeat = [b \in WakeBeats |-> IdleWakeBeat]
    /\ aged = FALSE /\ redrive = {}
    /\ hasGreeted = FALSE /\ greetQueued = FALSE /\ greetings = 0
    /\ greeter = "idle" /\ deliver = [d \in {"greeter", "drain"} |-> "idle"]
    /\ wakeFaults = 0

WakeFault ==
    /\ wakeFaults < MaxWakeFaults
    /\ wakeFaults' = wakeFaults + 1

-----------------------------------------------------------------------------
(* wake_lifecycle.go.                                                      *)

\* One transaction: a duplicate rolls the speculative +1 back.

DecideWake(k) ==
    IF intent[k].status # "none" THEN UNCHANGED <<desired, intent>>
    ELSE /\ desired' = desired + 1
         /\ intent' = [intent EXCEPT ![k].status = "pending", ![k].gen = desired + 1]

MarkWakeDelivered(k) ==
    intent' = [intent EXCEPT ![k].status = IF @ = "pending" THEN "delivered" ELSE @]

MarkWakeSettledPending(gen) ==
    intent' = [k \in WakeKeys |->
                 IF intent[k].status \in Open /\ intent[k].gen <= gen
                   THEN [intent[k] EXCEPT !.status = "settled"] ELSE intent[k]]

MarkWakeSettled(gen) ==
    intent' = [k \in WakeKeys |->
                 IF intent[k].status = "delivered" /\ intent[k].gen <= gen
                   THEN [intent[k] EXCEPT !.status = "settled"] ELSE intent[k]]

\* The watchdog, the nudge sweep and the restart context: decide, and mark when
\* the message is queued.  A failed enqueue leaves the intent pending.
Emits(k) ==
    /\ intent[k].status = "none"
    /\ DecideWake(k)
    /\ UNCHANGED <<observed, wbeat, aged, redrive, greetVars, wakeFaults>>

EmitIsQueued(k) ==
    /\ intent[k].status = "pending"
    /\ MarkWakeDelivered(k)
    /\ UNCHANGED <<desired, observed, wbeat, aged, redrive, greetVars, wakeFaults>>

-----------------------------------------------------------------------------
(* Heartbeat.                                                              *)

BeatKeeps == <<desired, aged, redrive, greetVars, wakeFaults>>

\* The first SELECT reads desired_generation.  The beat carries a generation an
\* earlier answer handed down: answers are lost and beats arrive late or out of
\* order, so any of them.  A runtime that predates the contract carries none.
WakeBeatReads(b) ==
    /\ wbeat[b].at = "idle"
    /\ \E gen \in 0..desired :
          wbeat' = [wbeat EXCEPT ![b] = [at |-> "settle", carried |-> gen, read |-> desired]]
    /\ UNCHANGED <<observed, intent, BeatKeeps>>

\* observed_generation only grows, and the intents up to the carried generation
\* settle when it has caught up with what was read.  The answer, which
\* hands the read generation down to the runtime, may be lost.
WakeBeatSettles(b) ==
    LET beat == wbeat[b]
    IN  /\ beat.at = "settle"
        /\ observed' = IF beat.carried > observed THEN beat.carried ELSE observed
        /\ IF beat.carried >= beat.read THEN MarkWakeSettled(beat.carried)
           ELSE UNCHANGED intent
        /\ wbeat' = [wbeat EXCEPT ![b] = IdleWakeBeat]
        /\ UNCHANGED BeatKeeps

WakeBeatStep(b) ==
    WakeBeatReads(b) \/ WakeBeatSettles(b)

-----------------------------------------------------------------------------
(* ReDriveStuckWakes.                                                      *)

RedriveKeeps == <<desired, observed, wbeat>>

\* A greeting, or the re-drive that starts one, is under way: it takes less than
\* two minutes (90 s for the turn, 15 s and 5 s to deliver).
GreetAtWork ==
    \/ greeter # "idle" \/ deliver["drain"] # "idle"
    \/ Greet \in redrive

\* One clock for all intents: a young one may be re-driven early, never late.
IntentsAge ==
    /\ ~aged /\ ~GreetAtWork
    /\ \E k \in WakeKeys : intent[k].status \in Open
    /\ aged' = TRUE
    /\ UNCHANGED <<RedriveKeeps, intent, redrive, greetVars, wakeFaults>>

RedriveSelects ==
    LET stuck == {k \in WakeKeys : intent[k].status \in Open}
    IN  /\ aged /\ redrive = {} /\ stuck # {}
        /\ aged' = FALSE
        /\ redrive' = stuck
        /\ UNCHANGED <<RedriveKeeps, intent, greetVars, wakeFaults>>

\* A spent budget drops the intent if it is still open.

RedriveDrops(k) ==
    /\ k \in redrive /\ intent[k].tries = MaxRedrives
    /\ intent' = [intent EXCEPT ![k].status = IF @ \in Open THEN "dropped" ELSE @]
    /\ redrive' = redrive \ {k}
    /\ UNCHANGED <<RedriveKeeps, aged, greetVars, wakeFaults>>

\* The attempt is counted before the re-emit, which a restart may then cost.
\* Only the greeting has a re-emitter (WakeReEmitter), and it is a no-op while
\* the greeter runs (firstBootGreetingPending).
ReEmits(k) ==
    /\ k \in redrive /\ intent[k].tries < MaxRedrives
    /\ intent' = [intent EXCEPT ![k].tries = @ + 1]
    /\ redrive' = redrive \ {k}
    /\ greeter' = IF k = Greet /\ greeter = "idle" THEN "check" ELSE greeter
    /\ UNCHANGED <<RedriveKeeps, aged, hasGreeted, deliver, greetQueued, greetings, wakeFaults>>

RedriveStep == \E k \in WakeKeys : RedriveDrops(k) \/ ReEmits(k)

-----------------------------------------------------------------------------
(* The greeting.                                                           *)

Greeting(next) == greeter' = next

\* fireFirstBootGreeting, at a promotion from provisioning to online.
BootFiresGreeting ==
    /\ greeter = "idle"
    /\ Greeting("check")
    /\ UNCHANGED <<ledgerVars, hasGreeted, deliver, greetQueued, greetings, wakeFaults>>

\* The marker is read, then the intent decided (Fire is ignored) and the turn
\* run: it is answered, or fails and the fallback text is used, or is queued,
\* and then the drained reply will greet.

GreeterTurn ==
    /\ greeter = "check"
    /\ \/ /\ hasGreeted /\ Greeting("idle")
          /\ UNCHANGED <<desired, intent, deliver, greetQueued>>
       \/ /\ ~hasGreeted /\ DecideWake(Greet) /\ Greeting("deliver")
          /\ deliver' = [deliver EXCEPT !["greeter"] = "claim"]
          /\ UNCHANGED greetQueued
       \/ /\ ~hasGreeted /\ DecideWake(Greet) /\ Greeting("idle")
          /\ greetQueued' = TRUE
          /\ UNCHANGED deliver
    /\ UNCHANGED <<observed, wbeat, aged, redrive, hasGreeted, greetings, wakeFaults>>

\* deliverDrainedFirstBootGreeting, or the fallback at a terminal drop.
DrainGreets ==
    /\ greetQueued /\ deliver["drain"] = "idle"
    /\ greetQueued' = FALSE
    /\ deliver' = [deliver EXCEPT !["drain"] = "claim"]
    /\ UNCHANGED <<ledgerVars, hasGreeted, greeter, greetings, wakeFaults>>

\* DropStaleQueueItems delivers no fallback.
QueuedGreetSwept ==
    /\ greetQueued /\ WakeFault
    /\ greetQueued' = FALSE
    /\ UNCHANGED <<ledgerVars, hasGreeted, greeter, deliver, greetings>>

DeliveredBy(d, next) == greeter' = IF d = "greeter" THEN next ELSE greeter

claimGreetDelivery(d) ==
    /\ deliver[d] = "claim"
    /\ hasGreeted' = TRUE
    /\ deliver' = [deliver EXCEPT ![d] = IF hasGreeted THEN "idle" ELSE "send"]
    /\ IF hasGreeted THEN DeliveredBy(d, "mark") ELSE UNCHANGED greeter
    /\ UNCHANGED <<ledgerVars, greetQueued, greetings, wakeFaults>>

SendGreeting(d) ==
    /\ deliver[d] = "send"
    /\ greetings' = greetings + 1
    /\ deliver' = [deliver EXCEPT ![d] = "idle"]
    /\ DeliveredBy(d, "mark")
    /\ UNCHANGED <<ledgerVars, hasGreeted, greetQueued, wakeFaults>>

\* The send fails and the claim is given back (on its own budget).
releaseGreetClaim(d) ==
    /\ deliver[d] = "send" /\ WakeFault
    /\ hasGreeted' = FALSE
    /\ deliver' = [deliver EXCEPT ![d] = "idle"]
    /\ DeliveredBy(d, "idle")
    /\ UNCHANGED <<ledgerVars, greetQueued, greetings>>

\* Only the greeter marks the intent; a drained greeting leaves it pending.
GreeterMarks ==
    /\ greeter = "mark"
    /\ MarkWakeDelivered(Greet)
    /\ Greeting("idle")
    /\ UNCHANGED <<desired, observed, wbeat, aged, redrive, hasGreeted, deliver,
                   greetQueued, greetings, wakeFaults>>

\* The mark is best effort, and a greeter whose DecideWake failed has no key.
GreeterMarkFails ==
    /\ greeter = "mark" /\ WakeFault
    /\ Greeting("idle")
    /\ UNCHANGED <<ledgerVars, hasGreeted, deliver, greetQueued, greetings>>

deliverFirstBootGreeting(d) == claimGreetDelivery(d) \/ SendGreeting(d)

GreetStep ==
    \/ GreeterTurn \/ GreeterMarks
    \/ deliverFirstBootGreeting("greeter")

\* The process restarts: goroutines are gone, rows and the queue stay.
WakeServerRestarts ==
    /\ WakeFault
    /\ wbeat' = [b \in WakeBeats |-> IdleWakeBeat]
    /\ redrive' = {}
    /\ greeter' = "idle" /\ deliver' = [d \in {"greeter", "drain"} |-> "idle"]
    /\ UNCHANGED <<desired, observed, intent, aged, hasGreeted, greetQueued, greetings>>

-----------------------------------------------------------------------------

WakeNext ==
    \/ \E k \in OtherKeys : Emits(k) \/ EmitIsQueued(k)
    \/ \E b \in WakeBeats : WakeBeatStep(b)
    \/ IntentsAge \/ RedriveSelects \/ RedriveStep
    \/ BootFiresGreeting \/ GreetStep \/ GreeterMarkFails
    \/ DrainGreets \/ deliverFirstBootGreeting("drain") \/ QueuedGreetSwept
    \/ \E d \in {"greeter", "drain"} : releaseGreetClaim(d)
    \/ WakeServerRestarts

WakeSpec == WakeInit /\ [][WakeNext]_wakeVars

\* Time passes, the re-drive sweeper ticks, goroutines run on and the queue is
\* drained.  Nothing is assumed of the emitters, the runtime or its beats.  SF
\* because a greeter's run only hides the clock.
WakeFairness ==
    /\ SF_wakeVars(IntentsAge)
    /\ WF_wakeVars(RedriveSelects) /\ WF_wakeVars(RedriveStep)
    /\ WF_wakeVars(GreetStep)
    /\ WF_wakeVars(DrainGreets) /\ WF_wakeVars(deliverFirstBootGreeting("drain"))

WakeFairSpec == WakeSpec /\ WakeFairness

-----------------------------------------------------------------------------
(* Properties.                                                             *)

\* A claim nobody will send or give back: its holder died.
ClaimIsOrphan ==
    hasGreeted /\ greetings = 0 /\ \A d \in {"greeter", "drain"} : deliver[d] = "idle"

\* The user is greeted at most once, by a boot, a re-drive or a drain, and the
\* marker is set for an unseen greeting only while it is being sent or after
\* its sender died (first_boot_greeting.go:193-209).
GreetOnce ==
    /\ greetings <= 1
    /\ ClaimIsOrphan => wakeFaults > 0

\* The generation counts the intents, without gaps, and what is settled was
\* delivered at a generation the runtime has echoed: neither a duplicate wake
\* nor an old beat moves a counter (wake_lifecycle.go:21-31, registry.go:1515).
GenerationsCount ==
    /\ desired = Cardinality({k \in WakeKeys : intent[k].status # "none"})
    /\ \A k \in WakeKeys : intent[k].status # "none" =>
          intent[k].gen \in 1..desired
    /\ \A j, k \in WakeKeys : intent[j].status # "none" /\ intent[j].gen = intent[k].gen => j = k
    /\ \A k \in WakeKeys : intent[k].status = "settled" => intent[k].gen <= observed

\* A settled or dropped intent stays as it is, and one is settled only from
\* 'delivered', whichever of heartbeat and re-drive comes last.
EndedIntentsStay ==
    [][\A k \in WakeKeys :
          /\ intent[k].status \in {"settled", "dropped"} => intent'[k].status = intent[k].status
          /\ (intent[k].status # "settled" /\ intent'[k].status = "settled")
                => intent[k].status = "delivered"]_wakeVars

\* No intent stays open for ever: it settles or the re-drive gives it up, even
\* if the runtime never echoes a generation (wake_redrive.go:45-53).
IntentsEnd ==
    \A k \in WakeKeys : []<>(intent[k].status \notin Open)

\* The greeter takes a lost claim for a delivery and marks the intent, and the
\* winner of the claim then fails to send.
MarkedUnseen ==
    /\ intent[Greet].status \in {"delivered", "settled"} /\ greetings = 0
    /\ \A d \in {"greeter", "drain"} : deliver[d] = "idle"

\* When the greeting's intent has ended and no greeter, drain or queue has it
\* any more, the user has seen it; only a failed send, a restart or a swept
\* queue loses it (first_boot_greeting.go:193-252, wake_redrive.go:257-297).
GreetLostOnlyByFault ==
    intent[Greet].status \in {"settled", "dropped"} /\ ~GreetAtWork /\ ~greetQueued
        => greetings = 1 \/ wakeFaults > 0

\* An intent is marked delivered "once the wake has actually reached the user
\* (commit-on-delivery)" (wake_lifecycle.go:211-213).
DeliveredIsSeen == ~MarkedUnseen

\* Wake intents and the greeting (CommitWakeIntent, the heartbeat's settlement,
\* the re-drive, the greeter) are delivered in their order and come to an end.
WakesAreKept ==
    /\ []WakeTypeOK
    /\ []GreetOnce
    /\ []GenerationsCount
    /\ []GreetLostOnlyByFault
    /\ EndedIntentsStay
    /\ IntentsEnd

=============================================================================
