--------------------------- MODULE CodexRefresher ---------------------------
(***************************************************************************)
(* The refresher of the shared codex credential: the blob on file carries  *)
(* a single-use refresh token, which the one refresher trades for a new    *)
(* one when the access token nears its expiry, while a human may replace   *)
(* the blob at any time through the secrets endpoint.                      *)
(*                                                                         *)
(* Source: workspace-server/internal/codexauth/refresher.go. The token     *)
(* endpoint and the human are external.                                    *)
(***************************************************************************)
EXTENDS Naturals, FiniteSets

CONSTANTS
    Seeds,             \* the blobs there can be, one per refresh token
    NoSeed,            \* no CODEX_AUTH_JSON on file
    MaxCodexFaults     \* bound: lost answers, failed write-backs, restarts

ASSUME CodexAssumption == NoSeed \notin Seeds /\ MaxCodexFaults \in Nat

VARIABLES
    blob,          \* global_secrets' CODEX_AUTH_JSON
    issued,        \* the tokens the provider has issued
    spent,         \* the tokens the provider has taken
    due,           \* the blob's access token is within the safety margin
    refresherPc,   \* where refreshOnce stands
    holds,         \* the blob it read
    rotated,       \* the blob with the tokens it was given
    failedSeed,    \* the blob latched as rejected
    rejections,    \* how often each blob's token was rejected
    burned,        \* tokens taken whose successor never reached the file
    codexFaults    \* faults so far

codexVars == <<blob, issued, spent, due, refresherPc, holds, rotated, failedSeed,
               rejections, burned, codexFaults>>

CodexFault == codexFaults < MaxCodexFaults /\ codexFaults' = codexFaults + 1

CodexInit ==
    /\ blob \in Seeds \union {NoSeed}
    /\ issued = {blob} \ {NoSeed} /\ spent = {} /\ due = FALSE
    /\ refresherPc = "idle" /\ holds = NoSeed /\ rotated = NoSeed
    /\ failedSeed = NoSeed
    /\ rejections = [s \in Seeds |-> 0] /\ burned = {} /\ codexFaults = 0

Rests == /\ refresherPc' = "idle" /\ holds' = NoSeed /\ rotated' = NoSeed

-----------------------------------------------------------------------------
\* The secrets endpoint: a fresh login puts a blob of its own on file.
Reseed ==
    /\ \E s \in Seeds \ issued : blob' = s /\ issued' = issued \union {s}
    /\ due' = FALSE
    /\ UNCHANGED <<spent, refresherPc, holds, rotated, failedSeed, rejections,
                   burned, codexFaults>>

\* The access token on file comes within refreshSafetyMargin of its expiry.
TokenNearsExpiry ==
    /\ blob # NoSeed /\ ~due /\ due' = TRUE
    /\ UNCHANGED <<blob, issued, spent, refresherPc, holds, rotated, failedSeed,
                   rejections, burned, codexFaults>>

RefreshLooksLatchedForGood ==
    /\ refresherPc = "idle"
    /\ IF blob # NoSeed /\ failedSeed = NoSeed /\ due
       THEN refresherPc' = "post" /\ holds' = blob
       ELSE UNCHANGED <<refresherPc, holds>>
    /\ UNCHANGED <<blob, issued, spent, due, rotated, failedSeed, rejections,
                   burned, codexFaults>>

\* refreshOnce, up to the POST: nothing on file clears the latch, the latched
\* blob is left alone, a changed one clears the latch, a fresh one is left.
RefreshLooks ==
    /\ refresherPc = "idle"
    /\ failedSeed' = (IF blob # failedSeed THEN NoSeed ELSE failedSeed)
    /\ IF blob # NoSeed /\ blob # failedSeed /\ due
       THEN refresherPc' = "post" /\ holds' = blob
       ELSE UNCHANGED <<refresherPc, holds>>
    /\ UNCHANGED <<blob, issued, spent, due, rotated, rejections, burned,
                   codexFaults>>

\* doRefresh: a live token is taken and answered with its successor; the answer
\* may be lost on the way, and the endpoint may be down.
PostTaken ==
    /\ refresherPc = "post" /\ holds \notin spent
    /\ spent' = spent \union {holds}
    /\ \E s \in Seeds \ issued :
           /\ issued' = issued \union {s}
           /\ \/ /\ refresherPc' = "put" /\ rotated' = s
                 /\ UNCHANGED <<holds, burned, codexFaults>>
              \/ CodexFault /\ Rests /\ burned' = burned \union {holds}
    /\ UNCHANGED <<blob, due, failedSeed, rejections>>

PostDown ==
    /\ refresherPc = "post" /\ CodexFault /\ Rests
    /\ UNCHANGED <<blob, issued, spent, due, failedSeed, rejections, burned>>

\* A token that was taken before is rejected for good: the blob is latched.
PostRejected ==
    /\ refresherPc = "post" /\ holds \in spent
    /\ failedSeed' = holds
    /\ rejections' = [rejections EXCEPT ![holds] = @ + 1]
    /\ Rests
    /\ UNCHANGED <<blob, issued, spent, due, burned, codexFaults>>

\* The write-back: the merged blob replaces whatever is on file, also a seed
\* put there since the read. A failed write loses the successor.
PutRotated ==
    /\ refresherPc = "put"
    /\ \/ /\ blob' = rotated /\ due' = FALSE /\ failedSeed' = NoSeed
          /\ UNCHANGED <<burned, codexFaults>>
       \/ CodexFault /\ burned' = burned \union {holds}
          /\ UNCHANGED <<blob, due, failedSeed>>
    /\ Rests
    /\ UNCHANGED <<issued, spent, rejections>>

\* The server restarts: the latch is in memory.
CodexRestart ==
    /\ CodexFault
    /\ burned' = (IF refresherPc = "put" THEN burned \union {holds} ELSE burned)
    /\ failedSeed' = NoSeed /\ Rests
    /\ UNCHANGED <<blob, issued, spent, due, rejections>>

RefreshStep == RefreshLooks \/ PostTaken \/ PostRejected \/ PutRotated

CodexNext == RefreshStep \/ PostDown \/ Reseed \/ TokenNearsExpiry \/ CodexRestart

CodexSpec == CodexInit /\ [][CodexNext]_codexVars

\* The refresher ticks for ever.
CodexFairSpec == CodexSpec /\ WF_codexVars(RefreshStep)

-----------------------------------------------------------------------------
\* The type invariant.
CodexTypeOK ==
    /\ {blob, holds, rotated, failedSeed} \subseteq Seeds \union {NoSeed}
    /\ issued \subseteq Seeds /\ spent \subseteq issued /\ burned \subseteq spent
    /\ due \in BOOLEAN /\ refresherPc \in {"idle", "post", "put"}
    /\ rejections \in [Seeds -> Nat] /\ codexFaults \in 0..MaxCodexFaults

\* The token on file is live: it was taken only by the refresh in flight, which
\* will replace it, or by one whose answer or write-back was lost
\* (read, POST and write-back under one mutex).
SeedOnFileIsLive ==
    blob \in spent => blob \in burned \/ (refresherPc = "put" /\ holds = blob)

\* A dead token is not posted over and over: one rejection, and one more for
\* each restart, which forgets the latch.
DeadSeedIsLeftAlone == \A s \in Seeds : rejections[s] <= 1 + codexFaults

\* A seed that is due is refreshed in the end, or is found dead, or is replaced
\* by a human.
DueIsRefreshed ==
    \A s \in Seeds : []<>(~(blob = s /\ due) \/ s \in burned \/ issued = Seeds)

\* The refresher (refreshOnce) keeps the single-use seed on file live or leaves
\* it to its owner, and refreshes what is due.
SeedIsKept ==
    /\ []CodexTypeOK
    /\ []SeedOnFileIsLive
    /\ []DeadSeedIsLeftAlone
    /\ DueIsRefreshed

=============================================================================
