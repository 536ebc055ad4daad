--------------------------- MODULE PendingUploads ---------------------------
(***************************************************************************)
(* Files a user sends to a workspace that polls: they are staged on the    *)
(* platform together with the activity rows that announce them, the        *)
(* workspace fetches and acknowledges each one, at least once, and a       *)
(* sweeper deletes what was acknowledged long ago or never in time.        *)
(*                                                                         *)
(* Source: workspace-server/internal/pendinguploads (storage.go,           *)
(* sweeper.go), internal/handlers/pending_uploads.go and uploadPollMode in *)
(* chat_files.go. The workspace's side is the runtime's, taken from the    *)
(* endpoints it calls.                                                     *)
(***************************************************************************)
EXTENDS Naturals

CONSTANTS
    Files,             \* the files of one multipart upload
    MaxUploadFaults    \* bound: failed uploads, cut-off fetches, lost answers

ASSUME UploadsAssumption == MaxUploadFaults \in Nat

VARIABLES
    pending,       \* the files with a pending_uploads row
    announced,     \* the files with a chat_upload_receive activity row
    acked,         \* rows with acked_at set
    late,          \* rows past expires_at
    settled,       \* acked rows whose ack is older than the retention
    fetcher,       \* where the workspace stands with each file
    got,           \* the files whose content the workspace has
    swept,         \* the files whose row the sweeper deleted
    uploadFaults   \* faults so far

uploadVars == <<pending, announced, acked, late, settled, fetcher, got, swept,
                uploadFaults>>

UploadFault == uploadFaults < MaxUploadFaults /\ uploadFaults' = uploadFaults + 1

UploadsInit ==
    /\ pending = {} /\ announced = {} /\ acked = {} /\ late = {} /\ settled = {}
    /\ fetcher = [f \in Files |-> "poll"] /\ got = {} /\ swept = {}
    /\ uploadFaults = 0

FetcherGoes(f, pc) == fetcher' = [fetcher EXCEPT ![f] = pc]

-----------------------------------------------------------------------------
\* uploadPollMode after its validation: the rows of every file and the activity
\* rows of every file commit in one transaction, or none does.
UploadCommits ==
    /\ announced = {}
    /\ pending' = Files /\ announced' = Files
    /\ UNCHANGED <<acked, late, settled, fetcher, got, swept, uploadFaults>>

\* The row's bytes can be read until it expires, also after the ack.
Readable(f) == f \in pending \ late

\* GetContent: the workspace, told of the file, fetches it; a stream cut off is
\* fetched again on the next poll, and a file that is gone is given up.
GetContent(f) ==
    /\ fetcher[f] = "poll" /\ f \in announced
    /\ \/ /\ Readable(f) /\ got' = got \union {f} /\ FetcherGoes(f, "ack")
          /\ UNCHANGED uploadFaults
       \/ Readable(f) /\ UploadFault /\ UNCHANGED <<got, fetcher>>
       \/ ~Readable(f) /\ FetcherGoes(f, "over") /\ UNCHANGED <<got, uploadFaults>>
    /\ UNCHANGED <<pending, announced, acked, late, settled, swept>>

\* Ack, the handler: the row is looked up for its workspace, ...
AckReads(f) ==
    /\ fetcher[f] = "ack"
    /\ FetcherGoes(f, IF Readable(f) THEN "acking" ELSE "over")
    /\ UNCHANGED <<pending, announced, acked, late, settled, got, swept, uploadFaults>>

\* ... then acked_at is set if it is not; a second ack and one that raced the
\* sweeper are answered with success too. The workspace repeats an ack whose
\* answer it did not get.
AckWrites(f) ==
    /\ fetcher[f] = "acking"
    /\ acked' = (IF Readable(f) THEN acked \union {f} ELSE acked)
    /\ \/ FetcherGoes(f, "over") /\ UNCHANGED uploadFaults
       \/ UploadFault /\ FetcherGoes(f, "ack")
    /\ UNCHANGED <<pending, announced, late, settled, got, swept>>

\* expires_at passes; the retention after the ack passes.
UploadExpires(f) ==
    /\ f \in pending \ late /\ late' = late \union {f}
    /\ UNCHANGED <<pending, announced, acked, settled, fetcher, got, swept,
                   uploadFaults>>

AckSettles(f) ==
    /\ f \in (pending \intersect acked) \ settled /\ settled' = settled \union {f}
    /\ UNCHANGED <<pending, announced, acked, late, fetcher, got, swept,
                   uploadFaults>>

SweptRowsAcked == pending \intersect settled

\* Storage.Sweep: one statement deletes the rows acked longer than the
\* retention ago and those that expired unacknowledged.
SweptRows == {f \in pending : IF f \in acked THEN f \in settled ELSE f \in late}

UploadsSweep ==
    /\ SweptRows # {}
    /\ pending' = pending \ SweptRows /\ swept' = swept \union SweptRows
    /\ UNCHANGED <<announced, acked, late, settled, fetcher, got, uploadFaults>>

UploadsNext ==
    \/ UploadCommits
    \/ \E f \in Files : \/ GetContent(f) \/ AckReads(f) \/ AckWrites(f)
                        \/ UploadExpires(f) \/ AckSettles(f)
    \/ UploadsSweep

UploadsSpec == UploadsInit /\ [][UploadsNext]_uploadVars

\* The sweeper runs for ever and time passes; nothing is assumed of the
\* workspace, which may never poll.
UploadsFairSpec ==
    /\ UploadsSpec
    /\ WF_uploadVars(UploadsSweep)
    /\ \A f \in Files : /\ WF_uploadVars(UploadExpires(f))
                        /\ WF_uploadVars(AckSettles(f))

-----------------------------------------------------------------------------
\* The type invariant.
UploadsTypeOK ==
    /\ pending \subseteq Files /\ announced \subseteq Files
    /\ acked \subseteq Files /\ late \subseteq Files /\ settled \subseteq acked
    /\ got \subseteq Files /\ swept \subseteq Files \ pending
    /\ fetcher \in [Files -> {"poll", "ack", "acking", "over"}]
    /\ uploadFaults \in 0..MaxUploadFaults

\* No row is staged that nobody was told of, and the row of a file the
\* workspace was told of is deleted only when it expired unacknowledged, or
\* was fetched, acknowledged and kept for the retention (one transaction for
\* both tables; the sweep's two conditions).
AnnouncedIsThere ==
    /\ pending \subseteq announced
    /\ \A f \in announced \ pending :
           IF f \in acked THEN f \in settled \intersect got ELSE f \in late

\* The bytes of every staged file are deleted in the end, whether or not the
\* workspace ever polls.
StagedIsReclaimed == \A f \in Files : []<>(f \notin pending)

\* Staged files (PutBatch, Get, MarkFetched, Ack, Sweep) are there while they
\* are announced and are reclaimed afterwards.
UploadsAreKept ==
    /\ []UploadsTypeOK
    /\ []AnnouncedIsThere
    /\ StagedIsReclaimed

=============================================================================
