----------------------------- MODULE BlobFiles -----------------------------
(***************************************************************************)
(* Attachments.  The writer stores one upload at a time: a large blob goes to  *)
(* a file named after its hash (a temporary file, synced, renamed, and the     *)
(* directory synced), then its row and the uploader's charge are committed.    *)
(* The daemon may be killed at any point, a write may fail, the machine may     *)
(* lose power, and files may be damaged from outside.                          *)
(*                                                                            *)
(* A power loss takes back what the file system had not synced and, with       *)
(* SQLite's WAL at synchronous=NORMAL, any number of the last commits.          *)
(***************************************************************************)
EXTENDS Integers, Sequences, FiniteSets, FiniteSetsExt

CONSTANTS
    Uploaders,  \* identities with the role of a worker or more
    Blobs,      \* contents; a blob stands for its hash
    Big,        \* those longer than SPILL_THRESHOLD
    SizeOf,     \* what each counts of the quota
    Quota,      \* blob_quota_bytes
    MaxFaults,  \* bound: kills, failures, losses of power and damages
    MaxUploads  \* bound: commits

ASSUME BlobAssumption == Big \subseteq Blobs /\ SizeOf \in [Blobs -> Nat] /\ Quota \in Nat /\ MaxFaults \in Nat /\ MaxUploads \in Nat

VARIABLES
    charges,  \* the commits: rows of blob_uploads, each with its row of blobs
    entry,    \* per blob, the file of its name: as it reads, and as it would be found after a loss of power
    upload,   \* what the writer is on
    hurt,     \* blobs whose file was damaged, or whose entry a cut-short upload left unsynced
    faults

blobVars == <<charges, entry, upload, hurt, faults>>

NoUpload == [at |-> "idle"]
Contents == {"none", "whole", "bad"}
Charge   == [by : Uploaders, blob : Blobs]
UploadAt(stage) == upload.at = stage

HasRow(b)     == \E i \in DOMAIN charges : charges[i].blob = b
Charged(u, b) == \E i \in DOMAIN charges : charges[i].by = u /\ charges[i].blob = b
Usage(u)      == MapThenSumSet(LAMBDA b : SizeOf[b], {b \in Blobs : Charged(u, b)})
Fits(u, b)    == Charged(u, b) \/ Usage(u) + SizeOf[b] <= Quota

\* `ensure_blob_file`: a large blob is written unless the file already holds its bytes.
BeginUpload(u, b) ==
    /\ UploadAt("idle") /\ Fits(u, b) /\ Len(charges) < MaxUploads
    /\ upload' = [at |-> IF b \in Big /\ entry[b].reads # "whole" THEN "spilling" ELSE "filed", by |-> u, blob |-> b]
    /\ UNCHANGED <<charges, entry, hurt, faults>>

\* `write_synced`: until the rename nobody sees the temporary file.
WriteTemp ==
    /\ UploadAt("spilling") /\ upload' = [upload EXCEPT !.at = "written"]
    /\ UNCHANGED <<charges, entry, hurt, faults>>
RenameTemp ==
    /\ UploadAt("written") /\ upload' = [upload EXCEPT !.at = "renamed"]
    /\ entry' = [entry EXCEPT ![upload.blob].reads = "whole"]
    /\ UNCHANGED <<charges, hurt, faults>>
\* Faulty: the directory is not synced.
SyncDirNot ==
    /\ UploadAt("renamed") /\ upload' = [upload EXCEPT !.at = "filed"]
    /\ hurt' = hurt \ {upload.blob}
    /\ UNCHANGED <<charges, entry, faults>>
SyncDir ==
    /\ UploadAt("renamed") /\ upload' = [upload EXCEPT !.at = "filed"]
    /\ entry' = [entry EXCEPT ![upload.blob].survives = "whole"] /\ hurt' = hurt \ {upload.blob}
    /\ UNCHANGED <<charges, faults>>

\* The transaction: nothing is charged twice, and the quota is looked at again.
CommitUpload ==
    /\ UploadAt("filed") /\ upload' = NoUpload
    /\ charges' = IF Charged(upload.by, upload.blob) \/ ~Fits(upload.by, upload.blob) THEN charges
                  ELSE Append(charges, [by |-> upload.by, blob |-> upload.blob])
    /\ UNCHANGED <<entry, hurt, faults>>

\* The blob whose entry is renamed and not yet synced.
Unsynced == IF UploadAt("renamed") THEN {upload.blob} ELSE {}
Fault == faults < MaxFaults /\ faults' = faults + 1

\* The disk is full, a sync fails, or the daemon is killed: what was renamed stays.
UploadCutShort ==
    /\ ~UploadAt("idle") /\ Fault /\ upload' = NoUpload /\ hurt' = hurt \cup Unsynced
    /\ UNCHANGED <<charges, entry>>

PowerLoss ==
    /\ Fault /\ upload' = NoUpload /\ UNCHANGED hurt
    /\ \E kept \in 0..Len(charges) : charges' = SubSeq(charges, 1, kept)
    /\ \E after \in [Blobs -> Contents] :
          /\ \A b \in Blobs : after[b] \in {entry[b].reads, entry[b].survives}
          /\ entry' = [b \in Blobs |-> [reads |-> after[b], survives |-> after[b]]]

Damage(b) ==
    /\ Fault /\ UploadAt("idle") /\ hurt' = hurt \cup {b}
    /\ \E c \in {"none", "bad"} : entry' = [entry EXCEPT ![b] = [reads |-> c, survives |-> c]]
    /\ UNCHANGED <<charges, upload>>

BlobInit ==
    /\ charges = <<>> /\ upload = NoUpload /\ hurt = {} /\ faults = 0
    /\ entry = [b \in Blobs |-> [reads |-> "none", survives |-> "none"]]

BlobStep ==
    \/ \E u \in Uploaders, b \in Blobs : BeginUpload(u, b)
    \/ WriteTemp \/ RenameTemp \/ SyncDir \/ CommitUpload
    \/ UploadCutShort \/ PowerLoss \/ \E b \in Big : Damage(b)

BlobSpec == BlobInit /\ [][BlobStep]_blobVars

\* `get_blob`: what a reader gets.
GetBlob(b) ==
    CASE ~HasRow(b) -> "not found"
      [] HasRow(b) /\ (b \notin Big \/ entry[b].reads = "whole") -> "bytes"
      [] HasRow(b) /\ b \in Big /\ entry[b].reads = "none" -> "missing"
      [] HasRow(b) /\ b \in Big /\ entry[b].reads = "bad" -> "corrupt"

-----------------------------------------------------------------------------
\* "never a row without its bytes": whatever is killed, fails or loses power between the steps of an upload,
\* a blob that has a row can be read, unless its file was damaged, or an upload of it ended between its rename
\* and the sync of the directory.
RowHasItsBytes == \A b \in Blobs : HasRow(b) /\ b \notin hurt => GetBlob(b) = "bytes"
=============================================================================
