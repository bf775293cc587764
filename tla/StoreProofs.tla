----------------------------- MODULE StoreProofs -----------------------------
(***************************************************************************)
(* What the store keeps through repeats and crashes: a signed operation applies *)
(* once, a row of an attachment has its bytes, and a card follows the end of   *)
(* its job.  And which waiting job starts: the quiet windows, the line that     *)
(* never waits for itself, and the sleep of the admission loop.                 *)
(***************************************************************************)
EXTENDS Envelope, BlobFiles, JobLifecycle, Admission, FiniteSetTheorems, WellFoundedInduction, TLAPS

-----------------------------------------------------------------------------
(* Signed operations, for any signers, nonces and skew.                        *)

NonceRow == [actor : Signers, nonce : Nonces, ts : Int]
RowOf(op) == [actor |-> op.actor, nonce |-> op.nonce, ts |-> op.ts]

EnvelopeTypeOK ==
    /\ signed \subseteq Operation /\ onFile \subseteq NonceRow
    /\ applied \in [Signers \X Nonces -> Nat] /\ latest \in Int

\* A nonce names one operation of its signer.
OneOpPerNonce == \A o, p \in signed : o.actor = p.actor /\ o.nonce = p.nonce => o = p

\* What has taken effect was signed.
AppliedWasSigned ==
    \A k \in Signers, n \in Nonces : applied[<<k, n>>] > 0 => \E o \in signed : o.actor = k /\ o.nonce = n

\* An operation that has taken effect is on file, or so old that no time the daemon can still use allows it.
OnFileOrTooOld ==
    \A o \in signed : applied[<<o.actor, o.nonce>>] > 0 => RowOf(o) \in onFile \/ o.ts < latest - 2 * Skew

EnvelopeIInv == EnvelopeTypeOK /\ OneOpPerNonce /\ AppliedWasSigned /\ OnFileOrTooOld /\ AppliesOnce

LEMMA EnvelopeInitially == EnvelopeInit => EnvelopeIInv
BY DEF EnvelopeInit, EnvelopeIInv, EnvelopeTypeOK, OneOpPerNonce, AppliedWasSigned, OnFileOrTooOld, AppliesOnce

\* An operation the daemon takes has not taken effect before: its row is neither remembered (it is fresh)
\* nor dropped now or earlier (its stamp is in the window of a time at most Behind below the latest).
LEMMA TakenIsNew ==
    ASSUME EnvelopeIInv, NEW op \in signed, NEW now \in Int, Take(op, now)
    PROVE  applied[<<op.actor, op.nonce>>] = 0
<1>1. Skew \in Nat /\ Behind \in Nat /\ Behind <= Skew
  BY EnvelopeAssumption
<1>2. op.actor \in Signers /\ op.nonce \in Nonces /\ op.ts \in Int /\ latest \in Int
  BY DEF EnvelopeIInv, EnvelopeTypeOK, Operation
<1>3. applied[<<op.actor, op.nonce>>] \in Nat
  BY <1>2 DEF EnvelopeIInv, EnvelopeTypeOK
<1>4. now >= latest - Behind /\ now - op.ts <= Skew
  BY DEF Take, CheckClock
<1>5. op.ts >= now - 2 * Skew /\ op.ts >= latest - 2 * Skew
  BY <1>1, <1>2, <1>4
<1>6. RowOf(op) \notin onFile
  <2>1. SUFFICES ASSUME RowOf(op) \in onFile PROVE FALSE
    OBVIOUS
  <2>2. RowOf(op) \in Remembered(now)
    BY <1>5, <2>1 DEF Remembered, RememberedFrom, RowOf
  <2> QED
    BY <2>2 DEF Take, Fresh, RowOf
<1> QED
  BY <1>1, <1>2, <1>3, <1>5, <1>6 DEF EnvelopeIInv, OnFileOrTooOld

LEMMA TakeKeeps ==
    ASSUME EnvelopeIInv, NEW op \in signed, NEW now \in Int, Take(op, now)
    PROVE  EnvelopeIInv'
<1> DEFINE kn == <<op.actor, op.nonce>>
<1>1. Skew \in Nat /\ latest \in Int /\ now <= latest
  BY EnvelopeAssumption DEF EnvelopeIInv, EnvelopeTypeOK, Take
<1>2. op \in Operation /\ kn \in Signers \X Nonces /\ op.ts \in Int /\ RowOf(op) \in NonceRow
  BY DEF EnvelopeIInv, EnvelopeTypeOK, Operation, RowOf, NonceRow
<1>3. applied' = [applied EXCEPT ![kn] = 1]
  <2>1. applied[kn] = 0
    BY TakenIsNew
  <2>2. applied' = [applied EXCEPT ![kn] = applied[kn] + 1]
    BY DEF Take
  <2> QED
    BY <2>1, <2>2
<1>4. onFile' = Remembered(now) \cup {RowOf(op)} /\ signed' = signed /\ latest' = latest
  BY DEF Take, RowOf
<1>5. EnvelopeTypeOK'
  <2>1. applied' \in [Signers \X Nonces -> Nat]
    BY <1>2, <1>3 DEF EnvelopeIInv, EnvelopeTypeOK
  <2>2. onFile' \subseteq NonceRow
    BY <1>2, <1>4 DEF EnvelopeIInv, EnvelopeTypeOK, Remembered
  <2> QED
    BY <1>4, <2>1, <2>2 DEF EnvelopeIInv, EnvelopeTypeOK
<1>6. OneOpPerNonce'
  BY <1>4 DEF EnvelopeIInv, OneOpPerNonce
<1>7. AppliedWasSigned' /\ AppliesOnce'
  BY <1>2, <1>3, <1>4 DEF EnvelopeIInv, EnvelopeTypeOK, AppliedWasSigned, AppliesOnce
<1>8. OnFileOrTooOld'
  <2>1. SUFFICES ASSUME NEW o \in signed, applied'[<<o.actor, o.nonce>>] > 0
                 PROVE  RowOf(o) \in onFile' \/ o.ts < latest - 2 * Skew
    BY <1>4 DEF OnFileOrTooOld, RowOf
  <2>2. CASE o = op
    BY <2>2, <1>4
  <2>3. CASE o # op
    <3>1. o.actor \in Signers /\ o.nonce \in Nonces /\ o.ts \in Int
      BY DEF EnvelopeIInv, EnvelopeTypeOK, Operation
    <3>2. <<o.actor, o.nonce>> # kn
      BY <2>3 DEF EnvelopeIInv, OneOpPerNonce
    <3>3. applied[<<o.actor, o.nonce>>] > 0
      BY <2>1, <3>1, <3>2, <1>2, <1>3 DEF EnvelopeIInv, EnvelopeTypeOK
    <3>4. RowOf(o) \in onFile \/ o.ts < latest - 2 * Skew
      BY <3>3 DEF EnvelopeIInv, OnFileOrTooOld
    <3> QED
      BY <1>1, <1>4, <3>1, <3>4 DEF Remembered, RememberedFrom, RowOf
  <2> QED
    BY <2>2, <2>3
<1> QED
  BY <1>5, <1>6, <1>7, <1>8 DEF EnvelopeIInv

LEMMA SignKeeps ==
    ASSUME EnvelopeIInv, NEW k \in Signers, NEW n \in Nonces, NEW ts \in Int, NEW system \in BOOLEAN,
           Sign(k, n, ts, system)
    PROVE  EnvelopeIInv'
<1> DEFINE new == [actor |-> k, nonce |-> n, ts |-> ts, system |-> system]
<1>1. new \in Operation /\ signed' = signed \cup {new} /\ UNCHANGED <<onFile, applied, latest>>
  BY DEF Sign, Operation
<1>2. applied[<<k, n>>] = 0
  BY DEF Sign, EnvelopeIInv, EnvelopeTypeOK, AppliedWasSigned
<1>3. EnvelopeTypeOK'
  BY <1>1 DEF EnvelopeIInv, EnvelopeTypeOK
<1>4. OneOpPerNonce'
  BY <1>1 DEF EnvelopeIInv, OneOpPerNonce, Sign
<1>5. AppliedWasSigned' /\ AppliesOnce'
  BY <1>1 DEF EnvelopeIInv, AppliedWasSigned, AppliesOnce
<1>6. OnFileOrTooOld'
  BY <1>1, <1>2 DEF EnvelopeIInv, OnFileOrTooOld, RowOf
<1> QED
  BY <1>3, <1>4, <1>5, <1>6 DEF EnvelopeIInv

LEMMA EnvelopeInductive == EnvelopeIInv /\ [EnvelopeStep]_envelopeVars => EnvelopeIInv'
<1> SUFFICES ASSUME EnvelopeIInv, [EnvelopeStep]_envelopeVars PROVE EnvelopeIInv'
  OBVIOUS
<1>1. CASE UNCHANGED <<signed, onFile, applied, latest>>
  BY <1>1 DEF EnvelopeIInv, EnvelopeTypeOK, OneOpPerNonce, AppliedWasSigned, OnFileOrTooOld, AppliesOnce
<1>2. CASE \E k \in Signers : RegisterIdentity(k) \/ RevokeIdentity(k) \/ RegisterSystemIdentity(k)
  BY <1>1, <1>2 DEF RegisterIdentity, RevokeIdentity, RegisterSystemIdentity
<1>3. ASSUME NEW k \in Signers, NEW n \in Nonces, NEW ts \in -Skew..(LastTime + Skew), NEW system \in BOOLEAN,
             Sign(k, n, ts, system)
      PROVE  EnvelopeIInv'
  <2>1. ts \in Int
    BY EnvelopeAssumption
  <2> QED
    BY <1>3, <2>1, SignKeeps
<1>4. ASSUME NEW op \in signed, NEW now \in -Behind..LastTime, Take(op, now) PROVE EnvelopeIInv'
  <2>1. now \in Int
    BY EnvelopeAssumption
  <2> QED
    BY <1>4, <2>1, TakeKeeps
<1>5. CASE ClockMoves
  <2>1. latest \in Int /\ Skew \in Nat /\ latest' = latest + 1 /\ UNCHANGED <<signed, onFile, applied>>
    BY <1>5, EnvelopeAssumption DEF ClockMoves, EnvelopeIInv, EnvelopeTypeOK
  <2>2. OnFileOrTooOld'
    BY <2>1 DEF EnvelopeIInv, EnvelopeTypeOK, Operation, OnFileOrTooOld, RowOf
  <2> QED
    BY <2>1, <2>2 DEF EnvelopeIInv, EnvelopeTypeOK, OneOpPerNonce, AppliedWasSigned, AppliesOnce
<1> QED
  BY <1>1, <1>2, <1>3, <1>4, <1>5 DEF EnvelopeStep, envelopeVars

\* No signed operation takes effect twice, for any signers, nonces and skew, while the time of a request
\* falls back by no more than the skew: `consume_nonce` forgets a nonce only when `check_clock` refuses its
\* stamp for good.
THEOREM SignedOnce == EnvelopeSpec => []AppliesOnce
<1>1. EnvelopeIInv => AppliesOnce
  BY DEF EnvelopeIInv
<1> QED
  BY <1>1, EnvelopeInitially, EnvelopeInductive, PTL DEF EnvelopeSpec

-----------------------------------------------------------------------------
(* Attachments, for any uploaders, blobs and quota.                            *)

Entry  == [reads : Contents, survives : Contents]
Upload == [at : {"spilling", "written", "renamed", "filed"}, by : Uploaders, blob : Blobs]

BlobTypeOK ==
    /\ charges \in Seq(Charge)
    /\ entry \in [Blobs -> Entry]
    /\ upload = NoUpload \/ upload \in Upload

Whole(b) == entry[b].reads = "whole" /\ entry[b].survives = "whole"

\* Between its rename and the sync of the directory a file is already read.
RenamedReads == UploadAt("renamed") => entry[upload.blob].reads = "whole"

\* Only that rename lies between what is read and what a loss of power leaves.
SyncedButOne == \A b \in Blobs \ hurt : b \notin Unsynced => entry[b].reads = entry[b].survives

\* A large blob that has a row, or whose row is about to be committed, is on the disk for good.
FiledIsWhole == \A b \in Big \ hurt : HasRow(b) \/ (UploadAt("filed") /\ upload.blob = b) => Whole(b)

BlobIInv == BlobTypeOK /\ RenamedReads /\ SyncedButOne /\ FiledIsWhole

LEMMA BlobInitially == BlobInit => BlobIInv
BY BlobAssumption DEF BlobInit, BlobIInv, BlobTypeOK, RenamedReads, SyncedButOne, FiledIsWhole, HasRow,
    UploadAt, NoUpload, Entry, Contents

LEMMA BeginKeeps == ASSUME BlobIInv, NEW u \in Uploaders, NEW b \in Blobs, BeginUpload(u, b) PROVE BlobIInv'
<1>1. UploadAt("idle") /\ UNCHANGED <<charges, entry, hurt>>
  BY DEF BeginUpload
<1>2. upload' \in Upload /\ upload'.at # "renamed" /\ upload'.blob = b /\ upload.at = "idle"
  BY DEF BeginUpload, Upload, UploadAt
<1>3. b \in Big /\ upload'.at = "filed" => entry[b].reads = "whole"
  BY DEF BeginUpload
<1>4. Unsynced = {} /\ Unsynced' = {}
  BY <1>2 DEF Unsynced, UploadAt
<1>5. FiledIsWhole'
  BY <1>1, <1>2, <1>3, <1>4 DEF BlobIInv, FiledIsWhole, SyncedButOne, Whole, HasRow, UploadAt
<1> QED
  BY <1>1, <1>2, <1>4, <1>5 DEF BlobIInv, BlobTypeOK, RenamedReads, SyncedButOne, UploadAt

LEMMA FileKeeps == ASSUME BlobIInv, WriteTemp \/ RenameTemp \/ SyncDir PROVE BlobIInv'
<1>1. upload \in Upload /\ upload.blob \in Blobs
  BY DEF BlobIInv, BlobTypeOK, NoUpload, Upload, WriteTemp, RenameTemp, SyncDir, UploadAt
<1>2. charges' = charges /\ \A b \in Blobs : HasRow(b)' <=> HasRow(b)
  BY DEF WriteTemp, RenameTemp, SyncDir, HasRow
<1>3. CASE WriteTemp
  <2>1. upload.at = "spilling" /\ upload' \in Upload /\ upload'.at = "written" /\ UNCHANGED <<entry, hurt>>
    BY <1>1, <1>3 DEF WriteTemp, UploadAt, Upload
  <2>2. Unsynced = {} /\ Unsynced' = {}
    BY <2>1 DEF Unsynced, UploadAt
  <2> QED
    BY <1>2, <2>1, <2>2, BlobAssumption
       DEF BlobIInv, BlobTypeOK, RenamedReads, SyncedButOne, FiledIsWhole, Whole, UploadAt
<1>4. CASE RenameTemp
  <2>1. /\ upload.at = "written" /\ upload' \in Upload /\ upload'.at = "renamed" /\ upload'.blob = upload.blob
        /\ entry' = [entry EXCEPT ![upload.blob].reads = "whole"] /\ hurt' = hurt
    BY <1>1, <1>4 DEF RenameTemp, UploadAt, Upload
  <2>2. Unsynced = {} /\ Unsynced' = {upload.blob}
    BY <2>1 DEF Unsynced, UploadAt
  <2>3. /\ entry' \in [Blobs -> Entry]
        /\ \A b \in Blobs : entry'[b].survives = entry[b].survives
        /\ \A b \in Blobs : b # upload.blob => entry'[b] = entry[b]
        /\ entry'[upload.blob].reads = "whole"
    BY <1>1, <2>1 DEF BlobIInv, BlobTypeOK, Entry, Contents
  <2>4. BlobTypeOK' /\ RenamedReads'
    BY <1>2, <2>1, <2>3 DEF BlobIInv, BlobTypeOK, RenamedReads
  <2>5. SyncedButOne'
    BY <2>1, <2>2, <2>3 DEF BlobIInv, SyncedButOne
  <2>6. FiledIsWhole'
    BY <1>2, <2>1, <2>3, BlobAssumption DEF BlobIInv, FiledIsWhole, Whole, UploadAt
  <2> QED
    BY <2>4, <2>5, <2>6 DEF BlobIInv
<1>5. CASE SyncDir
  <2>1. /\ upload.at = "renamed" /\ upload' \in Upload /\ upload'.at = "filed" /\ upload'.blob = upload.blob
        /\ entry' = [entry EXCEPT ![upload.blob].survives = "whole"] /\ hurt' = hurt \ {upload.blob}
    BY <1>1, <1>5 DEF SyncDir, UploadAt, Upload
  <2>2. Unsynced = {upload.blob} /\ Unsynced' = {}
    BY <2>1 DEF Unsynced, UploadAt
  <2>3. /\ entry' \in [Blobs -> Entry]
        /\ \A b \in Blobs : b # upload.blob => entry'[b] = entry[b]
        /\ entry'[upload.blob].reads = "whole" /\ entry'[upload.blob].survives = "whole"
    BY <1>1, <2>1 DEF BlobIInv, BlobTypeOK, RenamedReads, Entry, Contents, UploadAt
  <2>4. BlobTypeOK' /\ RenamedReads'
    BY <1>2, <2>1, <2>3 DEF BlobIInv, BlobTypeOK, RenamedReads, UploadAt
  <2>5. SyncedButOne'
    BY <2>1, <2>2, <2>3 DEF BlobIInv, SyncedButOne
  <2>6. FiledIsWhole'
    BY <1>2, <2>1, <2>3, BlobAssumption DEF BlobIInv, FiledIsWhole, Whole, UploadAt
  <2> QED
    BY <2>4, <2>5, <2>6 DEF BlobIInv
<1> QED
  BY <1>3, <1>4, <1>5

LEMMA CommitKeeps == ASSUME BlobIInv, CommitUpload PROVE BlobIInv'
<1>1. upload \in Upload /\ upload.at = "filed"
  BY DEF BlobIInv, BlobTypeOK, NoUpload, Upload, CommitUpload, UploadAt
<1>2. upload' = NoUpload /\ upload'.at = "idle" /\ UNCHANGED <<entry, hurt>>
  BY DEF CommitUpload, NoUpload
<1>3. Unsynced = {} /\ Unsynced' = {}
  BY <1>1, <1>2 DEF Unsynced, UploadAt
<1> DEFINE new == [by |-> upload.by, blob |-> upload.blob]
<1>4. new \in Charge /\ (charges' = charges \/ charges' = Append(charges, new))
  BY <1>1 DEF CommitUpload, Charge, Upload
<1>5. charges' \in Seq(Charge)
  BY <1>4 DEF BlobIInv, BlobTypeOK
<1>6. \A b \in Blobs : HasRow(b)' => HasRow(b) \/ b = upload.blob
  BY <1>4 DEF BlobIInv, BlobTypeOK, HasRow
<1>7. FiledIsWhole'
  BY <1>1, <1>2, <1>6, BlobAssumption DEF BlobIInv, FiledIsWhole, Whole, UploadAt
<1> QED
  BY <1>2, <1>3, <1>5, <1>7 DEF BlobIInv, BlobTypeOK, RenamedReads, SyncedButOne, UploadAt

LEMMA CutShortKeeps == ASSUME BlobIInv, UploadCutShort PROVE BlobIInv'
<1>1. upload' = NoUpload /\ upload'.at = "idle" /\ hurt' = hurt \cup Unsynced /\ UNCHANGED <<charges, entry>>
  BY DEF UploadCutShort, NoUpload
<1>2. Unsynced' = {}
  BY <1>1 DEF Unsynced, UploadAt
<1>3. FiledIsWhole'
  BY <1>1 DEF BlobIInv, FiledIsWhole, Whole, HasRow, UploadAt
<1> QED
  BY <1>1, <1>2, <1>3 DEF BlobIInv, BlobTypeOK, RenamedReads, SyncedButOne, UploadAt

LEMMA PowerLossKeeps == ASSUME BlobIInv, PowerLoss PROVE BlobIInv'
<1>1. upload' = NoUpload /\ upload'.at = "idle" /\ hurt' = hurt
  BY DEF PowerLoss, NoUpload
<1>2. Unsynced' = {}
  BY <1>1 DEF Unsynced, UploadAt
<1>3. PICK kept \in 0..Len(charges) : charges' = SubSeq(charges, 1, kept)
  BY DEF PowerLoss
<1>4. charges' \in Seq(Charge) /\ \A b \in Blobs : HasRow(b)' => HasRow(b)
  BY <1>3 DEF BlobIInv, BlobTypeOK, HasRow
<1>5. PICK after \in [Blobs -> Contents] :
          /\ \A b \in Blobs : after[b] \in {entry[b].reads, entry[b].survives}
          /\ entry' = [b \in Blobs |-> [reads |-> after[b], survives |-> after[b]]]
  BY DEF PowerLoss
<1>6. entry' \in [Blobs -> Entry] /\ \A b \in Blobs : entry'[b].reads = after[b] /\ entry'[b].survives = after[b]
  BY <1>5 DEF Entry
<1>7. FiledIsWhole'
  BY <1>1, <1>4, <1>5, <1>6, BlobAssumption DEF BlobIInv, FiledIsWhole, Whole, UploadAt
<1> QED
  BY <1>1, <1>2, <1>4, <1>6, <1>7 DEF BlobIInv, BlobTypeOK, RenamedReads, SyncedButOne, UploadAt

LEMMA DamageKeeps == ASSUME BlobIInv, NEW b \in Big, Damage(b) PROVE BlobIInv'
<1>1. upload' = upload /\ upload.at = "idle" /\ hurt' = hurt \cup {b} /\ charges' = charges
  BY DEF Damage, UploadAt
<1>2. PICK c \in {"none", "bad"} : entry' = [entry EXCEPT ![b] = [reads |-> c, survives |-> c]]
  BY DEF Damage
<1>3. entry' \in [Blobs -> Entry] /\ \A o \in Blobs : o # b => entry'[o] = entry[o]
  BY <1>2, BlobAssumption DEF BlobIInv, BlobTypeOK, Entry, Contents
<1>4. Unsynced = {} /\ Unsynced' = {}
  BY <1>1 DEF Unsynced, UploadAt
<1>5. FiledIsWhole'
  BY <1>1, <1>3, BlobAssumption DEF BlobIInv, FiledIsWhole, Whole, HasRow, UploadAt
<1> QED
  BY <1>1, <1>3, <1>4, <1>5 DEF BlobIInv, BlobTypeOK, RenamedReads, SyncedButOne, UploadAt

LEMMA BlobInductive == BlobIInv /\ [BlobStep]_blobVars => BlobIInv'
<1> SUFFICES ASSUME BlobIInv, [BlobStep]_blobVars PROVE BlobIInv'
  OBVIOUS
<1>1. CASE UNCHANGED blobVars
  BY <1>1 DEF blobVars, BlobIInv, BlobTypeOK, RenamedReads, SyncedButOne, FiledIsWhole, Whole, HasRow, UploadAt, Unsynced
<1>2. CASE BlobStep
  BY <1>2, BeginKeeps, FileKeeps, CommitKeeps, CutShortKeeps, PowerLossKeeps, DamageKeeps DEF BlobStep
<1> QED
  BY <1>1, <1>2

\* `put_blob_for` never leaves a row without its bytes, for any uploaders, blobs, sizes and quota: whatever is
\* killed, fails or loses power, a blob with a row reads whole unless its file was damaged or an upload of it
\* ended between the rename and the sync of the directory.
THEOREM RowsHaveBytes == BlobSpec => []RowHasItsBytes
<1>1. BlobIInv => RowHasItsBytes
  BY DEF BlobIInv, FiledIsWhole, Whole, RowHasItsBytes, GetBlob
<1> QED
  BY <1>1, BlobInitially, BlobInductive, PTL DEF BlobSpec

-----------------------------------------------------------------------------
(* The end of a job and its card, for any number of supervisors and attempts    *)
(* of a finish, and every environment.                                         *)

\* What a task of the daemon goes on from: a job that is probed, or whose finish says that its command ran, is past
\* its start, an unseen start is of a requested job, and no finish leaves the card aside unless the store refuses syncs.
SlotOk(v, r, e) ==
    /\ v.pc = "probe" => r.state # "claimed"
    /\ v.pc \in {"finish", "write"} /\ ~v.what.beforeStart => r.state # "claimed"
    /\ v.pc = "unseen" => r.state # "claimed" \/ r.requested
    /\ ~e.cardErrors => v.synced

SlotsOk == \A s \in Slots : SlotOk(fin[s], row, env)

\* The row: only a job that was started is flagged, and the card waits for the end.
RowOk(r, e) ==
    /\ r.state = "claimed" => ~r.cancel
    /\ r.state \notin Final => r.card \in {"none", "linked"}
    /\ ~e.cardErrors /\ (r.state \in {"done", "failed"} \/ (r.state \in Final /\ r.cancel)) /\ r.card # "none"
          => r.card = r.state

\* The states of a job follow one another, and a request stays.
Onward(r, q) == (r.state # "claimed" => q.state # "claimed") /\ (r.requested => q.requested)

JobTypes ==
    /\ row \in Row /\ fin \in [Slots -> Slot] /\ env \in Environment
    /\ files \in JobFiles /\ adm \in [pc : AdmPcs, k : 0..MaxAttempts] /\ spawned \in 0..MaxAttempts
JobInv == JobTypes /\ SlotsOk /\ RowOk(row, env)

LEMMA SlotForms ==
    /\ Idle \in Slot /\ Idle.pc = "idle" /\ Idle.synced = TRUE
    /\ \A pc \in SlotPcs, k \in 0..MaxAttempts : AtOf(pc, k) \in Slot /\ AtOf(pc, k).pc = pc /\ AtOf(pc, k).synced = TRUE
    /\ \A pc \in SlotPcs : At(pc) \in Slot /\ At(pc).pc = pc /\ At(pc).synced = TRUE
    /\ \A w \in Finish : Finishing(w) \in Slot /\ Finishing(w).pc = "finish" /\ Finishing(w).synced = TRUE /\ Finishing(w).what = w
    /\ Quit \in Slot /\ Quit.pc = "error" /\ Quit.synced = TRUE
<1>1. Unstarted("") \in Finish
  BY DEF Unstarted, Finish, Notes
<1>2. Idle \in Slot /\ Idle.pc = "idle" /\ Idle.synced = TRUE
  <2>1. 0 \in 0..MaxAttempts /\ 0 \in 0..FinishAttempts
    BY BoundAssumption
  <2>2. "idle" \in SlotPcs /\ "" \in Notes
    BY DEF SlotPcs, Notes
  <2> QED BY <1>1, <2>1, <2>2 DEF Idle, Slot, None
<1>3. ASSUME NEW pc \in SlotPcs, NEW k \in 0..MaxAttempts
      PROVE  AtOf(pc, k) \in Slot /\ AtOf(pc, k).pc = pc /\ AtOf(pc, k).synced = TRUE
  BY <1>2 DEF AtOf, Slot
<1>4. ASSUME NEW pc \in SlotPcs
      PROVE  At(pc) \in Slot /\ At(pc).pc = pc /\ At(pc).synced = TRUE
  BY <1>2 DEF At, Slot
<1>5. ASSUME NEW w \in Finish
      PROVE  /\ Finishing(w) \in Slot /\ Finishing(w).pc = "finish" /\ Finishing(w).synced = TRUE
             /\ Finishing(w).what = w
  BY <1>2 DEF Finishing, Slot, SlotPcs
<1>6. Quit \in Slot /\ Quit.pc = "error" /\ Quit.synced = TRUE
  BY <1>2 DEF Quit, Slot, SlotPcs
<1> QED BY <1>2, <1>3, <1>4, <1>5, <1>6

\* One task moves on, beside a row that moves onward.
LEMMA SlotMoves ==
    ASSUME fin \in [Slots -> Slot], SlotsOk, NEW s \in Slots, NEW v \in Slot, SetSlot(s, v),
           SlotOk(v, row', env'), Onward(row, row'), env' = env
    PROVE  fin' \in [Slots -> Slot] /\ SlotsOk'
<1>1. \A t \in Slots : SlotOk(fin[t], row', env')
  BY DEF SlotsOk, SlotOk, Onward
<1>2. fin' = [fin EXCEPT ![s] = v]
  BY DEF SetSlot
<1>3. fin' \in [Slots -> Slot]
  BY <1>2
<1>4. \A t \in Slots : fin'[t] = v \/ fin'[t] = fin[t]
  BY <1>2
<1>5. \A t \in Slots : SlotOk(fin'[t], row', env')
  BY <1>1, <1>4
<1> QED BY <1>3, <1>5 DEF SlotsOk

LEMMA SlotsStay ==
    ASSUME fin \in [Slots -> Slot], SlotsOk, fin' = fin, Onward(row, row'), env' = env
    PROVE  fin' \in [Slots -> Slot] /\ SlotsOk'
BY DEF SlotsOk, SlotOk, Onward

LEMMA SameOnward == ASSUME row' = row PROVE Onward(row, row')
BY DEF Onward

\* The end of a job that is recorded with a sync, or without a card to follow.
LEMMA EndKeepsRow ==
    ASSUME NEW r \in Row, NEW e, RowOk(r, e), NEW w \in Finish, Finishable(r, w),
           NEW c, c = Outcome(r.cancel, w) \/ (c = r.card /\ (r.card # "linked" \/ e.cardErrors))
    PROVE  Finished(r, w, c) \in Row /\ RowOk(Finished(r, w, c), e) /\ Onward(r, Finished(r, w, c))
<1>1. r.state \in {"claimed", "running"}
  BY DEF Finishable, AwaitingStart
<1>2. r.card \in {"none", "linked"}
  BY <1>1 DEF RowOk, Final
<1>3. Outcome(r.cancel, w) \in Final /\ (Outcome(r.cancel, w) = "cancelled" => r.cancel)
  BY DEF Outcome, Final
<1>4. EffectiveNote(w, r) \in Notes
  BY DEF EffectiveNote, Finish, Row
<1> DEFINE q == Finished(r, w, c)
<1>5. q \in Row
  BY <1>2, <1>3, <1>4 DEF Finished, Row
<1>6. q.state = Outcome(r.cancel, w) /\ q.card = c /\ q.cancel = r.cancel /\ q.requested = r.requested
  BY DEF Finished, Row
<1> HIDE DEF q
<1>7. RowOk(q, e)
  BY <1>2, <1>3, <1>6 DEF RowOk, Final
<1>8. Onward(r, q)
  BY <1>3, <1>6 DEF Onward, Final
<1> QED BY <1>5, <1>7, <1>8 DEF q

LEMMA StartKeepsRow ==
    ASSUME NEW r \in Row, NEW e, RowOk(r, e), NEW k \in 0..MaxAttempts, AwaitingStart(r)
    PROVE  /\ Started(r, k) \in Row /\ RowOk(Started(r, k), e) /\ Onward(r, Started(r, k))
           /\ Started(r, k).state = "running"
<1>1. Started(r, k) \in Row
  BY DEF Started, Row, Notes
<1>2. /\ Started(r, k).state = "running" /\ Started(r, k).card = r.card
      /\ Started(r, k).requested = r.requested /\ Started(r, k).cancel = r.cancel
  BY DEF Started, Row
<1> QED BY <1>1, <1>2 DEF RowOk, Onward, Final, AwaitingStart

\* The job directory, the admission task and the count of supervisors keep their shape.
LEMMA RestKeeps ==
    ASSUME JobInv, Next
    PROVE  files' \in JobFiles /\ adm' \in [pc : AdmPcs, k : 0..MaxAttempts] /\ spawned' \in 0..MaxAttempts
<1>0. /\ files \in JobFiles /\ adm \in [pc : AdmPcs, k : 0..MaxAttempts] /\ spawned \in 0..MaxAttempts
      /\ row \in Row /\ env \in Environment
  BY DEF JobInv, JobTypes
<1>k. Attempts \subseteq 0..MaxAttempts /\ None \in 0..MaxAttempts /\ env.attempts \in 1..MaxAttempts
  BY <1>0, BoundAssumption DEF Attempts, None, Environment
<1>f. ASSUME NEW F, F = files \/ F = [files EXCEPT !.cancel = TRUE] PROVE F \in JobFiles
  BY <1>0, <1>f DEF JobFiles
<1>p. ASSUME NEW pc \in AdmPcs, AdmAt(pc) PROVE adm' \in [pc : AdmPcs, k : 0..MaxAttempts]
  BY <1>0, <1>p DEF AdmAt
<1>n. NoStatus \in [by : 0..MaxAttempts, started : BOOLEAN, zero : BOOLEAN] /\ NoFiles \in JobFiles
  <2>1. NoStatus \in [by : 0..MaxAttempts, started : BOOLEAN, zero : BOOLEAN]
    BY <1>k DEF NoStatus
  <2> QED BY <1>k, <2>1 DEF NoFiles, JobFiles
<1> DEFINE FilesSame == UNCHANGED files
           AdmSame   == UNCHANGED <<adm, spawned>>
<1>1. CASE \E k \in Attempts : SupLaunch(k) \/ SupStep(k) \/ SupOverLimit(k) \/ SupDie(k) \/ CmdExit(k)
  <2> PICK k \in Attempts : SupLaunch(k) \/ SupStep(k) \/ SupOverLimit(k) \/ SupDie(k) \/ CmdExit(k)
    BY <1>1
  <2>k. k \in 0..MaxAttempts
    BY <1>k
  <2>1. AdmSame
    BY DEF SupLaunch, SupStep, SupPublish, SupTick, SupKill, SupFinish, SupExit, SupOverLimit, SupDie, CmdExit
  <2>2. files' = files \/ files' = [files EXCEPT !.info = k]
        \/ \E st \in [by : 0..MaxAttempts, started : BOOLEAN, zero : BOOLEAN] : files' = [files EXCEPT !.status = st]
    <3>1. CASE SupLaunch(k)
      <4>1. [by |-> k, started |-> FALSE, zero |-> FALSE] \in [by : 0..MaxAttempts, started : BOOLEAN, zero : BOOLEAN]
        BY <2>k
      <4> QED BY <3>1, <4>1 DEF SupLaunch
    <3>2. CASE SupFinish(k)
      <4>1. [by |-> k, started |-> TRUE, zero |-> cmd[k] = "ok"] \in [by : 0..MaxAttempts, started : BOOLEAN, zero : BOOLEAN]
        BY <2>k
      <4> QED BY <3>2, <4>1 DEF SupFinish
    <3>3. CASE SupPublish(k) \/ SupTick(k) \/ SupKill(k) \/ SupExit(k) \/ SupOverLimit(k) \/ SupDie(k) \/ CmdExit(k)
      BY <3>3 DEF SupPublish, SupTick, SupKill, SupExit, SupOverLimit, SupDie, CmdExit
    <3> QED BY <3>1, <3>2, <3>3 DEF SupStep
  <2>3. files' \in JobFiles
    BY <1>0, <2>k, <2>2 DEF JobFiles
  <2> QED BY <1>0, <2>1, <2>3
<1>2. CASE \E s \in Slots : SlotStep(s)
  <2> PICK s \in Slots : SlotStep(s)
    BY <1>2
  <2>1. AdmSame
    BY DEF SlotStep, ReadTask, UnseenStart, SignFinish, WriteFinish, ClearSpec, Probe, SetNote
  <2>2. files' = files \/ files' = [files EXCEPT !.spec = IF @ = "none" THEN @ ELSE "cleared"]
    BY DEF SlotStep, ReadTask, UnseenStart, SignFinish, WriteFinish, ClearSpec, Probe, SetNote
  <2>3. files' \in JobFiles
    BY <1>0, <2>2 DEF JobFiles
  <2> QED BY <1>0, <2>1, <2>3
<1>3. CASE ReapStep \/ SweepBegin \/ WorkCancel \/ WorkRun \/ RegisterEnv
  <2>1. AdmSame /\ FilesSame
    BY <1>3 DEF ReapStep, Reaped, EndSupervisorWaits, WatchAdopted, SweepBegin, WorkCancel, WorkRun, RegisterEnv
  <2> QED BY <1>0, <2>1
<1>4. CASE StopStep
  <2>1. AdmSame /\ (files' = files \/ files' = [files EXCEPT !.cancel = TRUE])
    BY <1>4 DEF StopStep, DropEnv, Stop, EndOrphan
  <2> QED BY <1>0, <1>f, <2>1
<1>5. CASE DaemonStops \/ DaemonStarts
  <2>1. FilesSame /\ spawned' = spawned /\ \E pc \in {"off", "adopt"} : adm' = [pc |-> pc, k |-> None]
    BY <1>5 DEF DaemonStops, DaemonStarts
  <2>2. PICK pc \in {"off", "adopt"} : adm' = [pc |-> pc, k |-> None]
    BY <2>1
  <2>3. pc \in AdmPcs
    BY DEF AdmPcs
  <2>4. adm' \in [pc : AdmPcs, k : 0..MaxAttempts]
    BY <1>k, <2>2, <2>3
  <2> QED BY <1>0, <2>1, <2>4
<1>6. CASE AdmStep
  <2>1. CASE AdmSpawn
    <3>1. spawned' \in 0..MaxAttempts
      BY <1>0, <1>k, <2>1, BoundAssumption DEF AdmSpawn
    <3>2. files' = files /\ adm' = [pc |-> "waiting", k |-> spawned']
      BY <2>1 DEF AdmSpawn
    <3> QED BY <1>0, <3>1, <3>2 DEF AdmPcs
  <2>2. CASE AdmPrepare
    <3>1. spawned' = spawned /\ (AdmAt("prepared") \/ AdmAt("busy"))
      BY <2>2 DEF AdmPrepare
    <3>2. ClearReports \in JobFiles
      BY <1>0, <1>k, <1>n DEF ClearReports, JobFiles
    <3>3. files' = files \/ \E c \in {"full", "minimal"} : files' = [ClearReports EXCEPT !.spec = c]
      BY <2>2 DEF AdmPrepare
    <3>4. files' \in JobFiles
      BY <1>0, <3>2, <3>3 DEF JobFiles
    <3> QED BY <1>0, <1>p, <3>1, <3>4 DEF AdmPcs
  <2>3. CASE AdmCheck
    <3>1. spawned' = spawned /\ (files' = files \/ files' = NoFiles) /\ (AdmAt("checked") \/ AdmAt("idle"))
      BY <2>3 DEF AdmCheck
    <3> QED BY <1>0, <1>n, <1>p, <3>1 DEF AdmPcs
  <2>4. CASE AdmTimedOut \/ AdmRecord
    <3>1. spawned' = spawned /\ (files' = files \/ files' = [files EXCEPT !.cancel = TRUE])
      BY <2>4 DEF AdmTimedOut, AdmRecord, EndSupervisor
    <3>2. AdmAt("busy") \/ AdmAt("env note") \/ AdmAt("idle") \/ AdmAt("failing")
      BY <2>4 DEF AdmTimedOut, AdmRecord
    <3> QED BY <1>0, <1>f, <1>p, <3>1, <3>2 DEF AdmPcs
  <2>5. CASE AdmPick \/ AdmReport \/ AdmSeesExit \/ AdmExited \/ AdmEnvNote \/ AdmFail \/ AdmResume
             \/ SettleWaiting \/ AdoptRecord \/ AdoptWatch
    <3>1. UNCHANGED <<files, spawned>>
      BY <2>5 DEF AdmPick, AdmReport, AdmSeesExit, AdmExited, AdmEnvNote, AdmFail, AdmResume, SettleWaiting,
                  AdoptRecord, AdoptWatch
    <3>2. \E pc \in AdmPcs : AdmAt(pc)
      BY <2>5, Zenon DEF AdmPcs, AdmPick, AdmReport, AdmSeesExit, AdmExited, AdmEnvNote, AdmFail, AdmResume,
                  SettleWaiting, AdoptRecord, AdoptWatch
    <3> QED BY <1>0, <1>p, <3>1, <3>2
  <2> QED BY <1>6, <2>1, <2>2, <2>3, <2>4, <2>5 DEF AdmStep
<1> QED BY <1>1, <1>2, <1>3, <1>4, <1>5, <1>6 DEF Next

\* A step that leaves the row alone and moves one task.
LEMMA RowStays ==
    ASSUME JobInv, UNCHANGED <<row, env>>,
           fin' = fin \/ \E s \in Slots : \E v \in Slot : SetSlot(s, v) /\ SlotOk(v, row, env)
    PROVE  fin' \in [Slots -> Slot] /\ SlotsOk' /\ RowOk(row, env)'
<1>1. fin \in [Slots -> Slot] /\ SlotsOk /\ RowOk(row, env) /\ Onward(row, row')
  BY SameOnward DEF JobInv, JobTypes
<1>2. CASE fin' = fin
  BY <1>1, <1>2, SlotsStay
<1>3. CASE \E s \in Slots : \E v \in Slot : SetSlot(s, v) /\ SlotOk(v, row, env)
  <2> PICK s \in Slots, v \in Slot : SetSlot(s, v) /\ SlotOk(v, row, env)
    BY <1>3
  <2>1. SlotOk(v, row', env')
    OBVIOUS
  <2> QED BY <1>1, <2>1, SlotMoves
<1> QED BY <1>1, <1>2, <1>3

\* A task that begins another part of its work carries no finish of its own.
LEMMA PlainOk ==
    ASSUME NEW v, v.pc \notin {"probe", "finish", "write", "unseen"}, v.synced = TRUE
    PROVE  \A r, e : SlotOk(v, r, e)
BY DEF SlotOk

LEMMA PlainSlots ==
    \A pc \in SlotPcs \ {"probe", "finish", "write", "unseen"} : \A k \in 0..MaxAttempts :
        AtOf(pc, k) \in Slot /\ \A r, e : SlotOk(AtOf(pc, k), r, e)
<1> SUFFICES ASSUME NEW pc \in SlotPcs \ {"probe", "finish", "write", "unseen"}, NEW k \in 0..MaxAttempts
             PROVE  AtOf(pc, k) \in Slot /\ \A r, e : SlotOk(AtOf(pc, k), r, e)
  OBVIOUS
<1>1. AtOf(pc, k) \in Slot /\ AtOf(pc, k).pc = pc /\ AtOf(pc, k).synced = TRUE
  BY SlotForms
<1> QED BY <1>1, PlainOk

LEMMA BeforeStartOk ==
    ASSUME NEW n \in Notes
    PROVE  Finishing(Unstarted(n)) \in Slot /\ \A r, e : SlotOk(Finishing(Unstarted(n)), r, e)
<1>1. Unstarted(n) \in Finish /\ Unstarted(n).beforeStart = TRUE
  BY DEF Unstarted, Finish
<1> QED BY <1>1, SlotForms DEF SlotOk

\* The transaction that ends a job: the card is moved with it.
LEMMA WriteKeeps ==
    ASSUME JobInv, NEW s \in Slots, WriteFinish(s)
    PROVE  /\ row' \in Row /\ RowOk(row, env)' /\ fin' \in [Slots -> Slot] /\ SlotsOk'
<1>0. row \in Row /\ RowOk(row, env) /\ fin \in [Slots -> Slot] /\ SlotsOk /\ env' = env
      /\ fin[s] \in Slot /\ SlotOk(fin[s], row, env) /\ fin[s].pc = "write"
  BY DEF JobInv, JobTypes, SlotsOk, WriteFinish
<1>w. fin[s].what \in Finish /\ fin[s].stale \in 0..FinishAttempts
  BY <1>0 DEF Slot
<1>1. CASE ~IsOpen(row) /\ SetSlot(s, Idle) /\ UNCHANGED row
  BY <1>0, <1>1, RowStays, SlotForms, PlainOk
<1>2. CASE IsOpen(row) /\ ~SameReading(s) /\ UNCHANGED row
           /\ SetSlot(s, IF fin[s].stale + 1 >= FinishAttempts THEN Quit
                         ELSE [fin[s] EXCEPT !.pc = "finish", !.stale = @ + 1])
  <2>1. CASE SetSlot(s, Quit)
    BY <1>0, <1>2, <2>1, RowStays, SlotForms, PlainOk
  <2>2. CASE /\ fin[s].stale + 1 < FinishAttempts
             /\ SetSlot(s, [fin[s] EXCEPT !.pc = "finish", !.stale = @ + 1])
    <3> DEFINE v == [fin[s] EXCEPT !.pc = "finish", !.stale = @ + 1]
    <3>1. fin[s].stale + 1 \in 0..FinishAttempts
      BY <1>w, <2>2, BoundAssumption
    <3>2. v \in Slot /\ v.pc = "finish" /\ v.what = fin[s].what /\ v.synced = fin[s].synced
      BY <1>0, <3>1 DEF Slot, SlotPcs
    <3>3. SetSlot(s, v)
      BY <2>2
    <3> HIDE DEF v
    <3>4. SlotOk(v, row, env)
      BY <1>0, <3>2 DEF SlotOk
    <3> QED BY <1>0, <1>2, <3>2, <3>3, <3>4, RowStays
  <2> QED BY <1>2, <1>w, <2>1, <2>2, BoundAssumption
\* A finish whose job has not started would be refused: it says that the command did not run.  A sync is never
\* refused, since it was signed from this reading.
<1>3. CASE /\ IsOpen(row) /\ SameReading(s) /\ UNCHANGED row
           /\ ~Finishable(row, fin[s].what) \/ (Synced(s) /\ (env.cardErrors \/ ~SyncMatches(s)))
           /\ SetSlot(s, IF Synced(s) THEN [fin[s] EXCEPT !.pc = "finish", !.synced = FALSE] ELSE Quit)
  <2>1. CASE SetSlot(s, Quit)
    BY <1>0, <1>3, <2>1, RowStays, SlotForms, PlainOk
  <2>2. CASE SetSlot(s, [fin[s] EXCEPT !.pc = "finish", !.synced = FALSE])
    <3> DEFINE v == [fin[s] EXCEPT !.pc = "finish", !.synced = FALSE]
    <3>1. v \in Slot /\ v.pc = "finish" /\ v.what = fin[s].what
      BY <1>0 DEF Slot, SlotPcs
    <3>2. SetSlot(s, v)
      BY <2>2
    <3>3. SyncMatches(s)
      BY <1>3 DEF SyncMatches, SameReading
    <3>4. Finishable(row, fin[s].what)
      BY <1>0, <1>3, <1>w DEF Finishable, IsOpen, AwaitingStart, SlotOk, Finish
    <3>5. env.cardErrors
      BY <1>3, <3>3, <3>4
    <3> HIDE DEF v
    <3>6. SlotOk(v, row, env)
      BY <1>0, <3>1, <3>5 DEF SlotOk
    <3> QED BY <1>0, <1>3, <3>1, <3>2, <3>6, RowStays
  <2> QED BY <1>3, <2>1, <2>2
<1>4. CASE /\ IsOpen(row) /\ SameReading(s) /\ Finishable(row, fin[s].what)
           /\ row' = Finished(row, fin[s].what, IF Synced(s) THEN Outcome(row.cancel, fin[s].what) ELSE row.card)
           /\ SetSlot(s, At("clear"))
  <2> DEFINE c == IF Synced(s) THEN Outcome(row.cancel, fin[s].what) ELSE row.card
  <2>1. c = Outcome(row.cancel, fin[s].what) \/ (c = row.card /\ (row.card # "linked" \/ env.cardErrors))
    <3>1. env.cardErrors \/ fin[s].synced
      BY <1>0 DEF SlotOk
    <3> QED BY <3>1 DEF Synced
  <2>2. row' = Finished(row, fin[s].what, c)
    BY <1>4
  <2> HIDE DEF c
  <2>3. row' \in Row /\ RowOk(row', env) /\ Onward(row, row')
    BY <1>0, <1>w, <1>4, <2>1, <2>2, EndKeepsRow
  <2>4. At("clear") \in Slot /\ SlotOk(At("clear"), row', env')
    BY SlotForms, PlainOk DEF SlotPcs
  <2> QED BY <1>0, <1>4, <2>3, <2>4, SlotMoves
<1> QED BY <1>1, <1>2, <1>3, <1>4 DEF WriteFinish

\* The note of a row is written in any state.
LEMMA NoteKeepsRow ==
    ASSUME NEW r \in Row, NEW e, RowOk(r, e), NEW n \in Notes
    PROVE  [r EXCEPT !.note = n] \in Row /\ RowOk([r EXCEPT !.note = n], e) /\ Onward(r, [r EXCEPT !.note = n])
BY DEF Row, RowOk, Onward, Final

\* A finish, one await at a time.
LEMMA SlotStepKeeps ==
    ASSUME JobInv, NEW s \in Slots, SlotStep(s)
    PROVE  /\ row' \in Row /\ RowOk(row, env)' /\ fin' \in [Slots -> Slot] /\ SlotsOk'
<1>0. row \in Row /\ RowOk(row, env) /\ fin \in [Slots -> Slot] /\ SlotsOk /\ files \in JobFiles
      /\ fin[s] \in Slot /\ SlotOk(fin[s], row, env)
  BY DEF JobInv, JobTypes, SlotsOk
<1>e. env' = env
  BY DEF SlotStep, ReadTask, UnseenStart, SignFinish, WriteFinish, ClearSpec, Probe, SetNote
<1>q. ASSUME row' = row, NEW v \in Slot, SetSlot(s, v), SlotOk(v, row, env)
      PROVE  row' \in Row /\ RowOk(row, env)' /\ fin' \in [Slots -> Slot] /\ SlotsOk'
  BY <1>0, <1>e, <1>q, RowStays
<1>i. Idle \in Slot /\ SlotOk(Idle, row, env)
  BY SlotForms, PlainOk
<1>1. CASE ReadTask(s)
  <2>0. row' = row
    BY <1>1 DEF ReadTask
  <2>1. CASE SetSlot(s, Idle)
    BY <1>i, <1>q, <2>0, <2>1
  <2>2. CASE row.state = "running" /\ SetSlot(s, At("probe"))
    <3>1. At("probe") \in Slot /\ SlotOk(At("probe"), row, env)
      BY <2>2, SlotForms DEF SlotPcs, SlotOk
    <3> QED BY <1>q, <2>0, <2>2, <3>1
  <2>3. CASE IsOpen(row) /\ SetSlot(s, [Finishing(FromStatus(files.status)) EXCEPT
                          !.pc = IF row.state = "claimed" /\ files.status.started THEN "unseen" ELSE "finish"])
    <3> DEFINE pc == IF row.state = "claimed" /\ files.status.started THEN "unseen" ELSE "finish"
               w  == FromStatus(files.status)
               v  == [Finishing(w) EXCEPT !.pc = pc]
    <3>1. files.status.started \in BOOLEAN /\ files.status.zero \in BOOLEAN
      BY <1>0 DEF JobFiles
    <3>2. w \in Finish /\ w.beforeStart = ~files.status.started
      BY <3>1 DEF FromStatus, Finish, Notes
    <3>3. pc \in SlotPcs /\ (pc = "unseen" \/ pc = "finish") /\ (pc = "finish" => row.state # "claimed" \/ w.beforeStart)
      BY <3>2 DEF SlotPcs
    <3>4. SetSlot(s, v)
      BY <2>3
    <3> HIDE DEF pc, w
    <3>5. Finishing(w) \in Slot /\ Finishing(w).synced = TRUE /\ Finishing(w).what = w
      BY <3>2, SlotForms
    <3>6. v \in Slot /\ v.pc = pc /\ v.what = w /\ v.synced = TRUE
      BY <3>3, <3>5 DEF Slot
    <3> HIDE DEF v
    <3>7. SlotOk(v, row, env)
      BY <2>3, <3>3, <3>6 DEF SlotOk, IsOpen
    <3> QED BY <1>q, <2>0, <3>4, <3>6, <3>7
  <2> QED BY <1>1, <2>1, <2>2, <2>3 DEF ReadTask
<1>2. CASE UnseenStart(s)
  <2> DEFINE v == [fin[s] EXCEPT !.pc = "finish"]
  <2>1. SetSlot(s, v) /\ row' = (IF AwaitingStart(row) THEN Started(row, files.info) ELSE row) /\ fin[s].pc = "unseen"
    BY <1>2 DEF UnseenStart
  <2>2. v \in Slot /\ v.pc = "finish" /\ v.synced = fin[s].synced
    BY <1>0 DEF Slot, SlotPcs
  <2> HIDE DEF v
  <2>3. files.info \in 0..MaxAttempts
    BY <1>0 DEF JobFiles
  <2>4. row' \in Row /\ RowOk(row', env) /\ Onward(row, row') /\ row'.state # "claimed"
    <3>1. CASE AwaitingStart(row)
      BY <1>0, <2>1, <2>3, <3>1, StartKeepsRow
    <3>2. CASE ~AwaitingStart(row)
      BY <1>0, <2>1, <3>2, SameOnward DEF SlotOk, AwaitingStart
    <3> QED BY <3>1, <3>2
  <2>5. SlotOk(v, row', env')
    BY <1>0, <1>e, <2>2, <2>4 DEF SlotOk
  <2> QED BY <1>0, <1>e, <2>1, <2>2, <2>4, <2>5, SlotMoves
<1>3. CASE SignFinish(s)
  <2>0. row' = row /\ fin[s].pc = "finish"
    BY <1>3 DEF SignFinish
  <2>1. CASE SetSlot(s, Idle)
    BY <1>i, <1>q, <2>0, <2>1
  <2>2. CASE SetSlot(s, [fin[s] EXCEPT !.pc = "write", !.cancel = row.cancel, !.note = row.note])
    <3> DEFINE v == [fin[s] EXCEPT !.pc = "write", !.cancel = row.cancel, !.note = row.note]
    <3>1. row.cancel \in BOOLEAN /\ row.note \in Notes /\ "write" \in SlotPcs
      BY <1>0 DEF Row, SlotPcs
    <3>2. v \in Slot /\ v.pc = "write" /\ v.what = fin[s].what /\ v.synced = fin[s].synced
      BY <1>0, <3>1 DEF Slot
    <3>3. SetSlot(s, v)
      BY <2>2
    <3> HIDE DEF v
    <3>4. SlotOk(v, row, env)
      BY <1>0, <2>0, <3>2 DEF SlotOk
    <3> QED BY <1>q, <2>0, <3>2, <3>3, <3>4
  <2> QED BY <1>3, <2>1, <2>2 DEF SignFinish
<1>4. CASE WriteFinish(s)
  BY <1>4, WriteKeeps
<1>5. CASE ClearSpec(s)
  BY <1>5, <1>i, <1>q DEF ClearSpec
<1>6. CASE Probe(s)
  <2>0. row' = row /\ fin[s].pc = "probe" /\ row.state # "claimed"
    BY <1>0, <1>6 DEF Probe, SlotOk
  <2> DEFINE w == [zero |-> FALSE, beforeStart |-> FALSE, note |-> "no status"]
  <2>1. SetSlot(s, Idle) \/ SetSlot(s, At("note")) \/ SetSlot(s, Finishing(w))
    BY <1>6 DEF Probe
  <2>2. w \in Finish
    BY DEF Finish, Notes
  <2> HIDE DEF w
  <2>3. At("note") \in Slot /\ SlotOk(At("note"), row, env)
    BY SlotForms, PlainOk DEF SlotPcs
  <2>4. Finishing(w) \in Slot /\ SlotOk(Finishing(w), row, env)
    BY <2>0, <2>2, SlotForms DEF SlotOk
  <2> QED BY <1>i, <1>q, <2>0, <2>1, <2>3, <2>4
<1>7. CASE SetNote(s)
  <2>1. row' = [row EXCEPT !.note = "runs on"] /\ SetSlot(s, Idle) /\ "runs on" \in Notes
    BY <1>7 DEF SetNote, Notes
  <2>2. row' \in Row /\ RowOk(row', env) /\ Onward(row, row')
    BY <1>0, <2>1, NoteKeepsRow
  <2>3. SlotOk(Idle, row', env')
    BY SlotForms, PlainOk
  <2> QED BY <1>0, <1>e, <1>i, <2>1, <2>2, <2>3, SlotMoves
<1> QED BY <1>1, <1>2, <1>3, <1>4, <1>5, <1>6, <1>7 DEF SlotStep

\* A step that moves two tasks beside the same row.
LEMMA TwoMove ==
    ASSUME JobInv, UNCHANGED <<row, env>>, NEW s \in Slots, NEW t \in Slots, NEW v \in Slot, NEW u \in Slot,
           fin' = [fin EXCEPT ![s] = v, ![t] = u], SlotOk(v, row, env), SlotOk(u, row, env)
    PROVE  fin' \in [Slots -> Slot] /\ SlotsOk' /\ RowOk(row, env)'
<1>1. fin \in [Slots -> Slot] /\ SlotsOk /\ RowOk(row, env)
  BY DEF JobInv, JobTypes
<1>2. fin' \in [Slots -> Slot] /\ \A x \in Slots : fin'[x] = v \/ fin'[x] = u \/ fin'[x] = fin[x]
  BY <1>1
<1>3. \A x \in Slots : SlotOk(fin'[x], row, env)
  BY <1>1, <1>2 DEF SlotsOk
<1> QED BY <1>1, <1>2, <1>3 DEF SlotsOk

\* What the sweep begins with a running job.
LEMMA SweptOk == ASSUME row.state = "running" PROVE Swept \in Slot /\ SlotOk(Swept, row, env)
<1>1. At("read") \in Slot /\ SlotOk(At("read"), row, env)
  BY SlotForms, PlainOk DEF SlotPcs
<1>2. At("probe") \in Slot /\ SlotOk(At("probe"), row, env)
  BY SlotForms DEF SlotPcs, SlotOk
<1> QED BY <1>1, <1>2 DEF Swept

\* The other tasks of the daemon, which record no end.
LEMMA TaskKeeps ==
    ASSUME JobInv, ReapStep \/ StopStep \/ SweepBegin \/ WorkCancel \/ WorkRun \/ RegisterEnv \/ DaemonStops \/ DaemonStarts
    PROVE  /\ row' \in Row /\ RowOk(row, env)' /\ fin' \in [Slots -> Slot] /\ SlotsOk' /\ env' = env
<1>0. row \in Row /\ RowOk(row, env) /\ fin \in [Slots -> Slot] /\ SlotsOk /\ files \in JobFiles
  BY DEF JobInv, JobTypes
<1>s. "reap" \in Slots /\ "stop" \in Slots /\ "sweep" \in Slots
  BY DEF Slots
<1>a. \A k \in 0..MaxAttempts : /\ AtOf("stop", k) \in Slot /\ \A r, e : SlotOk(AtOf("stop", k), r, e)
                                /\ AtOf("orphan", k) \in Slot /\ \A r, e : SlotOk(AtOf("orphan", k), r, e)
  BY PlainSlots DEF SlotPcs
<1>p. /\ At("read") \in Slot /\ \A r, e : SlotOk(At("read"), r, e)
      /\ At("dropenv") \in Slot /\ \A r, e : SlotOk(At("dropenv"), r, e)
      /\ Idle \in Slot /\ \A r, e : SlotOk(Idle, r, e)
  BY SlotForms, PlainOk DEF SlotPcs
<1>q. ASSUME UNCHANGED <<row, env>>, NEW s \in Slots, NEW v \in Slot, SetSlot(s, v), SlotOk(v, row, env)
      PROVE  row' \in Row /\ RowOk(row, env)' /\ fin' \in [Slots -> Slot] /\ SlotsOk' /\ env' = env
  BY <1>0, <1>q, RowStays
<1>u. ASSUME UNCHANGED <<row, env, fin>>
      PROVE  row' \in Row /\ RowOk(row, env)' /\ fin' \in [Slots -> Slot] /\ SlotsOk' /\ env' = env
  BY <1>0, <1>u, RowStays
<1>1. CASE ReapStep
  <2>1. UNCHANGED <<row, env>> /\ (SetSlot("reap", At("read")) \/ SetSlot("reap", Idle))
    BY <1>1 DEF ReapStep, Reaped, EndSupervisorWaits, WatchAdopted
  <2> QED BY <1>s, <1>p, <1>q, <2>1
<1>2. CASE StopStep
  <2>n. Named \in 0..MaxAttempts
    BY <1>0 DEF Named, JobFiles, Row
  <2>1. /\ UNCHANGED <<row, env>>
        /\ SetSlot("stop", At("read")) \/ SetSlot("stop", Idle) \/ SetSlot("stop", AtOf("orphan", Named))
    BY <1>2 DEF StopStep, DropEnv, Stop, EndOrphan
  <2> QED BY <1>s, <1>a, <1>p, <1>q, <2>n, <2>1
<1>3. CASE SweepBegin
  <2>1. UNCHANGED <<row, env>> /\ row.state = "running" /\ SetSlot("sweep", Swept)
    BY <1>3 DEF SweepBegin
  <2> QED BY <1>s, <1>q, <2>1, SweptOk
<1>4. CASE WorkCancel
  <2>e. env' = env
    BY <1>4 DEF WorkCancel
  <2>1. CASE /\ row.state = "running" /\ row' = [row EXCEPT !.cancel = TRUE, !.note = "cancelled"]
             /\ SetSlot("stop", AtOf("stop", row.sup))
    <3>1. row' \in Row /\ RowOk(row', env) /\ Onward(row, row')
      BY <1>0, <2>1 DEF Row, RowOk, Onward, Final, Notes
    <3>2. row.sup \in 0..MaxAttempts
      BY <1>0 DEF Row
    <3>3. AtOf("stop", row.sup) \in Slot /\ SlotOk(AtOf("stop", row.sup), row', env')
      BY <1>a, <3>2
    <3> QED BY <1>0, <1>s, <2>e, <2>1, <3>1, <3>3, SlotMoves
  <2>2. CASE row.state = "claimed" /\ row' = [row EXCEPT !.state = "cancelled"] /\ SetSlot("stop", At("dropenv"))
    <3>1. row' \in Row /\ RowOk(row', env) /\ Onward(row, row')
      BY <1>0, <2>2 DEF Row, RowOk, Onward, Final
    <3> QED BY <1>0, <1>s, <1>p, <2>e, <2>2, <3>1, SlotMoves
  <2> QED BY <1>4, <2>1, <2>2 DEF WorkCancel
<1>5. CASE WorkRun
  <2>1. row' = [row EXCEPT !.requested = TRUE] /\ fin' = fin /\ env' = env
    BY <1>5 DEF WorkRun, NoRun
  <2>2. row' \in Row /\ RowOk(row', env) /\ Onward(row, row')
    BY <1>0, <2>1 DEF Row, RowOk, Onward, Final
  <2> QED BY <1>0, <2>1, <2>2, SlotsStay
<1>6. CASE RegisterEnv \/ DaemonStarts
  BY <1>6, <1>u DEF RegisterEnv, DaemonStarts, NoRun
<1>7. CASE DaemonStops
  <2>1. UNCHANGED <<row, env>> /\ fin' = [s \in Slots |-> Idle]
    BY <1>7 DEF DaemonStops, NoRun
  <2>2. fin' \in [Slots -> Slot] /\ \A s \in Slots : fin'[s] = Idle
    BY <1>p, <2>1
  <2> QED BY <1>0, <1>p, <2>1, <2>2 DEF SlotsOk
<1> QED BY <1>1, <1>2, <1>3, <1>4, <1>5, <1>6, <1>7

\* Admission and adoption: a start is recorded, and an end before the start.
LEMMA AdmKeeps ==
    ASSUME JobInv, AdmStep
    PROVE  /\ row' \in Row /\ RowOk(row, env)' /\ fin' \in [Slots -> Slot] /\ SlotsOk' /\ env' = env
<1>0. row \in Row /\ RowOk(row, env) /\ fin \in [Slots -> Slot] /\ SlotsOk /\ files \in JobFiles
      /\ adm.k \in 0..MaxAttempts /\ files.info \in 0..MaxAttempts /\ Named \in 0..MaxAttempts
  BY DEF JobInv, JobTypes, Named, JobFiles, Row
<1>e. env' = env
  BY DEF AdmStep, AdmPick, AdmPrepare, AdmCheck, AdmSpawn, AdmReport, AdmSeesExit, AdmExited, AdmTimedOut, AdmRecord,
         AdmEnvNote, AdmFail, AdmResume, SettleWaiting, AdoptRecord, AdoptWatch, NoRun
<1>s. "reap" \in Slots /\ "adm" \in Slots
  BY DEF Slots
<1>a. \A k \in 0..MaxAttempts : /\ AtOf("wait", k) \in Slot /\ \A r, e : SlotOk(AtOf("wait", k), r, e)
                                /\ AtOf("ending", k) \in Slot /\ \A r, e : SlotOk(AtOf("ending", k), r, e)
                                /\ AtOf("watch", k) \in Slot /\ \A r, e : SlotOk(AtOf("watch", k), r, e)
  BY PlainSlots DEF SlotPcs
<1>p. /\ At("read") \in Slot /\ \A r, e : SlotOk(At("read"), r, e)
      /\ Idle \in Slot /\ \A r, e : SlotOk(Idle, r, e)
  BY SlotForms, PlainOk DEF SlotPcs
<1>b. \A n \in {"not started", "exited", "late"} :
          Finishing(Unstarted(n)) \in Slot /\ \A r, e : SlotOk(Finishing(Unstarted(n)), r, e)
  BY BeforeStartOk DEF Notes
<1>q. ASSUME row' = row, NEW s \in Slots, NEW v \in Slot, SetSlot(s, v), SlotOk(v, row, env)
      PROVE  row' \in Row /\ RowOk(row, env)' /\ fin' \in [Slots -> Slot] /\ SlotsOk' /\ env' = env
  BY <1>0, <1>e, <1>q, RowStays
<1>u. ASSUME UNCHANGED <<row, fin>>
      PROVE  row' \in Row /\ RowOk(row, env)' /\ fin' \in [Slots -> Slot] /\ SlotsOk' /\ env' = env
  BY <1>0, <1>e, <1>u, RowStays
<1>1. CASE AdmPick \/ AdmCheck \/ AdmSpawn \/ AdmSeesExit
  <2>1. UNCHANGED <<row, fin>>
    BY <1>1 DEF AdmPick, AdmCheck, AdmSpawn, AdmSeesExit
  <2> QED BY <1>u, <2>1
<1>2. CASE AdmPrepare \/ AdmExited \/ AdmResume \/ SettleWaiting
  <2>1. /\ row' = row
        /\ \/ fin' = fin \/ SetSlot("adm", Idle) \/ SetSlot("adm", At("read"))
           \/ \E n \in {"not started", "exited", "late"} : SetSlot("adm", Finishing(Unstarted(n)))
    BY <1>2 DEF AdmPrepare, AdmExited, AdmResume, SettleWaiting
  <2> QED BY <1>u, <1>s, <1>p, <1>b, <1>q, <2>1
<1>3. CASE AdmReport
  <2>1. row' = row
    BY <1>3 DEF AdmReport
  <2>2. CASE fin' = fin
    BY <1>u, <2>1, <2>2
  <2>3. CASE fin' = [fin EXCEPT !["reap"] = AtOf("wait", adm.k), !["adm"] = At("read")]
    BY <1>0, <1>e, <1>s, <1>a, <1>p, <2>1, <2>3, TwoMove
  <2> QED BY <1>3, <2>2, <2>3 DEF AdmReport
<1>4. CASE AdmTimedOut
  <2>1. /\ row' = row
        /\ fin' = [fin EXCEPT !["reap"] = AtOf("ending", adm.k), !["adm"] = Finishing(Unstarted("late"))]
    BY <1>4 DEF AdmTimedOut
  <2> QED BY <1>0, <1>e, <1>s, <1>a, <1>b, <2>1, TwoMove
<1>5. CASE AdoptWatch
  <2>1. row' = row
    BY <1>5 DEF AdoptWatch
  <2> DEFINE v == IF row.state = "running" /\ files.status = NoStatus /\ Alive(Named) THEN AtOf("watch", Named) ELSE Idle
             u == IF row.state = "running" THEN Swept ELSE Idle
  <2>2. fin' = [fin EXCEPT !["reap"] = v, !["adm"] = u]
    BY <1>5 DEF AdoptWatch
  <2>3. v \in Slot /\ SlotOk(v, row, env)
    BY <1>0, <1>a, <1>p
  <2>4. u \in Slot /\ SlotOk(u, row, env)
    BY <1>p, SweptOk
  <2> HIDE DEF v, u
  <2> QED BY <1>0, <1>e, <1>s, <2>1, <2>2, <2>3, <2>4, TwoMove
<1>6. CASE AdmRecord
  <2>1. CASE AwaitingStart(row) /\ row' = Started(row, files.info) /\ (fin' = fin \/ SetSlot("reap", AtOf("wait", adm.k)))
    <3>1. row' \in Row /\ RowOk(row', env) /\ Onward(row, row')
      BY <1>0, <2>1, StartKeepsRow
    <3>2. CASE fin' = fin
      BY <1>0, <1>e, <3>1, <3>2, SlotsStay
    <3>3. CASE SetSlot("reap", AtOf("wait", adm.k))
      BY <1>0, <1>e, <1>s, <1>a, <3>1, <3>3, SlotMoves
    <3> QED BY <2>1, <3>2, <3>3
  <2>2. CASE row' = row /\ SetSlot("reap", AtOf("ending", adm.k))
    BY <1>0, <1>s, <1>a, <1>q, <2>2
  <2> QED BY <1>6, <2>1, <2>2 DEF AdmRecord
<1>7. CASE AdmEnvNote
  <2>1. row' = [row EXCEPT !.note = "env"] /\ SetSlot("reap", AtOf("wait", adm.k)) /\ "env" \in Notes
    BY <1>7 DEF AdmEnvNote, Notes
  <2>2. row' \in Row /\ RowOk(row', env) /\ Onward(row, row')
    BY <1>0, <2>1, NoteKeepsRow
  <2> QED BY <1>0, <1>e, <1>s, <1>a, <2>1, <2>2, SlotMoves
<1>8. CASE AdmFail
  <2> DEFINE w == Unstarted("not started")
  <2>f. fin' = fin
    BY <1>8 DEF AdmFail
  <2>w. w \in Finish
    BY DEF Unstarted, Finish, Notes
  <2>1. CASE row' = row
    BY <1>u, <2>f, <2>1
  <2>2. CASE /\ Finishable(row, w)
             /\ \/ row' = Finished(row, w, IF row.card = "linked" THEN Outcome(row.cancel, w) ELSE row.card)
                \/ env.cardErrors /\ row' = Finished(row, w, row.card)
    <3>1. PICK c : /\ row' = Finished(row, w, c)
                   /\ c = Outcome(row.cancel, w) \/ (c = row.card /\ (row.card # "linked" \/ env.cardErrors))
      BY <2>2
    <3> HIDE DEF w
    <3>2. row' \in Row /\ RowOk(row', env) /\ Onward(row, row')
      BY <1>0, <2>w, <2>2, <3>1, EndKeepsRow
    <3> QED BY <1>0, <1>e, <2>f, <3>2, SlotsStay
  <2> QED BY <1>8, <2>1, <2>2 DEF AdmFail
<1>9. CASE AdoptRecord
  <2>1. fin' = fin /\ row' = (IF AwaitingStart(row) THEN Started(row, files.info) ELSE row)
    BY <1>9 DEF AdoptRecord
  <2>2. row' \in Row /\ RowOk(row', env) /\ Onward(row, row')
    <3>1. CASE AwaitingStart(row)
      BY <1>0, <2>1, <3>1, StartKeepsRow
    <3>2. CASE ~AwaitingStart(row)
      BY <1>0, <2>1, <3>2, SameOnward
    <3> QED BY <3>1, <3>2
  <2> QED BY <1>0, <1>e, <2>1, <2>2, SlotsStay
<1> QED BY <1>1, <1>2, <1>3, <1>4, <1>5, <1>6, <1>7, <1>8, <1>9 DEF AdmStep

LEMMA JobInitially == Init => JobInv
<1> SUFFICES ASSUME Init PROVE JobInv
  OBVIOUS
<1>1. env \in Environment
  BY EnvironmentAssumption DEF Init
<1>2. None \in 0..MaxAttempts
  BY BoundAssumption DEF None
<1>3. NoStatus \in [by : 0..MaxAttempts, started : BOOLEAN, zero : BOOLEAN]
  BY <1>2 DEF NoStatus
<1>4. files \in JobFiles
  BY <1>2, <1>3 DEF Init, NoFiles, JobFiles
<1>5. env.card \in {"none", "linked"}
  BY <1>1 DEF Environment
<1>6. row = [state |-> "claimed", requested |-> FALSE, cancel |-> FALSE, note |-> "", sup |-> None, card |-> env.card]
  BY DEF Init
<1>7. row \in Row
  BY <1>2, <1>5, <1>6 DEF Row, Notes
<1>8. RowOk(row, env)
  BY <1>5, <1>6 DEF RowOk, Final
<1>9. adm \in [pc : AdmPcs, k : 0..MaxAttempts] /\ spawned \in 0..MaxAttempts
  BY <1>2 DEF Init, AdmPcs, None
<1>10. fin = [s \in Slots |-> Idle] /\ Idle \in Slot /\ SlotOk(Idle, row, env)
  BY SlotForms, PlainOk DEF Init
<1>11. fin \in [Slots -> Slot] /\ SlotsOk
  BY <1>10 DEF SlotsOk
<1> QED BY <1>1, <1>4, <1>7, <1>8, <1>9, <1>11 DEF JobInv, JobTypes

LEMMA JobStep == JobInv /\ [Next]_vars => JobInv'
<1> SUFFICES ASSUME JobInv, [Next]_vars PROVE JobInv'
  OBVIOUS
<1>1. CASE UNCHANGED vars
  BY <1>1 DEF JobInv, JobTypes, SlotsOk, vars
<1>2. CASE Next
  <2>1. row' \in Row /\ RowOk(row, env)' /\ fin' \in [Slots -> Slot] /\ SlotsOk' /\ env' = env
    <3>1. CASE \E k \in Attempts : SupLaunch(k) \/ SupStep(k) \/ SupOverLimit(k) \/ SupDie(k) \/ CmdExit(k)
      <4>1. UNCHANGED <<row, env, fin>>
        BY <3>1 DEF SupLaunch, SupStep, SupPublish, SupTick, SupKill, SupFinish, SupExit, SupOverLimit, SupDie, CmdExit
      <4> QED BY <4>1, RowStays DEF JobInv, JobTypes
    <3>2. CASE \E s \in Slots : SlotStep(s)
      <4> PICK s \in Slots : SlotStep(s)
        BY <3>2
      <4>1. env' = env
        BY DEF SlotStep, ReadTask, UnseenStart, SignFinish, WriteFinish, ClearSpec, Probe, SetNote
      <4> QED BY <4>1, SlotStepKeeps
    <3>3. CASE AdmStep
      BY <3>3, AdmKeeps
    <3>4. CASE ReapStep \/ StopStep \/ SweepBegin \/ WorkCancel \/ WorkRun \/ RegisterEnv \/ DaemonStops \/ DaemonStarts
      BY <3>4, TaskKeeps
    <3> QED BY <1>2, <3>1, <3>2, <3>3, <3>4 DEF Next
  <2>2. files' \in JobFiles /\ adm' \in [pc : AdmPcs, k : 0..MaxAttempts] /\ spawned' \in 0..MaxAttempts
    BY <1>2, RestKeeps
  <2>3. env' \in Environment
    BY <2>1 DEF JobInv, JobTypes
  <2> QED BY <2>1, <2>2, <2>3 DEF JobInv, JobTypes
<1> QED BY <1>1, <1>2

\* Whatever interleaving of the daemon's tasks ends a job, and however often the daemon stops, the card that is linked
\* to the task is in the state of its end, when the store takes card syncs: finish_running signs a finish
\* again when a cancel or a note came between its reading and its write, and never gives the card up.
THEOREM CardFollowsTheJob == Spec => []CardFollows
<1>1. JobInv => CardFollows
  BY DEF JobInv, RowOk, CardFollows, Ended, Final
<1> QED BY <1>1, JobInitially, JobStep, PTL DEF Spec

-----------------------------------------------------------------------------
(* Admission: numbers, and what a pass keeps.                                   *)

LEMMA EarliestOf ==
    ASSUME NEW S \in SUBSET Nat, S # {} PROVE Min(S) \in S /\ \A n \in S : Min(S) <= n
<1> DEFINE R == OpToRel(<, Nat)
<1>1. IsWellFoundedOn(R, Nat)
  BY NatLessThanWellFounded
<1>2. \A x, y \in Nat : x < y => <<x, y>> \in R
  BY DEF OpToRel
<1> HIDE DEF R
<1>3. PICK x \in S : \A y \in S : ~(<<y, x>> \in R)
  BY <1>1, WFMin
<1>4. ASSUME NEW y \in S PROVE x <= y
  <2>1. x \in Nat /\ y \in Nat /\ ~(y < x)
    BY <1>2, <1>3
  <2> QED BY <2>1
<1> QED BY <1>4 DEF Min

\* The sum over no job.
LEMMA TotalOfNone == \A f : Total(f, {}) = 0
<1> SUFFICES ASSUME NEW f PROVE Total(f, {}) = 0
  OBVIOUS
<1> DEFINE Step(g) == [s \in SUBSET {} |-> IF s = {} THEN 0 ELSE f[CHOOSE x \in s : TRUE] + g[s \ {CHOOSE x \in s : TRUE}]]
           iter == CHOOSE g : g = Step(g)
<1>1. Total(f, {}) = iter[{}]
  BY DEF Total, MapThenSumSet, MapThenFoldSet
<1>2. \E g : g = Step(g)
  <2> DEFINE h == [s \in SUBSET {} |-> 0]
  <2>1. h = Step(h)
    OBVIOUS
  <2> QED BY <2>1
<1>3. iter = Step(iter)
  BY <1>2
<1>4. {} \in SUBSET {}
  OBVIOUS
<1> HIDE DEF iter
<1>5. iter[{}] = 0
  BY <1>3, <1>4
<1> QED BY <1>1, <1>5

\* A recursive function over 0..n is what its definition says.
Unfolded(g, n, v) == g = [k \in 0 .. n |-> IF k = 0 THEN v ELSE JudgeNext(g[k - 1])]

LEMMA UnfoldExists ==
  ASSUME NEW v, NEW n \in Nat PROVE \E g : Unfolded(g, n, v)
<1> DEFINE Bad == {k \in Nat : ~\E g : Unfolded(g, k, v)}
<1>1. SUFFICES Bad = {}
  BY <1>1
<1>2. SUFFICES ASSUME Bad # {} PROVE FALSE
  OBVIOUS
<1>3. PICK m \in Bad : \A k \in Bad : m <= k
  <2>1. Bad \in SUBSET Nat
    OBVIOUS
  <2> HIDE DEF Bad
  <2> QED BY <1>2, <2>1, EarliestOf
<1>4. m # 0
  <2> DEFINE h == [k \in 0 .. 0 |-> v]
  <2>1. \A k \in 0 .. 0 : k = 0
    OBVIOUS
  <2>2. h = [k \in 0 .. 0 |-> IF k = 0 THEN v ELSE JudgeNext(h[k - 1])]
    BY <2>1
  <2>3. \E g : Unfolded(g, 0, v)
    BY <2>2 DEF Unfolded
  <2> QED BY <2>3
<1>5. m - 1 \in Nat /\ m - 1 \notin Bad /\ m \in Nat
  BY <1>3, <1>4
<1>6. PICK g : Unfolded(g, m - 1, v)
  BY <1>5
<1> DEFINE h == [k \in 0 .. m |-> IF k = m THEN JudgeNext(g[m - 1]) ELSE g[k]]
<1>7. ASSUME NEW k \in 0 .. m PROVE h[k] = IF k = 0 THEN v ELSE JudgeNext(h[k - 1])
  <2>0. g = [i \in 0 .. m - 1 |-> IF i = 0 THEN v ELSE JudgeNext(g[i - 1])]
    BY <1>6 DEF Unfolded
  <2>1. CASE k = m
    <3>1. m - 1 \in 0 .. m /\ m - 1 # m
      BY <1>5
    <3>2. h[m] = JudgeNext(g[m - 1]) /\ h[m - 1] = g[m - 1]
      BY <3>1, <1>5
    <3> QED BY <3>2, <2>1, <1>4
  <2>2. CASE k # m
    <3>1. k \in 0 .. m - 1 /\ (k # 0 => k - 1 \in 0 .. m /\ k - 1 # m)
      BY <2>2, <1>5
    <3>2. g[k] = IF k = 0 THEN v ELSE JudgeNext(g[k - 1])
      BY <2>0, <3>1
    <3>3. h[k] = g[k] /\ (k # 0 => h[k - 1] = g[k - 1])
      BY <2>2, <3>1
    <3> QED BY <3>2, <3>3
  <2> QED BY <2>1, <2>2
<1>8. h = [k \in 0 .. m |-> h[k]]
  OBVIOUS
<1>9. h = [k \in 0 .. m |-> IF k = 0 THEN v ELSE JudgeNext(h[k - 1])]
  <2> HIDE DEF h
  <2> QED BY <1>7, <1>8
<1>10. \E f : Unfolded(f, m, v)
  <2> HIDE DEF h
  <2> QED BY <1>9 DEF Unfolded
<1> QED BY <1>3, <1>10

\* What holds before a pass and is kept by each judgement holds after it.
LEMMA PassKeeps ==
  ASSUME NEW v, NEW P, v \in P[0], \A k \in 1 .. Cardinality(Jobs) : \A u \in P[k - 1] : JudgeNext(u) \in P[k]
  PROVE  Decide(v) \in P[Cardinality(Jobs)]
<1> DEFINE N == Cardinality(Jobs)
           g == CHOOSE h : Unfolded(h, N, v)
<1>1. N \in Nat
  BY AdmissionAssumption, FS_CardinalityType
<1>2. Unfolded(g, N, v)
  BY <1>1, UnfoldExists
<1>3. Decide(v) = g[N]
  BY DEF Decide, Unfolded
<1> DEFINE Bad == {k \in 0 .. N : g[k] \notin P[k]}
<1> HIDE DEF g, N
<1>4. \A k \in 0 .. N : g[k] = IF k = 0 THEN v ELSE JudgeNext(g[k - 1])
  BY <1>1, <1>2 DEF Unfolded
<1>5. Bad = {}
  <2>1. SUFFICES ASSUME Bad # {} PROVE FALSE
    OBVIOUS
  <2>2. PICK m \in Bad : \A k \in Bad : m <= k
    <3>1. Bad \in SUBSET Nat
      BY <1>1
    <3> HIDE DEF Bad
    <3> QED BY <2>1, <3>1, EarliestOf
  <2>3. m # 0
    BY <1>1, <1>4, <2>2
  <2>4. m - 1 \in 0 .. N /\ m \in 1 .. N /\ m - 1 \notin Bad
    BY <1>1, <2>2, <2>3
  <2>5. g[m - 1] \in P[m - 1] /\ g[m] = JudgeNext(g[m - 1])
    BY <1>4, <2>3, <2>4
  <2>6. g[m] \in P[m]
    BY <2>4, <2>5 DEF N
  <2> QED BY <2>2, <2>6
<1>6. N \in 0 .. N
  BY <1>1
<1> QED BY <1>3, <1>5, <1>6 DEF N

-----------------------------------------------------------------------------
(* The types of the rows, of the loop and of a pass.                            *)

JobRow == [st : {"out", "waiting", "running", "ended"}, shape : Shape, requested : Nat, seq : Nat,
        started : Optional(Nat), quiet : Optional(Nat), ended : Optional(Nat), cpu : SUBSET {TinyCores}, rss : Nat]
Gates == [paused : BOOLEAN, manual : Optional(Nat)]
Cause == {"none", "Paused", "Quiet", "Cores", "Capacity", "Reserved", "Machine", "Ahead"}
View == [row : [Jobs -> JobRow], gates : Gates, reading : Reading, now : Nat, since : [Jobs -> Optional(Nat)],
         closes : SUBSET (Jobs \X Nat), start : SUBSET Jobs, fail : SUBSET Jobs, held : [Jobs -> Cause]]
\* The sequence number of a job in the line is its own.
Numbered(rows) == \A j \in Jobs : rows[j].st = "waiting" => rows[j].seq = j

LEMMA OptionalOf ==
    /\ {} \in Optional(Nat)
    /\ \A n \in Nat : {n} \in Optional(Nat)
    /\ \A s \in Optional(Nat) : s \subseteq Nat /\ (s # {} => \E n \in Nat : s = {n})
<1>1. {} \in Optional(Nat) /\ \A n \in Nat : {n} \in Optional(Nat)
  BY DEF Optional
<1>2. ASSUME NEW s \in Optional(Nat) PROVE s \subseteq Nat /\ (s # {} => \E n \in Nat : s = {n})
  <2>1. s \subseteq Nat /\ \A x, y \in s : x = y
    BY DEF Optional
  <2>2. ASSUME s # {} PROVE \E n \in Nat : s = {n}
    <3>1. PICK n : n \in s
      BY <2>2
    <3>2. s = {n}
      BY <2>1, <3>1
    <3> QED BY <2>1, <3>1, <3>2
  <2> QED BY <2>1, <2>2
<1> QED BY <1>1, <1>2

\* What a job is predicted to use.
LoadOf(r) == Min({r.shape.weight} \union PredCores(r))
LEMMA LoadNat ==
  ASSUME NEW r \in JobRow PROVE LoadOf(r) \in Nat /\ LoadOf(r) <= r.shape.weight /\ r.shape.weight \in Nat
<1>1. r.shape \in Shape /\ r.cpu \subseteq Nat
  BY DEF JobRow, TinyCores
<1>2. r.shape.weight \in Nat /\ r.shape.cores \subseteq Nat
  BY <1>1, OptionalOf DEF Shape
<1> DEFINE S == {r.shape.weight} \union PredCores(r)
<1>3. S \in SUBSET Nat /\ S # {} /\ r.shape.weight \in S
  BY <1>1, <1>2 DEF PredCores
<1> HIDE DEF S
<1>4. Min(S) \in S /\ \A n \in S : Min(S) <= n
  BY <1>3, EarliestOf
<1> QED BY <1>2, <1>3, <1>4 DEF LoadOf, S

LEMMA CoresAreLoad == ASSUME NEW v, NEW j PROVE Cores(v, j) = LoadOf(v.row[j])
  BY DEF Cores, LoadOf, Weight

LEMMA CoresNat == ASSUME NEW v, v.row \in [Jobs -> JobRow], NEW j \in Jobs PROVE Cores(v, j) \in Nat /\ Weight(v, j) \in Nat
<1>1. v.row[j] \in JobRow
  OBVIOUS
<1> QED BY <1>1, LoadNat, CoresAreLoad DEF Weight

-----------------------------------------------------------------------------
(* The line.                                                                   *)

\* Some job is the least by any number.
LEMMA LeastBy ==
  ASSUME NEW S, S # {}, NEW f \in [S -> Nat] PROVE \E i \in S : \A j \in S : f[i] <= f[j]
<1> DEFINE V == {f[j] : j \in S}
<1>1. V \in SUBSET Nat /\ V # {}
  OBVIOUS
<1>2. Min(V) \in V /\ \A n \in V : Min(V) <= n
  <2> HIDE DEF V
  <2> QED BY <1>1, EarliestOf
<1>3. PICK i \in S : f[i] = Min(V)
  BY <1>2
<1>4. \A j \in S : f[j] \in V
  OBVIOUS
<1> QED BY <1>2, <1>3, <1>4

LEMMA KeyNat ==
  ASSUME NEW v, v.row \in [Jobs -> JobRow], NEW j \in Jobs
  PROVE  /\ OrderKey(v, j)[1] \in Nat /\ OrderKey(v, j)[2] \in Nat
         /\ OrderKey(v, j)[3] \in Nat /\ OrderKey(v, j)[4] \in Nat /\ OrderKey(v, j)[4] = v.row[j].seq
<1> DEFINE r == v.row[j]
<1>1. r \in JobRow
  OBVIOUS
<1>2. r.shape \in Shape /\ r.requested \in Nat /\ r.seq \in Nat
  BY <1>1 DEF JobRow
<1>3. r.shape.dur \in Optional(Nat)
  BY <1>2 DEF Shape
<1>4. Duration(r.shape) \in Nat
  <2>1. CASE r.shape.dur = {}
    BY <2>1 DEF Duration, DefaultDuration
  <2>2. CASE r.shape.dur # {}
    <3>1. r.shape.dur \in SUBSET Nat
      BY <1>3, OptionalOf
    <3>2. Min(r.shape.dur) \in Nat
      BY <3>1, <2>2, EarliestOf
    <3> QED BY <3>2, <2>2 DEF Duration
  <2> QED BY <2>1, <2>2
<1>5. Aging \in Nat
  BY AdmissionAssumption
<1>6. Aging * r.requested \in Nat
  BY <1>2, <1>5
<1>7. Duration(r.shape) + Aging * r.requested \in Nat
  BY <1>4, <1>6
<1> DEFINE k1 == IF r.shape.valid THEN 0 ELSE 1
           k2 == Duration(r.shape) + Aging * r.requested
<1>8. OrderKey(v, j) = <<k1, k2, r.requested, r.seq>>
  BY DEF OrderKey
<1>9. k1 \in Nat
  OBVIOUS
<1>10. k2 \in Nat
  BY <1>7
<1> HIDE DEF k1, k2
<1> QED BY <1>2, <1>8, <1>9, <1>10

LEMMA BeforeBy ==
  ASSUME NEW v, NEW i, NEW j, NEW k \in 1 .. 4, OrderKey(v, i)[k] < OrderKey(v, j)[k],
         \A l \in 1 .. k - 1 : OrderKey(v, i)[l] = OrderKey(v, j)[l]
  PROVE  Before(v, i, j)
  BY DEF Before

\* Two jobs of the line are in one order.
LEMMA BeforeIsAsymmetric ==
  ASSUME NEW v, v.row \in [Jobs -> JobRow], NEW i \in Jobs, NEW j \in Jobs, Before(v, i, j)
  PROVE  ~Before(v, j, i)
<1> DEFINE a == OrderKey(v, i)
           b == OrderKey(v, j)
<1>1. \A k \in 1 .. 4 : a[k] \in Nat /\ b[k] \in Nat
  <2>1. \A k \in 1 .. 4 : k = 1 \/ k = 2 \/ k = 3 \/ k = 4
    OBVIOUS
  <2> QED BY <2>1, KeyNat
<1>2. PICK k \in 1 .. 4 : a[k] < b[k] /\ \A l \in 1 .. k - 1 : a[l] = b[l]
  BY DEF Before
<1>3. ASSUME Before(v, j, i) PROVE FALSE
  <2>1. PICK m \in 1 .. 4 : b[m] < a[m] /\ \A l \in 1 .. m - 1 : b[l] = a[l]
    BY <1>3 DEF Before
  <2> HIDE DEF a, b
  <2>2. k < m => k \in 1 .. m - 1
    OBVIOUS
  <2>3. m < k => m \in 1 .. k - 1
    OBVIOUS
  <2>4. k < m \/ m < k \/ k = m
    OBVIOUS
  <2> QED BY <1>1, <1>2, <2>1, <2>2, <2>3, <2>4
<1> QED BY <1>3

\* The line has a first job, before every other.
LEMMA FirstIsFirst ==
  ASSUME NEW v, v.row \in [Jobs -> JobRow], Numbered(v.row), NEW S, S \subseteq In(v, "waiting"), S # {}
  PROVE  FirstOf(v, S) \in S /\ \A j \in S \ {FirstOf(v, S)} : Before(v, FirstOf(v, S), j)
<1> DEFINE K(j) == OrderKey(v, j)
<1>0. S \subseteq Jobs /\ \A j \in S : v.row[j].st = "waiting"
  BY DEF In
<1>1. \A j \in S : K(j)[1] \in Nat /\ K(j)[2] \in Nat /\ K(j)[3] \in Nat /\ K(j)[4] \in Nat /\ K(j)[4] = j
  BY <1>0, KeyNat DEF Numbered
<1> HIDE DEF K
<1>2. PICK a \in S : \A j \in S : K(a)[1] <= K(j)[1]
  <2> DEFINE f == [j \in S |-> K(j)[1]]
  <2>1. f \in [S -> Nat]
    BY <1>1
  <2>2. \E i \in S : \A j \in S : f[i] <= f[j]
    <3> HIDE DEF f
    <3> QED BY <2>1, LeastBy
  <2> QED BY <2>2
<1> DEFINE S1 == {j \in S : K(j)[1] = K(a)[1]}
<1>3. PICK b \in S1 : \A j \in S1 : K(b)[2] <= K(j)[2]
  <2> DEFINE f == [j \in S1 |-> K(j)[2]]
  <2>1. f \in [S1 -> Nat] /\ S1 # {}
    BY <1>1
  <2>2. \E i \in S1 : \A j \in S1 : f[i] <= f[j]
    <3> HIDE DEF f, S1
    <3> QED BY <2>1, LeastBy
  <2> QED BY <2>2
<1> DEFINE S2 == {j \in S1 : K(j)[2] = K(b)[2]}
<1>4. PICK c \in S2 : \A j \in S2 : K(c)[3] <= K(j)[3]
  <2> DEFINE f == [j \in S2 |-> K(j)[3]]
  <2>1. f \in [S2 -> Nat] /\ S2 # {}
    BY <1>1
  <2>2. \E i \in S2 : \A j \in S2 : f[i] <= f[j]
    <3> HIDE DEF f, S2
    <3> QED BY <2>1, LeastBy
  <2> QED BY <2>2
<1> DEFINE S3 == {j \in S2 : K(j)[3] = K(c)[3]}
<1>5. PICK d \in S3 : \A j \in S3 : K(d)[4] <= K(j)[4]
  <2> DEFINE f == [j \in S3 |-> K(j)[4]]
  <2>1. f \in [S3 -> Nat] /\ S3 # {}
    BY <1>1
  <2>2. \E i \in S3 : \A j \in S3 : f[i] <= f[j]
    <3> HIDE DEF f, S3
    <3> QED BY <2>1, LeastBy
  <2> QED BY <2>2
<1>6. d \in S /\ K(d)[1] = K(a)[1] /\ K(d)[2] = K(b)[2] /\ K(d)[3] = K(c)[3]
  OBVIOUS
<1>7. ASSUME NEW j \in S \ {d} PROVE Before(v, d, j)
  <2>1. CASE K(j)[1] # K(a)[1]
    <3>1. K(d)[1] < K(j)[1]
      BY <1>1, <1>2, <1>6, <2>1
    <3>2. \A l \in 1 .. 1 - 1 : K(d)[l] = K(j)[l]
      OBVIOUS
    <3>3. 1 \in 1 .. 4
      OBVIOUS
    <3> QED BY <3>1, <3>2, <3>3, BeforeBy DEF K
  <2>2. CASE K(j)[1] = K(a)[1] /\ K(j)[2] # K(b)[2]
    <3>1. K(d)[2] < K(j)[2] /\ K(d)[1] = K(j)[1]
      BY <1>1, <1>3, <1>6, <2>2
    <3>2. \A l \in 1 .. 2 - 1 : K(d)[l] = K(j)[l]
      <4>1. \A l \in 1 .. 2 - 1 : l = 1
        OBVIOUS
      <4> QED BY <3>1, <4>1
    <3>3. 2 \in 1 .. 4
      OBVIOUS
    <3> QED BY <3>1, <3>2, <3>3, BeforeBy DEF K
  <2>3. CASE K(j)[1] = K(a)[1] /\ K(j)[2] = K(b)[2] /\ K(j)[3] # K(c)[3]
    <3>1. K(d)[3] < K(j)[3] /\ K(d)[1] = K(j)[1] /\ K(d)[2] = K(j)[2]
      BY <1>1, <1>4, <1>6, <2>3
    <3>2. \A l \in 1 .. 3 - 1 : K(d)[l] = K(j)[l]
      <4>1. \A l \in 1 .. 3 - 1 : l = 1 \/ l = 2
        OBVIOUS
      <4> QED BY <3>1, <4>1
    <3>3. 3 \in 1 .. 4
      OBVIOUS
    <3> QED BY <3>1, <3>2, <3>3, BeforeBy DEF K
  <2>4. CASE K(j)[1] = K(a)[1] /\ K(j)[2] = K(b)[2] /\ K(j)[3] = K(c)[3]
    <3>0. K(d)[4] # K(j)[4]
      BY <1>1, <1>6, <1>7
    <3>1. K(d)[4] < K(j)[4] /\ K(d)[1] = K(j)[1] /\ K(d)[2] = K(j)[2] /\ K(d)[3] = K(j)[3]
      BY <1>1, <1>5, <1>6, <2>4, <3>0
    <3>2. \A l \in 1 .. 4 - 1 : K(d)[l] = K(j)[l]
      <4>1. \A l \in 1 .. 4 - 1 : l = 1 \/ l = 2 \/ l = 3
        OBVIOUS
      <4> QED BY <3>1, <4>1
    <3>3. 4 \in 1 .. 4
      OBVIOUS
    <3> QED BY <3>1, <3>2, <3>3, BeforeBy DEF K
  <2> QED BY <2>1, <2>2, <2>3, <2>4
<1>8. \E i \in S : \A j \in S \ {i} : Before(v, i, j)
  BY <1>6, <1>7
<1> QED BY <1>8 DEF FirstOf

-----------------------------------------------------------------------------
(* One judgement.                                                              *)

LEMMA BlockerIsCause == ASSUME NEW v, NEW j PROVE Blocker(v, j) \in Cause
<1>1. MemoryThenPressure(v, j) \in Cause
  BY DEF MemoryThenPressure, Cause
<1>2. AdmissionOf(v, j) \in Cause
  BY <1>1 DEF AdmissionOf, Cause
<1>3. QuietBlocker(v, j) \in Cause
  BY <1>1, <1>2 DEF QuietBlocker, Cause
<1>4. Backfill(v, j, LineAhead(v, j)) \in Cause
  BY DEF Backfill, Cause
<1> QED BY <1>2, <1>3, <1>4 DEF Blocker, Cause

LEMMA HeldSinceNat ==
  ASSUME NEW v \in View, NEW j \in Jobs PROVE HeldSince(v, j) \in Nat /\ HeldSince(v, j) <= v.now
<1> DEFINE S == v.since[j] \union {v.now}
<1>1. v.since[j] \in Optional(Nat) /\ v.now \in Nat
  BY DEF View
<1>2. S \in SUBSET Nat /\ S # {} /\ v.now \in S
  BY <1>1, OptionalOf
<1> HIDE DEF S
<1>3. Min(S) \in S /\ \A n \in S : Min(S) <= n
  BY <1>2, EarliestOf
<1> QED BY <1>2, <1>3 DEF HeldSince, S

LEMMA StartedIsRow ==
  ASSUME NEW v \in View, NEW j \in Jobs
  PROVE  /\ StartedRow(v, j) \in JobRow /\ StartedRow(v, j).st = "running" /\ StartedRow(v, j).started = {v.now}
         /\ StartedRow(v, j).quiet = (IF Exclusive(v, j) THEN {v.now + QuietMax} ELSE {})
         /\ LoadOf(StartedRow(v, j)) = LoadOf(v.row[j])
         /\ StartedRow(v, j).shape = v.row[j].shape
<1> DEFINE r == v.row[j]
           q == IF Exclusive(v, j) THEN {v.now + QuietMax} ELSE {}
           s == [r EXCEPT !.st = "running", !.started = {v.now}, !.quiet = q]
<1>1. r \in JobRow /\ v.now \in Nat
  BY DEF View
<1>2. QuietMax \in Nat
  BY AdmissionAssumption
<1>3. q \in Optional(Nat) /\ {v.now} \in Optional(Nat)
  BY <1>1, <1>2, OptionalOf
<1>4. StartedRow(v, j) = s
  BY DEF StartedRow
<1> HIDE DEF r, q
<1>5. s \in JobRow
  BY <1>1, <1>3 DEF JobRow
<1>6. s.st = "running" /\ s.started = {v.now} /\ s.quiet = q /\ s.shape = r.shape /\ s.cpu = r.cpu
  BY <1>1 DEF JobRow
<1>7. LoadOf(s) = LoadOf(r)
  BY <1>6 DEF LoadOf, PredCores
<1> QED BY <1>4, <1>5, <1>6, <1>7 DEF r, q

\* What a judgement leaves alone.
Beside(v, w, j) ==
    /\ w \in View /\ w.now = v.now /\ w.gates = v.gates /\ w.reading = v.reading /\ w.closes = v.closes
    /\ \A i \in Jobs \ {j} : w.row[i] = v.row[i] /\ w.held[i] = v.held[i] /\ w.since[i] = v.since[i]

LEMMA JudgeStarts ==
  ASSUME NEW v \in View, NEW j \in Jobs, Blocker(v, j) = "none"
  PROVE  /\ Beside(v, Judge(v, j), j)
         /\ Judge(v, j).row[j] = StartedRow(v, j) /\ Judge(v, j).start = v.start \union {j} /\ Judge(v, j).fail = v.fail
         /\ Judge(v, j).held = v.held /\ Judge(v, j).since = v.since
<1> DEFINE s == StartedRow(v, j)
           w == [v EXCEPT !.row[j] = s, !.start = @ \union {j}]
<1>1. Judge(v, j) = w
  BY DEF Judge
<1>2. s \in JobRow
  BY StartedIsRow
<1> HIDE DEF s
<1>3. w \in View
  BY <1>2 DEF View
<1>4. /\ w.now = v.now /\ w.gates = v.gates /\ w.reading = v.reading /\ w.closes = v.closes
      /\ w.held = v.held /\ w.since = v.since /\ w.start = v.start \union {j} /\ w.fail = v.fail
  BY DEF View
<1>5. w.row = [v.row EXCEPT ![j] = s] /\ v.row \in [Jobs -> JobRow]
  BY DEF View
<1>6. w.row[j] = s /\ \A i \in Jobs \ {j} : w.row[i] = v.row[i]
  BY <1>5
<1> HIDE DEF w
<1> QED BY <1>1, <1>3, <1>4, <1>6 DEF Beside, s

LEMMA JudgeFails ==
  ASSUME NEW v \in View, NEW j \in Jobs, Blocker(v, j) = "Machine", v.now - HeldSince(v, j) >= LoadWait
  PROVE  /\ Beside(v, Judge(v, j), j)
         /\ Judge(v, j).row[j] = [v.row[j] EXCEPT !.st = "ended"]
         /\ Judge(v, j).fail = v.fail \union {j} /\ Judge(v, j).start = v.start
         /\ Judge(v, j).held = v.held /\ Judge(v, j).since = v.since
<1> DEFINE s == [v.row[j] EXCEPT !.st = "ended"]
           w == [v EXCEPT !.row[j] = s, !.fail = @ \union {j}]
<1>1. Judge(v, j) = w
  BY DEF Judge
<1>2. s \in JobRow
  <2>1. v.row[j] \in JobRow
    BY DEF View
  <2> QED BY <2>1 DEF JobRow
<1> HIDE DEF s
<1>3. w \in View
  BY <1>2 DEF View
<1>4. /\ w.now = v.now /\ w.gates = v.gates /\ w.reading = v.reading /\ w.closes = v.closes
      /\ w.held = v.held /\ w.since = v.since /\ w.fail = v.fail \union {j} /\ w.start = v.start
  BY DEF View
<1>5. w.row = [v.row EXCEPT ![j] = s] /\ v.row \in [Jobs -> JobRow]
  BY DEF View
<1>6. w.row[j] = s /\ \A i \in Jobs \ {j} : w.row[i] = v.row[i]
  BY <1>5
<1> HIDE DEF w
<1> QED BY <1>1, <1>3, <1>4, <1>6 DEF Beside, s

LEMMA JudgeHolds ==
  ASSUME NEW v \in View, NEW j \in Jobs, Blocker(v, j) # "none",
         ~(Blocker(v, j) = "Machine" /\ v.now - HeldSince(v, j) >= LoadWait)
  PROVE  /\ Beside(v, Judge(v, j), j)
         /\ Judge(v, j).row = v.row /\ Judge(v, j).fail = v.fail /\ Judge(v, j).start = v.start
         /\ Judge(v, j).held[j] = Blocker(v, j)
         /\ Judge(v, j).since[j] = IF Blocker(v, j) = "Machine" THEN {HeldSince(v, j)} ELSE {}
<1> DEFINE c == Blocker(v, j)
           t == IF c = "Machine" THEN {HeldSince(v, j)} ELSE {}
           w == [v EXCEPT !.held[j] = c, !.since[j] = t]
<1>1. Judge(v, j) = w
  BY DEF Judge
<1>2. c \in Cause
  BY BlockerIsCause
<1>3. t \in Optional(Nat)
  BY OptionalOf, HeldSinceNat
<1> HIDE DEF c, t
<1>4. w \in View
  BY <1>2, <1>3 DEF View
<1>5. /\ w.now = v.now /\ w.gates = v.gates /\ w.reading = v.reading /\ w.closes = v.closes
      /\ w.row = v.row /\ w.fail = v.fail /\ w.start = v.start
  BY DEF View
<1>6. /\ w.held = [v.held EXCEPT ![j] = c] /\ w.since = [v.since EXCEPT ![j] = t]
      /\ v.held \in [Jobs -> Cause] /\ v.since \in [Jobs -> Optional(Nat)]
  BY DEF View
<1>7. w.held[j] = c /\ w.since[j] = t /\ \A i \in Jobs \ {j} : w.held[i] = v.held[i] /\ w.since[i] = v.since[i]
  BY <1>6
<1> HIDE DEF w
<1>8. Beside(v, w, j)
  BY <1>4, <1>5, <1>7 DEF Beside
<1> QED BY <1>1, <1>5, <1>7, <1>8 DEF c, t

-----------------------------------------------------------------------------
(* A pass, for the quiet windows.                                               *)

RunningIn(rows) == {j \in Jobs : rows[j].st = "running"}
Shut(r, now) == \A u \in r.quiet : u <= now
HeavyLoad(r) == LoadOf(r) > SmallWeight
\* No running job started later than now.
Begun(rows, now) == \A j \in RunningIn(rows) : \A s \in rows[j].started : s <= now
\* Beside an open window no other window is open and no heavy job is younger.
CalmBeside(e, r, now) == Shut(e, now) \/ (Shut(r, now) /\ (HeavyLoad(r) => \A s \in r.started, t \in e.started : s <= t))
Calm(rows, now) == \A e \in RunningIn(rows) : \A r \in RunningIn(rows) \ {e} : CalmBeside(rows[e], rows[r], now)

\* What a pass has done to the rows it read.
PassRow(r0, r, now) ==
    \/ r = r0
    \/ r0.st = "waiting" /\ r.st = "ended"
    \/ r0.st = "waiting" /\ r.st = "running" /\ r.started = {now}
PassView(rows, now) ==
    {u \in View : /\ Numbered(u.row) /\ u.now = now /\ Begun(u.row, now) /\ Calm(u.row, now)
                  /\ \A j \in Jobs : PassRow(rows[j], u.row[j], now) /\ (j \in u.start => u.row[j].st = "running")}

LEMMA AStartIsCalm ==
  ASSUME NEW v \in View, NEW j \in Jobs, v.row[j].st = "waiting", Blocker(v, j) = "none",
         Begun(v.row, v.now), NEW r \in Jobs \ {j}, v.row[r].st = "running"
  PROVE  CalmBeside(v.row[r], StartedRow(v, j), v.now) /\ CalmBeside(StartedRow(v, j), v.row[r], v.now)
<1> DEFINE s == StartedRow(v, j)
<1>1. /\ s.st = "running" /\ s.started = {v.now} /\ s.quiet = (IF Exclusive(v, j) THEN {v.now + QuietMax} ELSE {})
      /\ LoadOf(s) = LoadOf(v.row[j])
  BY StartedIsRow
<1>2. IsHeavy(v, j) = HeavyLoad(s)
  BY <1>1, CoresAreLoad DEF IsHeavy, HeavyLoad
<1>3. r \in In(v, "running")
  BY DEF In
<1>t. v.now \in Nat /\ v.row[r] \in JobRow
  BY DEF View
<1>u. v.row[r].quiet \subseteq Nat /\ v.row[r].started \subseteq Nat
  <2>1. v.row[r].quiet \in Optional(Nat) /\ v.row[r].started \in Optional(Nat)
    BY <1>t DEF JobRow
  <2> QED BY <2>1, OptionalOf
<1> HIDE DEF s
<1>4. ASSUME ~Shut(v.row[r], v.now) PROVE Shut(s, v.now) /\ ~HeavyLoad(s)
  <2>1. WindowOpen(v)
    BY <1>3, <1>4, <1>t, <1>u DEF WindowOpen, Shut
  <2>2. ~Exclusive(v, j)
    BY <2>1 DEF Blocker, QuietBlocker
  <2>3. ~IsHeavy(v, j)
    BY <2>1, <2>2 DEF Blocker
  <2> QED BY <1>1, <1>2, <2>2, <2>3 DEF Shut
<1>5. CalmBeside(v.row[r], s, v.now)
  BY <1>4 DEF CalmBeside
<1>6. \A x \in v.row[r].started : x <= v.now
  BY DEF Begun, RunningIn
<1>7. ASSUME ~Shut(s, v.now) PROVE Shut(v.row[r], v.now)
  BY <1>4, <1>7
<1>8. CalmBeside(s, v.row[r], v.now)
  BY <1>1, <1>6, <1>7 DEF CalmBeside
<1> QED BY <1>5, <1>8 DEF s

LEMMA JudgeIsCalm ==
  ASSUME NEW rows, NEW v, v \in PassView(rows, v.now), NEW j \in Jobs, v.row[j].st = "waiting"
  PROVE  Judge(v, j) \in PassView(rows, v.now)
<1> DEFINE w == Judge(v, j)
<1>0. v \in View /\ Numbered(v.row) /\ Begun(v.row, v.now) /\ Calm(v.row, v.now) /\ v.row \in [Jobs -> JobRow]
  BY DEF PassView, View
<1>1. \A i \in Jobs : PassRow(rows[i], v.row[i], v.now) /\ (i \in v.start => v.row[i].st = "running")
  BY DEF PassView
<1>2. CASE Blocker(v, j) = "none"
  <2>1. /\ Beside(v, w, j) /\ w.row[j] = StartedRow(v, j) /\ w.start = v.start \union {j}
    BY <1>0, <1>2, JudgeStarts
  <2>2. StartedRow(v, j).st = "running" /\ StartedRow(v, j).started = {v.now}
    BY <1>0, StartedIsRow
  <2> HIDE DEF w
  <2>3. Numbered(w.row) /\ w.now = v.now /\ w \in View
    BY <1>0, <2>1, <2>2 DEF Numbered, Beside
  <2>4. \A i \in Jobs : PassRow(rows[i], w.row[i], v.now) /\ (i \in w.start => w.row[i].st = "running")
    <3>1. ASSUME NEW i \in Jobs \ {j} PROVE PassRow(rows[i], w.row[i], v.now) /\ (i \in w.start => w.row[i].st = "running")
      BY <1>1, <2>1 DEF Beside
    <3>2. PassRow(rows[j], w.row[j], v.now)
      BY <1>1, <2>1, <2>2 DEF PassRow
    <3> QED BY <2>1, <2>2, <3>1, <3>2
  <2>5. Begun(w.row, v.now)
    <3>1. v.now \in Nat
      BY <1>0 DEF View
    <3>2. ASSUME NEW i \in Jobs, w.row[i].st = "running" PROVE \A s \in w.row[i].started : s <= v.now
      <4>1. CASE i = j
        BY <2>1, <2>2, <3>1, <4>1
      <4>2. CASE i # j
        BY <1>0, <2>1, <3>2, <4>2 DEF Begun, Beside, RunningIn
      <4> QED BY <4>1, <4>2
    <3> QED BY <3>2 DEF Begun, RunningIn
  <2>6. Calm(w.row, v.now)
    <3>1. SUFFICES ASSUME NEW e \in Jobs, w.row[e].st = "running", NEW r \in Jobs \ {e}, w.row[r].st = "running"
                   PROVE  CalmBeside(w.row[e], w.row[r], v.now)
      BY DEF Calm, RunningIn
    <3>2. CASE e = j
      <4>1. w.row[r] = v.row[r] /\ v.row[r].st = "running" /\ r \in Jobs \ {j}
        BY <2>1, <3>1, <3>2 DEF Beside
      <4> QED BY <1>0, <1>2, <2>1, <3>2, <4>1, AStartIsCalm
    <3>3. CASE r = j
      <4>1. w.row[e] = v.row[e] /\ v.row[e].st = "running" /\ e \in Jobs \ {j}
        BY <2>1, <3>1, <3>3 DEF Beside
      <4> QED BY <1>0, <1>2, <2>1, <3>3, <4>1, AStartIsCalm
    <3>4. CASE e # j /\ r # j
      <4>1. w.row[e] = v.row[e] /\ w.row[r] = v.row[r]
        BY <2>1, <3>4 DEF Beside
      <4> QED BY <1>0, <3>1, <4>1 DEF Calm, RunningIn
    <3> QED BY <3>2, <3>3, <3>4
  <2> QED BY <2>3, <2>4, <2>5, <2>6 DEF PassView, w
<1>3. CASE Blocker(v, j) = "Machine" /\ v.now - HeldSince(v, j) >= LoadWait
  <2>1. /\ Beside(v, w, j) /\ w.row[j] = [v.row[j] EXCEPT !.st = "ended"] /\ w.start = v.start
    BY <1>0, <1>3, JudgeFails
  <2>2. w.row[j].st = "ended"
    <3>1. v.row[j] \in JobRow
      BY <1>0
    <3>2. [v.row[j] EXCEPT !.st = "ended"].st = "ended"
      BY <3>1 DEF JobRow
    <3> QED BY <2>1, <3>2
  <2> HIDE DEF w
  <2>3. Numbered(w.row) /\ w.now = v.now /\ w \in View
    BY <1>0, <2>1, <2>2 DEF Numbered, Beside
  <2>4. \A i \in Jobs : PassRow(rows[i], w.row[i], v.now) /\ (i \in w.start => w.row[i].st = "running")
    <3>1. ASSUME NEW i \in Jobs \ {j} PROVE PassRow(rows[i], w.row[i], v.now) /\ (i \in w.start => w.row[i].st = "running")
      BY <1>1, <2>1 DEF Beside
    <3>2. PassRow(rows[j], w.row[j], v.now)
      BY <1>1, <2>2 DEF PassRow
    <3> QED BY <1>1, <2>1, <2>2, <3>1, <3>2
  <2>5. \A i \in RunningIn(w.row) : i \in RunningIn(v.row) /\ w.row[i] = v.row[i]
    BY <2>1, <2>2 DEF RunningIn, Beside
  <2>6. Begun(w.row, v.now)
    BY <1>0, <2>5 DEF Begun
  <2>7. Calm(w.row, v.now)
    BY <1>0, <2>5 DEF Calm
  <2> QED BY <2>3, <2>4, <2>6, <2>7 DEF PassView, w
<1>4. CASE Blocker(v, j) # "none" /\ ~(Blocker(v, j) = "Machine" /\ v.now - HeldSince(v, j) >= LoadWait)
  <2>1. Beside(v, w, j) /\ w.row = v.row /\ w.start = v.start
    BY <1>0, <1>4, JudgeHolds
  <2> HIDE DEF w
  <2> QED BY <1>0, <1>1, <2>1 DEF PassView, Beside, w
<1> QED BY <1>2, <1>3, <1>4

LEMMA PassIsCalm ==
  ASSUME NEW v \in View, Numbered(v.row), Begun(v.row, v.now), Calm(v.row, v.now), v.start = {}
  PROVE  Decide(v) \in PassView(v.row, v.now)
<1> DEFINE N == Cardinality(Jobs)
           P == [k \in 0 .. N |-> PassView(v.row, v.now)]
<1>1. N \in Nat
  BY AdmissionAssumption, FS_CardinalityType
<1>2. v \in PassView(v.row, v.now)
  BY DEF PassView, PassRow
<1>3. ASSUME NEW u \in PassView(v.row, v.now) PROVE JudgeNext(u) \in PassView(v.row, v.now)
  <2>1. u.now = v.now /\ u.row \in [Jobs -> JobRow] /\ Numbered(u.row)
    BY DEF PassView, View
  <2>2. CASE Unjudged(u) = {}
    BY <2>2 DEF JudgeNext
  <2>3. CASE Unjudged(u) # {}
    <3> DEFINE j == FirstOf(u, Unjudged(u))
    <3>1. Unjudged(u) \subseteq In(u, "waiting")
      BY DEF Unjudged
    <3>2. j \in In(u, "waiting")
      BY <2>1, <2>3, <3>1, FirstIsFirst
    <3>3. j \in Jobs /\ u.row[j].st = "waiting"
      BY <3>2 DEF In
    <3> HIDE DEF j
    <3>4. Judge(u, j) \in PassView(v.row, v.now)
      BY <2>1, <3>3, JudgeIsCalm
    <3> QED BY <2>3, <3>4 DEF JudgeNext, j
  <2> QED BY <2>2, <2>3
<1>4. 0 \in 0 .. N /\ N \in 0 .. N /\ \A k \in 1 .. N : k \in 0 .. N /\ k - 1 \in 0 .. N
  BY <1>1
<1>5. v \in P[0] /\ \A k \in 1 .. N : \A u \in P[k - 1] : JudgeNext(u) \in P[k]
  BY <1>2, <1>3, <1>4
<1>6. P[N] = PassView(v.row, v.now)
  BY <1>4
<1> HIDE DEF P
<1> QED BY <1>5, <1>6, PassKeeps

-----------------------------------------------------------------------------
(* The loop and what happens around it.                                         *)

SeenType == [row : [Jobs -> JobRow], gates : Gates, reading : Reading]
KeeperType == [at : {"due", "read", "asleep"}, ok : BOOLEAN, wake : Optional(Nat), event : BOOLEAN,
               since : [Jobs -> Optional(Nat)], seen : SeenType]
AdmissionTypes ==
    /\ yard \in [Jobs -> JobRow] /\ gates \in Gates /\ reading \in Reading /\ time \in Nat /\ keeper \in KeeperType
    /\ Numbered(yard) /\ Numbered(keeper.seen.row)

\* The running jobs of some rows run in others too, are no younger, and are as heavy there.
Agrees(y, rows) ==
    \A j \in Jobs : y[j].st = "running" =>
       /\ rows[j].st = "running" /\ y[j].started = rows[j].started /\ y[j].quiet = rows[j].quiet
       /\ HeavyLoad(y[j]) => HeavyLoad(rows[j])
WindowInv ==
    /\ AdmissionTypes /\ Begun(yard, time) /\ Calm(yard, time)
    /\ keeper.at = "read" => /\ Begun(keeper.seen.row, time) /\ Calm(keeper.seen.row, time)
                             /\ Agrees(yard, keeper.seen.row)

LEMMA AgreeingIsCalm ==
  ASSUME NEW y, NEW rows, NEW now, Agrees(y, rows), Begun(rows, now), Calm(rows, now)
  PROVE  Begun(y, now) /\ Calm(y, now)
<1>1. \A j \in RunningIn(y) : /\ j \in RunningIn(rows) /\ y[j].started = rows[j].started /\ y[j].quiet = rows[j].quiet
                              /\ HeavyLoad(y[j]) => HeavyLoad(rows[j])
  BY DEF Agrees, RunningIn
<1>2. Begun(y, now)
  BY <1>1 DEF Begun
<1>3. ASSUME NEW e \in RunningIn(y), NEW r \in RunningIn(y) \ {e} PROVE CalmBeside(y[e], y[r], now)
  <2>1. CalmBeside(rows[e], rows[r], now)
    BY <1>1 DEF Calm
  <2> QED BY <1>1, <2>1 DEF CalmBeside, Shut
<1> QED BY <1>2, <1>3 DEF Calm

LEMMA AgreeingIsTransitive ==
  ASSUME NEW x, NEW y, NEW z, Agrees(x, y), Agrees(y, z) PROVE Agrees(x, z)
  BY DEF Agrees

LEMMA LaterIsCalm ==
  ASSUME NEW rows \in [Jobs -> JobRow], NEW now \in Nat, Begun(rows, now), Calm(rows, now)
  PROVE  Begun(rows, now + 1) /\ Calm(rows, now + 1)
<1>1. \A j \in Jobs : rows[j].started \subseteq Nat /\ rows[j].quiet \subseteq Nat
  <2>1. \A j \in Jobs : rows[j].started \in Optional(Nat) /\ rows[j].quiet \in Optional(Nat)
    BY DEF JobRow
  <2> QED BY <2>1, OptionalOf
<1>2. Begun(rows, now + 1)
  BY <1>1 DEF Begun, RunningIn
<1>3. ASSUME NEW e \in RunningIn(rows), NEW r \in RunningIn(rows) \ {e} PROVE CalmBeside(rows[e], rows[r], now + 1)
  <2>0. e \in Jobs /\ r \in Jobs
    BY DEF RunningIn
  <2>1. CalmBeside(rows[e], rows[r], now)
    BY DEF Calm
  <2>2. (Shut(rows[e], now) => Shut(rows[e], now + 1)) /\ (Shut(rows[r], now) => Shut(rows[r], now + 1))
    BY <1>1, <2>0 DEF Shut
  <2> QED BY <2>1, <2>2 DEF CalmBeside
<1> QED BY <1>2, <1>3 DEF Calm

LEMMA InputIsView ==
  ASSUME NEW s \in SeenType, NEW c \in [Jobs -> Optional(Nat)], NEW now \in Nat
  PROVE  /\ Input(s, c, now) \in View
         /\ Input(s, c, now).row = s.row /\ Input(s, c, now).gates = s.gates /\ Input(s, c, now).reading = s.reading
         /\ Input(s, c, now).now = now /\ Input(s, c, now).since = c /\ Input(s, c, now).start = {}
         /\ Input(s, c, now).fail = {} /\ Input(s, c, now).held = NoCause /\ Input(s, c, now).closes = Closes(s.row)
<1>1. s.row \in [Jobs -> JobRow] /\ s.gates \in Gates /\ s.reading \in Reading
  BY DEF SeenType
<1>2. NoCause \in [Jobs -> Cause]
  BY DEF NoCause, Cause
<1>3. ASSUME NEW j \in Jobs, s.row[j].quiet # {} PROVE Min(s.row[j].quiet \union s.row[j].ended) \in Nat
  <2> DEFINE S == s.row[j].quiet \union s.row[j].ended
  <2>1. s.row[j].quiet \in Optional(Nat) /\ s.row[j].ended \in Optional(Nat)
    BY <1>1 DEF JobRow
  <2>2. S \in SUBSET Nat /\ S # {}
    BY <1>3, <2>1, OptionalOf
  <2> HIDE DEF S
  <2>3. Min(S) \in S
    BY <2>2, EarliestOf
  <2> QED BY <2>2, <2>3 DEF S
<1>4. Closes(s.row) \in SUBSET (Jobs \X Nat)
  <2>1. SUFFICES ASSUME NEW c1 \in Closes(s.row) PROVE c1 \in Jobs \X Nat
    OBVIOUS
  <2>2. PICK j \in Jobs : s.row[j].quiet # {} /\ c1 = <<j, Min(s.row[j].quiet \union s.row[j].ended)>>
    BY DEF Closes
  <2> QED BY <1>3, <2>2
<1> DEFINE C == Closes(s.row)
           M == NoCause
<1> HIDE DEF C, M
<1>5. Input(s, c, now) = [row |-> s.row, gates |-> s.gates, reading |-> s.reading, now |-> now, since |-> c,
                          closes |-> C, start |-> {}, fail |-> {}, held |-> M]
  BY DEF Input, C, M
<1>6. Input(s, c, now) \in View
  BY <1>1, <1>2, <1>4, <1>5 DEF View, C, M
<1> QED BY <1>5, <1>6 DEF C, M

\* The instants are numbers, and so is the wake-up.
LEMMA InstantsNat ==
  ASSUME NEW v \in View, Numbered(v.row) PROVE Instants(v) \in SUBSET Nat
<1> DEFINE line == {j \in In(v, "waiting") : ~Exclusive(v, j) /\ ~IsTiny(v, j)}
           A == {Requested(v, j) + QuietDrain : j \in QuietLine(v)}
           B == {c[2] + QuietDrain : c \in v.closes}
           C == UNION {v.row[r].quiet : r \in In(v, "running")}
           D == UNION {{s + d : s \in v.row[r].started, d \in v.row[r].shape.p90} : r \in In(v, "running")}
           E == IF line = {} THEN {} ELSE {Requested(v, FirstOf(v, line)) + BackfillWait}
           F == UNION {{t + LoadWait : t \in v.since[j]} : j \in {j \in Jobs : v.held[j] = "Machine"}}
           G == v.gates.manual
<1>0. Instants(v) = UNION {A, B, C, D, E, F, G}
  BY DEF Instants
<1>1. /\ v.row \in [Jobs -> JobRow] /\ v.closes \subseteq Jobs \X Nat /\ v.since \in [Jobs -> Optional(Nat)] /\ v.gates \in Gates
      /\ QuietDrain \in Nat /\ BackfillWait \in Nat /\ LoadWait \in Nat
  BY AdmissionAssumption DEF View
<1>2. \A j \in Jobs : /\ v.row[j].requested \in Nat /\ v.row[j].quiet \in Optional(Nat) /\ v.row[j].started \in Optional(Nat)
                      /\ v.row[j].shape \in Shape
  BY <1>1 DEF JobRow
<1>3. \A j \in Jobs : v.row[j].shape.p90 \in Optional(Nat)
  BY <1>2 DEF Shape
<1>4. \A j \in Jobs : /\ v.row[j].quiet \subseteq Nat /\ v.row[j].started \subseteq Nat /\ v.row[j].shape.p90 \subseteq Nat
                      /\ v.since[j] \subseteq Nat
  BY <1>1, <1>2, <1>3, OptionalOf
<1>a. A \subseteq Nat
  BY <1>1, <1>2 DEF QuietLine, In, Requested
<1>b. B \subseteq Nat
  BY <1>1
<1>c. C \subseteq Nat
  BY <1>4 DEF In
<1>d. D \subseteq Nat
  BY <1>4 DEF In
<1>e. E \subseteq Nat
  <2>1. CASE line = {}
    BY <2>1
  <2>2. CASE line # {}
    <3> DEFINE f == FirstOf(v, line)
    <3>1. line \subseteq In(v, "waiting")
      OBVIOUS
    <3>2. f \in In(v, "waiting")
      <4> HIDE DEF line
      <4> QED BY <1>1, <2>2, <3>1, FirstIsFirst
    <3>3. v.row[f].requested \in Nat
      BY <3>2, <1>2 DEF In
    <3> HIDE DEF f
    <3>4. E = {Requested(v, f) + BackfillWait}
      BY <2>2 DEF f
    <3>5. Requested(v, f) + BackfillWait \in Nat
      BY <1>1, <3>3 DEF Requested
    <3> HIDE DEF E
    <3> QED BY <3>4, <3>5
  <2> QED BY <2>1, <2>2
<1>f. F \subseteq Nat
  BY <1>1, <1>4
<1>g. G \subseteq Nat
  <2>1. v.gates.manual \in Optional(Nat)
    BY <1>1 DEF Gates
  <2> QED BY <2>1, OptionalOf
<1> HIDE DEF A, B, C, D, E, F, G
<1> QED BY <1>0, <1>a, <1>b, <1>c, <1>d, <1>e, <1>f, <1>g

LEMMA EarliestIsOptional ==
  ASSUME NEW S \in SUBSET Nat PROVE Earliest(S) \in Optional(Nat) /\ Earliest(S) \subseteq S
                                    /\ (S # {} => Earliest(S) # {}) /\ \A w \in Earliest(S) : \A n \in S : w <= n
<1>1. CASE S = {}
  BY <1>1, OptionalOf DEF Earliest
<1>2. CASE S # {}
  <2>1. Min(S) \in S /\ \A n \in S : Min(S) <= n
    BY <1>2, EarliestOf
  <2>2. Earliest(S) = {Min(S)}
    BY <1>2 DEF Earliest
  <2>3. {Min(S)} \in Optional(Nat)
    BY <2>1, OptionalOf
  <2>4. \A w \in {Min(S)} : w = Min(S)
    OBVIOUS
  <2>5. {Min(S)} \subseteq S /\ {Min(S)} # {}
    BY <2>1
  <2> QED BY <2>1, <2>2, <2>3, <2>4, <2>5
<1> QED BY <1>1, <1>2

LEMMA EndedIsRow ==
  ASSUME NEW r \in JobRow, time \in Nat
  PROVE  EndedRow(r) \in JobRow /\ EndedRow(r).st = "ended" /\ EndedRow(r).shape = r.shape
<1> DEFINE q == IF r.quiet = {} THEN {} ELSE {time}
           n == NoRow(r.shape)
<1>1. r.shape \in Shape /\ r.quiet \in Optional(Nat)
  BY DEF JobRow
<1>2. q \in Optional(Nat)
  BY OptionalOf
<1>3. n \in JobRow /\ n.shape = r.shape
  BY <1>1, OptionalOf DEF NoRow, JobRow
<1>4. EndedRow(r) = [n EXCEPT !.st = "ended", !.quiet = r.quiet, !.ended = q]
  BY DEF EndedRow
<1> HIDE DEF q, n
<1>5. [n EXCEPT !.st = "ended", !.quiet = r.quiet, !.ended = q] \in JobRow
  BY <1>1, <1>2, <1>3 DEF JobRow
<1>6. [n EXCEPT !.st = "ended", !.quiet = r.quiet, !.ended = q].st = "ended"
      /\ [n EXCEPT !.st = "ended", !.quiet = r.quiet, !.ended = q].shape = n.shape
  BY <1>3 DEF JobRow
<1> QED BY <1>3, <1>4, <1>5, <1>6

-----------------------------------------------------------------------------
(* The quiet window.                                                           *)

LEMMA WindowInit == AdmissionInit => WindowInv
<1> SUFFICES ASSUME AdmissionInit PROVE WindowInv
  OBVIOUS
<1>1. PICK crowd \in Crowds : yard = [j \in Jobs |-> NoRow(crowd[j])]
  BY DEF AdmissionInit
<1>2. \A j \in Jobs : crowd[j] \in Shape
  BY CrowdsAssumption
<1>3. \A j \in Jobs : NoRow(crowd[j]) \in JobRow /\ NoRow(crowd[j]).st = "out"
  BY <1>2, OptionalOf DEF NoRow, JobRow
<1>4. yard \in [Jobs -> JobRow] /\ \A j \in Jobs : yard[j].st = "out"
  BY <1>1, <1>3
<1>5. gates \in Gates
  BY OptionalOf DEF AdmissionInit, Gates
<1>6. reading \in Reading /\ time \in Nat
  BY AdmissionAssumption DEF AdmissionInit
<1>7. keeper \in KeeperType /\ keeper.at = "due" /\ keeper.seen.row = yard
  <2>1. [row |-> yard, gates |-> gates, reading |-> reading] \in SeenType
    BY <1>4, <1>5, <1>6 DEF SeenType
  <2> QED BY <2>1, OptionalOf DEF AdmissionInit, KeeperType
<1>8. Numbered(yard) /\ RunningIn(yard) = {}
  BY <1>4 DEF Numbered, RunningIn
<1> QED BY <1>4, <1>5, <1>6, <1>7, <1>8 DEF WindowInv, AdmissionTypes, Begun, Calm

\* A step of the world that announces itself, or is not announced, and starts nothing.
LEMMA AroundIsCalm ==
  ASSUME WindowInv, yard' \in [Jobs -> JobRow], Numbered(yard'), Agrees(yard', yard), gates' \in Gates, reading' \in Reading,
         keeper' = keeper \/ keeper' = Tell, time' = time
  PROVE  WindowInv'
<1>1. keeper' \in KeeperType /\ keeper'.at = keeper.at /\ keeper'.seen = keeper.seen
  BY DEF WindowInv, AdmissionTypes, KeeperType, Tell
<1>2. AdmissionTypes'
  BY <1>1 DEF WindowInv, AdmissionTypes
<1>3. Begun(yard', time) /\ Calm(yard', time)
  BY AgreeingIsCalm DEF WindowInv
<1>4. keeper.at = "read" => Agrees(yard', keeper.seen.row)
  BY AgreeingIsTransitive DEF WindowInv
<1> QED BY <1>1, <1>2, <1>3, <1>4 DEF WindowInv

LEMMA AgreesWithItself == ASSUME NEW y PROVE Agrees(y, y)
  BY DEF Agrees

LEMMA EndIsCalm ==
  ASSUME WindowInv, NEW j \in Jobs, yard' = [yard EXCEPT ![j] = EndedRow(@)]
  PROVE  yard' \in [Jobs -> JobRow] /\ Numbered(yard') /\ Agrees(yard', yard)
<1>1. yard \in [Jobs -> JobRow] /\ time \in Nat /\ Numbered(yard)
  BY DEF WindowInv, AdmissionTypes
<1>2. EndedRow(yard[j]) \in JobRow /\ EndedRow(yard[j]).st = "ended"
  BY <1>1, EndedIsRow
<1> DEFINE e == EndedRow(yard[j])
<1>3. yard' = [yard EXCEPT ![j] = e]
  OBVIOUS
<1> HIDE DEF e
<1>4. yard' \in [Jobs -> JobRow] /\ yard'[j] = e /\ \A i \in Jobs \ {j} : yard'[i] = yard[i]
  BY <1>1, <1>2, <1>3 DEF e
<1> QED BY <1>1, <1>2, <1>4 DEF Numbered, Agrees, e

LEMMA RequestIsCalm ==
  ASSUME WindowInv, NEW j \in Jobs, WorkRequest(j) PROVE WindowInv'
<1>1. yard \in [Jobs -> JobRow] /\ time \in Nat /\ Numbered(yard) /\ gates' = gates /\ reading' = reading /\ gates \in Gates /\ reading \in Reading
  BY DEF WindowInv, AdmissionTypes, WorkRequest
<1> DEFINE e == [yard[j] EXCEPT !.st = "waiting", !.requested = time, !.seq = j]
<1>2. yard[j] \in JobRow /\ j \in Nat
  BY <1>1, AdmissionAssumption
<1>3. e \in JobRow /\ e.st = "waiting" /\ e.seq = j
  BY <1>1, <1>2 DEF JobRow
<1>4. yard' = [yard EXCEPT ![j] = e]
  BY <1>1, <1>2 DEF WorkRequest, JobRow
<1> HIDE DEF e
<1>5. yard' \in [Jobs -> JobRow] /\ yard'[j] = e /\ \A i \in Jobs \ {j} : yard'[i] = yard[i]
  BY <1>1, <1>3, <1>4
<1>6. Numbered(yard') /\ Agrees(yard', yard)
  BY <1>1, <1>3, <1>5 DEF Numbered, Agrees
<1>7. keeper' = Tell /\ time' = time
  BY DEF WorkRequest
<1> QED BY <1>1, <1>5, <1>6, <1>7, AroundIsCalm

\* A sample never makes a job heavier.
LEMMA SampleIsLighter ==
  ASSUME NEW r \in JobRow, NEW q \in JobRow, q.shape = r.shape, q.cpu = {TinyCores}, HeavyLoad(q) PROVE HeavyLoad(r)
<1>1. CASE r.shape.cores # {}
  BY <1>1 DEF HeavyLoad, LoadOf, PredCores
<1>2. CASE r.shape.cores = {}
  <2>1. r.shape \in Shape /\ r.cpu \subseteq {TinyCores}
    BY DEF JobRow
  <2>2. r.shape.weight \in Nat
    BY <2>1 DEF Shape
  <2>3. LoadOf(q) = Min({r.shape.weight} \union {TinyCores}) /\ LoadOf(r) = Min({r.shape.weight} \union r.cpu)
    BY <1>2 DEF LoadOf, PredCores
  <2> DEFINE S == {r.shape.weight} \union {TinyCores}
             T == {r.shape.weight} \union r.cpu
  <2>4. S \in SUBSET Nat /\ S # {} /\ T \in SUBSET Nat /\ T # {} /\ T \subseteq S
    BY <2>1, <2>2 DEF TinyCores
  <2> HIDE DEF S, T
  <2>5. Min(S) \in Nat /\ Min(T) \in S /\ \A n \in S : Min(S) <= n
    BY <2>4, EarliestOf
  <2>6. Min(S) <= Min(T) /\ Min(T) \in Nat
    BY <2>4, <2>5
  <2>7. LoadOf(q) = Min(S) /\ LoadOf(r) = Min(T)
    BY <2>3 DEF S, T
  <2>8. SmallWeight \in Nat
    BY AdmissionAssumption
  <2>9. Min(S) > SmallWeight
    BY <2>7 DEF HeavyLoad
  <2>10. Min(T) > SmallWeight
    BY <2>5, <2>6, <2>8, <2>9
  <2> QED BY <2>7, <2>10 DEF HeavyLoad
<1> QED BY <1>1, <1>2

LEMMA SampleIsCalm ==
  ASSUME WindowInv, NEW j \in Jobs, JobSample(j) PROVE WindowInv'
<1>1. yard \in [Jobs -> JobRow] /\ Numbered(yard) /\ gates' = gates /\ reading' = reading /\ gates \in Gates /\ reading \in Reading
  BY DEF WindowInv, AdmissionTypes, JobSample
<1> DEFINE e == [yard[j] EXCEPT !.rss = yard[j].shape.rss, !.cpu = {TinyCores}]
<1>2. yard[j] \in JobRow
  BY <1>1
<1>3. yard[j].shape.rss \in Nat
  BY <1>2 DEF JobRow, Shape
<1>4. e \in JobRow
  BY <1>2, <1>3 DEF JobRow
<1>5. /\ e.st = yard[j].st /\ e.started = yard[j].started /\ e.quiet = yard[j].quiet /\ e.seq = yard[j].seq
      /\ e.shape = yard[j].shape /\ e.cpu = {TinyCores}
  BY <1>2 DEF JobRow
<1>6. yard' = [yard EXCEPT ![j] = e]
  BY <1>1, <1>2 DEF JobSample, JobRow
<1> HIDE DEF e
<1>7. yard' \in [Jobs -> JobRow] /\ yard'[j] = e /\ \A i \in Jobs \ {j} : yard'[i] = yard[i]
  BY <1>1, <1>4, <1>6
<1>8. HeavyLoad(e) => HeavyLoad(yard[j])
  BY <1>2, <1>4, <1>5, SampleIsLighter
<1>9. Numbered(yard') /\ Agrees(yard', yard)
  BY <1>1, <1>5, <1>7, <1>8 DEF Numbered, Agrees
<1>10. keeper' = keeper /\ time' = time
  BY DEF JobSample
<1> QED BY <1>1, <1>7, <1>9, <1>10, AroundIsCalm

LEMMA ReadIsCalm == ASSUME WindowInv, PassReads PROVE WindowInv'
<1>1. /\ yard \in [Jobs -> JobRow] /\ gates \in Gates /\ reading \in Reading /\ time \in Nat /\ keeper \in KeeperType
      /\ Numbered(yard) /\ Begun(yard, time) /\ Calm(yard, time)
  BY DEF WindowInv, AdmissionTypes
<1>2. UNCHANGED <<yard, gates, reading, time>>
  BY DEF PassReads
<1> DEFINE s == [row |-> yard, gates |-> gates, reading |-> reading]
<1>3. s \in SeenType /\ s.row = yard
  BY <1>1 DEF SeenType
<1>4. keeper' = [keeper EXCEPT !.at = "read", !.event = FALSE, !.wake = {}, !.seen = s]
  BY DEF PassReads
<1> HIDE DEF s
<1>5. keeper' \in KeeperType /\ keeper'.seen = s
  BY <1>1, <1>3, <1>4, OptionalOf DEF KeeperType
<1> QED BY <1>1, <1>2, <1>3, <1>5, AgreesWithItself DEF WindowInv, AdmissionTypes

LEMMA FailureIsCalm == ASSUME WindowInv, PassFails PROVE WindowInv'
<1>1. /\ time \in Nat /\ keeper \in KeeperType
  BY DEF WindowInv, AdmissionTypes
<1>2. UNCHANGED <<yard, gates, reading, time>>
  BY DEF PassFails
<1>3. {time + Retry} \in Optional(Nat)
  BY <1>1, OptionalOf, AdmissionAssumption
<1>4. keeper' = [keeper EXCEPT !.at = "asleep", !.ok = FALSE, !.wake = {time + Retry}]
  BY DEF PassFails
<1>5. keeper' \in KeeperType /\ keeper'.seen = keeper.seen /\ keeper'.at = "asleep"
  BY <1>1, <1>3, <1>4 DEF KeeperType
<1> QED BY <1>2, <1>5 DEF WindowInv, AdmissionTypes

\* What the pass decided, in the types.
Decided == Decide(Input([keeper.seen EXCEPT !.reading = reading], keeper.since, time))
LEMMA DecidedIsView ==
  ASSUME WindowInv, keeper.at = "read"
  PROVE  Decided \in PassView(keeper.seen.row, time)
<1> DEFINE s == [keeper.seen EXCEPT !.reading = reading]
           i == Input(s, keeper.since, time)
<1>1. /\ keeper.seen \in SeenType /\ keeper.since \in [Jobs -> Optional(Nat)] /\ time \in Nat /\ reading \in Reading
  BY DEF WindowInv, AdmissionTypes, KeeperType
<1>2. s \in SeenType /\ s.row = keeper.seen.row
  BY <1>1 DEF SeenType
<1> HIDE DEF s
<1>3. i \in View /\ i.row = s.row /\ i.now = time /\ i.start = {}
  BY <1>1, <1>2, InputIsView
<1> HIDE DEF i
<1>4. Numbered(i.row) /\ Begun(i.row, i.now) /\ Calm(i.row, i.now)
  BY <1>2, <1>3 DEF WindowInv, AdmissionTypes
<1>5. Decide(i) \in PassView(i.row, i.now)
  BY <1>3, <1>4, PassIsCalm
<1> QED BY <1>2, <1>3, <1>5 DEF Decided, i, s

\* The step of the pass, once what it decided and what fails are known.
AppliesWith(v, unspawned, unwritten) ==
    LET written == {j \in v.start \union v.fail : yard[j].st = "waiting" /\ j \notin unwritten}
        failed  == v.start \union v.fail # written
        again   == IF MachineGated(v) THEN {time + Recheck} ELSE {}
    IN /\ troubles + Cardinality(unspawned) + Cardinality(unwritten) <= MaxTroubles
       /\ troubles' = troubles + Cardinality(unspawned) + Cardinality(unwritten)
       /\ yard' = [j \in Jobs |-> Applied(v, j, unspawned, unwritten)]
       /\ keeper' = [keeper EXCEPT !.at = "asleep", !.ok = ~failed, !.event = @ \/ written # {},
                                   !.since = [j \in Jobs |-> IF j \in In(Input(keeper.seen, keeper.since, time), "waiting") THEN v.since[j] ELSE {}],
                                   !.wake = Earliest(NextWakeup(v) \union again \union RetryWake(time, failed)),
                                   !.seen.reading = reading]
LEMMA AppliesBy ==
  ASSUME PassApplies
  PROVE  \E unspawned \in SUBSET Decided.start : \E unwritten \in SUBSET (Decided.fail \union unspawned) :
            AppliesWith(Decided, unspawned, unwritten)
<1>1. \E v \in {Decided} : \E unspawned \in SUBSET v.start : \E unwritten \in SUBSET (v.fail \union unspawned) :
         AppliesWith(v, unspawned, unwritten)
  BY Zenon DEF PassApplies, Decided, AppliesWith
<1> HIDE DEF Decided, AppliesWith
<1>2. PICK v \in {Decided} : \E unspawned \in SUBSET v.start : \E unwritten \in SUBSET (v.fail \union unspawned) :
         AppliesWith(v, unspawned, unwritten)
  BY <1>1
<1>3. v = Decided
  OBVIOUS
<1> QED BY <1>2, <1>3

LEMMA ApplyIsCalm == ASSUME WindowInv, PassApplies PROVE WindowInv'
<1> DEFINE v == Decided
<1>0. PICK unspawned \in SUBSET v.start : \E unwritten \in SUBSET (v.fail \union unspawned) : AppliesWith(v, unspawned, unwritten)
  BY AppliesBy
<1>1. PICK unwritten \in SUBSET (v.fail \union unspawned) : AppliesWith(v, unspawned, unwritten)
  BY <1>0
<1>2. yard' = [j \in Jobs |-> Applied(v, j, unspawned, unwritten)]
  BY <1>1 DEF AppliesWith
<1>3. keeper.at = "read" /\ UNCHANGED <<gates, reading, time>>
  BY DEF PassApplies
<1>4. v \in PassView(keeper.seen.row, time)
  BY <1>3, DecidedIsView
<1> HIDE DEF v
<1>5. /\ v \in View /\ Numbered(v.row) /\ Begun(v.row, time) /\ Calm(v.row, time) /\ v.now = time
      /\ \A j \in Jobs : PassRow(keeper.seen.row[j], v.row[j], time) /\ (j \in v.start => v.row[j].st = "running")
  BY <1>4 DEF PassView
<1>6. /\ yard \in [Jobs -> JobRow] /\ gates \in Gates /\ reading \in Reading /\ time \in Nat /\ keeper \in KeeperType
      /\ Numbered(yard) /\ Numbered(keeper.seen.row) /\ Agrees(yard, keeper.seen.row)
      /\ keeper.seen \in SeenType
  BY <1>3 DEF WindowInv, AdmissionTypes, KeeperType
<1>7. v.row \in [Jobs -> JobRow] /\ v.since \in [Jobs -> Optional(Nat)]
  BY <1>5 DEF View
<1>8. ASSUME NEW j \in Jobs
      PROVE  /\ yard'[j] \in JobRow
             /\ yard'[j].st = "waiting" => yard'[j] = yard[j]
             /\ yard'[j].st = "running" => yard'[j] = yard[j] \/ yard'[j] = v.row[j]
  <2>1. yard'[j] = Applied(v, j, unspawned, unwritten)
    BY <1>2
  <2>2. EndedRow(yard[j]) \in JobRow /\ EndedRow(yard[j]).st = "ended"
    BY <1>6, EndedIsRow
  <2>3. j \in v.start => v.row[j].st = "running" /\ v.row[j] \in JobRow
    BY <1>5, <1>7
  <2> QED BY <1>6, <2>1, <2>2, <2>3 DEF Applied
<1>9. yard' \in [Jobs -> JobRow] /\ Numbered(yard')
  <2>1. yard' = [j \in Jobs |-> yard'[j]]
    BY <1>2
  <2>2. yard' \in [Jobs -> JobRow]
    BY <1>8, <2>1
  <2> QED BY <1>6, <1>8, <2>2 DEF Numbered
<1>10. Agrees(yard', v.row)
  <2>1. SUFFICES ASSUME NEW j \in Jobs, yard'[j].st = "running"
                 PROVE  /\ v.row[j].st = "running" /\ yard'[j].started = v.row[j].started /\ yard'[j].quiet = v.row[j].quiet
                        /\ HeavyLoad(yard'[j]) => HeavyLoad(v.row[j])
    BY DEF Agrees
  <2>2. CASE yard'[j] = v.row[j]
    BY <2>1, <2>2
  <2>3. CASE yard'[j] = yard[j]
    <3>1. /\ keeper.seen.row[j].st = "running" /\ yard[j].started = keeper.seen.row[j].started
          /\ yard[j].quiet = keeper.seen.row[j].quiet /\ (HeavyLoad(yard[j]) => HeavyLoad(keeper.seen.row[j]))
      BY <1>6, <2>1, <2>3 DEF Agrees
    <3>2. v.row[j] = keeper.seen.row[j]
      BY <1>5, <3>1 DEF PassRow
    <3> QED BY <2>3, <3>1, <3>2
  <2> QED BY <1>8, <2>1, <2>2, <2>3
<1>11. Begun(yard', time) /\ Calm(yard', time)
  BY <1>5, <1>10, AgreeingIsCalm
<1>12. keeper' \in KeeperType /\ keeper'.at = "asleep" /\ keeper'.seen.row = keeper.seen.row
  <2> DEFINE written == {j \in v.start \union v.fail : yard[j].st = "waiting" /\ j \notin unwritten}
             failed  == v.start \union v.fail # written
             again   == IF MachineGated(v) THEN {time + Recheck} ELSE {}
             S == NextWakeup(v) \union again \union RetryWake(time, failed)
             W == Earliest(S)
             c == [j \in Jobs |-> IF j \in In(Input(keeper.seen, keeper.since, time), "waiting") THEN v.since[j] ELSE {}]
             s == [keeper.seen EXCEPT !.reading = reading]
             ev == keeper.event \/ written # {}
  <2>0. keeper' = [keeper EXCEPT !.at = "asleep", !.ok = ~failed, !.event = @ \/ written # {}, !.since = c, !.wake = W, !.seen.reading = reading]
    BY <1>1 DEF AppliesWith
  <2>1. keeper' = [keeper EXCEPT !.at = "asleep", !.ok = ~failed, !.event = ev, !.since = c, !.wake = W, !.seen = s]
    <3> HIDE DEF W, c, failed, written
    <3> QED BY <2>0, <1>6 DEF KeeperType, SeenType
  <2>2. s \in SeenType /\ s.row = keeper.seen.row
    BY <1>6 DEF SeenType
  <2>3. c \in [Jobs -> Optional(Nat)]
    BY <1>7, OptionalOf
  <2>4. S \in SUBSET Nat
    <3>1. Instants(v) \in SUBSET Nat
      BY <1>5, InstantsNat
    <3> DEFINE I == {t \in Instants(v) : t > v.now}
    <3>2. I \in SUBSET Nat
      BY <3>1
    <3>3. NextWakeup(v) \subseteq Nat
      <4>1. NextWakeup(v) = Earliest(I)
        BY DEF NextWakeup
      <4> HIDE DEF I
      <4>2. Earliest(I) \subseteq I
        BY <3>2, EarliestIsOptional
      <4> QED BY <3>2, <4>1, <4>2
    <3>4. again \subseteq Nat /\ RetryWake(time, failed) \subseteq Nat
      BY <1>6, AdmissionAssumption DEF RetryWake
    <3> QED BY <3>3, <3>4
  <2>5. W \in Optional(Nat)
    <3> HIDE DEF S
    <3> QED BY <2>4, EarliestIsOptional
  <2>6. ev \in BOOLEAN /\ (~failed) \in BOOLEAN
    BY <1>6 DEF KeeperType
  <2> HIDE DEF W, c, s, ev, failed
  <2> QED BY <1>6, <2>1, <2>2, <2>3, <2>5, <2>6 DEF KeeperType
<1> QED BY <1>3, <1>6, <1>9, <1>11, <1>12 DEF WindowInv, AdmissionTypes

LEMMA TimeIsCalm == ASSUME WindowInv, TimePasses PROVE WindowInv'
<1>1. UNCHANGED <<yard, gates, reading, keeper>> /\ time' = time + 1
  BY DEF TimePasses
<1>2. yard \in [Jobs -> JobRow] /\ time \in Nat /\ keeper.seen.row \in [Jobs -> JobRow]
  BY DEF WindowInv, AdmissionTypes, KeeperType, SeenType
<1>3. AdmissionTypes'
  BY <1>1, <1>2 DEF WindowInv, AdmissionTypes
<1>4. Begun(yard, time + 1) /\ Calm(yard, time + 1)
  BY <1>2, LaterIsCalm DEF WindowInv
<1>5. keeper.at = "read" => Begun(keeper.seen.row, time + 1) /\ Calm(keeper.seen.row, time + 1)
  BY <1>2, LaterIsCalm DEF WindowInv
<1> QED BY <1>1, <1>3, <1>4, <1>5 DEF WindowInv

LEMMA WindowStep == WindowInv /\ [AdmissionStep]_admissionVars => WindowInv'
<1> SUFFICES ASSUME WindowInv, [AdmissionStep]_admissionVars PROVE WindowInv'
  OBVIOUS
<1>0. /\ yard \in [Jobs -> JobRow] /\ gates \in Gates /\ reading \in Reading /\ Numbered(yard) /\ Agrees(yard, yard)
      /\ time \in Nat
  BY AgreesWithItself DEF WindowInv, AdmissionTypes
<1>1. CASE PassReads
  BY <1>1, ReadIsCalm
<1>2. CASE PassFails
  BY <1>2, FailureIsCalm
<1>3. CASE PassApplies
  BY <1>3, ApplyIsCalm
<1>4. CASE TimePasses
  BY <1>4, TimeIsCalm
<1>5. ASSUME NEW j \in Jobs, JobEnds(j) \/ CancelWaiting(j) PROVE WindowInv'
  <2>1. yard' = [yard EXCEPT ![j] = EndedRow(@)] /\ keeper' = Tell /\ UNCHANGED <<gates, reading, time>>
    BY <1>5 DEF JobEnds, CancelWaiting
  <2>2. yard' \in [Jobs -> JobRow] /\ Numbered(yard') /\ Agrees(yard', yard)
    BY <2>1, EndIsCalm
  <2> QED BY <1>0, <2>1, <2>2, AroundIsCalm
<1>6. ASSUME NEW j \in Jobs, WorkRequest(j) PROVE WindowInv'
  BY <1>6, RequestIsCalm
<1>7. ASSUME NEW j \in Jobs, JobSample(j) PROVE WindowInv'
  BY <1>7, SampleIsCalm
<1>8. CASE GateShuts \/ GateOpens
  <2>1. UNCHANGED <<yard, reading, time>> /\ keeper' = Tell
    BY <1>8 DEF GateShuts, GateOpens
  <2>2. gates' \in Gates
    <3>1. {time + 1} \in Optional(Nat) /\ {} \in Optional(Nat)
      BY <1>0, OptionalOf
    <3>2. gates' \in {[gates EXCEPT !.paused = TRUE], [gates EXCEPT !.manual = {time + 1}], [gates EXCEPT !.paused = FALSE], [gates EXCEPT !.manual = {}]}
      BY <1>8 DEF GateShuts, GateOpens
    <3> QED BY <1>0, <3>1, <3>2 DEF Gates
  <2> QED BY <1>0, <2>1, <2>2, AroundIsCalm
<1>9. CASE MachineMoves
  <2>1. UNCHANGED <<yard, gates, time, keeper>> /\ reading' \in Reading
    BY <1>9, AdmissionAssumption DEF MachineMoves
  <2> QED BY <1>0, <2>1, AroundIsCalm
<1>10. CASE UNCHANGED admissionVars
  <2>1. UNCHANGED <<yard, gates, reading, keeper, time>>
    BY <1>10 DEF admissionVars
  <2> QED BY <1>0, <2>1, AroundIsCalm
<1> QED BY <1>1, <1>2, <1>3, <1>4, <1>5, <1>6, <1>7, <1>8, <1>9, <1>10 DEF AdmissionStep

\* While the quiet window of an exclusive job is open, no other window is and no heavy job started after it:
\* one pass judges each job against the jobs it has just started, and what ends or is sampled only makes room.
THEOREM WindowsAreQuiet == AdmissionSpec => []WindowIsQuiet
<1>1. WindowInv => WindowIsQuiet
  <2> SUFFICES ASSUME WindowInv PROVE WindowIsQuiet
    OBVIOUS
  <2> DEFINE s == [row |-> yard, gates |-> gates, reading |-> reading]
  <2>1. Now.row = yard
    BY DEF Now, Input
  <2>2. In(Now, "running") = RunningIn(yard)
    BY <2>1 DEF In, RunningIn
  <2>3. \A r : IsHeavy(Now, r) = HeavyLoad(yard[r])
    BY <2>1, CoresAreLoad DEF IsHeavy, HeavyLoad
  <2>4. yard \in [Jobs -> JobRow] /\ time \in Nat /\ Calm(yard, time)
    BY DEF WindowInv, AdmissionTypes
  <2>5. ASSUME NEW e \in RunningIn(yard), \E u \in yard[e].quiet : u > time, NEW r \in RunningIn(yard) \ {e}
        PROVE  /\ \A u \in yard[r].quiet : u <= time
               /\ HeavyLoad(yard[r]) => \A x \in yard[r].started, t \in yard[e].started : x <= t
    <3>1. e \in Jobs
      BY DEF RunningIn
    <3>2. yard[e].quiet \in Optional(Nat)
      BY <2>4, <3>1 DEF JobRow
    <3>3. yard[e].quiet \subseteq Nat
      BY <3>2, OptionalOf
    <3>4. ~Shut(yard[e], time)
      BY <2>4, <2>5, <3>3 DEF Shut
    <3> QED BY <2>4, <3>4 DEF Calm, CalmBeside, Shut
  <2> QED BY <2>2, <2>3, <2>5 DEF WindowIsQuiet
<1> QED BY <1>1, WindowInit, WindowStep, PTL DEF AdmissionSpec

-----------------------------------------------------------------------------
(* Someone starts.                                                             *)

\* The machine runs nothing and nothing holds it.
NothingHolds(v) == In(v, "running") = {} /\ ~v.gates.paused /\ ~ManualOpen(v) /\ ~Pressure(v)

LEMMA NothingIsOver ==
  ASSUME NEW v, In(v, "running") = {}, ~Pressure(v), NEW j
  PROVE  MemoryThenPressure(v, j) = "none" /\ AdmissionOf(v, j) = "none"
<1>1. UsedCores(v) = 0 /\ Total([r \in Jobs |-> Weight(v, r)], In(v, "running")) = 0
  BY TotalOfNone DEF UsedCores
<1>2. MemoryThenPressure(v, j) = "none"
  BY DEF MemoryThenPressure, MemoryReservation
<1>3. \A need, limit : ~Over(need, 0, limit)
  BY DEF Over
<1> QED BY <1>1, <1>2, <1>3 DEF AdmissionOf

LEMMA OnlyTheMachineFails ==
  ASSUME NEW v, ~Pressure(v), NEW j PROVE Blocker(v, j) # "Machine"
<1>1. MemoryThenPressure(v, j) # "Machine"
  BY DEF MemoryThenPressure
<1>2. AdmissionOf(v, j) # "Machine"
  BY <1>1 DEF AdmissionOf
<1>3. QuietBlocker(v, j) # "Machine"
  BY <1>1, <1>2 DEF QuietBlocker
<1>4. Backfill(v, j, LineAhead(v, j)) # "Machine"
  BY DEF Backfill
<1> QED BY <1>2, <1>3, <1>4 DEF Blocker

\* The order of the line is that of its rows.
LEMMA SameOrder ==
  ASSUME NEW u, NEW v, u.row = v.row, v.row \in [Jobs -> JobRow], Numbered(v.row), NEW S, S \subseteq In(v, "waiting"), S # {}
  PROVE  FirstOf(u, S) = FirstOf(v, S)
<1>1. \A i : OrderKey(u, i) = OrderKey(v, i)
  BY DEF OrderKey
<1>2. \A i, j : Before(u, i, j) = Before(v, i, j)
  BY <1>1 DEF Before
<1>3. S \subseteq In(u, "waiting") /\ S \subseteq Jobs
  BY DEF In
<1> DEFINE a == FirstOf(u, S)
           b == FirstOf(v, S)
<1>4. a \in S /\ \A j \in S \ {a} : Before(u, a, j)
  BY <1>3, FirstIsFirst
<1>5. b \in S /\ \A j \in S \ {b} : Before(v, b, j)
  BY FirstIsFirst
<1> HIDE DEF a, b
<1>6. a = b
  <2>1. SUFFICES ASSUME a # b PROVE FALSE
    OBVIOUS
  <2>2. Before(v, a, b) /\ Before(v, b, a)
    BY <1>2, <1>4, <1>5, <2>1
  <2> QED BY <1>3, <1>4, <1>5, <2>2, BeforeIsAsymmetric
<1> QED BY <1>6 DEF a, b

\* The job whose turn it is on an idle machine.
Chosen(v) == IF QuietLine(v) # {} THEN FirstOf(v, QuietLine(v)) ELSE FirstOf(v, In(v, "waiting"))
LEMMA ChosenMayStart ==
  ASSUME NEW u \in View, NEW v \in View, u.row = v.row, Numbered(v.row), In(v, "waiting") # {}, NothingHolds(u)
  PROVE  Chosen(v) \in In(v, "waiting") /\ Blocker(u, Chosen(v)) = "none"
<1>0. v.row \in [Jobs -> JobRow]
  BY DEF View
<1>1. /\ QuietLine(u) = QuietLine(v) /\ QuietLine(v) \subseteq In(v, "waiting") /\ In(u, "waiting") = In(v, "waiting")
      /\ \A j : Exclusive(u, j) = Exclusive(v, j)
  BY DEF QuietLine, In, Exclusive, Weight
<1>2. ~WindowOpen(u) /\ ~ManualOpen(u) /\ ~u.gates.paused
  BY DEF NothingHolds, WindowOpen
<1>3. \A j : MemoryThenPressure(u, j) = "none" /\ AdmissionOf(u, j) = "none"
  BY NothingIsOver DEF NothingHolds
<1>4. CASE QuietLine(v) # {}
  <2> DEFINE j == FirstOf(v, QuietLine(v))
  <2>1. j \in QuietLine(v) /\ j = FirstOf(u, QuietLine(u))
    BY <1>0, <1>1, <1>4, FirstIsFirst, SameOrder
  <2>2. Exclusive(u, j) /\ j \in In(v, "waiting") /\ Chosen(v) = j
    BY <1>1, <1>4, <2>1 DEF QuietLine, Chosen
  <2> HIDE DEF j
  <2>3. QuietBlocker(u, j) = "none"
    BY <1>2, <1>3, <2>1 DEF QuietBlocker, NothingHolds
  <2>4. Blocker(u, j) = "none"
    BY <1>2, <2>2, <2>3 DEF Blocker
  <2> QED BY <2>2, <2>4
<1>5. CASE QuietLine(v) = {}
  <2> DEFINE j == FirstOf(v, In(v, "waiting"))
  <2>1. j \in In(v, "waiting") /\ \A i \in In(v, "waiting") \ {j} : Before(v, j, i)
    BY <1>0, FirstIsFirst
  <2>2. Chosen(v) = j
    BY <1>5 DEF Chosen
  <2> HIDE DEF j
  <2>3. ~Exclusive(u, j) /\ ~Draining(u)
    BY <1>1, <1>5, <2>1 DEF QuietLine, Draining
  <2>4. \A i \in Jobs : OrderKey(u, i) = OrderKey(v, i)
    BY DEF OrderKey
  <2>5. \A i \in Jobs : Before(u, i, j) = Before(v, i, j)
    BY <2>1, <2>4 DEF Before, In
  <2>6. LineAhead(u, j) = {}
    <3>1. SUFFICES ASSUME NEW i \in In(v, "waiting"), i # j, Before(u, i, j) PROVE FALSE
      BY <1>1 DEF LineAhead
    <3>2. i \in Jobs /\ j \in Jobs
      BY <2>1 DEF In
    <3>3. Before(v, i, j) /\ Before(v, j, i)
      BY <2>1, <2>5, <3>1, <3>2
    <3> QED BY <1>0, <3>2, <3>3, BeforeIsAsymmetric
  <2>7. Blocker(u, j) = "none"
    BY <1>2, <1>3, <2>3, <2>6 DEF Blocker
  <2> QED BY <2>1, <2>2, <2>7
<1> QED BY <1>4, <1>5

LEMMA JudgeKeepsNumbers ==
  ASSUME NEW v \in View, Numbered(v.row), NEW j \in Jobs
  PROVE  Judge(v, j) \in View /\ Numbered(Judge(v, j).row) /\ v.start \subseteq Judge(v, j).start /\ v.fail \subseteq Judge(v, j).fail
<1> DEFINE w == Judge(v, j)
<1>1. CASE Blocker(v, j) = "none"
  <2>1. Beside(v, w, j) /\ w.row[j] = StartedRow(v, j) /\ w.start = v.start \union {j} /\ w.fail = v.fail
    BY <1>1, JudgeStarts
  <2>2. StartedRow(v, j).st = "running"
    BY StartedIsRow
  <2> HIDE DEF w
  <2> QED BY <2>1, <2>2 DEF Beside, Numbered, w
<1>2. CASE Blocker(v, j) = "Machine" /\ v.now - HeldSince(v, j) >= LoadWait
  <2>1. Beside(v, w, j) /\ w.row[j] = [v.row[j] EXCEPT !.st = "ended"] /\ w.start = v.start /\ w.fail = v.fail \union {j}
    BY <1>2, JudgeFails
  <2>2. v.row[j] \in JobRow
    BY DEF View
  <2>3. [v.row[j] EXCEPT !.st = "ended"].st = "ended"
    BY <2>2 DEF JobRow
  <2> HIDE DEF w
  <2>4. w.row[j].st = "ended"
    BY <2>1, <2>3
  <2>5. w \in View /\ \A i \in Jobs \ {j} : w.row[i] = v.row[i]
    BY <2>1 DEF Beside
  <2>6. Numbered(w.row)
    BY <2>4, <2>5 DEF Numbered
  <2> QED BY <2>1, <2>5, <2>6 DEF w
<1>3. CASE Blocker(v, j) # "none" /\ ~(Blocker(v, j) = "Machine" /\ v.now - HeldSince(v, j) >= LoadWait)
  <2>1. Beside(v, w, j) /\ w.row = v.row /\ w.start = v.start /\ w.fail = v.fail
    BY <1>3, JudgeHolds
  <2> HIDE DEF w
  <2> QED BY <2>1 DEF Beside, w
<1> QED BY <1>1, <1>2, <1>3

\* After k judgements of a pass on an idle machine: a job has started, or the chosen one is not judged yet and
\* k others are.
IdlePass(v, k) ==
    {u \in View : Numbered(u.row) /\ (u.start # {} \/
        /\ u.row = v.row /\ u.now = v.now /\ u.gates = v.gates /\ u.reading = v.reading
        /\ u.held[Chosen(v)] = "none" /\ Cardinality(Unjudged(u)) <= Cardinality(Jobs) - k)}

LEMMA IdlePassStep ==
  ASSUME NEW v \in View, Numbered(v.row), In(v, "waiting") # {}, NothingHolds(v), NEW k \in 1 .. Cardinality(Jobs),
         NEW u \in IdlePass(v, k - 1)
  PROVE  JudgeNext(u) \in IdlePass(v, k)
<1> DEFINE N == Cardinality(Jobs)
<1>1. N \in Nat /\ IsFiniteSet(Jobs)
  BY AdmissionAssumption, FS_CardinalityType
<1>2. u \in View /\ Numbered(u.row) /\ u.row \in [Jobs -> JobRow]
  BY DEF IdlePass, View
<1> DEFINE j == FirstOf(u, Unjudged(u))
           w == Judge(u, j)
<1>3. CASE u.start # {}
  <2>1. CASE Unjudged(u) = {}
    BY <1>2, <1>3, <2>1 DEF JudgeNext, IdlePass
  <2>2. CASE Unjudged(u) # {}
    <3>1. Unjudged(u) \subseteq In(u, "waiting") /\ Unjudged(u) \subseteq Jobs
      BY DEF Unjudged, In
    <3>2. j \in Jobs
      BY <1>2, <2>2, <3>1, FirstIsFirst
    <3> HIDE DEF j
    <3>3. w \in View /\ Numbered(w.row) /\ w.start # {}
      BY <1>2, <1>3, <3>2, JudgeKeepsNumbers
    <3>4. JudgeNext(u) = w
      BY <2>2 DEF JudgeNext, j
    <3> HIDE DEF w
    <3> QED BY <3>3, <3>4 DEF IdlePass
  <2> QED BY <2>1, <2>2
<1>4. CASE u.start = {}
  <2>1. /\ u.row = v.row /\ u.now = v.now /\ u.gates = v.gates /\ u.reading = v.reading
        /\ u.held[Chosen(v)] = "none" /\ Cardinality(Unjudged(u)) <= N - (k - 1)
    BY <1>4 DEF IdlePass
  <2>2. NothingHolds(u)
    BY <2>1 DEF NothingHolds, In, ManualOpen, Pressure
  <2>3. Chosen(v) \in In(v, "waiting") /\ Blocker(u, Chosen(v)) = "none"
    BY <1>2, <2>1, <2>2, ChosenMayStart
  <2>4. Chosen(v) \in Unjudged(u)
    BY <2>1, <2>3 DEF Unjudged, In
  <2>5. Unjudged(u) \subseteq In(u, "waiting") /\ Unjudged(u) \subseteq Jobs /\ u.row \in [Jobs -> JobRow] /\ Numbered(u.row)
    BY <1>2, <2>1 DEF Unjudged, In, View
  <2>6. j \in Unjudged(u) /\ j \in Jobs
    BY <2>4, <2>5, FirstIsFirst
  <2>7. JudgeNext(u) = w
    BY <2>4 DEF JudgeNext
  <2> HIDE DEF j
  <2>8. CASE Blocker(u, j) = "none"
    <3>0. w.start = u.start \union {j}
      BY <1>2, <2>6, <2>8, JudgeStarts
    <3>1. w \in View /\ w.start # {} /\ Numbered(w.row)
      BY <1>2, <2>6, <3>0, JudgeKeepsNumbers
    <3> HIDE DEF w
    <3> QED BY <2>7, <3>1 DEF IdlePass
  <2>9. CASE Blocker(u, j) # "none"
    <3>1. Blocker(u, j) # "Machine"
      BY <2>2, OnlyTheMachineFails DEF NothingHolds
    <3>2. Beside(u, w, j) /\ w.row = u.row /\ w.held[j] = Blocker(u, j)
      BY <1>2, <2>6, <2>9, <3>1, JudgeHolds
    <3>3. Chosen(v) # j /\ Chosen(v) \in Jobs
      BY <2>3, <2>9 DEF In
    <3> HIDE DEF w
    <3>4. w.held[Chosen(v)] = "none"
      BY <2>1, <3>2, <3>3 DEF Beside
    <3>5. Unjudged(w) = Unjudged(u) \ {j}
      <4>1. In(w, "waiting") = In(u, "waiting") /\ In(w, "waiting") \subseteq Jobs
        BY <3>2 DEF In
      <4>2. \A i \in Jobs \ {j} : w.held[i] = u.held[i]
        BY <3>2 DEF Beside
      <4> QED BY <2>9, <3>2, <4>1, <4>2 DEF Unjudged
    <3>6. IsFiniteSet(Unjudged(u))
      BY <1>1, <2>5, FS_Subset
    <3>7. Cardinality(Unjudged(w)) = Cardinality(Unjudged(u)) - 1 /\ Cardinality(Unjudged(u)) \in Nat
      BY <2>6, <3>5, <3>6, FS_RemoveElement, FS_CardinalityType
    <3>8. Cardinality(Unjudged(w)) <= N - k
      <4> HIDE DEF N
      <4> QED BY <1>1, <2>1, <3>7
    <3> QED BY <1>2, <2>1, <2>7, <3>2, <3>4, <3>8 DEF IdlePass, Beside
  <2> QED BY <2>8, <2>9
<1> QED BY <1>3, <1>4

LEMMA IdlePassStarts ==
  ASSUME NEW v \in View, Numbered(v.row), In(v, "waiting") # {}, NothingHolds(v), v.held = NoCause
  PROVE  Decide(v).start # {}
<1> DEFINE N == Cardinality(Jobs)
           P == [k \in 0 .. N |-> IdlePass(v, k)]
<1>1. N \in Nat /\ IsFiniteSet(Jobs)
  BY AdmissionAssumption, FS_CardinalityType
<1>2. Chosen(v) \in In(v, "waiting")
  BY ChosenMayStart
<1>3. v \in IdlePass(v, 0)
  <2>1. v.held[Chosen(v)] = "none"
    BY <1>2 DEF NoCause, In
  <2>2. Unjudged(v) \subseteq Jobs
    BY DEF Unjudged, In
  <2>3. Cardinality(Unjudged(v)) <= N /\ N - 0 = N
    BY <1>1, <2>2, FS_Subset
  <2> QED BY <2>1, <2>3 DEF IdlePass
<1>4. 0 \in 0 .. N /\ N \in 0 .. N /\ \A k \in 1 .. N : k \in 0 .. N /\ k - 1 \in 0 .. N
  BY <1>1
<1>5. \A k \in 1 .. N : \A u \in IdlePass(v, k - 1) : JudgeNext(u) \in IdlePass(v, k)
  <2>1. SUFFICES ASSUME NEW k \in 1 .. N, NEW u \in IdlePass(v, k - 1) PROVE JudgeNext(u) \in IdlePass(v, k)
    OBVIOUS
  <2> QED BY <2>1, IdlePassStep DEF N
<1>6. v \in P[0] /\ \A k \in 1 .. N : \A u \in P[k - 1] : JudgeNext(u) \in P[k]
  <2>1. P[0] = IdlePass(v, 0) /\ \A k \in 1 .. N : P[k - 1] = IdlePass(v, k - 1) /\ P[k] = IdlePass(v, k)
    BY <1>4
  <2> HIDE DEF P
  <2> QED BY <1>3, <1>5, <2>1
<1>7. P[N] = IdlePass(v, N)
  BY <1>4
<1>8. Decide(v) \in IdlePass(v, N)
  <2> HIDE DEF P
  <2> QED BY <1>6, <1>7, PassKeeps
<1> DEFINE u == Decide(v)
<1> HIDE DEF u
<1>9. ASSUME u.start = {} PROVE FALSE
  <2>1. u.row = v.row /\ u.held[Chosen(v)] = "none" /\ Cardinality(Unjudged(u)) <= N - N
    BY <1>8, <1>9 DEF IdlePass, u
  <2>2. Unjudged(u) \subseteq Jobs
    BY DEF Unjudged, In
  <2>3. IsFiniteSet(Unjudged(u)) /\ Cardinality(Unjudged(u)) \in Nat
    BY <1>1, <2>2, FS_Subset, FS_CardinalityType
  <2>4. Cardinality(Unjudged(u)) = 0
    <3> HIDE DEF N
    <3> QED BY <1>1, <2>1, <2>3
  <2>5. Unjudged(u) = {}
    BY <2>3, <2>4, FS_EmptySet
  <2>6. Chosen(v) \in Unjudged(u)
    BY <1>2, <2>1 DEF Unjudged, In
  <2> QED BY <2>5, <2>6
<1> QED BY <1>9 DEF u

\* The waiting jobs never all wait for each other: on a machine that runs nothing and that nothing holds, the first
\* exclusive job, or the first of the line if there is none, passes every rule when the pass comes to it.
THEOREM SomeoneAlwaysStarts == AdmissionSpec => []SomeoneStarts
<1>1. WindowInv => SomeoneStarts
  <2> SUFFICES ASSUME WindowInv, In(Now, "waiting") # {}, In(Now, "running") = {},
                      ~gates.paused, ~ManualOpen(Now), ~Pressure(Now)
               PROVE  Decide(Now).start # {}
    BY DEF SomeoneStarts
  <2> DEFINE s == [row |-> yard, gates |-> gates, reading |-> reading]
  <2>1. s \in SeenType /\ s.row = yard /\ s.gates = gates
    BY DEF WindowInv, AdmissionTypes, SeenType
  <2>2. keeper.since \in [Jobs -> Optional(Nat)] /\ time \in Nat /\ Numbered(yard)
    BY DEF WindowInv, AdmissionTypes, KeeperType
  <2>3. Now = Input(s, keeper.since, time)
    BY DEF Now
  <2> HIDE DEF s
  <2>4. Now \in View /\ Now.row = yard /\ Now.gates = gates /\ Now.held = NoCause
    BY <2>1, <2>2, <2>3, InputIsView
  <2>5. NothingHolds(Now)
    BY <2>4 DEF NothingHolds
  <2> HIDE DEF Now
  <2> QED BY <2>2, <2>4, <2>5, IdlePassStarts
<1> QED BY <1>1, WindowInit, WindowStep, PTL DEF AdmissionSpec

-----------------------------------------------------------------------------
(* The same line at a later time.                                               *)

\* A finite set of numbers has a greatest one.
LEMMA LatestOf ==
    ASSUME NEW S \in SUBSET Nat, IsFiniteSet(S), S # {} PROVE Max(S) \in S /\ \A n \in S : n <= Max(S)
<1> DEFINE HasMax(T) == \E x \in T : \A y \in T : x >= y
           Bad == {n \in Nat : \E T \in SUBSET Nat : IsFiniteSet(T) /\ T # {} /\ Cardinality(T) = n /\ ~HasMax(T)}
<1>1. Bad = {}
  <2>1. SUFFICES ASSUME Bad # {} PROVE FALSE
    OBVIOUS
  <2>2. PICK m \in Bad : \A k \in Bad : m <= k
    <3>1. Bad \in SUBSET Nat
      OBVIOUS
    <3> HIDE DEF Bad
    <3> QED BY <2>1, <3>1, EarliestOf
  <2>3. PICK T \in SUBSET Nat : IsFiniteSet(T) /\ T # {} /\ Cardinality(T) = m /\ ~HasMax(T)
    BY <2>2
  <2>4. PICK x \in T : TRUE
    BY <2>3
  <2> DEFINE U == T \ {x}
  <2>5. IsFiniteSet(U) /\ Cardinality(U) = m - 1 /\ m \in Nat
    BY <2>2, <2>3, <2>4, FS_RemoveElement
  <2>6. U # {}
    <3>1. ASSUME U = {} PROVE FALSE
      <4>1. \A y \in T : y = x
        BY <3>1
      <4>2. \A y \in T : x >= y
        BY <2>4, <4>1
      <4> QED BY <2>3, <2>4, <4>2
    <3> QED BY <3>1
  <2>7. HasMax(U)
    <3>1. m - 1 \notin Bad
      BY <2>2, <2>5
    <3>2. Cardinality(U) \in Nat
      BY <2>5, FS_CardinalityType
    <3>3. U \in SUBSET Nat /\ m - 1 \in Nat
      BY <2>5, <3>2
    <3> QED BY <2>5, <2>6, <3>1, <3>3
  <2>8. PICK y \in U : \A z \in U : y >= z
    BY <2>7
  <2>9. HasMax(T)
    <3>1. x \in Nat /\ y \in Nat /\ T = U \union {x} /\ U \subseteq Nat
      BY <2>4, <2>8
    <3>2. CASE x >= y
      <4>1. \A z \in T : x >= z
        BY <2>8, <3>1, <3>2
      <4> QED BY <2>4, <4>1
    <3>3. CASE ~(x >= y)
      <4>1. \A z \in T : y >= z
        BY <2>8, <3>1, <3>3
      <4> QED BY <2>8, <4>1
    <3> QED BY <3>2, <3>3
  <2> QED BY <2>3, <2>9
<1>2. Cardinality(S) \in Nat
  BY FS_CardinalityType
<1>3. HasMax(S)
  BY <1>1, <1>2
<1>4. PICK x \in S : \A y \in S : x >= y
  BY <1>3
<1>5. Max(S) \in S /\ \A y \in S : Max(S) >= y
  BY <1>4 DEF Max
<1> QED BY <1>5

\* The instants at which a rule of the line can change its mind.
Thresholds(v) ==
    UNION {{Requested(v, j) + QuietDrain : j \in QuietLine(v)},
           {c[2] + QuietDrain : c \in v.closes},
           UNION {v.row[r].quiet : r \in In(v, "running")},
           UNION {{s + d : s \in v.row[r].started, d \in v.row[r].shape.p90} : r \in In(v, "running")},
           v.gates.manual}
\* Two looks at the same line, the second no earlier, with no threshold between them.
Alike(u, v) ==
    /\ u \in View /\ v \in View /\ Numbered(v.row)
    /\ u.row = v.row /\ u.gates = v.gates /\ u.reading = v.reading /\ u.closes = v.closes
    /\ v.now <= u.now /\ \A x \in Thresholds(v) : x > v.now => x > u.now
    /\ IsFiniteSet(v.closes)

LEMMA AlikeRows ==
  ASSUME NEW u, NEW v, Alike(u, v)
  PROVE  /\ \A st : In(u, st) = In(v, st)
         /\ \A j : /\ Weight(u, j) = Weight(v, j) /\ Cores(u, j) = Cores(v, j) /\ IsTiny(u, j) = IsTiny(v, j)
                   /\ IsHeavy(u, j) = IsHeavy(v, j) /\ Exclusive(u, j) = Exclusive(v, j) /\ Requested(u, j) = Requested(v, j)
                   /\ DrainStart(u, j) = DrainStart(v, j)
         /\ \A i, j : Before(u, i, j) = Before(v, i, j)
         /\ CoresOf(u) = CoresOf(v) /\ UsedCores(u) = UsedCores(v) /\ QuietLine(u) = QuietLine(v)
         /\ \A S : S \subseteq In(v, "waiting") /\ S # {} => FirstOf(u, S) = FirstOf(v, S)
<1>0. u.row = v.row /\ u.closes = v.closes /\ v.row \in [Jobs -> JobRow] /\ Numbered(v.row)
  BY DEF Alike, View
<1>1. \A st : In(u, st) = In(v, st)
  BY <1>0 DEF In
<1>2. \A j : Weight(u, j) = Weight(v, j) /\ Cores(u, j) = Cores(v, j) /\ Requested(u, j) = Requested(v, j)
  BY <1>0, CoresAreLoad DEF Weight, Requested
<1>3. \A j : IsTiny(u, j) = IsTiny(v, j) /\ IsHeavy(u, j) = IsHeavy(v, j) /\ Exclusive(u, j) = Exclusive(v, j)
  BY <1>2 DEF IsTiny, IsHeavy, Exclusive
<1>4. \A j : DrainStart(u, j) = DrainStart(v, j)
  BY <1>0, <1>2 DEF DrainStart
<1>5. \A i : OrderKey(u, i) = OrderKey(v, i)
  BY <1>0 DEF OrderKey
<1>6. \A i, j : Before(u, i, j) = Before(v, i, j)
  BY <1>5 DEF Before
<1>7. CoresOf(u) = CoresOf(v)
  BY <1>2 DEF CoresOf
<1>8. UsedCores(u) = UsedCores(v)
  BY <1>1, <1>7 DEF UsedCores
<1>9. QuietLine(u) = QuietLine(v)
  BY <1>1, <1>3 DEF QuietLine
<1>10. \A S : S \subseteq In(v, "waiting") /\ S # {} => FirstOf(u, S) = FirstOf(v, S)
  BY <1>0, SameOrder
<1> QED BY <1>1, <1>2, <1>3, <1>4, <1>6, <1>7, <1>8, <1>9, <1>10

LEMMA Crossing ==
  ASSUME NEW u, NEW v, Alike(u, v), NEW x \in Thresholds(v)
  PROVE  x \in Nat /\ (x > v.now <=> x > u.now)
<1>1. u.now \in Nat /\ v.now \in Nat /\ v \in View /\ Numbered(v.row)
  BY DEF Alike, View
<1>2. Thresholds(v) \subseteq Instants(v)
  BY DEF Thresholds, Instants
<1>3. x \in Nat
  BY <1>1, <1>2, InstantsNat
<1>4. v.now <= u.now /\ (x > v.now => x > u.now)
  BY DEF Alike
<1> QED BY <1>1, <1>3, <1>4

LEMMA AlikeWindows ==
  ASSUME NEW u, NEW v, Alike(u, v)
  PROVE  WindowOpen(u) = WindowOpen(v) /\ ManualOpen(u) = ManualOpen(v)
<1>0. u.row = v.row /\ u.gates = v.gates
  BY DEF Alike
<1>1. \A r \in In(v, "running") : v.row[r].quiet \subseteq Thresholds(v)
  BY DEF Thresholds
<1>2. v.gates.manual \subseteq Thresholds(v)
  BY DEF Thresholds
<1>3. In(u, "running") = In(v, "running")
  BY AlikeRows
<1>4. WindowOpen(u) <=> WindowOpen(v)
  BY <1>0, <1>1, <1>3, Crossing DEF WindowOpen
<1>5. ManualOpen(u) <=> ManualOpen(v)
  BY <1>0, <1>2, Crossing DEF ManualOpen
<1>6. WindowOpen(u) \in BOOLEAN /\ WindowOpen(v) \in BOOLEAN /\ ManualOpen(u) \in BOOLEAN /\ ManualOpen(v) \in BOOLEAN
  BY DEF WindowOpen, ManualOpen
<1> QED BY <1>4, <1>5, <1>6

LEMMA AlikeAdmission ==
  ASSUME NEW u, NEW v, Alike(u, v), NEW j
  PROVE  MemoryThenPressure(u, j) = MemoryThenPressure(v, j) /\ AdmissionOf(u, j) = AdmissionOf(v, j)
<1>0. u.row = v.row /\ u.reading = v.reading
  BY DEF Alike
<1>1. In(u, "running") = In(v, "running") /\ \A i : Weight(u, i) = Weight(v, i) /\ Cores(u, i) = Cores(v, i)
  BY AlikeRows
<1>2. \A r \in In(v, "running") : Growth(u, r) = Growth(v, r)
  <2>1. SUFFICES ASSUME NEW r \in In(v, "running") PROVE Growth(u, r) = Growth(v, r)
    OBVIOUS
  <2>2. \A s \in v.row[r].started, d \in v.row[r].shape.p90 : s + d \in Thresholds(v)
    BY DEF Thresholds
  <2>3. \A s \in v.row[r].started, d \in v.row[r].shape.p90 : u.now < s + d <=> v.now < s + d
    <3>1. ASSUME NEW s \in v.row[r].started, NEW d \in v.row[r].shape.p90 PROVE u.now < s + d <=> v.now < s + d
      <4>1. s + d \in Nat /\ (s + d > v.now <=> s + d > u.now)
        BY <2>2, Crossing
      <4>2. u.now \in Nat /\ v.now \in Nat
        BY DEF Alike, View
      <4> QED BY <4>1, <4>2
    <3> QED BY <3>1
  <2> QED BY <1>0, <2>3 DEF Growth
<1> DEFINE g(w) == [r \in In(w, "running") |-> Growth(w, r)]
           h(w) == [r \in Jobs |-> Weight(w, r)]
<1>3. g(u) = g(v) /\ h(u) = h(v)
  BY <1>1, <1>2
<1>4. Pressure(u) = Pressure(v)
  BY <1>0 DEF Pressure
<1>5. MemoryReservation(u, j) = MemoryReservation(v, j)
  <2>1. /\ MemoryReservation(u, j) = (/\ In(u, "running") # {} /\ u.reading.used <= MemBudget
                                      /\ u.reading.used + Total(g(u), In(u, "running")) + u.row[j].shape.rss > MemBudget)
        /\ MemoryReservation(v, j) = (/\ In(v, "running") # {} /\ v.reading.used <= MemBudget
                                      /\ v.reading.used + Total(g(v), In(v, "running")) + v.row[j].shape.rss > MemBudget)
    BY DEF MemoryReservation
  <2> HIDE DEF g
  <2> QED BY <1>0, <1>1, <1>3, <2>1
<1>6. MemoryThenPressure(u, j) = MemoryThenPressure(v, j)
  BY <1>4, <1>5 DEF MemoryThenPressure
<1>7. Total(h(u), In(u, "running")) = Total(h(v), In(v, "running"))
  <2> HIDE DEF h
  <2> QED BY <1>1, <1>3
<1>8. UsedCores(u) = UsedCores(v) /\ IsTiny(u, j) = IsTiny(v, j) /\ Exclusive(u, j) = Exclusive(v, j)
  BY AlikeRows
<1>9. AdmissionOf(u, j) = AdmissionOf(v, j)
  BY <1>1, <1>6, <1>7, <1>8 DEF AdmissionOf
<1> QED BY <1>6, <1>9

LEMMA FiniteImage ==
  ASSUME NEW S, IsFiniteSet(S), NEW f, DOMAIN f = S, f = [x \in S |-> f[x]] PROVE IsFiniteSet({f[x] : x \in S})
<1> DEFINE T == {f[x] : x \in S}
<1>1. f \in [S -> T]
  OBVIOUS
<1>2. \A t \in T : \E x \in S : f[x] = t
  OBVIOUS
<1> HIDE DEF T
<1>3. f \in Surjection(S, T)
  BY <1>1, <1>2 DEF Surjection
<1> QED BY <1>3, FS_Surjection DEF T

\* The drain of an exclusive job ends at a threshold.
LEMMA DrainEnds ==
  ASSUME NEW u, NEW v, Alike(u, v), NEW j \in QuietLine(v)
  PROVE  DrainStart(v, j) + QuietDrain \in Thresholds(v) /\ DrainStart(v, j) \in Nat
<1> DEFINE C == {c \in v.closes : c[1] # j}
           f == [c \in C |-> c[2]]
           D == {c[2] : c \in C}
           T == {Requested(v, j), 0} \union D
<1>1. v.closes \subseteq Jobs \X Nat /\ IsFiniteSet(v.closes) /\ v \in View
  BY DEF Alike, View
<1>2. Requested(v, j) \in Nat
  <2>1. j \in Jobs
    BY DEF QuietLine, In
  <2>2. v.row[j] \in JobRow
    BY <1>1, <2>1 DEF View
  <2> QED BY <2>2 DEF JobRow, Requested
<1>3. IsFiniteSet(D)
  <2>1. IsFiniteSet(C)
    BY <1>1, FS_Subset
  <2> HIDE DEF C
  <2>2. DOMAIN f = C /\ f = [c \in C |-> f[c]]
    OBVIOUS
  <2>3. D = {f[c] : c \in C}
    OBVIOUS
  <2> HIDE DEF f
  <2> QED BY <2>1, <2>2, <2>3, FiniteImage
<1>4. D \subseteq Nat
  BY <1>1
<1>5. T \in SUBSET Nat /\ T # {}
  BY <1>2, <1>4
<1>6. IsFiniteSet(T)
  <2>1. IsFiniteSet({Requested(v, j)} \union {0})
    BY FS_Singleton, FS_AddElement
  <2>2. {Requested(v, j), 0} = {Requested(v, j)} \union {0}
    OBVIOUS
  <2> HIDE DEF D
  <2> QED BY <1>3, <2>1, <2>2, FS_Union
<1>7. DrainStart(v, j) = Max(T)
  BY DEF DrainStart
<1>8. Max(T) \in T /\ \A n \in T : n <= Max(T)
  <2> HIDE DEF T
  <2> QED BY <1>5, <1>6, LatestOf
<1> DEFINE m == Max(T)
<1>9. m \in Nat /\ m \in T /\ \A n \in T : n <= m
  <2> HIDE DEF T
  <2> QED BY <1>5, <1>8
<1> HIDE DEF m
<1>10. m = Requested(v, j) \/ m \in D
  <2>1. Requested(v, j) <= m
    BY <1>9
  <2> HIDE DEF D
  <2> QED BY <1>2, <1>9, <2>1
<1>11. m + QuietDrain \in Thresholds(v)
  <2>1. CASE m = Requested(v, j)
    BY <2>1 DEF Thresholds
  <2>2. CASE m \in D
    <3>1. PICK c \in v.closes : m = c[2]
      BY <2>2
    <3> QED BY <3>1 DEF Thresholds
  <2> QED BY <1>10, <2>1, <2>2
<1> QED BY <1>7, <1>9, <1>11 DEF m

LEMMA AlikeDrains ==
  ASSUME NEW u, NEW v, Alike(u, v)
  PROVE  /\ \A j \in QuietLine(v) : (u.now >= DrainStart(u, j) + QuietDrain) <=> (v.now >= DrainStart(v, j) + QuietDrain)
         /\ Draining(u) = Draining(v) /\ Holding(u) = Holding(v)
<1>0. u.now \in Nat /\ v.now \in Nat /\ v.row \in [Jobs -> JobRow] /\ Numbered(v.row) /\ QuietDrain \in Nat
  BY AdmissionAssumption DEF Alike, View
<1>1. \A j \in QuietLine(v) : /\ DrainStart(u, j) = DrainStart(v, j) /\ DrainStart(v, j) + QuietDrain \in Nat
                              /\ (DrainStart(v, j) + QuietDrain > v.now <=> DrainStart(v, j) + QuietDrain > u.now)
  BY AlikeRows, DrainEnds, Crossing
<1>2. \A j \in QuietLine(v) : (u.now >= DrainStart(u, j) + QuietDrain) <=> (v.now >= DrainStart(v, j) + QuietDrain)
  BY <1>0, <1>1
<1>3. Draining(u) <=> Draining(v)
  <2>1. WindowOpen(u) = WindowOpen(v) /\ QuietLine(u) = QuietLine(v)
    BY AlikeWindows, AlikeRows
  <2>2. CASE QuietLine(v) # {}
    <3> DEFINE f == FirstOf(v, QuietLine(v))
    <3>1. QuietLine(v) \subseteq In(v, "waiting")
      BY DEF QuietLine
    <3>2. f \in QuietLine(v) /\ FirstOf(u, QuietLine(u)) = f
      BY <1>0, <2>1, <2>2, <3>1, FirstIsFirst, AlikeRows
    <3> HIDE DEF f
    <3>3. (u.now < DrainStart(u, f) + QuietDrain) <=> (v.now < DrainStart(v, f) + QuietDrain)
      BY <1>0, <1>1, <3>2
    <3> QED BY <2>1, <3>2, <3>3 DEF Draining, f
  <2>3. CASE QuietLine(v) = {}
    BY <2>1, <2>3 DEF Draining
  <2> QED BY <2>2, <2>3
<1>4. Draining(u) \in BOOLEAN /\ Draining(v) \in BOOLEAN
  BY DEF Draining
<1>5. Draining(u) = Draining(v)
  BY <1>3, <1>4
<1>6. Holding(u) = Holding(v)
  BY <1>5, AlikeWindows DEF Holding
<1> QED BY <1>2, <1>5, <1>6

LEMMA AlikeQuiet ==
  ASSUME NEW u, NEW v, Alike(u, v), NEW j \in QuietLine(v)
  PROVE  QuietBlocker(u, j) = QuietBlocker(v, j)
<1>1. QuietLine(u) = QuietLine(v) /\ QuietLine(v) \subseteq In(v, "waiting") /\ QuietLine(v) # {}
  BY AlikeRows DEF QuietLine
<1>2. FirstOf(u, QuietLine(u)) = FirstOf(v, QuietLine(v))
  BY <1>1, AlikeRows
<1>3. WindowOpen(u) = WindowOpen(v)
  BY AlikeWindows
<1>4. (u.now >= DrainStart(u, j) + QuietDrain) <=> (v.now >= DrainStart(v, j) + QuietDrain)
  BY AlikeDrains
<1>5. MemoryThenPressure(u, j) = MemoryThenPressure(v, j) /\ AdmissionOf(u, j) = AdmissionOf(v, j)
  BY AlikeAdmission
<1>6. In(u, "running") = In(v, "running") /\ \A r : IsHeavy(u, r) = IsHeavy(v, r)
  BY AlikeRows
<1> QED BY <1>2, <1>3, <1>4, <1>5, <1>6 DEF QuietBlocker

LEMMA AlikeAhead ==
  ASSUME NEW u, NEW v, Alike(u, v), NEW j PROVE LineAhead(u, j) = LineAhead(v, j)
<1>1. /\ In(u, "waiting") = In(v, "waiting") /\ \A w : Before(u, w, j) = Before(v, w, j)
      /\ \A w : Exclusive(u, w) = Exclusive(v, w) /\ IsTiny(u, w) = IsTiny(v, w) /\ IsHeavy(u, w) = IsHeavy(v, w)
  BY AlikeRows
<1>2. Holding(u) = Holding(v)
  BY AlikeDrains
<1> QED BY <1>1, <1>2 DEF LineAhead

-----------------------------------------------------------------------------
(* When the head may start, seen later.                                         *)

LEMMA PredictedEndIs ==
  ASSUME NEW v \in View, NEW r \in Jobs
  PROVE  /\ PredictedEnd(v, r) \in Nat /\ v.now <= PredictedEnd(v, r)
         /\ \A s \in v.row[r].started, d \in v.row[r].shape.p90 : s + d <= PredictedEnd(v, r)
         /\ \/ PredictedEnd(v, r) = v.now
            \/ \E s \in v.row[r].started, d \in v.row[r].shape.p90 : PredictedEnd(v, r) = s + d
<1> DEFINE A == v.row[r].started
           B == v.row[r].shape.p90
           D == {s + d : s \in A, d \in B}
           T == {v.now} \union D
<1>1. v.row[r] \in JobRow /\ v.now \in Nat
  BY DEF View
<1>2. A \in Optional(Nat) /\ v.row[r].shape \in Shape
  BY <1>1 DEF JobRow
<1>3. B \in Optional(Nat)
  BY <1>2 DEF Shape
<1> HIDE DEF A, B
<1>4. A \subseteq Nat /\ B \subseteq Nat
  BY <1>2, <1>3, OptionalOf
<1>5. IsFiniteSet(T)
  <2>1. CASE A = {} \/ B = {}
    <3>1. T = {v.now}
      BY <2>1
    <3> HIDE DEF T
    <3> QED BY <3>1, FS_Singleton
  <2>2. CASE A # {} /\ B # {}
    <3>1. PICK a \in Nat : A = {a}
      BY <1>2, <2>2, OptionalOf
    <3>2. PICK b \in Nat : B = {b}
      BY <1>3, <2>2, OptionalOf
    <3>3. D = {a + b}
      BY <3>1, <3>2
    <3>4. IsFiniteSet({v.now} \union {a + b})
      BY FS_Singleton, FS_AddElement
    <3>5. T = {v.now} \union {a + b}
      <4> HIDE DEF D
      <4> QED BY <3>3
    <3> HIDE DEF T
    <3> QED BY <3>4, <3>5
  <2> QED BY <2>1, <2>2
<1>6. D \subseteq Nat
  BY <1>4
<1>7. T \in SUBSET Nat /\ T # {}
  BY <1>1, <1>6
<1>8. PredictedEnd(v, r) = Max(T)
  BY DEF PredictedEnd, A, B
<1>9. Max(T) \in T /\ \A n \in T : n <= Max(T)
  <2> HIDE DEF T
  <2> QED BY <1>5, <1>7, LatestOf
<1> DEFINE m == Max(T)
<1>10. m \in T /\ \A n \in T : n <= m
  <2> HIDE DEF T
  <2> QED BY <1>9
<1> HIDE DEF m
<1>11. m \in Nat
  BY <1>7, <1>10
<1>12. \A s \in A, d \in B : s + d <= m
  BY <1>10
<1>13. m = v.now \/ \E s \in A, d \in B : m = s + d
  BY <1>10
<1>14. v.now <= m
  BY <1>10
<1> HIDE DEF T
<1> QED BY <1>8, <1>11, <1>12, <1>13, <1>14 DEF m, A, B

\* An instant of the future is the same seen later, and now is now.
Seen(u, v, e) == IF e = v.now THEN u.now ELSE e

LEMMA PredictedLater ==
  ASSUME NEW u, NEW v, Alike(u, v), NEW r \in In(v, "running")
  PROVE  PredictedEnd(u, r) = Seen(u, v, PredictedEnd(v, r)) /\ (PredictedEnd(v, r) # v.now => PredictedEnd(v, r) > u.now)
<1>0. r \in Jobs /\ u \in View /\ v \in View /\ u.now \in Nat /\ v.now \in Nat /\ u.row[r] = v.row[r] /\ v.now <= u.now
  BY DEF Alike, View, In
<1> DEFINE A == v.row[r].started
           B == v.row[r].shape.p90
           p == PredictedEnd(u, r)
           q == PredictedEnd(v, r)
<1>1. \A s \in A, d \in B : s + d \in Nat /\ (s + d > v.now <=> s + d > u.now)
  <2>1. \A s \in A, d \in B : s + d \in Thresholds(v)
    BY DEF Thresholds
  <2> QED BY <2>1, Crossing
<1>2. /\ p \in Nat /\ u.now <= p /\ \A s \in A, d \in B : s + d <= p
      /\ p = u.now \/ \E s \in A, d \in B : p = s + d
  BY <1>0, PredictedEndIs
<1>3. /\ q \in Nat /\ v.now <= q /\ \A s \in A, d \in B : s + d <= q
      /\ q = v.now \/ \E s \in A, d \in B : q = s + d
  BY <1>0, PredictedEndIs
<1> HIDE DEF A, B, p, q
<1>4. q # v.now => q > u.now
  BY <1>0, <1>1, <1>3
<1>5. CASE q = v.now
  <2>1. \A s \in A, d \in B : ~(s + d > v.now)
    BY <1>0, <1>1, <1>3, <1>5
  <2>2. \A s \in A, d \in B : ~(s + d > u.now)
    BY <1>1, <2>1
  <2>3. p = u.now
    BY <1>0, <1>1, <1>2, <2>2
  <2> QED BY <1>4, <1>5, <2>3 DEF Seen, p, q
<1>6. CASE q # v.now
  <2>1. PICK s \in A, d \in B : q = s + d
    BY <1>3, <1>6
  <2>2. q <= p
    BY <1>2, <2>1
  <2>3. p # u.now
    BY <1>0, <1>2, <1>3, <1>4, <1>6, <2>2
  <2>4. p <= q
    BY <1>2, <1>3, <2>3
  <2>5. p = q
    BY <1>2, <1>3, <2>2, <2>4
  <2> QED BY <1>4, <1>6, <2>5 DEF Seen, p, q
<1> QED BY <1>5, <1>6

EndsOf(v) == {PredictedEnd(v, r) : r \in In(v, "running")}
FitsOf(v, head) == {e \in EndsOf(v) : ~Over(Cores(v, head), Left(v, e), Budget)}

LEMMA EndsAre ==
  ASSUME NEW u, NEW v, Alike(u, v)
  PROVE  /\ \A a \in EndsOf(v) : a \in Nat /\ v.now <= a /\ (a # v.now => a > u.now) /\ Seen(u, v, a) \in EndsOf(u)
         /\ \A b \in EndsOf(u) : \E a \in EndsOf(v) : b = Seen(u, v, a)
         /\ \A a, e \in EndsOf(v) : a <= e <=> Seen(u, v, a) <= Seen(u, v, e)
<1>0. u \in View /\ v \in View /\ u.now \in Nat /\ v.now \in Nat /\ v.now <= u.now
  BY DEF Alike, View
<1>1. In(u, "running") = In(v, "running") /\ In(v, "running") \subseteq Jobs
  BY AlikeRows DEF In
<1>2. \A r \in In(v, "running") : /\ PredictedEnd(u, r) = Seen(u, v, PredictedEnd(v, r))
                                  /\ (PredictedEnd(v, r) # v.now => PredictedEnd(v, r) > u.now)
                                  /\ PredictedEnd(v, r) \in Nat /\ v.now <= PredictedEnd(v, r)
  BY <1>0, <1>1, PredictedLater, PredictedEndIs
<1>3. \A a \in EndsOf(v) : a \in Nat /\ v.now <= a /\ (a # v.now => a > u.now) /\ Seen(u, v, a) \in EndsOf(u)
  BY <1>1, <1>2 DEF EndsOf
<1>4. \A b \in EndsOf(u) : \E a \in EndsOf(v) : b = Seen(u, v, a)
  BY <1>1, <1>2 DEF EndsOf
<1>5. \A a, e \in EndsOf(v) : a <= e <=> Seen(u, v, a) <= Seen(u, v, e)
  BY <1>0, <1>3 DEF Seen
<1> QED BY <1>3, <1>4, <1>5

LEMMA HeadLater ==
  ASSUME NEW u, NEW v, Alike(u, v), NEW head \in Jobs, Over(Cores(v, head), UsedCores(v), Budget)
  PROVE  /\ HeadStart(v, head) \in Nat /\ v.now <= HeadStart(v, head)
         /\ HeadStart(v, head) # v.now => HeadStart(v, head) > u.now
         /\ HeadStart(u, head) \in Nat /\ HeadStart(u, head) <= Seen(u, v, HeadStart(v, head))
<1> DEFINE R == In(v, "running")
           E == EndsOf(v)
           F == EndsOf(u)
           Ef == FitsOf(v, head)
           Ff == FitsOf(u, head)
<1>0. u.now \in Nat /\ v.now \in Nat /\ v.now <= u.now
  BY DEF Alike, View
<1>1. /\ \A a \in E : a \in Nat /\ v.now <= a /\ (a # v.now => a > u.now) /\ Seen(u, v, a) \in F
      /\ \A b \in F : \E a \in E : b = Seen(u, v, a)
      /\ \A a, e \in E : a <= e <=> Seen(u, v, a) <= Seen(u, v, e)
  BY EndsAre
<1>2. /\ In(u, "running") = R /\ R \subseteq Jobs /\ UsedCores(u) = UsedCores(v) /\ CoresOf(u) = CoresOf(v)
      /\ Cores(u, head) = Cores(v, head)
  BY AlikeRows DEF In
<1>3. R # {}
  <2>1. R = {} => UsedCores(v) = 0
    BY TotalOfNone DEF UsedCores
  <2> QED BY <2>1 DEF Over
<1>4. IsFiniteSet(R)
  BY <1>2, AdmissionAssumption, FS_Subset
<1>5. E # {} /\ F # {} /\ IsFiniteSet(E) /\ IsFiniteSet(F)
  <2> DEFINE p(w) == [r \in R |-> PredictedEnd(w, r)]
  <2>1. E = {p(v)[r] : r \in R} /\ F = {p(u)[r] : r \in R}
    BY <1>2 DEF EndsOf
  <2>2. DOMAIN p(v) = R /\ DOMAIN p(u) = R /\ p(v) = [r \in R |-> p(v)[r]] /\ p(u) = [r \in R |-> p(u)[r]]
    OBVIOUS
  <2> HIDE DEF p, R
  <2> QED BY <1>3, <1>4, <2>1, <2>2, FiniteImage
<1>6. E \in SUBSET Nat /\ F \in SUBSET Nat
  BY <1>0, <1>1 DEF Seen
<1>7. HeadStart(v, head) = IF Ef = {} THEN Max(E) ELSE Min(Ef)
  BY DEF HeadStart, EndsOf, FitsOf
<1>8. HeadStart(u, head) = IF Ff = {} THEN Max(F) ELSE Min(Ff)
  BY <1>2 DEF HeadStart, EndsOf, FitsOf
<1>9. \A e \in E : Left(u, Seen(u, v, e)) = Left(v, e)
  <2>1. SUFFICES ASSUME NEW e \in E PROVE Left(u, Seen(u, v, e)) = Left(v, e)
    OBVIOUS
  <2>2. \A r \in R : PredictedEnd(v, r) \in E /\ PredictedEnd(u, r) = Seen(u, v, PredictedEnd(v, r))
    BY PredictedLater DEF EndsOf
  <2>3. \A r \in R : PredictedEnd(u, r) <= Seen(u, v, e) <=> PredictedEnd(v, r) <= e
    BY <1>1, <2>2
  <2>4. {r \in In(u, "running") : PredictedEnd(u, r) <= Seen(u, v, e)} = {r \in In(v, "running") : PredictedEnd(v, r) <= e}
    BY <1>2, <2>3
  <2> QED BY <1>2, <2>4 DEF Left
<1>10. \A e \in Ef : Seen(u, v, e) \in Ff
  BY <1>1, <1>2, <1>9 DEF FitsOf
<1>11. Ef \in SUBSET Nat /\ Ff \in SUBSET Nat /\ Ef \subseteq E /\ Ff \subseteq F
  BY <1>6 DEF FitsOf
<1> DEFINE a == HeadStart(v, head)
           b == HeadStart(u, head)
<1>12. Max(E) \in E /\ (\A n \in E : n <= Max(E)) /\ Max(F) \in F
  <2> HIDE DEF E, F
  <2> QED BY <1>5, <1>6, LatestOf
<1>13. Ef # {} => Min(Ef) \in Ef
  <2> HIDE DEF Ef
  <2> QED BY <1>11, EarliestOf
<1>14. Ff # {} => Min(Ff) \in Ff /\ \A n \in Ff : Min(Ff) <= n
  <2> HIDE DEF Ff
  <2> QED BY <1>11, EarliestOf
<1> HIDE DEF E, F, Ef, Ff
<1>15. a \in E /\ b \in F
  BY <1>7, <1>8, <1>11, <1>12, <1>13, <1>14
<1> HIDE DEF a, b
<1>16. b <= Seen(u, v, a)
  <2>1. CASE Ef # {}
    <3>1. a \in Ef
      BY <1>7, <1>13, <2>1 DEF a
    <3>2. Seen(u, v, a) \in Ff
      BY <1>10, <3>1
    <3>3. b = Min(Ff)
      BY <1>8, <3>2 DEF b
    <3> QED BY <1>14, <3>2, <3>3
  <2>2. CASE Ef = {}
    <3>1. a = Max(E)
      BY <1>7, <2>2 DEF a
    <3>2. PICK c \in E : b = Seen(u, v, c)
      BY <1>1, <1>15
    <3>3. c <= a
      BY <1>12, <3>1
    <3> QED BY <1>1, <1>15, <3>2, <3>3
  <2> QED BY <2>1, <2>2
<1>17. a \in Nat /\ v.now <= a /\ (a # v.now => a > u.now) /\ b \in Nat
  BY <1>1, <1>6, <1>15
<1> QED BY <1>16, <1>17 DEF a, b

\* A job that does not pass the head does not pass it later, with no threshold between.
LEMMA PassesEarlier ==
  ASSUME NEW u, NEW v, Alike(u, v), NEW j \in Jobs, NEW ahead, ahead \subseteq In(v, "waiting"), ahead # {},
         Over(Cores(v, FirstOf(v, ahead)), UsedCores(v), Budget), Passes(u, j, ahead)
  PROVE  Passes(v, j, ahead)
<1> DEFINE head == FirstOf(v, ahead)
<1>0. /\ u.now \in Nat /\ v.now \in Nat /\ v.now <= u.now /\ u.row = v.row /\ v.row \in [Jobs -> JobRow] /\ Numbered(v.row)
  BY DEF Alike, View
<1>1. head \in ahead /\ head \in Jobs /\ FirstOf(u, ahead) = head
  BY <1>0, FirstIsFirst, AlikeRows DEF In
<1>2. /\ Cores(u, j) = Cores(v, j) /\ Cores(u, head) = Cores(v, head) /\ CoresOf(u) = CoresOf(v)
      /\ In(u, "running") = In(v, "running") /\ Requested(u, head) = Requested(v, head)
  BY AlikeRows
<1>3. ASSUME NEW d \in v.row[j].shape.p90, u.now + d <= HeadStart(u, head) PROVE v.now + d <= HeadStart(v, head)
  <2>1. /\ HeadStart(v, head) \in Nat /\ v.now <= HeadStart(v, head)
        /\ HeadStart(v, head) # v.now => HeadStart(v, head) > u.now
        /\ HeadStart(u, head) \in Nat /\ HeadStart(u, head) <= Seen(u, v, HeadStart(v, head))
    BY <1>1, HeadLater
  <2>2. d \in Nat
    <3>1. v.row[j].shape \in Shape
      BY <1>0 DEF JobRow
    <3>2. v.row[j].shape.p90 \in Optional(Nat)
      BY <3>1 DEF Shape
    <3> QED BY <3>2, OptionalOf
  <2> DEFINE a == HeadStart(v, head)
             b == HeadStart(u, head)
  <2>3. a \in Nat /\ b \in Nat /\ v.now <= a /\ u.now + d <= b /\ b <= (IF a = v.now THEN u.now ELSE a)
    BY <1>3, <2>1 DEF Seen
  <2> HIDE DEF a, b
  <2>4. v.now + d <= a
    BY <1>0, <2>2, <2>3
  <2> QED BY <2>4 DEF a
<1> HIDE DEF head
<1>4. Passes(u, j, ahead) = LET since == {r \in In(u, "running") : \E s \in u.row[r].started : s >= Requested(u, head)}
                                spare == Budget - Cores(u, head) - Total(CoresOf(u), since)
                            IN  \/ Cores(u, j) <= spare
                                \/ \E d \in u.row[j].shape.p90 : u.now + d <= HeadStart(u, head)
                                \/ Cores(u, j) <= SmallWeight /\ \A a \in ahead : ~u.row[a].shape.valid
  BY <1>1 DEF Passes
<1>5. Passes(v, j, ahead) = LET since == {r \in In(v, "running") : \E s \in v.row[r].started : s >= Requested(v, head)}
                                spare == Budget - Cores(v, head) - Total(CoresOf(v), since)
                            IN  \/ Cores(v, j) <= spare
                                \/ \E d \in v.row[j].shape.p90 : v.now + d <= HeadStart(v, head)
                                \/ Cores(v, j) <= SmallWeight /\ \A a \in ahead : ~v.row[a].shape.valid
  BY DEF Passes, head
<1> DEFINE S(w) == {r \in In(w, "running") : \E s \in w.row[r].started : s >= Requested(w, head)}
<1>6. S(u) = S(v)
  BY <1>0, <1>2
<1>7. Total(CoresOf(u), S(u)) = Total(CoresOf(v), S(v))
  <2> HIDE DEF S
  <2> QED BY <1>2, <1>6
<1> QED BY <1>0, <1>2, <1>3, <1>4, <1>5, <1>7

LEMMA BackfillLater ==
  ASSUME NEW u, NEW v, Alike(u, v), NEW j \in Jobs, NEW ahead, ahead \subseteq In(v, "waiting"), ahead # {},
         Backfill(v, j, ahead) # "none"
  PROVE  Backfill(u, j, ahead) # "none"
<1> DEFINE head == FirstOf(v, ahead)
<1>0. /\ u.now \in Nat /\ v.now \in Nat /\ v.now <= u.now /\ v.row \in [Jobs -> JobRow] /\ Numbered(v.row) /\ BackfillWait \in Nat
  BY AdmissionAssumption DEF Alike, View
<1>1. head \in Jobs /\ FirstOf(u, ahead) = head
  BY <1>0, FirstIsFirst, AlikeRows DEF In
<1>2. /\ Cores(u, j) = Cores(v, j) /\ Cores(u, head) = Cores(v, head) /\ UsedCores(u) = UsedCores(v)
      /\ Requested(u, head) = Requested(v, head)
  BY AlikeRows
<1>3. Requested(v, head) \in Nat
  <2>1. v.row[head] \in JobRow
    BY <1>0, <1>1
  <2> QED BY <2>1 DEF JobRow, Requested
<1>4. v.now - Requested(v, head) >= BackfillWait => u.now - Requested(u, head) >= BackfillWait
  BY <1>0, <1>2, <1>3
<1>5. Over(Cores(v, head), UsedCores(v), Budget) /\ Passes(u, j, ahead) => Passes(v, j, ahead)
  BY PassesEarlier
<1> HIDE DEF head
<1>6. Backfill(v, j, ahead) = IF v.now - Requested(v, head) >= BackfillWait \/ ~Over(Cores(v, head), UsedCores(v), Budget) THEN "Ahead"
                              ELSE IF UsedCores(v) + Cores(v, j) > Budget THEN "Cores"
                              ELSE IF Passes(v, j, ahead) THEN "none" ELSE "Ahead"
  BY DEF Backfill, head
<1>7. Backfill(u, j, ahead) = IF u.now - Requested(u, head) >= BackfillWait \/ ~Over(Cores(u, head), UsedCores(u), Budget) THEN "Ahead"
                              ELSE IF UsedCores(u) + Cores(u, j) > Budget THEN "Cores"
                              ELSE IF Passes(u, j, ahead) THEN "none" ELSE "Ahead"
  BY <1>1 DEF Backfill
<1> QED BY <1>2, <1>4, <1>5, <1>6, <1>7

\* A job held by a rule is held later, with no threshold between, and not by the machine if it was not.
LEMMA VerdictLater ==
  ASSUME NEW u, NEW v, Alike(u, v), NEW j \in In(v, "waiting"), Blocker(v, j) # "none"
  PROVE  Blocker(u, j) # "none" /\ (Blocker(u, j) = "Machine" => Blocker(v, j) = "Machine")
<1>0. j \in Jobs /\ u.gates = v.gates
  BY DEF In, Alike
<1>1. IsHeavy(u, j) = IsHeavy(v, j) /\ Exclusive(u, j) = Exclusive(v, j) /\ IsTiny(u, j) = IsTiny(v, j)
  BY AlikeRows
<1>2. WindowOpen(u) = WindowOpen(v) /\ ManualOpen(u) = ManualOpen(v) /\ Draining(u) = Draining(v)
  BY AlikeWindows, AlikeDrains
<1>3. LineAhead(u, j) = LineAhead(v, j) /\ LineAhead(v, j) \subseteq In(v, "waiting")
  BY AlikeAhead DEF LineAhead
<1>4. Exclusive(v, j) => QuietBlocker(u, j) = QuietBlocker(v, j)
  BY AlikeQuiet DEF QuietLine
<1>5. AdmissionOf(u, j) = AdmissionOf(v, j)
  BY AlikeAdmission
<1> DEFINE L == LineAhead(v, j)
           behind(w) == IF IsTiny(w, j) \/ LineAhead(w, j) = {} THEN "none" ELSE Backfill(w, j, LineAhead(w, j))
<1>6. behind(v) # "none" => behind(u) # "none"
  BY <1>0, <1>1, <1>3, BackfillLater
<1>7. behind(u) # "Machine"
  BY DEF Backfill
<1>8. \A w : Blocker(w, j) = IF w.gates.paused THEN "Paused"
                             ELSE IF IsHeavy(w, j) /\ ManualOpen(w) THEN "Quiet"
                             ELSE IF Exclusive(w, j) THEN QuietBlocker(w, j)
                             ELSE IF IsHeavy(w, j) /\ (WindowOpen(w) \/ Draining(w)) THEN "Quiet"
                             ELSE IF behind(w) # "none" THEN behind(w) ELSE AdmissionOf(w, j)
  BY DEF Blocker
<1> HIDE DEF behind
<1> QED BY <1>0, <1>1, <1>2, <1>4, <1>5, <1>6, <1>7, <1>8

-----------------------------------------------------------------------------
(* A pass that starts and fails nothing.                                        *)

\* A job is held, and not by the machine for too long.
StaysHeld(v, j) == Blocker(v, j) # "none" /\ (Blocker(v, j) = "Machine" => v.now - HeldSince(v, j) < LoadWait)
\* What a judgement writes of a job that it holds.
Kept(v, u, j) ==
    IF j \in In(v, "waiting") /\ u.held[j] # "none"
    THEN /\ StaysHeld(v, j) /\ (u.held[j] = "Machine" <=> Blocker(v, j) = "Machine")
         /\ u.since[j] = IF Blocker(v, j) = "Machine" THEN {HeldSince(v, j)} ELSE {}
    ELSE u.held[j] = "none" /\ u.since[j] = v.since[j]
Unmoved(u, v) ==
    /\ u \in View /\ u.start = {} /\ u.fail = {} /\ u.row = v.row /\ u.now = v.now
    /\ u.gates = v.gates /\ u.reading = v.reading /\ u.closes = v.closes
    /\ \A j \in Jobs : Kept(v, u, j)

LEMMA UnmovedIsAlike ==
  ASSUME NEW u, NEW v \in View, Numbered(v.row), IsFiniteSet(v.closes), Unmoved(u, v) PROVE Alike(u, v) /\ Alike(v, u)
<1>1. /\ u \in View /\ u.row = v.row /\ u.now = v.now /\ v.now \in Nat
      /\ u.gates = v.gates /\ u.reading = v.reading /\ u.closes = v.closes
  BY DEF Unmoved, View
<1> QED BY <1>1 DEF Alike

\* Held or not, and by the machine or not, is the same for both.
LEMMA UnmovedVerdict ==
  ASSUME NEW u, NEW v \in View, Numbered(v.row), IsFiniteSet(v.closes), Unmoved(u, v), NEW j \in In(v, "waiting")
  PROVE  /\ Blocker(u, j) = "none" <=> Blocker(v, j) = "none"
         /\ Blocker(u, j) = "Machine" <=> Blocker(v, j) = "Machine"
<1>1. Alike(u, v) /\ Alike(v, u)
  BY UnmovedIsAlike
<1>2. j \in In(u, "waiting")
  BY <1>1, AlikeRows
<1> QED BY <1>1, <1>2, VerdictLater

LEMMA SameHeldSince ==
  ASSUME NEW u, NEW v, u.now = v.now, NEW j, u.since[j] = v.since[j] PROVE HeldSince(u, j) = HeldSince(v, j)
  BY DEF HeldSince

\* Judging a job that stays held moves nothing.
LEMMA JudgeUnmoved ==
  ASSUME NEW v \in View, Numbered(v.row), IsFiniteSet(v.closes), NEW u, Unmoved(u, v),
         NEW j \in Unjudged(u), StaysHeld(v, j)
  PROVE  Unmoved(Judge(u, j), v) /\ Unjudged(Judge(u, j)) = Unjudged(u) \ {j}
<1> DEFINE w == Judge(u, j)
<1>1. /\ u \in View /\ u.start = {} /\ u.fail = {} /\ u.row = v.row /\ u.now = v.now
      /\ u.gates = v.gates /\ u.reading = v.reading /\ u.closes = v.closes
      /\ \A i \in Jobs : Kept(v, u, i)
  BY DEF Unmoved
<1>2. j \in In(v, "waiting") /\ j \in Jobs /\ u.held[j] = "none" /\ In(u, "waiting") = In(v, "waiting")
  BY <1>1 DEF Unjudged, In
<1>3. u.since[j] = v.since[j]
  BY <1>1, <1>2 DEF Kept
<1>4. HeldSince(u, j) = HeldSince(v, j)
  BY <1>1, <1>3, SameHeldSince
<1>5. /\ Blocker(u, j) = "none" <=> Blocker(v, j) = "none"
      /\ Blocker(u, j) = "Machine" <=> Blocker(v, j) = "Machine"
  BY <1>2, UnmovedVerdict
<1>6. HeldSince(v, j) \in Nat /\ v.now \in Nat /\ LoadWait \in Nat
  BY <1>2, HeldSinceNat, AdmissionAssumption DEF View
<1>7. Blocker(u, j) # "none" /\ ~(Blocker(u, j) = "Machine" /\ u.now - HeldSince(u, j) >= LoadWait)
  BY <1>1, <1>4, <1>5, <1>6 DEF StaysHeld
<1>8. /\ Beside(u, w, j) /\ w.row = u.row /\ w.fail = u.fail /\ w.start = u.start /\ w.held[j] = Blocker(u, j)
      /\ w.since[j] = IF Blocker(u, j) = "Machine" THEN {HeldSince(u, j)} ELSE {}
  BY <1>1, <1>2, <1>7, JudgeHolds
<1> HIDE DEF w
<1>9. ASSUME NEW i \in Jobs PROVE Kept(v, w, i)
  <2>1. CASE i = j
    BY <1>2, <1>4, <1>5, <1>7, <1>8, <2>1 DEF Kept
  <2>2. CASE i # j
    <3>1. w.held[i] = u.held[i] /\ w.since[i] = u.since[i]
      BY <1>8, <2>2 DEF Beside
    <3> QED BY <1>1, <3>1 DEF Kept
  <2> QED BY <2>1, <2>2
<1>10. Unmoved(w, v)
  BY <1>1, <1>8, <1>9 DEF Unmoved, Beside
<1>11. Unjudged(w) = Unjudged(u) \ {j}
  <2>1. In(w, "waiting") = In(u, "waiting") /\ In(w, "waiting") \subseteq Jobs
    BY <1>8 DEF In
  <2>2. \A i \in Jobs \ {j} : w.held[i] = u.held[i]
    BY <1>8 DEF Beside
  <2> QED BY <1>7, <1>8, <2>1, <2>2 DEF Unjudged
<1> QED BY <1>10, <1>11 DEF w

\* After k judgements: some job was started or failed, or nothing has moved and k jobs are held.
HoldingPass(v, k) ==
    {u \in View : Numbered(u.row) /\ (u.start \union u.fail # {} \/
        (Unmoved(u, v) /\ Cardinality(Unjudged(u)) <= Cardinality(Jobs) - k))}

LEMMA HoldingPassStep ==
  ASSUME NEW v \in View, Numbered(v.row), IsFiniteSet(v.closes), NEW k \in 1 .. Cardinality(Jobs),
         NEW u \in HoldingPass(v, k - 1)
  PROVE  JudgeNext(u) \in HoldingPass(v, k)
<1> DEFINE N == Cardinality(Jobs)
           j == FirstOf(u, Unjudged(u))
           w == Judge(u, j)
<1>1. N \in Nat /\ IsFiniteSet(Jobs) /\ N - k >= 0
  BY AdmissionAssumption, FS_CardinalityType
<1>2. u \in View /\ Numbered(u.row) /\ u.row \in [Jobs -> JobRow]
  BY DEF HoldingPass, View
<1>3. CASE Unjudged(u) = {}
  <2>1. JudgeNext(u) = u
    BY <1>3 DEF JudgeNext
  <2>2. Cardinality(Unjudged(u)) <= N - k
    <3>1. Cardinality(Unjudged(u)) = 0
      BY <1>3, FS_EmptySet
    <3> HIDE DEF N
    <3> QED BY <1>1, <3>1
  <2> QED BY <2>1, <2>2 DEF HoldingPass
<1>4. CASE Unjudged(u) # {}
  <2>1. Unjudged(u) \subseteq In(u, "waiting") /\ Unjudged(u) \subseteq Jobs
    BY DEF Unjudged, In
  <2>2. j \in Unjudged(u) /\ j \in Jobs
    BY <1>2, <1>4, <2>1, FirstIsFirst
  <2>3. JudgeNext(u) = w
    BY <1>4 DEF JudgeNext
  <2> HIDE DEF j
  <2>4. w \in View /\ Numbered(w.row) /\ u.start \subseteq w.start /\ u.fail \subseteq w.fail
    BY <1>2, <2>2, JudgeKeepsNumbers
  <2>5. CASE u.start \union u.fail # {}
    BY <2>3, <2>4, <2>5 DEF HoldingPass
  <2>6. CASE u.start \union u.fail = {}
    <3>1. Unmoved(u, v) /\ Cardinality(Unjudged(u)) <= N - (k - 1)
      BY <2>6 DEF HoldingPass
    <3>2. CASE StaysHeld(v, j)
      <4>1. Unmoved(w, v) /\ Unjudged(w) = Unjudged(u) \ {j}
        BY <2>2, <3>1, <3>2, JudgeUnmoved
      <4>2. IsFiniteSet(Unjudged(u))
        BY <1>1, <2>1, FS_Subset
      <4>3. Cardinality(Unjudged(w)) = Cardinality(Unjudged(u)) - 1 /\ Cardinality(Unjudged(u)) \in Nat
        BY <2>2, <4>1, <4>2, FS_RemoveElement, FS_CardinalityType
      <4>4. Cardinality(Unjudged(w)) <= N - k
        <5> HIDE DEF N
        <5> QED BY <1>1, <3>1, <4>3
      <4> HIDE DEF w
      <4> QED BY <2>3, <2>4, <4>1, <4>4 DEF HoldingPass
    <3>3. CASE ~StaysHeld(v, j)
      <4>1. u.row = v.row /\ u.now = v.now /\ Kept(v, u, j) /\ u.held[j] = "none" /\ j \in In(v, "waiting")
        BY <2>1, <2>2, <3>1 DEF Unmoved, Unjudged, In
      <4>2. /\ Blocker(u, j) = "none" <=> Blocker(v, j) = "none"
            /\ Blocker(u, j) = "Machine" <=> Blocker(v, j) = "Machine"
        BY <3>1, <4>1, UnmovedVerdict
      <4>3. u.since[j] = v.since[j]
        BY <4>1 DEF Kept
      <4>4. HeldSince(u, j) = HeldSince(v, j)
        BY <4>1, <4>3, SameHeldSince
      <4>5. HeldSince(v, j) \in Nat /\ v.now \in Nat /\ LoadWait \in Nat
        BY <2>2, HeldSinceNat, AdmissionAssumption DEF View
      <4>6. Blocker(u, j) = "none" \/ (Blocker(u, j) = "Machine" /\ u.now - HeldSince(u, j) >= LoadWait)
        BY <3>3, <4>1, <4>2, <4>4, <4>5 DEF StaysHeld
      <4>7. w.start = u.start \union {j} \/ w.fail = u.fail \union {j}
        BY <1>2, <2>2, <4>6, JudgeStarts, JudgeFails
      <4> HIDE DEF w
      <4>8. w.start \union w.fail # {}
        BY <4>7
      <4> QED BY <2>3, <2>4, <4>8 DEF HoldingPass
    <3> QED BY <3>2, <3>3
  <2> QED BY <2>5, <2>6
<1> QED BY <1>3, <1>4

\* A pass that starts and fails nothing has held every waiting job.
LEMMA PassHeldAll ==
  ASSUME NEW v \in View, Numbered(v.row), IsFiniteSet(v.closes), v.start = {}, v.fail = {}, v.held = NoCause,
         Decide(v).start = {}, Decide(v).fail = {}
  PROVE  Unmoved(Decide(v), v) /\ \A j \in In(v, "waiting") : Decide(v).held[j] # "none" /\ StaysHeld(v, j)
<1> DEFINE N == Cardinality(Jobs)
           P == [k \in 0 .. N |-> HoldingPass(v, k)]
<1>1. N \in Nat /\ IsFiniteSet(Jobs)
  BY AdmissionAssumption, FS_CardinalityType
<1>2. v \in HoldingPass(v, 0)
  <2>1. \A j \in Jobs : Kept(v, v, j)
    BY DEF Kept, NoCause
  <2>2. Unmoved(v, v)
    BY <2>1 DEF Unmoved
  <2>3. Unjudged(v) \subseteq Jobs
    BY DEF Unjudged, In
  <2>4. Cardinality(Unjudged(v)) <= N /\ N - 0 = N
    BY <1>1, <2>3, FS_Subset
  <2> QED BY <2>2, <2>4 DEF HoldingPass
<1>3. 0 \in 0 .. N /\ N \in 0 .. N /\ \A k \in 1 .. N : k \in 0 .. N /\ k - 1 \in 0 .. N
  BY <1>1
<1>4. \A k \in 1 .. N : \A u \in HoldingPass(v, k - 1) : JudgeNext(u) \in HoldingPass(v, k)
  <2>1. SUFFICES ASSUME NEW k \in 1 .. N, NEW u \in HoldingPass(v, k - 1) PROVE JudgeNext(u) \in HoldingPass(v, k)
    OBVIOUS
  <2> QED BY <2>1, HoldingPassStep DEF N
<1>5. v \in P[0] /\ \A k \in 1 .. N : \A u \in P[k - 1] : JudgeNext(u) \in P[k]
  <2>1. P[0] = HoldingPass(v, 0) /\ \A k \in 1 .. N : P[k - 1] = HoldingPass(v, k - 1) /\ P[k] = HoldingPass(v, k)
    BY <1>3
  <2> HIDE DEF P
  <2> QED BY <1>2, <1>4, <2>1
<1>6. P[N] = HoldingPass(v, N)
  BY <1>3
<1>7. Decide(v) \in HoldingPass(v, N)
  <2> HIDE DEF P
  <2> QED BY <1>5, <1>6, PassKeeps
<1> DEFINE u == Decide(v)
<1>8. u.start \union u.fail = {}
  OBVIOUS
<1> HIDE DEF u
<1>9. Unmoved(u, v) /\ Cardinality(Unjudged(u)) <= N - N
  BY <1>7, <1>8 DEF HoldingPass, u
<1>10. Unjudged(u) = {}
  <2>1. Unjudged(u) \subseteq Jobs
    BY DEF Unjudged, In
  <2>2. IsFiniteSet(Unjudged(u)) /\ Cardinality(Unjudged(u)) \in Nat
    BY <1>1, <2>1, FS_Subset, FS_CardinalityType
  <2>3. Cardinality(Unjudged(u)) = 0
    <3> HIDE DEF N
    <3> QED BY <1>1, <1>9, <2>2
  <2> QED BY <2>2, <2>3, FS_EmptySet
<1>11. \A j \in In(v, "waiting") : j \in Jobs /\ u.held[j] # "none" /\ Kept(v, u, j)
  BY <1>9, <1>10 DEF Unjudged, In, Unmoved
<1>12. \A j \in In(v, "waiting") : u.held[j] # "none" /\ StaysHeld(v, j)
  BY <1>11 DEF Kept
<1> QED BY <1>9, <1>12 DEF u

\* When every waiting job stays held, the pass starts and fails nothing.
LEMMA PassMovesNothing ==
  ASSUME NEW v \in View, Numbered(v.row), IsFiniteSet(v.closes), v.start = {}, v.fail = {}, v.held = NoCause,
         \A j \in In(v, "waiting") : StaysHeld(v, j)
  PROVE  Decide(v).start = {} /\ Decide(v).fail = {}
<1> DEFINE N == Cardinality(Jobs)
           Q == {u \in View : Unmoved(u, v)}
           P == [k \in 0 .. N |-> Q]
<1>1. N \in Nat
  BY AdmissionAssumption, FS_CardinalityType
<1>2. v \in Q
  <2>1. \A j \in Jobs : Kept(v, v, j)
    BY DEF Kept, NoCause
  <2> QED BY <2>1 DEF Unmoved
<1>3. ASSUME NEW u \in Q PROVE JudgeNext(u) \in Q
  <2>1. u \in View /\ Unmoved(u, v) /\ u.row = v.row /\ v.row \in [Jobs -> JobRow]
    BY DEF Unmoved, View
  <2>2. CASE Unjudged(u) = {}
    BY <2>2 DEF JudgeNext
  <2>3. CASE Unjudged(u) # {}
    <3> DEFINE j == FirstOf(u, Unjudged(u))
    <3>1. Unjudged(u) \subseteq In(u, "waiting") /\ In(u, "waiting") = In(v, "waiting")
      BY <2>1 DEF Unjudged, In
    <3>2. j \in Unjudged(u)
      BY <2>1, <2>3, <3>1, FirstIsFirst
    <3> HIDE DEF j
    <3>3. StaysHeld(v, j)
      BY <3>1, <3>2
    <3>4. Unmoved(Judge(u, j), v)
      BY <2>1, <3>2, <3>3, JudgeUnmoved
    <3>5. Judge(u, j) \in View
      BY <3>4 DEF Unmoved
    <3> QED BY <2>3, <3>4, <3>5 DEF JudgeNext, j
  <2> QED BY <2>2, <2>3
<1>4. 0 \in 0 .. N /\ N \in 0 .. N /\ \A k \in 1 .. N : k \in 0 .. N /\ k - 1 \in 0 .. N
  BY <1>1
<1>5. v \in P[0] /\ \A k \in 1 .. N : \A u \in P[k - 1] : JudgeNext(u) \in P[k]
  <2> HIDE DEF Q
  <2> QED BY <1>2, <1>3, <1>4
<1>6. P[N] = Q
  BY <1>4
<1>7. Decide(v) \in Q
  <2> HIDE DEF P, Q
  <2> QED BY <1>5, <1>6, PassKeeps
<1> QED BY <1>7 DEF Unmoved

-----------------------------------------------------------------------------
(* The sleep.                                                                  *)

LEMMA ClosesAreFinite == ASSUME NEW rows PROVE IsFiniteSet(Closes(rows))
<1> DEFINE S == {j \in Jobs : rows[j].quiet # {}}
           f == [j \in S |-> <<j, Min(rows[j].quiet \union rows[j].ended)>>]
<1>1. IsFiniteSet(S)
  BY AdmissionAssumption, FS_Subset
<1>2. Closes(rows) = {f[j] : j \in S}
  BY DEF Closes
<1>3. DOMAIN f = S /\ f = [j \in S |-> f[j]]
  OBVIOUS
<1> HIDE DEF f, S
<1> QED BY <1>1, <1>2, <1>3, FiniteImage

\* What a pass at t0 that moved nothing leaves for the sleep.
Again(v, t0) == IF MachineGated(v) THEN {t0 + Recheck} ELSE {}
SinceOf(s, v) == [j \in Jobs |-> IF s.row[j].st = "waiting" THEN v.since[j] ELSE {}]
SleptFrom(s, c, wake, t0, c0) ==
    /\ Decide(Input(s, c0, t0)).start = {} /\ Decide(Input(s, c0, t0)).fail = {}
    /\ c = SinceOf(s, Decide(Input(s, c0, t0)))
    /\ wake = Earliest(NextWakeup(Decide(Input(s, c0, t0))) \union Again(Decide(Input(s, c0, t0)), t0))

LEMMA WakeIsFirst ==
  ASSUME NEW v \in View, Numbered(v.row), NEW A \in SUBSET Nat, NEW t \in Nat, \A w \in Earliest(NextWakeup(v) \union A) : t < w,
         NEW x \in Instants(v), x > v.now
  PROVE  x > t
<1> DEFINE I == {y \in Instants(v) : y > v.now}
           W == NextWakeup(v) \union A
<1>1. Instants(v) \in SUBSET Nat
  BY InstantsNat
<1>2. I \in SUBSET Nat /\ x \in I /\ x \in Nat
  BY <1>1
<1>3. NextWakeup(v) = Earliest(I)
  BY DEF NextWakeup
<1> HIDE DEF I
<1>4. Earliest(I) # {} /\ Earliest(I) \subseteq I /\ \A w \in Earliest(I) : w <= x
  BY <1>2, EarliestIsOptional
<1>5. PICK y \in NextWakeup(v) : y \in Nat /\ y <= x
  BY <1>2, <1>3, <1>4
<1>6. W \in SUBSET Nat /\ y \in W
  BY <1>2, <1>3, <1>4
<1> HIDE DEF W
<1>7. Earliest(W) # {} /\ Earliest(W) \subseteq W /\ \A w \in Earliest(W) : w <= y
  BY <1>6, EarliestIsOptional
<1>8. PICK w \in Earliest(W) : w \in Nat /\ w <= y
  BY <1>6, <1>7
<1>9. t < w
  BY <1>8 DEF W
<1> QED BY <1>2, <1>5, <1>8, <1>9

\* A pass over what was last read, at any instant before the wake-up, moves nothing.
LEMMA NothingMissed ==
  ASSUME NEW s \in SeenType, Numbered(s.row), NEW c, NEW wake, NEW t0 \in Nat, NEW c0 \in [Jobs -> Optional(Nat)],
         SleptFrom(s, c, wake, t0, c0), NEW t \in Nat, t0 <= t, \A w \in wake : t < w
  PROVE  Decide(Input(s, c, t)).start = {} /\ Decide(Input(s, c, t)).fail = {}
<1> DEFINE i == Input(s, c0, t0)
           v == Decide(i)
           n == Input(s, c, t)
<1>1. /\ i \in View /\ i.row = s.row /\ i.gates = s.gates /\ i.reading = s.reading /\ i.now = t0 /\ i.since = c0
      /\ i.start = {} /\ i.fail = {} /\ i.held = NoCause /\ i.closes = Closes(s.row)
  BY InputIsView
<1>2. /\ v.start = {} /\ v.fail = {} /\ c = SinceOf(s, v) /\ wake = Earliest(NextWakeup(v) \union Again(v, t0))
  BY DEF SleptFrom
<1>3. IsFiniteSet(Closes(s.row))
  BY ClosesAreFinite
<1> HIDE DEF i
<1>4. Unmoved(v, i) /\ \A j \in In(i, "waiting") : v.held[j] # "none" /\ StaysHeld(i, j)
  BY <1>1, <1>2, <1>3, PassHeldAll
<1> HIDE DEF v
<1>5. v \in View /\ v.row = i.row /\ v.now = t0 /\ v.since \in [Jobs -> Optional(Nat)] /\ \A j \in Jobs : Kept(i, v, j)
  BY <1>1, <1>4 DEF Unmoved, View
<1>6. c \in [Jobs -> Optional(Nat)]
  BY <1>2, <1>5, OptionalOf DEF SinceOf
<1>7. /\ n \in View /\ n.row = s.row /\ n.gates = s.gates /\ n.reading = s.reading /\ n.now = t /\ n.since = c
      /\ n.start = {} /\ n.fail = {} /\ n.held = NoCause /\ n.closes = Closes(s.row)
  BY <1>6, InputIsView
<1> HIDE DEF n
<1>8. \A x \in Instants(v) : x > t0 => x > t
  <2> DEFINE A == Again(v, t0)
  <2>1. A \in SUBSET Nat
    BY AdmissionAssumption DEF Again
  <2>2. Numbered(v.row)
    BY <1>1, <1>5
  <2>3. \A w \in Earliest(NextWakeup(v) \union A) : t < w
    BY <1>2
  <2> HIDE DEF A
  <2> QED BY <1>5, <2>1, <2>2, <2>3, WakeIsFirst
<1>9. Alike(n, i)
  <2>1. Alike(v, i)
    BY <1>1, <1>3, <1>4, UnmovedIsAlike
  <2>2. /\ QuietLine(v) = QuietLine(i) /\ In(v, "running") = In(i, "running") /\ v.closes = i.closes /\ v.gates = i.gates
        /\ \A j : Requested(v, j) = Requested(i, j)
    BY <1>4, <2>1, AlikeRows DEF Unmoved
  <2>3. Thresholds(i) \subseteq Instants(v)
    <3>1. Thresholds(i) = Thresholds(v)
      BY <1>5, <2>2 DEF Thresholds
    <3>2. Thresholds(v) \subseteq Instants(v)
      BY DEF Thresholds, Instants
    <3> QED BY <3>1, <3>2
  <2>4. \A x \in Thresholds(i) : x > i.now => x > n.now
    BY <1>1, <1>7, <1>8, <2>3
  <2> QED BY <1>1, <1>3, <1>7, <2>4 DEF Alike
<1>10. ASSUME NEW j \in In(n, "waiting") PROVE StaysHeld(n, j)
  <2>1. j \in In(i, "waiting") /\ j \in Jobs /\ s.row[j].st = "waiting"
    BY <1>1, <1>7, <1>10 DEF In
  <2>2. StaysHeld(i, j) /\ v.held[j] # "none" /\ Kept(i, v, j)
    BY <1>4, <1>5, <2>1
  <2>3. Blocker(n, j) # "none" /\ (Blocker(n, j) = "Machine" => Blocker(i, j) = "Machine")
    BY <1>9, <2>1, <2>2, VerdictLater DEF StaysHeld
  <2>4. ASSUME Blocker(n, j) = "Machine" PROVE n.now - HeldSince(n, j) < LoadWait
    <3> DEFINE h == HeldSince(i, j)
    <3>1. Blocker(i, j) = "Machine" /\ v.held[j] = "Machine" /\ v.since[j] = {h} /\ i.now - h < LoadWait
      BY <2>1, <2>2, <2>3, <2>4 DEF Kept, StaysHeld
    <3>2. h \in Nat /\ h <= t0 /\ LoadWait \in Nat
      BY <1>1, <2>1, HeldSinceNat, AdmissionAssumption
    <3> HIDE DEF h
    <3>3. h + LoadWait \in Instants(v)
      <4> DEFINE F == UNION {{x + LoadWait : x \in v.since[k]} : k \in {k \in Jobs : v.held[k] = "Machine"}}
      <4>1. h + LoadWait \in F
        BY <2>1, <3>1
      <4>2. F \subseteq Instants(v)
        BY DEF Instants
      <4> QED BY <4>1, <4>2
    <3>4. h + LoadWait > t
      BY <1>1, <1>8, <3>1, <3>2, <3>3
    <3>5. c[j] = {h}
      BY <1>2, <2>1, <3>1 DEF SinceOf
    <3>6. HeldSince(n, j) = h
      <4> DEFINE M == {h} \union {t}
      <4>1. M \in SUBSET Nat /\ M # {} /\ h \in M
        BY <3>2
      <4>2. Min(M) \in M /\ \A y \in M : Min(M) <= y
        <5> HIDE DEF M
        <5> QED BY <4>1, EarliestOf
      <4> DEFINE m == Min(M)
      <4>3. (m = h \/ m = t) /\ m <= h
        BY <4>2
      <4>4. HeldSince(n, j) = m
        BY <1>7, <3>5 DEF HeldSince
      <4> HIDE DEF m
      <4>5. m = h
        BY <3>2, <4>3
      <4> QED BY <4>4, <4>5
    <3> QED BY <1>7, <3>2, <3>4, <3>6
  <2> QED BY <2>3, <2>4 DEF StaysHeld
<1>11. Decide(n).start = {} /\ Decide(n).fail = {}
  BY <1>1, <1>3, <1>7, <1>10, PassMovesNothing
<1> QED BY <1>11 DEF n

\* With nothing queued the loop has seen what the store holds; after a failed pass it will try again; and it sleeps
\* on a pass that moved nothing.
SleepInv ==
    /\ WindowInv
    /\ ~keeper.event => Announced(yard) = Announced(keeper.seen.row) /\ gates = keeper.seen.gates
    /\ keeper.at = "asleep" /\ ~keeper.ok => keeper.wake # {}
    /\ keeper.at = "asleep" /\ keeper.ok /\ ~keeper.event =>
          \E t0 \in Nat : \E c0 \in [Jobs -> Optional(Nat)] :
             t0 <= time /\ SleptFrom(keeper.seen, keeper.since, keeper.wake, t0, c0)

LEMMA SleepInit == AdmissionInit => SleepInv
<1> SUFFICES ASSUME AdmissionInit PROVE SleepInv
  OBVIOUS
<1>1. WindowInv
  BY WindowInit
<1>2. keeper.at = "due" /\ keeper.seen.row = yard /\ keeper.seen.gates = gates
  BY DEF AdmissionInit
<1> QED BY <1>1, <1>2 DEF SleepInv

LEMMA ToldSleeps == ASSUME SleepInv, WindowInv', keeper' = Tell PROVE SleepInv'
<1>1. keeper \in KeeperType
  BY DEF SleepInv, WindowInv, AdmissionTypes
<1>2. keeper'.event = TRUE /\ keeper'.at = keeper.at /\ keeper'.ok = keeper.ok /\ keeper'.wake = keeper.wake
  BY <1>1 DEF Tell, KeeperType
<1> QED BY <1>2 DEF SleepInv

LEMMA UntoldSleeps ==
  ASSUME SleepInv, WindowInv', keeper' = keeper, gates' = gates, Announced(yard') = Announced(yard), time' = time \/ time' = time + 1
  PROVE  SleepInv'
<1>1. time \in Nat
  BY DEF SleepInv, WindowInv, AdmissionTypes
<1>2. ASSUME NEW t0 \in Nat, t0 <= time PROVE t0 <= time'
  BY <1>1, <1>2
<1>3. ~keeper'.event => Announced(yard') = Announced(keeper'.seen.row) /\ gates' = keeper'.seen.gates
  BY DEF SleepInv
<1>4. keeper'.at = "asleep" /\ ~keeper'.ok => keeper'.wake # {}
  BY DEF SleepInv
<1>5. ASSUME keeper'.at = "asleep", keeper'.ok, ~keeper'.event
      PROVE  \E t0 \in Nat : \E c0 \in [Jobs -> Optional(Nat)] :
                t0 <= time' /\ SleptFrom(keeper'.seen, keeper'.since, keeper'.wake, t0, c0)
  <2>1. PICK t0 \in Nat : \E c0 \in [Jobs -> Optional(Nat)] :
           t0 <= time /\ SleptFrom(keeper.seen, keeper.since, keeper.wake, t0, c0)
    BY <1>5 DEF SleepInv
  <2>2. PICK c0 \in [Jobs -> Optional(Nat)] : t0 <= time /\ SleptFrom(keeper.seen, keeper.since, keeper.wake, t0, c0)
    BY <2>1
  <2>3. t0 <= time'
    BY <1>2, <2>2
  <2>4. keeper'.seen = keeper.seen /\ keeper'.since = keeper.since /\ keeper'.wake = keeper.wake
    OBVIOUS
  <2>5. SleptFrom(keeper'.seen, keeper'.since, keeper'.wake, t0, c0)
    BY <2>2, <2>4
  <2> QED BY <2>3, <2>5
<1> QED BY <1>3, <1>4, <1>5 DEF SleepInv

LEMMA SampleIsNotAnnounced == ASSUME SleepInv, NEW j \in Jobs, JobSample(j) PROVE Announced(yard') = Announced(yard)
<1>1. yard \in [Jobs -> JobRow]
  BY DEF SleepInv, WindowInv, AdmissionTypes
<1> DEFINE e == [yard[j] EXCEPT !.rss = yard[j].shape.rss, !.cpu = {TinyCores}]
<1>2. yard' = [yard EXCEPT ![j] = e] /\ yard[j] \in JobRow
  BY <1>1 DEF JobSample, JobRow
<1>3. [e EXCEPT !.cpu = {}, !.rss = 0] = [yard[j] EXCEPT !.cpu = {}, !.rss = 0]
  BY <1>2 DEF JobRow
<1> HIDE DEF e
<1>4. yard'[j] = e /\ \A k \in Jobs \ {j} : yard'[k] = yard[k]
  BY <1>1, <1>2
<1>5. \A k \in Jobs : [yard'[k] EXCEPT !.cpu = {}, !.rss = 0] = [yard[k] EXCEPT !.cpu = {}, !.rss = 0]
  BY <1>3, <1>4
<1> QED BY <1>5 DEF Announced

LEMMA ReadSleeps == ASSUME SleepInv, WindowInv', PassReads PROVE SleepInv'
<1>1. keeper \in KeeperType
  BY DEF SleepInv, WindowInv, AdmissionTypes
<1> DEFINE s == [row |-> yard, gates |-> gates, reading |-> reading]
<1>2. s.row = yard /\ s.gates = gates
  OBVIOUS
<1>3. keeper' = [keeper EXCEPT !.at = "read", !.event = FALSE, !.wake = {}, !.seen = s] /\ UNCHANGED <<yard, gates>>
  BY DEF PassReads
<1> HIDE DEF s
<1>4. keeper'.at = "read" /\ keeper'.seen = s
  BY <1>1, <1>3 DEF KeeperType
<1> QED BY <1>2, <1>3, <1>4 DEF SleepInv

LEMMA FailureSleeps == ASSUME SleepInv, WindowInv', PassFails PROVE SleepInv'
<1>1. keeper \in KeeperType
  BY DEF SleepInv, WindowInv, AdmissionTypes
<1>2. keeper' = [keeper EXCEPT !.at = "asleep", !.ok = FALSE, !.wake = {time + Retry}] /\ UNCHANGED <<yard, gates>>
  BY DEF PassFails
<1>3. keeper'.at = "asleep" /\ keeper'.ok = FALSE /\ keeper'.wake = {time + Retry} /\ keeper'.seen = keeper.seen /\ keeper'.event = keeper.event
  BY <1>1, <1>2 DEF KeeperType
<1> QED BY <1>2, <1>3 DEF SleepInv

LEMMA ApplySleeps == ASSUME SleepInv, WindowInv', PassApplies PROVE SleepInv'
<1> DEFINE v == Decided
<1>0. PICK unspawned \in SUBSET v.start : \E unwritten \in SUBSET (v.fail \union unspawned) : AppliesWith(v, unspawned, unwritten)
  BY AppliesBy
<1>1. PICK unwritten \in SUBSET (v.fail \union unspawned) : AppliesWith(v, unspawned, unwritten)
  BY <1>0
<1>2. keeper.at = "read" /\ UNCHANGED <<gates, reading, time>>
  BY DEF PassApplies
<1> DEFINE written == {j \in v.start \union v.fail : yard[j].st = "waiting" /\ j \notin unwritten}
           failed  == v.start \union v.fail # written
           again   == IF MachineGated(v) THEN {time + Recheck} ELSE {}
           S == NextWakeup(v) \union again \union RetryWake(time, failed)
           W == Earliest(S)
           c == [j \in Jobs |-> IF j \in In(Input(keeper.seen, keeper.since, time), "waiting") THEN v.since[j] ELSE {}]
           s == [keeper.seen EXCEPT !.reading = reading]
<1>3. WindowInv /\ v \in PassView(keeper.seen.row, time)
  BY <1>2, DecidedIsView DEF SleepInv
<1>4. /\ yard \in [Jobs -> JobRow] /\ reading \in Reading /\ time \in Nat /\ keeper \in KeeperType
      /\ keeper.seen \in SeenType /\ keeper.since \in [Jobs -> Optional(Nat)]
  BY <1>3 DEF WindowInv, AdmissionTypes, KeeperType
<1>v. v \in View /\ Numbered(v.row) /\ v.start \subseteq Jobs /\ v.fail \subseteq Jobs
  BY <1>3 DEF PassView, View
<1>5. s \in SeenType /\ s.row = keeper.seen.row /\ s.gates = keeper.seen.gates
  BY <1>4 DEF SeenType
<1>6. v = Decide(Input(s, keeper.since, time))
  BY DEF Decided
<1>7. yard' = [j \in Jobs |-> Applied(v, j, unspawned, unwritten)]
  BY <1>1 DEF AppliesWith
<1>8. keeper' = [keeper EXCEPT !.at = "asleep", !.ok = ~failed, !.event = @ \/ written # {}, !.since = c, !.wake = W, !.seen.reading = reading]
  BY <1>1 DEF AppliesWith
<1> HIDE DEF v
<1>9. /\ keeper'.at = "asleep" /\ keeper'.ok = ~failed /\ keeper'.event = (keeper.event \/ written # {})
      /\ keeper'.since = c /\ keeper'.wake = W /\ keeper'.seen = s
  <2> HIDE DEF W, c, failed, written
  <2>1. keeper' = [keeper EXCEPT !.at = "asleep", !.ok = ~failed, !.event = keeper.event \/ written # {}, !.since = c, !.wake = W, !.seen = s]
    BY <1>4, <1>8 DEF KeeperType, SeenType
  <2> HIDE DEF s
  <2> QED BY <1>4, <2>1 DEF KeeperType
<1>10. ASSUME ~keeper'.event PROVE written = {} /\ yard' = yard /\ ~keeper.event
  <2>1. written = {} /\ ~keeper.event
    BY <1>9, <1>10
  <2>2. \A j \in v.start \union v.fail : yard[j].st = "waiting" => j \in unwritten
    BY <2>1
  <2>3. ASSUME NEW j \in Jobs PROVE Applied(v, j, unspawned, unwritten) = yard[j]
    BY <2>2 DEF Applied
  <2> QED BY <1>4, <1>7, <2>1, <2>3
<1>11. ~keeper'.event => Announced(yard') = Announced(keeper'.seen.row) /\ gates' = keeper'.seen.gates
  BY <1>2, <1>5, <1>9, <1>10 DEF SleepInv
<1>12. S \in SUBSET Nat
  <2> DEFINE I == {t \in Instants(v) : t > v.now}
  <2>1. I \in SUBSET Nat
    BY <1>v, InstantsNat
  <2>2. NextWakeup(v) = Earliest(I)
    BY DEF NextWakeup
  <2> HIDE DEF I
  <2>3. NextWakeup(v) \subseteq Nat
    BY <2>1, <2>2, EarliestIsOptional
  <2>4. again \subseteq Nat /\ RetryWake(time, failed) \subseteq Nat
    BY <1>4, AdmissionAssumption DEF RetryWake
  <2> QED BY <2>3, <2>4
<1>13. ~keeper'.ok => keeper'.wake # {}
  <2>1. SUFFICES ASSUME failed PROVE W # {}
    BY <1>9
  <2>2. S # {}
    BY <2>1 DEF RetryWake
  <2> HIDE DEF S
  <2> QED BY <1>12, <2>2, EarliestIsOptional
<1>14. ASSUME keeper'.ok, ~keeper'.event PROVE SleptFrom(keeper'.seen, keeper'.since, keeper'.wake, time, keeper.since)
  <2>1. ~failed /\ written = {}
    BY <1>9, <1>10, <1>14
  <2>2. v.start = {} /\ v.fail = {}
    BY <2>1
  <2>3. c = SinceOf(s, v)
    <3>1. Input(keeper.seen, keeper.since, time).row = keeper.seen.row
      BY <1>4, InputIsView
    <3> QED BY <1>5, <3>1 DEF SinceOf, In
  <2>4. W = Earliest(NextWakeup(v) \union Again(v, time))
    <3>1. RetryWake(time, failed) = {}
      BY <2>1 DEF RetryWake
    <3>2. S = NextWakeup(v) \union Again(v, time)
      BY <3>1 DEF Again
    <3> HIDE DEF S
    <3> QED BY <3>2
  <2> HIDE DEF c, W, s
  <2> QED BY <1>6, <1>9, <2>2, <2>3, <2>4 DEF SleptFrom
<1>15. time <= time' /\ time \in Nat /\ keeper.since \in [Jobs -> Optional(Nat)]
  BY <1>2, <1>4
<1> HIDE DEF written, failed, again, S, W, c, s
<1> QED BY <1>11, <1>13, <1>14, <1>15 DEF SleepInv

LEMMA SleepStep == SleepInv /\ [AdmissionStep]_admissionVars => SleepInv'
<1> SUFFICES ASSUME SleepInv, [AdmissionStep]_admissionVars PROVE SleepInv'
  OBVIOUS
<1>0. WindowInv'
  BY WindowStep DEF SleepInv
<1>1. CASE PassReads
  BY <1>0, <1>1, ReadSleeps
<1>2. CASE PassFails
  BY <1>0, <1>2, FailureSleeps
<1>3. CASE PassApplies
  BY <1>0, <1>3, ApplySleeps
<1>4. CASE TimePasses
  <2>1. UNCHANGED <<yard, gates, keeper>> /\ time' = time + 1
    BY <1>4 DEF TimePasses
  <2> QED BY <1>0, <2>1, UntoldSleeps
<1>5. ASSUME NEW j \in Jobs, JobEnds(j) \/ CancelWaiting(j) \/ WorkRequest(j) PROVE SleepInv'
  <2>1. keeper' = Tell
    BY <1>5 DEF JobEnds, CancelWaiting, WorkRequest
  <2> QED BY <1>0, <2>1, ToldSleeps
<1>6. ASSUME NEW j \in Jobs, JobSample(j) PROVE SleepInv'
  <2>1. Announced(yard') = Announced(yard)
    BY <1>6, SampleIsNotAnnounced
  <2>2. UNCHANGED <<gates, keeper, time>>
    BY <1>6 DEF JobSample
  <2> QED BY <1>0, <2>1, <2>2, UntoldSleeps
<1>7. CASE GateShuts \/ GateOpens
  <2>1. keeper' = Tell
    BY <1>7 DEF GateShuts, GateOpens
  <2> QED BY <1>0, <2>1, ToldSleeps
<1>8. CASE MachineMoves
  <2>1. UNCHANGED <<yard, gates, keeper, time>>
    BY <1>8 DEF MachineMoves
  <2> QED BY <1>0, <2>1, UntoldSleeps
<1>9. CASE UNCHANGED admissionVars
  <2>1. UNCHANGED <<yard, gates, keeper, time>>
    BY <1>9 DEF admissionVars
  <2> QED BY <1>0, <2>1, UntoldSleeps
<1> QED BY <1>1, <1>2, <1>3, <1>4, <1>5, <1>6, <1>7, <1>8, <1>9 DEF AdmissionStep

\* The sleep of the admission loop loses nothing: every rule that time can change has its instant in the wake-up, so
\* before it, and with no event queued, a pass over what the store holds would start and fail no job.
THEOREM SleepLosesNothing == AdmissionSpec => []SleepMissesNothing
<1>1. SleepInv => SleepMissesNothing
  <2> SUFFICES ASSUME SleepInv, keeper.at = "asleep", ~keeper.event, \A w \in keeper.wake : time < w
               PROVE  IF keeper.ok
                      THEN /\ Announced(yard) = Announced(keeper.seen.row) /\ gates = keeper.seen.gates
                           /\ \E v \in {Decide(Input(keeper.seen, keeper.since, time))} : v.start = {} /\ v.fail = {}
                      ELSE keeper.wake # {}
    BY DEF SleepMissesNothing
  <2>1. CASE ~keeper.ok
    BY <2>1 DEF SleepInv
  <2>2. CASE keeper.ok
    <3>1. PICK t0 \in Nat : \E c0 \in [Jobs -> Optional(Nat)] :
             t0 <= time /\ SleptFrom(keeper.seen, keeper.since, keeper.wake, t0, c0)
      BY <2>2 DEF SleepInv
    <3>2. PICK c0 \in [Jobs -> Optional(Nat)] : t0 <= time /\ SleptFrom(keeper.seen, keeper.since, keeper.wake, t0, c0)
      BY <3>1
    <3>3. keeper.seen \in SeenType /\ time \in Nat /\ Numbered(keeper.seen.row)
      BY DEF SleepInv, WindowInv, AdmissionTypes, KeeperType
    <3> DEFINE v == Decide(Input(keeper.seen, keeper.since, time))
    <3>4. v.start = {} /\ v.fail = {}
      BY <3>2, <3>3, NothingMissed
    <3>5. Announced(yard) = Announced(keeper.seen.row) /\ gates = keeper.seen.gates
      BY DEF SleepInv
    <3> HIDE DEF v
    <3>6. \E x \in {v} : x.start = {} /\ x.fail = {}
      BY <3>4
    <3> QED BY <2>2, <3>5, <3>6 DEF v
  <2> QED BY <2>1, <2>2
<1> QED BY <1>1, SleepInit, SleepStep, PTL DEF AdmissionSpec

=============================================================================
