------------------------------ MODULE Envelope ------------------------------
(***************************************************************************)
(* The envelope of a signed operation: who signed it, when, and a nonce that  *)
(* makes it good for once.  The store remembers a nonce for twice the skew it  *)
(* allows a time stamp, and forgets older ones whenever it takes an operation. *)
(* Requests may be sent again at any time.  The time of a request is read      *)
(* before it queues for the writer, and the wall clock may be set back.        *)
(***************************************************************************)
EXTENDS Integers

CONSTANTS
    Signers,   \* public keys
    Nonces,    \* nonces; a signer draws each of them at most once
    Skew,      \* MAX_SKEW_MS
    Behind,    \* how far the time of a request may lie behind a time used before
    LastTime   \* bound: the clock

ASSUME EnvelopeAssumption == Skew \in Nat /\ Behind \in 0..Skew /\ LastTime \in Nat

VARIABLES
    standing,  \* of each key: "unknown", "active", "revoked", "system" or "retired"
    signed,    \* the operations signed, each with its stamp
    onFile,    \* the table of nonces
    applied,   \* how often each operation took effect
    latest     \* the latest time the daemon's clock has shown

envelopeVars == <<standing, signed, onFile, applied, latest>>

Operation == [actor : Signers, nonce : Nonces, ts : Int, system : BOOLEAN]

\* The keys: registration is open and changes nothing for a key that is known; a daemon without its seed
\* registers a new system key, and the old one is revoked.
RegisterIdentity(k) ==
    /\ standing[k] = "unknown" /\ standing' = [standing EXCEPT ![k] = "active"]
    /\ UNCHANGED <<signed, onFile, applied, latest>>
RevokeIdentity(k) ==
    /\ standing[k] = "active" /\ standing' = [standing EXCEPT ![k] = "revoked"]
    /\ UNCHANGED <<signed, onFile, applied, latest>>
RegisterSystemIdentity(k) ==
    /\ standing[k] \in {"unknown", "retired"}
    /\ standing' = [s \in Signers |-> IF s = k THEN "system" ELSE IF standing[s] = "system" THEN "retired" ELSE standing[s]]
    /\ UNCHANGED <<signed, onFile, applied, latest>>

\* `sign_op` of the client and `try_sign` of the daemon: a fresh nonce, and the signer's own clock, which
\* may be wrong.  Without a random nonce nothing is signed that the store would take.
Sign(k, n, ts, system) ==
    /\ \A o \in signed : o.actor # k \/ o.nonce # n
    /\ signed' = signed \cup {[actor |-> k, nonce |-> n, ts |-> ts, system |-> system]}
    /\ UNCHANGED <<standing, onFile, applied, latest>>

CheckClock(now, ts) == now - ts <= Skew /\ ts - now <= Skew

\* Faulty: a nonce is dropped as soon as its stamp is out of the window.
RememberedFromOnce(now) == now - Skew
\* `consume_nonce`: the stamps below this are dropped.
RememberedFrom(now) == now - 2 * Skew
Remembered(now) == {kept \in onFile : kept.ts >= RememberedFrom(now)}
Fresh(op, now) == \A kept \in Remembered(now) : kept.actor # op.actor \/ kept.nonce # op.nonce

\* `authorize` and `authorize_system`; a key that is the system's signs nothing else, and only it signs that.
MaySign(op) == standing[op.actor] = IF op.system THEN "system" ELSE "active"

\* An operation is taken, for the first time or sent again: the checks, the nonce and the change are one
\* transaction, so one that is refused leaves no trace.
Take(op, now) ==
    /\ now >= latest - Behind /\ now <= latest
    /\ CheckClock(now, op.ts) /\ MaySign(op) /\ Fresh(op, now)
    /\ onFile' = Remembered(now) \cup {[actor |-> op.actor, nonce |-> op.nonce, ts |-> op.ts]}
    /\ applied' = [applied EXCEPT ![<<op.actor, op.nonce>>] = @ + 1]
    /\ UNCHANGED <<standing, signed, latest>>

ClockMoves ==
    /\ latest < LastTime /\ latest' = latest + 1
    /\ UNCHANGED <<standing, signed, onFile, applied>>

EnvelopeInit ==
    /\ standing = [k \in Signers |-> "unknown"] /\ signed = {} /\ onFile = {}
    /\ applied = [kn \in Signers \X Nonces |-> 0] /\ latest = 0

EnvelopeStep ==
    \/ \E k \in Signers : RegisterIdentity(k) \/ RevokeIdentity(k) \/ RegisterSystemIdentity(k)
    \/ \E k \in Signers, n \in Nonces, ts \in -Skew..(LastTime + Skew), system \in BOOLEAN : Sign(k, n, ts, system)
    \/ \E op \in signed, now \in -Behind..LastTime : Take(op, now)
    \/ ClockMoves

EnvelopeSpec == EnvelopeInit /\ [][EnvelopeStep]_envelopeVars

-----------------------------------------------------------------------------
\* A signed operation takes effect once ("so it can be used only once"), however often and late it is sent
\* again and whatever was forgotten in between, while the clock is set back by no more than the skew.
AppliesOnce == \A k \in Signers, n \in Nonces : applied[<<k, n>>] <= 1
=============================================================================
