------------------------------ MODULE Sealing ------------------------------
(***************************************************************************)
(* The client's verbs on one encrypted channel.  The daemon holds no key: a    *)
(* client reads the channel, its members and its own wrapped key in calls of   *)
(* their own, wraps or seals by itself, and sends one signed request that the  *)
(* daemon accepts only if it still fits.  Between the calls other clients act.  *)
(* All clients here are channel admins and honest.                             *)
(***************************************************************************)
EXTENDS Integers, Sequences, FiniteSets

CONSTANTS
    Mates,    \* the identities
    MaxKeys,  \* bound: channel keys generated
    MaxNotes  \* bound: messages posted

ASSUME SealingAssumption == /\ MaxKeys \in Nat \ {0} /\ MaxNotes \in Nat
                            /\ \E S \in SUBSET Mates : Cardinality(S) = 2

VARIABLES
    room,   \* the daemon's rows: members, epoch, pending rotation, wraps of each epoch, messages
    verb,   \* what each client is doing, with what it read
    drawn   \* keys generated so far

sealVars == <<room, verb, drawn>>

NoKey == 0
Keys  == 1..MaxKeys
AtRest == [name |-> "none", at |-> "idle", target |-> "none", epoch |-> 0, members |-> {}, key |-> NoKey,
           blob |-> NoKey]
Done(m) == verb' = [verb EXCEPT ![m] = AtRest]
Doing(m, name, at) == verb[m].name = name /\ verb[m].at = at
Member(m) == m \in room.members

\* A wrap opens only for its recipient and under the epoch in its associated data, which is
\* its place in the table; the daemon hands it to a member of the channel.
Unwrap(m, epoch) == room.wraps[epoch][m]
\* What is sealed names its epoch, and opens only with the key that sealed it.
Opened(sealed, key) == sealed.key = key

-----------------------------------------------------------------------------
(* Reads.                                                                      *)

\* `ChannelInfo`: the epoch and the members of one moment.  A usage error, an attachment over
\* the limit, ends a verb before any call that changes something.
ReadChannel(m, name, target) ==
    /\ verb[m] = AtRest /\ Member(m)
    /\ name = "add" => target \notin room.members
    /\ name = "remove" => target \in room.members \ {m}
    /\ verb' = [verb EXCEPT ![m] = [AtRest EXCEPT !.name = name, !.target = target, !.epoch = room.epoch,
                                    !.members = room.members,
                                    !.at = IF name \in {"chat", "add"} THEN "info" ELSE "keyed"]]
    /\ UNCHANGED <<room, drawn>>

\* `ChannelKey`: the caller's wrap of the current epoch, of members only.
ReadKey(m) ==
    /\ verb[m].at = "info"
    /\ IF Member(m) /\ Unwrap(m, room.epoch) # NoKey
       THEN verb' = [verb EXCEPT ![m].at = "keyed", ![m].epoch = room.epoch, ![m].key = Unwrap(m, room.epoch)]
       ELSE Done(m)
    /\ UNCHANGED <<room, drawn>>

-----------------------------------------------------------------------------
(* chat.                                                                       *)

\* Attachments are sealed and stored first; a refused message leaves them behind.
PutBlob(m) ==
    /\ Doing(m, "chat", "keyed") /\ verb[m].blob = NoKey
    /\ verb' = [verb EXCEPT ![m].blob = verb[m].key]
    /\ UNCHANGED <<room, drawn>>

\* Refused when the sender is out, a rotation is pending or the epoch is not the current one.
PostSealed(m) ==
    /\ Doing(m, "chat", "keyed") /\ Len(room.notes) < MaxNotes
    /\ room' = IF Member(m) /\ ~room.pending /\ verb[m].epoch = room.epoch
               THEN [room EXCEPT !.notes = Append(@, [epoch |-> room.epoch, key |-> verb[m].key,
                                                      blob |-> verb[m].blob, readers |-> room.members])]
               ELSE room
    /\ Done(m) /\ UNCHANGED drawn

\* `render`: the key of the message's epoch, asked for once per epoch, opens the body.
Renders(r, note) == Opened(note, Unwrap(r, note.epoch))
\* `fetch`: the message names the epoch of its attachment.
Fetches(r, note) == note.blob = NoKey \/ Opened([key |-> note.blob], Unwrap(r, note.epoch))

-----------------------------------------------------------------------------
(* add, remove, leave, rotate.                                                  *)

\* Faulty: the digest of the wraps does not bind their epoch.
DigestFitsAny(m, epoch) == TRUE
\* The signed digest binds the wraps to an epoch: the daemon computes it for its own.
DigestFits(m, epoch) == verb[m].epoch = epoch

AddSealed(m) ==
    /\ Doing(m, "add", "keyed")
    /\ LET t == verb[m].target IN
       room' = IF /\ Member(m) /\ t \notin room.members /\ DigestFits(m, room.epoch)
                  /\ room.wraps[room.epoch][t] = NoKey
               THEN [room EXCEPT !.members = @ \cup {t}, !.wraps[room.epoch][t] = verb[m].key]
               ELSE room
    /\ Done(m) /\ UNCHANGED drawn

\* The wraps cover exactly the members.
Covers(wrapped, members) == wrapped = members

\* A new key is drawn for the members read, less the one removed, and wrapped for the next
\* epoch; the daemon takes the whole set or nothing.
Rekeyed(m, members) ==
    LET wrapped == verb[m].members \ {verb[m].target}
    IN  IF /\ Member(m) /\ Covers(wrapped, members) /\ DigestFits(m, room.epoch)
        THEN [room EXCEPT !.members = members, !.epoch = @ + 1, !.pending = FALSE,
                          !.wraps[room.epoch + 1] = [x \in Mates |-> IF x \in wrapped THEN drawn + 1 ELSE NoKey]]
        ELSE room
RemoveSealed(m) ==
    /\ Doing(m, "remove", "keyed") /\ drawn < MaxKeys
    /\ room' = IF verb[m].target \in room.members THEN Rekeyed(m, room.members \ {verb[m].target}) ELSE room
    /\ drawn' = drawn + 1 /\ Done(m)
RotateSealed(m) ==
    /\ Doing(m, "rotate", "keyed") /\ drawn < MaxKeys
    /\ room' = Rekeyed(m, room.members)
    /\ drawn' = drawn + 1 /\ Done(m)

\* A leaver sends no keys: the channel waits for a rotation.
LeaveSealed(m) ==
    /\ verb[m] = AtRest /\ Member(m) /\ Cardinality(room.members) > 1
    /\ room' = [room EXCEPT !.members = @ \ {m}, !.pending = TRUE]
    /\ UNCHANGED <<verb, drawn>>

-----------------------------------------------------------------------------
SealStep(m) ==
    \/ \E name \in {"chat", "rotate"} : ReadChannel(m, name, "none")
    \/ \E t \in Mates, name \in {"add", "remove"} : ReadChannel(m, name, t)
    \/ ReadKey(m) \/ PutBlob(m) \/ PostSealed(m) \/ AddSealed(m) \/ RemoveSealed(m) \/ RotateSealed(m) \/ LeaveSealed(m)

\* `channel_create`: the key of epoch 0, wrapped for the members and the creator.
Founders == CHOOSE S \in SUBSET Mates : Cardinality(S) = 2
SealInit ==
    /\ room = [members |-> Founders, epoch |-> 0, pending |-> FALSE, notes |-> <<>>,
               wraps |-> [e \in 0..MaxKeys |-> [x \in Mates |-> IF e = 0 /\ x \in Founders THEN 1 ELSE NoKey]]]
    /\ verb = [m \in Mates |-> AtRest] /\ drawn = 1

SealSpec == SealInit /\ [][\E m \in Mates : SealStep(m)]_sealVars

-----------------------------------------------------------------------------
\* Whoever was a member when a message was accepted can open it and its attachment,
\* whatever joins, removals and rotations ran between the sender's calls.
EveryMemberCanOpen ==
    \A n \in DOMAIN room.notes : \A r \in room.notes[n].readers :
        Renders(r, room.notes[n]) /\ Fetches(r, room.notes[n])
=============================================================================
