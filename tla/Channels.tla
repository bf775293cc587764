------------------------------ MODULE Channels ------------------------------
(***************************************************************************)
(* Identities, channels with their key epochs, signed messages and read     *)
(* cursors.  The store keeps no plaintext key: a channel is encrypted when a *)
(* wrapped key of some epoch is on file, and what matters here is who holds  *)
(* a key of which epoch.                                                    *)
(*                                                                          *)
(* Every action is one store transaction, taken by an identity that signed   *)
(* it.  A refused operation changes nothing and is no step.  Left out: the    *)
(* signature, the nonce and the clock window of the envelope; labels, channel *)
(* kinds, names and parents; threads and attachments of messages (a bad one   *)
(* is one more refusal); the event log.                                     *)
(*                                                                          *)
(* Sources: agora-store identity.rs, system.rs, channels.rs, messages.rs;    *)
(* agora-daemon org.rs, chat.rs.                                            *)
(***************************************************************************)
EXTENDS Integers, Sequences, FiniteSets

CONSTANTS
    People,      \* keys of agents and of the humans behind them
    SystemKeys,  \* keys the daemon may draw for itself
    ChannelIds,  \* channel ids
    MessageIds,  \* message ids; they bound the messages posted
    MaxEpoch     \* bound: the key epochs of a channel

ASSUME ChannelsAssumption ==
    /\ People \cap SystemKeys = {} /\ SystemKeys # {}
    /\ MaxEpoch \in Nat

VARIABLES
    role,      \* identities: the role of each registered key
    revoked,   \* identities: the revoked keys
    channels,  \* channels: the ids that exist
    members,   \* channel_members: the members of each channel
    admins,    \* those of them with the role admin
    epoch,     \* channels.epoch
    holders,   \* channel_keys: who has a wrapped key of each epoch
    rotation,  \* channel_rotation: channels whose key must be rotated
    messages,  \* messages, in the order of their global seq
    acked      \* cursors: the last seq each reader acked in each channel

idVars  == <<role, revoked>>
keyVars == <<epoch, holders, rotation>>
msgVars == <<messages, acked>>
vars    == <<role, revoked, channels, members, admins, epoch, holders, rotation,
             messages, acked>>

Identities == People \cup SystemKeys
Epochs     == 0 .. MaxEpoch

Unknown    == -1
Observer   == 0
Worker     == 1
Supervisor == 2
Controller == 3
Owner      == 4
Roles      == Observer .. Owner

Message == [id : MessageIds, channel : ChannelIds, sender : Identities, epoch : Epochs]

---------------------------------------------------------------------------
\* Registered and not revoked, the condition of `active_role`.
Active(i) == role[i] # Unknown /\ i \notin revoked

\* The signer of an agent operation; the system identity is refused.
Signs(a, min) == a \in People /\ Active(a) /\ role[a] >= min

\* The rule of every membership change: channel admin, or supervisor anywhere.
Manages(a, c) ==
    /\ Signs(a, Worker)
    /\ role[a] >= Supervisor \/ a \in admins[c]

Encrypted(c) == \E e \in Epochs : holders[c][e] # {}

OtherActiveOwners(i) == {j \in Identities \ {i} : role[j] = Owner /\ j \notin revoked}

\* A controller or owner is protected: acting on one needs an owner.
MayActOn(a, t) ==
    /\ Signs(a, Controller)
    /\ t \in People /\ Active(t)
    /\ role[t] >= Controller => role[a] = Owner

---------------------------------------------------------------------------
\* Identities.

RegisterIdentity(i) ==
    /\ role[i] = Unknown
    /\ role' = [role EXCEPT ![i] = Worker]
    /\ UNCHANGED <<revoked, channels, members, admins, keyVars, msgVars>>

\* Allowed once; it also lifts a revocation of the key.
BootstrapOwner(i) ==
    /\ \A j \in Identities : role[j] # Owner
    /\ role' = [role EXCEPT ![i] = Owner]
    /\ revoked' = revoked \ {i}
    /\ UNCHANGED <<channels, members, admins, keyVars, msgVars>>

\* The daemon's own key, an observer; the system keys before it are revoked.
RegisterSystemIdentity(k) ==
    /\ ~Active(k)
    /\ role' = [role EXCEPT ![k] = Observer]
    /\ revoked' = (revoked \cup {s \in SystemKeys : role[s] # Unknown}) \ {k}
    /\ UNCHANGED <<channels, members, admins, keyVars, msgVars>>

GrantRole(a, t, new) ==
    /\ MayActOn(a, t)
    /\ new > Supervisor => role[a] = Owner
    /\ role[t] = Owner /\ new # Owner => OtherActiveOwners(t) # {}
    /\ role' = [role EXCEPT ![t] = new]
    /\ UNCHANGED <<revoked, channels, members, admins, keyVars, msgVars>>

\* The memberships go with the key, and every encrypted channel it was in must
\* rotate; no last-admin rule here.
RevokeIdentity(a, t) ==
    /\ MayActOn(a, t)
    /\ role[t] = Owner => OtherActiveOwners(t) # {}
    /\ rotation' = rotation \cup {c \in ChannelIds : t \in members[c] /\ Encrypted(c)}
    /\ members' = [c \in ChannelIds |-> members[c] \ {t}]
    /\ admins' = [c \in ChannelIds |-> admins[c] \ {t}]
    /\ revoked' = revoked \cup {t}
    /\ UNCHANGED <<role, channels, epoch, holders, msgVars>>

---------------------------------------------------------------------------
\* Channels.

\* The creator is a member and an admin whatever the list says; an encrypted
\* channel starts with a key for exactly its members.
CreateChannel(a, c, listed, listedAdmins, encrypt) ==
    /\ Signs(a, Worker)
    /\ \A i \in listed : Active(i)
    /\ c \notin channels
    /\ channels' = channels \cup {c}
    /\ members' = [members EXCEPT ![c] = listed \cup {a}]
    /\ admins' = [admins EXCEPT ![c] = listedAdmins \cup {a}]
    /\ holders' = [holders EXCEPT ![c][0] = IF encrypt THEN listed \cup {a} ELSE {}]
    /\ UNCHANGED <<idVars, epoch, rotation, msgVars>>

\* A key row of the current epoch that is still on file makes the insert fail.
AddMember(a, c, t, asAdmin) ==
    /\ Manages(a, c)
    /\ c \in channels
    /\ Active(t)
    /\ t \notin members[c]
    /\ \/ /\ Encrypted(c)
          /\ t \notin holders[c][epoch[c]]
          /\ holders' = [holders EXCEPT ![c][epoch[c]] = @ \cup {t}]
       \/ ~Encrypted(c) /\ UNCHANGED holders
    /\ members' = [members EXCEPT ![c] = @ \cup {t}]
    /\ admins' = IF asAdmin THEN [admins EXCEPT ![c] = @ \cup {t}] ELSE admins
    /\ UNCHANGED <<idVars, channels, epoch, rotation, msgVars>>

\* What a new epoch of c does, given the set its keys must cover exactly.
NewEpoch(c, cover) ==
    /\ epoch[c] < MaxEpoch
    /\ epoch' = [epoch EXCEPT ![c] = @ + 1]
    /\ holders' = [holders EXCEPT ![c][epoch[c] + 1] = cover]
    /\ rotation' = rotation \ {c}

NotTheLastAdmin(c, t) ==
    t \in admins[c] => admins[c] \ {t} # {} \/ members[c] \ {t} = {}

\* Faulty: the leaver's channel is not flagged for rotation.
LeaveUnflagged(a, c) ==
    /\ a \in People /\ Active(a)
    /\ a \in members[c]
    /\ NotTheLastAdmin(c, a)
    /\ members' = [members EXCEPT ![c] = @ \ {a}]
    /\ admins' = [admins EXCEPT ![c] = @ \ {a}]
    /\ UNCHANGED <<idVars, channels, keyVars, msgVars>>

\* A leaver must not author the next key: the channel waits for a rotation.
Leave(a, c) ==
    /\ a \in People /\ Active(a)
    /\ a \in members[c]
    /\ NotTheLastAdmin(c, a)
    /\ members' = [members EXCEPT ![c] = @ \ {a}]
    /\ admins' = [admins EXCEPT ![c] = @ \ {a}]
    /\ rotation' = IF Encrypted(c) THEN rotation \cup {c} ELSE rotation
    /\ UNCHANGED <<idVars, channels, epoch, holders, msgVars>>

\* Removing someone else brings the keys of the next epoch for who remains.
RemoveMember(a, c, t) ==
    /\ t # a
    /\ Manages(a, c)
    /\ t \in members[c]
    /\ NotTheLastAdmin(c, t)
    /\ members' = [members EXCEPT ![c] = @ \ {t}]
    /\ admins' = [admins EXCEPT ![c] = @ \ {t}]
    /\ IF Encrypted(c) THEN NewEpoch(c, members[c] \ {t}) ELSE UNCHANGED keyVars
    /\ UNCHANGED <<idVars, channels, msgVars>>

SetChannelRole(a, c, t) ==
    /\ Manages(a, c)
    /\ t \in members[c]
    /\ \/ t \notin admins[c] /\ admins' = [admins EXCEPT ![c] = @ \cup {t}]
       \/ /\ admins[c] \ {t} # {}
          /\ admins' = [admins EXCEPT ![c] = @ \ {t}]
    /\ UNCHANGED <<idVars, channels, members, keyVars, msgVars>>

RotateChannelKey(a, c) ==
    /\ Manages(a, c)
    /\ Encrypted(c)
    /\ NewEpoch(c, members[c])
    /\ UNCHANGED <<idVars, channels, members, admins, msgVars>>

---------------------------------------------------------------------------
\* Messages.

\* A message carries the epoch its sender encrypted for: 0 in a plain channel,
\* the current one in an encrypted channel.
PostMessage(a, c, id, e) ==
    /\ Signs(a, Worker)
    /\ a \in members[c]
    /\ c \notin rotation
    /\ \A n \in DOMAIN messages : messages[n].id # id
    /\ e = IF Encrypted(c) THEN epoch[c] ELSE 0
    /\ messages' = Append(messages, [id |-> id, channel |-> c, sender |-> a, epoch |-> e])
    /\ UNCHANGED <<idVars, channels, members, admins, keyVars, acked>>

SeqsOf(c) == {n \in DOMAIN messages : messages[n].channel = c}

\* h is the highest seq of the channel's messages, 0 when it has none.
IsHead(c, h) == h \in SeqsOf(c) \cup {0} /\ \A n \in SeqsOf(c) : n <= h

Least(x, y)    == IF x < y THEN x ELSE y
Greatest(x, y) == IF x < y THEN y ELSE x

\* Faulty: the client's seq is taken as it comes.
Unclamped(seq, head) == seq
Clamped(seq, head) == Least(seq, head)

\* The cursor moves to the client's seq, never past the channel's head and never
\* back.
Ack(r, c, seq) ==
    /\ Active(r)
    /\ r \in members[c]
    /\ \E head \in 0 .. Len(messages) :
          /\ IsHead(c, head)
          /\ acked' = [acked EXCEPT ![r][c] = Greatest(@, Clamped(seq, head))]
    /\ UNCHANGED <<idVars, channels, members, admins, keyVars, messages>>

\* What `inbox` returns to r.
Inbox(r) == {n \in DOMAIN messages :
                /\ r \in members[messages[n].channel]
                /\ n > acked[r][messages[n].channel]
                /\ messages[n].sender # r}

---------------------------------------------------------------------------
Init ==
    /\ \E k \in SystemKeys :
          role = [i \in Identities |-> IF i = k THEN Observer ELSE Unknown]
    /\ revoked = {}
    /\ channels = {}
    /\ members = [c \in ChannelIds |-> {}]
    /\ admins = [c \in ChannelIds |-> {}]
    /\ epoch = [c \in ChannelIds |-> 0]
    /\ holders = [c \in ChannelIds |-> [e \in Epochs |-> {}]]
    /\ rotation = {}
    /\ messages = <<>>
    /\ acked = [i \in Identities |-> [c \in ChannelIds |-> 0]]

IdentityStep ==
    \/ \E i \in People : RegisterIdentity(i) \/ BootstrapOwner(i)
    \/ \E k \in SystemKeys : RegisterSystemIdentity(k)
    \/ \E a, t \in People : \/ \E new \in Roles : GrantRole(a, t, new)
                            \/ RevokeIdentity(a, t)

ChannelStep ==
    \/ \E a \in People, c \in ChannelIds \ channels, encrypt \in BOOLEAN :
          \E listed \in SUBSET {i \in Identities : Active(i)} :
             \E listedAdmins \in SUBSET listed :
                CreateChannel(a, c, listed, listedAdmins, encrypt)
    \/ \E a \in People, c \in ChannelIds, t \in Identities :
          \/ \E asAdmin \in BOOLEAN : AddMember(a, c, t, asAdmin)
          \/ RemoveMember(a, c, t)
          \/ SetChannelRole(a, c, t)
    \/ \E a \in People, c \in ChannelIds : Leave(a, c) \/ RotateChannelKey(a, c)

MessageStep ==
    \/ \E a \in People, c \in ChannelIds, id \in MessageIds, e \in Epochs :
          PostMessage(a, c, id, e)
    \/ \E r \in People, c \in ChannelIds, seq \in 0 .. Cardinality(MessageIds) : Ack(r, c, seq)

Next == IdentityStep \/ ChannelStep \/ MessageStep

Spec == Init /\ [][Next]_vars

---------------------------------------------------------------------------
\* Properties.

\* The tables hold rows the schema and the handlers allow: admins are members,
\* only existing channels have members, keys or a pending rotation.
TypeOK ==
    /\ role \in [Identities -> Roles \cup {Unknown}]
    /\ revoked \subseteq Identities
    /\ channels \subseteq ChannelIds
    /\ members \in [ChannelIds -> SUBSET Identities]
    /\ admins \in [ChannelIds -> SUBSET Identities]
    /\ \A c \in ChannelIds : admins[c] \subseteq members[c]
    /\ epoch \in [ChannelIds -> Epochs]
    /\ holders \in [ChannelIds -> [Epochs -> SUBSET Identities]]
    /\ rotation \subseteq channels
    /\ messages \in Seq(Message)
    /\ acked \in [Identities -> [ChannelIds -> Nat]]

\* In an encrypted channel every member holds the key of the current epoch, and
\* unless a rotation is pending nobody else does: whoever left, was removed or
\* was revoked has no key for what is posted from now on (remove_member,
\* revoke_identity, rotate_channel_key, add_member).
KeysCoverMembers ==
    \A c \in ChannelIds : Encrypted(c) =>
        /\ members[c] \subseteq holders[c][epoch[c]]
        /\ c \notin rotation => holders[c][epoch[c]] = members[c]

\* A message posted in an encrypted channel can be opened by exactly the
\* channel's members of that moment (post_message refuses a stale epoch and a
\* channel whose rotation is pending).
PostedForMembersOnly ==
    [][\A n \in DOMAIN messages' \ DOMAIN messages :
          LET c == messages'[n].channel
          IN  Encrypted(c) => holders'[c][messages'[n].epoch] = members'[c]]_vars

\* A message reaches the inbox of every other member of its channel: no cursor
\* acked ahead of the channel hides a message that is posted later (ack clamps
\* to the channel's head, though seq counts over all channels).
PostReachesEveryInbox ==
    [][\A n \in DOMAIN messages' \ DOMAIN messages :
          \A r \in members'[messages'[n].channel] \ {messages'[n].sender} :
             n \in Inbox(r)']_vars

\* Once there is an active owner there is one in every later state (grant_role
\* and revoke_identity keep the last owner, bootstrap_owner runs once).
OwnerRemains ==
    [][(\E i \in Identities : Active(i) /\ role[i] = Owner) =>
          (\E i \in Identities : Active(i) /\ role[i] = Owner)']_vars

\* A revoked person is never active again, though bootstrap_owner lifts a
\* revocation: it cannot run after the first owner.
RevocationIsFinal == [][revoked \cap People \subseteq revoked']_vars

\* No revoked person is a member of a channel, so none can read, post or ack
\* (revoke_identity deletes the memberships, add_member wants an active key).
RevokedAreOut == \A c \in ChannelIds : members[c] \cap revoked \cap People = {}

=============================================================================
