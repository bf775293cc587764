--------------------------- MODULE ChannelsProofs ---------------------------
(***************************************************************************)
(* Proofs about Channels, for every set of people, system keys, channels and *)
(* messages.  The inductive invariant ChannelInv adds to the properties what  *)
(* they rest on: a channel id that is not in use has no rows, the system keys *)
(* never rise above observer, nobody is a controller or revoked before there  *)
(* is an owner, and no cursor is ahead of the log.                          *)
(***************************************************************************)
EXTENDS Channels, TLAPS

Unused == \A c \in ChannelIds \ channels :
             /\ members[c] = {} /\ epoch[c] = 0
             /\ \A e \in Epochs : holders[c][e] = {}

SystemObserves == \A k \in SystemKeys : role[k] \in {Unknown, Observer}

ActiveOwner == \E i \in Identities : Active(i) /\ role[i] = Owner

OwnerFirst == (\E p \in People : role[p] >= Controller \/ p \in revoked) => ActiveOwner

CursorsInLog == \A r \in Identities, c \in ChannelIds : acked[r][c] <= Len(messages)

ChannelInv == /\ TypeOK
              /\ Unused
              /\ KeysCoverMembers
              /\ SystemObserves
              /\ OwnerFirst
              /\ RevokedAreOut
              /\ CursorsInLog

\* Every step keeps the tables well formed.
LEMMA TypeStep == TypeOK /\ Unused /\ [Next]_vars => TypeOK'
<1> SUFFICES ASSUME TypeOK, Unused, [Next]_vars PROVE TypeOK'
    OBVIOUS
<1> USE ChannelsAssumption DEF Identities, Roles, Unknown, Observer, Worker, Supervisor,
        Controller, Owner, idVars, keyVars, msgVars
<1>1. ASSUME NEW i \in People, RegisterIdentity(i) PROVE TypeOK'
  BY <1>1 DEF RegisterIdentity, TypeOK
<1>2. ASSUME NEW i \in People, BootstrapOwner(i) PROVE TypeOK'
  BY <1>2 DEF BootstrapOwner, TypeOK
<1>3. ASSUME NEW k \in SystemKeys, RegisterSystemIdentity(k) PROVE TypeOK'
  BY <1>3 DEF RegisterSystemIdentity, TypeOK
<1>4. ASSUME NEW a \in People, NEW t \in People, NEW new \in Roles, GrantRole(a, t, new)
      PROVE  TypeOK'
  BY <1>4 DEF GrantRole, TypeOK
<1>5. ASSUME NEW a \in People, NEW t \in People, RevokeIdentity(a, t) PROVE TypeOK'
  <2>1. {c \in ChannelIds : t \in members[c] /\ Encrypted(c)} \subseteq channels
    BY DEF Unused
  <2> QED BY <1>5, <2>1 DEF RevokeIdentity, TypeOK
<1>6. ASSUME NEW a \in People, NEW c \in ChannelIds, NEW listed \in SUBSET Identities,
             NEW listedAdmins \in SUBSET listed, NEW encrypt \in BOOLEAN,
             CreateChannel(a, c, listed, listedAdmins, encrypt)
      PROVE  TypeOK'
  <2>1. 0 \in Epochs
    BY DEF Epochs
  <2>2. holders' \in [ChannelIds -> [Epochs -> SUBSET Identities]]
    BY <1>6, <2>1 DEF CreateChannel, TypeOK
  <2>3. /\ members' \in [ChannelIds -> SUBSET Identities]
        /\ admins' \in [ChannelIds -> SUBSET Identities]
        /\ \A d \in ChannelIds : admins'[d] \subseteq members'[d]
    BY <1>6 DEF CreateChannel, TypeOK
  <2> QED BY <1>6, <2>2, <2>3 DEF CreateChannel, TypeOK
<1>7. ASSUME NEW a \in People, NEW c \in ChannelIds, NEW t \in Identities,
             NEW asAdmin \in BOOLEAN, AddMember(a, c, t, asAdmin)
      PROVE  TypeOK'
  <2>2. holders' \in [ChannelIds -> [Epochs -> SUBSET Identities]]
    <3>1. holders[c] \in [Epochs -> SUBSET Identities] /\ epoch[c] \in Epochs
      BY DEF TypeOK
    <3>2. CASE holders' = [holders EXCEPT ![c][epoch[c]] = @ \cup {t}]
      <4>1. holders[c][epoch[c]] \cup {t} \in SUBSET Identities
        BY <3>1
      <4>2. [holders[c] EXCEPT ![epoch[c]] = @ \cup {t}] \in [Epochs -> SUBSET Identities]
        BY <3>1, <4>1
      <4> QED BY <3>2, <4>2 DEF TypeOK
    <3>3. CASE UNCHANGED holders
      BY <3>3 DEF TypeOK
    <3> QED BY <1>7, <3>2, <3>3 DEF AddMember
  <2>3. /\ members' \in [ChannelIds -> SUBSET Identities]
        /\ admins' \in [ChannelIds -> SUBSET Identities]
        /\ \A d \in ChannelIds : admins'[d] \subseteq members'[d]
    BY <1>7 DEF AddMember, TypeOK
  <2> QED BY <1>7, <2>2, <2>3 DEF AddMember, TypeOK
<1>8. ASSUME NEW c \in ChannelIds, NEW cover \in SUBSET Identities, NewEpoch(c, cover)
      PROVE  /\ epoch' \in [ChannelIds -> Epochs]
             /\ holders' \in [ChannelIds -> [Epochs -> SUBSET Identities]]
             /\ rotation' \subseteq channels
  BY <1>8 DEF NewEpoch, TypeOK, Epochs
<1>9. ASSUME NEW a \in People, NEW c \in ChannelIds, NEW t \in Identities,
             RemoveMember(a, c, t)
      PROVE  TypeOK'
  <2>1. /\ members' \in [ChannelIds -> SUBSET Identities]
        /\ admins' \in [ChannelIds -> SUBSET Identities]
        /\ \A d \in ChannelIds : admins'[d] \subseteq members'[d]
    BY <1>9 DEF RemoveMember, TypeOK
  <2>2. members[c] \ {t} \in SUBSET Identities
    BY DEF TypeOK
  <2>3. CASE Encrypted(c)
    BY <1>8, <1>9, <2>1, <2>2, <2>3 DEF RemoveMember, TypeOK
  <2>4. CASE ~Encrypted(c)
    BY <1>9, <2>1, <2>4 DEF RemoveMember, TypeOK
  <2> QED BY <2>3, <2>4
<1>10. ASSUME NEW a \in People, NEW c \in ChannelIds, NEW t \in Identities,
              SetChannelRole(a, c, t)
       PROVE  TypeOK'
  <2>1. CASE admins' = [admins EXCEPT ![c] = @ \cup {t}]
    BY <1>10, <2>1 DEF SetChannelRole, TypeOK
  <2>2. CASE admins' = [admins EXCEPT ![c] = @ \ {t}]
    BY <1>10, <2>2 DEF SetChannelRole, TypeOK
  <2> QED BY <1>10, <2>1, <2>2 DEF SetChannelRole
<1>11. ASSUME NEW a \in People, NEW c \in ChannelIds, Leave(a, c) PROVE TypeOK'
  <2>1. c \in channels
    BY <1>11 DEF Leave, Unused
  <2> QED BY <1>11, <2>1 DEF Leave, TypeOK
<1>12. ASSUME NEW a \in People, NEW c \in ChannelIds, RotateChannelKey(a, c) PROVE TypeOK'
  <2>1. members[c] \in SUBSET Identities
    BY DEF TypeOK
  <2> QED BY <1>8, <1>12, <2>1 DEF RotateChannelKey, TypeOK
<1>13. ASSUME NEW a \in People, NEW c \in ChannelIds, NEW id \in MessageIds, NEW e \in Epochs,
              PostMessage(a, c, id, e)
       PROVE  TypeOK'
  <2>1. [id |-> id, channel |-> c, sender |-> a, epoch |-> e] \in Message
    BY DEF Message
  <2> QED BY <1>13, <2>1 DEF PostMessage, TypeOK
<1>14. ASSUME NEW r \in People, NEW c \in ChannelIds, NEW seq \in Nat, Ack(r, c, seq)
       PROVE  TypeOK'
  BY <1>14 DEF Ack, TypeOK, Greatest, Clamped, Least
<1>15. CASE UNCHANGED vars
  BY <1>15 DEF vars, TypeOK
<1>16. 0 .. Cardinality(MessageIds) \subseteq Nat
  OBVIOUS
<1> QED BY <1>1, <1>2, <1>3, <1>4, <1>5, <1>6, <1>7, <1>9, <1>10, <1>11, <1>12, <1>13, <1>14,
           <1>15, <1>16 DEF Next, IdentityStep, ChannelStep, MessageStep

\* Keys follow the members: whoever goes leaves behind either a new epoch they
\* have no key of, or a pending rotation.
LEMMA KeyStep == TypeOK /\ TypeOK' /\ Unused /\ KeysCoverMembers /\ [Next]_vars
                    => Unused' /\ KeysCoverMembers'
<1> SUFFICES ASSUME TypeOK, TypeOK', Unused, KeysCoverMembers, [Next]_vars
             PROVE  Unused' /\ KeysCoverMembers'
    OBVIOUS
<1> USE DEF idVars, keyVars, msgVars
<1>0. 0 \in Epochs
  BY ChannelsAssumption DEF Epochs
<1>1. CASE UNCHANGED <<channels, members, epoch, holders, rotation>>
  BY <1>1 DEF Unused, KeysCoverMembers, Encrypted
<1>2. ASSUME NEW a \in People, NEW t \in People, RevokeIdentity(a, t)
      PROVE  Unused' /\ KeysCoverMembers'
  <2>1. Unused'
    BY <1>2 DEF RevokeIdentity, Unused
  <2>2. ASSUME NEW d \in ChannelIds, Encrypted(d)'
        PROVE  /\ members'[d] \subseteq holders'[d][epoch'[d]]
               /\ d \notin rotation' => holders'[d][epoch'[d]] = members'[d]
    <3>1. Encrypted(d)
      BY <1>2, <2>2 DEF RevokeIdentity, Encrypted
    <3> QED BY <1>2, <3>1 DEF RevokeIdentity, KeysCoverMembers, TypeOK
  <2> QED BY <2>1, <2>2 DEF KeysCoverMembers
<1>3. ASSUME NEW a \in People, NEW c \in ChannelIds, NEW listed \in SUBSET Identities,
             NEW listedAdmins \in SUBSET listed, NEW encrypt \in BOOLEAN,
             CreateChannel(a, c, listed, listedAdmins, encrypt)
      PROVE  Unused' /\ KeysCoverMembers'
  <2>1. /\ c \notin channels /\ c \notin rotation' /\ epoch'[c] = 0
        /\ \A e \in Epochs : holders[c][e] = {}
        /\ members'[c] = listed \cup {a}
    BY <1>3 DEF CreateChannel, Unused, TypeOK
  <2>2. /\ holders'[c] = [holders[c] EXCEPT ![0] = IF encrypt THEN listed \cup {a} ELSE {}]
        /\ \A d \in ChannelIds \ {c} : holders'[d] = holders[d] /\ members'[d] = members[d]
    BY <1>3 DEF CreateChannel, TypeOK
  <2>3. ASSUME Encrypted(c)' PROVE holders'[c][epoch'[c]] = members'[c]
    BY <1>0, <2>1, <2>2, <2>3 DEF Encrypted, TypeOK
  <2>4. ASSUME NEW d \in ChannelIds \ {c}, Encrypted(d)'
        PROVE  /\ members'[d] \subseteq holders'[d][epoch'[d]]
               /\ d \notin rotation' => holders'[d][epoch'[d]] = members'[d]
    <3>1. Encrypted(d)
      BY <2>2, <2>4 DEF Encrypted
    <3> QED BY <1>3, <2>2, <3>1 DEF CreateChannel, KeysCoverMembers
  <2>5. Unused'
    BY <1>3, <2>2 DEF CreateChannel, Unused
  <2>6. ASSUME NEW d \in ChannelIds, Encrypted(d)'
        PROVE  /\ members'[d] \subseteq holders'[d][epoch'[d]]
               /\ d \notin rotation' => holders'[d][epoch'[d]] = members'[d]
    <3>1. CASE d = c
      BY <2>3, <2>6, <3>1
    <3> QED BY <2>4, <2>6, <3>1
  <2> QED BY <2>5, <2>6 DEF KeysCoverMembers
<1>4. ASSUME NEW a \in People, NEW c \in ChannelIds, NEW t \in Identities,
             NEW asAdmin \in BOOLEAN, AddMember(a, c, t, asAdmin)
      PROVE  Unused' /\ KeysCoverMembers'
  <2>1. /\ c \in channels /\ members'[c] = members[c] \cup {t}
        /\ \A d \in ChannelIds \ {c} : members'[d] = members[d] /\ holders'[d] = holders[d]
        /\ UNCHANGED <<channels, epoch, rotation>>
    BY <1>4 DEF AddMember, TypeOK
  <2>2. CASE Encrypted(c)
    <3>1. holders'[c][epoch'[c]] = holders[c][epoch[c]] \cup {t}
      BY <1>4, <2>1, <2>2 DEF AddMember, TypeOK
    <3>2. \A d \in ChannelIds \ {c} : Encrypted(d)' => Encrypted(d)
      BY <2>1 DEF Encrypted
    <3>3. Unused'
      BY <2>1 DEF Unused
    <3>4. ASSUME NEW d \in ChannelIds, Encrypted(d)'
          PROVE  /\ members'[d] \subseteq holders'[d][epoch'[d]]
                 /\ d \notin rotation' => holders'[d][epoch'[d]] = members'[d]
      <4>1. CASE d = c
        BY <2>1, <2>2, <3>1, <4>1 DEF KeysCoverMembers
      <4>2. CASE d # c
        BY <2>1, <3>2, <3>4, <4>2 DEF KeysCoverMembers
      <4> QED BY <4>1, <4>2
    <3> QED BY <3>3, <3>4 DEF KeysCoverMembers
  <2>3. CASE ~Encrypted(c)
    BY <1>4, <2>1, <2>3 DEF AddMember, KeysCoverMembers, Unused, Encrypted
  <2> QED BY <2>2, <2>3
<1>5. ASSUME NEW c \in ChannelIds, NEW cover \in SUBSET Identities, NewEpoch(c, cover),
             c \in channels, UNCHANGED channels, members'[c] = cover,
             \A d \in ChannelIds \ {c} : members'[d] = members[d]
      PROVE  Unused' /\ KeysCoverMembers'
  <2>1. /\ holders'[c][epoch'[c]] = cover
        /\ \A d \in ChannelIds \ {c} : holders'[d] = holders[d] /\ epoch'[d] = epoch[d]
        /\ rotation' = rotation \ {c}
    BY <1>5 DEF NewEpoch, TypeOK, Epochs
  <2>2. \A d \in ChannelIds \ {c} : Encrypted(d)' => Encrypted(d)
    BY <2>1 DEF Encrypted
  <2>3. Unused'
    BY <1>5, <2>1 DEF Unused
  <2> QED BY <1>5, <2>1, <2>2, <2>3 DEF KeysCoverMembers
<1>6. ASSUME NEW a \in People, NEW c \in ChannelIds, NEW t \in Identities,
             RemoveMember(a, c, t)
      PROVE  Unused' /\ KeysCoverMembers'
  <2>1. /\ c \in channels /\ members'[c] = members[c] \ {t} /\ UNCHANGED channels
        /\ \A d \in ChannelIds \ {c} : members'[d] = members[d]
    BY <1>6 DEF RemoveMember, TypeOK, Unused
  <2>2. CASE Encrypted(c)
    <3>1. members[c] \ {t} \in SUBSET Identities
      BY DEF TypeOK
    <3> QED BY <1>5, <1>6, <2>1, <2>2, <3>1 DEF RemoveMember
  <2>3. CASE ~Encrypted(c)
    BY <1>6, <2>1, <2>3 DEF RemoveMember, KeysCoverMembers, Unused, Encrypted
  <2> QED BY <2>2, <2>3
<1>7. ASSUME NEW a \in People, NEW c \in ChannelIds, Leave(a, c)
      PROVE  Unused' /\ KeysCoverMembers'
  <2>1. /\ c \in channels /\ members'[c] = members[c] \ {a}
        /\ \A d \in ChannelIds \ {c} : members'[d] = members[d]
        /\ UNCHANGED <<channels, epoch, holders>>
        /\ rotation' = IF Encrypted(c) THEN rotation \cup {c} ELSE rotation
    BY <1>7 DEF Leave, TypeOK, Unused
  <2>2. \A d \in ChannelIds : Encrypted(d)' <=> Encrypted(d)
    BY <2>1 DEF Encrypted
  <2>3. Unused'
    BY <2>1 DEF Unused
  <2> QED BY <2>1, <2>2, <2>3 DEF KeysCoverMembers
<1>8. ASSUME NEW a \in People, NEW c \in ChannelIds, RotateChannelKey(a, c)
      PROVE  Unused' /\ KeysCoverMembers'
  <2>1. c \in channels /\ members[c] \in SUBSET Identities
    BY <1>8 DEF RotateChannelKey, Encrypted, Unused, TypeOK
  <2> QED BY <1>5, <1>8, <2>1 DEF RotateChannelKey
<1>9. ASSUME NEW a \in People, NEW c \in ChannelIds, NEW t \in Identities,
             SetChannelRole(a, c, t)
      PROVE  Unused' /\ KeysCoverMembers'
  BY <1>1, <1>9 DEF SetChannelRole
<1>10. CASE IdentityStep
  <2>1. ASSUME NEW i \in People, RegisterIdentity(i) \/ BootstrapOwner(i)
        PROVE  Unused' /\ KeysCoverMembers'
    BY <1>1, <2>1 DEF RegisterIdentity, BootstrapOwner
  <2>2. ASSUME NEW k \in SystemKeys, RegisterSystemIdentity(k)
        PROVE  Unused' /\ KeysCoverMembers'
    BY <1>1, <2>2 DEF RegisterSystemIdentity
  <2>3. ASSUME NEW a \in People, NEW t \in People, NEW new \in Roles, GrantRole(a, t, new)
        PROVE  Unused' /\ KeysCoverMembers'
    BY <1>1, <2>3 DEF GrantRole
  <2> QED BY <1>2, <1>10, <2>1, <2>2, <2>3 DEF IdentityStep
<1>11. CASE ChannelStep
  BY <1>3, <1>4, <1>6, <1>7, <1>8, <1>9, <1>11 DEF ChannelStep
<1>12. CASE MessageStep
  BY <1>1, <1>12 DEF MessageStep, PostMessage, Ack
<1>13. CASE UNCHANGED vars
  BY <1>1, <1>13 DEF vars
<1> QED BY <1>10, <1>11, <1>12, <1>13 DEF Next

\* Operations on channels leave identities, messages and cursors alone.
LEMMA ChannelFrame == ChannelStep => UNCHANGED <<role, revoked, messages, acked>>
<1> DEFINE Stay == UNCHANGED <<role, revoked, messages, acked>>
<1> USE DEF idVars, msgVars
<1>1. \A a, c, listed, listedAdmins, encrypt : CreateChannel(a, c, listed, listedAdmins, encrypt) => Stay
  BY DEF CreateChannel
<1>2. \A a, c, t, asAdmin : AddMember(a, c, t, asAdmin) => Stay
  BY DEF AddMember
<1>3. \A a, c, t : RemoveMember(a, c, t) \/ SetChannelRole(a, c, t) => Stay
  BY DEF RemoveMember, SetChannelRole
<1>4. \A a, c : Leave(a, c) \/ RotateChannelKey(a, c) => Stay
  BY DEF Leave, RotateChannelKey
<1> HIDE DEF Stay
<1>5. ChannelStep => Stay
  BY <1>1, <1>2, <1>3, <1>4 DEF ChannelStep
<1> QED BY <1>5 DEF Stay

\* Roles and revocations: the first owner comes before everything, and from then
\* on one is always left.
LEMMA RoleStep == TypeOK /\ SystemObserves /\ OwnerFirst /\ [Next]_vars
                     => /\ SystemObserves' /\ OwnerFirst'
                        /\ ActiveOwner => ActiveOwner'
                        /\ revoked \cap People \subseteq revoked'
<1> SUFFICES ASSUME TypeOK, SystemObserves, OwnerFirst, [Next]_vars
             PROVE  /\ SystemObserves' /\ OwnerFirst'
                    /\ ActiveOwner => ActiveOwner'
                    /\ revoked \cap People \subseteq revoked'
    OBVIOUS
<1> DEFINE Kept == /\ SystemObserves' /\ OwnerFirst'
                   /\ ActiveOwner => ActiveOwner'
                   /\ revoked \cap People \subseteq revoked'
<1> USE ChannelsAssumption DEF idVars, Identities, Roles, Unknown, Observer, Worker,
        Supervisor, Controller, Owner
<1>1. CASE UNCHANGED <<role, revoked>>
  BY <1>1 DEF SystemObserves, OwnerFirst, ActiveOwner, Active
<1>2. ASSUME NEW i \in People, RegisterIdentity(i) PROVE Kept
  <2>1. /\ role[i] = Unknown /\ role'[i] = Worker /\ UNCHANGED revoked
        /\ \A j \in Identities \ {i} : role'[j] = role[j]
    BY <1>2 DEF RegisterIdentity, TypeOK
  <2>2. ActiveOwner => ActiveOwner'
    BY <2>1 DEF ActiveOwner, Active
  <2>3. SystemObserves'
    BY <2>1 DEF SystemObserves
  <2> QED BY <2>1, <2>2, <2>3 DEF OwnerFirst
<1>3. ASSUME NEW i \in People, BootstrapOwner(i) PROVE Kept
  <2>1. /\ role'[i] = Owner /\ revoked' = revoked \ {i}
        /\ \A j \in Identities : role[j] # Owner
        /\ \A j \in Identities \ {i} : role'[j] = role[j]
    BY <1>3 DEF BootstrapOwner, TypeOK
  <2>2. ~ActiveOwner /\ ActiveOwner'
    BY <2>1 DEF ActiveOwner, Active
  <2>3. SystemObserves'
    BY <2>1 DEF SystemObserves
  <2>4. revoked \cap People = {}
    BY <2>2 DEF OwnerFirst
  <2> QED BY <2>2, <2>3, <2>4 DEF OwnerFirst
<1>4. ASSUME NEW k \in SystemKeys, RegisterSystemIdentity(k) PROVE Kept
  <2>1. /\ role'[k] = Observer /\ k \notin People
        /\ \A j \in Identities \ {k} : role'[j] = role[j]
        /\ \A p \in People : p \in revoked' <=> p \in revoked
    BY <1>4 DEF RegisterSystemIdentity, TypeOK
  <2>2. SystemObserves'
    BY <2>1 DEF SystemObserves
  <2>3. ActiveOwner => ActiveOwner'
    BY <2>1 DEF ActiveOwner, Active, SystemObserves
  <2>4. OwnerFirst'
    BY <2>1, <2>3 DEF OwnerFirst
  <2> QED BY <2>1, <2>2, <2>3, <2>4
<1>5. ASSUME NEW a \in People, NEW t \in People, NEW new \in Roles, GrantRole(a, t, new)
      PROVE  Kept
  <2>1. /\ role'[t] = new /\ UNCHANGED revoked
        /\ \A j \in Identities \ {t} : role'[j] = role[j]
        /\ role[a] \in Int /\ role[a] >= Controller /\ t \notin revoked
        /\ role[t] = Owner /\ new # Owner => OtherActiveOwners(t) # {}
    BY <1>5 DEF GrantRole, MayActOn, Signs, Active, TypeOK
  <2>2. ActiveOwner'
    <3>1. PICK j \in Identities : Active(j) /\ role[j] = Owner
      BY <2>1 DEF OwnerFirst, ActiveOwner
    <3>2. CASE j # t \/ new = Owner
      BY <2>1, <3>1, <3>2 DEF ActiveOwner, Active
    <3>3. CASE j = t /\ new # Owner
      BY <2>1, <3>1, <3>3 DEF ActiveOwner, Active, OtherActiveOwners
    <3> QED BY <3>2, <3>3
  <2>3. SystemObserves'
    BY <2>1 DEF SystemObserves
  <2> QED BY <2>1, <2>2, <2>3 DEF OwnerFirst
<1>6. ASSUME NEW a \in People, NEW t \in People, RevokeIdentity(a, t) PROVE Kept
  <2>1. /\ revoked' = revoked \cup {t} /\ UNCHANGED role
        /\ role[a] \in Int /\ role[a] >= Controller
        /\ role[t] = Owner => OtherActiveOwners(t) # {}
    BY <1>6 DEF RevokeIdentity, MayActOn, Signs, Active, TypeOK
  <2>2. ActiveOwner'
    <3>1. PICK j \in Identities : Active(j) /\ role[j] = Owner
      BY <2>1 DEF OwnerFirst, ActiveOwner
    <3>2. CASE j # t
      BY <2>1, <3>1, <3>2 DEF ActiveOwner, Active
    <3>3. CASE j = t
      BY <2>1, <3>1, <3>3 DEF ActiveOwner, Active, OtherActiveOwners
    <3> QED BY <3>2, <3>3
  <2>3. SystemObserves'
    BY <2>1 DEF SystemObserves
  <2> QED BY <2>1, <2>2, <2>3 DEF OwnerFirst
<1>7. CASE IdentityStep
  BY <1>2, <1>3, <1>4, <1>5, <1>6, <1>7 DEF IdentityStep
<1>8. CASE ChannelStep
  BY <1>1, <1>8, ChannelFrame
<1>9. CASE MessageStep
  BY <1>1, <1>9 DEF MessageStep, PostMessage, Ack
<1>10. CASE UNCHANGED vars
  BY <1>1, <1>10 DEF vars
<1> QED BY <1>7, <1>8, <1>9, <1>10 DEF Next

\* Only active keys become members, and a person's revocation ends every membership.
LEMMA OutStep == TypeOK /\ RevokedAreOut /\ [Next]_vars => RevokedAreOut'
<1> SUFFICES ASSUME TypeOK, RevokedAreOut, [Next]_vars PROVE RevokedAreOut'
    OBVIOUS
<1> USE ChannelsAssumption DEF idVars, keyVars, msgVars
<1>1. ASSUME \A c \in ChannelIds : \A i \in members'[c] : i \in members[c] \/ i \notin revoked,
             revoked' \cap People \subseteq revoked
      PROVE  RevokedAreOut'
  BY <1>1 DEF RevokedAreOut
<1>2. ASSUME NEW i \in People, RegisterIdentity(i) \/ BootstrapOwner(i) PROVE RevokedAreOut'
  BY <1>1, <1>2 DEF RegisterIdentity, BootstrapOwner
<1>3. ASSUME NEW k \in SystemKeys, RegisterSystemIdentity(k) PROVE RevokedAreOut'
  BY <1>1, <1>3 DEF RegisterSystemIdentity
<1>4. ASSUME NEW a \in People, NEW t \in People, NEW new \in Roles, GrantRole(a, t, new)
      PROVE  RevokedAreOut'
  BY <1>1, <1>4 DEF GrantRole
<1>5. ASSUME NEW a \in People, NEW t \in People, RevokeIdentity(a, t) PROVE RevokedAreOut'
  BY <1>5 DEF RevokeIdentity, RevokedAreOut
<1>6. ASSUME NEW a \in People, NEW c \in ChannelIds, NEW listed \in SUBSET Identities,
             NEW listedAdmins \in SUBSET listed, NEW encrypt \in BOOLEAN,
             CreateChannel(a, c, listed, listedAdmins, encrypt)
      PROVE  RevokedAreOut'
  BY <1>1, <1>6 DEF CreateChannel, TypeOK, Signs, Active
<1>7. ASSUME NEW a \in People, NEW c \in ChannelIds, NEW t \in Identities,
             NEW asAdmin \in BOOLEAN, AddMember(a, c, t, asAdmin)
      PROVE  RevokedAreOut'
  BY <1>1, <1>7 DEF AddMember, TypeOK, Active
<1>8. ASSUME NEW a \in People, NEW c \in ChannelIds, NEW t \in Identities,
             RemoveMember(a, c, t) \/ SetChannelRole(a, c, t)
      PROVE  RevokedAreOut'
  <2>1. members' \in {members, [members EXCEPT ![c] = @ \ {t}]} /\ UNCHANGED revoked
    BY <1>8 DEF RemoveMember, SetChannelRole
  <2> QED BY <2>1 DEF TypeOK, RevokedAreOut
<1>9. ASSUME NEW a \in People, NEW c \in ChannelIds, Leave(a, c) \/ RotateChannelKey(a, c)
      PROVE  RevokedAreOut'
  <2>1. members' \in {members, [members EXCEPT ![c] = @ \ {a}]} /\ UNCHANGED revoked
    BY <1>9 DEF Leave, RotateChannelKey
  <2> QED BY <2>1 DEF TypeOK, RevokedAreOut
<1>10. CASE MessageStep
  BY <1>1, <1>10 DEF MessageStep, PostMessage, Ack
<1>11. CASE UNCHANGED vars
  BY <1>1, <1>11 DEF vars
<1> QED BY <1>2, <1>3, <1>4, <1>5, <1>6, <1>7, <1>8, <1>9, <1>10, <1>11
        DEF Next, IdentityStep, ChannelStep

\* Steps on identities and channels leave the messages and the cursors alone.
LEMMA MessagesStay == IdentityStep \/ ChannelStep => UNCHANGED <<messages, acked>>
<1>1. IdentityStep => UNCHANGED <<messages, acked>>
  BY DEF IdentityStep, RegisterIdentity, BootstrapOwner, RegisterSystemIdentity, GrantRole,
      RevokeIdentity, msgVars
<1>2. ChannelStep => UNCHANGED <<messages, acked>>
  BY ChannelFrame
<1> QED BY <1>1, <1>2

\* Cursors stay within the log, because an ack is clamped.
LEMMA CursorStep == TypeOK /\ CursorsInLog /\ [Next]_vars => CursorsInLog'
<1> SUFFICES ASSUME TypeOK, CursorsInLog, [Next]_vars PROVE CursorsInLog'
    OBVIOUS
<1>1. CASE UNCHANGED <<messages, acked>>
  BY <1>1 DEF CursorsInLog
<1>2. CASE IdentityStep \/ ChannelStep \/ UNCHANGED vars
  BY <1>1, <1>2, MessagesStay DEF vars
<1>3. ASSUME NEW a \in People, NEW c \in ChannelIds, NEW id \in MessageIds, NEW e \in Epochs,
             PostMessage(a, c, id, e)
      PROVE  CursorsInLog'
  <2>1. Len(messages') = Len(messages) + 1 /\ UNCHANGED acked /\ Len(messages) \in Nat
    BY <1>3 DEF PostMessage, TypeOK
  <2> QED BY <2>1 DEF CursorsInLog, TypeOK
<1>4. ASSUME NEW r \in People, NEW c \in ChannelIds, NEW seq \in Nat, Ack(r, c, seq)
      PROVE  CursorsInLog'
  <2>1. PICK head \in 0 .. Len(messages) :
           acked' = [acked EXCEPT ![r][c] = Greatest(@, Clamped(seq, head))]
    BY <1>4 DEF Ack
  <2>2. Len(messages) \in Nat /\ UNCHANGED messages
    BY <1>4 DEF Ack, TypeOK
  <2>3. acked[r][c] \in Nat /\ acked[r][c] <= Len(messages) /\ r \in Identities
    BY DEF TypeOK, CursorsInLog, Identities
  <2>4. Greatest(acked[r][c], Clamped(seq, head)) <= Len(messages)
    BY <2>2, <2>3 DEF Greatest, Clamped, Least
  <2> QED BY <2>1, <2>2, <2>3, <2>4 DEF CursorsInLog, TypeOK
<1>5. 0 .. Cardinality(MessageIds) \subseteq Nat
  OBVIOUS
<1> QED BY <1>2, <1>3, <1>4, <1>5 DEF Next, MessageStep

\* Invariance of the inductive invariant.
LEMMA ChannelInvariant == Spec => []ChannelInv
<1>1. Init => ChannelInv
  <2> SUFFICES ASSUME Init PROVE ChannelInv
    OBVIOUS
  <2> USE ChannelsAssumption DEF Identities, Roles, Unknown, Observer, Worker, Supervisor,
          Controller, Owner
  <2>1. TypeOK
    BY DEF Init, TypeOK, Epochs
  <2>2. Unused /\ RevokedAreOut
    BY DEF Init, Unused, RevokedAreOut
  <2>3. KeysCoverMembers
    BY DEF Init, KeysCoverMembers, Encrypted
  <2>4. SystemObserves /\ OwnerFirst
    BY DEF Init, SystemObserves, OwnerFirst
  <2>5. CursorsInLog
    BY DEF Init, CursorsInLog
  <2> QED BY <2>1, <2>2, <2>3, <2>4, <2>5 DEF ChannelInv
<1>2. ChannelInv /\ [Next]_vars => ChannelInv'
  BY TypeStep, KeyStep, RoleStep, OutStep, CursorStep DEF ChannelInv
<1> QED BY <1>1, <1>2, PTL DEF Spec

\* In an encrypted channel every member holds the current key, and nobody else
\* does unless a rotation is pending (channels.rs, revoke_identity).
THEOREM KeyCover == Spec => []KeysCoverMembers
<1>1. ChannelInv => KeysCoverMembers
  BY DEF ChannelInv
<1> QED BY <1>1, ChannelInvariant, PTL

\* No revoked person is a member of any channel (revoke_identity, add_member).
THEOREM RevokedOut == Spec => []RevokedAreOut
<1>1. ChannelInv => RevokedAreOut
  BY DEF ChannelInv
<1> QED BY <1>1, ChannelInvariant, PTL

\* The last active owner can be neither demoted nor revoked (grant_role,
\* revoke_identity, register_system_identity).
THEOREM OwnerStays == Spec => OwnerRemains
<1>1. ChannelInv /\ [Next]_vars => [ActiveOwner => ActiveOwner']_vars
  BY RoleStep DEF ChannelInv
<1>2. [ActiveOwner => ActiveOwner']_vars =>
         [(\E i \in Identities : Active(i) /\ role[i] = Owner) =>
             (\E i \in Identities : Active(i) /\ role[i] = Owner)']_vars
  BY DEF ActiveOwner
<1> QED BY <1>1, <1>2, ChannelInvariant, PTL DEF Spec, OwnerRemains

\* Nothing lifts a person's revocation, bootstrap_owner included.
THEOREM RevokedForever == Spec => RevocationIsFinal
<1>1. ChannelInv /\ [Next]_vars => [revoked \cap People \subseteq revoked']_vars
  BY RoleStep DEF ChannelInv
<1> QED BY <1>1, ChannelInvariant, PTL DEF Spec, RevocationIsFinal

\* A message posted in an encrypted channel opens for exactly its members of that
\* moment (post_message).
THEOREM PostConfidential == Spec => PostedForMembersOnly
<1> DEFINE Sealed == \A n \in DOMAIN messages' \ DOMAIN messages :
                        LET c == messages'[n].channel
                        IN  Encrypted(c) => holders'[c][messages'[n].epoch] = members'[c]
<1>1. ChannelInv /\ [Next]_vars => [Sealed]_vars
  <2> SUFFICES ASSUME ChannelInv, Next PROVE Sealed
    OBVIOUS
  <2>1. CASE UNCHANGED messages
    BY <2>1
  <2>2. ASSUME NEW a \in People, NEW c \in ChannelIds, NEW id \in MessageIds, NEW e \in Epochs,
               PostMessage(a, c, id, e)
        PROVE  Sealed
    <3>1. /\ messages \in Seq(Message) /\ UNCHANGED <<members, holders>>
          /\ messages' = Append(messages, [id |-> id, channel |-> c, sender |-> a, epoch |-> e])
          /\ Encrypted(c) => holders[c][e] = members[c]
      BY <2>2 DEF PostMessage, keyVars, ChannelInv, TypeOK, KeysCoverMembers
    <3>2. SUFFICES ASSUME NEW n \in DOMAIN messages' \ DOMAIN messages
                   PROVE  messages'[n].channel = c /\ messages'[n].epoch = e
      BY <3>1
    <3>3. n = Len(messages) + 1
      BY <3>1, <3>2
    <3> QED BY <3>1, <3>3
  <2>3. CASE IdentityStep \/ ChannelStep
    BY <2>1, <2>3, MessagesStay
  <2>4. ASSUME NEW r \in People, NEW c \in ChannelIds, NEW seq, Ack(r, c, seq) PROVE Sealed
    BY <2>1, <2>4 DEF Ack
  <2> QED BY <2>2, <2>3, <2>4 DEF Next, MessageStep
<1> QED BY <1>1, ChannelInvariant, PTL DEF Spec, PostedForMembersOnly

\* No cursor hides a message posted later: ack clamps to the channel's head, and
\* the seq of a new message is above every cursor.
THEOREM EveryInbox == Spec => PostReachesEveryInbox
<1> DEFINE Reaches == \A n \in DOMAIN messages' \ DOMAIN messages :
                         \A r \in members'[messages'[n].channel] \ {messages'[n].sender} :
                            n \in Inbox(r)'
<1>1. ChannelInv /\ [Next]_vars => [Reaches]_vars
  <2> SUFFICES ASSUME ChannelInv, Next PROVE Reaches
    OBVIOUS
  <2>1. CASE UNCHANGED messages
    BY <2>1
  <2>2. ASSUME NEW a \in People, NEW c \in ChannelIds, NEW id \in MessageIds, NEW e \in Epochs,
               PostMessage(a, c, id, e)
        PROVE  Reaches
    <3>1. /\ messages \in Seq(Message) /\ UNCHANGED <<members, acked>>
          /\ messages' = Append(messages, [id |-> id, channel |-> c, sender |-> a, epoch |-> e])
          /\ members[c] \subseteq Identities
          /\ acked \in [Identities -> [ChannelIds -> Nat]]
          /\ \A r \in Identities : acked[r][c] <= Len(messages)
      BY <2>2 DEF PostMessage, ChannelInv, TypeOK, CursorsInLog
    <3>2. SUFFICES ASSUME NEW n \in DOMAIN messages' \ DOMAIN messages,
                          NEW r \in members'[messages'[n].channel] \ {messages'[n].sender}
                   PROVE  n \in Inbox(r)'
      OBVIOUS
    <3>3. n = Len(messages) + 1
      BY <3>1, <3>2
    <3>4. messages'[n].channel = c /\ messages'[n].sender = a
      BY <3>1, <3>3
    <3>5. n > acked'[r][c]
      BY <3>1, <3>2, <3>3, <3>4
    <3> QED BY <3>1, <3>2, <3>4, <3>5 DEF Inbox
  <2>3. CASE IdentityStep \/ ChannelStep
    BY <2>1, <2>3, MessagesStay
  <2>4. ASSUME NEW r \in People, NEW c \in ChannelIds, NEW seq, Ack(r, c, seq) PROVE Reaches
    BY <2>1, <2>4 DEF Ack
  <2> QED BY <2>2, <2>3, <2>4 DEF Next, MessageStep
<1> QED BY <1>1, ChannelInvariant, PTL DEF Spec, PostReachesEveryInbox
=============================================================================
