--------------------------- MODULE CardBoardProofs ---------------------------
(***************************************************************************)
(* The board and the reconciler, for every set of agents, cards, tasks,       *)
(* leases, sprints and settings.  The claims: a completed pass has tried every *)
(* claim that was due, from an invariant that follows each of them from the    *)
(* snapshot through the plan to its mark.  The cards: the four state           *)
(* invariants of CardBoard are inductive together under all four paths that    *)
(* write a card, the reconciler's among them, and the two action properties     *)
(* follow from the typing and the shape of the moves.                          *)
(***************************************************************************)
EXTENDS Reconciler, FiniteSetTheorems, TLAPS

(* The plan of a pass.                                                      *)

\* The image of a finite set is finite.
LEMMA FiniteImage ==
    ASSUME NEW S, IsFiniteSet(S), NEW f, DOMAIN f = S
    PROVE  IsFiniteSet({f[x] : x \in S})
  <1> DEFINE T == {f[x] : x \in S}
             g == [x \in S |-> f[x]]
  <1>1. g \in [S -> T] /\ \A t \in T : \E x \in S : g[x] = t
    OBVIOUS
  <1> HIDE DEF T, g
  <1>2. g \in Surjection(S, T)
    BY <1>1 DEF Surjection
  <1> QED BY <1>2, FS_Surjection DEF T

\* The place of an action: its rule and its order within the rule.
Place == Nat \X Nat \X Nat \X Nat

LEMMA EarlierParts ==
    ASSUME NEW p \in Place, NEW q \in Place
    PROVE  Earlier(p, q) <=> \/ p[1] < q[1]
                             \/ p[1] = q[1] /\ p[2] < q[2]
                             \/ p[1] = q[1] /\ p[2] = q[2] /\ p[3] < q[3]
                             \/ p[1] = q[1] /\ p[2] = q[2] /\ p[3] = q[3] /\ p[4] < q[4]
  <1> DEFINE At(k) == p[k] < q[k] /\ \A l \in 1..(k - 1) : p[l] = q[l]
  <1>1. Earlier(p, q) <=> At(1) \/ At(2) \/ At(3) \/ At(4)
    <2>1. 1..4 = {1, 2, 3, 4}
      OBVIOUS
    <2> QED BY <2>1, Zenon DEF Earlier
  <1>2. 1..(1 - 1) = {} /\ 1..(2 - 1) = {1} /\ 1..(3 - 1) = {1, 2} /\ 1..(4 - 1) = {1, 2, 3}
    OBVIOUS
  <1>3. At(1) <=> p[1] < q[1]
    BY <1>2
  <1>4. At(2) <=> p[1] = q[1] /\ p[2] < q[2]
    BY <1>2
  <1>5. At(3) <=> p[1] = q[1] /\ p[2] = q[2] /\ p[3] < q[3]
    BY <1>2
  <1>6. At(4) <=> p[1] = q[1] /\ p[2] = q[2] /\ p[3] = q[3] /\ p[4] < q[4]
    BY <1>2
  <1> HIDE DEF At
  <1> QED BY <1>1, <1>3, <1>4, <1>5, <1>6

\* The order of the places is a strict total order.
LEMMA EarlierIsTotal ==
    ASSUME NEW p \in Place, NEW q \in Place, NEW r \in Place
    PROVE  /\ ~Earlier(p, p)
           /\ Earlier(p, q) /\ Earlier(q, r) => Earlier(p, r)
           /\ p = q \/ Earlier(p, q) \/ Earlier(q, p)
  <1>1. /\ p = <<p[1], p[2], p[3], p[4]>> /\ q = <<q[1], q[2], q[3], q[4]>>
        /\ p[1] \in Nat /\ p[2] \in Nat /\ p[3] \in Nat /\ p[4] \in Nat
        /\ q[1] \in Nat /\ q[2] \in Nat /\ q[3] \in Nat /\ q[4] \in Nat
        /\ r[1] \in Nat /\ r[2] \in Nat /\ r[3] \in Nat /\ r[4] \in Nat
    BY DEF Place
  <1>2. ~Earlier(p, p)
    BY <1>1, EarlierParts
  <1>3. Earlier(p, q) /\ Earlier(q, r) => Earlier(p, r)
    BY <1>1, EarlierParts
  <1>4. p = q \/ Earlier(p, q) \/ Earlier(q, p)
    BY <1>1, EarlierParts
  <1> QED BY <1>2, <1>3, <1>4

\* An action whose place no other has is in the sequence made of the set.
LEMMA InPlaceHolds ==
    ASSUME NEW S, IsFiniteSet(S), \A b \in S : b.place \in Place,
           NEW x \in S, \A y \in S : y.place = x.place => y = x
    PROVE  \E i \in 1..Cardinality(S) : InPlace(S)[i] = x
  <1> DEFINE Under(y) == {b \in S : Earlier(b.place, y.place)}
             i == Cardinality(Under(x)) + 1
  <1>1. ASSUME NEW y \in S, NEW z \in S, Earlier(y.place, z.place)
        PROVE  Cardinality(Under(y)) # Cardinality(Under(z))
    <2>1. y.place \in Place /\ z.place \in Place
      OBVIOUS
    <2>2. Under(y) \subseteq Under(z)
      BY <1>1, <2>1, EarlierIsTotal
    <2>3. y \in Under(z) /\ y \notin Under(y)
      BY <1>1, <2>1, EarlierIsTotal
    <2>4. IsFiniteSet(Under(z))
      BY FS_Subset
    <2> HIDE DEF Under
    <2> QED BY <2>2, <2>3, <2>4, FS_Subset
  <1>2. ASSUME NEW y \in S, Cardinality(Under(y)) = Cardinality(Under(x))
        PROVE  y = x
    <2>1. y.place = x.place \/ Earlier(y.place, x.place) \/ Earlier(x.place, y.place)
      BY EarlierIsTotal
    <2> HIDE DEF Under
    <2> QED BY <1>1, <1>2, <2>1
  <1>3. i \in 1..Cardinality(S)
    <2>1. Under(x) \subseteq S /\ x \notin Under(x)
      BY EarlierIsTotal
    <2> HIDE DEF Under
    <2>2. /\ IsFiniteSet(Under(x)) /\ Cardinality(Under(x)) <= Cardinality(S)
          /\ Cardinality(Under(x)) # Cardinality(S)
      BY <2>1, FS_Subset
    <2>3. Cardinality(Under(x)) \in Nat /\ Cardinality(S) \in Nat
      BY <2>2, FS_CardinalityType
    <2> QED BY <2>2, <2>3
  <1>4. Cardinality(Under(x)) = i - 1
    <2>1. IsFiniteSet(Under(x))
      BY FS_Subset
    <2> HIDE DEF Under
    <2>2. Cardinality(Under(x)) \in Nat
      BY <2>1, FS_CardinalityType
    <2> QED BY <2>2
  <1>5. InPlace(S)[i] = CHOOSE y \in S : Cardinality(Under(y)) = i - 1
    BY <1>3 DEF InPlace
  <1> HIDE DEF Under, i
  <1>6. InPlace(S)[i] \in S /\ Cardinality(Under(InPlace(S)[i])) = i - 1
    BY <1>4, <1>5
  <1> QED BY <1>2, <1>3, <1>4, <1>6

\* The action that expires a task's claim.
ClaimAct(t) ==
    Act(<<2, task[t].claimed, t, 0>>, "claim", <<"claim", t, task[t].claimed>>, t,
        task[t].agent, task[t].claimed)

\* Every action asked for has a place, and the second rule asks for claims alone.
LEMMA AskedPlaces ==
    ASSUME task \in [Tasks -> TaskClaim], sprints \subseteq Sprints,
           NEW at, NEW reading, NEW act \in Asked(at, reading)
    PROVE  /\ act.place \in Place
           /\ act.place[1] = 2 => \E t \in Tasks : act = ClaimAct(t)
  <1> USE BoardAssumption, ReconcilerAssumption DEF Act, Place
  <1>1. CASE act \in ExpireLeases(at)
    BY <1>1 DEF ExpireLeases
  <1>2. CASE act \in ExpireClaims(at)
    <2>1. PICK t \in Tasks : act = ClaimAct(t)
      BY <1>2 DEF ExpireClaims, DueClaims, ClaimAct
    <2>2. task[t].claimed \in Nat
      BY DEF TaskClaim
    <2> QED BY <2>1, <2>2 DEF ClaimAct
  <1>3. CASE act \in CloseQuietWindows(at)
    BY <1>3 DEF CloseQuietWindows
  <1>4. CASE act \in StaleCards(at)
    <2>1. PICK c \in Cards : act \in StaleCard(c, at)
      BY <1>4 DEF StaleCards
    <2> QED BY <2>1 DEF StaleCard, When
  <1>5. CASE act \in WipLimits(at)
    BY <1>5 DEF WipLimits, When
  <1>6. CASE act \in MachineFloors(at, reading)
    BY <1>6 DEF MachineFloors, When
  <1>7. CASE act \in SprintRollovers(at)
    <2>1. PICK p \in Sprints \X Supervisors :
                act = Act(<<7, p[1], p[2], 0>>, "notice", <<"sprint", p[1], p[2]>>, p[1], p[2], 0)
      BY <1>7 DEF SprintRollovers
    <2>2. p[1] \in Nat /\ p[2] \in Nat
      OBVIOUS
    <2> QED BY <2>1, <2>2
  <1> QED BY <1>1, <1>2, <1>3, <1>4, <1>5, <1>6, <1>7 DEF Asked

\* A pass asks for finitely many actions.
LEMMA AskedIsFinite ==
    ASSUME sprints \subseteq Sprints, NEW at, NEW reading
    PROVE  IsFiniteSet(Asked(at, reading))
  <1> USE BoardAssumption, ReconcilerAssumption
  <1>0. /\ IsFiniteSet(Supervisors \ revoked) /\ IsFiniteSet(sprints)
        /\ \A S \in SUBSET Leases : IsFiniteSet(S)
        /\ \A S \in SUBSET Tasks : IsFiniteSet(S)
        /\ \A S \in SUBSET Cards : IsFiniteSet(S)
    BY FS_Subset
  <1>1. IsFiniteSet(ExpireLeases(at))
    <2> DEFINE S == {l \in Leases : lease[l].state = "open" /\ lease[l].kind = "path"
                                      /\ lease[l].due <= at}
               f == [l \in S |-> Act(<<1, l, 0, 0>>, "expire", <<"expire", l, lease[l].due>>, l,
                                     NoOne, 0)]
    <2>1. S \in SUBSET Leases /\ DOMAIN f = S
      OBVIOUS
    <2>2. ExpireLeases(at) = {f[l] : l \in S}
      BY DEF ExpireLeases
    <2> HIDE DEF S, f
    <2>3. IsFiniteSet(S)
      BY <1>0, <2>1
    <2>4. IsFiniteSet({f[l] : l \in S})
      BY <2>1, <2>3, FiniteImage
    <2> QED BY <2>2, <2>4
  <1>2. IsFiniteSet(ExpireClaims(at))
    <2> DEFINE f == [t \in Tasks |-> ClaimAct(t)]
    <2>1. DOMAIN f = Tasks
      OBVIOUS
    <2>2. ExpireClaims(at) \in SUBSET {f[t] : t \in Tasks}
      BY DEF ExpireClaims, DueClaims, ClaimAct
    <2> HIDE DEF f
    <2>3. IsFiniteSet({f[t] : t \in Tasks})
      BY <2>1, FiniteImage
    <2> QED BY <2>2, <2>3, FS_Subset
  <1>3. IsFiniteSet(CloseQuietWindows(at))
    <2> DEFINE S == {l \in Leases : lease[l].state = "open" /\ lease[l].kind = "quiet"
                                      /\ lease[l].due + QuietMax <= at}
               f == [l \in S |-> Act(<<3, l, 0, 0>>, "quiet", <<"quiet", l, lease[l].due>>, l,
                                     NoOne, 0)]
    <2>1. S \in SUBSET Leases /\ DOMAIN f = S
      OBVIOUS
    <2>2. CloseQuietWindows(at) = {f[l] : l \in S}
      BY DEF CloseQuietWindows
    <2> HIDE DEF S, f
    <2>3. IsFiniteSet(S)
      BY <1>0, <2>1
    <2>4. IsFiniteSet({f[l] : l \in S})
      BY <2>1, <2>3, FiniteImage
    <2> QED BY <2>2, <2>4
  <1>4. IsFiniteSet(StaleCards(at))
    <2>1. ASSUME NEW c \in Cards PROVE IsFiniteSet(StaleCard(c, at))
      <3> DEFINE f == [a \in Supervisors \ revoked |->
                         Act(<<4, c, 2, a>>, "notice", <<"stale2", c, card[c].updated, a>>, c, a, 0)]
                 one == Act(<<4, c, 1, 0>>, "notice", <<"stale1", c, card[c].updated>>, c,
                            card[c].owner, 0)
                 three == Act(<<4, c, 3, 0>>, "notice", <<"stale3", c, card[c].updated>>, c,
                              card[c].owner, 0)
                 four == Act(<<4, c, 4, 0>>, "reclaim", <<"reclaim", c, card[c].updated>>, c,
                             card[c].owner, card[c].updated)
      <3>1. DOMAIN f = Supervisors \ revoked
        OBVIOUS
      <3>2. StaleCard(c, at) \subseteq {f[a] : a \in Supervisors \ revoked} \cup {one, three, four}
        BY DEF StaleCard, When
      <3> HIDE DEF f, one, three, four
      <3>3. IsFiniteSet({f[a] : a \in Supervisors \ revoked})
        BY <1>0, <3>1, FiniteImage
      <3>4. IsFiniteSet({one, three, four})
        <4>1. IsFiniteSet({one}) /\ IsFiniteSet({three}) /\ IsFiniteSet({four})
          BY FS_Singleton
        <4>2. IsFiniteSet({one} \cup {three} \cup {four})
          BY <4>1, FS_Union
        <4>3. {one, three, four} = {one} \cup {three} \cup {four}
          OBVIOUS
        <4> QED BY <4>2, <4>3
      <3>5. IsFiniteSet({f[a] : a \in Supervisors \ revoked} \cup {one, three, four})
        BY <3>3, <3>4, FS_Union
      <3> QED BY <3>2, <3>5, FS_Subset
    <2> DEFINE D == {c \in Cards : card[c].state \in InProgress /\ card[c].owner # NoOne}
               g == [c \in D |-> StaleCard(c, at)]
    <2>2. D \in SUBSET Cards /\ DOMAIN g = D /\ \A c \in D : g[c] = StaleCard(c, at)
      OBVIOUS
    <2>3. StaleCards(at) = UNION {g[c] : c \in D}
      BY <2>2 DEF StaleCards
    <2> HIDE DEF D, g
    <2>4. IsFiniteSet({g[c] : c \in D})
      <3>1. IsFiniteSet(D)
        BY <1>0, <2>2
      <3>2. DOMAIN g = D
        BY <2>2
      <3> QED BY <3>1, <3>2, FiniteImage
    <2>5. \A T \in {g[c] : c \in D} : IsFiniteSet(T)
      BY <2>1, <2>2
    <2> QED BY <2>3, <2>4, <2>5, FS_UNION
  <1>5. IsFiniteSet(WipLimits(at))
    <2> DEFINE n == Cardinality(Working)
               f == [a \in Supervisors \ revoked |->
                       Act(<<5, a, 0, 0>>, "notice", <<"wip", n, at \div Bucket, a>>, n, a, 0)]
    <2>1. DOMAIN f = Supervisors \ revoked
      OBVIOUS
    <2>2. WipLimits(at) \in SUBSET {f[a] : a \in Supervisors \ revoked}
      BY DEF WipLimits, When
    <2> HIDE DEF f
    <2>3. IsFiniteSet({f[a] : a \in Supervisors \ revoked})
      BY <1>0, <2>1, FiniteImage
    <2> QED BY <2>2, <2>3, FS_Subset
  <1>6. IsFiniteSet(MachineFloors(at, reading))
    <2>1. ASSUME NEW cond, NEW act PROVE IsFiniteSet(When(cond, {act}))
      BY FS_Singleton, FS_EmptySet DEF When
    <2> QED BY <2>1, FS_Union DEF MachineFloors
  <1>7. IsFiniteSet(SprintRollovers(at))
    <2> DEFINE D == {s \in sprints : s <= at}
               P == D \X (Supervisors \ revoked)
               f == [p \in P |-> Act(<<7, p[1], p[2], 0>>, "notice", <<"sprint", p[1], p[2]>>,
                                     p[1], p[2], 0)]
    <2>1. D \in SUBSET sprints /\ DOMAIN f = P
      OBVIOUS
    <2>2. SprintRollovers(at) = {f[p] : p \in P}
      BY DEF SprintRollovers
    <2> HIDE DEF D, f
    <2>3. IsFiniteSet(P)
      BY <1>0, <2>1, FS_Subset, FS_Product
    <2> HIDE DEF P
    <2> QED BY <2>1, <2>2, <2>3, FiniteImage
  <1> DEFINE U == ExpireLeases(at) \cup ExpireClaims(at) \cup CloseQuietWindows(at)
                    \cup StaleCards(at) \cup WipLimits(at) \cup MachineFloors(at, reading)
                    \cup SprintRollovers(at)
  <1>8. IsFiniteSet(U)
    BY <1>1, <1>2, <1>3, <1>4, <1>5, <1>6, <1>7, FS_Union
  <1>9. Asked(at, reading) \in SUBSET U
    BY DEF Asked
  <1> HIDE DEF U
  <1> QED BY <1>8, <1>9, FS_Subset

\* The whole sequence of what is wanted is a sequence, and a claim that is due is in it
\* unless the pass was cut.
LEMMA DueIsWanted ==
    ASSUME task \in [Tasks -> TaskClaim], sprints \subseteq Sprints, ttl \in Nat,
           NEW at \in Nat, NEW reading,
           Cardinality(DueClaims(at)) <= MaxExpiries,
           NEW t \in DueClaims(at)
    PROVE  \E i \in DOMAIN Wanted(at, reading) :
              Wanted(at, reading)[i].key = <<"claim", t, task[t].claimed>>
  <1> DEFINE A == Asked(at, reading)
             D == DueClaims(at)
             O == {u \in D : \/ task[u].claimed < task[t].claimed
                             \/ task[u].claimed = task[t].claimed /\ u < t}
             x == ClaimAct(t)
  <1>1. t \in Tasks /\ task[t].claimed \in Nat /\ t \in Nat
    BY ReconcilerAssumption DEF DueClaims, TaskClaim
  <1>2. IsFiniteSet(D)
    BY FS_Subset, ReconcilerAssumption DEF DueClaims
  <1>3. Cardinality(O) < MaxExpiries
    <2>1. O \subseteq D /\ t \notin O /\ t \in D
      BY <1>1
    <2> HIDE DEF O
    <2>2. IsFiniteSet(O) /\ Cardinality(O) <= Cardinality(D) /\ Cardinality(O) # Cardinality(D)
      BY <1>2, <2>1, FS_Subset
    <2>3. Cardinality(O) \in Nat /\ Cardinality(D) \in Nat /\ MaxExpiries \in Nat
      BY <1>2, <2>2, FS_CardinalityType, ReconcilerAssumption
    <2>4. Cardinality(D) <= MaxExpiries
      OBVIOUS
    <2> HIDE DEF D
    <2> QED BY <2>2, <2>3, <2>4
  <1>4. x \in ExpireClaims(at)
    BY <1>3 DEF ExpireClaims, ClaimAct
  <1>5. x.key = <<"claim", t, task[t].claimed>> /\ x.place = <<2, task[t].claimed, t, 0>>
    BY DEF ClaimAct, Act
  <1>6. x \in A
    BY <1>4, <1>5 DEF Asked, DueClaims
  <1>7. \A b \in A : b.place \in Place
    BY AskedPlaces
  <1>8. ASSUME NEW y \in A, y.place = x.place PROVE y = x
    <2>1. y.place[1] = 2
      BY <1>5, <1>8
    <2>2. PICK u \in Tasks : y = ClaimAct(u)
      BY <2>1, AskedPlaces
    <2>3. y.place = <<2, task[u].claimed, u, 0>>
      BY <2>2 DEF ClaimAct, Act
    <2>4. u = t
      BY <1>5, <1>8, <2>3
    <2> QED BY <2>2, <2>4
  <1>9. IsFiniteSet(A)
    BY AskedIsFinite
  <1> HIDE DEF A, x
  <1>10. PICK i \in 1..Cardinality(A) : InPlace(A)[i] = x
    BY <1>6, <1>7, <1>8, <1>9, InPlaceHolds
  <1>11. Wanted(at, reading) = InPlace(A) /\ DOMAIN InPlace(A) = 1..Cardinality(A)
    BY DEF A, Wanted, InPlace
  <1> QED BY <1>5, <1>10, <1>11

\* A finite set of actions becomes a sequence.
LEMMA WantedIsASequence ==
    ASSUME sprints \subseteq Sprints, NEW at, NEW reading
    PROVE  \E S : /\ Wanted(at, reading) \in Seq(S)
                  /\ Plan(Wanted(at, reading)) \in Seq(S)
  <1> DEFINE A == Asked(at, reading)
             w == Wanted(at, reading)
             S == {w[i] : i \in 1..Cardinality(A)}
  <1>1. Cardinality(A) \in Nat
    BY AskedIsFinite, FS_CardinalityType
  <1>2. w = [i \in 1..Cardinality(A) |-> w[i]]
    <2> DEFINE n == Cardinality(A)
               e(i) == CHOOSE act \in A : Cardinality({b \in A : Earlier(b.place, act.place)}) = i - 1
    <2>1. w = [i \in 1..n |-> e(i)]
      BY DEF Wanted, InPlace
    <2> HIDE DEF n, e, w
    <2>2. w = [i \in 1..n |-> w[i]]
      BY <2>1
    <2> QED BY <2>2 DEF n
  <1> HIDE DEF w
  <1>3. w \in Seq(S)
    <2> DEFINE n == Cardinality(A)
    <2>1. n \in Nat /\ w = [i \in 1..n |-> w[i]] /\ \A i \in 1..n : w[i] \in S
      BY <1>1, <1>2
    <2> HIDE DEF n, S
    <2> QED BY <2>1
  <1> HIDE DEF S, A
  <1>4. Plan(w) \in Seq(S)
    BY <1>3, ReconcilerAssumption DEF Plan
  <1> QED BY <1>3, <1>4 DEF w

---------------------------------------------------------------------------
(* Passes and clients together.                                             *)

PassRecord(S) ==
    [stage : {"idle", "reading", "applying"}, now : Nat, ttl : Nat,
     floor : {"met", "low", "unknown"}, plan : Seq(S), whole : BOOLEAN]

\* A claim that had outlived the TTL when the pass began was tried or is still ahead.
DueIsTriedOrAhead ==
    (pass.stage = "applying" /\ pass.whole /\ pass.ttl > 0) =>
        \A t \in Tasks : task[t].state = "claimed" /\ task[t].claimed + pass.ttl <= pass.now =>
            \/ <<"claim", t, task[t].claimed>> \in Keys
            \/ \E i \in DOMAIN pass.plan : pass.plan[i].key = <<"claim", t, task[t].claimed>>

\* The inductive invariant of the claims.  A claim made since the pass began is not due.
ClaimsInv ==
    /\ task \in [Tasks -> TaskClaim]
    /\ now \in Nat /\ sprints \subseteq Sprints /\ ttl \in Ttls /\ floor \in {"met", "low"}
    /\ \E S : pass \in PassRecord(S)
    /\ pass.now <= now
    /\ DueIsTriedOrAhead

LEMMA IdleRecord == Idle \in PassRecord({}) /\ Idle.now = 0 /\ Idle.stage = "idle"
  BY DEF Idle, PassRecord

\* Applying an action marks it, takes it off the plan and makes no claim.
LEMMA AppliedKeeps ==
    ASSUME ClaimsInv, NEW kinds, Applying(kinds), NEW extra, Mark(extra),
           \/ UNCHANGED task
           \/ \E u \in Tasks : task' = [task EXCEPT ![u] = Unclaimed]
    PROVE  ClaimsInv'
  <1>1. PICK S : pass \in PassRecord(S)
    BY DEF ClaimsInv
  <1>2. pass.plan \in Seq(S) /\ pass.plan # <<>>
    BY <1>1 DEF PassRecord, Applying
  <1>3. Tail(pass.plan) \in Seq(S)
    BY <1>2
  <1>4. /\ pass' \in PassRecord(S)
        /\ pass'.stage = pass.stage /\ pass'.now = pass.now /\ pass'.ttl = pass.ttl
        /\ pass'.whole = pass.whole /\ pass'.plan = Tail(pass.plan)
    BY <1>1, <1>3 DEF Mark, PassRecord
  <1>5. Keys \cup {Head(pass.plan).key} \subseteq Keys'
    <2>1. marks \subseteq marks'
      BY DEF Mark
    <2>2. [key |-> Head(pass.plan).key, last |-> pass.now] \in marks'
      BY DEF Mark
    <2>3. Keys \subseteq Keys'
      BY <2>1 DEF Keys
    <2>4. Head(pass.plan).key \in Keys'
      BY <2>2 DEF Keys
    <2> QED BY <2>3, <2>4
  <1>6. /\ task' \in [Tasks -> TaskClaim]
        /\ \A t \in Tasks : task'[t].state = "claimed" => task'[t] = task[t]
    <2>1. Unclaimed \in TaskClaim /\ Unclaimed.state # "claimed"
      BY DEF Unclaimed, TaskClaim
    <2>2. task \in [Tasks -> TaskClaim]
      BY DEF ClaimsInv
    <2> QED BY <2>1, <2>2
  <1>7. ASSUME NEW k, \E i \in DOMAIN pass.plan : pass.plan[i].key = k
        PROVE  k \in Keys' \/ \E i \in DOMAIN pass'.plan : pass'.plan[i].key = k
    <2>1. PICK i \in DOMAIN pass.plan : pass.plan[i].key = k
      BY <1>7
    <2>2. CASE i = 1
      BY <1>2, <1>5, <2>1, <2>2
    <2>3. CASE i # 1
      <3>1. i - 1 \in DOMAIN Tail(pass.plan) /\ Tail(pass.plan)[i - 1] = pass.plan[i]
        BY <1>2, <2>1, <2>3
      <3> QED BY <1>4, <2>1, <3>1
    <2> QED BY <2>2, <2>3
  <1>8. DueIsTriedOrAhead'
    <2> SUFFICES ASSUME pass.stage = "applying", pass.whole, pass.ttl > 0, NEW t \in Tasks,
                        task'[t].state = "claimed", task'[t].claimed + pass.ttl <= pass.now
                 PROVE  \/ <<"claim", t, task'[t].claimed>> \in Keys'
                        \/ \E i \in DOMAIN pass'.plan :
                              pass'.plan[i].key = <<"claim", t, task'[t].claimed>>
      BY <1>4 DEF DueIsTriedOrAhead
    <2> DEFINE k == <<"claim", t, task[t].claimed>>
    <2>1. task'[t] = task[t]
      BY <1>6
    <2>2. k \in Keys \/ \E i \in DOMAIN pass.plan : pass.plan[i].key = k
      BY <2>1 DEF ClaimsInv, DueIsTriedOrAhead
    <2> HIDE DEF k
    <2>3. k \in Keys' \/ \E i \in DOMAIN pass'.plan : pass'.plan[i].key = k
      BY <2>2, <1>5, <1>7
    <2> QED BY <2>1, <2>3 DEF k
  <1>9. UNCHANGED <<now, sprints, ttl, floor>>
    BY DEF Mark
  <1> QED BY <1>4, <1>6, <1>8, <1>9 DEF ClaimsInv

\* The snapshot plans every claim that is due, or the pass is not whole.
LEMMA SnapshotKeeps ==
    ASSUME ClaimsInv, NEW r \in {floor, "unknown"}, Snapshot(r)
    PROVE  ClaimsInv'
  <1> DEFINE w == Wanted(pass.now, r)
  <1>1. /\ task \in [Tasks -> TaskClaim] /\ sprints \subseteq Sprints /\ ttl \in Nat
        /\ r \in {"met", "low", "unknown"}
    BY ReconcilerAssumption DEF ClaimsInv
  <1>2. PICK S : pass \in PassRecord(S)
    BY DEF ClaimsInv
  <1>3. pass.now \in Nat
    BY <1>2 DEF PassRecord
  <1>4. PICK T : w \in Seq(T) /\ Plan(w) \in Seq(T)
    BY <1>1, WantedIsASequence
  <1>5. UNCHANGED <<task, now, sprints, ttl, floor, marks>>
    BY DEF Snapshot, boardVars
  <1> DEFINE whole == Len(w) <= MaxActions /\ Cardinality(DueClaims(pass.now)) <= MaxExpiries
  <1>6. pass' = [pass EXCEPT !.stage = "applying", !.ttl = ttl, !.floor = r, !.plan = Plan(w),
                             !.whole = whole]
    BY DEF Snapshot
  <1>7. whole \in BOOLEAN
    OBVIOUS
  <1> HIDE DEF w
  <1>8. /\ pass' \in PassRecord(T) /\ pass'.ttl = ttl /\ pass'.now = pass.now
        /\ pass'.plan = Plan(w) /\ (pass'.whole <=> whole)
    <2> HIDE DEF whole
    <2> QED BY <1>1, <1>2, <1>4, <1>6, <1>7 DEF PassRecord
  <1>9. DueIsTriedOrAhead'
    <2> SUFFICES ASSUME whole, ttl > 0, NEW t \in Tasks, task[t].state = "claimed",
                        task[t].claimed + ttl <= pass.now,
                        <<"claim", t, task[t].claimed>> \notin Keys
                 PROVE  \E i \in DOMAIN Plan(w) : Plan(w)[i].key = <<"claim", t, task[t].claimed>>
      BY <1>5, <1>8 DEF DueIsTriedOrAhead, Keys
    <2>1. t \in DueClaims(pass.now)
      BY DEF DueClaims
    <2>2. Plan(w) = w
      BY <1>4, ReconcilerAssumption DEF Plan
    <2>3. \E i \in DOMAIN w : w[i].key = <<"claim", t, task[t].claimed>>
      BY <1>1, <1>3, <2>1, DueIsWanted DEF w
    <2> QED BY <2>2, <2>3
  <1> QED BY <1>5, <1>8, <1>9 DEF ClaimsInv

\* What leaves the pass and the marks alone and makes only claims of its own time.
LEMMA ClientKeeps ==
    ASSUME ClaimsInv, UNCHANGED <<pass, marks>>, now' \in Nat, now <= now',
           sprints' \subseteq Sprints, ttl' \in Ttls, floor' \in {"met", "low"},
           \/ UNCHANGED task
           \/ \E u \in Tasks, row \in TaskClaim :
                /\ task' = [task EXCEPT ![u] = row]
                /\ row.state = "claimed" => row.claimed = now
    PROVE  ClaimsInv'
  <1>1. PICK S : pass \in PassRecord(S)
    BY DEF ClaimsInv
  <1>2. pass.now \in Nat /\ pass.ttl \in Nat /\ pass.now <= now /\ now \in Nat
    BY <1>1 DEF ClaimsInv, PassRecord
  <1>3. /\ task' \in [Tasks -> TaskClaim]
        /\ \A t \in Tasks : task'[t].state = "claimed" =>
              task'[t] = task[t] \/ task'[t].claimed = now
    BY DEF ClaimsInv
  <1>4. Keys' = Keys
    BY DEF Keys
  <1>5. DueIsTriedOrAhead'
    <2> SUFFICES ASSUME pass.stage = "applying", pass.whole, pass.ttl > 0, NEW t \in Tasks,
                        task'[t].state = "claimed", task'[t].claimed + pass.ttl <= pass.now
                 PROVE  \/ <<"claim", t, task'[t].claimed>> \in Keys
                        \/ \E i \in DOMAIN pass.plan :
                              pass.plan[i].key = <<"claim", t, task'[t].claimed>>
      BY <1>4 DEF DueIsTriedOrAhead
    <2>1. task'[t].claimed # now
      BY <1>2
    <2>2. task'[t] = task[t]
      BY <1>3, <2>1
    <2> QED BY <2>2 DEF ClaimsInv, DueIsTriedOrAhead
  <1>6. pass'.now <= now' /\ pass' \in PassRecord(S)
    BY <1>1, <1>2
  <1> QED BY <1>3, <1>5, <1>6 DEF ClaimsInv

\* Every step keeps the invariant of the claims.
LEMMA ClaimsKeep ==
    ASSUME ClaimsInv, [Next]_vars PROVE ClaimsInv'
  <1>1. CASE UNCHANGED vars
    BY <1>1, ClientKeeps DEF vars, ClaimsInv
  <1>2. CASE PassBegin
    <2>1. pass' = [Idle EXCEPT !.stage = "reading", !.now = now] /\ now \in Nat
      BY <1>2 DEF PassBegin, ClaimsInv
    <2>2. pass' \in PassRecord({}) /\ pass'.stage = "reading" /\ pass'.now = now
      BY <2>1, IdleRecord DEF PassRecord
    <2> QED BY <1>2, <2>2 DEF PassBegin, boardVars, ClaimsInv, DueIsTriedOrAhead
  <1>3. ASSUME NEW r \in {floor, "unknown"}, Snapshot(r) PROVE ClaimsInv'
    BY <1>3, SnapshotKeeps
  <1>4. CASE ApplyExpireClaim
    <2>1. PICK extra : Mark(extra)
      BY <1>4 DEF ApplyExpireClaim
    <2>2. UNCHANGED task \/ \E u \in Tasks : task' = [task EXCEPT ![u] = Unclaimed]
      <3>1. task \in [Tasks -> TaskClaim]
        BY DEF ClaimsInv
      <3>2. ASSUME NEW u, task' = [task EXCEPT ![u] = Unclaimed] PROVE u \in Tasks \/ UNCHANGED task
        BY <3>1, <3>2
      <3> QED BY <1>4, <3>2 DEF ApplyExpireClaim
    <2>3. Applying({"claim"})
      BY <1>4 DEF ApplyExpireClaim
    <2> QED BY <2>1, <2>2, <2>3, AppliedKeeps
  <1>5. CASE ApplyExpireLease \/ ApplyCloseQuiet \/ ApplyNotice \/ ApplyReclaim \/ ApplyBlocker
               \/ ApplyUnblock \/ ApplyAdmission
    <2>1. Mark({}) /\ UNCHANGED task
      BY <1>5 DEF ApplyExpireLease, ApplyCloseQuiet, ApplyNotice, ApplyReclaim, ApplyBlocker,
                  ApplyUnblock, ApplyAdmission
    <2>2. \E kinds : Applying(kinds)
      BY <1>5 DEF ApplyExpireLease, ApplyCloseQuiet, ApplyNotice, ApplyReclaim, ApplyBlocker,
                  ApplyUnblock, ApplyAdmission
    <2> QED BY <2>1, <2>2, AppliedKeeps
  <1>6. CASE ApplyFails
    <2>1. PICK S : pass \in PassRecord(S)
      BY DEF ClaimsInv
    <2>2. Tail(pass.plan) \in Seq(S)
      BY <1>6, <2>1 DEF ApplyFails, PassRecord
    <2>3. pass' \in PassRecord(S) /\ pass'.whole = FALSE /\ pass'.now = pass.now
      BY <1>6, <2>1, <2>2 DEF ApplyFails, PassRecord
    <2> QED BY <1>6, <2>3 DEF ApplyFails, boardVars, ClaimsInv, DueIsTriedOrAhead
  <1>7. CASE PassEnd \/ Restart
    <2>1. pass' \in PassRecord({}) /\ pass'.stage = "idle" /\ pass'.now = 0
      BY <1>7, IdleRecord DEF PassEnd, Restart
    <2>2. UNCHANGED <<task, now, sprints, ttl, floor>>
      BY <1>7 DEF PassEnd, Restart, boardVars
    <2> QED BY <2>1, <2>2 DEF ClaimsInv, DueIsTriedOrAhead
  <1>8. ASSUME NEW t \in Tasks, WorkReclaim(t) \/ RequestRun(t) \/ \E a \in Agents : Claim(a, t)
        PROVE  ClaimsInv'
    <2>1. task \in [Tasks -> TaskClaim] /\ task[t] \in TaskClaim /\ now \in Nat
      BY DEF ClaimsInv
    <2>2. \E row \in TaskClaim : /\ task' = [task EXCEPT ![t] = row]
                                 /\ row.state = "claimed" => row.claimed = now
      <3>1. CASE WorkReclaim(t)
        <4>1. Unclaimed \in TaskClaim /\ Unclaimed.state # "claimed"
          BY DEF Unclaimed, TaskClaim
        <4> QED BY <3>1, <4>1 DEF WorkReclaim
      <3>2. CASE RequestRun(t)
        <4> DEFINE row == [task[t] EXCEPT !.state = "requested"]
        <4>1. row \in TaskClaim /\ row.state # "claimed"
          BY <2>1 DEF TaskClaim
        <4>2. task' = [task EXCEPT ![t] = row]
          BY <2>1, <3>2 DEF RequestRun
        <4> QED BY <4>1, <4>2
      <3>3. ASSUME NEW a \in Agents, Claim(a, t)
            PROVE  \E row \in TaskClaim : /\ task' = [task EXCEPT ![t] = row]
                                          /\ row.state = "claimed" => row.claimed = now
        <4> DEFINE row == [state |-> "claimed", agent |-> a, claimed |-> now]
        <4>1. row \in TaskClaim /\ row.claimed = now
          BY <2>1 DEF TaskClaim
        <4> QED BY <3>3, <4>1 DEF Claim
      <3> QED BY <1>8, <3>1, <3>2, <3>3
    <2>3. UNCHANGED <<pass, marks, now, sprints, ttl, floor>>
      BY <1>8 DEF WorkReclaim, RequestRun, Claim, others
    <2>4. /\ UNCHANGED <<pass, marks>> /\ now' \in Nat /\ now <= now' /\ sprints' \subseteq Sprints
          /\ ttl' \in Ttls /\ floor' \in {"met", "low"}
      BY <2>3 DEF ClaimsInv
    <2> QED BY <2>2, <2>4, ClientKeeps
  <1>9. ASSUME UNCHANGED <<pass, marks, task>>, now' = now \/ now' = now + 1,
               sprints' \subseteq sprints, ttl' \in Ttls, floor' \in {"met", "low"}
        PROVE  ClaimsInv'
    <2>1. now' \in Nat /\ now <= now' /\ sprints' \subseteq Sprints
      BY <1>9 DEF ClaimsInv
    <2> QED BY <1>9, <2>1, ClientKeeps
  <1>10. ttl \in Ttls /\ floor \in {"met", "low"}
    BY DEF ClaimsInv
  <1>11. ASSUME NEW v \in Ttls, SetTtl(v) PROVE ClaimsInv'
    BY <1>9, <1>10, <1>11 DEF SetTtl, others
  <1>12. ASSUME NEW l \in Leases,
                \/ LeaseAcquire(l) \/ LeaseRenew(l) \/ LeaseRelease(l)
                \/ \E end \in 1..MaxNow : QuietOpen(l, end)
         PROVE  ClaimsInv'
    BY <1>9, <1>10, <1>12 DEF LeaseAcquire, LeaseRenew, LeaseRelease, QuietOpen, others
  <1>13. ASSUME NEW s \in Sprints, CloseSprint(s) PROVE ClaimsInv'
    BY <1>9, <1>10, <1>13 DEF CloseSprint, others
  <1>14. ASSUME NEW b \in 1..MaxBlockers, CloseBlockerCard(b) PROVE ClaimsInv'
    BY <1>9, <1>10, <1>14 DEF CloseBlockerCard, others
  <1>15. CASE FloorChanges
    BY <1>9, <1>10, <1>15 DEF FloorChanges, others
  <1>16. ASSUME NEW a \in Agents, NEW c \in Cards, Evidence(a, c) PROVE ClaimsInv'
    BY <1>9, <1>10, <1>16 DEF Evidence, AddEvidence
  <1>17. CASE BoardStep /\ UNCHANGED restVars
    <2>1. ASSUME NEW a \in Agents, NEW c \in Cards,
                 (\E to \in CardStates : Transition(a, c, to)) \/ Approve(a, c) \/ ReclaimStale(a, c)
          PROVE  UNCHANGED now
      BY <2>1 DEF Transition, Approve, ReclaimStale
    <2>2. ASSUME NEW c \in Cards, NEW outcome \in Outcomes, JobSync(c, outcome)
          PROVE  UNCHANGED now
      BY <2>2 DEF JobSync
    <2>3. ASSUME NEW a \in Agents, Revoke(a) \/ \E n \in Limits : SetPolicy(a, n)
          PROVE  UNCHANGED now
      BY <2>3 DEF Revoke, SetPolicy
    <2>4. UNCHANGED now
      BY <1>17, <2>1, <2>2, <2>3 DEF BoardStep
    <2>5. UNCHANGED <<pass, marks, task, sprints, ttl, floor>>
      BY <1>17 DEF restVars
    <2> QED BY <1>9, <1>10, <2>4, <2>5
  <1>18. CASE Tick /\ UNCHANGED restVars
    <2>1. UNCHANGED <<pass, marks, task, sprints, ttl, floor>> /\ now' = now + 1
      BY <1>18 DEF Tick, restVars
    <2> QED BY <1>9, <1>10, <2>1
  <1> QED
    BY <1>1, <1>2, <1>3, <1>4, <1>5, <1>6, <1>7, <1>8, <1>11, <1>12, <1>13, <1>14, <1>15, <1>16,
       <1>17, <1>18 DEF Next, Clients, Reconcile, Apply

LEMMA ClaimsInvariant == Spec => []ClaimsInv
  <1>1. Init => ClaimsInv
    <2> SUFFICES ASSUME Init PROVE ClaimsInv
      OBVIOUS
    <2>1. Idle \in PassRecord({}) /\ Idle.now = 0 /\ Idle.stage = "idle"
      BY IdleRecord
    <2>2. Unclaimed \in TaskClaim
      BY DEF Unclaimed, TaskClaim
    <2> QED BY <2>1, <2>2 DEF Init, BoardInit, ClaimsInv, DueIsTriedOrAhead
  <1>2. ClaimsInv /\ [Next]_vars => ClaimsInv'
    BY ClaimsKeep
  <1> QED BY <1>1, <1>2, PTL DEF Spec

\* A completed pass has tried to expire each claim that had outlived the TTL when the pass
\* began, however many other actions were planned before it, whatever clients claimed,
\* returned and ran meanwhile and whichever applications failed in earlier passes.
THEOREM ClaimsAreTried == Spec => []DueClaimsAreTried
  <1>1. ClaimsInv => DueClaimsAreTried
    <2> SUFFICES ASSUME ClaimsInv, Completed, ttl = pass.ttl, ttl > 0, NEW t \in Tasks,
                        task[t].state = "claimed", ~(task[t].claimed + ttl > pass.now)
                 PROVE  <<"claim", t, task[t].claimed>> \in Keys
      BY DEF DueClaimsAreTried
    <2>1. PICK S : pass \in PassRecord(S)
      BY DEF ClaimsInv
    <2>2. pass.now \in Nat /\ pass.ttl \in Nat /\ task[t].claimed \in Nat
      BY <2>1 DEF PassRecord, ClaimsInv, TaskClaim
    <2>3. task[t].claimed + pass.ttl <= pass.now
      BY <2>2
    <2>4. DOMAIN pass.plan = {}
      BY <2>1 DEF Completed, PassRecord
    <2> QED BY <2>3, <2>4 DEF Completed, ClaimsInv, DueIsTriedOrAhead
  <1> QED BY <1>1, ClaimsInvariant, PTL

---------------------------------------------------------------------------
(* The board.                                                               *)

\* The inductive invariant.  The review gate needs the ownership and the approvals
\* invariant of the state before: the gate reads the owner and the approvals that
\* earlier moves left on the row.
BoardInv ==
    /\ BoardTypeOK
    /\ OwnedWhileInHand
    /\ ApprovalsAreOfThisReview
    /\ DoneWasReviewed

\* A row that `Moved` writes is a row, and differs from the old one as transition says.
LEMMA MovedRow ==
    ASSUME NEW row \in CardRow, NEW to \in CardStates, NEW a \in Agents, now \in Nat
    PROVE  /\ Moved(row, to, a) \in CardRow
           /\ Moved(row, to, a).state = to
           /\ Moved(row, to, a).evidence = row.evidence
           /\ Moved(row, to, a).owner = (CASE to = "claimed" -> a
                                           [] to \in {"ready", "backlog"} -> NoOne
                                           [] OTHER -> row.owner)
           /\ Moved(row, to, a).approvals =
                  (IF to \in {"claimed", "ready", "backlog", "doing"} THEN {} ELSE row.approvals)
  BY BoardAssumption DEF Moved, CardRow, CardStates, NoOne

\* The row a reclaim leaves is a free card of the pool.
LEMMA ReclaimedRow ==
    ASSUME NEW row \in CardRow, NEW at \in Nat
    PROVE  /\ Reclaimed(row, at) \in CardRow
           /\ Reclaimed(row, at).state = "ready"
           /\ Reclaimed(row, at).owner = NoOne
           /\ Reclaimed(row, at).approvals = {}
  BY DEF Reclaimed, CardRow, CardStates, NoOne

\* A job's outcome moves a card only out of hand or review, and never to an end.
LEMMA SyncMoves ==
    ASSUME NEW outcome \in Outcomes, NEW state \in CardStates,
           SyncEdge(outcome, state) # state
    PROVE  /\ state \in {"claimed", "doing", "review"}
           /\ SyncEdge(outcome, state) \in {"review", "blocked", "ready"}
           /\ SyncEdge(outcome, state) = "review" => state \in {"claimed", "doing"}
  BY DEF SyncEdge, Outcomes, CardStates, InProgress

\* One card's row satisfies the invariant.
RowInv(row) ==
    /\ row \in CardRow
    /\ row.state \in {"claimed", "doing", "review"} => row.owner # NoOne
    /\ row.state \in {"backlog", "ready"} => row.owner = NoOne
    /\ row.state \in {"backlog", "ready", "claimed", "doing"} => row.approvals = {}
    /\ row.state = "done" =>
          row.evidence /\ (RequireReview => row.approvals \ {row.owner} # {})

\* The invariant is the invariant of every row, and the types of the rest.
LEMMA InvByRow ==
    BoardInv <=> /\ now \in Nat /\ revoked \subseteq Agents /\ limit \in Limits
                 /\ card = [c \in Cards |-> card[c]]
                 /\ \A c \in Cards : RowInv(card[c])
  BY DEF BoardInv, BoardTypeOK, OwnedWhileInHand, ApprovalsAreOfThisReview,
         DoneWasReviewed, RowInv

\* Writing one row that satisfies the invariant keeps it.
LEMMA WriteRow ==
    ASSUME BoardInv, NEW c \in Cards, NEW row, RowInv(row),
           card' = [card EXCEPT ![c] = row],
           UNCHANGED <<now, revoked, limit>>
    PROVE  BoardInv'
  <1>1. \A d \in Cards : RowInv(card[d])
    BY InvByRow
  <1>2. card \in [Cards -> CardRow] /\ row \in CardRow
    BY DEF BoardInv, BoardTypeOK, RowInv
  <1>3. card' \in [Cards -> CardRow]
    BY <1>2
  <1>4. \A d \in Cards : RowInv(card'[d])
    BY <1>1, <1>2
  <1> QED
    BY <1>3, <1>4 DEF BoardInv, BoardTypeOK, OwnedWhileInHand, ApprovalsAreOfThisReview,
                      DoneWasReviewed, RowInv

\* A legal move by an active agent writes a row that satisfies the invariant.
LEMMA TransitionKeeps ==
    ASSUME BoardInv, NEW a \in Agents, NEW c \in Cards, NEW to \in CardStates,
           Transition(a, c, to)
    PROVE  BoardInv'
  <1> DEFINE new == Moved(card[c], to, a)
  <1>1. RowInv(card[c]) /\ card[c] \in CardRow /\ now \in Nat
    BY InvByRow DEF RowInv
  <1>2. /\ new \in CardRow
        /\ new.state = to
        /\ new.evidence = card[c].evidence
        /\ new.owner = (CASE to = "claimed" -> a
                          [] to \in {"ready", "backlog"} -> NoOne
                          [] OTHER -> card[c].owner)
        /\ new.approvals =
             (IF to \in {"claimed", "ready", "backlog", "doing"} THEN {} ELSE card[c].approvals)
    BY <1>1, MovedRow
  <1>3. a # NoOne
    BY BoardAssumption DEF NoOne
  <1>4. to \in {"doing", "review"} => card[c].state \in {"claimed", "doing", "review"}
    BY DEF Transition, Legal, CardStates, Terminal
  <1>5. to \in {"doing", "review"} => new.owner # NoOne
    BY <1>1, <1>2, <1>4 DEF RowInv
  <1>6. to = "claimed" => new.owner # NoOne
    BY <1>2, <1>3
  <1>7. to = "done" => new.evidence /\ (RequireReview => new.approvals \ {new.owner} # {})
    BY <1>2 DEF Transition, DoneGate, IndependentApproval
  <1>8. to \in {"backlog", "ready"} => new.owner = NoOne
    BY <1>2
  <1>9. to \in {"backlog", "ready", "claimed", "doing"} => new.approvals = {}
    BY <1>2
  <1>10. RowInv(new)
    BY <1>2, <1>5, <1>6, <1>7, <1>8, <1>9 DEF RowInv
  <1> QED
    BY <1>10, WriteRow DEF Transition

\* A job's end writes a row that satisfies the invariant.
LEMMA JobSyncKeeps ==
    ASSUME BoardInv, NEW c \in Cards, NEW outcome \in Outcomes, JobSync(c, outcome)
    PROVE  BoardInv'
  <1> DEFINE old == card[c]
             to  == SyncEdge(outcome, old.state)
             new == [old EXCEPT
                       !.state     = to,
                       !.owner     = IF to = "ready" THEN NoOne ELSE old.owner,
                       !.approvals = IF to = "ready" \/ (to = "review" /\ old.state = "claimed")
                                     THEN {} ELSE old.approvals,
                       !.updated   = now,
                       !.evidence  = old.evidence \/ outcome # "cancelled"]
  <1>1. RowInv(old) /\ old \in CardRow /\ now \in Nat
    BY InvByRow DEF RowInv
  <1>2. /\ old.state \in {"claimed", "doing", "review"}
        /\ to \in {"review", "blocked", "ready"}
        /\ to = "review" => old.state \in {"claimed", "doing"}
    <2>1. to # old.state /\ old.state \in CardStates
      BY <1>1 DEF JobSync, CardRow
    <2> QED BY <2>1, SyncMoves
  <1>3. /\ new.state = to
        /\ new.owner = IF to = "ready" THEN NoOne ELSE old.owner
        /\ to = "ready" => new.approvals = {}
    BY <1>1 DEF CardRow
  <1>4. new \in CardRow
    <2> HIDE DEF to
    <2>1. to \in CardStates
      BY <1>2 DEF CardStates
    <2> QED BY <1>1, <2>1 DEF CardRow, NoOne
  <1>5. RowInv(new)
    <2> HIDE DEF to, new
    <2> QED BY <1>1, <1>2, <1>3, <1>4 DEF RowInv
  <1>6. card \in [Cards -> CardRow]
    BY DEF BoardInv, BoardTypeOK
  <1>7. card' = [card EXCEPT ![c] = new] /\ UNCHANGED <<now, revoked, limit>>
    BY <1>1, <1>6 DEF JobSync, CardRow
  <1> QED
    BY <1>5, <1>7, WriteRow

\* The reconciler returns a card that is still in hand, at the time its pass began.
ReconcilerReclaims(c, at) ==
    /\ card[c].state \in InProgress
    /\ card' = [card EXCEPT ![c] = Reclaimed(@, at)]
    /\ UNCHANGED <<now, revoked, limit>>

\* The four paths that write a card.
BoardPath == \/ [BoardNext]_boardVars
             \/ \E c \in Cards, at \in Nat : ReconcilerReclaims(c, at)

\* Every step of the reconciler and its clients is one of them, or leaves the board alone.
LEMMA OnlyTheseWrite ==
    ASSUME ClaimsInv, card \in [Cards -> CardRow], [Next]_vars PROVE BoardPath
  <1>1. CASE ApplyReclaim
    <2>1. PICK S : pass \in PassRecord(S)
      BY DEF ClaimsInv
    <2>2. pass.now \in Nat
      BY <2>1 DEF PassRecord
    <2> DEFINE c == Head(pass.plan).id
    <2>3. UNCHANGED <<now, revoked, limit>>
      BY <1>1 DEF ApplyReclaim, Mark
    <2>4. \/ UNCHANGED card
          \/ card[c].state \in InProgress /\ card' = [card EXCEPT ![c] = Reclaimed(@, pass.now)]
      BY <1>1 DEF ApplyReclaim, StillHeld
    <2> HIDE DEF c
    <2>5. CASE c \in Cards
      BY <2>2, <2>3, <2>4, <2>5 DEF BoardPath, ReconcilerReclaims, boardVars
    <2>6. CASE c \notin Cards
      BY <2>3, <2>4, <2>6 DEF BoardPath, boardVars
    <2> QED BY <2>5, <2>6
  <1>2. CASE (BoardStep \/ Tick) /\ UNCHANGED restVars
    BY <1>2 DEF BoardPath, BoardNext
  <1>3. ASSUME NEW a \in Agents, NEW c \in Cards, Evidence(a, c) PROVE BoardPath
    BY <1>3 DEF BoardPath, BoardNext, Evidence
  <1>4. ASSUME UNCHANGED boardVars PROVE BoardPath
    BY <1>4 DEF BoardPath
  <1>5. CASE UNCHANGED vars
    BY <1>4, <1>5 DEF vars, boardVars
  <1>6. CASE PassBegin \/ (\E r \in {floor, "unknown"} : Snapshot(r)) \/ ApplyFails \/ PassEnd \/ Restart
    <2>1. UNCHANGED boardVars
      BY <1>6, Zenon DEF PassBegin, Snapshot, ApplyFails, PassEnd, Restart
    <2> QED BY <1>4, <2>1
  <1>7. CASE ApplyExpireLease \/ ApplyExpireClaim \/ ApplyCloseQuiet \/ ApplyNotice \/ ApplyBlocker
               \/ ApplyUnblock \/ ApplyAdmission
    BY <1>4, <1>7 DEF ApplyExpireLease, ApplyExpireClaim, ApplyCloseQuiet, ApplyNotice, ApplyBlocker,
                      ApplyUnblock, ApplyAdmission, Mark, boardVars
  <1>8. ASSUME NEW t \in Tasks, WorkReclaim(t) \/ RequestRun(t) \/ \E a \in Agents : Claim(a, t)
        PROVE  BoardPath
    BY <1>4, <1>8 DEF WorkReclaim, RequestRun, Claim, others, boardVars
  <1>9. ASSUME NEW l \in Leases,
               \/ LeaseAcquire(l) \/ LeaseRenew(l) \/ LeaseRelease(l)
               \/ \E end \in 1..MaxNow : QuietOpen(l, end)
        PROVE  BoardPath
    BY <1>4, <1>9 DEF LeaseAcquire, LeaseRenew, LeaseRelease, QuietOpen, others, boardVars
  <1>10. CASE \/ \E v \in Ttls : SetTtl(v)
              \/ \E s \in Sprints : CloseSprint(s)
              \/ \E b \in 1..MaxBlockers : CloseBlockerCard(b)
              \/ FloorChanges
    BY <1>4, <1>10 DEF SetTtl, CloseSprint, CloseBlockerCard, FloorChanges, others, boardVars
  <1> QED
    BY <1>1, <1>2, <1>3, <1>5, <1>6, <1>7, <1>8, <1>9, <1>10 DEF Next, Clients, Reconcile, Apply

\* Every path keeps the invariant.
LEMMA StepKeeps ==
    ASSUME BoardInv, BoardPath PROVE BoardInv'
  <1>1. \A d \in Cards : RowInv(card[d]) /\ card[d] \in CardRow
    BY InvByRow DEF RowInv
  <1>2. card \in [Cards -> CardRow] /\ now \in Nat
    BY DEF BoardInv, BoardTypeOK
  <1>3. ASSUME NEW a \in Agents, NEW c \in Cards, NEW to \in CardStates, Transition(a, c, to)
        PROVE  BoardInv'
    BY <1>3, TransitionKeeps
  <1>4. ASSUME NEW a \in Agents, NEW c \in Cards, AddEvidence(a, c)
        PROVE  BoardInv'
    <2> DEFINE new == [card[c] EXCEPT !.evidence = TRUE]
    <2>1. RowInv(new)
      BY <1>1 DEF RowInv, CardRow
    <2>2. card' = [card EXCEPT ![c] = new] /\ UNCHANGED <<now, revoked, limit>>
      BY <1>4, <1>2 DEF AddEvidence
    <2> QED BY <2>1, <2>2, WriteRow
  <1>5. ASSUME NEW a \in Agents, NEW c \in Cards, Approve(a, c)
        PROVE  BoardInv'
    <2> DEFINE new == [card[c] EXCEPT !.approvals = @ \cup {a}]
    <2>1. RowInv(new)
      BY <1>1, <1>5 DEF RowInv, CardRow, Approve
    <2>2. card' = [card EXCEPT ![c] = new] /\ UNCHANGED <<now, revoked, limit>>
      BY <1>5, <1>2 DEF Approve
    <2> QED BY <2>1, <2>2, WriteRow
  <1>6. ASSUME NEW a \in Agents, NEW c \in Cards, ReclaimStale(a, c)
        PROVE  BoardInv'
    <2>1. RowInv(Reclaimed(card[c], now))
      BY <1>1, <1>2, ReclaimedRow DEF RowInv
    <2> QED BY <1>6, <2>1, WriteRow DEF ReclaimStale
  <1>7. ASSUME NEW c \in Cards, NEW outcome \in Outcomes, JobSync(c, outcome)
        PROVE  BoardInv'
    BY <1>7, JobSyncKeeps
  <1>8. ASSUME UNCHANGED card, now' \in Nat, revoked' \subseteq Agents, limit' \in Limits
        PROVE  BoardInv'
    BY <1>8 DEF BoardInv, BoardTypeOK, OwnedWhileInHand, ApprovalsAreOfThisReview,
                DoneWasReviewed
  <1>9. ASSUME NEW a \in Agents, Revoke(a)
        PROVE  BoardInv'
    BY <1>9, <1>8 DEF Revoke, BoardInv, BoardTypeOK
  <1>10. ASSUME NEW a \in Agents, NEW n \in Limits, SetPolicy(a, n)
         PROVE  BoardInv'
    BY <1>10, <1>8 DEF SetPolicy, BoardInv, BoardTypeOK
  <1>11. CASE Tick
    BY <1>11, <1>2, <1>8 DEF Tick, BoardInv, BoardTypeOK
  <1>12. CASE UNCHANGED boardVars
    BY <1>12, <1>8 DEF boardVars, BoardInv, BoardTypeOK
  <1>13. ASSUME NEW c \in Cards, NEW at \in Nat, ReconcilerReclaims(c, at)
         PROVE  BoardInv'
    <2>1. RowInv(Reclaimed(card[c], at))
      BY <1>1, <1>2, ReclaimedRow DEF RowInv
    <2> QED BY <1>13, <2>1, WriteRow DEF ReconcilerReclaims
  <1> QED
    BY <1>3, <1>4, <1>5, <1>6, <1>7, <1>9, <1>10, <1>11, <1>12, <1>13 DEF BoardPath, BoardNext, BoardStep

\* Every reachable board satisfies the inductive invariant.
THEOREM BoardInvariant == Spec => []BoardInv
  <1>1. Init => BoardInv
    BY BoardAssumption DEF Init, BoardInit, NewCard, BoardInv, BoardTypeOK, CardRow, CardStates, NoOne,
                           OwnedWhileInHand, ApprovalsAreOfThisReview, DoneWasReviewed
  <1>2. ClaimsInv /\ BoardInv /\ [Next]_vars => BoardInv'
    <2>1. BoardInv => card \in [Cards -> CardRow]
      BY DEF BoardInv, BoardTypeOK
    <2> QED BY <2>1, OnlyTheseWrite, StepKeeps
  <1> QED BY <1>1, <1>2, ClaimsInvariant, PTL DEF Spec

\* A finished card has evidence and, where review is required, the approval of
\* someone other than its owner, whatever moves, job ends, reclaims and
\* revocations came before.
THEOREM ReviewGate == Spec => []DoneWasReviewed
  <1>1. BoardInv => DoneWasReviewed
    BY DEF BoardInv
  <1> QED BY <1>1, BoardInvariant, PTL

\* An approval never outlives the review it was given in.
THEOREM FreshApprovals == Spec => []ApprovalsAreOfThisReview
  <1>1. BoardInv => ApprovalsAreOfThisReview
    BY DEF BoardInv
  <1> QED BY <1>1, BoardInvariant, PTL

\* A card in hand has an owner; a card in the pool has none.
THEOREM Ownership == Spec => []OwnedWhileInHand
  <1>1. BoardInv => OwnedWhileInHand
    BY DEF BoardInv
  <1> QED BY <1>1, BoardInvariant, PTL

\* No step changes the state, the owner or the approvals of a done or cancelled card.
LEMMA TerminalStep ==
    ASSUME BoardTypeOK, BoardPath, NEW c \in Cards, card[c].state \in Terminal
    PROVE  /\ card'[c].state = card[c].state
           /\ card'[c].owner = card[c].owner
           /\ card'[c].approvals = card[c].approvals
  <1>1. card \in [Cards -> CardRow] /\ card[c] \in CardRow
    BY DEF BoardTypeOK
  <1>2. ASSUME NEW d \in Cards, NEW row, d # c, card' = [card EXCEPT ![d] = row]
        PROVE  card'[c] = card[c]
    BY <1>1, <1>2
  <1>3. ASSUME NEW a \in Agents, NEW d \in Cards, NEW to \in CardStates, Transition(a, d, to)
        PROVE  card'[c] = card[c]
    <2>1. d # c
      BY <1>3 DEF Transition, Legal, Terminal, CardStates
    <2> QED BY <2>1, <1>2, <1>3 DEF Transition
  <1>4. ASSUME NEW a \in Agents, NEW d \in Cards, AddEvidence(a, d)
        PROVE  card'[c] = card[c] \/ card'[c] = [card[c] EXCEPT !.evidence = TRUE]
    BY <1>1, <1>4 DEF AddEvidence
  <1>5. ASSUME NEW a \in Agents, NEW d \in Cards, Approve(a, d)
        PROVE  card'[c] = card[c]
    <2>1. d # c
      BY <1>5 DEF Approve, Terminal
    <2> QED BY <2>1, <1>1, <1>5 DEF Approve
  <1>6. ASSUME NEW a \in Agents, NEW d \in Cards, ReclaimStale(a, d)
        PROVE  card'[c] = card[c]
    <2>1. d # c
      BY <1>6 DEF ReclaimStale, Terminal, InProgress
    <2> QED BY <2>1, <1>2, <1>6 DEF ReclaimStale
  <1>7. ASSUME NEW d \in Cards, NEW outcome \in Outcomes, JobSync(d, outcome)
        PROVE  card'[c] = card[c]
    <2>1. card[d].state \in {"claimed", "doing", "review"}
      <3>1. card[d].state \in CardStates /\ SyncEdge(outcome, card[d].state) # card[d].state
        BY <1>1, <1>7 DEF JobSync, CardRow
      <3> QED BY <3>1, SyncMoves
    <2>2. d # c
      BY <2>1 DEF Terminal
    <2> QED BY <2>2, <1>1, <1>7 DEF JobSync
  <1>8. ASSUME UNCHANGED card PROVE card'[c] = card[c]
    BY <1>8
  <1>9. ASSUME NEW d \in Cards, NEW at \in Nat, ReconcilerReclaims(d, at)
        PROVE  card'[c] = card[c]
    <2>1. d # c
      BY <1>9 DEF ReconcilerReclaims, Terminal, InProgress
    <2> QED BY <2>1, <1>2, <1>9 DEF ReconcilerReclaims
  <1>10. card'[c] = card[c] \/ card'[c] = [card[c] EXCEPT !.evidence = TRUE]
    BY <1>3, <1>4, <1>5, <1>6, <1>7, <1>8, <1>9
       DEF BoardPath, BoardNext, BoardStep, Revoke, SetPolicy, Tick, boardVars
  <1> QED
    BY <1>1, <1>10 DEF CardRow

\* Done and cancelled cards are final: no late job end, reclaim or approval
\* reaches them.
THEOREM EndsAreFinal == Spec => TerminalIsFinal
  <1>1. BoardInv => BoardTypeOK /\ card \in [Cards -> CardRow]
    BY DEF BoardInv, BoardTypeOK
  <1>2. ClaimsInv /\ BoardInv /\ [Next]_vars =>
          [\A c \in Cards : card[c].state \in Terminal =>
             /\ card'[c].state = card[c].state
             /\ card'[c].owner = card[c].owner
             /\ card'[c].approvals = card[c].approvals]_boardVars
    BY <1>1, OnlyTheseWrite, TerminalStep
  <1> QED
    BY <1>2, ClaimsInvariant, BoardInvariant, PTL DEF Spec, TerminalIsFinal

\* Only a move takes a card into work; every other step leaves the cards in work
\* a subset of what they were.
LEMMA OnlyMovesAddWork ==
    ASSUME BoardTypeOK, BoardPath,
           ~ \E a \in Agents, c \in Cards, to \in CardStates : Transition(a, c, to)
    PROVE  Working' \subseteq Working
  <1>1. card \in [Cards -> CardRow]
    BY DEF BoardTypeOK
  <1>2. ASSUME NEW d \in Cards, NEW row, card' = [card EXCEPT ![d] = row],
               row.state \in InProgress => card[d].state \in InProgress
        PROVE  Working' \subseteq Working
    BY <1>1, <1>2 DEF Working
  <1>3. ASSUME NEW a \in Agents, NEW d \in Cards, AddEvidence(a, d) \/ Approve(a, d)
        PROVE  Working' \subseteq Working
    <2>1. \A c \in Cards : card'[c].state = card[c].state
      BY <1>1, <1>3 DEF AddEvidence, Approve, CardRow
    <2> QED BY <2>1 DEF Working
  <1>4. ASSUME NEW a \in Agents, NEW d \in Cards, ReclaimStale(a, d)
        PROVE  Working' \subseteq Working
    BY <1>2, <1>4 DEF ReclaimStale
  <1>5. ASSUME NEW d \in Cards, NEW outcome \in Outcomes, JobSync(d, outcome)
        PROVE  Working' \subseteq Working
    <2>1. card[d] \in CardRow /\ card[d].state \in CardStates
      BY <1>1 DEF CardRow
    <2>2. SyncEdge(outcome, card[d].state) \notin InProgress
      BY <2>1, <1>5, SyncMoves DEF JobSync, InProgress
    <2>3. /\ card'[d].state = SyncEdge(outcome, card[d].state)
          /\ \A c \in Cards : c # d => card'[c] = card[c]
      BY <1>1, <1>5, <2>1 DEF JobSync, CardRow
    <2> QED BY <2>2, <2>3 DEF Working
  <1>6. ASSUME UNCHANGED card PROVE Working' \subseteq Working
    BY <1>6 DEF Working
  <1>7. ASSUME NEW d \in Cards, NEW at \in Nat, ReconcilerReclaims(d, at)
        PROVE  Working' \subseteq Working
    BY <1>2, <1>7 DEF ReconcilerReclaims
  <1> QED
    BY <1>3, <1>4, <1>5, <1>6, <1>7 DEF BoardPath, BoardNext, BoardStep, Revoke, SetPolicy, Tick, boardVars

\* A move that takes a card into work passed the gate, so the lane is at most full.
LEMMA MoveRespectsLimit ==
    ASSUME BoardTypeOK, NEW a \in Agents, NEW c \in Cards, NEW to \in CardStates,
           Transition(a, c, to), limit > 0, ~(Working' \subseteq Working)
    PROVE  Cardinality(Working') <= limit
  <1>1. card \in [Cards -> CardRow] /\ card[c] \in CardRow /\ now \in Nat /\ limit \in Nat
    BY BoardAssumption DEF BoardTypeOK
  <1>2. \A d \in Cards : card'[d] = IF d = c THEN Moved(card[c], to, a) ELSE card[d]
    BY <1>1 DEF Transition
  <1>3. card'[c].state = to
    BY <1>1, <1>2, MovedRow
  <1>4. to \in InProgress /\ card[c].state \notin InProgress
    BY <1>2, <1>3 DEF Working
  <1>5. Working' = (Working \ {c}) \cup {c}
    BY <1>2, <1>3, <1>4 DEF Working
  <1>6. IsFiniteSet(Working \ {c})
    BY BoardAssumption, FS_Subset DEF Working
  <1>7. Cardinality(Working \ {c}) \in Nat
    BY <1>6, FS_CardinalityType
  <1>8. Cardinality(Working') = Cardinality(Working \ {c}) + 1
    BY <1>5, <1>6, FS_AddElement
  <1>9. Cardinality(Working \ {c}) < limit
    BY <1>4 DEF Transition, WipOpen
  <1> QED
    BY <1>1, <1>7, <1>8, <1>9

\* Work in progress grows only up to the limit, although job ends and reclaims
\* never ask for it.
THEOREM WorkInProgress == Spec => WipGrowsToTheLimit
  <1>1. BoardInv => BoardTypeOK /\ card \in [Cards -> CardRow]
    BY DEF BoardInv, BoardTypeOK
  <1>2. ClaimsInv /\ BoardInv /\ [Next]_vars =>
          [limit > 0 /\ ~(Working' \subseteq Working) => Cardinality(Working') <= limit]_boardVars
    BY <1>1, OnlyTheseWrite, OnlyMovesAddWork, MoveRespectsLimit
  <1> QED
    BY <1>2, ClaimsInvariant, BoardInvariant, PTL DEF Spec, WipGrowsToTheLimit
=============================================================================
