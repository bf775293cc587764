--------------------------- MODULE WorkQueueProofs ---------------------------
(***************************************************************************)
(* Proofs about WorkQueue, for every set of agents, tasks, leases and paths *)
(* and every assignment of roles.                                           *)
(*                                                                          *)
(* Nearly every action writes one task row.  RowOk states what a written    *)
(* row must satisfy for the invariant to survive the write; lemma PutRow    *)
(* shows that it is enough, and lemma TaskOpStep that each operation writes *)
(* such a row.                                                              *)
(*                                                                          *)
(* Proofs about Planning, for any tasks, policy and number of agents: the   *)
(* graph is sorted by counting entries of `after`, SlotsOk and ReadyOk hold *)
(* while the plan is made, and the first task in the order of the graph     *)
(* that has no slot could begin, so a plan that ends has them all.          *)
(***************************************************************************)
EXTENDS WorkQueue, Planning, FiniteSetTheorems, WellFoundedInduction, TLAPS

\* The inductive invariant.  RunsOnlyAccepted needs AcceptanceIsOfTheClaim (an
\* acceptance a task kept in the queue would let the next claimant run it
\* unread), and every part needs the types.
IInv == TypeOK /\ FileExclusion /\ AcceptanceIsOfTheClaim /\ RunsOnlyAccepted

RowHolds(row) == row.state \in {"claimed", "running"}

RowOk(t, row) ==
    /\ row \in TaskRow
    /\ RowHolds(row) => \/ Holding(t) /\ row.files = tasks[t].files
                        \/ ~TaskHolds(row.files)
    /\ row.accepted # NoOne => row.state # "queued" /\ row.accepted = row.agent
    /\ row.state = "running" \/ row.requested =>
          /\ row.requested /\ row.command /\ row.agent # NoOne
          /\ row.accepted = row.agent /\ row.state \notin {"none", "queued"}

\* Overlap of paths is symmetric, so holding files is a symmetric conflict.
LEMMA OverlapSymmetric ==
    ASSUME NEW F, NEW G, FilesOverlap(F, G) PROVE FilesOverlap(G, F)
BY DEF FilesOverlap, Overlap

\* Writing one row that is RowOk keeps the invariant.
LEMMA PutRow ==
    ASSUME IInv, NEW t \in TaskIds, NEW row, RowOk(t, row), Put(t, row),
           UNCHANGED <<leases, settings, now>>
    PROVE  IInv'
<1> USE DEF IInv
<1>1. tasks \in [TaskIds -> TaskRow] /\ row \in TaskRow
  BY DEF TypeOK, RowOk
<1>2. /\ tasks'[t] = row
      /\ \A u \in TaskIds : u # t => tasks'[u] = tasks[u]
  BY <1>1 DEF Put
<1>3. TypeOK'
  BY <1>1 DEF TypeOK, Put
<1>4. FileExclusion'
  <2> SUFFICES ASSUME NEW u \in TaskIds, NEW w \in TaskIds, u # w,
                      Holding(u)', Holding(w)',
                      FilesOverlap(tasks'[u].files, tasks'[w].files)
               PROVE  FALSE
    BY DEF FileExclusion
  <2>1. CASE u # t /\ w # t
    BY <2>1, <1>2 DEF FileExclusion, Holding
  <2>2. ASSUME NEW v \in TaskIds, v # t, Holding(v)', RowHolds(row),
               FilesOverlap(row.files, tasks'[v].files)
        PROVE  FALSE
    <3>1. Holding(v) /\ tasks'[v] = tasks[v]
      BY <2>2, <1>2 DEF Holding
    <3>2. TaskHolds(row.files)
      BY <2>2, <3>1 DEF TaskHolds
    <3>3. Holding(t) /\ row.files = tasks[t].files
      BY <3>2, <2>2 DEF RowOk
    <3> QED BY <3>1, <3>3, <2>2 DEF FileExclusion
  <2>3. CASE u = t
    BY <2>3, <2>2, <1>2 DEF Holding, RowHolds
  <2>4. CASE w = t
    BY <2>4, <2>2, <1>2, OverlapSymmetric DEF Holding, RowHolds
  <2> QED BY <2>1, <2>3, <2>4
<1>5. AcceptanceIsOfTheClaim'
  BY <1>2 DEF AcceptanceIsOfTheClaim, RowOk
<1>6. RunsOnlyAccepted'
  BY <1>2 DEF RunsOnlyAccepted, RowOk
<1> QED BY <1>3, <1>4, <1>5, <1>6

LEMMA InitIInv == Init => IInv
<1> SUFFICES ASSUME Init PROVE IInv
  OBVIOUS
<1>1. NoTask \in TaskRow /\ NoLease \in LeaseRow
  BY DEF NoTask, NoLease, TaskRow, LeaseRow, States, NoTime
<1>2. TypeOK
  BY <1>1, SettingsAssumption, TimeAssumption DEF Init, TypeOK
<1>3. \A t \in TaskIds : tasks[t] = NoTask
  BY DEF Init
<1>4. FileExclusion
  BY <1>3 DEF FileExclusion, Holding, NoTask
<1>5. AcceptanceIsOfTheClaim /\ RunsOnlyAccepted
  BY <1>3 DEF AcceptanceIsOfTheClaim, RunsOnlyAccepted, NoTask
<1> QED BY <1>2, <1>4, <1>5 DEF IInv

\* What the invariant says of the row an operation is about to write.
LEMMA RowFacts ==
    ASSUME IInv, NEW t \in TaskIds
    PROVE  /\ tasks[t] \in TaskRow
           /\ tasks[t].accepted # NoOne =>
                 tasks[t].state # "queued" /\ tasks[t].accepted = tasks[t].agent
           /\ tasks[t].state = "running" \/ tasks[t].requested =>
                 /\ tasks[t].requested /\ tasks[t].command /\ tasks[t].agent # NoOne
                 /\ tasks[t].accepted = tasks[t].agent
                 /\ tasks[t].state \notin {"none", "queued"}
BY DEF IInv, TypeOK, AcceptanceIsOfTheClaim, RunsOnlyAccepted

\* The operation times are times.
LEMMA OpTimesAreNat == ASSUME TypeOK, NEW at \in OpTimes PROVE at \in Nat
BY DEF OpTimes, TypeOK

\* Each operation of an agent on a task, and each system operation, keeps the
\* invariant.
LEMMA TaskOpStep ==
    ASSUME IInv, NEW a \in Agents, NEW t \in TaskIds, TaskOp(a, t)
    PROVE  IInv'
<1> USE NoOneAssumption
<1> DEFINE old == tasks[t]
<1>r. /\ old \in TaskRow
      /\ old.accepted # NoOne => old.state # "queued" /\ old.accepted = old.agent
      /\ old.state = "running" \/ old.requested =>
            /\ old.requested /\ old.command /\ old.agent # NoOne
            /\ old.accepted = old.agent /\ old.state \notin {"none", "queued"}
  BY RowFacts
<1>n. \A at \in OpTimes : at \in Nat
  BY OpTimesAreNat DEF IInv
<1>1. ASSUME NEW command \in BOOLEAN, NEW F \in FileSets, NEW after \in SUBSET TaskIds,
             WorkAdd(a, t, command, F, after)
      PROVE  IInv'
  <2>1. RowOk(t, Inserted(a, t, command, F, after))
    BY <1>1, FileSetAssumption
       DEF RowOk, RowHolds, Inserted, NoTask, TaskRow, States, NoTime
  <2> QED BY <1>1, <2>1, PutRow DEF WorkAdd
<1>2. ASSUME NEW at \in OpTimes, old.state = "queued", ~TaskHolds(old.files)
      PROVE  RowOk(t, Taken(old, a, at))
  BY <1>2, <1>r, <1>n DEF RowOk, RowHolds, Taken, TaskRow, States
<1>3. ASSUME NEW at \in OpTimes, WorkNext(a, t, at) PROVE IInv'
  BY <1>3, <1>2, PutRow DEF WorkNext, ClaimOk, CheckFiles
<1>4. ASSUME NEW at \in OpTimes, WorkClaim(a, t, at) PROVE IInv'
  BY <1>4, <1>2, PutRow DEF WorkClaim, ClaimOk, CheckFiles
<1>5. CASE WorkAccept(a, t)
  <2>1. RowOk(t, [old EXCEPT !.accepted = a])
    BY <1>5, <1>r DEF WorkAccept, RowOk, RowHolds, TaskRow, Holding
  <2> QED BY <1>5, <2>1, PutRow DEF WorkAccept
<1>6. CASE WorkRunNamed(a, t)
  <2>1. RowOk(t, Requested(old))
    BY <1>6, <1>r DEF WorkRunNamed, CheckRunnable, RowOk, RowHolds, TaskRow, Requested, Holding
  <2> QED BY <1>6, <2>1, PutRow DEF WorkRunNamed
<1>7. ASSUME NEW F \in FileSets, NEW at \in OpTimes, WorkRunInline(a, t, F, at)
      PROVE  IInv'
  <2> DEFINE new == Inserted(a, t, TRUE, F, {})
             got == Taken(new, a, at)
             mine == [got EXCEPT !.accepted = a]
             row == Requested(mine)
  <2>1. ~TaskHolds(F)
    BY <1>7 DEF WorkRunInline, CheckFiles
  <2>2. new \in TaskRow /\ new.command /\ new.files = F
    BY FileSetAssumption DEF Inserted, NoTask, TaskRow, States, NoTime
  <2>3. got \in TaskRow /\ got.command /\ got.files = F /\ got.agent = a /\ got.state = "claimed"
    <3> HIDE DEF new
    <3> QED BY <2>2, <1>n DEF Taken, TaskRow, States
  <2>4. /\ mine \in TaskRow /\ mine.command /\ mine.files = F /\ mine.agent = a
        /\ mine.state = "claimed" /\ mine.accepted = a
    <3> HIDE DEF got
    <3> QED BY <2>3 DEF TaskRow
  <2>5. RowOk(t, row)
    <3> HIDE DEF mine
    <3> QED BY <2>1, <2>4 DEF Requested, RowOk, RowHolds, TaskRow, States
  <2> QED BY <1>7, <2>5, PutRow DEF WorkRunInline
<1>8. ASSUME NEW outcome \in {"done", "failed"}, WorkFinish(a, t, outcome) PROVE IInv'
  <2>1. RowOk(t, [old EXCEPT !.state = outcome])
    BY <1>8, <1>r DEF WorkFinish, RowOk, RowHolds, TaskRow, States
  <2> QED BY <1>8, <2>1, PutRow DEF WorkFinish
<1>9. CASE WorkCancel(a, t)
  <2>1. RowOk(t, [old EXCEPT !.cancel = TRUE])
    BY <1>r DEF RowOk, RowHolds, TaskRow, Holding
  <2>2. old.state \in {"queued", "claimed"} => RowOk(t, [old EXCEPT !.state = "cancelled"])
    BY <1>r DEF RowOk, RowHolds, TaskRow, States
  <2> QED BY <1>9, <2>1, <2>2, PutRow DEF WorkCancel
<1>10. ASSUME NEW after \in SUBSET TaskIds, NEW at \in OpTimes, WorkUpdate(a, t, after, at)
       PROVE  IInv'
  <2>1. RowOk(t, [old EXCEPT !.after = after])
    BY <1>r DEF RowOk, RowHolds, TaskRow, Holding
  <2>2. ~old.requested /\ old.state = "claimed" => RowOk(t, [Returned(old) EXCEPT !.after = after])
    BY <1>r DEF RowOk, RowHolds, TaskRow, Returned, States, NoTime
  <2>3. ASSUME NEW b \in Agents, ~old.requested, old.state \in {"queued", "claimed"},
               old.state = "queued" => ~TaskHolds(old.files)
        PROVE  RowOk(t, [Assigned(old, b, at) EXCEPT !.after = after])
    BY <2>3, <1>r, <1>n DEF RowOk, RowHolds, TaskRow, Assigned, States, Holding
  <2> QED BY <1>10, <2>1, <2>2, <2>3, PutRow DEF WorkUpdate, ClaimOk, CheckFiles
<1>11. CASE WorkReclaimTask(a, t)
  <2>1. RowOk(t, Returned(old))
    BY <1>11, <1>r DEF WorkReclaimTask, RowOk, RowHolds, TaskRow, Returned, States, NoTime
  <2> QED BY <1>11, <2>1, PutRow DEF WorkReclaimTask
<1> QED BY <1>1, <1>3, <1>4, <1>5, <1>6, <1>7, <1>8, <1>9, <1>10, <1>11 DEF TaskOp

LEMMA SystemOpStep ==
    ASSUME IInv, NEW t \in TaskIds, SystemOp(t)
    PROVE  IInv'
<1> USE NoOneAssumption
<1> DEFINE old == tasks[t]
<1>r. /\ old \in TaskRow
      /\ old.accepted # NoOne => old.state # "queued" /\ old.accepted = old.agent
      /\ old.state = "running" \/ old.requested =>
            /\ old.requested /\ old.command /\ old.agent # NoOne
            /\ old.accepted = old.agent /\ old.state \notin {"none", "queued"}
  BY RowFacts
<1>1. CASE JobStart(t)
  <2>1. RowOk(t, [old EXCEPT !.state = "running"])
    BY <1>1, <1>r DEF JobStart, Waiting, RowOk, RowHolds, TaskRow, States, Holding
  <2> QED BY <1>1, <2>1, PutRow DEF JobStart
<1>2. ASSUME NEW beforeStart \in BOOLEAN, NEW zero \in BOOLEAN, JobFinish(t, beforeStart, zero)
      PROVE  IInv'
  <2>1. JobOutcome(t, beforeStart, zero) \in {"done", "failed", "cancelled"}
    BY DEF JobOutcome
  <2>2. old.requested
    BY <1>2, <1>r DEF JobFinish, Finishable, Waiting
  <2>3. RowOk(t, [old EXCEPT !.state = JobOutcome(t, beforeStart, zero)])
    BY <2>1, <2>2, <1>r DEF RowOk, RowHolds, TaskRow, States
  <2> QED BY <1>2, <2>3, PutRow DEF JobFinish
<1>3. ASSUME NEW at \in OpTimes, ExpireClaim(t, at) PROVE IInv'
  <2>1. RowOk(t, Returned(old))
    BY <1>3, <1>r DEF ExpireClaim, ClaimExpired, RowOk, RowHolds, TaskRow, Returned, States, NoTime
  <2> QED BY <1>3, <2>1, PutRow DEF ExpireClaim
<1> QED BY <1>1, <1>2, <1>3 DEF SystemOp

\* Lease operations, settings and the clock leave every task as it is.
LEMMA OtherStep ==
    ASSUME IInv, UNCHANGED tasks, TypeOK' PROVE IInv'
BY DEF IInv, FileExclusion, AcceptanceIsOfTheClaim, RunsOnlyAccepted, Holding

LEMMA LeaseOpType ==
    ASSUME TypeOK, NEW l \in LeaseIds,
           \/ \E a \in Agents : LeaseOp(a, l)
           \/ \E at \in OpTimes : ExpireLease(l, at)
    PROVE  TypeOK' /\ UNCHANGED tasks
<1>n. \A at \in OpTimes : at \in Nat
  BY OpTimesAreNat
<1>r. leases \in [LeaseIds -> LeaseRow] /\ leases[l] \in LeaseRow
  BY DEF TypeOK
<1>1. ASSUME NEW a \in Agents, NEW p \in Paths, NEW ttl \in LeaseTTLs, NEW at \in OpTimes,
             LeaseAcquire(a, l, p, ttl, at)
      PROVE  TypeOK' /\ UNCHANGED tasks
  <2>1. [state |-> "held", path |-> p, holder |-> a, expires |-> at + ttl] \in LeaseRow
    BY <1>n, TimeAssumption DEF LeaseRow
  <2> QED BY <1>1, <1>r, <2>1 DEF LeaseAcquire, TypeOK
<1>2. ASSUME NEW a \in Agents, NEW ttl \in LeaseTTLs, NEW at \in OpTimes, LeaseRenew(a, l, ttl, at)
      PROVE  TypeOK' /\ UNCHANGED tasks
  <2>1. [leases[l] EXCEPT !.expires = at + ttl] \in LeaseRow
    BY <1>n, <1>r, TimeAssumption DEF LeaseRow
  <2> QED BY <1>2, <1>r, <2>1 DEF LeaseRenew, TypeOK
<1>3. ASSUME leases' = [leases EXCEPT ![l].state = "released"], UNCHANGED <<tasks, settings, now>>
      PROVE  TypeOK' /\ UNCHANGED tasks
  <2>1. [leases[l] EXCEPT !.state = "released"] \in LeaseRow
    BY <1>r DEF LeaseRow
  <2> QED BY <1>3, <1>r, <2>1 DEF TypeOK
<1> QED BY <1>1, <1>2, <1>3 DEF LeaseOp, LeaseRelease, WorkReclaimLease, ExpireLease

LEMMA NextIInv == IInv /\ [Next]_vars => IInv'
<1> SUFFICES ASSUME IInv, [Next]_vars PROVE IInv'
  OBVIOUS
<1>t. TypeOK
  BY DEF IInv
<1>1. ASSUME NEW a \in Agents, NEW t \in TaskIds, TaskOp(a, t) PROVE IInv'
  BY <1>1, TaskOpStep
<1>2. ASSUME NEW t \in TaskIds, SystemOp(t) PROVE IInv'
  BY <1>2, SystemOpStep
<1>3. ASSUME NEW l \in LeaseIds, \/ \E a \in Agents : LeaseOp(a, l)
                                 \/ \E at \in OpTimes : ExpireLease(l, at)
      PROVE  IInv'
  BY <1>3, <1>t, LeaseOpType, OtherStep
<1>4. ASSUME NEW a \in Agents, NEW s \in SettingsChoices, WorkSettingsSet(a, s) PROVE IInv'
  <2>1. TypeOK' /\ UNCHANGED tasks
    BY <1>4, <1>t, SettingsAssumption DEF WorkSettingsSet, TypeOK
  <2> QED BY <2>1, OtherStep
<1>5. CASE Tick
  <2>1. TypeOK' /\ UNCHANGED tasks
    BY <1>5, <1>t, TimeAssumption DEF Tick, TypeOK
  <2> QED BY <2>1, OtherStep
<1>6. CASE UNCHANGED vars
  <2>1. TypeOK' /\ UNCHANGED tasks
    BY <1>6, <1>t DEF vars, TypeOK
  <2> QED BY <2>1, OtherStep
<1> QED BY <1>1, <1>2, <1>3, <1>4, <1>5, <1>6 DEF Next

LEMMA Invariance == Spec => []IInv
BY InitIInv, NextIInv, PTL DEF Spec

\* The rows keep their types, whatever the operations and their order.
THEOREM TypeCorrect == Spec => []TypeOK
BY Invariance, PTL DEF IInv

\* File claims are exclusive for any number of agents, tasks and paths.
THEOREM FilesAreExclusive == Spec => []FileExclusion
BY Invariance, PTL DEF IInv

\* No acceptance outlives the claim it was made for.
THEOREM AcceptanceBound == Spec => []AcceptanceIsOfTheClaim
BY Invariance, PTL DEF IInv

\* The digest gate holds in every reachable state.
THEOREM DigestGate == Spec => []RunsOnlyAccepted
BY Invariance, PTL DEF IInv

-----------------------------------------------------------------------------
(* Path leases. *)

\* A late renewal: stamped while the lease was active, served after it expired.
LateRenewal ==
    \E a \in Agents, l \in LeaseIds, ttl \in LeaseTTLs, at \in OpTimes :
        LeaseRenew(a, l, ttl, at) /\ leases[l].expires <= now

\* A lease without a new row that is active after a step was active before it.
LEMMA StillActive ==
    ASSUME TypeOK, now' \in Nat, now' >= now, NEW l \in LeaseIds, leases'[l] = leases[l], IsActive(l, now)'
    PROVE  IsActive(l, now)
<1>1. leases[l].expires \in Nat /\ now \in Nat
  BY DEF TypeOK, LeaseRow
<1>2. leases[l].state = "held" /\ leases[l].expires > now'
  BY DEF IsActive
<1> QED BY <1>1, <1>2 DEF IsActive

\* A step that changes no lease, or ends one, keeps leases apart.
LEMMA EndedLeases ==
    ASSUME TypeOK, LeaseExclusion, now' \in Nat, now' >= now,
           \A l \in LeaseIds : leases'[l] = leases[l] \/ leases'[l].state = "released"
    PROVE  LeaseExclusion'
<1> SUFFICES ASSUME NEW l \in LeaseIds, NEW m \in LeaseIds, IsActive(l, now)', IsActive(m, now)',
                    leases'[l].holder # leases'[m].holder
             PROVE  ~Overlap(leases'[l].path, leases'[m].path)
  BY DEF LeaseExclusion
<1>1. leases'[l] = leases[l] /\ leases'[m] = leases[m]
  BY DEF IsActive
<1>2. IsActive(l, now) /\ IsActive(m, now)
  BY <1>1, StillActive
<1> QED BY <1>1, <1>2 DEF LeaseExclusion

\* A step that writes one lease row keeps leases apart when that row overlaps no active lease of another holder.
LEMMA WrittenLease ==
    ASSUME TypeOK, LeaseExclusion, UNCHANGED now, NEW l \in LeaseIds,
           \A m \in LeaseIds : m # l => leases'[m] = leases[m],
           \A m \in LeaseIds : m # l /\ IsActive(m, now) /\ leases[m].holder # leases'[l].holder
                               => ~Overlap(leases'[l].path, leases[m].path)
    PROVE  LeaseExclusion'
<1> SUFFICES ASSUME NEW j \in LeaseIds, NEW k \in LeaseIds, IsActive(j, now)', IsActive(k, now)',
                    leases'[j].holder # leases'[k].holder
             PROVE  ~Overlap(leases'[j].path, leases'[k].path)
  BY DEF LeaseExclusion
<1>n. now \in Nat /\ now' = now
  BY DEF TypeOK
<1>0. \A m \in LeaseIds : m # l /\ IsActive(m, now)' => IsActive(m, now)
  BY <1>n, StillActive
<1>1. CASE j # l /\ k # l
  BY <1>0, <1>1 DEF LeaseExclusion
<1>2. CASE j = l
  BY <1>0, <1>2
<1>3. CASE k = l
  <2>1. ~Overlap(leases'[l].path, leases'[j].path)
    BY <1>0, <1>3
  <2> QED BY <1>3, <2>1 DEF Overlap
<1> QED BY <1>1, <1>2, <1>3

LEMMA LeaseStep ==
    ASSUME TypeOK, [Next]_vars, LeaseExclusion, ~LateRenewal PROVE LeaseExclusion'
<1>t. now \in Nat /\ leases \in [LeaseIds -> LeaseRow]
  BY DEF TypeOK
<1>u. ASSUME UNCHANGED <<leases, now>> PROVE LeaseExclusion'
  BY <1>u, <1>t, EndedLeases
<1>e. ASSUME NEW l \in LeaseIds, leases' = [leases EXCEPT ![l].state = "released"], UNCHANGED now
      PROVE  LeaseExclusion'
  <2>1. leases[l] \in LeaseRow
    BY <1>t
  <2>2. \A m \in LeaseIds : leases'[m] = leases[m] \/ leases'[m].state = "released"
    BY <1>e, <1>t, <2>1 DEF LeaseRow
  <2> QED BY <1>e, <1>t, <2>2, EndedLeases
<1>1. ASSUME NEW a \in Agents, NEW t \in TaskIds, TaskOp(a, t) PROVE LeaseExclusion'
  BY <1>1, <1>u DEF TaskOp, WorkAdd, WorkNext, WorkClaim, WorkAccept, WorkRunNamed, WorkRunInline,
                    WorkFinish, WorkCancel, WorkUpdate, WorkReclaimTask
<1>2. ASSUME NEW t \in TaskIds, SystemOp(t) PROVE LeaseExclusion'
  BY <1>2, <1>u DEF SystemOp, JobStart, JobFinish, ExpireClaim
<1>3. ASSUME NEW a \in Agents, NEW l \in LeaseIds, NEW p \in Paths, NEW ttl \in LeaseTTLs, NEW at \in OpTimes,
             LeaseAcquire(a, l, p, ttl, at)
      PROVE  LeaseExclusion'
  <2>1. /\ leases'[l].holder = a /\ leases'[l].path = p /\ UNCHANGED now
        /\ \A m \in LeaseIds : m # l => leases'[m] = leases[m]
    BY <1>3, <1>t DEF LeaseAcquire
  <2>2. at \in Nat /\ at <= now
    BY <1>t DEF OpTimes
  <2>3. ASSUME NEW m \in LeaseIds, m # l, IsActive(m, now), leases[m].holder # a
        PROVE  ~Overlap(p, leases[m].path)
    <3>1. leases[m].expires \in Nat
      BY <1>t DEF LeaseRow
    <3>2. IsActive(m, at)
      BY <1>t, <2>2, <2>3, <3>1 DEF IsActive
    <3> QED BY <1>3, <2>3, <3>2 DEF LeaseAcquire, PathFree, LeaseHolds, FilesOverlap
  <2> QED BY <2>1, <2>3, WrittenLease
<1>4. ASSUME NEW a \in Agents, NEW l \in LeaseIds, NEW ttl \in LeaseTTLs, NEW at \in OpTimes,
             LeaseRenew(a, l, ttl, at)
      PROVE  LeaseExclusion'
  <2>1. leases[l] \in LeaseRow
    BY <1>t
  <2>2. /\ leases'[l].holder = leases[l].holder /\ leases'[l].path = leases[l].path /\ UNCHANGED now
        /\ \A m \in LeaseIds : m # l => leases'[m] = leases[m]
    BY <1>4, <1>t, <2>1 DEF LeaseRenew, LeaseRow
  <2>3. IsActive(l, now)
    <3>1. ~(leases[l].expires <= now)
      BY <1>4 DEF LateRenewal
    <3>2. leases[l].state = "held" /\ leases[l].expires \in Nat
      BY <1>4, <2>1 DEF LeaseRenew, Renewable, IsActive, LeaseRow
    <3> QED BY <1>t, <3>1, <3>2 DEF IsActive
  <2> QED BY <2>2, <2>3, WrittenLease DEF LeaseExclusion
<1>5. ASSUME NEW a \in Agents, NEW l \in LeaseIds, LeaseOp(a, l) PROVE LeaseExclusion'
  BY <1>5, <1>3, <1>4, <1>e DEF LeaseOp, LeaseRelease, WorkReclaimLease
<1>6. ASSUME NEW l \in LeaseIds, NEW at \in OpTimes, ExpireLease(l, at) PROVE LeaseExclusion'
  BY <1>6, <1>e DEF ExpireLease
<1>7. CASE Tick
  BY <1>7, <1>t, EndedLeases DEF Tick
<1> QED BY <1>1, <1>2, <1>5, <1>6, <1>7, <1>u DEF Next, WorkSettingsSet, vars

\* Whatever the lag: nothing but a renewal served after its lease expired brings two holders' leases to
\* overlap.
OnlyLateRenewalsOverlap == [][LeaseExclusion /\ ~LateRenewal => LeaseExclusion']_vars

\* Acquisitions, expiries, releases, task claims and the clock never make leases overlap, at any lag: only a
\* late renewal can (`lease_renew`).
THEOREM LeasesMeetOnlyByLateRenewal == Spec => OnlyLateRenewalsOverlap
<1>1. TypeOK /\ [Next]_vars => [LeaseExclusion /\ ~LateRenewal => LeaseExclusion']_vars
  BY LeaseStep
<1> QED BY <1>1, TypeCorrect, PTL DEF Spec, OnlyLateRenewalsOverlap

\* Where every operation is served at the time it was stamped with, leases of two holders never overlap.
THEOREM LeasesAreExclusive == ASSUME MaxLag = 0 PROVE Spec => []LeaseExclusion
<1>1. Init => LeaseExclusion
  BY DEF Init, LeaseExclusion, IsActive, NoLease
<1>2. ASSUME TypeOK PROVE ~LateRenewal
  <2> SUFFICES ASSUME NEW a \in Agents, NEW l \in LeaseIds, NEW ttl \in LeaseTTLs, NEW at \in OpTimes,
                      LeaseRenew(a, l, ttl, at), leases[l].expires <= now
               PROVE  FALSE
    BY DEF LateRenewal
  <2>1. at = now /\ now \in Nat /\ leases[l].expires \in Nat
    BY <1>2 DEF OpTimes, TypeOK, LeaseRow
  <2> QED BY <2>1 DEF LeaseRenew, Renewable, IsActive
<1>3. TypeOK /\ LeaseExclusion /\ [Next]_vars => LeaseExclusion'
  BY <1>2, LeaseStep
<1> QED BY <1>1, <1>3, TypeCorrect, PTL DEF Spec

-----------------------------------------------------------------------------
(* The plan: tasks and their prerequisites.                                    *)

LEMMA LeastNumber == ASSUME NEW S \in SUBSET Nat, S # {} PROVE Min(S) \in S /\ \A n \in S : Min(S) <= n
<1> DEFINE R == OpToRel(<, Nat)
<1>1. IsWellFoundedOn(R, Nat)
  BY NatLessThanWellFounded
<1>2. \A x, y \in Nat : x < y => <<x, y>> \in R
  BY DEF OpToRel
<1> HIDE DEF R
<1>3. PICK x \in S : \A y \in S : ~(<<y, x>> \in R)
  BY <1>1, WFMin
<1>4. ASSUME NEW y \in S PROVE x <= y
  <2>1. x \in Nat /\ y \in Nat /\ ~(y < x)
    BY <1>2, <1>3
  <2> QED BY <2>1
<1> QED BY <1>4 DEF Min

LEMMA TasksAreFinite ==
    ASSUME work \in Works
    PROVE  /\ work.tasks \in Seq(TaskForm) /\ Positions = 1 .. Len(work.tasks) /\ IsFiniteSet(Positions)
           /\ \A p \in Positions : /\ Task(p).size \in Nat /\ Task(p).size >= 1 /\ Task(p).after \in Seq(Nat)
                                   /\ IsFiniteSet(After(p)) /\ AfterSet(p) \subseteq Positions /\ IsFiniteSet(AfterSet(p))
<1>1. work.tasks \in Seq(TaskForm) /\ Positions = 1 .. Len(work.tasks) /\ Len(work.tasks) \in Nat
  BY WorksAssumption DEF Positions
<1>2. IsFiniteSet(Positions)
  BY <1>1, FS_Interval
<1>3. ASSUME NEW p \in Positions
      PROVE  /\ Task(p).size \in Nat /\ Task(p).size >= 1 /\ Task(p).after \in Seq(Nat)
             /\ IsFiniteSet(After(p)) /\ AfterSet(p) \subseteq Positions /\ IsFiniteSet(AfterSet(p))
  <2>1. Task(p) \in TaskForm
    BY <1>1 DEF Task
  <2>2. Task(p).size \in Nat /\ Task(p).size >= 1 /\ Task(p).after \in Seq(Nat)
    BY <2>1 DEF TaskForm
  <2>3. DOMAIN Task(p).after = 1 .. Len(Task(p).after) /\ Len(Task(p).after) \in Nat
    BY <2>2
  <2>4. IsFiniteSet(After(p))
    <3>1. IsFiniteSet(1 .. Len(Task(p).after))
      BY <2>3, FS_Interval
    <3>2. After(p) \in SUBSET (1 .. Len(Task(p).after))
      BY <2>3 DEF After
    <3> QED BY <3>1, <3>2, FS_Subset
  <2>5. AfterSet(p) \subseteq Positions
    BY DEF AfterSet
  <2> QED BY <1>2, <2>2, <2>4, <2>5, FS_Subset
<1> QED BY <1>1, <1>2, <1>3

LEMMA DependsOn ==
    ASSUME work \in Works, NEW p \in Positions, NEW q \in Positions
    PROVE  /\ q \in Dependents(p) <=> p \in AfterSet(q)
           /\ Times(p, q) \in Nat
<1> DEFINE K == {k \in After(q) : Task(q).after[k] = Task(p).id}
<1>1. IsFiniteSet(K)
  BY TasksAreFinite, FS_Subset
<1>2. Cardinality(K) \in Nat /\ (Cardinality(K) = 0 <=> K = {})
  BY <1>1, FS_CardinalityType, FS_EmptySet
<1>3. Times(p, q) = Cardinality(K)
  BY DEF Times
<1>4. q \in Dependents(p) <=> K # {}
  BY <1>2, <1>3 DEF Dependents
<1>5. K # {} <=> p \in AfterSet(q)
  BY DEF AfterSet
<1> QED BY <1>2, <1>3, <1>4, <1>5

\* The prerequisites that are not among those taken, entry by entry.
LeftOf(q, T) == {k \in After(q) : Task(q).after[k] \notin {Task(p).id : p \in T}}

LEMMA WellFormed ==
    ASSUME ~Malformed
    PROVE  /\ work.agents \in Nat /\ work.agents >= 1
           /\ \A p, q \in Positions : Task(p).id = Task(q).id => p = q
           /\ \A p \in Positions : \A k \in After(p) : Task(p).after[k] \in Ids /\ Task(p).after[k] # Task(p).id
           /\ \A p \in Positions : p \notin AfterSet(p)
  BY DEF Malformed, AfterSet

LEMMA TakenOff ==
    ASSUME work \in Works, ~Malformed, NEW T \in SUBSET Positions, NEW t \in Positions \ T, NEW q \in Positions
    PROVE  /\ LeftOf(q, T \cup {t}) \subseteq LeftOf(q, T)
           /\ Cardinality(LeftOf(q, T)) \in Nat /\ (Cardinality(LeftOf(q, T)) = 0 <=> LeftOf(q, T) = {})
           /\ Cardinality(LeftOf(q, T \cup {t})) \in Nat /\ (Cardinality(LeftOf(q, T \cup {t})) = 0 <=> LeftOf(q, T \cup {t}) = {})
           /\ Cardinality(LeftOf(q, T \cup {t})) = Cardinality(LeftOf(q, T)) - Times(t, q)
<1> DEFINE K == {k \in After(q) : Task(q).after[k] = Task(t).id}
           A == LeftOf(q, T)
           B == LeftOf(q, T \cup {t})
<1>1. IsFiniteSet(A) /\ IsFiniteSet(B)
  BY TasksAreFinite, FS_Subset DEF LeftOf
<1>2. B = A \ K /\ A \cap K = K
  <2>1. ASSUME NEW k \in K PROVE k \in A
    <3>1. \A p \in T : Task(p).id # Task(t).id
      BY WellFormed
    <3> QED BY <3>1 DEF LeftOf
  <2>2. B = A \ K
    BY DEF LeftOf
  <2> QED BY <2>1, <2>2
<1>3. Cardinality(B) = Cardinality(A) - Cardinality(A \cap K)
  <2> HIDE DEF A, B, K
  <2> QED BY <1>1, <1>2, FS_Difference
<1>4. Times(t, q) = Cardinality(K)
  BY DEF Times
<1>5. /\ Cardinality(A) \in Nat /\ (Cardinality(A) = 0 <=> A = {}) /\ Cardinality(B) \in Nat /\ (Cardinality(B) = 0 <=> B = {})
  BY <1>1, FS_CardinalityType, FS_EmptySet
<1> QED BY <1>2, <1>3, <1>4, <1>5

-----------------------------------------------------------------------------
(* The order of the graph: each task behind its prerequisites.                 *)

Sorted(topo) ==
    /\ topo \in Seq(Positions)
    /\ \A i \in 1 .. Len(topo) : \A q \in AfterSet(topo[i]) : \E j \in 1 .. i - 1 : topo[j] = q
GraphOk(d) ==
    /\ Sorted(d.topo)
    /\ \A q \in Positions : d.degree[q] = Cardinality(LeftOf(q, Range(d.topo)))
    /\ d.ready = {q \in Positions \ Range(d.topo) : LeftOf(q, Range(d.topo)) = {}}

LEMMA NatMax == ASSUME NEW n \in Nat PROVE Max({0, n}) = n
<1>1. Max({0, n}) = CHOOSE x \in {0, n} : \A y \in {0, n} : x >= y
  BY DEF Max
<1>2. n \in {0, n} /\ \A y \in {0, n} : n >= y
  OBVIOUS
<1>3. \A x \in {0, n} : (\A y \in {0, n} : x >= y) => x = n
  OBVIOUS
<1> QED BY <1>1, <1>2, <1>3

LEMMA SortedBehind ==
    ASSUME work \in Works, NEW topo, Sorted(topo)
    PROVE  Range(topo) \subseteq Positions /\ \A p \in Range(topo) : AfterSet(p) \subseteq Range(topo)
<1>1. topo \in Seq(Positions) /\ Len(topo) \in Nat /\ DOMAIN topo = 1 .. Len(topo)
  BY DEF Sorted
<1>2. ASSUME NEW p \in Range(topo), NEW q \in AfterSet(p) PROVE q \in Range(topo)
  <2>1. PICK i \in 1 .. Len(topo) : p = topo[i]
    BY <1>1 DEF Range
  <2>2. PICK j \in 1 .. i - 1 : topo[j] = q
    BY <2>1 DEF Sorted
  <2>3. j \in 1 .. Len(topo)
    BY <1>1
  <2> QED BY <1>1, <2>2, <2>3 DEF Range
<1> QED BY <1>1, <1>2 DEF Range

\* The next task is behind what is taken.
LEMMA SortedGrows ==
    ASSUME work \in Works, NEW topo, Sorted(topo), NEW t \in Positions, AfterSet(t) \subseteq Range(topo)
    PROVE  Sorted(Append(topo, t)) /\ Range(Append(topo, t)) = Range(topo) \cup {t}
<1> DEFINE u == Append(topo, t)
           n == Len(topo)
<1>1. topo \in Seq(Positions) /\ n \in Nat /\ DOMAIN topo = 1 .. n
  BY DEF Sorted
<1>2. u \in Seq(Positions) /\ Len(u) = n + 1 /\ DOMAIN u = 1 .. n + 1 /\ u[n + 1] = t /\ \A i \in 1 .. n : u[i] = topo[i]
  BY <1>1
<1> HIDE DEF u
<1>3. Range(u) = Range(topo) \cup {t}
  <2>1. ASSUME NEW x \in Range(u) PROVE x \in Range(topo) \cup {t}
    <3>1. PICK i \in 1 .. n + 1 : x = u[i]
      BY <1>2 DEF Range
    <3>2. CASE i = n + 1
      BY <1>2, <3>1, <3>2
    <3>3. CASE i # n + 1
      <4>1. i \in 1 .. n
        BY <1>1, <3>3
      <4> QED BY <1>1, <1>2, <3>1, <4>1 DEF Range
    <3> QED BY <3>2, <3>3
  <2>2. ASSUME NEW x \in Range(topo) PROVE x \in Range(u)
    <3>1. PICK i \in 1 .. n : x = topo[i]
      BY <1>1 DEF Range
    <3>2. i \in 1 .. n + 1 /\ u[i] = x
      BY <1>1, <1>2, <3>1
    <3> QED BY <1>2, <3>2 DEF Range
  <2>3. t \in Range(u)
    <3>1. n + 1 \in 1 .. n + 1
      BY <1>1
    <3> QED BY <1>2, <3>1 DEF Range
  <2> QED BY <2>1, <2>2, <2>3
<1>4. ASSUME NEW i \in 1 .. Len(u), NEW q \in AfterSet(u[i]) PROVE \E j \in 1 .. i - 1 : u[j] = q
  <2>1. CASE i = n + 1
    <3>1. q \in Range(topo)
      BY <1>2, <2>1
    <3>2. PICK j \in 1 .. n : topo[j] = q
      BY <1>1, <3>1 DEF Range
    <3>3. j \in 1 .. i - 1 /\ u[j] = q
      BY <1>1, <1>2, <2>1, <3>2
    <3> QED BY <3>3
  <2>2. CASE i # n + 1
    <3>1. i \in 1 .. n /\ u[i] = topo[i]
      BY <1>1, <1>2, <2>2
    <3>2. PICK j \in 1 .. i - 1 : topo[j] = q
      BY <3>1 DEF Sorted
    <3>3. j \in 1 .. n
      BY <1>1, <3>1
    <3> QED BY <1>2, <3>2, <3>3
  <2> QED BY <2>1, <2>2
<1>5. Sorted(u)
  BY <1>2, <1>4 DEF Sorted
<1> QED BY <1>3, <1>5 DEF u

LEMMA PopKeepsGraph ==
    ASSUME work \in Works, ~Malformed, NEW d, GraphOk(d), NEW e, NEW t \in d.ready,
           e.topo = Append(d.topo, t), e.degree = [q \in Positions |-> Max({0, d.degree[q] - Times(t, q)})],
           e.ready = (d.ready \ {t}) \union {q \in Dependents(t) : d.degree[q] <= Times(t, q)}
    PROVE  GraphOk(e)
<1> DEFINE T == Range(d.topo)
           U == Range(e.topo)
<1>1. t \in Positions /\ t \notin T /\ LeftOf(t, T) = {} /\ Sorted(d.topo)
  BY DEF GraphOk
<1>2. T \subseteq Positions /\ \A p \in T : AfterSet(p) \subseteq T
  BY <1>1, SortedBehind
<1>3. AfterSet(t) \subseteq T
  <2> SUFFICES ASSUME NEW q \in AfterSet(t) PROVE q \in T
    OBVIOUS
  <2>1. PICK k \in After(t) : Task(t).after[k] = Task(q).id
    BY DEF AfterSet
  <2>2. Task(t).after[k] \in {Task(p).id : p \in T}
    BY <1>1, <2>1 DEF LeftOf
  <2>3. PICK p \in T : Task(p).id = Task(q).id
    BY <2>1, <2>2
  <2>4. p \in Positions /\ q \in Positions
    BY <1>2, <2>3 DEF AfterSet
  <2> QED BY <2>3, <2>4, WellFormed
<1>4. Sorted(e.topo) /\ U = T \cup {t}
  BY <1>1, <1>3, SortedGrows
<1> HIDE DEF T, U
<1>5. ASSUME NEW q \in Positions
      PROVE  /\ d.degree[q] = Cardinality(LeftOf(q, T)) /\ d.degree[q] \in Nat /\ Times(t, q) \in Nat
             /\ (d.degree[q] = 0 <=> LeftOf(q, T) = {}) /\ LeftOf(q, U) \subseteq LeftOf(q, T)
             /\ Cardinality(LeftOf(q, U)) = d.degree[q] - Times(t, q) /\ Cardinality(LeftOf(q, U)) \in Nat
             /\ (Cardinality(LeftOf(q, U)) = 0 <=> LeftOf(q, U) = {})
             /\ (q \in Dependents(t) <=> t \in AfterSet(q)) /\ (q \in Dependents(t) <=> Times(t, q) > 0)
  <2>1. d.degree[q] = Cardinality(LeftOf(q, T))
    BY DEF GraphOk, T
  <2>2. t \in Positions \ T /\ T \in SUBSET Positions
    BY <1>1, <1>2 DEF T
  <2>3. q \in Dependents(t) <=> Times(t, q) > 0
    BY DEF Dependents
  <2>4. /\ LeftOf(q, T \cup {t}) \subseteq LeftOf(q, T)
        /\ Cardinality(LeftOf(q, T)) \in Nat /\ (Cardinality(LeftOf(q, T)) = 0 <=> LeftOf(q, T) = {})
        /\ Cardinality(LeftOf(q, T \cup {t})) \in Nat /\ (Cardinality(LeftOf(q, T \cup {t})) = 0 <=> LeftOf(q, T \cup {t}) = {})
        /\ Cardinality(LeftOf(q, T \cup {t})) = Cardinality(LeftOf(q, T)) - Times(t, q)
    BY <2>2, TakenOff
  <2>5. (q \in Dependents(t) <=> t \in AfterSet(q)) /\ Times(t, q) \in Nat
    BY <1>1, DependsOn
  <2> QED BY ONLY <1>4, <2>1, <2>3, <2>4, <2>5
<1>6. \A q \in Positions : e.degree[q] = Cardinality(LeftOf(q, U))
  BY <1>5, NatMax
<1>7. ASSUME NEW q \in Positions PROVE q \in e.ready <=> q \notin U /\ LeftOf(q, U) = {}
  <2>0. q \in d.ready <=> q \notin T /\ LeftOf(q, T) = {}
    BY DEF GraphOk, T
  <2>1. q \in e.ready <=> (q \in d.ready /\ q # t) \/ (q \in Dependents(t) /\ d.degree[q] <= Times(t, q))
    OBVIOUS
  <2>2. ASSUME q \in Dependents(t) PROVE q \notin T /\ q # t
    <3>1. t \in AfterSet(q)
      BY <1>5, <2>2
    <3> QED BY <1>1, <1>2, <3>1, WellFormed DEF T
  <2>3. (d.degree[q] <= Times(t, q)) <=> LeftOf(q, U) = {}
    BY <1>5
  <2>4. q \notin Dependents(t) => (LeftOf(q, U) = {} <=> LeftOf(q, T) = {})
    BY <1>5
  <2>5. LeftOf(q, T) = {} => LeftOf(q, U) = {}
    BY <1>5
  <2> QED BY <1>4, <2>0, <2>1, <2>2, <2>3, <2>4, <2>5
<1>8. e.ready \subseteq Positions
  BY DEF GraphOk, Dependents
<1>9. e.ready = {q \in Positions \ U : LeftOf(q, U) = {}}
  BY <1>7, <1>8
<1> QED BY <1>4, <1>6, <1>9 DEF GraphOk, U


-----------------------------------------------------------------------------
(* The slots of a plan.                                                        *)

StartedIn(d) == {s.task : s \in d.slots}
OverIn(d)    == {s.task : s \in d.slots \ d.running}
AgentsOf(S) == {s.agent : s \in S}
EndsOf(S) == {s.end : s \in S}
EndingAt(S, instant) == {s \in S : s.end = instant}
TasksOf(S) == {s.task : s \in S}
Awaiting(S, q) == {s \in S : q \in Dependents(s.task)}
OverBy(d, done) == OverIn(d) \cup TasksOf(done)
LeftBy(d, done, q) == d.degree[q] - Cardinality(Awaiting(done, q))
SlotRow == [task : Positions, agent : Nat, start : Nat, end : Nat]

KeepApart(s, t) ==
    /\ s.task \in AfterSet(t.task) => s.end <= t.start
    /\ s # t /\ (s.agent = t.agent \/ Conflict(s.task, t.task)) => s.end <= t.start \/ t.end <= s.start
\* Slots and the time: what runs has not ended, what does not has, and an agent is free or runs one.
SlotsOk(d) ==
    /\ d.now \in Nat /\ d.slots \subseteq SlotRow /\ d.running \subseteq d.slots /\ d.free \subseteq Nat
    /\ \A s \in d.slots : s.start <= d.now /\ (s \in d.running => d.now < s.end) /\ (s \notin d.running => s.end <= d.now)
    /\ \A r \in d.running : r.agent \notin d.free
    /\ \A a \in 1 .. work.agents : a \in d.free \/ \E r \in d.running : r.agent = a
    /\ \A s, t \in d.slots : (s.task = t.task => s = t) /\ KeepApart(s, t)
\* What has begun or may begin has its prerequisites behind it, and whatever has may begin.
ReadyOk(d) ==
    /\ d.ready \cup d.waiting \subseteq Positions \ StartedIn(d) /\ d.ready \cap d.waiting = {}
    /\ \A q \in d.ready \cup d.waiting \cup StartedIn(d) : AfterSet(q) \subseteq OverIn(d)
    /\ \A q \in Positions \ StartedIn(d) : AfterSet(q) \subseteq OverIn(d) => q \in d.ready \cup d.waiting
    /\ \A q \in Positions : d.degree[q] = Cardinality(AfterSet(q) \ OverIn(d))
    /\ d.waiting # {} => d.running # {}

LEMMA ConflictBoth == ASSUME NEW p, NEW q PROVE Conflict(p, q) <=> Conflict(q, p)
  BY DEF Conflict, Overlapping

LEMMA StartKeeps ==
    ASSUME work \in Works, ~Malformed, NEW d, SlotsOk(d), ReadyOk(d), NEW e, NEW t \in d.ready, NEW a \in d.free,
           \A r \in d.running : ~Conflict(t, r.task),
           NEW n, n = [task |-> t, agent |-> a, start |-> d.now, end |-> d.now + Task(t).size],
           e.now = d.now, e.slots = d.slots \cup {n}, e.running = d.running \cup {n}, e.free = d.free \ {a},
           e.ready = d.ready \ {t}, e.waiting = d.waiting, e.degree = d.degree
    PROVE  SlotsOk(e) /\ ReadyOk(e)
<1>1. /\ t \in Positions /\ t \notin StartedIn(d) /\ AfterSet(t) \subseteq OverIn(d) /\ d.now \in Nat /\ a \in Nat
      /\ d.slots \subseteq SlotRow /\ d.running \subseteq d.slots
  BY DEF ReadyOk, SlotsOk
<1>2. Task(t).size \in Nat /\ Task(t).size >= 1
  BY <1>1, TasksAreFinite
<1>3. n \in SlotRow /\ n.task = t /\ n.agent = a /\ n.start = d.now /\ n.end = d.now + Task(t).size /\ d.now < n.end /\ n.end \in Nat
  BY <1>1, <1>2 DEF SlotRow
<1>4. n \notin d.slots
  BY <1>1, <1>3 DEF StartedIn
<1>5. StartedIn(e) = StartedIn(d) \cup {t} /\ OverIn(e) = OverIn(d)
  <2>1. e.slots \ e.running = d.slots \ d.running
    BY <1>4
  <2>2. StartedIn(e) = StartedIn(d) \cup {t}
    BY <1>3 DEF StartedIn
  <2> QED BY <2>1, <2>2 DEF OverIn
<1>6. ASSUME NEW s \in d.slots PROVE KeepApart(s, n) /\ KeepApart(n, s) /\ s.task # n.task
  <2>0. s.task \in StartedIn(d) /\ s.task # t /\ s \in SlotRow
    BY <1>1 DEF StartedIn
  <2>1. s.task \in AfterSet(t) => s.end <= d.now
    <3>1. SUFFICES ASSUME s.task \in OverIn(d) PROVE s.end <= d.now
      BY <1>1
    <3>2. PICK s2 \in d.slots \ d.running : s2.task = s.task
      BY <3>1 DEF OverIn
    <3>3. s2 = s
      BY <3>2 DEF SlotsOk
    <3> QED BY <3>2, <3>3 DEF SlotsOk
  <2>2. t \notin AfterSet(s.task)
    <3>1. AfterSet(s.task) \subseteq OverIn(d)
      BY <2>0 DEF ReadyOk
    <3>2. OverIn(d) \subseteq StartedIn(d)
      BY DEF OverIn, StartedIn
    <3> QED BY <1>1, <3>1, <3>2
  <2>3. s \notin d.running => s.end <= d.now
    BY DEF SlotsOk
  <2>4. s \in d.running => s.agent # a /\ ~Conflict(s.task, t) /\ ~Conflict(t, s.task)
    BY ConflictBoth DEF SlotsOk
  <2>5. KeepApart(s, n)
    BY <1>3, <2>1, <2>3, <2>4 DEF KeepApart
  <2>6. KeepApart(n, s)
    BY <1>3, <2>2, <2>3, <2>4 DEF KeepApart
  <2> QED BY <1>3, <2>0, <2>5, <2>6
<1>7. KeepApart(n, n)
  BY <1>1, <1>3, WellFormed DEF KeepApart
<1>8. \A x, y \in e.slots : (x.task = y.task => x = y) /\ KeepApart(x, y)
  <2> SUFFICES ASSUME NEW x \in e.slots, NEW y \in e.slots PROVE (x.task = y.task => x = y) /\ KeepApart(x, y)
    OBVIOUS
  <2>1. CASE x = n /\ y = n
    BY <1>7, <2>1
  <2>2. CASE x = n /\ y \in d.slots
    BY <1>6, <2>2
  <2>3. CASE x \in d.slots /\ y = n
    BY <1>6, <2>3
  <2>4. CASE x \in d.slots /\ y \in d.slots
    BY <2>4 DEF SlotsOk
  <2> QED BY <2>1, <2>2, <2>3, <2>4
<1>9. \A s \in e.slots : s.start <= e.now /\ (s \in e.running => e.now < s.end) /\ (s \notin e.running => s.end <= e.now)
  <2> SUFFICES ASSUME NEW s \in e.slots
               PROVE s.start <= e.now /\ (s \in e.running => e.now < s.end) /\ (s \notin e.running => s.end <= e.now)
    OBVIOUS
  <2>1. CASE s = n
    BY <1>1, <1>3, <2>1
  <2>2. CASE s \in d.slots
    BY <1>4, <2>2 DEF SlotsOk
  <2> QED BY <2>1, <2>2
<1>10. \A r \in e.running : r.agent \notin e.free
  BY <1>3 DEF SlotsOk
<1>11. \A b \in 1 .. work.agents : b \in e.free \/ \E r \in e.running : r.agent = b
  <2> SUFFICES ASSUME NEW b \in 1 .. work.agents, b \notin e.free PROVE \E r \in e.running : r.agent = b
    OBVIOUS
  <2>1. CASE b = a
    BY <1>3, <2>1
  <2>2. CASE b # a
    BY <2>2 DEF SlotsOk
  <2> QED BY <2>1, <2>2
<1>12. SlotsOk(e)
  <2>1. e.now \in Nat /\ e.slots \subseteq SlotRow /\ e.running \subseteq e.slots /\ e.free \subseteq Nat
    BY <1>1, <1>3 DEF SlotsOk
  <2> QED BY <1>8, <1>9, <1>10, <1>11, <2>1 DEF SlotsOk
<1>13. ReadyOk(e)
  <2>1. e.ready \cup e.waiting \subseteq Positions \ StartedIn(e) /\ e.ready \cap e.waiting = {}
    BY <1>5 DEF ReadyOk
  <2>2. \A q \in e.ready \cup e.waiting \cup StartedIn(e) : AfterSet(q) \subseteq OverIn(e)
    BY <1>1, <1>5 DEF ReadyOk
  <2>3. \A q \in Positions \ StartedIn(e) : AfterSet(q) \subseteq OverIn(e) => q \in e.ready \cup e.waiting
    BY <1>5 DEF ReadyOk
  <2>4. \A q \in Positions : e.degree[q] = Cardinality(AfterSet(q) \ OverIn(e))
    BY <1>5 DEF ReadyOk
  <2>5. e.running # {}
    OBVIOUS
  <2> QED BY <2>1, <2>2, <2>3, <2>4, <2>5 DEF ReadyOk
<1> QED BY <1>12, <1>13

LEMMA HoldKeeps ==
    ASSUME NEW d, SlotsOk(d), ReadyOk(d), NEW e, NEW t \in d.ready, d.running # {},
           e.now = d.now, e.slots = d.slots, e.running = d.running, e.free = d.free,
           e.ready = d.ready \ {t}, e.waiting = d.waiting \cup {t}, e.degree = d.degree
    PROVE  SlotsOk(e) /\ ReadyOk(e)
<1>1. SlotsOk(e)
  BY DEF SlotsOk
<1>2. StartedIn(e) = StartedIn(d) /\ OverIn(e) = OverIn(d) /\ e.ready \cup e.waiting = d.ready \cup d.waiting /\ e.ready \cap e.waiting = {}
  BY DEF StartedIn, OverIn, ReadyOk
<1>3. ReadyOk(e)
  BY <1>2 DEF ReadyOk
<1> QED BY <1>1, <1>3

\* The slots that end together stand for as many prerequisites.
LEMMA EndsTogether ==
    ASSUME work \in Works, NEW d, SlotsOk(d), NEW done \in SUBSET d.running, NEW q \in Positions
    PROVE  /\ Cardinality(AfterSet(q) \ OverIn(d)) \in Nat
           /\ Cardinality((AfterSet(q) \ OverIn(d)) \ TasksOf(done)) \in Nat
           /\ Cardinality((AfterSet(q) \ OverIn(d)) \ TasksOf(done))
                = Cardinality(AfterSet(q) \ OverIn(d)) - Cardinality(Awaiting(done, q))
<1> DEFINE A == AfterSet(q) \ OverIn(d)
           D == {r.task : r \in done}
           R == {r \in done : q \in Dependents(r.task)}
           f == [r \in R |-> r.task]
<1>0. d.slots \subseteq SlotRow /\ d.running \subseteq d.slots /\ done \subseteq d.slots
  BY DEF SlotsOk
<1>1. IsFiniteSet(A) /\ IsFiniteSet(A \ D) /\ IsFiniteSet(A \cap D)
  BY TasksAreFinite, FS_Subset
<1>2. \A r \in done : r.task \in Positions /\ r.task \notin OverIn(d) /\ (q \in Dependents(r.task) <=> r.task \in AfterSet(q))
  <2> SUFFICES ASSUME NEW r \in done
               PROVE  r.task \in Positions /\ r.task \notin OverIn(d) /\ (q \in Dependents(r.task) <=> r.task \in AfterSet(q))
    OBVIOUS
  <2>1. r \in SlotRow /\ r.task \in Positions /\ r \in d.running
    BY <1>0 DEF SlotRow
  <2>2. r.task \notin OverIn(d)
    <3>1. SUFFICES ASSUME NEW s \in d.slots \ d.running, s.task = r.task PROVE FALSE
      BY DEF OverIn
    <3> QED BY <1>0, <2>1, <3>1 DEF SlotsOk
  <2> QED BY <2>1, <2>2, DependsOn
<1>3. f \in Bijection(R, A \cap D)
  <2>1. f \in [R -> A \cap D]
    BY <1>2
  <2>2. \A x, y \in R : f[x] = f[y] => x = y
    BY <1>0 DEF SlotsOk
  <2>3. \A p \in A \cap D : \E x \in R : f[x] = p
    BY <1>2
  <2> HIDE DEF f, R, A, D
  <2>4. f \in Injection(R, A \cap D)
    BY <2>1, <2>2 DEF Injection, IsInjective
  <2>5. f \in Surjection(R, A \cap D)
    BY <2>1, <2>3 DEF Surjection
  <2> QED BY <2>4, <2>5 DEF Bijection
<1>4. Cardinality(R) = Cardinality(A \cap D)
  <2> HIDE DEF f, R, A, D
  <2>1. f \in Injection(R, A \cap D) /\ f \in Surjection(R, A \cap D)
    BY <1>3 DEF Bijection
  <2> QED BY <1>1, <2>1, FS_Injection
<1>5. Cardinality(A \ D) = Cardinality(A) - Cardinality(A \cap D)
  <2> HIDE DEF A, D
  <2> QED BY <1>1, FS_Difference
<1>6. Cardinality(A) \in Nat /\ Cardinality(A \ D) \in Nat
  BY <1>1, FS_CardinalityType
<1>7. D = TasksOf(done) /\ R = Awaiting(done, q)
  BY DEF TasksOf, Awaiting
<1> HIDE DEF A, D, R
<1> QED BY <1>4, <1>5, <1>6, <1>7 DEF A

LEMMA AdvanceSlots ==
    ASSUME NEW d, SlotsOk(d), NEW e, d.running # {},
           NEW instant, instant = Min(EndsOf(d.running)), NEW done, done = EndingAt(d.running, instant),
           e.now = instant, e.slots = d.slots, e.running = d.running \ done, e.free = d.free \cup AgentsOf(done)
    PROVE  /\ SlotsOk(e) /\ done \in SUBSET d.running
           /\ StartedIn(e) = StartedIn(d) /\ OverIn(e) = OverIn(d) \cup TasksOf(done)
<1>0. done = {r \in d.running : r.end = instant} /\ e.free = d.free \cup {r.agent : r \in done} /\ instant = Min({r.end : r \in d.running})
  BY DEF EndingAt, EndsOf, AgentsOf
<1>1. /\ d.now \in Nat /\ d.slots \subseteq SlotRow /\ d.running \subseteq d.slots /\ done \subseteq d.running
      /\ \A s \in d.slots : s.task \in Positions /\ s.agent \in Nat /\ s.start \in Nat /\ s.end \in Nat
  BY <1>0 DEF SlotsOk, SlotRow
<1>2. instant \in Nat /\ d.now < instant /\ \A r \in d.running : instant <= r.end
  <2> DEFINE E == {r.end : r \in d.running}
  <2>1. E \in SUBSET Nat
    BY <1>1
  <2>2. E # {} /\ \A x \in E : d.now < x
    BY <1>1 DEF SlotsOk
  <2>3. instant \in E /\ \A x \in E : instant <= x
    <3>1. instant = Min(E)
      BY <1>0
    <3>2. E # {}
      BY <2>2
    <3> HIDE DEF E
    <3>3. Min(E) \in E /\ \A x \in E : Min(E) <= x
      BY ONLY <2>1, <3>2, LeastNumber
    <3> QED BY ONLY <3>1, <3>3
  <2> QED BY <2>1, <2>2, <2>3
<1>3. StartedIn(e) = StartedIn(d) /\ OverIn(e) = OverIn(d) \cup TasksOf(done)
  <2>1. e.slots \ e.running = (d.slots \ d.running) \cup done
    BY <1>1
  <2>2. OverIn(e) = {s.task : s \in (d.slots \ d.running) \cup done}
    BY <2>1 DEF OverIn
  <2>3. StartedIn(e) = StartedIn(d)
    BY DEF StartedIn
  <2>4. {s.task : s \in (d.slots \ d.running) \cup done} = OverIn(d) \cup TasksOf(done)
    BY DEF OverIn, TasksOf
  <2> QED BY <2>2, <2>3, <2>4
<1>4. SlotsOk(e)
  <2>1. \A s \in e.slots : s.start <= e.now /\ (s \in e.running => e.now < s.end) /\ (s \notin e.running => s.end <= e.now)
    <3> SUFFICES ASSUME NEW s \in d.slots
                 PROVE s.start <= instant /\ (s \in e.running => instant < s.end) /\ (s \notin e.running => s.end <= instant)
      OBVIOUS
    <3>1. s.start <= d.now /\ (s \notin d.running => s.end <= d.now) /\ s.start \in Nat /\ s.end \in Nat
      BY <1>1 DEF SlotsOk
    <3>2. s \in d.running => instant <= s.end
      BY <1>2
    <3>3. s \in e.running => s \in d.running /\ s.end # instant
      BY <1>0
    <3>4. s \notin e.running => s \notin d.running \/ s.end = instant
      BY <1>0
    <3> QED BY <1>1, <1>2, <3>1, <3>2, <3>3, <3>4
  <2>2. ASSUME NEW r \in e.running PROVE r.agent \notin e.free
    <3>0. r \in d.running /\ r \in d.slots /\ r \notin done
      BY <1>1
    <3>1. r.agent \notin d.free
      BY <3>0 DEF SlotsOk
    <3>2. ASSUME NEW x \in done PROVE r.agent # x.agent
      <4>1. x \in d.slots /\ x \in d.running /\ r # x
        BY <1>1, <3>0
      <4>2. KeepApart(r, x) /\ r.start <= d.now /\ d.now < r.end /\ x.start <= d.now /\ d.now < x.end
        BY <3>0, <4>1 DEF SlotsOk
      <4>3. r.start \in Nat /\ r.end \in Nat /\ x.start \in Nat /\ x.end \in Nat
        BY <1>1, <3>0, <4>1
      <4>4. ~(r.end <= x.start) /\ ~(x.end <= r.start)
        BY <1>1, <4>2, <4>3
      <4> QED BY <4>1, <4>2, <4>4 DEF KeepApart
    <3> QED BY <1>0, <3>1, <3>2
  <2>3. \A b \in 1 .. work.agents : b \in e.free \/ \E r \in e.running : r.agent = b
    BY <1>0 DEF SlotsOk
  <2>4. e.now \in Nat /\ e.slots \subseteq SlotRow /\ e.running \subseteq e.slots /\ e.free \subseteq Nat
    <3>1. \A r \in done : r.agent \in Nat
      BY <1>1
    <3>2. d.free \subseteq Nat
      BY DEF SlotsOk
    <3>3. e.free \subseteq Nat
      BY ONLY <1>0, <3>1, <3>2
    <3> QED BY <1>1, <1>2, <3>3
  <2>5. \A s, t \in e.slots : (s.task = t.task => s = t) /\ KeepApart(s, t)
    BY DEF SlotsOk
  <2> QED BY <2>1, <2>2, <2>3, <2>4, <2>5 DEF SlotsOk
<1> QED BY <1>1, <1>3, <1>4

LEMMA AdvanceCounts ==
    ASSUME work \in Works, NEW d, SlotsOk(d), ReadyOk(d), NEW done \in SUBSET d.running, NEW q \in Positions
    PROVE  /\ d.degree[q] \in Nat /\ (d.degree[q] = 0 <=> AfterSet(q) \subseteq OverIn(d))
           /\ LeftBy(d, done, q) = Cardinality(AfterSet(q) \ OverBy(d, done))
           /\ LeftBy(d, done, q) = 0 <=> AfterSet(q) \subseteq OverBy(d, done)
<1> DEFINE A == AfterSet(q) \ OverIn(d)
           B == AfterSet(q) \ OverBy(d, done)
<1>1. B = A \ TasksOf(done)
  BY DEF OverBy
<1>2. Cardinality(A) \in Nat /\ Cardinality(B) \in Nat /\ Cardinality(B) = Cardinality(A) - Cardinality(Awaiting(done, q))
  <2>1. Cardinality(A) \in Nat /\ Cardinality(A \ TasksOf(done)) \in Nat
        /\ Cardinality(A \ TasksOf(done)) = Cardinality(A) - Cardinality(Awaiting(done, q))
    BY EndsTogether
  <2> HIDE DEF A, B
  <2> QED BY <1>1, <2>1
<1>3. d.degree[q] = Cardinality(A)
  BY DEF ReadyOk
<1>4. IsFiniteSet(A) /\ IsFiniteSet(B)
  BY TasksAreFinite, FS_Subset
<1>5. (Cardinality(A) = 0 <=> A = {}) /\ (Cardinality(B) = 0 <=> B = {})
  BY <1>4, FS_EmptySet
<1> QED BY <1>2, <1>3, <1>5 DEF LeftBy

LEMMA AdvanceReady ==
    ASSUME work \in Works, NEW d, SlotsOk(d), ReadyOk(d), NEW e, NEW done \in SUBSET d.running,
           StartedIn(e) = StartedIn(d), OverIn(e) = OverIn(d) \cup TasksOf(done),
           \A q \in Positions : e.degree[q] = d.degree[q] - Cardinality(Awaiting(done, q)),
           e.ready = d.ready \cup d.waiting \cup {q \in Positions : e.degree[q] = 0 /\ d.degree[q] > 0},
           e.waiting = {}
    PROVE  ReadyOk(e)
<1>1. \A q \in StartedIn(d) : q \in Positions /\ AfterSet(q) \subseteq OverIn(d)
  BY DEF ReadyOk, StartedIn, SlotsOk, SlotRow
<1>2. ASSUME NEW q \in Positions
      PROVE  /\ d.degree[q] \in Nat /\ (d.degree[q] = 0 <=> AfterSet(q) \subseteq OverIn(d))
             /\ e.degree[q] = Cardinality(AfterSet(q) \ OverIn(e)) /\ (e.degree[q] = 0 <=> AfterSet(q) \subseteq OverIn(e))
  <2>1. e.degree[q] = LeftBy(d, done, q) /\ OverIn(e) = OverBy(d, done)
    BY DEF LeftBy, OverBy
  <2>2. /\ d.degree[q] \in Nat /\ (d.degree[q] = 0 <=> AfterSet(q) \subseteq OverIn(d))
        /\ LeftBy(d, done, q) = Cardinality(AfterSet(q) \ OverBy(d, done))
        /\ LeftBy(d, done, q) = 0 <=> AfterSet(q) \subseteq OverBy(d, done)
    BY AdvanceCounts
  <2> QED BY <2>1, <2>2
<1>3. e.ready \cup e.waiting \subseteq Positions \ StartedIn(e) /\ e.ready \cap e.waiting = {}
  <2>1. \A q \in Positions : d.degree[q] > 0 => q \notin StartedIn(d)
    <3> SUFFICES ASSUME NEW q \in StartedIn(d), d.degree[q] > 0 PROVE FALSE
      OBVIOUS
    <3>1. d.degree[q] = 0
      BY <1>1, <1>2
    <3> QED BY <3>1
  <2>2. d.ready \cup d.waiting \subseteq Positions \ StartedIn(d)
    BY DEF ReadyOk
  <2> QED BY <2>1, <2>2
<1>4. ASSUME NEW q \in e.ready \cup e.waiting \cup StartedIn(e) PROVE AfterSet(q) \subseteq OverIn(e)
  <2>1. CASE q \in d.ready \cup d.waiting \cup StartedIn(d)
    BY <2>1 DEF ReadyOk
  <2>2. CASE q \in Positions /\ e.degree[q] = 0
    BY <1>2, <2>2
  <2> QED BY <2>1, <2>2
<1>5. ASSUME NEW q \in Positions \ StartedIn(e), AfterSet(q) \subseteq OverIn(e) PROVE q \in e.ready \cup e.waiting
  <2>1. CASE d.degree[q] = 0
    BY <1>2, <2>1 DEF ReadyOk
  <2>2. CASE d.degree[q] # 0
    <3>0. d.degree[q] \in Nat /\ e.degree[q] = 0
      BY <1>2, <1>5
    <3>1. d.degree[q] > 0
      BY <2>2, <3>0
    <3> QED BY <3>0, <3>1
  <2> QED BY <2>1, <2>2
<1> QED BY <1>2, <1>3, <1>4, <1>5 DEF ReadyOk

\* When nothing runs and nothing is ready, every task has had its slot: else the first in the order of the graph that has
\* none could begin.
LEMMA EndIsWhole ==
    ASSUME work \in Works, ~Malformed, NEW d, SlotsOk(d), ReadyOk(d), Sorted(d.topo), Range(d.topo) = Positions,
           d.free = {} \/ d.ready = {}, d.running = {}
    PROVE  \A p \in Positions : Cardinality({s \in d.slots : s.task = p}) = 1
<1>1. d.ready = {} /\ d.waiting = {}
  <2>1. 1 \in 1 .. work.agents
    BY WellFormed
  <2>2. d.free # {}
    BY <2>1 DEF SlotsOk
  <2> QED BY <2>2 DEF ReadyOk
<1>2. OverIn(d) = StartedIn(d)
  BY DEF OverIn, StartedIn
<1>3. \A q \in Positions \ StartedIn(d) : \E p \in AfterSet(q) : p \in Positions \ StartedIn(d)
  <2> SUFFICES ASSUME NEW q \in Positions \ StartedIn(d) PROVE \E p \in AfterSet(q) : p \in Positions \ StartedIn(d)
    OBVIOUS
  <2>1. ~(AfterSet(q) \subseteq OverIn(d))
    BY <1>1 DEF ReadyOk
  <2> QED BY <1>2, <2>1 DEF AfterSet
<1> DEFINE n == Len(d.topo)
           I == {i \in 1 .. n : d.topo[i] \notin StartedIn(d)}
<1>4. n \in Nat /\ d.topo \in Seq(Positions) /\ DOMAIN d.topo = 1 .. n /\ \A i \in 1 .. n : d.topo[i] \in Positions
  BY DEF Sorted
<1>5. I = {}
  <2>1. SUFFICES ASSUME I # {} PROVE FALSE
    OBVIOUS
  <2>2. PICK i \in I : \A j \in I : i <= j
    <3>1. I \in SUBSET Nat
      BY <1>4
    <3> HIDE DEF I
    <3> QED BY <2>1, <3>1, LeastNumber
  <2>3. PICK p \in AfterSet(d.topo[i]) : p \in Positions \ StartedIn(d)
    BY <1>3, <1>4, <2>2
  <2>4. PICK j \in 1 .. i - 1 : d.topo[j] = p
    BY <2>2, <2>3 DEF Sorted
  <2>5. j \in 1 .. n /\ j < i
    BY <1>4, <2>2, <2>4
  <2>6. j \in I
    BY <2>3, <2>4, <2>5
  <2> QED BY <1>4, <2>2, <2>5, <2>6
<1>6. ASSUME NEW p \in Positions PROVE Cardinality({s \in d.slots : s.task = p}) = 1
  <2>1. p \in StartedIn(d)
    <3>1. PICK i \in 1 .. n : d.topo[i] = p
      BY <1>4 DEF Range
    <3> QED BY <1>5, <3>1
  <2>2. PICK s \in d.slots : s.task = p
    BY <2>1 DEF StartedIn
  <2>3. {x \in d.slots : x.task = p} = {s}
    BY <2>2 DEF SlotsOk
  <2> QED BY <2>3, FS_Singleton
<1> QED BY <1>6

-----------------------------------------------------------------------------
(* Every step of the answer.                                                   *)

DeskFields == {"at", "topo", "path", "key", "order", "ready", "waiting", "degree", "slots", "running", "free", "now", "ranked",
               "choices", "turn", "changed", "rounds"}
Stages == {"asked", "graph", "cycle", "refused", "order", "plan", "assign", "done"}
NoneOf(d) == d.slots = {} /\ d.running = {} /\ d.waiting = {} /\ d.now = 0
Whole(d) == \A p \in Positions : Cardinality({s \in d.slots : s.task = p}) = 1
\* The graph is sorted by degrees, the plan is made along it, and a finished plan is one that the last step found so.
DeskInv(d) ==
    /\ DOMAIN d = DeskFields /\ d.at \in Stages
    /\ d.at = "asked" => d.topo = <<>>
    /\ d.at = "graph" => ~Malformed /\ GraphOk(d)
    /\ d.at \in {"order", "plan"} => ~Malformed /\ Sorted(d.topo) /\ Range(d.topo) = Positions
    /\ d.at \notin {"plan", "done"} => NoneOf(d)
    /\ d.at = "plan" => SlotsOk(d) /\ ReadyOk(d)
    /\ d.at = "done" => \A s, t \in d.slots : KeepApart(s, t)
    /\ d.at = "done" /\ d.slots # {} => Whole(d)

LEMMA GraphBegins ==
    ASSUME work \in Works, NEW e, e.topo = <<>>, e.degree = [p \in Positions |-> Degree(p)],
           e.ready = {p \in Positions : Degree(p) = 0}
    PROVE  GraphOk(e)
<1>1. Sorted(e.topo)
  BY DEF Sorted
<1>2. Range(e.topo) = {}
  BY DEF Range
<1>3. ASSUME NEW q \in Positions
      PROVE  Degree(q) = Cardinality(LeftOf(q, Range(e.topo))) /\ (Degree(q) = 0 <=> LeftOf(q, Range(e.topo)) = {})
  <2>1. LeftOf(q, Range(e.topo)) = After(q)
    BY <1>2 DEF LeftOf
  <2>2. Degree(q) = Cardinality(After(q)) /\ IsFiniteSet(After(q))
    BY TasksAreFinite DEF Degree
  <2> QED BY <2>1, <2>2, FS_EmptySet
<1>4. \A q \in Positions : e.degree[q] = Cardinality(LeftOf(q, Range(e.topo)))
  BY <1>3
<1>5. e.ready = {q \in Positions \ Range(e.topo) : LeftOf(q, Range(e.topo)) = {}}
  BY <1>2, <1>3
<1> QED BY <1>1, <1>4, <1>5 DEF GraphOk

LEMMA PlanBeginsWell ==
    ASSUME work \in Works, NEW e, NoneOf(e), e.free = 1 .. work.agents, ~Malformed,
           e.degree = [p \in Positions |-> Cardinality(AfterSet(p))], e.ready = Roots
    PROVE  SlotsOk(e) /\ ReadyOk(e)
<1>1. StartedIn(e) = {} /\ OverIn(e) = {} /\ e.slots = {} /\ e.running = {} /\ e.waiting = {} /\ e.now = 0
  BY DEF StartedIn, OverIn, NoneOf
<1>2. SlotsOk(e)
  <2>1. e.free \subseteq Nat
    BY WellFormed
  <2> QED BY <1>1, <2>1 DEF SlotsOk
<1>3. \A q \in Positions : e.degree[q] = Cardinality(AfterSet(q) \ OverIn(e))
  <2> SUFFICES ASSUME NEW q \in Positions PROVE e.degree[q] = Cardinality(AfterSet(q) \ OverIn(e))
    OBVIOUS
  <2>1. AfterSet(q) \ OverIn(e) = AfterSet(q)
    BY <1>1
  <2> QED BY <2>1
<1>4. ReadyOk(e)
  BY <1>1, <1>3 DEF ReadyOk, Roots
<1> QED BY <1>2, <1>4

LEMMA StepPlanBegins == ASSUME work \in Works, DeskInv(desk), PlanBegins PROVE DeskInv(desk')
<1>1. DOMAIN desk = DeskFields /\ desk.at = "asked" /\ desk.topo = <<>> /\ NoneOf(desk)
  BY DEF DeskInv, PlanBegins
<1>2. CASE Malformed
  <2>1. DOMAIN desk' = DeskFields /\ desk'.at = "refused" /\ NoneOf(desk')
    BY <1>1, <1>2 DEF PlanBegins, DeskFields, NoneOf
  <2> QED BY <2>1 DEF DeskInv, Stages
<1>3. CASE ~Malformed
  <2>1. /\ DOMAIN desk' = DeskFields /\ desk'.at = "graph" /\ NoneOf(desk') /\ desk'.topo = <<>>
        /\ desk'.degree = [p \in Positions |-> Degree(p)] /\ desk'.ready = {p \in Positions : Degree(p) = 0}
    BY <1>1, <1>3 DEF PlanBegins, DeskFields, NoneOf
  <2>2. GraphOk(desk')
    BY <2>1, GraphBegins
  <2> QED BY <1>3, <2>1, <2>2 DEF DeskInv, Stages
<1> QED BY <1>2, <1>3

LEMMA StepGraphPops == ASSUME work \in Works, DeskInv(desk), GraphPops PROVE DeskInv(desk')
<1>1. DOMAIN desk = DeskFields /\ desk.at = "graph" /\ ~Malformed /\ GraphOk(desk) /\ NoneOf(desk)
  <2>1. desk.at = "graph"
    BY DEF GraphPops
  <2> QED BY <2>1 DEF DeskInv
<1>2. PICK t \in desk.ready :
          desk' = [desk EXCEPT !.topo = Append(@, t), !.degree = [q \in Positions |-> Max({0, @[q] - Times(t, q)})],
                               !.ready = (@ \ {t}) \union {q \in Dependents(t) : desk.degree[q] <= Times(t, q)}]
  BY Zenon DEF GraphPops
<1>3. /\ DOMAIN desk' = DeskFields /\ desk'.at = "graph" /\ NoneOf(desk') /\ desk'.topo = Append(desk.topo, t)
      /\ desk'.degree = [q \in Positions |-> Max({0, desk.degree[q] - Times(t, q)})]
      /\ desk'.ready = (desk.ready \ {t}) \union {q \in Dependents(t) : desk.degree[q] <= Times(t, q)}
  BY <1>1, <1>2 DEF DeskFields, NoneOf
<1>4. GraphOk(desk')
  BY <1>1, <1>3, PopKeepsGraph
<1> QED BY <1>1, <1>3, <1>4 DEF DeskInv, Stages

LEMMA StepCycle == ASSUME DeskInv(desk), CycleBegins \/ CycleFollows PROVE DeskInv(desk')
<1>1. DOMAIN desk = DeskFields /\ NoneOf(desk)
  BY DEF DeskInv, CycleBegins, CycleFollows
<1>2. DOMAIN desk' = DeskFields /\ NoneOf(desk') /\ desk'.at \in {"cycle", "refused"}
  <2>1. CASE CycleBegins
    BY <1>1, <2>1 DEF CycleBegins, DeskFields, NoneOf
  <2>2. CASE CycleFollows
    BY <1>1, <2>2 DEF CycleFollows, DeskFields, NoneOf
  <2> QED BY <2>1, <2>2
<1> QED BY <1>2 DEF DeskInv, Stages

LEMMA StepOrder == ASSUME work \in Works, DeskInv(desk), OrderBegins \/ OrderPops PROVE DeskInv(desk')
<1>1. DOMAIN desk = DeskFields /\ NoneOf(desk) /\ ~Malformed /\ Sorted(desk.topo) /\ Range(desk.topo) = Positions
  <2>1. CASE OrderBegins
    <3>1. DOMAIN desk = DeskFields /\ NoneOf(desk) /\ ~Malformed /\ Sorted(desk.topo) /\ Remaining = {}
      BY <2>1 DEF DeskInv, OrderBegins, GraphOk
    <3>2. Range(desk.topo) \subseteq Positions
      BY ONLY work \in Works, <3>1, SortedBehind
    <3> QED BY <3>1, <3>2 DEF Remaining
  <2>2. CASE OrderPops
    <3>1. desk.at = "order"
      BY <2>2, Zenon DEF OrderPops
    <3> QED BY <3>1 DEF DeskInv
  <2> QED BY <2>1, <2>2
<1>2. DOMAIN desk' = DeskFields /\ NoneOf(desk') /\ desk'.at = "order" /\ desk'.topo = desk.topo
  <2>1. CASE OrderBegins
    BY <1>1, <2>1 DEF OrderBegins, Restart, DeskFields, NoneOf
  <2>2. CASE OrderPops
    BY <1>1, <2>2, Zenon DEF OrderPops, DeskFields, NoneOf
  <2> QED BY <2>1, <2>2
<1> QED BY <1>1, <1>2 DEF DeskInv, Stages

LEMMA StepOrderEnds == ASSUME work \in Works, DeskInv(desk), OrderEnds PROVE DeskInv(desk')
<1>1. DOMAIN desk = DeskFields /\ NoneOf(desk) /\ ~Malformed /\ Sorted(desk.topo) /\ Range(desk.topo) = Positions /\ desk.at = "order"
  BY DEF DeskInv, OrderEnds
<1>2. CASE work.assign
  <2>1. DOMAIN desk' = DeskFields /\ NoneOf(desk') /\ desk'.at = "assign"
    BY <1>1, <1>2 DEF OrderEnds, DeskFields, NoneOf
  <2> QED BY <2>1 DEF DeskInv, Stages
<1>3. CASE ~work.assign /\ work.agents = 1
  <2>1. DOMAIN desk' = DeskFields /\ NoneOf(desk') /\ desk'.at = "done"
    BY <1>1, <1>3 DEF OrderEnds, DeskFields, NoneOf
  <2> QED BY <2>1 DEF DeskInv, Stages, NoneOf
<1>4. CASE ~work.assign /\ work.agents # 1
  <2>1. /\ DOMAIN desk' = DeskFields /\ NoneOf(desk') /\ desk'.at = "plan" /\ desk'.topo = desk.topo /\ desk'.free = 1 .. work.agents
        /\ desk'.degree = [p \in Positions |-> Cardinality(AfterSet(p))] /\ desk'.ready = Roots
    BY <1>1, <1>4 DEF OrderEnds, Restart, DeskFields, NoneOf
  <2>2. SlotsOk(desk') /\ ReadyOk(desk')
    BY <1>1, <2>1, PlanBeginsWell
  <2> QED BY <1>1, <2>1, <2>2 DEF DeskInv, Stages
<1> QED BY <1>2, <1>3, <1>4

LEMMA StepPlanStarts == ASSUME work \in Works, DeskInv(desk), PlanStarts PROVE DeskInv(desk')
<1>1. /\ DOMAIN desk = DeskFields /\ ~Malformed /\ Sorted(desk.topo) /\ Range(desk.topo) = Positions /\ desk.at = "plan"
      /\ SlotsOk(desk) /\ ReadyOk(desk) /\ desk.free # {}
  BY DEF DeskInv, PlanStarts
<1> DEFINE a == Min(desk.free)
           n(t) == [task |-> t, agent |-> a, start |-> desk.now, end |-> desk.now + Task(t).size]
<1>2. PICK t \in Urgent(desk.ready) :
          desk' = IF \E r \in Busy : Conflict(t, r.task)
                  THEN [desk EXCEPT !.ready = @ \ {t}, !.waiting = @ \union {t}]
                  ELSE [desk EXCEPT !.ready = @ \ {t}, !.free = @ \ {a}, !.running = @ \union {n(t)}, !.slots = @ \union {n(t)}]
  BY DEF PlanStarts
<1>3. t \in desk.ready /\ Busy = desk.running
  BY DEF Urgent, Busy
<1>4. a \in desk.free
  <2>1. desk.free \in SUBSET Nat
    BY <1>1 DEF SlotsOk
  <2> QED BY <1>1, <2>1, LeastNumber
<1>5. CASE \E r \in Busy : Conflict(t, r.task)
  <2>1. /\ DOMAIN desk' = DeskFields /\ desk'.at = "plan" /\ desk'.topo = desk.topo
        /\ desk'.now = desk.now /\ desk'.slots = desk.slots /\ desk'.running = desk.running /\ desk'.free = desk.free
        /\ desk'.ready = desk.ready \ {t} /\ desk'.waiting = desk.waiting \cup {t} /\ desk'.degree = desk.degree
    BY <1>1, <1>2, <1>5 DEF DeskFields
  <2>2. desk.running # {}
    BY <1>3, <1>5
  <2>3. SlotsOk(desk') /\ ReadyOk(desk')
    BY <1>1, <1>3, <2>1, <2>2, HoldKeeps
  <2> QED BY <1>1, <2>1, <2>3 DEF DeskInv, Stages
<1>6. CASE ~\E r \in Busy : Conflict(t, r.task)
  <2> DEFINE slot == n(t)
  <2>0. slot = [task |-> t, agent |-> a, start |-> desk.now, end |-> desk.now + Task(t).size]
    OBVIOUS
  <2> HIDE DEF a, slot
  <2>1. /\ DOMAIN desk' = DeskFields /\ desk'.at = "plan" /\ desk'.topo = desk.topo
        /\ desk'.now = desk.now /\ desk'.slots = desk.slots \cup {slot} /\ desk'.running = desk.running \cup {slot}
        /\ desk'.free = desk.free \ {a}
        /\ desk'.ready = desk.ready \ {t} /\ desk'.waiting = desk.waiting /\ desk'.degree = desk.degree
    BY <1>1, <1>2, <1>6 DEF DeskFields, slot
  <2>2. \A r \in desk.running : ~Conflict(t, r.task)
    BY <1>3, <1>6
  <2> HIDE DEF n
  <2>3. SlotsOk(desk') /\ ReadyOk(desk')
    BY <1>1, <1>3, <1>4, <2>0, <2>1, <2>2, StartKeeps
  <2> QED BY <1>1, <2>1, <2>3 DEF DeskInv, Stages
<1> QED BY <1>5, <1>6

LEMMA StepPlanAdvances == ASSUME work \in Works, DeskInv(desk), PlanAdvances PROVE DeskInv(desk')
<1>1. /\ DOMAIN desk = DeskFields /\ ~Malformed /\ Sorted(desk.topo) /\ Range(desk.topo) = Positions /\ desk.at = "plan"
      /\ SlotsOk(desk) /\ ReadyOk(desk) /\ desk.running # {}
  BY DEF DeskInv, PlanAdvances
<1>2. PICK instant \in {Min({r.end : r \in desk.running})} : \E done \in {{r \in desk.running : r.end = instant}} :
       \E left \in {[q \in Positions |-> desk.degree[q] - Cardinality({r \in done : q \in Dependents(r.task)})]} :
          desk' = [desk EXCEPT !.now = instant, !.running = @ \ done, !.free = @ \union {r.agent : r \in done}, !.degree = left,
                               !.ready = @ \union desk.waiting \union {q \in Positions : left[q] = 0 /\ desk.degree[q] > 0},
                               !.waiting = {}]
  BY DEF PlanAdvances
<1>3. PICK done \in {{r \in desk.running : r.end = instant}} :
       \E left \in {[q \in Positions |-> desk.degree[q] - Cardinality({r \in done : q \in Dependents(r.task)})]} :
          desk' = [desk EXCEPT !.now = instant, !.running = @ \ done, !.free = @ \union {r.agent : r \in done}, !.degree = left,
                               !.ready = @ \union desk.waiting \union {q \in Positions : left[q] = 0 /\ desk.degree[q] > 0},
                               !.waiting = {}]
  BY <1>2
<1>4. PICK left \in {[q \in Positions |-> desk.degree[q] - Cardinality({r \in done : q \in Dependents(r.task)})]} :
          desk' = [desk EXCEPT !.now = instant, !.running = @ \ done, !.free = @ \union {r.agent : r \in done}, !.degree = left,
                               !.ready = @ \union desk.waiting \union {q \in Positions : left[q] = 0 /\ desk.degree[q] > 0},
                               !.waiting = {}]
  BY <1>3
<1>5. /\ instant = Min(EndsOf(desk.running)) /\ done = EndingAt(desk.running, instant)
      /\ \A q \in Positions : left[q] = desk.degree[q] - Cardinality(Awaiting(done, q))
  BY DEF EndsOf, EndingAt, Awaiting
<1>6. /\ DOMAIN desk' = DeskFields /\ desk'.at = "plan" /\ desk'.topo = desk.topo /\ desk'.now = instant
      /\ desk'.slots = desk.slots /\ desk'.running = desk.running \ done /\ desk'.free = desk.free \cup AgentsOf(done)
      /\ desk'.degree = left /\ desk'.waiting = {}
      /\ desk'.ready = desk.ready \cup desk.waiting \cup {q \in Positions : desk'.degree[q] = 0 /\ desk.degree[q] > 0}
  BY <1>1, <1>4 DEF DeskFields, AgentsOf
<1>7. /\ SlotsOk(desk') /\ done \in SUBSET desk.running
      /\ StartedIn(desk') = StartedIn(desk) /\ OverIn(desk') = OverIn(desk) \cup TasksOf(done)
  BY <1>1, <1>5, <1>6, AdvanceSlots
<1>8. \A q \in Positions : desk'.degree[q] = desk.degree[q] - Cardinality(Awaiting(done, q))
  BY <1>5, <1>6
<1>9. ReadyOk(desk')
  BY <1>1, <1>6, <1>7, <1>8, AdvanceReady
<1> QED BY <1>1, <1>6, <1>7, <1>9 DEF DeskInv, Stages

LEMMA StepPlanEnds == ASSUME work \in Works, DeskInv(desk), PlanEnds PROVE DeskInv(desk')
<1>1. /\ DOMAIN desk = DeskFields /\ ~Malformed /\ Sorted(desk.topo) /\ Range(desk.topo) = Positions
      /\ SlotsOk(desk) /\ ReadyOk(desk) /\ desk.running = {} /\ (desk.free = {} \/ desk.ready = {})
  BY DEF DeskInv, PlanEnds
<1>2. Whole(desk)
  <2>1. \A p \in Positions : Cardinality({s \in desk.slots : s.task = p}) = 1
    BY <1>1, EndIsWhole
  <2> QED BY <2>1 DEF Whole
<1>3. DOMAIN desk' = DeskFields /\ desk'.at = "done" /\ desk'.slots = desk.slots
  BY <1>1 DEF PlanEnds, DeskFields
<1>4. \A s, t \in desk.slots : KeepApart(s, t)
  BY <1>1 DEF SlotsOk
<1>5. Whole(desk')
  BY <1>2, <1>3 DEF Whole
<1> QED BY <1>3, <1>4, <1>5 DEF DeskInv, Stages

LEMMA StepAssign == ASSUME DeskInv(desk), AssignPicks \/ AgentAnswers \/ RoundEnds PROVE DeskInv(desk')
<1>1. DOMAIN desk = DeskFields /\ NoneOf(desk) /\ desk.at = "assign"
  BY DEF DeskInv, AssignPicks, AgentAnswers, RoundEnds
<1>2. DOMAIN desk' = DeskFields /\ NoneOf(desk') /\ desk'.at \in {"assign", "done"}
  <2>1. CASE AssignPicks
    BY <1>1, <2>1 DEF AssignPicks, DeskFields, NoneOf
  <2>2. CASE AgentAnswers
    BY <1>1, <2>2 DEF AgentAnswers, DeskFields, NoneOf
  <2>3. CASE RoundEnds
    BY <1>1, <2>3 DEF RoundEnds, DeskFields, NoneOf
  <2> QED BY <2>1, <2>2, <2>3
<1> QED BY <1>2 DEF DeskInv, Stages, NoneOf

PlanInv == work \in Works /\ DeskInv(desk)

LEMMA PlanningInitially == ASSUME PlanningInit PROVE PlanInv
<1>1. work \in Works /\ DOMAIN desk = DeskFields /\ desk.at = "asked" /\ desk.topo = <<>> /\ NoneOf(desk)
  BY DEF PlanningInit, DeskFields, NoneOf
<1> QED BY <1>1 DEF PlanInv, DeskInv, Stages

\* What is asked does not change, so a fact about the desk alone is the same before and after.
LEMMA WorkKept ==
    ASSUME work' = work, DeskInv(desk')
    PROVE  DeskInv(desk)'
<1>1. Positions' = Positions /\ Malformed' = Malformed /\ \A p : Task(p)' = Task(p) /\ After(p)' = After(p)
  BY DEF Positions, Malformed, Task, After, Ids
<1>2. \A p, q : AfterSet(p)' = AfterSet(p) /\ Conflict(p, q)' = Conflict(p, q)
  BY <1>1 DEF AfterSet, Conflict
<1>3. \A q, T : LeftOf(q, T)' = LeftOf(q, T)
  BY <1>1 DEF LeftOf
<1>4. ASSUME NEW u, Sorted(u) PROVE Sorted(u)'
  <2>1. u \in Seq(Positions')
    BY <1>1, <1>4 DEF Sorted
  <2>2. ASSUME NEW i \in 1 .. Len(u), NEW q \in AfterSet(u[i])' PROVE \E j \in 1 .. i - 1 : u[j] = q
    <3>1. q \in AfterSet(u[i])
      BY <1>2
    <3> QED BY <1>4, <3>1 DEF Sorted
  <2> QED BY <2>1, <2>2 DEF Sorted
<1>5. GraphOk(desk') => GraphOk(desk)'
  BY <1>1, <1>3, <1>4 DEF GraphOk
<1>6. \A s, t : KeepApart(s, t)' = KeepApart(s, t)
  BY <1>2 DEF KeepApart
<1>7. SlotsOk(desk') => SlotsOk(desk)'
  BY <1>1, <1>6 DEF SlotsOk, SlotRow
<1>8. ReadyOk(desk') => ReadyOk(desk)'
  BY <1>1, <1>2 DEF ReadyOk, StartedIn, OverIn
<1> QED BY <1>1, <1>4, <1>5, <1>6, <1>7, <1>8 DEF DeskInv, Whole, NoneOf

LEMMA PlanningKeeps == ASSUME PlanInv, [PlanningStep]_planningVars PROVE PlanInv'
<1>1. work \in Works /\ DeskInv(desk)
  BY DEF PlanInv
<1>2. work' = work
  <2>1. PlanBegins => work' = work
    BY DEF PlanBegins
  <2>2. GraphPops => work' = work
    BY DEF GraphPops
  <2>3. CycleBegins => work' = work
    BY DEF CycleBegins
  <2>4. CycleFollows => work' = work
    BY DEF CycleFollows
  <2>5. OrderBegins => work' = work
    BY DEF OrderBegins
  <2>6. OrderPops => work' = work
    BY DEF OrderPops
  <2>7. OrderEnds => work' = work
    BY DEF OrderEnds
  <2>8. PlanStarts => work' = work
    BY DEF PlanStarts
  <2>9. PlanAdvances => work' = work
    BY DEF PlanAdvances
  <2>10. PlanEnds => work' = work
    BY DEF PlanEnds
  <2>11. AssignPicks => work' = work
    BY DEF AssignPicks
  <2>12. AgentAnswers => work' = work
    BY DEF AgentAnswers
  <2>13. RoundEnds => work' = work
    BY DEF RoundEnds
  <2> QED BY <2>1, <2>2, <2>3, <2>4, <2>5, <2>6, <2>7, <2>8, <2>9, <2>10, <2>11, <2>12, <2>13 DEF PlanningStep, planningVars
<1>3. DeskInv(desk')
  <2>1. CASE PlanBegins
    BY <1>1, <2>1, StepPlanBegins
  <2>2. CASE GraphPops
    BY <1>1, <2>2, StepGraphPops
  <2>3. CASE CycleBegins \/ CycleFollows
    BY <1>1, <2>3, StepCycle
  <2>4. CASE OrderBegins \/ OrderPops
    BY <1>1, <2>4, StepOrder
  <2>5. CASE OrderEnds
    BY <1>1, <2>5, StepOrderEnds
  <2>6. CASE PlanStarts
    BY <1>1, <2>6, StepPlanStarts
  <2>7. CASE PlanAdvances
    BY <1>1, <2>7, StepPlanAdvances
  <2>8. CASE PlanEnds
    BY <1>1, <2>8, StepPlanEnds
  <2>9. CASE AssignPicks \/ AgentAnswers \/ RoundEnds
    BY <1>1, <2>9, StepAssign
  <2>10. CASE UNCHANGED planningVars
    BY <1>1, <2>10 DEF planningVars
  <2> QED BY <2>1, <2>2, <2>3, <2>4, <2>5, <2>6, <2>7, <2>8, <2>9, <2>10 DEF PlanningStep
<1>4. DeskInv(desk)'
  BY <1>2, <1>3, WorkKept
<1> QED BY <1>1, <1>2, <1>4 DEF PlanInv

LEMMA PlanInvSays == ASSUME PlanInv PROVE PlanKeepsRules
<1>1. DeskInv(desk)
  BY DEF PlanInv
<1>2. SlotsKeepApart
  <2>1. CASE desk.at \in {"plan", "done"}
    BY <1>1, <2>1 DEF DeskInv, SlotsOk, SlotsKeepApart, KeepApart
  <2>2. CASE desk.at \notin {"plan", "done"}
    BY <1>1, <2>2 DEF DeskInv, NoneOf, SlotsKeepApart
  <2> QED BY <2>1, <2>2
<1>3. PlanIsWhole
  BY <1>1 DEF DeskInv, Whole, PlanIsWhole
<1> QED BY <1>2, <1>3 DEF PlanKeepsRules

\* The plan of any tasks for any number of agents (agora-sched plan.rs): however slots end together and whatever waits
\* for a file, a task starts after its prerequisites end, tasks that share a file or an agent never overlap, and the
\* finished plan has every task exactly once.
THEOREM PlansAreLawful == PlanningSpec => []PlanKeepsRules
<1>1. PlanningInit => PlanInv
  BY PlanningInitially
<1>2. PlanInv /\ [PlanningStep]_planningVars => PlanInv'
  BY PlanningKeeps
<1>3. PlanInv => PlanKeepsRules
  BY PlanInvSays
<1> QED BY <1>1, <1>2, <1>3, PTL DEF PlanningSpec

=============================================================================
