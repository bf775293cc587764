------------------------------ MODULE WorkQueue ------------------------------
(***************************************************************************)
(* The work queue of the Agora store: the rows of `work_tasks`, the path    *)
(* leases that share their files, and the settings the operations read.     *)
(* One action is one IMMEDIATE transaction of the writer thread, so an       *)
(* action is atomic.  Its time `at` is not: a handler reads the clock, then *)
(* waits for the writer's queue, so `at` may lie behind `now` by MaxLag.     *)
(*                                                                          *)
(* Sources: agora-store work_ops.rs, work_ops/{add,checks,edit,queue,       *)
(* request}.rs, jobs.rs, leases.rs, leases/helpers.rs, reconcile/claims.rs, *)
(* reconcile.rs; agora-sched graph.rs, claims.rs; agora-core lib.rs.         *)
(***************************************************************************)
EXTENDS Integers, FiniteSets, Sequences

CONSTANTS
    Agents,           \* registered identities
    RoleOf,           \* the role of each, a number in Roles
    NoOne,            \* the NULL of an agent, acceptance or holder column
    TaskIds,          \* ids a task may take
    LeaseIds,         \* ids a path lease may take
    Paths,            \* canonical paths, as sequences of their components
    FileSets,         \* the file lists clients pass
    SettingsChoices,  \* the settings a controller may store
    FirstSettings,    \* the settings before the first work.settings
    LeaseTTLs,        \* times to live clients ask for
    MaxActiveLeases,  \* MAX_ACTIVE_LEASES
    MaxTime,          \* bound on the clock
    MaxLag            \* bound on how far an operation's time lies behind

Observer   == 0
Worker     == 1
Supervisor == 2
Controller == 3
Owner      == 4
Roles      == Observer..Owner

Settings == [selfAccept : BOOLEAN, runRole : Roles, maxWaiting : Nat, claimTtl : Nat]

ASSUME RoleAssumption     == RoleOf \in [Agents -> Roles]
ASSUME NoOneAssumption    == NoOne \notin Agents
ASSUME PathAssumption     == \A p \in Paths : p \in Seq(STRING)
ASSUME FileSetAssumption  == FileSets \subseteq SUBSET Paths
ASSUME SettingsAssumption == FirstSettings \in Settings /\ SettingsChoices \subseteq Settings
ASSUME TimeAssumption     == /\ MaxTime \in Nat \ {0} /\ MaxLag \in Nat
                             /\ LeaseTTLs \subseteq Nat \ {0}
                             /\ MaxActiveLeases \in Nat

VARIABLES
    tasks,     \* work_tasks: a row for each id, state "none" before its insert
    leases,    \* leases of kind path: a row for each id
    settings,  \* work_settings
    now        \* the daemon's clock

vars == <<tasks, leases, settings, now>>

NoTime == 0
States == {"none", "queued", "claimed", "running", "done", "failed", "cancelled"}
Final  == {"done", "failed", "cancelled"}

TaskRow == [state : States, author : Agents \cup {NoOne}, agent : Agents \cup {NoOne},
            accepted : Agents \cup {NoOne}, command : BOOLEAN, files : SUBSET Paths,
            after : SUBSET TaskIds, claimed : Nat, requested : BOOLEAN, cancel : BOOLEAN]

NoTask == [state |-> "none", author |-> NoOne, agent |-> NoOne, accepted |-> NoOne,
           command |-> FALSE, files |-> {}, after |-> {}, claimed |-> NoTime,
           requested |-> FALSE, cancel |-> FALSE]

LeaseRow == [state : {"none", "held", "released"}, path : Paths \cup {<<>>},
             holder : Agents \cup {NoOne}, expires : Nat]

NoLease == [state |-> "none", path |-> <<>>, holder |-> NoOne, expires |-> NoTime]

-----------------------------------------------------------------------------
(* What the operations read. *)

\* One path is the other, or a directory above it.
Above(p, q)   == Len(p) <= Len(q) /\ SubSeq(q, 1, Len(p)) = p
Overlap(p, q) == Above(p, q) \/ Above(q, p)

FilesOverlap(F, G) == \E p \in F, q \in G : Overlap(p, q)

\* S-8: below a supervisor a path needs two components.
NotTooBroad(a, F) == RoleOf[a] >= Supervisor \/ \A p \in F : Len(p) >= 2

Exists(t)  == tasks[t].state # "none"
Holding(t) == tasks[t].state \in {"claimed", "running"}
Waiting(t) == tasks[t].state = "claimed" /\ tasks[t].requested
WaitingOf(a) == {t \in TaskIds : Waiting(t) /\ tasks[t].agent = a}

IsActive(l, at)  == leases[l].state = "held" /\ leases[l].expires > at
ActiveOf(a, at)  == {l \in LeaseIds : IsActive(l, at) /\ leases[l].holder = a}

TaskHolds(F) == \E t \in TaskIds : Holding(t) /\ FilesOverlap(F, tasks[t].files)
LeaseHolds(F, a, at) ==
    \E l \in LeaseIds : /\ IsActive(l, at) /\ leases[l].holder # a
                        /\ FilesOverlap(F, {leases[l].path})

\* Faulty: only leases are asked.
CheckFilesLeasesOnly(F, a, at) == ~LeaseHolds(F, a, at)
CheckFiles(F, a, at) == ~TaskHolds(F) /\ ~LeaseHolds(F, a, at)

Waits(after) == \E p \in after : tasks[p].state # "done"

ClaimOk(t, after, a, at) == ~Waits(after) /\ CheckFiles(tasks[t].files, a, at)

\* Every member of a non-empty set waits for a member of it: a cycle.
HasCycle(after) == \E S \in SUBSET TaskIds \ {{}} : \A t \in S : after[t] \cap S # {}
AfterOf == [t \in TaskIds |-> tasks[t].after]

MayAct(a, t) ==
    \/ RoleOf[a] >= Supervisor
    \/ tasks[t].state = "queued" /\ tasks[t].author = a
    \/ tasks[t].state # "queued" /\ tasks[t].agent = a

MayRun(a) == RoleOf[a] >= settings.runRole

\* Faulty: the acceptance is not asked for.
CheckRunnableUnaccepted(t, a) == /\ tasks[t].command /\ tasks[t].state = "claimed"
                                 /\ ~tasks[t].requested /\ tasks[t].agent = a
CheckRunnable(t, a) == /\ tasks[t].command /\ tasks[t].state = "claimed"
                       /\ ~tasks[t].requested
                       /\ tasks[t].agent = a /\ tasks[t].accepted = a

AuthorMayRun(t, a) == tasks[t].author = a => settings.selfAccept

RoomToWait(a) == Cardinality(WaitingOf(a)) < settings.maxWaiting

-----------------------------------------------------------------------------
(* Rows as the operations write them. *)

Put(t, row) == tasks' = [tasks EXCEPT ![t] = row]

Taken(row, a, at) == [row EXCEPT !.state = "claimed", !.agent = a, !.claimed = at,
                                 !.accepted = NoOne]

Returned(row) == [row EXCEPT !.state = "queued", !.agent = NoOne, !.claimed = NoTime,
                             !.accepted = NoOne]

Assigned(row, a, at) == [row EXCEPT !.state = "claimed", !.agent = a, !.claimed = at,
                                    !.accepted = IF row.agent = a THEN @ ELSE NoOne]

Requested(row) == [row EXCEPT !.requested = TRUE]

-----------------------------------------------------------------------------
(* Operations on tasks.  `a` is the actor the operation is signed by. *)

Inserted(a, t, command, F, after) ==
    [NoTask EXCEPT !.state = "queued", !.author = a, !.command = command,
                   !.files = F, !.after = after]

WorkAdd(a, t, command, F, after) ==
    /\ RoleOf[a] >= Worker /\ NotTooBroad(a, F)
    /\ ~Exists(t) /\ \A p \in after : Exists(p)
    /\ Put(t, Inserted(a, t, command, F, after))
    /\ UNCHANGED <<leases, settings, now>>

\* work.next in some scope and policy: the first claimable task of an order the
\* caller picks, so any claimable one.
WorkNext(a, t, at) ==
    /\ RoleOf[a] >= Worker /\ tasks[t].state = "queued"
    /\ ClaimOk(t, tasks[t].after, a, at)
    /\ Put(t, Taken(tasks[t], a, at))
    /\ UNCHANGED <<leases, settings, now>>

WorkClaim(a, t, at) ==
    /\ RoleOf[a] >= Worker /\ tasks[t].state = "queued"
    /\ ClaimOk(t, tasks[t].after, a, at)
    /\ Put(t, Taken(tasks[t], a, at))
    /\ UNCHANGED <<leases, settings, now>>

WorkAccept(a, t) ==
    /\ RoleOf[a] >= Worker /\ MayRun(a)
    /\ tasks[t].command /\ tasks[t].state = "claimed" /\ ~tasks[t].requested
    /\ tasks[t].agent = a
    /\ tasks[t].author = a => settings.selfAccept
    /\ Put(t, [tasks[t] EXCEPT !.accepted = a])
    /\ UNCHANGED <<leases, settings, now>>

WorkRunNamed(a, t) ==
    /\ RoleOf[a] >= Worker /\ MayRun(a)
    /\ CheckRunnable(t, a) /\ AuthorMayRun(t, a) /\ RoomToWait(a)
    /\ Put(t, Requested(tasks[t]))
    /\ UNCHANGED <<leases, settings, now>>

\* An inline command: its author claims, accepts and requests it in one step.
WorkRunInline(a, t, F, at) ==
    /\ RoleOf[a] >= Worker /\ MayRun(a) /\ NotTooBroad(a, F)
    /\ ~Exists(t) /\ CheckFiles(F, a, at) /\ RoomToWait(a)
    /\ Put(t, Requested([Taken(Inserted(a, t, TRUE, F, {}), a, at) EXCEPT !.accepted = a]))
    /\ UNCHANGED <<leases, settings, now>>

WorkFinish(a, t, outcome) ==
    /\ RoleOf[a] >= Worker
    /\ \/ tasks[t].state = "queued" /\ tasks[t].author = a
       \/ tasks[t].state = "claimed" /\ tasks[t].agent = a
    /\ ~tasks[t].command
    /\ Put(t, [tasks[t] EXCEPT !.state = outcome])
    /\ UNCHANGED <<leases, settings, now>>

WorkCancel(a, t) ==
    /\ RoleOf[a] >= Worker /\ MayAct(a, t)
    /\ \/ /\ tasks[t].state = "running"
          /\ Put(t, [tasks[t] EXCEPT !.cancel = TRUE])
       \/ /\ tasks[t].state \in {"queued", "claimed"}
          /\ Put(t, [tasks[t] EXCEPT !.state = "cancelled"])
    /\ UNCHANGED <<leases, settings, now>>

AfterOk(t, after) == /\ \A p \in after : Exists(p)
                     /\ ~HasCycle([AfterOf EXCEPT ![t] = after])

\* work.update with the prerequisites `after` (the old ones when it names none)
\* and no agent, an empty agent, or another agent.
WorkUpdate(a, t, after, at) ==
    /\ RoleOf[a] >= Worker /\ tasks[t].state \in {"queued", "claimed"}
    /\ MayAct(a, t) /\ AfterOk(t, after)
    /\ \/ Put(t, [tasks[t] EXCEPT !.after = after])
       \/ /\ tasks[t].state = "claimed" /\ ~tasks[t].requested
          /\ Put(t, [Returned(tasks[t]) EXCEPT !.after = after])
       \/ \E b \in Agents :
             /\ RoleOf[a] >= Supervisor /\ RoleOf[b] >= Worker
             /\ ~tasks[t].requested
             /\ tasks[t].state = "queued" => ClaimOk(t, after, b, at)
             /\ Put(t, [Assigned(tasks[t], b, at) EXCEPT !.after = after])
    /\ UNCHANGED <<leases, settings, now>>

WorkReclaimTask(a, t) ==
    /\ RoleOf[a] >= Supervisor
    /\ tasks[t].state = "claimed" /\ ~tasks[t].requested
    /\ Put(t, Returned(tasks[t]))
    /\ UNCHANGED <<leases, settings, now>>

WorkSettingsSet(a, s) ==
    /\ RoleOf[a] >= Controller
    /\ settings' = s
    /\ UNCHANGED <<tasks, leases, now>>

-----------------------------------------------------------------------------
(* System operations: the daemon records how a job starts and ends. *)

JobStart(t) ==
    /\ Waiting(t)
    /\ Put(t, [tasks[t] EXCEPT !.state = "running"])
    /\ UNCHANGED <<leases, settings, now>>

JobOutcome(t, beforeStart, zero) ==
    IF tasks[t].cancel THEN "cancelled"
    ELSE IF zero /\ ~beforeStart THEN "done" ELSE "failed"

Finishable(t, beforeStart) == tasks[t].state = "running" \/ (Waiting(t) /\ beforeStart)

JobFinish(t, beforeStart, zero) ==
    /\ Finishable(t, beforeStart)
    /\ Put(t, [tasks[t] EXCEPT !.state = JobOutcome(t, beforeStart, zero)])
    /\ UNCHANGED <<leases, settings, now>>

\* R7: a claim with a command and no run request, as old as the setting.
ClaimExpired(t, at) ==
    /\ settings.claimTtl > 0 /\ tasks[t].state = "claimed" /\ ~tasks[t].requested
    /\ tasks[t].command /\ tasks[t].claimed + settings.claimTtl <= at

ExpireClaim(t, at) ==
    /\ ClaimExpired(t, at)
    /\ Put(t, Returned(tasks[t]))
    /\ UNCHANGED <<leases, settings, now>>

-----------------------------------------------------------------------------
(* Path leases. *)

PathFree(a, p, at) ==
    /\ ~LeaseHolds({p}, a, at)
    /\ ~\E t \in TaskIds : /\ Holding(t) /\ tasks[t].agent # a
                           /\ FilesOverlap({p}, tasks[t].files)

LeaseAcquire(a, l, p, ttl, at) ==
    /\ RoleOf[a] >= Worker /\ NotTooBroad(a, {p})
    /\ PathFree(a, p, at)
    /\ Cardinality(ActiveOf(a, at)) < MaxActiveLeases
    /\ leases[l].state = "none"
    /\ leases' = [leases EXCEPT ![l] = [state |-> "held", path |-> p, holder |-> a,
                                        expires |-> at + ttl]]
    /\ UNCHANGED <<tasks, settings, now>>

\* Faulty: a lease that has expired may still be renewed.
RenewableAnytime(l, a, at) == leases[l].state = "held" /\ leases[l].holder = a
Renewable(l, a, at) == leases[l].holder = a /\ IsActive(l, at)

LeaseRenew(a, l, ttl, at) ==
    /\ RoleOf[a] >= Worker /\ Renewable(l, a, at)
    /\ leases' = [leases EXCEPT ![l].expires = at + ttl]
    /\ UNCHANGED <<tasks, settings, now>>

LeaseRelease(a, l) ==
    /\ RoleOf[a] >= Worker
    /\ leases[l].holder = a \/ RoleOf[a] >= Supervisor
    /\ leases[l].state = "held"
    /\ leases' = [leases EXCEPT ![l].state = "released"]
    /\ UNCHANGED <<tasks, settings, now>>

\* work.reclaim of a lease.
WorkReclaimLease(a, l) ==
    /\ RoleOf[a] >= Supervisor /\ leases[l].state = "held"
    /\ leases' = [leases EXCEPT ![l].state = "released"]
    /\ UNCHANGED <<tasks, settings, now>>

\* R1.
ExpireLease(l, at) ==
    /\ leases[l].state = "held" /\ leases[l].expires <= at
    /\ leases' = [leases EXCEPT ![l].state = "released"]
    /\ UNCHANGED <<tasks, settings, now>>

Tick == now < MaxTime /\ now' = now + 1 /\ UNCHANGED <<tasks, leases, settings>>

-----------------------------------------------------------------------------
Init == /\ tasks = [t \in TaskIds |-> NoTask]
        /\ leases = [l \in LeaseIds |-> NoLease]
        /\ settings = FirstSettings
        /\ now = 1

\* When a handler that the writer now serves may have read the clock.
OpTimes == {at \in 1..now : now - at <= MaxLag}

TaskOp(a, t) ==
    \/ \E command \in BOOLEAN, F \in FileSets, after \in SUBSET TaskIds :
          WorkAdd(a, t, command, F, after)
    \/ \E at \in OpTimes : WorkNext(a, t, at)
    \/ \E at \in OpTimes : WorkClaim(a, t, at)
    \/ WorkAccept(a, t)
    \/ WorkRunNamed(a, t)
    \/ \E F \in FileSets, at \in OpTimes : WorkRunInline(a, t, F, at)
    \/ \E outcome \in {"done", "failed"} : WorkFinish(a, t, outcome)
    \/ WorkCancel(a, t)
    \/ \E after \in SUBSET TaskIds, at \in OpTimes : WorkUpdate(a, t, after, at)
    \/ WorkReclaimTask(a, t)

SystemOp(t) ==
    \/ JobStart(t)
    \/ \E beforeStart, zero \in BOOLEAN : JobFinish(t, beforeStart, zero)
    \/ \E at \in OpTimes : ExpireClaim(t, at)

LeaseOp(a, l) ==
    \/ \E p \in Paths, ttl \in LeaseTTLs, at \in OpTimes : LeaseAcquire(a, l, p, ttl, at)
    \/ \E ttl \in LeaseTTLs, at \in OpTimes : LeaseRenew(a, l, ttl, at)
    \/ LeaseRelease(a, l)
    \/ WorkReclaimLease(a, l)

Next ==
    \/ \E a \in Agents, t \in TaskIds : TaskOp(a, t)
    \/ \E t \in TaskIds : SystemOp(t)
    \/ \E a \in Agents, l \in LeaseIds : LeaseOp(a, l)
    \/ \E l \in LeaseIds, at \in OpTimes : ExpireLease(l, at)
    \/ \E a \in Agents, s \in SettingsChoices : WorkSettingsSet(a, s)
    \/ Tick

Spec == Init /\ [][Next]_vars

-----------------------------------------------------------------------------
(* Properties. *)

\* Every row keeps the shape of its table.
TypeOK == /\ tasks \in [TaskIds -> TaskRow]
          /\ leases \in [LeaseIds -> LeaseRow]
          /\ settings \in Settings
          /\ now \in 1..MaxTime

\* Two tasks that are claimed or running never change overlapping files, however
\* they came to be claimed: by name, by next, by assignment or inline.
FileExclusion ==
    \A t, u \in TaskIds :
        t # u /\ Holding(t) /\ Holding(u) => ~FilesOverlap(tasks[t].files, tasks[u].files)

\* An acceptance is of the current claim: it is its agent's own, and it does not
\* survive the task's return to the queue or its move to another agent.
AcceptanceIsOfTheClaim ==
    \A t \in TaskIds : tasks[t].accepted # NoOne =>
        tasks[t].state # "queued" /\ tasks[t].accepted = tasks[t].agent

\* The digest gate: a task that waits for capacity, runs or has run is one whose
\* command its agent accepted.
RunsOnlyAccepted ==
    \A t \in TaskIds : tasks[t].state = "running" \/ tasks[t].requested =>
        /\ tasks[t].requested /\ tasks[t].command
        /\ tasks[t].agent # NoOne /\ tasks[t].accepted = tasks[t].agent
        /\ tasks[t].state \notin {"none", "queued"}

\* Path leases of two holders never overlap.
LeaseExclusion ==
    \A l, m \in LeaseIds :
        IsActive(l, now) /\ IsActive(m, now) /\ leases[l].holder # leases[m].holder
        => ~Overlap(leases[l].path, leases[m].path)

=============================================================================
