----------------------------- MODULE Reconciler -----------------------------
(***************************************************************************)
(* The reconciler: every interval it reads the clock once, takes a snapshot, *)
(* plans with a pure function, and applies each planned action as a          *)
(* transaction of its own, while clients keep writing.  An applied action    *)
(* leaves a mark under its key, and a marked key is never planned or applied  *)
(* again.                                                                    *)
(*                                                                          *)
(* Rules: R1 expired leases, R7 expired claims, R2 overdue quiet windows,    *)
(* R3 idle cards, R4 lanes over their limit, R5 machine floors, R6 ended      *)
(* sprints.  The claims and leases are the ones of WorkQueue, reduced to what *)
(* the rules read; the cards are CardBoard's.                                 *)
(*                                                                          *)
(* The snapshot is one step here.  The reader connection runs one statement   *)
(* per table without a transaction, but each rule reads one table that others *)
(* write, so a torn snapshot is a snapshot followed by client steps.          *)
(*                                                                          *)
(* Sources: agora-daemon reconciler.rs; agora-sched reconcile.rs,             *)
(* reconcile/{claims,floors}.rs; agora-store reconcile.rs,                    *)
(* reconcile/{claims,effects}.rs, jobs.rs, leases.rs, sprints.rs.             *)
(***************************************************************************)
EXTENDS CardBoard, Sequences

CONSTANTS
    Tasks,          \* queued tasks that have a command
    Leases,         \* lease ids
    Sprints,        \* active sprints, each named by its end
    Ttls,           \* the values claim_ttl_s is given; 0 turns expiry off
    LeaseTtl,       \* the lease time to live
    QuietMax,       \* quiet_max
    StaleAfter, EscalateAfter, ReclaimAfter, \* the lane's policy
    Bucket,         \* length of an R5 rate-limit bucket
    Keep,           \* keep_days
    PruneEvery,     \* PRUNE_EVERY_MS
    MaxActions,     \* MAX_ACTIONS_PER_PASS
    MaxExpiries,    \* MAX_CLAIM_EXPIRIES_PER_PASS
    MaxBlockers,    \* bound: blocker cards
    Failures        \* may applying an action fail

ASSUME ReconcilerAssumption ==
    /\ Tasks \subseteq Nat /\ Leases \subseteq Nat /\ Sprints \subseteq Nat
    /\ IsFiniteSet(Tasks) /\ IsFiniteSet(Leases) /\ IsFiniteSet(Sprints)
    /\ Ttls \subseteq Nat /\ Ttls # {}
    /\ {LeaseTtl, StaleAfter, EscalateAfter, ReclaimAfter, Bucket, Keep, PruneEvery,
        MaxActions, MaxExpiries} \subseteq Nat \ {0}
    /\ QuietMax \in Nat /\ MaxBlockers \in Nat /\ Failures \in BOOLEAN

VARIABLES
    task,      \* the claims R7 looks at
    lease,     \* the leases and quiet windows
    sprints,   \* the active sprints
    ttl,       \* settings.claim_ttl_s
    floor,     \* what a probe of the machine reads: "met", "low"
    paused,    \* work_state admission_paused
    blocker,   \* blocker cards: how many, which are open, the remembered one
    marks,     \* reconcile_marks
    notices,   \* the notices table
    events,    \* the work.reclaimed, card.reclaimed and card.evidence events
    pruned,    \* when retention last ran in this process, -1 for never
    pass       \* the running pass

restVars == <<task, lease, sprints, ttl, floor, paused, blocker, marks, notices, events,
              pruned, pass>>
vars == <<now, card, revoked, limit, task, lease, sprints, ttl, floor, paused, blocker, marks,
          notices, events, pruned, pass>>

TaskClaim == [state : {"queued", "claimed", "requested"},
              agent : Agents \cup {NoOne}, claimed : Nat]
\* `due` is expires for an open path or pool lease, expected_end for an open quiet
\* window, and the release time once released.
LeaseOf   == [state : {"none", "open", "released"}, kind : {"path", "quiet"}, due : Nat]

Unclaimed == [state |-> "queued", agent |-> NoOne, claimed |-> 0]
NoLease   == [state |-> "none", kind |-> "path", due |-> 0]
Idle      == [stage |-> "idle", now |-> 0, ttl |-> 0, floor |-> "unknown",
              plan |-> <<>>, whole |-> TRUE]

Keys == {m.key : m \in marks}

---------------------------------------------------------------------------
(* The plan.  An action is its place in the plan (the rule, then the order      *)
(* within the rule), its kind, its key, the entity it touches, the agent it     *)
(* names and the claim time it saw.                                             *)

Act(place, kind, key, id, agent, at) ==
    [place |-> place, kind |-> kind, key |-> key, id |-> id, agent |-> agent, at |-> at]

Earlier(p, q) == \E k \in 1..4 : p[k] < q[k] /\ \A l \in 1..(k - 1) : p[l] = q[l]
\* A set of actions as a sequence: at each place the one with so many before it.
InPlace(S) ==
    [i \in 1..Cardinality(S) |->
        CHOOSE act \in S : Cardinality({b \in S : Earlier(b.place, act.place)}) = i - 1]

When(cond, acts) == IF cond THEN acts ELSE {}

\* R1: path and pool leases past their expiry.
ExpireLeases(at) ==
    {Act(<<1, l, 0, 0>>, "expire", <<"expire", l, lease[l].due>>, l, NoOne, 0) :
        l \in {l \in Leases : lease[l].state = "open" /\ lease[l].kind = "path"
                                /\ lease[l].due <= at}}

\* Faulty: a task whose claim once expired is never looked at again.
DueClaimsOncePerTask(at) ==
    {t \in Tasks : /\ ttl > 0
                   /\ task[t].state = "claimed" /\ task[t].claimed + ttl <= at
                   /\ ~ \E k \in Keys : k[1] = "claim" /\ k[2] = t}
\* R7: claims that outlived the TTL, oldest first; marked ones take no slot.
DueClaims(at) ==
    {t \in Tasks : /\ ttl > 0
                   /\ task[t].state = "claimed" /\ task[t].claimed + ttl <= at
                   /\ <<"claim", t, task[t].claimed>> \notin Keys}
ExpireClaims(at) ==
    LET Older(u, t) == \/ task[u].claimed < task[t].claimed
                       \/ task[u].claimed = task[t].claimed /\ u < t
        first == {t \in DueClaims(at) :
                    Cardinality({u \in DueClaims(at) : Older(u, t)}) < MaxExpiries}
    IN {Act(<<2, task[t].claimed, t, 0>>, "claim", <<"claim", t, task[t].claimed>>, t,
            task[t].agent, task[t].claimed) : t \in first}

\* R2: quiet windows open more than quiet_max after their expected end.
CloseQuietWindows(at) ==
    {Act(<<3, l, 0, 0>>, "quiet", <<"quiet", l, lease[l].due>>, l, NoOne, 0) :
        l \in {l \in Leases : lease[l].state = "open" /\ lease[l].kind = "quiet"
                                /\ lease[l].due + QuietMax <= at}}

\* R3: what one idle card gets: a notice to its owner, an escalation to the
\* supervisors, and the reclaim with its notice.
StaleCard(c, at) ==
    LET row  == card[c]
        idle == at - row.updated
    IN When(idle >= StaleAfter,
            {Act(<<4, c, 1, 0>>, "notice", <<"stale1", c, row.updated>>, c, row.owner, 0)})
       \cup When(idle >= StaleAfter + EscalateAfter,
            {Act(<<4, c, 2, a>>, "notice", <<"stale2", c, row.updated, a>>, c, a, 0) :
                a \in Supervisors \ revoked})
       \cup When(idle >= ReclaimAfter,
            {Act(<<4, c, 3, 0>>, "notice", <<"stale3", c, row.updated>>, c, row.owner, 0),
             Act(<<4, c, 4, 0>>, "reclaim", <<"reclaim", c, row.updated>>, c, row.owner,
                 row.updated)})
StaleCards(at) ==
    UNION {StaleCard(c, at) :
             c \in {c \in Cards : card[c].state \in InProgress /\ card[c].owner # NoOne}}

\* R4: a lane over its limit, told to each supervisor once per count and bucket.
WipLimits(at) ==
    LET count == Cardinality(Working) IN
    When(limit > 0 /\ count > limit,
         {Act(<<5, a, 0, 0>>, "notice", <<"wip", count, at \div Bucket, a>>, count, a, 0) :
             a \in Supervisors \ revoked})

\* The remembered blocker card, while it is open.
OpenBlocker == IF blocker.ref \in blocker.open THEN blocker.ref ELSE 0

\* R5: pause and open a blocker on a breach; without one resume, and close the
\* blocker.  Nothing without a reading.
MachineFloors(at, reading) ==
    LET b == at \div Bucket IN
    When(reading = "met" /\ paused, {Act(<<6, 1, 0, 0>>, "resume", <<"resume", b>>, 0, NoOne, 0)})
    \cup When(reading = "met" /\ OpenBlocker # 0,
              {Act(<<6, 2, 0, 0>>, "unblock", <<"unblock", OpenBlocker>>, 0, NoOne, 0)})
    \cup When(reading = "low" /\ ~paused,
              {Act(<<6, 1, 0, 0>>, "pause", <<"pause", b>>, 0, NoOne, 0)})
    \cup When(reading = "low", {Act(<<6, 2, 0, 0>>, "blocker", <<"blocker", b>>, 0, NoOne, 0)})

\* R6: sprints past their end, told to each supervisor.
SprintRollovers(at) ==
    {Act(<<7, p[1], p[2], 0>>, "notice", <<"sprint", p[1], p[2]>>, p[1], p[2], 0) :
        p \in {s \in sprints : s <= at} \X (Supervisors \ revoked)}

\* What the rules ask for, without the marked actions, in order.
Asked(at, reading) ==
    {act \in ExpireLeases(at) \cup ExpireClaims(at) \cup CloseQuietWindows(at)
               \cup StaleCards(at) \cup WipLimits(at) \cup MachineFloors(at, reading)
               \cup SprintRollovers(at) : act.key \notin Keys}
Wanted(at, reading) == InPlace(Asked(at, reading))
\* At most MaxActions of them.
Plan(wanted) == IF Len(wanted) > MaxActions THEN SubSeq(wanted, 1, MaxActions) ELSE wanted

---------------------------------------------------------------------------
(* A pass.                                                                   *)

PassBegin ==
    /\ pass.stage = "idle"
    /\ pass' = [Idle EXCEPT !.stage = "reading", !.now = now]
    /\ UNCHANGED <<boardVars, task, lease, sprints, ttl, floor, paused, blocker, marks,
                   notices, events, pruned>>

\* The snapshot and the plan made from it.  A failed probe gives no reading.
Snapshot(reading) ==
    LET wanted == Wanted(pass.now, reading) IN
    /\ pass.stage = "reading"
    /\ pass' = [pass EXCEPT
          !.stage = "applying", !.ttl = ttl, !.floor = reading, !.plan = Plan(wanted),
          !.whole = /\ Len(wanted) <= MaxActions
                    /\ Cardinality(DueClaims(pass.now)) <= MaxExpiries]
    /\ UNCHANGED <<boardVars, task, lease, sprints, ttl, floor, paused, blocker, marks,
                   notices, events, pruned>>

\* The next planned action is of one of these kinds and its key is not marked.
Applying(kinds) ==
    /\ pass.stage = "applying" /\ pass.plan # <<>>
    /\ Head(pass.plan).kind \in kinds
    /\ Head(pass.plan).key \notin Keys

\* The tail of every application: the action's mark, and on to the next action.
Mark(extra) ==
    /\ marks' = marks \cup {[key |-> k, last |-> pass.now] :
                                 k \in {Head(pass.plan).key} \cup extra}
    /\ pass' = [pass EXCEPT !.plan = Tail(@)]
    /\ UNCHANGED <<now, revoked, limit, sprints, ttl, floor, pruned>>

Post(target, kind, subject) ==
    notices' = notices \cup
        {[target |-> target, kind |-> kind, subject |-> subject, ts |-> pass.now]}
Log(kind, subject) ==
    events' = events \cup {[kind |-> kind, subject |-> subject, ts |-> pass.now]}

\* The store releases only a path or pool lease whose current expiry has passed.
ApplyExpireLease ==
    /\ Applying({"expire"})
    /\ LET l == Head(pass.plan).id IN
       lease' = IF lease[l].state = "open" /\ lease[l].kind = "path"
                     /\ lease[l].due <= pass.now
                THEN [lease EXCEPT ![l].state = "released", ![l].due = pass.now]
                ELSE lease
    /\ Mark({})
    /\ UNCHANGED <<card, task, paused, blocker, notices, events>>

\* expire_claim's condition, on the row and the settings as they are now.
Expirable(act) ==
    LET row == task[act.id] IN
    /\ ttl > 0
    /\ row.state = "claimed" /\ row.agent = act.agent /\ row.claimed = act.at
    /\ row.claimed + ttl <= pass.now

\* The claim goes back to the queue with its event and its notice, or nothing
\* happens; either way the action is marked.
ApplyExpireClaim ==
    /\ Applying({"claim"})
    /\ LET act == Head(pass.plan) IN
       IF Expirable(act)
       THEN /\ task' = [task EXCEPT ![act.id] = Unclaimed]
            /\ Post(act.agent, "claim_expired", act.id)
            /\ Log("work.reclaimed", act.id)
            /\ Mark({<<"claim-notice", act.id, act.at>>})
       ELSE Mark({}) /\ UNCHANGED <<task, notices, events>>
    /\ UNCHANGED <<card, lease, paused, blocker>>

ApplyCloseQuiet ==
    /\ Applying({"quiet"})
    /\ LET l == Head(pass.plan).id IN
       lease' = IF lease[l].state = "open" /\ lease[l].kind = "quiet"
                THEN [lease EXCEPT ![l].state = "released", ![l].due = pass.now]
                ELSE lease
    /\ Mark({})
    /\ UNCHANGED <<card, task, paused, blocker, notices, events>>

ApplyNotice ==
    /\ Applying({"notice"})
    /\ LET act == Head(pass.plan) IN Post(act.agent, act.key[1], act.id)
    /\ Mark({})
    /\ UNCHANGED <<card, task, lease, paused, blocker, events>>

\* reclaim_card's condition: the planned owner still has the card in hand.
StillHeld(act) ==
    card[act.id].owner = act.agent /\ card[act.id].state \in InProgress

ApplyReclaim ==
    /\ Applying({"reclaim"})
    /\ LET act == Head(pass.plan) IN
       IF StillHeld(act)
       THEN /\ card' = [card EXCEPT ![act.id] = Reclaimed(@, pass.now)]
            /\ Log("card.reclaimed", act.id)
       ELSE UNCHANGED <<card, events>>
    /\ Mark({})
    /\ UNCHANGED <<task, lease, paused, blocker, notices>>

\* open_blocker: refresh the remembered card while it is open, else make one.
ApplyBlocker ==
    /\ Applying({"blocker"})
    /\ IF OpenBlocker # 0 THEN UNCHANGED blocker
       ELSE /\ blocker.made < MaxBlockers
            /\ blocker' = [made |-> blocker.made + 1, ref |-> blocker.made + 1,
                            open |-> blocker.open \cup {blocker.made + 1}]
    /\ Mark({})
    /\ UNCHANGED <<card, task, lease, paused, notices, events>>

\* close_blocker: cancel the remembered card if it is still open, and forget it.
ApplyUnblock ==
    /\ Applying({"unblock"})
    /\ blocker' = [blocker EXCEPT !.open = @ \ {blocker.ref}, !.ref = 0]
    /\ Mark({})
    /\ UNCHANGED <<card, task, lease, paused, notices, events>>

ApplyAdmission ==
    /\ Applying({"pause", "resume"})
    /\ paused' = (Head(pass.plan).kind = "pause")
    /\ Mark({})
    /\ UNCHANGED <<card, task, lease, blocker, notices, events>>

Apply == \/ ApplyExpireLease \/ ApplyExpireClaim \/ ApplyCloseQuiet \/ ApplyNotice
         \/ ApplyReclaim \/ ApplyBlocker \/ ApplyUnblock \/ ApplyAdmission

\* The application fails, leaving no mark; the pass goes on with the rest.
ApplyFails ==
    /\ Failures
    /\ pass.stage = "applying" /\ pass.plan # <<>>
    /\ pass' = [pass EXCEPT !.plan = Tail(@), !.whole = FALSE]
    /\ UNCHANGED <<boardVars, task, lease, sprints, ttl, floor, paused, blocker, marks,
                   notices, events, pruned>>

PruneDue == pruned < 0 \/ pass.now - pruned >= PruneEvery

\* Retention at the end of the pass: old marks, notices, work events and released
\* leases go.  A lease's id is then free again (next_lease_id counts the rows).
PassEnd ==
    LET cutoff == pass.now - Keep IN
    /\ pass.stage = "applying" /\ pass.plan = <<>>
    /\ pass' = Idle
    /\ IF PruneDue
       THEN /\ pruned'  = pass.now
            /\ marks'   = {m \in marks : m.last >= cutoff}
            /\ notices' = {n \in notices : n.ts >= cutoff}
            /\ events'  = {e \in events : e.kind # "work.reclaimed" \/ e.ts >= cutoff}
            /\ lease'   = [l \in Leases |->
                   IF lease[l].state = "released" /\ lease[l].due < cutoff
                   THEN NoLease ELSE lease[l]]
       ELSE UNCHANGED <<pruned, marks, notices, events, lease>>
    /\ UNCHANGED <<boardVars, task, sprints, ttl, floor, paused, blocker>>

\* The daemon stops and starts: the pass and the time of the last retention are lost.
Restart ==
    /\ pass.stage # "idle"
    /\ pass' = Idle /\ pruned' = -1
    /\ UNCHANGED <<boardVars, task, lease, sprints, ttl, floor, paused, blocker, marks,
                   notices, events>>

---------------------------------------------------------------------------
(* The clients, between any two steps of a pass.                             *)

others == <<card, revoked, limit, marks, notices, events, pruned, pass>>

Claim(a, t) ==
    /\ a \in Active /\ task[t].state = "queued"
    /\ task' = [task EXCEPT ![t] = [state |-> "claimed", agent |-> a, claimed |-> now]]
    /\ UNCHANGED <<now, others, lease, sprints, ttl, floor, paused, blocker>>

\* work.reclaim: a supervisor returns a claim to the queue.
WorkReclaim(t) ==
    /\ task[t].state = "claimed"
    /\ task' = [task EXCEPT ![t] = Unclaimed]
    /\ UNCHANGED <<now, others, lease, sprints, ttl, floor, paused, blocker>>

RequestRun(t) ==
    /\ task[t].state = "claimed"
    /\ task' = [task EXCEPT ![t].state = "requested"]
    /\ UNCHANGED <<now, others, lease, sprints, ttl, floor, paused, blocker>>

SetTtl(v) ==
    /\ v # ttl
    /\ ttl' = v
    /\ UNCHANGED <<now, others, task, lease, sprints, floor, paused, blocker>>

LeaseAcquire(l) ==
    /\ lease[l].state = "none"
    /\ lease' = [lease EXCEPT ![l] =
                     [state |-> "open", kind |-> "path", due |-> now + LeaseTtl]]
    /\ UNCHANGED <<now, others, task, sprints, ttl, floor, paused, blocker>>

\* Only an active lease is renewed; a quiet window never is.
LeaseRenew(l) ==
    /\ lease[l].state = "open" /\ lease[l].kind = "path" /\ lease[l].due > now
    /\ lease' = [lease EXCEPT ![l].due = now + LeaseTtl]
    /\ UNCHANGED <<now, others, task, sprints, ttl, floor, paused, blocker>>

\* lease.release and quiet.close.
LeaseRelease(l) ==
    /\ lease[l].state = "open"
    /\ lease' = [lease EXCEPT ![l].state = "released", ![l].due = now]
    /\ UNCHANGED <<now, others, task, sprints, ttl, floor, paused, blocker>>

\* One window at a time, ending after now.
QuietOpen(l, end) ==
    /\ lease[l].state = "none" /\ end > now
    /\ \A k \in Leases : ~(lease[k].state = "open" /\ lease[k].kind = "quiet")
    /\ lease' = [lease EXCEPT ![l] = [state |-> "open", kind |-> "quiet", due |-> end]]
    /\ UNCHANGED <<now, others, task, sprints, ttl, floor, paused, blocker>>

CloseSprint(s) ==
    /\ s \in sprints
    /\ sprints' = sprints \ {s}
    /\ UNCHANGED <<now, others, task, lease, ttl, floor, paused, blocker>>

\* Someone finishes or cancels a blocker card by hand.
CloseBlockerCard(b) ==
    /\ b \in blocker.open
    /\ blocker' = [blocker EXCEPT !.open = @ \ {b}]
    /\ UNCHANGED <<now, others, task, lease, sprints, ttl, floor, paused>>

\* The machine itself.
FloorChanges ==
    /\ floor' = IF floor = "met" THEN "low" ELSE "met"
    /\ UNCHANGED <<now, others, task, lease, sprints, ttl, paused, blocker>>

Evidence(a, c) ==
    /\ AddEvidence(a, c)
    /\ events' = events \cup {[kind |-> "card.evidence", subject |-> c, ts |-> now]}
    /\ UNCHANGED <<task, lease, sprints, ttl, floor, paused, blocker, marks, notices,
                   pruned, pass>>

Init ==
    /\ BoardInit
    /\ task = [t \in Tasks |-> Unclaimed]
    /\ lease = [l \in Leases |-> NoLease]
    /\ sprints \in SUBSET Sprints
    /\ ttl \in Ttls
    /\ floor = "met" /\ paused = FALSE
    /\ blocker = [made |-> 0, ref |-> 0, open |-> {}]
    /\ marks = {} /\ notices = {} /\ events = {}
    /\ pruned = -1 /\ pass = Idle

Clients ==
    \/ \E t \in Tasks : WorkReclaim(t) \/ RequestRun(t) \/ \E a \in Agents : Claim(a, t)
    \/ \E v \in Ttls : SetTtl(v)
    \/ \E l \in Leases : \/ LeaseAcquire(l) \/ LeaseRenew(l) \/ LeaseRelease(l)
                         \/ \E end \in 1..MaxNow : QuietOpen(l, end)
    \/ \E s \in Sprints : CloseSprint(s)
    \/ \E b \in 1..MaxBlockers : CloseBlockerCard(b)
    \/ MaxBlockers > 0 /\ FloorChanges
    \/ \E a \in Agents, c \in Cards : Evidence(a, c)
    \/ (BoardStep \/ Tick) /\ UNCHANGED restVars

Reconcile ==
    PassBegin \/ (\E r \in {floor, "unknown"} : Snapshot(r)) \/ Apply \/ ApplyFails
        \/ PassEnd \/ Restart

Next == Clients \/ Reconcile

Spec == Init /\ [][Next]_vars

---------------------------------------------------------------------------

\* Every variable has its type.
TypeOK ==
    /\ BoardTypeOK
    /\ task \in [Tasks -> TaskClaim] /\ lease \in [Leases -> LeaseOf]
    /\ sprints \subseteq Sprints /\ ttl \in Ttls
    /\ floor \in {"met", "low"} /\ paused \in BOOLEAN
    /\ blocker.made \in Nat /\ blocker.ref \in 0..blocker.made
    /\ blocker.open \subseteq 1..blocker.made
    /\ pass.stage \in {"idle", "reading", "applying"}
    /\ Len(pass.plan) <= MaxActions

\* A pass whose plan was neither cut nor interrupted has applied it all.
Completed == pass.stage = "applying" /\ pass.plan = <<>> /\ pass.whole

\* "one hold lasts at most claim_ttl_s plus one reconcile interval": a completed
\* pass made under the longest TTL ever set leaves no claim that had outlived it
\* when the pass began.
HoldIsBounded ==
    (Completed /\ ttl = pass.ttl /\ \A v \in Ttls : v <= ttl) =>
        \A t \in Tasks : task[t].state = "claimed" => task[t].claimed + ttl > pass.now

\* The same when the TTL changes: a completed pass has tried to expire each claim
\* that had outlived the TTL when it began, so only a claim it tried and kept holds on.
DueClaimsAreTried ==
    (Completed /\ ttl = pass.ttl /\ ttl > 0) =>
        \A t \in Tasks : task[t].state = "claimed" =>
            task[t].claimed + ttl > pass.now \/ <<"claim", t, task[t].claimed>> \in Keys

=============================================================================
