------------------------------ MODULE TimerLoop ------------------------------
(***************************************************************************)
(* Persisted timers and the loop that fires them.  The store keeps each timer  *)
(* with its next fire; the loop asks what is due, fires it as a system op, and *)
(* sleeps until the next instant, a change of a timer or a lagged bus.         *)
(***************************************************************************)
EXTENDS EventBus, FiniteSetsExt

CONSTANTS
    Instants,    \* of `at` timers, and starts
    Periods,     \* `every` intervals
    TimerQuota,  \* timer_quota: enabled timers of one owner
    MaxTime      \* bound on the clock

ASSUME TimerAssumption == Periods \subseteq Nat \ {0} /\ Instants \subseteq Nat /\ TimerQuota \in Nat /\ MaxTime \in Nat

VARIABLES timers, loop, now

timerVars == <<timers, loop, now>>

Never == -1
\* A schedule: `at` one instant; every `period` from `start`, or (start = Never) from the
\* first fire; a cron line is a grid from the epoch.
Specs ==
    [kind : {"at"}, at : Instants, period : {1}, start : {Never}]
      \cup [kind : {"every"}, at : {0}, period : Periods, start : {Never} \cup Instants]
      \cup [kind : {"cron"}, at : {0}, period : Periods, start : {0}]

NoTimer == [live |-> FALSE, enabled |-> FALSE, next |-> Never, phase |-> 0,
            spec |-> [kind |-> "at", at |-> 0, period |-> 1, start |-> Never]]

NoLoop == [stage |-> "scan", pos |-> 0, at |-> 0, due |-> {}, deadline |-> Never,
           failed |-> [t \in Timers |-> Never]]

-----------------------------------------------------------------------------
(* Instants.                                                                  *)

\* The first point of the grid after `t`: anchor + (floor((t - anchor) / period) + 1) * period.
GridAfter(anchor, period, t) == anchor + ((t - anchor) \div period + 1) * period

FirstFire(spec, created) ==
    CASE spec.kind = "at"    -> spec.at
      [] spec.kind = "every" -> IF spec.start # Never THEN spec.start ELSE created + spec.period
      [] spec.kind = "cron"  -> GridAfter(0, spec.period, created)

\* After a fire scheduled for `fired`: strictly after `t`, so missed fires coalesce.
NextFire(spec, fired, t) ==
    CASE spec.kind = "at"    -> Never
      [] spec.kind = "every" -> GridAfter(IF spec.start # Never THEN spec.start ELSE fired, spec.period, t)
      [] spec.kind = "cron"  -> GridAfter(0, spec.period, IF t > fired THEN t ELSE fired)

-----------------------------------------------------------------------------
(* The store.                                                                 *)

Enabled(t) == timers[t].live /\ timers[t].enabled
DueAt(t, instant) == Enabled(t) /\ timers[t].next # Never /\ timers[t].next <= instant

Changed(t) == Commit(store, <<Ev("timer", t)>>)

TimerCreate(t, spec) ==
    /\ ~timers[t].live /\ Cardinality({u \in Timers : Enabled(u)}) < TimerQuota
    /\ LET next == FirstFire(spec, now) IN
       timers' = [timers EXCEPT ![t] = [live |-> TRUE, enabled |-> TRUE, next |-> next,
                                        phase |-> next % spec.period, spec |-> spec]]
    /\ Changed(t) /\ UNCHANGED <<loop, now>>

TimerDelete(t) ==
    /\ timers[t].live /\ timers' = [timers EXCEPT ![t] = NoTimer]
    /\ Changed(t) /\ UNCHANGED <<loop, now>>

\* `fire_timer` as of `instant`, for the fire scheduled at `fired`.  A timer whose owner
\* is revoked or no longer a worker is disabled and enqueues nothing.
Fired(t, fired, instant) ==
    LET next == IF store.active THEN NextFire(timers[t].spec, fired, instant) ELSE Never
    IN [timers EXCEPT ![t].next = next, ![t].enabled = (next # Never)]

-----------------------------------------------------------------------------
(* The loop.                                                                  *)

\* `pass` reads the clock and the timers due, and forgets failures that are no longer due.
Scan ==
    /\ loop.stage = "scan"
    /\ LET due == {t \in Timers : DueAt(t, now)} IN
       loop' = [loop EXCEPT
          !.stage = "fire", !.at = now, !.deadline = Never, !.due = {<<t, timers[t].next>> : t \in due},
          !.failed = [t \in Timers |-> IF t \in due /\ timers[t].next = @[t] THEN @[t] ELSE Never]]
    /\ UNCHANGED <<timers, now, store, unpublished, bus>>

Failed(d) == loop.failed[d[1]] = d[2]
\* due_timers orders by next fire; the loop goes through what it read.
First(d) == \A o \in loop.due : d[2] <= o[2]

\* `fire_ms`: the instant the timer was scheduled for, however late the fire is.
FireTime(d) == d[2]

\* Fires one timer of the list; it may have been deleted, replaced or disabled meanwhile,
\* and then nothing is fired.  Its event is published all the same.
Fire(d) ==
    /\ loop.stage = "fire" /\ d \in loop.due /\ First(d) /\ ~Failed(d)
    /\ timers' = IF DueAt(d[1], loop.at) THEN Fired(d[1], FireTime(d), loop.at) ELSE timers
    /\ loop' = [loop EXCEPT !.due = @ \ {d}]
    /\ Commit(store, (IF DueAt(d[1], loop.at) /\ store.active THEN <<Ev("work", NoChannel)>> ELSE <<>>)
                        \o <<Ev("timer", d[1])>>)
    /\ UNCHANGED now

\* The writer answers with an error: the timer is left alone until it changes.
FireFails(d) ==
    /\ loop.stage = "fire" /\ d \in loop.due /\ First(d) /\ ~Failed(d)
    /\ loop' = [loop EXCEPT !.due = @ \ {d}, !.failed[d[1]] = d[2]]
    /\ UNCHANGED <<timers, now, store, unpublished, bus>>

SkipFailed(d) ==
    /\ loop.stage = "fire" /\ d \in loop.due /\ First(d) /\ Failed(d)
    /\ loop' = [loop EXCEPT !.due = @ \ {d}]
    /\ UNCHANGED <<timers, now, store, unpublished, bus>>

\* Faulty: the earliest next fire of all, or none while a timer that failed holds it.
EarliestHidden ==
    LET next == {timers[t].next : t \in {u \in Timers : Enabled(u)}} IN
    IF next = {} \/ \E t \in Timers : loop.failed[t] = Min(next) THEN Never ELSE Min(next)
\* `next_deadline`: the earliest next fire that did not fail.
Earliest ==
    LET next == {timers[t].next : t \in {u \in Timers : Enabled(u) /\ timers[u].next # loop.failed[u]}}
    IN IF next = {} THEN Never ELSE Min(next)

NextDeadline ==
    /\ loop.stage = "fire" /\ loop.due = {}
    /\ loop' = [loop EXCEPT !.stage = "asleep", !.deadline = Earliest, !.at = 0]
    /\ UNCHANGED <<timers, now, store, unpublished, bus>>

\* A read fails: the loop tries again after RETRY_MS.
ScanFails ==
    /\ loop.stage = "scan"
    /\ loop' = [loop EXCEPT !.stage = "asleep", !.deadline = now + 1]
    /\ UNCHANGED <<timers, now, store, unpublished, bus>>

WakeAtDeadline ==
    /\ loop.stage = "asleep" /\ loop.deadline # Never /\ now >= loop.deadline
    /\ loop' = [loop EXCEPT !.stage = "scan"]
    /\ UNCHANGED <<timers, now, store, unpublished, bus>>

\* A change forgets the timer's failure; a lag only rescans.
WakeOnBus ==
    /\ loop.stage = "asleep" /\ Waiting(loop.pos)
    /\ LET e == NextEvent(loop.pos) IN
       loop' = IF Lagged(loop.pos) THEN [loop EXCEPT !.pos = Oldest, !.stage = "scan"]
               ELSE IF e.kind = "timer"
                 THEN [loop EXCEPT !.pos = @ + 1, !.stage = "scan", !.failed[e.on] = Never]
               ELSE [loop EXCEPT !.pos = @ + 1]
    /\ UNCHANGED <<timers, now, store, unpublished, bus>>

Tick == now < MaxTime /\ now' = now + 1 /\ UNCHANGED <<timers, loop, store, unpublished, bus>>

LoopStep ==
    \/ Scan \/ ScanFails \/ NextDeadline \/ WakeAtDeadline \/ WakeOnBus
    \/ \E d \in loop.due : Fire(d) \/ FireFails(d) \/ SkipFailed(d)

TimerStep ==
    \/ LoopStep \/ Tick
    \/ \E t \in Timers : TimerDelete(t) \/ \E spec \in Specs : TimerCreate(t, spec)

TimerInit == timers = [t \in Timers |-> NoTimer] /\ loop = NoLoop /\ now = 0

\* Beside the loop, writes of others keep the bus busy and may revoke the owner of the timers.
TimerNext == TimerStep \/ ((Revoke \/ Unrelated \/ Publish) /\ UNCHANGED timerVars)
TimerSpec == BusInit /\ TimerInit /\ [][TimerNext]_<<busVars, timerVars>>

-----------------------------------------------------------------------------
(* Properties.                                                                *)

\* While the loop sleeps, no timer is forgotten: it will wake at or before the next fire
\* of each one, or the change that set it is still ahead of the loop, unless that very
\* fire failed (`next_deadline`, `wait`).
SleepCoversEveryTimer ==
    loop.stage = "asleep" =>
      \A t \in Timers : Enabled(t) /\ timers[t].next # loop.failed[t] =>
        \/ loop.deadline # Never /\ loop.deadline <= (IF timers[t].next > now THEN timers[t].next ELSE now + 1)
        \/ Lagged(loop.pos)
        \/ \E i \in (loop.pos + 1)..Len(bus) : bus[i] = Ev("timer", t)
        \/ \E i \in DOMAIN unpublished : unpublished[i] = Ev("timer", t)

=============================================================================
