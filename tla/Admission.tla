----------------------------- MODULE Admission -----------------------------
(***************************************************************************)
(* Which waiting job starts.  The admission loop of the daemon reads the       *)
(* store, probes the machine, decides with the pure pass of agora-sched        *)
(* (cores, capacity, memory, pressure, backfill, quiet windows), applies the    *)
(* decision and sleeps until an event, a kick or the instant it computed.       *)
(*                                                                             *)
(* Cores are counted in halves, so the tolerances of the floats are left out.   *)
(* An optional value is a set with at most one member.  The causes "Memory",    *)
(* "Idle" and "Load" are one: "Machine".                                        *)
(***************************************************************************)
EXTENDS Integers, FiniteSets, FiniteSetsExt

CONSTANTS Jobs,          \* the jobs that may be requested
          Crowds,        \* for each job what it declares and what is predicted of it
          Cpus, Budget, Capacity, SmallWeight, MemBudget,        \* settings and machine; Capacity is optional
          QuietDrain, QuietMax, BackfillWait, LoadWait, Aging,   \* settings
          Recheck, Retry,                                        \* MACHINE_RECHECK_MS, RETRY_MS
          Readings,      \* what the machine probe may say
          LastInstant,      \* bound on time
          MaxTroubles    \* bound on failures, cancels, and changes of the gates, the machine and the samples

VARIABLES yard,      \* the jobs' rows
          gates,     \* the admission pause and the end of the manual quiet window
          reading,   \* what a probe of the machine would say now
          keeper,    \* the admission loop
          time, troubles

admissionVars == <<yard, gates, reading, keeper, time, troubles>>

Optional(S) == {s \in SUBSET S : \A x, y \in s : x = y}
Shape == [weight : Nat, cores : Optional(Nat), dur : Optional(Nat), p90 : Optional(Nat), rss : Nat, valid : BOOLEAN]
Reading == [pressed : BOOLEAN, used : Nat]
ASSUME CrowdsAssumption == \A crowd \in Crowds : DOMAIN crowd = Jobs /\ \A j \in Jobs : crowd[j] \in Shape
ASSUME AdmissionAssumption ==
    /\ Jobs \subseteq Nat /\ IsFiniteSet(Jobs) /\ Readings \subseteq Reading /\ Capacity \subseteq Nat
    /\ {Cpus, Budget, SmallWeight, MemBudget, QuietDrain, QuietMax, BackfillWait, LoadWait, Aging, Recheck, Retry} \subseteq Nat

TinyCores == 1
DefaultDuration == 30
NoRow(shape) == [st |-> "out", shape |-> shape, requested |-> 0, seq |-> 0, started |-> {}, quiet |-> {}, ended |-> {}, cpu |-> {}, rss |-> 0]
NoCause == [j \in Jobs |-> "none"]

AdmissionInit ==
    /\ \E crowd \in Crowds : yard = [j \in Jobs |-> NoRow(crowd[j])]
    /\ gates = [paused |-> FALSE, manual |-> {}]
    /\ reading \in Readings
    /\ keeper = [at |-> "due", ok |-> TRUE, wake |-> {}, event |-> FALSE, since |-> [j \in Jobs |-> {}],
                 seen |-> [row |-> yard, gates |-> gates, reading |-> reading]]
    /\ time = 0 /\ troubles = 0

(***************************************************************************)
(* The pure pass.  `v` is its input: the rows, the gates, the reading, the      *)
(* time, the closes of the quiet windows and how long the machine has held      *)
(* each job; the jobs started and failed so far have changed their rows in it.  *)
(***************************************************************************)
In(v, st)     == {j \in Jobs : v.row[j].st = st}
Weight(v, j)  == v.row[j].shape.weight
\* The prediction, or the last sample of a job nothing is known of; never more than it declares.
PredCores(r)  == IF r.shape.cores # {} THEN r.shape.cores ELSE r.cpu
Cores(v, j)   == Min({Weight(v, j)} \union PredCores(v.row[j]))
IsTiny(v, j)  == Cores(v, j) <= TinyCores
IsHeavy(v, j) == Cores(v, j) > SmallWeight
Exclusive(v, j) == Cpus >= 4 /\ Weight(v, j) >= Cpus
Total(f, S)   == MapThenSumSet(LAMBDA j : f[j], S)
CoresOf(v)    == [j \in Jobs |-> Cores(v, j)]
UsedCores(v)  == Total(CoresOf(v), In(v, "running"))
Requested(v, j) == v.row[j].requested

\* Alone, anything fits.
\* Faulty: a job larger than the budget does not fit even alone.
OverEvenAlone(need, used, limit) == used + need > limit
Over(need, used, limit) == used > 0 /\ used + need > limit

Pressure(v) == v.reading.pressed \/ v.reading.used > MemBudget

\* A running job grows to its p90 peak until its p90 run time has passed.
Growth(v, j) ==
    IF \E s \in v.row[j].started, d \in v.row[j].shape.p90 : v.now < s + d
    THEN Max({0, v.row[j].shape.rss - v.row[j].rss}) ELSE 0
MemoryReservation(v, j) ==
    /\ In(v, "running") # {} /\ v.reading.used <= MemBudget
    /\ v.reading.used + Total([r \in In(v, "running") |-> Growth(v, r)], In(v, "running")) + v.row[j].shape.rss > MemBudget

MemoryThenPressure(v, j) ==
    IF MemoryReservation(v, j) THEN "Reserved" ELSE IF Pressure(v) THEN "Machine" ELSE "none"
AdmissionOf(v, j) ==
    LET declared == Total([r \in Jobs |-> Weight(v, r)], In(v, "running"))
    IN  IF Over(Cores(v, j), UsedCores(v), Budget) /\ (~IsTiny(v, j) \/ Exclusive(v, j)) THEN "Cores"
        ELSE IF \E c \in Capacity : Over(Weight(v, j), declared, c) THEN "Capacity"
        ELSE MemoryThenPressure(v, j)

\* Validity work first, then the predicted finish, the request time and the sequence number.
Duration(shape) == IF shape.dur = {} THEN DefaultDuration ELSE Min(shape.dur)
OrderKey(v, j) ==
    LET r == v.row[j]
    IN  <<IF r.shape.valid THEN 0 ELSE 1, Duration(r.shape) + Aging * r.requested, r.requested, r.seq>>
Before(v, i, j) ==
    LET a == OrderKey(v, i)   b == OrderKey(v, j)
    IN \E k \in 1 .. 4 : a[k] < b[k] /\ \A l \in 1 .. k - 1 : a[l] = b[l]
FirstOf(v, S) == CHOOSE i \in S : \A j \in S \ {i} : Before(v, i, j)

\* When the head may start: the first predicted end that leaves room for it.
PredictedEnd(v, j) ==
    Max({v.now} \union {s + d : s \in v.row[j].started, d \in v.row[j].shape.p90})
Left(v, e) == UsedCores(v) - Total(CoresOf(v), {r \in In(v, "running") : PredictedEnd(v, r) <= e})
HeadStart(v, head) ==
    LET ends == {PredictedEnd(v, r) : r \in In(v, "running")}
        fits == {e \in ends : ~Over(Cores(v, head), Left(v, e), Budget)}
    IN IF ~Over(Cores(v, head), UsedCores(v), Budget) THEN v.now
       ELSE IF fits = {} THEN Max(ends) ELSE Min(fits)

\* A job behind others in the line: it may pass the head only if that does not put the head off.
Passes(v, j, ahead) ==
    LET head  == FirstOf(v, ahead)
        since == {r \in In(v, "running") : \E s \in v.row[r].started : s >= Requested(v, head)}
        spare == Budget - Cores(v, head) - Total(CoresOf(v), since)
    IN  \/ Cores(v, j) <= spare
        \/ \E d \in v.row[j].shape.p90 : v.now + d <= HeadStart(v, head)
        \/ Cores(v, j) <= SmallWeight /\ \A a \in ahead : ~v.row[a].shape.valid
Backfill(v, j, ahead) ==
    LET head == FirstOf(v, ahead)
    IN IF v.now - Requested(v, head) >= BackfillWait \/ ~Over(Cores(v, head), UsedCores(v), Budget) THEN "Ahead"
       ELSE IF UsedCores(v) + Cores(v, j) > Budget THEN "Cores"
       ELSE IF Passes(v, j, ahead) THEN "none" ELSE "Ahead"

(***************************************************************************)
(* Quiet windows: an exclusive job drains the machine, then runs with no heavy  *)
(* job starting beside it for QuietMax; a manual window does the same.           *)
(***************************************************************************)
QuietLine(v) == {j \in In(v, "waiting") : Exclusive(v, j)}
DrainStart(v, j) == Max({Requested(v, j), 0} \union {c[2] : c \in {c \in v.closes : c[1] # j}})
WindowOpen(v) == \E r \in In(v, "running") : \E u \in v.row[r].quiet : u > v.now
ManualOpen(v) == \E u \in v.gates.manual : u > v.now
Draining(v) == ~WindowOpen(v) /\ QuietLine(v) # {} /\ v.now < DrainStart(v, FirstOf(v, QuietLine(v))) + QuietDrain
Holding(v) == WindowOpen(v) \/ Draining(v) \/ ManualOpen(v)
LineAhead(v, j) ==
    {w \in In(v, "waiting") : /\ ~Exclusive(v, w) /\ ~IsTiny(v, w) /\ ~(Holding(v) /\ IsHeavy(v, w))
                              /\ w # j /\ Before(v, w, j)}

\* Faulty: past its drain an exclusive job does not look for an open window.
QuietBlockerUnseen(v, j) ==
    IF j # FirstOf(v, QuietLine(v)) THEN "Quiet"
    ELSE IF v.now >= DrainStart(v, j) + QuietDrain THEN MemoryThenPressure(v, j)
    ELSE IF \E r \in In(v, "running") : IsHeavy(v, r) THEN "Quiet" ELSE AdmissionOf(v, j)
QuietBlocker(v, j) ==
    IF j # FirstOf(v, QuietLine(v)) \/ WindowOpen(v) THEN "Quiet"
    ELSE IF v.now >= DrainStart(v, j) + QuietDrain THEN MemoryThenPressure(v, j)
    ELSE IF \E r \in In(v, "running") : IsHeavy(v, r) THEN "Quiet" ELSE AdmissionOf(v, j)
Blocker(v, j) ==
    LET behind == IF IsTiny(v, j) \/ LineAhead(v, j) = {} THEN "none" ELSE Backfill(v, j, LineAhead(v, j))
    IN  IF v.gates.paused THEN "Paused"
        ELSE IF IsHeavy(v, j) /\ ManualOpen(v) THEN "Quiet"
        ELSE IF Exclusive(v, j) THEN QuietBlocker(v, j)
        ELSE IF IsHeavy(v, j) /\ (WindowOpen(v) \/ Draining(v)) THEN "Quiet"
        ELSE IF behind # "none" THEN behind ELSE AdmissionOf(v, j)

(***************************************************************************)
(* One pass over the line: each job is judged against what runs, the jobs       *)
(* started before it included.                                                  *)
(***************************************************************************)
StartedRow(v, j) ==
    [v.row[j] EXCEPT !.st = "running", !.started = {v.now}, !.quiet = IF Exclusive(v, j) THEN {v.now + QuietMax} ELSE {}]
HeldSince(v, j) == Min(v.since[j] \union {v.now})
Judge(v, j) ==
    LET c == Blocker(v, j)
    IN IF c = "none" THEN [v EXCEPT !.row[j] = StartedRow(v, j), !.start = @ \union {j}]
       ELSE IF c = "Machine" /\ v.now - HeldSince(v, j) >= LoadWait
            THEN [v EXCEPT !.row[j] = [v.row[j] EXCEPT !.st = "ended"], !.fail = @ \union {j}]
       ELSE [v EXCEPT !.held[j] = c, !.since[j] = IF c = "Machine" THEN {HeldSince(v, j)} ELSE {}]
Closes(row) == {<<j, Min(row[j].quiet \union row[j].ended)>> : j \in {j \in Jobs : row[j].quiet # {}}}
Input(seen, since, now) ==
    [row |-> seen.row, gates |-> seen.gates, reading |-> seen.reading, now |-> now, since |-> since,
     closes |-> Closes(seen.row), start |-> {}, fail |-> {}, held |-> NoCause]
\* The order of the line does not change during a pass.
Unjudged(v)  == {j \in In(v, "waiting") : v.held[j] = "none"}
JudgeNext(v) == IF Unjudged(v) = {} THEN v ELSE Judge(v, FirstOf(v, Unjudged(v)))
Decide(v) ==
    LET Pass[n \in 0 .. Cardinality(Jobs)] == IF n = 0 THEN v ELSE JudgeNext(Pass[n - 1])
    IN  Pass[Cardinality(Jobs)]

\* Faulty: the close of another job's window, which restarts the drain, is forgotten.
InstantsNoCloses(v) ==
    LET line == {j \in In(v, "waiting") : ~Exclusive(v, j) /\ ~IsTiny(v, j)}
    IN UNION {{Requested(v, j) + QuietDrain : j \in QuietLine(v)},
              UNION {v.row[r].quiet : r \in In(v, "running")},
              UNION {{s + d : s \in v.row[r].started, d \in v.row[r].shape.p90} : r \in In(v, "running")},
              IF line = {} THEN {} ELSE {Requested(v, FirstOf(v, line)) + BackfillWait},
              UNION {{t + LoadWait : t \in v.since[j]} : j \in {j \in Jobs : v.held[j] = "Machine"}},
              v.gates.manual}
\* The instants at which a rule's outcome can change.
Instants(v) ==
    LET line == {j \in In(v, "waiting") : ~Exclusive(v, j) /\ ~IsTiny(v, j)}
    IN UNION {{Requested(v, j) + QuietDrain : j \in QuietLine(v)},
              {c[2] + QuietDrain : c \in v.closes},
              UNION {v.row[r].quiet : r \in In(v, "running")},
              UNION {{s + d : s \in v.row[r].started, d \in v.row[r].shape.p90} : r \in In(v, "running")},
              IF line = {} THEN {} ELSE {Requested(v, FirstOf(v, line)) + BackfillWait},
              UNION {{t + LoadWait : t \in v.since[j]} : j \in {j \in Jobs : v.held[j] = "Machine"}},
              v.gates.manual}
Earliest(S) == IF S = {} THEN {} ELSE {Min(S)}
NextWakeup(v) == Earliest({t \in Instants(v) : t > v.now})
MachineGated(v) == \E j \in Jobs : v.held[j] = "Machine"

(***************************************************************************)
(* The loop.  `event` stands for a queued bus event or a kick.                  *)
(***************************************************************************)
Due == keeper.event \/ \E w \in keeper.wake : time >= w
\* The queued events are dropped, then the store is read.
PassReads ==
    /\ keeper.at = "due" \/ (keeper.at = "asleep" /\ Due)
    /\ keeper' = [keeper EXCEPT !.at = "read", !.event = FALSE, !.wake = {}, !.seen = [row |-> yard, gates |-> gates, reading |-> reading]]
    /\ UNCHANGED <<yard, gates, reading, time, troubles>>

\* A read or a probe that fails.
PassFails ==
    /\ keeper.at = "read" /\ troubles < MaxTroubles /\ troubles' = troubles + 1
    /\ keeper' = [keeper EXCEPT !.at = "asleep", !.ok = FALSE, !.wake = {time + Retry}]
    /\ UNCHANGED <<yard, gates, reading, time>>

\* An ended job matters only by the close of its quiet window.
EndedRow(r) == [NoRow(r.shape) EXCEPT !.st = "ended", !.quiet = r.quiet, !.ended = IF r.quiet = {} THEN {} ELSE {time}]
\* The machine is probed, the decision made and applied.  `unspawned` are the jobs whose supervisor does
\* not start, `unwritten` the ends the store does not take; a job that was ended meanwhile takes neither.
RetryWake(now, failed) == IF failed THEN {now + Retry} ELSE {}
Applied(v, j, unspawned, unwritten) ==
    IF yard[j].st # "waiting" \/ j \in unwritten THEN yard[j]
    ELSE IF j \in v.fail \union unspawned THEN EndedRow(yard[j])
    ELSE IF j \in v.start THEN v.row[j] ELSE yard[j]
PassApplies ==
    /\ keeper.at = "read"
    /\ \E v \in {Decide(Input([keeper.seen EXCEPT !.reading = reading], keeper.since, time))} :
       \E unspawned \in SUBSET v.start : \E unwritten \in SUBSET (v.fail \union unspawned) :
          LET written == {j \in v.start \union v.fail : yard[j].st = "waiting" /\ j \notin unwritten}
              failed  == v.start \union v.fail # written
              again   == IF MachineGated(v) THEN {time + Recheck} ELSE {}
          IN /\ troubles + Cardinality(unspawned) + Cardinality(unwritten) <= MaxTroubles
             /\ troubles' = troubles + Cardinality(unspawned) + Cardinality(unwritten)
             /\ yard' = [j \in Jobs |-> Applied(v, j, unspawned, unwritten)]
             /\ keeper' = [keeper EXCEPT !.at = "asleep", !.ok = ~failed, !.event = @ \/ written # {},
                                         !.since = [j \in Jobs |-> IF j \in In(Input(keeper.seen, keeper.since, time), "waiting") THEN v.since[j] ELSE {}],
                                         !.wake = Earliest(NextWakeup(v) \union again \union RetryWake(time, failed)),
                                         !.seen.reading = reading]
    /\ UNCHANGED <<gates, reading, time>>

(***************************************************************************)
(* What happens around the loop.                                              *)
(***************************************************************************)
Tell == [keeper EXCEPT !.event = TRUE]
WorkRequest(j) ==
    /\ yard[j].st = "out" /\ \A i \in Jobs : i < j => yard[i].st # "out"
    /\ yard' = [yard EXCEPT ![j].st = "waiting", ![j].requested = time, ![j].seq = j]
    /\ keeper' = Tell /\ UNCHANGED <<gates, reading, time, troubles>>
JobEnds(j) ==
    /\ yard[j].st = "running" /\ yard' = [yard EXCEPT ![j] = EndedRow(@)]
    /\ keeper' = Tell /\ UNCHANGED <<gates, reading, time, troubles>>
CancelWaiting(j) ==
    /\ yard[j].st = "waiting" /\ yard' = [yard EXCEPT ![j] = EndedRow(@)]
    /\ keeper' = Tell /\ UNCHANGED <<gates, reading, time>>
\* The reconciler pauses and resumes admission; an agent opens and closes a quiet window.
GateShuts ==
    /\ \/ ~gates.paused /\ gates' = [gates EXCEPT !.paused = TRUE]
       \/ gates.manual = {} /\ gates' = [gates EXCEPT !.manual = {time + 1}]
    /\ keeper' = Tell /\ UNCHANGED <<yard, reading, time>>
GateOpens ==
    /\ \/ gates.paused /\ gates' = [gates EXCEPT !.paused = FALSE]
       \/ gates.manual # {} /\ gates' = [gates EXCEPT !.manual = {}]
    /\ keeper' = Tell /\ UNCHANGED <<yard, reading, time, troubles>>
\* Neither the machine nor a sample of a running job is announced.
MachineMoves == reading' \in Readings \ {reading} /\ UNCHANGED <<yard, gates, keeper, time>>
JobSample(j) ==
    /\ yard[j].st = "running" /\ yard' = [yard EXCEPT ![j].rss = yard[j].shape.rss, ![j].cpu = {TinyCores}]
    /\ UNCHANGED <<gates, reading, keeper, time>>
\* A pass that is due begins at once, and may take any time.
TimePasses ==
    /\ time < LastInstant /\ (keeper.at = "read" \/ (keeper.at = "asleep" /\ ~Due)) /\ time' = time + 1
    /\ UNCHANGED <<yard, gates, reading, keeper, troubles>>

Troubled == troubles < MaxTroubles /\ troubles' = troubles + 1
AdmissionStep ==
    \/ PassReads \/ PassFails \/ PassApplies \/ TimePasses
    \/ \E j \in Jobs : JobEnds(j) \/ WorkRequest(j)
    \/ GateOpens
    \/ Troubled /\ (GateShuts \/ MachineMoves \/ \E j \in Jobs : CancelWaiting(j) \/ JobSample(j))

AdmissionSpec == AdmissionInit /\ [][AdmissionStep]_admissionVars

(***************************************************************************)
(* Properties.                                                                *)
(***************************************************************************)
Now == Input([row |-> yard, gates |-> gates, reading |-> reading], keeper.since, time)
Announced(row) == [j \in Jobs |-> [row[j] EXCEPT !.cpu = {}, !.rss = 0]]

\* The sleep of the admission loop loses nothing: with no event queued and its wake-up still ahead, what it
\* last read is what the store holds (samples aside), and a pass over it at any such instant would start and
\* fail no job.  After a pass that failed there is a wake-up to try again.
SleepMissesNothing ==
    keeper.at = "asleep" /\ ~keeper.event /\ (\A w \in keeper.wake : time < w)
    => IF keeper.ok
       THEN /\ Announced(yard) = Announced(keeper.seen.row) /\ gates = keeper.seen.gates
            /\ \E v \in {Decide(Input(keeper.seen, keeper.since, time))} : v.start = {} /\ v.fail = {}
       ELSE keeper.wake # {}

\* The waiting jobs never all wait for each other: on a machine that runs nothing, is under no pressure and is
\* not held by hand, a pass starts one of them, whatever they declare and however their drains and the line stand.
SomeoneStarts ==
    /\ In(Now, "waiting") # {} /\ In(Now, "running") = {}
    /\ ~gates.paused /\ ~ManualOpen(Now) /\ ~Pressure(Now)
    => Decide(Now).start # {}

\* While the quiet window of an exclusive job is open no other window is, and no heavy job started after it,
\* whatever ended, was requested or was refused while passes were under way.
WindowIsQuiet ==
    \A e \in In(Now, "running") : (\E u \in yard[e].quiet : u > time) =>
       \A r \in In(Now, "running") \ {e} :
          /\ \A u \in yard[r].quiet : u <= time
          /\ IsHeavy(Now, r) => \A s \in yard[r].started, t \in yard[e].started : s <= t
=============================================================================
