------------------------------- MODULE MCJobs -------------------------------
(***************************************************************************)
(* What the scheduler decides and what becomes of a job it starts, one part at  *)
(* a time: the life of one job, the admission of a crowd of jobs, and the       *)
(* planning of a list of tasks.                                                 *)
(***************************************************************************)
EXTENDS MCJobLifecycle, Admission, Planning

VARIABLE part

jobsVars == <<vars, admissionVars, planningVars, part>>

\* The crowds: a job without history is known by its weight only; a validity job is judged first.
ShapeOf(w, c, d, r, v) == [weight |-> w, cores |-> c, dur |-> d, p90 |-> d, rss |-> r, valid |-> v]
Tiny   == ShapeOf(1, {}, {}, 0, FALSE)
Small  == ShapeOf(2, {2}, {1}, 1, FALSE)
Heavy  == ShapeOf(6, {}, {}, 0, FALSE)
Checks == ShapeOf(5, {4}, {2}, 2, TRUE)
Whole  == ShapeOf(8, {}, {}, 0, FALSE)
FirstCrowd == <<Whole, Whole, Heavy>>
SomeCrowds == {FirstCrowd, <<Heavy, Whole, Small>>, <<Checks, Heavy, Tiny>>}
SomeReadings == {[pressed |-> pressed, used |-> 1] : pressed \in BOOLEAN}
OneCapacity == {12}

\* The tasks: four of them with any prerequisites of a kind (none, one, repeated, several, themselves), in two
\* profiles of tiers, values, sizes, arrivals and files; four roots with shared files for the game; and lists
\* that are refused, or whose prerequisites are not all queued.
TaskOf(i, t, v, z, q, a, f) == [id |-> i, tier |-> t, value |-> v, size |-> z, queued |-> q, after |-> a, files |-> f]
Afters == {<<>>, <<1>>, <<2>>, <<3, 3>>, <<1, 1, 2>>, <<4, 2>>}
A  == <<"a">>
AB == <<"a", "b">>
C  == <<"c">>
Shared(a)   == <<TaskOf(1, 1, 1, 2, {}, a[1], {A}), TaskOf(2, 1, 1, 1, {2}, a[2], {AB}), TaskOf(3, 0, 2, 2, {1}, a[3], {C}), TaskOf(4, 2, 2, 1, {}, a[4], {})>>
Separate(a) == <<TaskOf(1, 2, 2, 1, {3}, a[1], {}), TaskOf(2, 1, 1, 2, {3}, a[2], {}), TaskOf(3, 1, 1, 1, {1}, a[3], {}), TaskOf(4, 0, 1, 2, {}, a[4], {})>>
Request(q, t, policy, n, assign, cost) ==
    [queue |-> q, tasks |-> t, policy |-> policy, agents |-> n, assign |-> assign, cost |-> cost]
Graphs == {Request(FALSE, t, policy, 2, FALSE, {}) : t \in {Shared(a) : a \in [1 .. 4 -> Afters]} \union {Separate(a) : a \in [1 .. 4 -> Afters]},
                                                      policy \in {"fifo", "wsjf", "critical-path"}}
Game(f) == [p \in 1 .. Len(f) |-> TaskOf(p, 1, 1, 1, {}, <<>>, f[p])]
Games == {Request(FALSE, Game(f), "fifo", 3, TRUE, c) : f \in {<<{A, C}, {C}, {A}, {}>>, <<{}, {}, {C}, {C}>>, <<{}, {AB}, {A}, {A}>>}, c \in {{}, {0}, {1}, {3}, {-5}}}
Odd == {Request(q, <<TaskOf(1, 1, 1, 1, {}, <<>>, {}), TaskOf(i, 1, 1, 1, {}, <<7, 1>>, {})>>, "fifo", n, FALSE, {}) :
          q \in BOOLEAN, i \in {1, 2}, n \in {0, 1, 4}}
FirstWork == Request(FALSE, <<>>, "fifo", 1, FALSE, {})
SomeWorks == Graphs \union Games \union Odd \union {FirstWork}

JobsInit ==
    /\ Init /\ AdmissionInit /\ PlanningInit /\ part \in {"job", "admission", "planning"}
    /\ ~reading.pressed
    /\ part # "job" => env = Stormy
    /\ part # "admission" => yard = [j \in Jobs |-> NoRow(FirstCrowd[j])]
    /\ part # "planning" => work = FirstWork
JobsNext ==
    \/ part = "job" /\ Next /\ UNCHANGED <<admissionVars, planningVars, part>>
    \/ part = "admission" /\ AdmissionStep /\ UNCHANGED <<vars, planningVars, part>>
    \/ part = "planning" /\ PlanningStep /\ UNCHANGED <<vars, admissionVars, part>>
JobsSpec == JobsInit /\ [][JobsNext]_jobsVars
=============================================================================
