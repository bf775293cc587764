------------------------------ MODULE Planning ------------------------------
(***************************************************************************)
(* The order, the plan and the assignment of a list of tasks (agora-sched      *)
(* graph.rs, order.rs, plan.rs, assign.rs), asked for by WorkPlan or by the     *)
(* given-tasks commands.  Sizes and values are whole numbers; a score is in     *)
(* units of 1/Unit.  A path is the sequence of its parts.  An optional value is *)
(* a set with at most one member.                                               *)
(***************************************************************************)
EXTENDS Integers, Sequences, FiniteSets, FiniteSetsExt, SequencesExt

CONSTANTS Works,       \* what may be asked: the tasks, where they come from, the policy, the agents, assign and its cost
          MaxAgents, MaxTasks, MaxRounds,   \* MAX_AGENTS, MAX_PLAN_TASKS, MAX_ROUNDS
          Unit         \* every size divides it

VARIABLES work,   \* what was asked
          desk    \* how far the answer is

planningVars == <<work, desk>>

TaskForm == [id : Nat, tier : 0 .. 2, value : Nat, size : 1 .. Unit, queued : SUBSET Nat, after : Seq(Nat), files : SUBSET Seq(STRING)]
ASSUME WorksAssumption ==
    \A w \in Works : w.tasks \in Seq(TaskForm) /\ \A p \in DOMAIN w.tasks : Unit % w.tasks[p].size = 0

PlanningInit ==
    /\ work \in Works
    /\ desk = [at |-> "asked", topo |-> <<>>, path |-> <<>>, key |-> <<>>, order |-> <<>>, ready |-> {}, waiting |-> {}, degree |-> <<>>,
               slots |-> {}, running |-> {}, free |-> {}, now |-> 0, ranked |-> <<>>, choices |-> <<>>, turn |-> 0, changed |-> FALSE, rounds |-> 0]

(***************************************************************************)
(* The graph.                                                                 *)
(***************************************************************************)
Positions == DOMAIN work.tasks
Task(p)   == work.tasks[p]
Ids       == {Task(p).id : p \in Positions}
\* The entries of `after` that count: the plan of the queue drops the prerequisites that are not queued.
After(p)  == {k \in DOMAIN Task(p).after : work.queue => Task(p).after[k] \in Ids}
AfterSet(p) == {q \in Positions : \E k \in After(p) : Task(p).after[k] = Task(q).id}
Times(p, q) == Cardinality({k \in After(q) : Task(q).after[k] = Task(p).id})
Dependents(p) == {q \in Positions : Times(p, q) > 0}

Malformed ==
    \/ work.agents \notin 1 .. MaxAgents \/ Len(work.tasks) > MaxTasks
    \/ \E p, q \in Positions : p # q /\ Task(p).id = Task(q).id
    \/ \E p \in Positions : \E k \in After(p) : Task(p).after[k] \notin Ids \ {Task(p).id}

\* Each entry of `after` is counted, as each is one occurrence among the dependents.
Degree(p) == Cardinality(After(p))
PlanBegins ==
    /\ desk.at = "asked"
    /\ desk' = IF Malformed THEN [desk EXCEPT !.at = "refused"]
               ELSE [desk EXCEPT !.at = "graph", !.degree = [p \in Positions |-> Degree(p)], !.ready = {p \in Positions : Degree(p) = 0}]
    /\ UNCHANGED work

\* Any ready task is taken: the rest must not depend on the choice.
GraphPops ==
    /\ desk.at = "graph"
    /\ \E t \in desk.ready :
          desk' = [desk EXCEPT !.topo = Append(@, t), !.degree = [q \in Positions |-> Max({0, @[q] - Times(t, q)})],
                               !.ready = (@ \ {t}) \union {q \in Dependents(t) : desk.degree[q] <= Times(t, q)}]
    /\ UNCHANGED work

Remaining == Positions \ Range(desk.topo)
LeastId(S) == CHOOSE p \in S : \A q \in S : Task(p).id <= Task(q).id
\* Some tasks are left: a cycle is found by following prerequisites from the least id.
CycleBegins ==
    /\ desk.at = "graph" /\ desk.ready = {} /\ Remaining # {}
    /\ desk' = [desk EXCEPT !.at = "cycle", !.path = <<LeastId(Remaining)>>] /\ UNCHANGED work
CycleFollows ==
    /\ desk.at = "cycle"
    /\ \E next \in {LeastId(AfterSet(Last(desk.path)) \cap Remaining)} :
          desk' = IF Contains(desk.path, next)
                  THEN [desk EXCEPT !.at = "refused", !.path = Append(SubSeq(@, SelectInSeq(@, LAMBDA p : p = next), Len(@)), next)]
                  ELSE [desk EXCEPT !.path = Append(@, next)]
    /\ UNCHANGED work

(***************************************************************************)
(* The order: a task takes the least key among its own and its dependents'.   *)
(* Equal keys come from the same task; then the id decides.                    *)
(***************************************************************************)
BottomLevels(topo) ==
    FoldRight(LAMBDA t, level : [level EXCEPT ![t] = Task(t).size + Max({0} \union {level[d] : d \in Dependents(t)})],
              topo, [p \in Positions |-> 0])
OwnKey(p, level) ==
    <<Task(p).tier,
      CASE work.policy = "fifo" -> 0
        [] work.policy = "wsjf" -> -(Task(p).value * (Unit \div Task(p).size))
        [] work.policy = "critical-path" -> -level,
      IF Task(p).queued = {} THEN 1 ELSE 0, Min(Task(p).queued \union (IF Task(p).queued = {} THEN {0} ELSE {})), p>>
KeyLess(a, b) == \E k \in 1 .. 5 : a[k] < b[k] /\ \A l \in 1 .. k - 1 : a[l] = b[l]
LeastKey(K) == CHOOSE k \in K : \A l \in K \ {k} : KeyLess(k, l)
\* Faulty: the prerequisites are walked before their dependents, so a key climbs one edge only.
InheritForward(topo, own) ==
    FoldLeft(LAMBDA key, t : [key EXCEPT ![t] = LeastKey({key[t]} \union {key[d] : d \in Dependents(t)})], own, topo)
Inherit(topo, own) ==
    FoldRight(LAMBDA t, key : [key EXCEPT ![t] = LeastKey({key[t]} \union {key[d] : d \in Dependents(t)})], topo, own)
Own(topo) == [p \in Positions |-> OwnKey(p, BottomLevels(topo)[p])]

Roots == {p \in Positions : AfterSet(p) = {}}
Restart(d) == [d EXCEPT !.degree = [p \in Positions |-> Cardinality(AfterSet(p))], !.ready = Roots]
OrderBegins ==
    /\ desk.at = "graph" /\ desk.ready = {} /\ Remaining = {}
    /\ desk' = [Restart(desk) EXCEPT !.at = "order", !.key = Inherit(desk.topo, Own(desk.topo))] /\ UNCHANGED work
\* The one that is popped.
Urgent(S) ==
    {p \in S : \A q \in S \ {p} : KeyLess(desk.key[p], desk.key[q]) \/ (desk.key[p] = desk.key[q] /\ Task(p).id < Task(q).id)}
OrderPops ==
    /\ desk.at = "order" /\ desk.ready # {}
    /\ \E t \in Urgent(desk.ready) :
          desk' = [desk EXCEPT !.order = Append(@, t), !.degree = [q \in Positions |-> @[q] - (IF q \in Dependents(t) THEN 1 ELSE 0)],
                               !.ready = (@ \ {t}) \union {q \in Dependents(t) : desk.degree[q] = 1}]
    /\ UNCHANGED work

\* One agent without assignment is the order.
OrderEnds ==
    /\ desk.at = "order" /\ desk.ready = {}
    /\ desk' = CASE work.assign -> [desk EXCEPT !.at = "assign", !.ranked = SelectSeq(desk.order, LAMBDA t : t \in Roots),
                                                !.turn = work.agents + 1, !.changed = TRUE]
                 [] ~work.assign /\ work.agents = 1 -> [desk EXCEPT !.at = "done"]
                 [] OTHER -> [Restart(desk) EXCEPT !.at = "plan", !.free = 1 .. work.agents]
    /\ UNCHANGED work

(***************************************************************************)
(* The plan: list scheduling.                                                 *)
(***************************************************************************)
Overlapping(a, b) == IsPrefix(a, b) \/ IsPrefix(b, a)
Conflict(p, q) == p = q \/ \E a \in Task(p).files, b \in Task(q).files : Overlapping(a, b)
\* What the tasks that may start are compared with: the running ones, those started at this instant included.
\* Faulty: those started at this instant are not among them.
BusyBefore == {r \in desk.running : r.start < desk.now}
Busy == desk.running
PlanStarts ==
    /\ desk.at = "plan" /\ desk.free # {} /\ desk.ready # {}
    /\ \E t \in Urgent(desk.ready) : \E agent \in {Min(desk.free)} :
       \E slot \in {[task |-> t, agent |-> agent, start |-> desk.now, end |-> desk.now + Task(t).size]} :
          desk' = IF \E r \in Busy : Conflict(t, r.task)
                  THEN [desk EXCEPT !.ready = @ \ {t}, !.waiting = @ \union {t}]
                  ELSE [desk EXCEPT !.ready = @ \ {t}, !.free = @ \ {agent}, !.running = @ \union {slot}, !.slots = @ \union {slot}]
    /\ UNCHANGED work
PlanAdvances ==
    /\ desk.at = "plan" /\ (desk.free = {} \/ desk.ready = {}) /\ desk.running # {}
    /\ \E now \in {Min({r.end : r \in desk.running})} :
       \E done \in {{r \in desk.running : r.end = now}} :
       \E left \in {[q \in Positions |-> desk.degree[q] - Cardinality({r \in done : q \in Dependents(r.task)})]} :
          desk' = [desk EXCEPT !.now = now, !.running = @ \ done, !.free = @ \union {r.agent : r \in done}, !.degree = left,
                               !.ready = @ \union desk.waiting \union {q \in Positions : left[q] = 0 /\ desk.degree[q] > 0},
                               !.waiting = {}]
    /\ UNCHANGED work
PlanEnds ==
    /\ desk.at = "plan" /\ (desk.free = {} \/ desk.ready = {}) /\ desk.running = {}
    /\ desk' = [desk EXCEPT !.at = "done"] /\ UNCHANGED work
Makespan == Max({0} \union {s.end : s \in desk.slots})
AllWork == MapThenSumSet(LAMBDA p : Task(p).size, Positions)
Critical == Max({0} \union Range(BottomLevels(desk.topo)))

(***************************************************************************)
(* The assignment: a game in which each agent takes a ranked root or idles.    *)
(* A choice is a position in the ranking; the last position is to idle.         *)
(***************************************************************************)
IdlePos == Len(desk.ranked)
Duplicate == IdlePos + 1
Penalty == Min(work.cost \union (IF work.cost = {} THEN {Duplicate} ELSE {}))
\* Faulty: only the less urgent of two tasks that share a file is charged for it.
ClashLater(c, d) ==
    CASE c = IdlePos \/ d = IdlePos -> 0
      [] c # IdlePos /\ c = d -> Duplicate
      [] OTHER -> IF c > d /\ Conflict(desk.ranked[c + 1], desk.ranked[d + 1]) THEN Penalty ELSE 0
Clash(c, d) ==
    CASE c = IdlePos \/ d = IdlePos -> 0
      [] c # IdlePos /\ c = d -> Duplicate
      [] OTHER -> IF Conflict(desk.ranked[c + 1], desk.ranked[d + 1]) THEN Penalty ELSE 0
Cost(c, others) == c + FoldLeft(LAMBDA sum, d : sum + Clash(c, d), 0, others)
Best(others) ==
    CHOOSE c \in 0 .. IdlePos : \A d \in (0 .. IdlePos) \ {c} :
       Cost(c, others) < Cost(d, others) \/ (Cost(c, others) = Cost(d, others) /\ c < d)
Others(agent) == RemoveAt(desk.choices, agent)

AssignPicks ==
    /\ desk.at = "assign" /\ Len(desk.choices) < work.agents
    /\ desk' = [desk EXCEPT !.choices = Append(@, Best(@))] /\ UNCHANGED work
Better(c, agent) == Cost(c, Others(agent)) < Cost(desk.choices[agent], Others(agent))
AgentAnswers ==
    /\ desk.at = "assign" /\ desk.turn \in DOMAIN desk.choices
    /\ \E best \in {Best(Others(desk.turn))} :
          desk' = IF Better(best, desk.turn)
                  THEN [desk EXCEPT !.choices[desk.turn] = best, !.changed = TRUE, !.turn = @ + 1]
                  ELSE [desk EXCEPT !.turn = @ + 1]
    /\ UNCHANGED work
RoundEnds ==
    /\ desk.at = "assign" /\ Len(desk.choices) = work.agents /\ desk.turn > work.agents
    /\ desk' = IF desk.changed /\ desk.rounds < MaxRounds
               THEN [desk EXCEPT !.turn = 1, !.changed = FALSE, !.rounds = @ + 1]
               ELSE [desk EXCEPT !.at = "done"]
    /\ UNCHANGED work

PlanningStep ==
    \/ PlanBegins \/ GraphPops \/ CycleBegins \/ CycleFollows \/ OrderBegins \/ OrderPops \/ OrderEnds
    \/ PlanStarts \/ PlanAdvances \/ PlanEnds \/ AssignPicks \/ AgentAnswers \/ RoundEnds
PlanningSpec == PlanningInit /\ [][PlanningStep]_planningVars

(***************************************************************************)
(* Properties.                                                                *)
(***************************************************************************)

\* A task and all that wait for it, through any number of others.
Behind(p) ==
    FoldRight(LAMBDA t, D : [D EXCEPT ![t] = @ \union UNION {D[d] : d \in Dependents(t)}], desk.topo, [q \in Positions |-> {q}])[p]
\* Priority inheritance delays nobody who is more urgent: a task is placed before another only if it, or a task
\* that waits for it through any number of others, is by its own key as urgent as the other.
UrgentIsNotDelayed ==
    desk.at = "order" => \E own \in {Own(desk.topo)} :
       \A j \in DOMAIN desk.order : \A i \in 1 .. j - 1 :
          \E q \in Behind(desk.order[i]) : q = desk.order[j] \/ KeyLess(own[q], own[desk.order[j]])

\* However slots end together, a task starts after its prerequisites end, and tasks that share a file and tasks of one
\* agent never overlap.
SlotsKeepApart ==
    \A s, t \in desk.slots :
       /\ s.task \in AfterSet(t.task) => s.end <= t.start
       /\ s # t /\ (s.agent = t.agent \/ Conflict(s.task, t.task)) => s.end <= t.start \/ t.end <= s.start
\* The finished plan holds every task once.
PlanIsWhole ==
    desk.at = "done" /\ desk.slots # {} => \A p \in Positions : Cardinality({s \in desk.slots : s.task = p}) = 1
\* A plan keeps the rules of prerequisites, agents and shared files, and leaves no task out.
PlanKeepsRules == SlotsKeepApart /\ PlanIsWhole
\* A finished plan is no shorter than the bounds it reports, and without shared files it is within Graham's bound of them.
PlanWithinBounds ==
    desk.at = "done" /\ desk.slots # {} =>
       /\ work.agents * Makespan >= Max({AllWork, work.agents * Critical})
       /\ (\A p, q \in Positions : Conflict(p, q) => p = q) => work.agents * Makespan <= AllWork + (work.agents - 1) * Critical
\* The answer is good and not only lawful: nobody urgent is delayed in the order, and the plan is as short as it is said to be.
AnswerIsGood == UrgentIsNotDelayed /\ PlanWithinBounds

\* Each switch of an agent lowers the potential that is reported, which one agent's view of its own cost does not
\* show: the best responses cannot go round in circles.
Potential ==
    FoldLeft(LAMBDA sum, c : sum + c, 0, desk.choices)
    + MapThenSumSet(LAMBDA e : Clash(desk.choices[e[1]], desk.choices[e[2]]), {e \in (1 .. Len(desk.choices)) \X (1 .. Len(desk.choices)) : e[1] < e[2]})
PotentialFalls == [][AgentAnswers /\ desk'.choices # desk.choices => Potential' < Potential]_planningVars
=============================================================================
