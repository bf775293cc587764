----------------------------- MODULE MCWorkQueue -----------------------------
(* Small instances of WorkQueue: two workers and a controller, a directory and *)
(* a file below it.                                                            *)
EXTENDS WorkQueue, TLC

CONSTANTS a1, a2, boss

Dir  == <<"repo", "src">>
File == <<"repo", "src", "main">>

MCAgents   == {a1, a2, boss}
MCRoleOf   == [a \in Agents |-> IF a = boss THEN Controller ELSE Worker]
MCPaths    == {Dir, File}
MCFileSets == {{Dir}, {File}}

Base == [selfAccept |-> FALSE, runRole |-> Worker, maxWaiting |-> 1, claimTtl |-> 1]
Lenient == [Base EXCEPT !.selfAccept = TRUE]
MCSettings == {Base, Lenient}

Symmetry == Permutations({a1, a2}) \cup Permutations(TaskIds) \cup Permutations(LeaseIds)

\* Leases, time and a second worker are explored with one task on the directory;
\* two tasks, smaller files and the settings without them.
WithLeases == now > 1 \/ \E l \in LeaseIds : leases[l] # NoLease
TwoWorkers == {a1, a2} \subseteq
                {tasks[t].author : t \in TaskIds} \cup {tasks[t].agent : t \in TaskIds}
                    \cup {leases[l].holder : l \in LeaseIds}
OnePart ==
    WithLeases \/ TwoWorkers =>
        /\ settings = Base
        /\ Cardinality({t \in TaskIds : Exists(t)}) <= 1
        /\ \A t \in TaskIds : Exists(t) => tasks[t].files = {Dir} /\ tasks[t].after = {}
=============================================================================
