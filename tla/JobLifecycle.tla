---------------------------- MODULE JobLifecycle ----------------------------
(***************************************************************************)
(* One job of the work queue, from its run request to its recorded end.     *)
(* Three kinds of process share its row and its job directory: the daemon's *)
(* tasks (admission, the child waiter, the sweep, the cancel handler), the  *)
(* supervisors, which outlive the daemon, and the commands, which outlive    *)
(* their supervisors.  Attempt k is the k-th supervisor spawned for the job. *)
(*                                                                          *)
(* A daemon task is a slot of `fin`: it runs `finalize` or `finish_running`  *)
(* one await at a time, so every interleaving of two of them is explored.    *)
(*                                                                          *)
(* Sources: agora-daemon jobs.rs, jobs/{start,finish,adopt}.rs, admission.rs, *)
(* background.rs, work.rs; agora-run supervise.rs, spawn.rs, jobdir.rs,       *)
(* proc.rs; agora-store jobs.rs, work_ops.rs, cards_ext/job_sync.rs.          *)
(***************************************************************************)
EXTENDS Naturals, FiniteSets

CONSTANTS
    MaxAttempts,     \* bound: supervisors spawned for the job
    FinishAttempts,  \* FINISH_ATTEMPTS
    Environments     \* what may happen to the job from outside, a set of Environment

\* The bounds on supervisors, stops of the daemon and work.cancel operations; whether
\* the command ignores TERM, the task is linked to a card, the store may refuse a
\* card sync, and a supervisor may be killed from outside.
Environment == [attempts : 1..MaxAttempts, crashes : Nat, cancels : Nat, stubborn : BOOLEAN,
                card : {"none", "linked"}, cardErrors : BOOLEAN, supDies : BOOLEAN]

ASSUME BoundAssumption == MaxAttempts \in Nat \ {0} /\ FinishAttempts \in Nat \ {0}
ASSUME EnvironmentAssumption == Environments \subseteq Environment

VARIABLES
    row,       \* the task's row, and the state its card was moved to
    files,     \* the job directory: supervisor.json, status.json, cancel, spec.json
    sup,       \* each attempt's supervisor
    termed,    \* supervisors whose signal flag is set
    cmd,       \* each attempt's command
    env,       \* what may happen from outside, fixed from the start
    daemon,    \* the daemon process: up, start gate, kept environment
    adm,       \* the admission task
    fin,       \* the daemon's other tasks
    spawned,   \* supervisors spawned so far
    cancels    \* cancel operations so far

vars == <<row, files, sup, termed, cmd, env, daemon, adm, fin, spawned, cancels>>

Attempts == 1..MaxAttempts
Slots    == {"adm", "reap", "sweep", "stop"}
Final    == {"done", "failed", "cancelled"}
None     == 0

\* The notes a row can carry, by what they tell.
Notes == {"", "env", "cancelled", "runs on", "exited", "late", "no status",
          "not run", "not started"}

\* What ending a job records.
Finish == [zero : BOOLEAN, beforeStart : BOOLEAN, note : Notes]
Unstarted(note) == [zero |-> FALSE, beforeStart |-> TRUE, note |-> note]

NoStatus == [by |-> None, started |-> FALSE, zero |-> FALSE]
NoFiles  == [info |-> None, status |-> NoStatus, cancel |-> FALSE, spec |-> "none"]

\* `spec` tells which environment spec.json holds.
JobFiles == [info : 0..MaxAttempts,
             status : [by : 0..MaxAttempts, started : BOOLEAN, zero : BOOLEAN],
             cancel : BOOLEAN, spec : {"none", "full", "minimal", "cleared"}]

Row == [state : {"claimed", "running"} \cup Final, requested : BOOLEAN, cancel : BOOLEAN,
        note : Notes, sup : 0..MaxAttempts, card : {"none", "linked"} \cup Final]

SlotPcs == {"idle", "error", "wait", "ending", "watch", "read", "unseen", "finish", "write",
            "clear", "probe", "note", "stop", "orphan", "dropenv"}
Slot == [pc : SlotPcs, k : 0..MaxAttempts, what : Finish, cancel : BOOLEAN, note : Notes,
         synced : BOOLEAN, stale : 0..FinishAttempts]
Idle == [pc |-> "idle", k |-> None, what |-> Unstarted(""), cancel |-> FALSE, note |-> "",
         synced |-> TRUE, stale |-> 0]

At(pc)        == [Idle EXCEPT !.pc = pc]
AtOf(pc, k)   == [Idle EXCEPT !.pc = pc, !.k = k]
Finishing(w)  == [Idle EXCEPT !.pc = "finish", !.what = w]

AdmPcs == {"off", "adopt", "adopt record", "adopt watch", "adopt sweep", "idle", "chosen",
           "prepared", "checked", "waiting", "exited", "record", "env note", "failing", "busy"}

Reported(f) == f.info # None \/ f.status # NoStatus
Ended == row.state \in Final
Alive(k)   == k # None /\ sup[k] \notin {"none", "gone"}
Running(k) == k # None /\ cmd[k] = "alive"
Live == \E k \in Attempts : Running(k)

\* is_open and awaiting_start.
IsOpen(r) == r.state = "running" \/ (r.state = "claimed" /\ r.requested)
AwaitingStart(r) == r.state = "claimed" /\ r.requested

-----------------------------------------------------------------------------
(* The store's operations on the row. *)

\* job.start: the note of the waiting job is dropped.
Started(r, k) == [r EXCEPT !.state = "running", !.sup = k, !.note = ""]

Outcome(cancelled, w) ==
    IF cancelled THEN "cancelled"
    ELSE IF w.zero /\ ~w.beforeStart THEN "done" ELSE "failed"

Finishable(r, w) == r.state = "running" \/ (AwaitingStart(r) /\ w.beforeStart)

EffectiveNote(w, r) == IF w.note = "" THEN r.note ELSE w.note

Finished(r, w, card) == [r EXCEPT !.state = Outcome(r.cancel, w), !.note = EffectiveNote(w, r),
                                  !.card = card]

-----------------------------------------------------------------------------
(* Supervisors and commands: processes of their own, alive while the daemon   *)
(* is down.                                                                   *)

\* The spec is read, then the command starts, or the supervisor says it did not.
SupLaunch(k) ==
    /\ sup[k] = "booting"
    /\ \/ /\ files.spec # "none"
          /\ sup' = [sup EXCEPT ![k] = "launched"]
          /\ cmd' = [cmd EXCEPT ![k] = "alive"]
          /\ UNCHANGED files
       \/ /\ files.spec # "none"
          /\ sup' = [sup EXCEPT ![k] = "written"]
          /\ files' = [files EXCEPT !.status = [by |-> k, started |-> FALSE, zero |-> FALSE]]
          /\ UNCHANGED cmd
       \/ /\ files.spec = "none"
          /\ sup' = [sup EXCEPT ![k] = "gone"]
          /\ UNCHANGED <<files, cmd>>
    /\ UNCHANGED <<row, termed, env, daemon, adm, fin, spawned, cancels>>

\* supervisor.json; a failed write does not stop the job.
SupPublish(k) ==
    /\ sup[k] = "launched"
    /\ sup' = [sup EXCEPT ![k] = "watching"]
    /\ \/ files.spec # "none" /\ files' = [files EXCEPT !.info = k]
       \/ UNCHANGED files
    /\ UNCHANGED <<row, termed, cmd, env, daemon, adm, fin, spawned, cancels>>

CancelSeen(k) == files.cancel \/ termed[k]

\* TERM to the command's group, for a cancel and for a log over its limit.
SupTick(k) ==
    /\ sup[k] = "watching" /\ CancelSeen(k)
    /\ sup' = [sup EXCEPT ![k] = "stopping"]
    /\ UNCHANGED <<row, files, termed, cmd, env, daemon, adm, fin, spawned, cancels>>

SupOverLimit(k) ==
    /\ sup[k] = "watching" /\ Running(k)
    /\ sup' = [sup EXCEPT ![k] = "capping"]
    /\ UNCHANGED <<row, files, termed, cmd, env, daemon, adm, fin, spawned, cancels>>

\* Faulty: only a log over its limit leads to KILL.
SupKillCapOnly(k) ==
    /\ sup[k] = "capping" /\ Running(k)
    /\ cmd' = [cmd EXCEPT ![k] = "bad"]
    /\ UNCHANGED <<row, files, sup, termed, env, daemon, adm, fin, spawned, cancels>>
\* KILL after the grace period; a command that heeds TERM is gone before it.
SupKill(k) ==
    /\ sup[k] \in {"stopping", "capping"} /\ Running(k)
    /\ cmd' = [cmd EXCEPT ![k] = "bad"]
    /\ UNCHANGED <<row, files, sup, termed, env, daemon, adm, fin, spawned, cancels>>

\* The child is reaped and status.json written; the process exits after that.
SupFinish(k) ==
    /\ sup[k] \in {"watching", "stopping", "capping"} /\ ~Running(k)
    /\ sup' = [sup EXCEPT ![k] = "written"]
    /\ files' = IF files.spec = "none" THEN files
                ELSE [files EXCEPT !.status = [by |-> k, started |-> TRUE,
                                               zero |-> cmd[k] = "ok"]]
    /\ UNCHANGED <<row, termed, cmd, env, daemon, adm, fin, spawned, cancels>>

SupExit(k) ==
    /\ sup[k] = "written"
    /\ sup' = [sup EXCEPT ![k] = "gone"]
    /\ UNCHANGED <<row, files, termed, cmd, env, daemon, adm, fin, spawned, cancels>>

\* A supervisor is killed from outside.
SupDie(k) ==
    /\ env.supDies /\ Alive(k)
    /\ sup' = [sup EXCEPT ![k] = "gone"]
    /\ UNCHANGED <<row, files, termed, cmd, env, daemon, adm, fin, spawned, cancels>>

CmdExit(k) ==
    /\ Running(k)
    /\ \E end \in {"ok", "bad"} : cmd' = [cmd EXCEPT ![k] = end]
    /\ UNCHANGED <<row, files, sup, termed, env, daemon, adm, fin, spawned, cancels>>

-----------------------------------------------------------------------------
(* Finishing: the steps a daemon task takes in slot s.  Each step ends at an   *)
(* await.                                                                      *)

SetSlot(s, v) == fin' = [fin EXCEPT ![s] = v]
Forget == daemon' = [daemon EXCEPT !.env = FALSE]
Quit   == [Idle EXCEPT !.pc = "error"]

FromStatus(st) == [zero |-> st.zero, beforeStart |-> ~st.started,
                   note |-> IF st.started THEN "" ELSE "not run"]

\* finalize: the row and status.json are read.
ReadTask(s) ==
    /\ daemon.up /\ fin[s].pc = "read"
    /\ \/ ~IsOpen(row) /\ SetSlot(s, Idle) /\ Forget
       \/ /\ IsOpen(row) /\ files.status # NoStatus
          /\ SetSlot(s, [Finishing(FromStatus(files.status)) EXCEPT
                          !.pc = IF row.state = "claimed" /\ files.status.started
                                 THEN "unseen" ELSE "finish"])
          /\ UNCHANGED daemon
       \/ /\ IsOpen(row) /\ files.status = NoStatus
          /\ SetSlot(s, IF row.state = "running" THEN At("probe") ELSE Idle)
          /\ UNCHANGED daemon
    /\ UNCHANGED <<row, files, sup, termed, cmd, env, adm, spawned, cancels>>

\* record_unseen_start; a start that another task recorded is as good.
UnseenStart(s) ==
    /\ daemon.up /\ fin[s].pc = "unseen"
    /\ row' = IF AwaitingStart(row) THEN Started(row, files.info) ELSE row
    /\ SetSlot(s, [fin[s] EXCEPT !.pc = "finish"])
    /\ UNCHANGED <<files, sup, termed, cmd, env, daemon, adm, spawned, cancels>>

\* finish_running reads the row; the operations are signed from that reading.
SignFinish(s) ==
    /\ daemon.up /\ fin[s].pc = "finish"
    /\ \/ ~IsOpen(row) /\ SetSlot(s, Idle) /\ Forget
       \/ /\ IsOpen(row)
          /\ SetSlot(s, [fin[s] EXCEPT !.pc = "write", !.cancel = row.cancel, !.note = row.note])
          /\ UNCHANGED daemon
    /\ UNCHANGED <<row, files, sup, termed, cmd, env, adm, spawned, cancels>>

\* Faulty: a cancel between the reading and the write goes unseen.
SameReadingNoCancel(s) == row.note = fin[s].note \/ row.cancel
SameReading(s) == row.note = fin[s].note /\ row.cancel = fin[s].cancel

\* The store takes a sync whose outcome is the state the job ends in.
SyncMatches(s) == Outcome(fin[s].cancel, fin[s].what) = Outcome(row.cancel, fin[s].what)
Synced(s) == row.card = "linked" /\ fin[s].synced

\* finish_attempt's transaction, and what the loop of finish_running does next.
WriteFinish(s) ==
    /\ daemon.up /\ fin[s].pc = "write"
    /\ LET f == fin[s]  w == fin[s].what IN
       \/ ~IsOpen(row) /\ SetSlot(s, Idle) /\ Forget /\ UNCHANGED row
       \/ /\ IsOpen(row) /\ ~SameReading(s)
          /\ SetSlot(s, IF f.stale + 1 >= FinishAttempts THEN Quit
                        ELSE [f EXCEPT !.pc = "finish", !.stale = @ + 1])
          /\ UNCHANGED <<row, daemon>>
       \/ /\ IsOpen(row) /\ SameReading(s)
          /\ \/ ~Finishable(row, w) \/ (Synced(s) /\ (env.cardErrors \/ ~SyncMatches(s)))
          /\ SetSlot(s, IF Synced(s) THEN [f EXCEPT !.pc = "finish", !.synced = FALSE] ELSE Quit)
          /\ UNCHANGED <<row, daemon>>
       \/ /\ IsOpen(row) /\ SameReading(s) /\ Finishable(row, w)
          /\ Synced(s) => SyncMatches(s)
          /\ row' = Finished(row, w, IF Synced(s) THEN Outcome(row.cancel, w) ELSE row.card)
          /\ SetSlot(s, At("clear"))
          /\ UNCHANGED daemon
    /\ UNCHANGED <<files, sup, termed, cmd, env, adm, spawned, cancels>>

\* The environment is dropped from the table and from spec.json.
ClearSpec(s) ==
    /\ daemon.up /\ fin[s].pc = "clear"
    /\ SetSlot(s, Idle) /\ Forget
    /\ files' = [files EXCEPT !.spec = IF @ = "none" THEN @ ELSE "cleared"]
    /\ UNCHANGED <<row, sup, termed, cmd, env, adm, spawned, cancels>>

\* supervisor_of and command_of: the report names the attempt, else the row.
Named == IF files.info # None THEN files.info ELSE row.sup

\* Faulty: the end of a command without a status is left for later.
ProbeForgets(s) ==
    /\ daemon.up /\ fin[s].pc = "probe"
    /\ SetSlot(s, IF ~Alive(Named) /\ Running(Named) THEN At("note") ELSE Idle)
    /\ UNCHANGED <<row, files, sup, termed, cmd, env, daemon, adm, spawned, cancels>>
\* sweep_one: the dead-supervisor rule, after status.json was not found.
Probe(s) ==
    /\ daemon.up /\ fin[s].pc = "probe"
    /\ SetSlot(s, IF Alive(Named) THEN Idle
                  ELSE IF Running(Named) THEN IF row.note = "runs on" THEN Idle ELSE At("note")
                  ELSE Finishing([zero |-> FALSE, beforeStart |-> FALSE, note |-> "no status"]))
    /\ UNCHANGED <<row, files, sup, termed, cmd, env, daemon, adm, spawned, cancels>>

\* job.note has no condition on the state of the row.
SetNote(s) ==
    /\ daemon.up /\ fin[s].pc = "note"
    /\ row' = [row EXCEPT !.note = "runs on"]
    /\ SetSlot(s, Idle)
    /\ UNCHANGED <<files, sup, termed, cmd, env, daemon, adm, spawned, cancels>>

\* What the sweep does with one running row.
Swept == IF files.status # NoStatus THEN At("read") ELSE At("probe")

\* The reconciler's pass, and WorkStatus.
SweepBegin ==
    /\ daemon.up /\ fin["sweep"].pc \in {"idle", "error"} /\ row.state = "running"
    /\ SetSlot("sweep", Swept)
    /\ UNCHANGED <<row, files, sup, termed, cmd, env, daemon, adm, spawned, cancels>>

\* reap_then_finalize: the supervisor is this daemon's child.
Reaped ==
    /\ daemon.up /\ fin["reap"].pc = "wait" /\ ~Alive(fin["reap"].k)
    /\ SetSlot("reap", At("read"))
    /\ UNCHANGED <<row, files, sup, termed, cmd, env, daemon, adm, spawned, cancels>>

\* end_supervisor's task: the supervisor ends, or it is killed after TERM_GRACE.
\* A command that heeds TERM, or has not started, ends within it.
Outlives(k) == sup[k] = "booting" \/ (sup[k] = "stopping" /\ env.stubborn)
EndSupervisorWaits ==
    /\ daemon.up /\ fin["reap"].pc = "ending"
    /\ LET k == fin["reap"].k IN
       \/ ~Alive(k) /\ UNCHANGED sup
       \/ Outlives(k) /\ sup' = [sup EXCEPT ![k] = "gone"]
    /\ SetSlot("reap", At("read"))
    /\ UNCHANGED <<row, files, termed, cmd, env, daemon, adm, spawned, cancels>>

WatchAdopted ==
    /\ daemon.up /\ fin["reap"].pc = "watch"
    /\ \/ row.state # "running" /\ SetSlot("reap", Idle) /\ Forget
       \/ /\ row.state = "running"
          /\ ~Alive(fin["reap"].k) \/ files.status # NoStatus
          /\ SetSlot("reap", At("read"))
          /\ UNCHANGED daemon
    /\ UNCHANGED <<row, files, sup, termed, cmd, env, adm, spawned, cancels>>

-----------------------------------------------------------------------------
(* Cancel. *)

\* work.cancel: a running job is flagged and stopped after the commit, another
\* one ends at once and its environment is dropped under the start gate.
WorkCancel ==
    /\ daemon.up /\ cancels < env.cancels /\ ~Ended /\ fin["stop"].pc \in {"idle", "error"}
    /\ cancels' = cancels + 1
    /\ \/ /\ row.state = "running"
          /\ row' = [row EXCEPT !.cancel = TRUE, !.note = "cancelled"]
          /\ SetSlot("stop", AtOf("stop", row.sup))
       \/ /\ row.state = "claimed"
          /\ row' = [row EXCEPT !.state = "cancelled"]
          /\ SetSlot("stop", At("dropenv"))
    /\ UNCHANGED <<files, sup, termed, cmd, env, daemon, adm, spawned>>

DropEnv ==
    /\ daemon.up /\ fin["stop"].pc = "dropenv" /\ daemon.gate = "free"
    /\ SetSlot("stop", Idle) /\ Forget
    /\ UNCHANGED <<row, files, sup, termed, cmd, env, adm, spawned, cancels>>

\* stop: the cancel file, then a signal to whichever process is verified alive.
Stop ==
    /\ daemon.up /\ fin["stop"].pc = "stop"
    /\ files' = IF files.spec = "none" THEN files ELSE [files EXCEPT !.cancel = TRUE]
    /\ LET k == fin["stop"].k IN
       \/ /\ Alive(k)
          /\ termed' = [termed EXCEPT ![k] = TRUE]
          /\ SetSlot("stop", Idle)
       \/ /\ ~Alive(k)
          /\ SetSlot("stop", IF Running(Named) THEN AtOf("orphan", Named) ELSE At("read"))
          /\ UNCHANGED termed
    /\ UNCHANGED <<row, sup, cmd, env, daemon, adm, spawned, cancels>>

\* end_orphan_command: TERM, and KILL after TERM_GRACE.
EndOrphan ==
    /\ daemon.up /\ fin["stop"].pc = "orphan"
    /\ LET k == fin["stop"].k IN
       cmd' = IF Running(k) THEN [cmd EXCEPT ![k] = "bad"] ELSE cmd
    /\ SetSlot("stop", At("read"))
    /\ UNCHANGED <<row, files, sup, termed, env, daemon, adm, spawned, cancels>>

-----------------------------------------------------------------------------
(* Admission: one task of the daemon, started after the adoption. *)

AdmAt(pc) == adm' = [adm EXCEPT !.pc = pc]
NoRun == UNCHANGED <<env, cancels>>

\* A pass sees the waiting job; the decision starts it or fails it.
AdmPick ==
    /\ daemon.up /\ adm.pc = "idle" /\ AwaitingStart(row)
    /\ AdmAt("chosen") \/ AdmAt("failing")
    /\ UNCHANGED <<row, files, sup, termed, cmd, daemon, fin, spawned>> /\ NoRun

GateOpen == daemon.gate = "free"

ClearReports == [files EXCEPT !.info = None, !.status = NoStatus, !.cancel = FALSE]

\* prepare_and_spawn up to the spec: the environment is taken, the reports of an
\* earlier attempt are removed, spec.json is written; or an error ends the job.
AdmPrepare ==
    /\ daemon.up /\ adm.pc = "chosen" /\ GateOpen
    /\ Forget
    /\ \/ /\ files' = [ClearReports EXCEPT !.spec = IF daemon.env THEN "full" ELSE "minimal"]
          /\ AdmAt("prepared") /\ UNCHANGED fin
       \/ /\ SetSlot("adm", Finishing(Unstarted("not started")))
          /\ AdmAt("busy") /\ UNCHANGED files
    /\ UNCHANGED <<row, sup, termed, cmd, spawned>> /\ NoRun

\* still_waiting, read after the spec is written.
AdmCheck ==
    /\ daemon.up /\ adm.pc = "prepared"
    /\ \/ AwaitingStart(row) /\ AdmAt("checked") /\ UNCHANGED <<files, daemon>>
       \/ ~AwaitingStart(row) /\ AdmAt("idle") /\ files' = NoFiles /\ Forget
    /\ UNCHANGED <<row, sup, termed, cmd, fin, spawned>> /\ NoRun

AdmSpawn ==
    /\ daemon.up /\ adm.pc = "checked" /\ spawned < env.attempts
    /\ spawned' = spawned + 1
    /\ sup' = [sup EXCEPT ![spawned'] = "booting"]
    /\ adm' = [pc |-> "waiting", k |-> spawned']
    /\ UNCHANGED <<row, files, termed, cmd, daemon, fin>> /\ NoRun

\* wait_for_supervisor: a report, read before anything is made of an exit.
AdmReport ==
    /\ daemon.up /\ adm.pc \in {"waiting", "exited"}
    /\ \/ files.info # None /\ AdmAt("record") /\ UNCHANGED fin
       \/ /\ files.info = None /\ Reported(files)
          /\ AdmAt("busy")
          /\ fin' = [fin EXCEPT !["reap"] = AtOf("wait", adm.k), !["adm"] = At("read")]
    /\ UNCHANGED <<row, files, sup, termed, cmd, daemon, spawned>> /\ NoRun

\* The exit is seen; the files are read after it.
AdmSeesExit ==
    /\ daemon.up /\ adm.pc = "waiting" /\ ~Alive(adm.k)
    /\ AdmAt("exited")
    /\ UNCHANGED <<row, files, sup, termed, cmd, daemon, fin, spawned>> /\ NoRun

AdmExited ==
    /\ daemon.up /\ adm.pc = "exited" /\ ~Reported(files)
    /\ AdmAt("busy") /\ SetSlot("adm", Finishing(Unstarted("exited")))
    /\ UNCHANGED <<row, files, sup, termed, cmd, daemon, spawned>> /\ NoRun

\* end_supervisor up to its task: the cancel file and TERM.
EndSupervisor(k) ==
    /\ files' = IF files.spec = "none" THEN files ELSE [files EXCEPT !.cancel = TRUE]
    /\ termed' = [termed EXCEPT ![k] = @ \/ Alive(k)]

AdmTimedOut ==
    /\ daemon.up /\ adm.pc = "waiting" /\ ~Reported(files)
    /\ EndSupervisor(adm.k)
    /\ AdmAt("busy")
    /\ fin' = [fin EXCEPT !["reap"] = AtOf("ending", adm.k),
                          !["adm"] = Finishing(Unstarted("late"))]
    /\ UNCHANGED <<row, sup, cmd, daemon, spawned>> /\ NoRun

\* start_running: job.start, or the end of a supervisor whose start is refused.
AdmRecord ==
    /\ daemon.up /\ adm.pc = "record"
    /\ \/ /\ AwaitingStart(row)
          /\ row' = Started(row, files.info)
          /\ IF files.spec = "minimal"
             THEN AdmAt("env note") /\ UNCHANGED fin
             ELSE AdmAt("idle") /\ SetSlot("reap", AtOf("wait", adm.k))
          /\ UNCHANGED <<files, termed>>
       \/ /\ ~AwaitingStart(row)
          /\ EndSupervisor(adm.k)
          /\ AdmAt("failing") /\ SetSlot("reap", AtOf("ending", adm.k))
          /\ UNCHANGED row
    /\ UNCHANGED <<sup, cmd, daemon, spawned>> /\ NoRun

AdmEnvNote ==
    /\ daemon.up /\ adm.pc = "env note"
    /\ row' = [row EXCEPT !.note = "env"]
    /\ AdmAt("idle") /\ SetSlot("reap", AtOf("wait", adm.k))
    /\ UNCHANGED <<files, sup, termed, cmd, daemon, spawned>> /\ NoRun

\* fail_before_start: job.finish in one transaction, and a second try without
\* the card when the first is refused.
AdmFail ==
    /\ daemon.up /\ adm.pc = "failing"
    /\ AdmAt("idle")
    /\ LET w == Unstarted("not started") IN
       \/ /\ Finishable(row, w) /\ Forget
          /\ \/ row' = Finished(row, w, IF row.card = "linked" THEN Outcome(row.cancel, w)
                                        ELSE row.card)
             \/ env.cardErrors /\ row' = Finished(row, w, row.card)
       \/ ~Finishable(row, w) /\ UNCHANGED <<row, daemon>>
    /\ UNCHANGED <<files, sup, termed, cmd, fin, spawned>> /\ NoRun

\* The finish that the start or the adoption awaits has ended.
AdmResume ==
    /\ daemon.up /\ fin["adm"].pc \in {"idle", "error"}
    /\ \/ adm.pc = "busy" /\ AdmAt(IF fin["adm"].pc = "error" THEN "failing" ELSE "idle")
       \/ adm.pc = "adopt sweep" /\ AdmAt("idle")
    /\ SetSlot("adm", Idle)
    /\ UNCHANGED <<row, files, sup, termed, cmd, daemon, spawned>> /\ NoRun

-----------------------------------------------------------------------------
(* Adoption at startup. *)

\* settle_waiting: a status finalizes the job, a report records its start.
SettleWaiting ==
    /\ daemon.up /\ adm.pc = "adopt"
    /\ \/ /\ AwaitingStart(row) /\ files.status # NoStatus
          /\ AdmAt("adopt watch") /\ SetSlot("adm", At("read"))
       \/ /\ AwaitingStart(row) /\ files.status = NoStatus /\ files.info # None
          /\ AdmAt("adopt record") /\ UNCHANGED fin
       \/ /\ ~AwaitingStart(row) \/ ~Reported(files)
          /\ AdmAt("adopt watch") /\ UNCHANGED fin
    /\ UNCHANGED <<row, files, sup, termed, cmd, daemon, spawned>> /\ NoRun

AdoptRecord ==
    /\ daemon.up /\ adm.pc = "adopt record"
    /\ row' = IF AwaitingStart(row) THEN Started(row, files.info) ELSE row
    /\ AdmAt("adopt watch")
    /\ UNCHANGED <<files, sup, termed, cmd, daemon, fin, spawned>> /\ NoRun

\* A live supervisor of a running job is watched; then the sweep runs.
AdoptWatch ==
    /\ daemon.up /\ adm.pc = "adopt watch" /\ fin["adm"].pc \in {"idle", "error"}
    /\ AdmAt("adopt sweep")
    /\ fin' = [fin EXCEPT
          !["reap"] = IF row.state = "running" /\ files.status = NoStatus /\ Alive(Named)
                      THEN AtOf("watch", Named) ELSE Idle,
          !["adm"] = IF row.state = "running" THEN Swept ELSE Idle]
    /\ UNCHANGED <<row, files, sup, termed, cmd, daemon, spawned>> /\ NoRun

-----------------------------------------------------------------------------
(* The run request, and the daemon's stops and starts. *)

\* WorkRun commits with the start gate held, then keeps the environment.
WorkRun ==
    /\ daemon.up /\ daemon.gate = "free" /\ row.state = "claimed" /\ ~row.requested
    /\ row' = [row EXCEPT !.requested = TRUE]
    /\ daemon' = [daemon EXCEPT !.gate = "held"]
    /\ UNCHANGED <<files, sup, termed, cmd, adm, fin, spawned>> /\ NoRun

RegisterEnv ==
    /\ daemon.up /\ daemon.gate = "held"
    /\ daemon' = [daemon EXCEPT !.gate = "free", !.env = TRUE]
    /\ UNCHANGED <<row, files, sup, termed, cmd, adm, fin, spawned>> /\ NoRun

\* A stop of any kind: the tasks and the table are lost, the processes run on.
DaemonStops ==
    /\ daemon.up /\ daemon.stops < env.crashes
    /\ daemon' = [up |-> FALSE, gate |-> "free", env |-> FALSE, stops |-> daemon.stops + 1,
                  found |-> FALSE]
    /\ adm' = [pc |-> "off", k |-> None]
    /\ fin' = [s \in Slots |-> Idle]
    /\ UNCHANGED <<row, files, sup, termed, cmd, spawned>> /\ NoRun

\* `found`: a supervisor had reported for the waiting job when the daemon came up.
DaemonStarts ==
    /\ ~daemon.up
    /\ daemon' = [daemon EXCEPT !.up = TRUE, !.found = AwaitingStart(row) /\ Reported(files)]
    /\ adm' = [pc |-> "adopt", k |-> None]
    /\ UNCHANGED <<row, files, sup, termed, cmd, fin, spawned>> /\ NoRun

-----------------------------------------------------------------------------
Init ==
    /\ env \in Environments
    /\ row = [state |-> "claimed", requested |-> FALSE, cancel |-> FALSE, note |-> "",
              sup |-> None, card |-> env.card]
    /\ files = NoFiles
    /\ sup = [k \in Attempts |-> "none"] /\ cmd = [k \in Attempts |-> "none"]
    /\ termed = [k \in Attempts |-> FALSE]
    /\ daemon = [up |-> TRUE, gate |-> "free", env |-> FALSE, stops |-> 0, found |-> FALSE]
    /\ adm = [pc |-> "idle", k |-> None]
    /\ fin = [s \in Slots |-> Idle]
    /\ spawned = 0 /\ cancels = 0

SupStep(k)  == SupPublish(k) \/ SupTick(k) \/ SupKill(k) \/ SupFinish(k) \/ SupExit(k)
SlotStep(s) == \/ ReadTask(s) \/ UnseenStart(s) \/ SignFinish(s) \/ WriteFinish(s)
               \/ ClearSpec(s) \/ Probe(s) \/ SetNote(s)
ReapStep    == Reaped \/ EndSupervisorWaits \/ WatchAdopted
StopStep    == DropEnv \/ Stop \/ EndOrphan
AdmStep     == \/ AdmPick \/ AdmPrepare \/ AdmCheck \/ AdmSpawn \/ AdmReport \/ AdmSeesExit
               \/ AdmExited \/ AdmTimedOut \/ AdmRecord \/ AdmEnvNote \/ AdmFail \/ AdmResume
               \/ SettleWaiting \/ AdoptRecord \/ AdoptWatch

Next ==
    \/ \E k \in Attempts : SupLaunch(k) \/ SupStep(k) \/ SupOverLimit(k) \/ SupDie(k) \/ CmdExit(k)
    \/ \E s \in Slots : SlotStep(s)
    \/ ReapStep \/ StopStep \/ AdmStep \/ SweepBegin
    \/ WorkCancel \/ WorkRun \/ RegisterEnv
    \/ DaemonStops \/ DaemonStarts

Spec == Init /\ [][Next]_vars

\* The daemon's tasks and a supervisor past its launch make progress, and a daemon
\* that is down is started again.  Nothing is assumed of a supervisor before its
\* launch, of the command, or of the clients.
FairSpec ==
    /\ Spec
    /\ \A k \in Attempts : WF_vars(SupStep(k))
    /\ \A s \in Slots : WF_vars(SlotStep(s))
    /\ WF_vars(ReapStep) /\ WF_vars(StopStep) /\ WF_vars(AdmStep)
    /\ WF_vars(SweepBegin) /\ WF_vars(RegisterEnv) /\ WF_vars(DaemonStarts)

-----------------------------------------------------------------------------
(* Properties. *)

\* Every variable keeps its shape.
TypeOK ==
    /\ row \in Row /\ files \in JobFiles /\ env \in Environments
    /\ sup \in [Attempts -> {"none", "booting", "launched", "watching", "stopping", "capping",
                             "written", "gone"}]
    /\ cmd \in [Attempts -> {"none", "alive", "ok", "bad"}]
    /\ termed \in [Attempts -> BOOLEAN]
    /\ daemon \in [up : BOOLEAN, gate : {"free", "held"}, env : BOOLEAN, stops : 0..env.crashes,
                   found : BOOLEAN]
    /\ adm \in [pc : AdmPcs, k : 0..MaxAttempts]
    /\ fin \in [Slots -> Slot]
    /\ spawned \in 0..MaxAttempts /\ cancels \in 0..env.cancels

\* When the store takes card syncs, the card follows every end that the daemon
\* records, also when a cancel came between the reading a finish signed and its write.
CardFollows ==
    ~env.cardErrors /\ (row.state \in {"done", "failed"} \/ (Ended /\ row.cancel)) /\ row.card # "none"
        => row.card = row.state

\* The command of a job is started once.
RunsOnce == Cardinality({k \in Attempts : cmd[k] # "none"}) <= 1

\* When the command of a running job is gone, the job's end is recorded, whichever
\* of its supervisor and the daemon went down on the way.
EndIsRecorded == (row.state = "running" /\ ~Live) ~> (Ended \/ Live)

\* A cancel of a running job ends it, also when its command ignores TERM or its supervisor
\* is gone.  Only a supervisor that is killed between the daemon's signal and its own stop of
\* the command leaves the command running: the sweep notes it and does not stop it again.
CancelStops ==
    (row.state = "running" /\ row.cancel)
        ~> (Ended \/ \E k \in Attempts : termed[k] /\ ~Alive(k) /\ Running(k))

=============================================================================
