------------------------------ MODULE McpStdio ------------------------------
(***************************************************************************)
(* One MCP session over stdio: the reader takes lines in order, a request    *)
(* runs in a task of its own, one writer owns the output.  A call is known to *)
(* the reader before its task exists, so that a cancel read behind it finds   *)
(* it.  The engine's routing and gates are the steps of a task.               *)
(***************************************************************************)
EXTENDS Integers, Sequences, FiniteSets

CONSTANTS
    RequestIds, \* request ids, each used once
    MaxTasks,   \* MAX_CONCURRENT_REQUESTS
    QueueCap    \* OUTPUT_QUEUE

ASSUME StdioAssumption == MaxTasks \in Nat \ {0} /\ QueueCap \in Nat \ {0}

VARIABLES
    session,  \* what `initialize` and `initialized` settled, and whether the key is registered
    flight,   \* the cancel token of each id in `inflight`
    task,     \* each request's task
    out,      \* the outgoing queue, what was written, and how far the session has ended
    ghost     \* calls cancelled before their task began

stdioVars == <<session, flight, task, out, ghost>>

Absent == "absent"
Running(i) == task[i].stage \notin {"none", "over"}
Tasks == {i \in RequestIds : Running(i)}
Serving == out.end = "serving"
HasRoom == Len(out.queue) < QueueCap /\ ~out.broken
Enqueue(i) == out' = [out EXCEPT !.queue = Append(@, i)]
Unread(i) == task[i].stage = "none"

-----------------------------------------------------------------------------
(* The reader.                                                                 *)

\* Faulty: the call is registered by its task.
RegisteredByReaderNot(kind) == Absent
\* `register_inflight` before the task is spawned; only calls can be cancelled.
RegisteredByReader(kind) == IF kind = "call" THEN "live" ELSE Absent

\* A request within the limit gets a task; legacy or modern is a fact of its own `_meta`.
ReadLine(i, kind, modern) ==
    /\ Serving /\ Unread(i) /\ Cardinality(Tasks) < MaxTasks
    /\ task' = [task EXCEPT ![i] = [stage |-> "spawned", kind |-> kind, modern |-> modern]]
    /\ flight' = [flight EXCEPT ![i] = RegisteredByReader(kind)]
    /\ UNCHANGED <<session, out, ghost>>

\* Over the limit, a bad line, a message too large: the reader itself answers.
RefuseLine(i) ==
    /\ Serving /\ Unread(i) /\ HasRoom
    /\ task' = [task EXCEPT ![i].stage = "over"]
    /\ Enqueue(i) /\ UNCHANGED <<session, flight, ghost>>

\* `initialize` runs inline, so that it takes effect before the next line; push starts once.
ReadInitialize(i) ==
    /\ Serving /\ Unread(i) /\ HasRoom
    /\ session' = [session EXCEPT !.version = TRUE]
    /\ task' = [task EXCEPT ![i].stage = "over"]
    /\ Enqueue(i) /\ UNCHANGED <<flight, ghost>>

ReadInitialized ==
    /\ Serving /\ ~session.ready
    /\ session' = [session EXCEPT !.ready = TRUE]
    /\ UNCHANGED <<flight, task, out, ghost>>

\* The entry stays until the call ends: a task that starts later still finds it cancelled.
ReadCancel(i) ==
    /\ Serving /\ Running(i) /\ task[i].kind = "call" /\ flight[i] # "cancelled"
    /\ flight' = [flight EXCEPT ![i] = IF @ = "live" THEN "cancelled" ELSE @]
    /\ ghost' = IF task[i].stage = "spawned" THEN [ghost EXCEPT !.early = @ \cup {i}] ELSE ghost
    /\ UNCHANGED <<session, task, out>>

-----------------------------------------------------------------------------
(* A task.                                                                     *)

Forget(i) == flight' = [flight EXCEPT ![i] = Absent]
To(i, stage) == task' = [task EXCEPT ![i].stage = stage]

\* `legacy_gate`, the method table, ping, list, discover: an answer at once.
AnswerAtOnce(i) ==
    /\ task[i].stage = "spawned"
    /\ task[i].kind = "other" \/ ~(task[i].modern \/ session.version)
    /\ To(i, "answered") /\ UNCHANGED <<session, flight, out, ghost>>

\* An allowed call registers its id again (an entry that is there is kept) and looks at the
\* cancel first; without a registered key it registers that.
BeginCall(i) ==
    /\ task[i].stage = "spawned" /\ task[i].kind = "call" /\ (task[i].modern \/ session.version)
    /\ flight' = [flight EXCEPT ![i] = IF @ = Absent THEN "live" ELSE @]
    /\ To(i, IF flight[i] = "cancelled" THEN "ended" ELSE "registering")
    /\ UNCHANGED <<session, out, ghost>>

\* `ensure_registered`: one attempt at a time, remembered when it succeeds.
TryRegister(i) ==
    /\ task[i].stage = "registering" /\ session.key \in {"none", i}
    /\ session' = [session EXCEPT !.key = i]
    /\ UNCHANGED <<flight, task, out, ghost>>
Registered(i, ok) ==
    /\ task[i].stage = "registering" /\ session.key = i
    /\ session' = [session EXCEPT !.key = IF ok THEN "done" ELSE "none"]
    /\ To(i, IF ok THEN "running" ELSE "answered")
    /\ ghost' = IF ok THEN [ghost EXCEPT !.ran = @ \cup {i}] ELSE ghost
    /\ UNCHANGED <<flight, out>>
RunTool(i) ==
    /\ task[i].stage = "registering" /\ session.key = "done"
    /\ To(i, "running") /\ ghost' = [ghost EXCEPT !.ran = @ \cup {i}]
    /\ UNCHANGED <<session, flight, out>>

\* The tool ends, with a result, an error or a panic; or the cancel is seen, at any await.
ToolEnds(i) ==
    /\ task[i].stage = "running" /\ To(i, "answered") /\ UNCHANGED <<session, flight, out, ghost>>
CallCancelledStdio(i) ==
    /\ task[i].stage \in {"registering", "running"} /\ flight[i] = "cancelled"
    /\ session' = IF session.key = i THEN [session EXCEPT !.key = "none"] ELSE session
    /\ To(i, "ended") /\ UNCHANGED <<flight, out, ghost>>

\* Faulty: an answer that finds the queue full is dropped.
QueueAnswerTry(i) ==
    /\ task[i].stage = "answered" /\ Forget(i) /\ To(i, "over")
    /\ out' = IF HasRoom THEN [out EXCEPT !.queue = Append(@, i)] ELSE out
    /\ UNCHANGED <<session, ghost>>
\* The entry goes, and the answer waits for room; with the writer gone it is dropped.
QueueAnswer(i) ==
    /\ task[i].stage = "answered" /\ Forget(i) /\ To(i, "over") /\ (HasRoom \/ out.broken)
    /\ out' = IF HasRoom THEN [out EXCEPT !.queue = Append(@, i)] ELSE out
    /\ UNCHANGED <<session, ghost>>

\* A cancelled call gives no answer.
EndSilently(i) ==
    /\ task[i].stage = "ended" /\ Forget(i) /\ To(i, "over") /\ UNCHANGED <<session, out, ghost>>

-----------------------------------------------------------------------------
(* The writer, the push's notes, and the end.                                   *)

WriteLine ==
    /\ out.queue # <<>> /\ ~out.broken
    /\ out' = [out EXCEPT !.queue = Tail(@), !.written = @ \cup {Head(out.queue)}]
    /\ UNCHANGED <<session, flight, task, ghost>>

\* `Notifier::send`: a note that finds no room is dropped.
QueueNote ==
    /\ HasRoom /\ session.version /\ session.ready /\ ~session.noted
    /\ Enqueue("note") /\ session' = [session EXCEPT !.noted = TRUE]
    /\ UNCHANGED <<flight, task, ghost>>

WriteFailsStdio ==
    /\ ~out.broken /\ out' = [out EXCEPT !.broken = TRUE, !.queue = <<>>, !.end = IF @ = "serving" THEN "aborting" ELSE @]
    /\ UNCHANGED <<session, flight, task, ghost>>

\* The end of the input leaves a grace to the requests read; a shutdown does not.
InputEnds ==
    /\ Serving /\ out' = [out EXCEPT !.end = "grace"] /\ UNCHANGED <<session, flight, task, ghost>>
ShutdownStdio ==
    /\ Serving /\ out' = [out EXCEPT !.end = "aborting"] /\ UNCHANGED <<session, flight, task, ghost>>
GraceEnds ==
    /\ out.end = "grace" /\ out' = [out EXCEPT !.end = "aborting"] /\ UNCHANGED <<session, flight, task, ghost>>
\* Every task is aborted and waited for, then the writer may drain what is queued.
AbortTasks ==
    /\ out.end = "aborting" /\ out' = [out EXCEPT !.end = "flushing"]
    /\ task' = [i \in RequestIds |-> IF Running(i) THEN [task[i] EXCEPT !.stage = "over"] ELSE task[i]]
    /\ flight' = [i \in RequestIds |-> Absent] /\ UNCHANGED <<session, ghost>>
FlushEnds ==
    /\ out.end = "flushing" /\ out' = [out EXCEPT !.end = "over"] /\ UNCHANGED <<session, flight, task, ghost>>

ReaderStep(i) ==
    \/ \E kind \in {"call", "other"}, modern \in BOOLEAN : ReadLine(i, kind, modern)
    \/ RefuseLine(i) \/ ReadInitialize(i) \/ ReadCancel(i)
TaskStep(i) ==
    \/ AnswerAtOnce(i) \/ BeginCall(i) \/ TryRegister(i) \/ (\E ok \in BOOLEAN : Registered(i, ok)) \/ RunTool(i)
    \/ ToolEnds(i) \/ CallCancelledStdio(i) \/ QueueAnswer(i) \/ EndSilently(i)
EndStep == WriteFailsStdio \/ InputEnds \/ ShutdownStdio \/ GraceEnds \/ AbortTasks \/ FlushEnds

StdioInit ==
    /\ session = [version |-> FALSE, ready |-> FALSE, key |-> "none", noted |-> FALSE]
    /\ flight = [i \in RequestIds |-> Absent]
    /\ task = [i \in RequestIds |-> [stage |-> "none", kind |-> "other", modern |-> FALSE]]
    /\ out = [queue |-> <<>>, written |-> {}, broken |-> FALSE, end |-> "serving"]
    /\ ghost = [early |-> {}, ran |-> {}]

StdioNext ==
    \/ (\E i \in RequestIds : ReaderStep(i) \/ TaskStep(i))
    \/ ReadInitialized \/ QueueNote \/ WriteLine \/ EndStep
StdioSpec == StdioInit /\ [][StdioNext]_stdioVars

-----------------------------------------------------------------------------
\* "a cancel read right behind it always finds it": a call cancelled before its task began
\* never runs its tool.
CancelIsNotMissed == ghost.early \cap ghost.ran = {}

\* Every request read is answered on the output or cancelled, or the session ends: no answer
\* is lost to a full queue, and no task waits for ever.
EveryRequestIsSettled ==
    \A i \in RequestIds : Running(i) ~> (i \in out.written \/ flight[i] = "cancelled" \/ ~Serving \/ (task[i].stage = "over" /\ i \in ghost.early))
=============================================================================
