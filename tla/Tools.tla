------------------------------- MODULE Tools -------------------------------
(***************************************************************************)
(* The MCP tools.  A call is a sequence of daemon requests, each of its own    *)
(* transaction; an answer may be lost after any of them, and a harness may     *)
(* call a tool again when its annotation says that this adds nothing.          *)
(*                                                                           *)
(* The daemon's state is a set of cells with small numbers: what is or is not  *)
(* there (0, 1), the stage of a sprint, how many of what has a fresh id.       *)
(***************************************************************************)
EXTENDS Integers, Sequences, FiniteSets, Functions

CONSTANT MaxTries  \* bound: times one call is made

VARIABLES
    cell,   \* the daemon's state
    before, \* the state before the first try
    tool    \* the call made: over HTTP or not, the tool, its requests, the next one, tries and how it stands

toolVars == <<cell, before, tool>>

-----------------------------------------------------------------------------
(* Requests: the cell, the values under which the store accepts it, and what   *)
(* the cell is then: a value, one more, or at least a value.                   *)

All == 0..9
Values(c, from, to) == [cell |-> c, from |-> from, to |-> to, how |-> "put"]
More(c)   == [cell |-> c, from |-> All, to |-> 0, how |-> "more"]
Raise(c, v) == [cell |-> c, from |-> All, to |-> v, how |-> "raise"]
Look      == [cell |-> "none", from |-> All, to |-> 0, how |-> "read"]
\* `local_only`, `path_guard`, `require_stdio`: not a request, refuses over HTTP.
LocalOnly == [Look EXCEPT !.how = "local"]

\* Reactions and acks are replaced whole; an ack never goes back.
React(on)  == Values("reaction", All, on)
Ack(seq)   == Raise("acked", seq)
\* A note has the id its author gave it, once.
PublishNote == Values("note", {0}, 1)
\* The row of (key, harness) is replaced or removed; removing none succeeds.
Status(v)  == Values("status", All, v)
\* A sprint is planned (1), active (2) and closed (3); a card is in it once.
CreateSprint == Values("sprint", {0}, 1)
StartSprint  == Values("sprint", {1}, 2)
CloseSprint  == Values("sprint", {2}, 3)
AddToSprint  == Values("sprintCard", All, 1)
\* The policy row and the settings given are replaced.
PolicySet(v) == Values("policy", All, v)
SettingsSet(v) == Values("settings", All, v)
ScopeSet(v)  == Values("scope", All, v)
\* A role already held succeeds; a revoked key is not active, so not revoked again.
ChannelRole(v) == Values("channelRole", All, v)
GrantRole(v)   == Values("role", All, v)
RevokeKey      == Values("revoked", {0}, 1)
\* Faulty: the dependency is counted again.
CardDepAgain(d, on) == IF on = 1 THEN More(d) ELSE Values(d, {1}, 0)
\* An edge there is not added, nor one missing removed.
CardDep(d, on) == Values(d, {1 - on}, on)
CardLink(on)   == Values("link", {1 - on}, on)
CardFields(v)  == Values("fields", All, v)
Escalate       == More("notices")
\* What the daemon or the client names afresh.
PostText == More("messages")
\* A command is accepted by the claimant of the task, whom a second accept does not change.
Accept == Values("accepted", All, 1)

-----------------------------------------------------------------------------
(* The client's verbs: what each sends.                                        *)

BoardOps ==
    [create |-> Values("card", {0}, 1), move |-> Values("cardState", {0}, 1), evidence |-> More("evidence"),
     approve |-> Values("approval", All, 1), reclaim |-> Values("cardState", {1}, 0)]
WorkOps ==
    [add |-> More("tasks"), addCommand |-> More("commands"), next |-> More("claims"), claim |-> Values("claim", {0}, 1),
     accept |-> Accept, run |-> More("jobs"), cancel |-> Values("task", {0, 1}, 2), finish |-> Values("task", {1}, 3)]
SchedOps ==
    [timer |-> More("timers"), untimer |-> Values("timer", {1}, 0), lease |-> More("leases"),
     pathLease |-> Values("pathLease", {0}, 1), renew |-> Values("renewed", All, 1), release |-> Values("lease", {1}, 0),
     open |-> More("windows"), close |-> Values("window", {1}, 0)]
OrgOps ==
    [create |-> Values("channel", {0}, 1), add |-> Values("member", {0}, 1), remove |-> Values("member", {1}, 0),
     rotate |-> More("epoch")]
\* An attachment's blob is stored under its hash before the message.
Attached == <<Look, Values("blob", All, 1), PostText>>

-----------------------------------------------------------------------------
(* The tools: which verbs, in which order.                                     *)

Asks(name, reqs) == [name |-> name, reqs |-> reqs]
Reads(names) == {Asks(n, <<Look>>) : n \in names}

\* A file given by path is read on this side, one saved is written once.
FileTools ==
    {Asks(n, g \o Attached) : n \in {"chat", "attach"}, g \in {<<>>, <<LocalOnly>>}}
    \cup {Asks("fetch_file", <<Look, Look>>), Asks("fetch_file", <<LocalOnly, Look, Values("saved", {0}, 1)>>)}
ChatTools ==
    {Asks("chat", <<Look, PostText>>), Asks("read", <<Look, Look>>)} \cup {Asks("react", <<React(on)>>) : on \in {0, 1}}
InboxTools == Reads({"inbox", "inbox_wait"}) \cup {Asks("ack", <<Ack(n)>>) : n \in {1, 2}}

\* Members and keys are read first; `Sealing` has what happens in between.
OrgTools ==
    {Asks("channel_create", <<OrgOps.create>>), Asks("channel_add", <<Look, OrgOps.add>>),
     Asks("channel_remove", <<Look, OrgOps.remove>>), Asks("channel_rotate", <<Look, OrgOps.rotate>>),
     Asks("revoke", <<RevokeKey>>), Asks("channel_promote", <<ChannelRole(1)>>), Asks("channel_demote", <<ChannelRole(0)>>)}
    \cup {Asks("role_grant", <<GrantRole(r)>>) : r \in {0, 1}}

StatusTools ==
    {Asks("status_set", <<Status(v)>>) : v \in {1, 2}} \cup {Asks("status_clear", <<Status(0)>>)} \cup Reads({"status_list"})

BoardTools ==
    {Asks("card_create", <<BoardOps.create>>), Asks("card_move", <<BoardOps.move>>), Asks("card_evidence", <<BoardOps.evidence>>),
     Asks("card_approve", <<BoardOps.approve>>), Asks("card_reclaim", <<BoardOps.reclaim>>),
     Asks("sprint_create", <<CreateSprint>>), Asks("sprint_add", <<AddToSprint>>), Asks("sprint_start", <<StartSprint>>),
     Asks("sprint_close", <<CloseSprint>>), Asks("note_publish", <<PublishNote>>)}
    \cup Reads({"card_list", "sprint_summary", "note_search"})
\* The extras are asked for apart and left out when they are refused.
SummaryTools == {Asks("board_summary", <<Look, Look>>)}

\* `discover` asks for every channel's members and leaves out what is refused.
DiscoverTools == {Asks("discover", <<Look, Look, Look, Look>>)}
DiagTools     == Reads({"whoami"}) \cup {Asks("delivery_status", <<>>)}

\* Over HTTP the task is read first and its command not accepted (on stdio it is not read); a task's
\* command never changes.
WorkTools ==
    {Asks("work_add", <<WorkOps.add>>), Asks("work_add", <<LocalOnly, WorkOps.addCommand>>),
     Asks("work_next", <<WorkOps.next>>), Asks("work_claim", <<WorkOps.claim>>),
     Asks("work_accept", <<Look, LocalOnly, WorkOps.accept>>), Asks("work_cancel", <<WorkOps.cancel>>),
     Asks("work_finish", <<WorkOps.finish>>)}
    \cup Reads({"work_show", "work_status"})
\* Tasks given with the call are planned on this side, with no request.
PlanTools == {Asks("work_plan", <<>>), Asks("work_plan", <<Look>>)}
\* A call that sets nothing reads.
SetterTools ==
    Reads({"work_scope", "work_settings"}) \cup {Asks("work_scope", <<ScopeSet(v)>>) : v \in {0, 1}}
    \cup {Asks("work_settings", <<SettingsSet(v)>>) : v \in {0, 1}}
\* Of a wait's conditions, a pid, a path and a log are this machine's.
WaitTools == {Asks("work_wait", <<Look>>), Asks("work_wait", <<LocalOnly, Look>>)}
\* The job is started and waited for in two requests.
RunTools  == {Asks("work_run", <<LocalOnly, WorkOps.run, Look>>)}

\* A timer with a command is made on this machine only.
TimerGate == <<LocalOnly>>
ScheduleTools ==
    {Asks("work_schedule", <<SchedOps.timer>>), Asks("work_schedule", TimerGate \o <<WorkOps.addCommand>>),
     Asks("work_schedule", <<SchedOps.untimer>>)} \cup Reads({"work_schedule"})
LeaseTools ==
    {Asks("pool_lease", <<SchedOps.lease>>), Asks("pool_lease", <<LocalOnly, SchedOps.pathLease>>),
     Asks("pool_lease", <<SchedOps.renew>>), Asks("pool_release", <<SchedOps.release>>)}
    \cup {Asks("pool_define", <<Values("pool", All, v)>>) : v \in {1, 2}}
WatchTools ==
    {Asks("quiet_window", <<SchedOps.open>>), Asks("quiet_window", <<SchedOps.close>>), Asks("reclaim", <<SchedOps.release>>),
     Asks("escalate", <<Escalate>>)} \cup Reads({"quiet_window", "watchdog_report", "metrics"})
PolicyTools == Reads({"policy_set"}) \cup {Asks("policy_set", <<PolicySet(v)>>) : v \in {0, 1}}

\* `card_ops`: the fields, the dependencies added, then removed, then the link, each a request,
\* and the record read at the end; the first refused ends the call.
CardUpdates ==
    {Asks("card_update", f \o d \o r \o l \o <<Look>>) :
        f \in {<<>>, <<CardFields(1)>>}, d \in {<<>>, <<CardDep("dep1", 1)>>, <<CardDep("dep1", 1), CardDep("dep2", 1)>>},
        r \in {<<>>, <<CardDep("dep3", 0)>>}, l \in {<<>>, <<CardLink(1)>>, <<CardLink(0)>>}}

\* `dispatch`.
Calls ==
    FileTools \cup ChatTools \cup InboxTools \cup OrgTools \cup StatusTools \cup BoardTools \cup SummaryTools
    \cup DiscoverTools \cup DiagTools \cup WorkTools \cup PlanTools \cup SetterTools \cup WaitTools \cup RunTools
    \cup ScheduleTools \cup LeaseTools \cup WatchTools \cup PolicyTools \cup CardUpdates

-----------------------------------------------------------------------------
(* The annotations of the tool table.                                          *)

ReadOnlyChat  == {"whoami", "discover", "read", "inbox", "inbox_wait", "status_list"}
ReadOnlyBoard == {"card_list", "sprint_summary", "board_summary", "note_search", "delivery_status"}
ReadOnlyWork  == {"work_show", "work_wait", "work_status", "work_plan"}
ReadOnlySched == {"watchdog_report", "metrics"}
ReadOnly == ReadOnlyChat \cup ReadOnlyBoard \cup ReadOnlyWork \cup ReadOnlySched
\* `inbox_wait` is the one read that is not repeated for nothing: it waits for news.
Idempotent == (ReadOnly \ {"inbox_wait"}) \cup
    {"react", "ack", "channel_promote", "channel_demote", "role_grant", "revoke", "status_set", "status_clear",
     "work_scope", "work_accept", "work_settings", "pool_define", "pool_release", "policy_set", "card_update"}

-----------------------------------------------------------------------------
Cells == {r.cell : r \in UNION {Range(c.reqs) : c \in Calls}}
Admits(r, remote, state) == (r.how = "local" => ~remote) /\ (r.cell # "none" => state[r.cell] \in r.from)
Applied(r, state) ==
    IF r.cell = "none" THEN state
    ELSE [state EXCEPT ![r.cell] = CASE r.how = "more"  -> @ + 1
                                     [] r.how = "raise" -> IF @ < r.to THEN r.to ELSE @
                                     [] OTHER           -> r.to]

\* What one try does when nothing else happens, request by request, until one is refused.
Tried(r, remote, acc) ==
    IF acc.ok /\ Admits(r, remote, acc.state) THEN [ok |-> TRUE, state |-> Applied(r, acc.state)] ELSE [acc EXCEPT !.ok = FALSE]
SingleTry(reqs, remote, state) ==
    LET try[k \in 0 .. Len(reqs)] == IF k = 0 THEN [ok |-> TRUE, state |-> state] ELSE Tried(reqs[k], remote, try[k - 1])
    IN try

ToolInit ==
    /\ tool \in {[remote |-> h, name |-> c.name, reqs |-> c.reqs, at |-> 1, tries |-> 1, is |-> "open"] :
                  h \in BOOLEAN, c \in Calls}
    /\ \E S \in SUBSET ({r.cell : r \in Range(tool.reqs)} \ {"none"}) : before = [c \in Cells |-> IF c \in S THEN 1 ELSE 0]
    /\ cell = before

\* The daemon serves the next request, or refuses it; the answer arrives, or the connection is lost
\* before or after.
Serve ==
    /\ tool.is = "open" /\ tool.at <= Len(tool.reqs)
    /\ LET r == tool.reqs[tool.at] IN
       IF Admits(r, tool.remote, cell)
       THEN /\ cell' = Applied(r, cell)
            /\ tool' \in {[tool EXCEPT !.at = @ + 1], [tool EXCEPT !.is = "lost"]}
       ELSE UNCHANGED cell /\ tool' = [tool EXCEPT !.is = "refused"]
    /\ UNCHANGED before
Lose   == tool.is = "open" /\ tool' = [tool EXCEPT !.is = "lost"] /\ UNCHANGED <<cell, before>>
Answered == tool.is = "open" /\ tool.at > Len(tool.reqs) /\ tool' = [tool EXCEPT !.is = "done"] /\ UNCHANGED <<cell, before>>
\* A harness calls again what may be called again, with the same arguments.
Again ==
    /\ tool.is # "open" /\ tool.name \in Idempotent /\ tool.tries < MaxTries
    /\ tool' = [tool EXCEPT !.is = "open", !.at = 1, !.tries = @ + 1] /\ UNCHANGED <<cell, before>>
ToolStep == Serve \/ Lose \/ Answered \/ Again
ToolSpec == ToolInit /\ [][ToolStep]_toolVars

-----------------------------------------------------------------------------
\* The annotations hold of what the requests do: a read-only tool changes nothing, and however
\* often an idempotent one is lost and called again, the daemon's state is one that a single try
\* leaves, and the whole of it when a try is answered.
RepeatAddsNothing ==
    /\ tool.name \in ReadOnly => cell = before
    /\ tool.name \in Idempotent => \E try \in {SingleTry(tool.reqs, tool.remote, before)} :
         /\ \E k \in DOMAIN try : cell = try[k].state
         /\ tool.is = "done" => cell = try[Len(tool.reqs)].state

=============================================================================
