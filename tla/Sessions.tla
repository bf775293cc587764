------------------------------ MODULE Sessions ------------------------------
(***************************************************************************)
(* One agent session and the rungs that bring its inbox to it.  The hooks     *)
(* (context, stop, rewake, poll, session-start), the bridge's pump and the    *)
(* channel push run in processes of their own and share one small file: the   *)
(* highest message already delivered to this session, read freely, written    *)
(* under a lock.  Nothing is acked for the agent, so what the cursor passes    *)
(* unshown is not offered to this session again.                              *)
(***************************************************************************)
EXTENDS Integers, Sequences, FiniteSets, FiniteSetsExt

CONSTANTS
    Runs,        \* hook processes, each one run
    MaxSeq,      \* bound: messages posted
    MaxResets,   \* bound: compactions of the agent's context
    StopCap,     \* max_blocks
    RefusalCap,  \* REFUSAL_CAP
    PendingCap   \* PENDING_CAP

ASSUME SessionAssumption ==
    /\ MaxSeq \in Nat /\ MaxResets \in Nat /\ StopCap \in Nat
    /\ RefusalCap \in Nat \ {0} /\ PendingCap \in Nat \ {0}

VARIABLES
    mail,   \* the channel of each message, whether "other" is joined, the acks
    file,   \* the session file: cursor, stop_blocks, rewake_owner; and its lock
    hook,   \* what each hook process is doing
    push,   \* the channel push task
    pump,   \* the bridge's pump
    agent   \* what the agent has been shown, by whom, and its own inbox reads

sessionVars == <<mail, file, hook, push, pump, agent>>

Seqs  == 1..MaxSeq
HookKinds == {"prompt", "tool", "poll", "stop", "quick", "rewake", "start", "absorb"}
Free  == "free"
Idle  == [kind |-> "none", stage |-> "idle", got |-> {}]
Over  == [kind |-> "none", stage |-> "over", got |-> {}]

Posted == DOMAIN mail.channel
InInbox(m) == mail.channel[m] = "own" \/ mail.joined
\* `inbox_after`: unacked messages of the agent's channels above a cursor, oldest first.
Unacked == {m \in Posted : InInbox(m) /\ m > mail.acked[mail.channel[m]]}
Above(S, c) == {m \in S : m > c}
\* A batch shows some of the oldest messages, as many as fit the page and the text.
SeqPrefixes(S) == {P \in SUBSET S : P # {} /\ \A p \in P, m \in S : m < p => m \in P}
Highest(S) == Max(S \cup {0})

-----------------------------------------------------------------------------
(* The inbox, and the agent.                                                   *)

Arrives(channel) ==
    /\ Len(mail.channel) < MaxSeq
    /\ mail' = [mail EXCEPT !.channel = Append(@, channel)]
    /\ push' = [push EXCEPT !.dirty = @ \/ (push.linked /\ (channel = "own" \/ mail.joined))]
    /\ UNCHANGED <<file, hook, pump, agent>>

\* The history of a channel joined now comes into the inbox below newer messages.
JoinOther ==
    /\ ~mail.joined
    /\ mail' = [mail EXCEPT !.joined = TRUE]
    /\ agent' = [agent EXCEPT !.late = {m \in Posted : mail.channel[m] = "other"}]
    /\ push' = [push EXCEPT !.dirty = @ \/ push.linked]
    /\ UNCHANGED <<file, hook, pump>>

\* An ack covers its channel up to the message; the push task hears of it.
AckMessage(m) ==
    /\ m \in Unacked
    /\ LET c == mail.channel[m]
           covered == {n \in Posted : mail.channel[n] = c /\ n <= m}
       IN  /\ mail' = [mail EXCEPT !.acked[c] = m]
           /\ push' = [push EXCEPT !.pending = IF push.linked THEN @ \ covered ELSE @]
    /\ UNCHANGED <<file, hook, pump, agent>>

\* The inbox tool: a page above the cursor of the tool's last page.
AgentReads(page) ==
    /\ page \in SeqPrefixes(Above(Unacked, agent.read))
    /\ agent' = [agent EXCEPT !.shown = @ \cup page, !.read = Max(page)]
    /\ UNCHANGED <<mail, file, hook, push, pump>>

-----------------------------------------------------------------------------
(* A hook process.  Steps are what happens between two awaits.                   *)

At(r, stage) == hook[r].stage = stage
Ends(r) == hook' = [hook EXCEPT ![r] = Over]
Unlocked == file.lock = Free
Release(f) == [f EXCEPT !.lock = Free]

\* The Claude dialect runs every kind; events that are not the kind's own end at once.
StartHook(r, kind) ==
    /\ At(r, "idle")
    /\ hook' = [hook EXCEPT ![r] = [kind |-> kind, got |-> {},
          stage |-> CASE kind = "rewake" -> "own" [] kind = "quick" -> "round" [] OTHER -> "lock"]]
    /\ UNCHANGED <<mail, file, push, pump, agent>>

\* context, poll, stop: the lock is held across the fetch.  A prompt first clears the count.
LockSession(r) ==
    /\ At(r, "lock") /\ hook[r].kind \in {"prompt", "tool", "poll", "stop"} /\ Unlocked
    /\ file' = [file EXCEPT !.lock = r, !.blocks = IF hook[r].kind = "prompt" THEN 0 ELSE @]
    /\ hook' = [hook EXCEPT ![r].stage = "fetch"]
    /\ UNCHANGED <<mail, push, pump, agent>>

FetchLocked(r) ==
    /\ At(r, "fetch")
    /\ hook' = [hook EXCEPT ![r].stage = "decide", ![r].got = Above(Unacked, file.cursor)]
    /\ UNCHANGED <<mail, file, push, pump, agent>>

\* Faulty: the cursor moves to the last message fetched, shown or not.
ShownUptoFetched(got, page) == Highest(got)
\* The cursor moves to the last message shown (`last_seq`).
ShownUpto(got, page) == Highest(page)

\* The rendered page reaches the agent, the cursor moves, the lock is released.
Deliver(r, page, f) ==
    /\ file' = Release([f EXCEPT !.cursor = Max({@, ShownUpto(Above(hook[r].got, @), page)})])
    /\ agent' = [agent EXCEPT !.shown = @ \cup page,
                              !.times = [m \in Seqs |-> IF m \in page THEN @[m] + 1 ELSE @[m]]]
    /\ Ends(r)
    /\ UNCHANGED <<mail, push, pump>>

\* Nothing new: silent; a stop with an empty inbox clears the count, one at its cap keeps it.
SilentWithLock(r) ==
    /\ At(r, "decide") /\ LET new == Above(hook[r].got, file.cursor) IN
       /\ new = {} \/ (hook[r].kind = "stop" /\ file.blocks >= StopCap)
       /\ file' = Release([file EXCEPT !.blocks = IF hook[r].kind = "stop" /\ new = {} THEN 0 ELSE @])
    /\ Ends(r) /\ UNCHANGED <<mail, push, pump, agent>>

DeliverWithLock(r, page) ==
    /\ At(r, "decide") /\ page \in SeqPrefixes(Above(hook[r].got, file.cursor))
    /\ hook[r].kind = "stop" => file.blocks < StopCap
    /\ Deliver(r, page, [file EXCEPT !.blocks = IF hook[r].kind = "stop" THEN @ + 1 ELSE @])

\* SessionStart: a compacted or cleared context starts over; the push task is not told.
SessionStart(r, source) ==
    /\ At(r, "lock") /\ hook[r].kind = "start" /\ Unlocked
    /\ source = "compact" => agent.resets < MaxResets
    /\ file' = [file EXCEPT !.cursor = IF source = "compact" THEN 0 ELSE @, !.blocks = 0]
    /\ agent' = IF source # "compact" THEN agent
                ELSE [agent EXCEPT !.resets = @ + 1, !.times = [m \in Seqs |-> 0]]
    /\ Ends(r) /\ UNCHANGED <<mail, push, pump>>

\* After an inbox tool the cursor moves to the highest number in its result.
AbsorbToolResult(r) ==
    /\ At(r, "lock") /\ hook[r].kind = "absorb" /\ Unlocked
    /\ file' = [file EXCEPT !.cursor = Max({@, agent.read})]
    /\ Ends(r) /\ UNCHANGED <<mail, push, pump, agent>>

\* rewake: the newest poller owns the wait.
TakeOwnership(r) ==
    /\ At(r, "own") /\ Unlocked
    /\ file' = [file EXCEPT !.owner = r]
    /\ hook' = [hook EXCEPT ![r].stage = "round"]
    /\ UNCHANGED <<mail, push, pump, agent>>

\* Each round reads owner and cursor without the lock and polls without it.
PollRound(r) ==
    /\ At(r, "round")
    /\ IF hook[r].kind = "rewake" /\ file.owner # r THEN Ends(r)
       ELSE hook' = [hook EXCEPT ![r].stage = "polled", ![r].got = Above(Unacked, file.cursor)]
    /\ UNCHANGED <<mail, file, push, pump, agent>>

\* Nothing came, a wait that timed out: again, or give up (quick, a daemon that does not wait).
EmptyRound(r, again) ==
    /\ At(r, "polled") /\ hook[r].got = {} /\ (again => hook[r].kind = "rewake")
    /\ IF again THEN hook' = [hook EXCEPT ![r].stage = "round"] ELSE Ends(r)
    /\ UNCHANGED <<mail, file, push, pump, agent>>

\* Under the lock the owner and the cursor are looked at again.
RefusedWake(r) ==
    /\ At(r, "polled") /\ hook[r].got # {} /\ Unlocked
    /\ IF hook[r].kind = "rewake" /\ file.owner # r THEN Ends(r)
       ELSE /\ Above(hook[r].got, file.cursor) = {}
            /\ IF hook[r].kind = "quick" THEN Ends(r) ELSE hook' = [hook EXCEPT ![r].stage = "round"]
    /\ UNCHANGED <<mail, file, push, pump, agent>>

\* Faulty: what the poll returned is shown without another look at the cursor.
StillNewUnchecked(r) == hook[r].got
\* Only what no other rung delivered during the poll.
StillNew(r) == Above(hook[r].got, file.cursor)

DeliverWake(r, page) ==
    /\ At(r, "polled") /\ Unlocked /\ (hook[r].kind = "rewake" => file.owner = r)
    /\ page \in SeqPrefixes(StillNew(r))
    /\ Deliver(r, page, file)

\* The budget runs out, the daemon is gone, the process is killed: silence, and no lock.
HookFails(r) ==
    /\ ~At(r, "idle") /\ ~At(r, "over") /\ Ends(r)
    /\ file' = IF file.lock = r THEN Release(file) ELSE file
    /\ UNCHANGED <<mail, push, pump, agent>>

-----------------------------------------------------------------------------
(* The channel push of the MCP server.                                          *)

Lowest(S, floor) == IF S = {} THEN floor ELSE Min(S \cup (IF floor = 0 THEN {} ELSE {floor}))

\* Fetched messages are queued when they may be pushed, noted as unsent when not; the
\* queue keeps the newest.
PushAbsorb(p, page, queue) ==
    LET new    == Above(page, p.seen)
        joined == IF queue THEN p.pending \cup new ELSE p.pending
        kept   == {m \in joined : Cardinality({n \in joined : n > m}) < PendingCap}
    IN  [p EXCEPT !.seen = Max({@, Highest(page)}), !.pending = kept,
                  !.floor = Lowest((joined \ kept) \cup (IF queue THEN {} ELSE new), @)]

\* The first link's backlog is not pushed, a later one's is; then the queue keeps only what
\* is still unacked.
OpenLink ==
    /\ ~push.linked
    /\ LET p == PushAbsorb(push, Unacked, push.before)
       IN  push' = [p EXCEPT !.linked = TRUE, !.before = TRUE, !.dirty = TRUE, !.pending = @ \cap Unacked]
    /\ UNCHANGED <<mail, file, hook, pump, agent>>

LoseLink ==
    /\ push.linked /\ push' = [push EXCEPT !.linked = FALSE]
    /\ UNCHANGED <<mail, file, hook, pump, agent>>

FlushPush ==
    /\ push.linked /\ push.dirty
    /\ LET page == Above(Unacked, push.seen)
       IN  push' = [PushAbsorb(push, page, TRUE) EXCEPT !.dirty = FALSE]
    /\ UNCHANGED <<mail, file, hook, pump, agent>>

\* Where the shared cursor may move: never past a message that was fetched and not sent.
\* The floor goes once the cursor has passed it, "since the hooks delivered those".
MarkTarget(shownMax, cursor, floor) ==
    LET stands == floor # 0 /\ floor > cursor
        target == IF stands THEN Min({shownMax, floor - 1}) ELSE shownMax
    IN  [floor  |-> IF stands THEN floor ELSE 0,
         target |-> IF shownMax # 0 /\ target > cursor THEN target ELSE 0]

\* What the hooks delivered is dropped; the rest is one notification, of which the first
\* messages are shown whole and the others only counted.
SendPush(whole) ==
    /\ push.linked /\ push.mark = 0
    /\ LET batch == Above(push.pending, file.cursor) IN
       /\ whole \in SeqPrefixes(batch) \cup (IF batch = {} THEN {} ELSE {{}})
       /\ LET floor == Lowest(batch \ whole, push.floor)
              to    == IF whole = {} THEN [floor |-> floor, target |-> 0]
                       ELSE MarkTarget(Max(whole), file.cursor, floor)
          IN  push' = [push EXCEPT !.pending = {}, !.floor = to.floor, !.mark = to.target]
       /\ agent' = [agent EXCEPT !.shown = @ \cup whole]
    /\ UNCHANGED <<mail, file, hook, pump>>

\* The queue to the client is full, or everything was delivered by the hooks.
KeepPush ==
    /\ push.linked /\ push.pending # {} /\ push.pending # Above(push.pending, file.cursor)
    /\ push' = [push EXCEPT !.pending = Above(@, file.cursor)]
    /\ UNCHANGED <<mail, file, hook, pump, agent>>

\* `try_advance`: a lock that is held is not waited for, and the cursor never goes back.
MarkPushed ==
    /\ push.mark # 0
    /\ file' = IF Unlocked /\ push.mark > file.cursor THEN [file EXCEPT !.cursor = push.mark] ELSE file
    /\ push' = [push EXCEPT !.mark = 0]
    /\ UNCHANGED <<mail, hook, pump, agent>>

-----------------------------------------------------------------------------
(* The bridge's pump.                                                          *)

PumpFetch ==
    /\ pump.stage = "poll"
    /\ pump' = [pump EXCEPT !.stage = "offer", !.got = Above(Unacked, file.cursor)]
    /\ UNCHANGED <<mail, file, hook, push, agent>>

\* The fetch failed, or nothing of it is still new: pause and poll again.
PumpPause ==
    /\ pump.stage = "offer" /\ Above(pump.got, file.cursor) = {}
    /\ pump' = [pump EXCEPT !.stage = "poll", !.got = {}]
    /\ UNCHANGED <<mail, file, hook, push, agent>>

Offer(page) ==
    /\ pump.stage = "offer" /\ page \in SeqPrefixes(Above(pump.got, file.cursor))
    /\ pump' = [pump EXCEPT !.stage = "offered", !.got = page]
    /\ UNCHANGED <<mail, file, hook, push, agent>>

\* The driver accepts: the agent has the text, and only now the cursor may move.
Accepted ==
    /\ pump.stage = "offered"
    /\ agent' = [agent EXCEPT !.shown = @ \cup pump.got]
    /\ pump' = [pump EXCEPT !.stage = "commit", !.refusals = 0]
    /\ UNCHANGED <<mail, file, hook, push>>

\* Refusals in a row of one batch, known by its highest message.
RefusedInRow == IF pump.last = Max(pump.got) THEN pump.refusals + 1 ELSE 1

\* Refused, or the reply dropped: offered again, and passed over at the cap.
Refused(page) ==
    /\ pump.stage = "offered"
    /\ IF RefusedInRow >= RefusalCap
       THEN /\ pump' = [pump EXCEPT !.stage = "commit", !.refusals = 0]
            /\ agent' = [agent EXCEPT !.skipped = @ \cup pump.got]
       ELSE /\ pump' = [pump EXCEPT !.stage = "poll", !.refusals = RefusedInRow, !.last = Max(pump.got), !.got = {}]
            /\ UNCHANGED agent
    /\ UNCHANGED <<mail, file, hook, push>>

PumpCommit ==
    /\ pump.stage = "commit" /\ Unlocked
    /\ file' = [file EXCEPT !.cursor = Max({@, Max(pump.got)})]
    /\ pump' = [pump EXCEPT !.stage = "poll", !.got = {}]
    /\ UNCHANGED <<mail, hook, push, agent>>

-----------------------------------------------------------------------------
HookStep(r, kinds) ==
    \/ \E kind \in kinds : StartHook(r, kind)
    \/ LockSession(r) \/ FetchLocked(r) \/ SilentWithLock(r) \/ AbsorbToolResult(r)
    \/ TakeOwnership(r) \/ PollRound(r) \/ RefusedWake(r) \/ HookFails(r)
    \/ \E source \in {"startup", "compact"} : SessionStart(r, source)
    \/ \E again \in BOOLEAN : EmptyRound(r, again)
    \/ \E page \in SUBSET Seqs : DeliverWithLock(r, page) \/ DeliverWake(r, page)

PushStep == OpenLink \/ LoseLink \/ FlushPush \/ KeepPush \/ MarkPushed \/ \E whole \in SUBSET Seqs : SendPush(whole)
PumpStep == PumpFetch \/ PumpPause \/ Accepted \/ Refused(pump.got) \/ PumpCommit \/ \E page \in SUBSET Seqs : Offer(page)
MailStep == JoinOther \/ (\E c \in {"own", "other"} : Arrives(c)) \/ \E m \in Seqs : AckMessage(m)
AgentStep == \E page \in SUBSET Seqs : AgentReads(page)

SessionInit ==
    /\ mail = [channel |-> <<>>, joined |-> FALSE, acked |-> [c \in {"own", "other"} |-> 0]]
    /\ file = [cursor |-> 0, blocks |-> 0, owner |-> "nobody", lock |-> Free]
    /\ hook = [r \in Runs |-> Idle]
    /\ push = [linked |-> FALSE, before |-> FALSE, dirty |-> FALSE, seen |-> 0, pending |-> {},
               floor |-> 0, mark |-> 0]
    /\ pump = [stage |-> "poll", got |-> {}, refusals |-> 0, last |-> 0]
    /\ agent = [shown |-> {}, times |-> [m \in Seqs |-> 0], read |-> 0, skipped |-> {}, late |-> {}, resets |-> 0]

\* Hooks and pump, which show what they pass; and the push beside them, which may not (`MarkHidesNothing`).
PullNext == MailStep \/ AgentStep \/ PumpStep \/ \E r \in Runs : HookStep(r, HookKinds)
PullSpec == SessionInit /\ [][PullNext]_sessionVars
SessionNext == PullNext \/ PushStep
SessionSpec == SessionInit /\ [][SessionNext]_sessionVars

-----------------------------------------------------------------------------
(* Properties.                                                                *)

\* Acked messages, those of a channel joined over newer ones, and batches given up.
Excused == agent.skipped \cup agent.late \cup (Posted \ Unacked)

\* What the hooks and the bridge put behind the cursor has been shown: no prefix, budget,
\* lost race or refused batch hides a message ("a duplicate is preferred over a loss").
PullRungsHideNothing ==
    [][push.mark' # 0 \/ push.mark = push.mark' =>
        \A m \in Posted : file.cursor < m /\ m <= file'.cursor => m \in agent.shown' \cup Excused]_sessionVars

\* The hooks of a session show a message once per context, however their runs interleave
\* ("so that two hooks of one session never deliver the same message twice").
HooksDeliverOnce == \A m \in Seqs : agent.times[m] <= 1

\* Claimed by push.rs of its mark: no unacked message is behind the cursor that no rung has
\* shown ("a mark past it would hide those messages").
MarkHidesNothing == \A m \in Posted : m <= file.cursor => m \in agent.shown \cup Excused
=============================================================================
