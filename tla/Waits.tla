------------------------------- MODULE Waits -------------------------------
(***************************************************************************)
(* The bounded waits of the daemon, one call at a time for the identity "me": *)
(* `inbox_wait`, and the conditions of `WorkWait`: messages of a channel,      *)
(* notices, tasks, cards, and those the machine is asked about: files, paths   *)
(* gone, processes.  Each subscribes or watches first, checks, and sleeps      *)
(* until a relevant event, a lag, a change of the files or the deadline.       *)
(***************************************************************************)
EXTENDS EventBus

CONSTANT MaxCalls   \* bound: how often the caller asks

VARIABLES
    wait,      \* the call
    ready,     \* the conditions of the machine that have come true
    stopping   \* the daemon's shutdown token is cancelled

waitVars == <<wait, ready, stopping>>

PolledKinds == {"file", "gone", "pid"}

\* `pos` is the receiver, `cache` the channels as of the last check, `late` that the
\* deadline has passed, `final` that this check is the last; `floor` is the notice the
\* wait starts after (-1: not known), `began` the one that was the latest at the first call.
NoWait == [stage |-> "quiet", kind |-> "inbox", on |-> NoChannel, pos |-> 0, cache |-> {},
           floor |-> -1, began |-> -1, late |-> FALSE, final |-> FALSE, answer |-> "none", calls |-> 0]

-----------------------------------------------------------------------------
(* What a check reads.                                                        *)

InboxOf(s) == {i \in DOMAIN s.msgs : s.msgs[i].chan \in s.members}
ChannelOf(s, c) == {i \in DOMAIN s.msgs : s.msgs[i].chan = c}

\* The read behind the check is refused: a revoked caller, or not a member.
Refused ==
    \/ wait.kind \in {"inbox", "messages"} /\ ~store.active
    \/ wait.kind = "messages" /\ wait.on \notin store.members

InboxFound    == wait.kind = "inbox" /\ InboxOf(store) # {}
MessagesFound == wait.kind = "messages" /\ ChannelOf(store, wait.on) # {}
NoticesFound  == wait.kind = "notices" /\ store.notices > wait.floor
TasksDone     == wait.kind = "tasks" /\ store.workDone
CardsReached  == wait.kind = "cards" /\ store.cardMoved
FilesReady    == wait.kind = "file" /\ "file" \in ready
PathsGone     == wait.kind = "gone" /\ "gone" \in ready
PidsGone      == wait.kind = "pid" /\ "pid" \in ready

Found == InboxFound \/ MessagesFound \/ NoticesFound \/ TasksDone \/ CardsReached
           \/ FilesReady \/ PathsGone \/ PidsGone

\* Faulty: any message wakes the waits on messages, and a change of membership none.
RelevantMessagesOnly(e) ==
    CASE wait.kind = "inbox"    -> e.kind = "message" /\ e.on \in wait.cache
      [] wait.kind = "messages" -> e.kind = "message" /\ e.on = wait.on
      [] wait.kind = "notices"  -> e.kind = "notice"
      [] wait.kind = "tasks"    -> e.kind = "work"
      [] wait.kind = "cards"    -> e.kind = "card"
      [] OTHER                  -> FALSE
\* The events that wake the wait.  The inbox asks the channels of its last check.
Relevant(e) ==
    CASE wait.kind = "inbox"    -> \/ e.kind = "message" /\ e.on \in wait.cache
                                   \/ e.kind \in {"channel", "identity"}
      [] wait.kind = "messages" -> e.kind \in {"message", "channel"} /\ e.on = wait.on
      [] wait.kind = "notices"  -> e.kind = "notice"
      [] wait.kind = "tasks"    -> e.kind = "work"
      [] wait.kind = "cards"    -> e.kind = "card"
      [] OTHER                  -> FALSE

-----------------------------------------------------------------------------
(* The call.                                                                  *)

Answer(a) == wait' = [wait EXCEPT !.stage = "answered", !.answer = a, !.pos = 0, !.cache = {}]
FirstStage(kind, floor) ==
    IF kind = "inbox" THEN "members" ELSE IF kind = "notices" /\ floor < 0 THEN "floor" ELSE "check"

\* Faulty: a resumed notices wait starts after the latest notice again.
KnownFloorNotResumed(after, resumed) == after
\* `known_floor`: the cursor of the call before has it, or the caller named one.
KnownFloor(after, resumed) == IF resumed >= 0 THEN resumed ELSE after

\* The request.  File, gone, log and pid waits need the Worker role; the role of a
\* revoked caller cannot be read at all.
BeginWait(kind, c, after) ==
    /\ wait.calls < MaxCalls
    /\ \/ wait.stage = "quiet"
       \/ wait.answer = "timeout" /\ kind = wait.kind /\ c = wait.on /\ after = -1
    /\ LET floor == KnownFloor(after, wait.floor) IN
       wait' = [wait EXCEPT
          !.stage = IF store.active THEN FirstStage(kind, floor) ELSE "answered",
          !.answer = IF store.active THEN "none" ELSE "refused",
          !.kind = kind, !.on = c, !.pos = Subscription, !.floor = floor,
          !.began = IF @ < 0 THEN after ELSE @,
          !.late = FALSE, !.final = FALSE, !.calls = @ + 1]
    /\ UNCHANGED <<ready, stopping>>

\* A notices wait that knows no floor starts after the latest notice.
ReadFloor ==
    /\ wait.stage = "floor"
    /\ wait' = [wait EXCEPT !.floor = store.notices, !.stage = "check",
                            !.began = IF @ < 0 THEN store.notices ELSE @]
    /\ UNCHANGED <<ready, stopping>>

\* `list_channels`: the first of the two reads of the inbox check.  The writer may
\* commit between them.
ReadMembers ==
    /\ wait.stage = "members"
    /\ IF store.active THEN wait' = [wait EXCEPT !.cache = store.members, !.stage = "check"]
                       ELSE Answer("refused")
    /\ UNCHANGED <<ready, stopping>>

CheckWait ==
    /\ wait.stage = "check"
    /\ IF Refused THEN Answer("refused")
       ELSE IF Found THEN Answer("told")
       ELSE IF wait.final THEN Answer("timeout")
       ELSE wait' = [wait EXCEPT !.stage = IF wait.kind = "inbox" THEN "parked" ELSE "turn"]
    /\ UNCHANGED <<ready, stopping>>

\* `wait_turn` looks at the clock before it sleeps.
Turn ==
    /\ wait.stage = "turn"
    /\ IF wait.late THEN Answer("timeout") ELSE wait' = [wait EXCEPT !.stage = "parked"]
    /\ UNCHANGED <<ready, stopping>>

\* Woken: the inbox checks with the events still queued, the others drop them first.
Woken(pos) ==
    IF wait.kind = "inbox"
      THEN [wait EXCEPT !.pos = pos, !.stage = "members"]
      ELSE [wait EXCEPT !.pos = Len(bus), !.stage = "check"]

\* A lagged receiver may have missed the event it waits for.
WokenByLag == wait' = Woken(Oldest)

\* The select is biased: shutdown, then the deadline, then the bus.
Receive ==
    /\ wait.stage = "parked" /\ ~stopping /\ ~wait.late /\ wait.kind \notin PolledKinds /\ Waiting(wait.pos)
    /\ IF Lagged(wait.pos) THEN WokenByLag
       ELSE IF Relevant(NextEvent(wait.pos)) THEN wait' = Woken(wait.pos + 1)
       ELSE wait' = [wait EXCEPT !.pos = @ + 1]
    /\ UNCHANGED <<ready, stopping>>

\* The watcher saw a change, or its recheck period (of a pid wait: the probe's) is over.
Recheck ==
    /\ wait.stage = "parked" /\ ~stopping /\ ~wait.late /\ wait.kind \in PolledKinds
    /\ wait' = [wait EXCEPT !.stage = "check"]
    /\ UNCHANGED <<ready, stopping>>

\* The deadline wakes the call for its last check.
WokenByDeadline ==
    /\ wait.stage = "parked" /\ ~stopping /\ wait.late
    /\ wait' = [Woken(wait.pos) EXCEPT !.final = (wait.kind = "inbox")]
    /\ UNCHANGED <<ready, stopping>>

WokenByShutdown ==
    /\ wait.stage = "parked" /\ stopping
    /\ Answer("stopped") /\ UNCHANGED <<ready, stopping>>

\* Time, the machine and the operator.
DeadlinePasses ==
    /\ wait.stage \notin {"quiet", "answered"} /\ ~wait.late
    /\ wait' = [wait EXCEPT !.late = TRUE]
    /\ UNCHANGED <<ready, stopping>>
MachineMoves == wait.kind \in PolledKinds \ ready /\ ready' = ready \cup {wait.kind} /\ UNCHANGED <<wait, stopping>>
Shutdown == wait.stage \notin {"quiet", "answered"} /\ ~stopping /\ stopping' = TRUE /\ UNCHANGED <<wait, ready>>

CallStep == ReadFloor \/ ReadMembers \/ CheckWait \/ Turn \/ Receive \/ Recheck
              \/ WokenByDeadline \/ WokenByShutdown

WaitStep(kinds) ==
    \/ CallStep \/ DeadlinePasses \/ MachineMoves \/ Shutdown
    \/ \E kind \in kinds \ {"messages", "notices"} : BeginWait(kind, NoChannel, -1)
    \/ "messages" \in kinds /\ \E c \in Channels : BeginWait("messages", c, -1)
    \/ "notices" \in kinds /\ \E after \in {-1, 0} : BeginWait("notices", NoChannel, after)

WaitInit == wait = NoWait /\ ready = {} /\ stopping = FALSE

-----------------------------------------------------------------------------
(* Properties.                                                                *)

\* The condition, as the caller means it: of the notices, those since its first call.
Holds ==
    CASE wait.kind = "inbox"    -> store.active /\ InboxOf(store) # {}
      [] wait.kind = "messages" -> store.active /\ wait.on \in store.members /\ ChannelOf(store, wait.on) # {}
      [] wait.kind = "notices"  -> wait.began >= 0 /\ store.notices > wait.began
      [] OTHER                  -> Found

\* ... and the bus has said so, or will.
Announced == Holds /\ (wait.kind = "notices" => store.heard > wait.began)

StatusOf ==
    IF wait.stage = "quiet" THEN "quiet"
    ELSE CASE wait.answer = "none"    -> "waiting"
           [] wait.answer = "told"    -> "told"
           [] wait.answer = "timeout" -> "gaveup"
           [] OTHER                   -> "refused"

WP == INSTANCE WaitPromise WITH holds <- Holds, announced <- Announced, status <- StatusOf

\* Every wait keeps the one promise: it answers that its condition holds only when it
\* does, and while the condition holds and was announced it never sleeps on, whether its
\* event came before, between or after its reads, or was lost to a lagged receiver
\* (`wait_for`, `wait_turn` and the checks of `inbox_wait` and `WorkWait`).
WaitKeepsPromise == WP!Promise

\* The events from which a sleeping wait would still be woken.
Ahead == {bus[i] : i \in (wait.pos + 1)..Len(bus)} \cup {unpublished[i] : i \in DOMAIN unpublished}

\* A wait that has checked and goes to sleep is never alone: if its condition became true
\* since, its receiver has lagged, or an event that wakes it is on the bus ahead of it or
\* with the writer (subscribe before check, in `inbox_wait` and `wait_turn`).
ParkedIsCovered ==
    (wait.stage \in {"turn", "parked"} /\ wait.kind \notin PolledKinds
       /\ ~Refused /\ Found /\ (wait.kind = "notices" => store.heard > wait.floor))
      => Lagged(wait.pos) \/ \E e \in Ahead : Relevant(e)

\* A notices wait is driven by the bus alone: it never sleeps on a notice that is there
\* for it with nothing ahead to wake it before its deadline (`notices_wait`).
NoticeWaitIsBusDriven ==
    wait.stage = "parked" /\ wait.kind = "notices" /\ Holds
      => Lagged(wait.pos) \/ \E e \in Ahead : Relevant(e)
=============================================================================
