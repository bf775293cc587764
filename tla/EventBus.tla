------------------------------ MODULE EventBus ------------------------------
(***************************************************************************)
(* The store behind its writer thread, and the broadcast bus on which the    *)
(* writer publishes.  A write job commits, then its events go on the bus one  *)
(* by one, then the next job runs: a reader may see a commit before its event *)
(* is there, never the other way round.  The bus keeps its last BusCapacity   *)
(* events; a receiver that falls further behind is told that it lagged and    *)
(* goes on from the oldest event kept.                                       *)
(*                                                                          *)
(* The store is reduced to what one identity, "me", can be told about: its    *)
(* channels and their messages, its notices, and one task others may finish.  *)
(***************************************************************************)
EXTENDS Integers, Sequences, FiniteSets

CONSTANTS
    Channels,     \* channel ids
    Timers,       \* timer ids
    BusCapacity,  \* BUS_CAPACITY
    MaxCommits    \* bound: how many write jobs commit

ASSUME BusAssumption == BusCapacity \in Nat \ {0} /\ MaxCommits \in Nat

VARIABLES
    store,        \* what is committed
    unpublished,  \* events of the job the writer is on, not yet on the bus
    bus           \* every event published so far

busVars == <<store, unpublished, bus>>

NoChannel == "none"
Kinds     == {"message", "channel", "identity", "work", "card", "notice", "timer", "other"}
Event     == [kind : Kinds, on : Channels \cup Timers \cup {NoChannel}]
Ev(kind, on) == [kind |-> kind, on |-> on]

\* `msgs` are the messages of others in seq order.
\* Of the notices of "me", `heard` is the last one whose event names "me".
Store == [members : SUBSET Channels, active : BOOLEAN, workDone : BOOLEAN, cardMoved : BOOLEAN,
          notices : Nat, heard : Nat, msgs : Seq([chan : Channels]), commits : 0..MaxCommits]

\* The store, the writer's hands and the bus keep their types.
BusTypeOK == store \in Store /\ unpublished \in Seq(Event) /\ bus \in Seq(Event)

-----------------------------------------------------------------------------
(* Receivers.  A receiver is the number of events it has taken or skipped.      *)

Subscription   == Len(bus)
Lagged(pos)    == Len(bus) - pos > BusCapacity
Oldest         == Len(bus) - BusCapacity
Waiting(pos)   == pos < Len(bus)
NextEvent(pos) == bus[pos + 1]

-----------------------------------------------------------------------------
(* The writer thread.                                                         *)

\* Writer::exec runs a job: its transaction commits, and returns these events.
Commit(row, events) ==
    /\ unpublished = <<>> /\ store.commits < MaxCommits
    /\ store' = [row EXCEPT !.commits = @ + 1]
    /\ unpublished' = events
    /\ UNCHANGED bus

\* ... which go on the bus in order before the job is answered.
Publish ==
    /\ unpublished # <<>>
    /\ bus' = Append(bus, Head(unpublished))
    /\ unpublished' = Tail(unpublished)
    /\ UNCHANGED store

-----------------------------------------------------------------------------
(* The jobs.                                                                  *)

Post(c) ==
    Commit([store EXCEPT !.msgs = Append(@, [chan |-> c])], <<Ev("message", c)>>)

Join(c) ==
    /\ store.active /\ c \notin store.members
    /\ Commit([store EXCEPT !.members = @ \cup {c}], <<Ev("channel", c)>>)

Leave(c) ==
    /\ c \in store.members
    /\ Commit([store EXCEPT !.members = @ \ {c}], <<Ev("channel", c)>>)

\* "me" is revoked and leaves every channel; only the identity has an event.
Revoke ==
    /\ store.active
    /\ Commit([store EXCEPT !.active = FALSE, !.members = {}], <<Ev("identity", NoChannel)>>)

\* An escalation or an action of the reconciler.
PostNotice == Commit([store EXCEPT !.notices = @ + 1, !.heard = store.notices + 1],
                     <<Ev("notice", NoChannel)>>)

\* A task ends, and its card with it.  When "me" owns the card and the card is not where
\* the outcome would move it from (skipped), "me" gets a notice; the events are the same.
FinishWork(skipped) ==
    /\ ~store.workDone
    /\ Commit([store EXCEPT !.workDone = TRUE, !.cardMoved = ~skipped,
                             !.notices = IF skipped THEN @ + 1 ELSE @],
              <<Ev("work", NoChannel), Ev("card", NoChannel)>>)

\* A change that concerns nobody here.
Unrelated == Commit(store, <<Ev("other", NoChannel)>>)

ChannelChanges == Revoke \/ \E c \in Channels : Post(c) \/ Join(c) \/ Leave(c)
WorkChanges    == Revoke \/ PostNotice \/ \E skipped \in BOOLEAN : FinishWork(skipped)

BusInit ==
    /\ \E ms \in SUBSET Channels :
         store = [members |-> ms, active |-> TRUE, workDone |-> FALSE, cardMoved |-> FALSE, notices |-> 0,
                  heard |-> 0, msgs |-> <<>>, commits |-> 0]
    /\ unpublished = <<>> /\ bus = <<>>
=============================================================================
