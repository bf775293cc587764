-------------------------------- MODULE Push --------------------------------
(***************************************************************************)
(* The event push of a subscribed connection: which bus events the forwarder   *)
(* passes on, what it does when the connection is slow, and the client at the  *)
(* other end, which reads its inbox again whenever a frame arrives.            *)
(***************************************************************************)
EXTENDS EventBus

CONSTANT EventQueue   \* EVENT_QUEUE

VARIABLES push, online

pushVars == <<push, online>>

Every    == {}   \* the empty list of a request
Marker   == [kind |-> "lagged", on |-> NoChannel]
NoEvent  == [kind |-> "none", on |-> NoChannel]

\* `members` is the membership as of the last refresh, `event` the one a refresh was
\* needed for, `dropped` whether events are owed, `out` the queue to the connection's
\* writer; the client is `due` to read its inbox, and has `read` these messages.
NoPush == [stage |-> "off", pos |-> 0, explicit |-> Every, members |-> {}, event |-> NoEvent,
           dropped |-> FALSE, out |-> <<>>, due |-> FALSE, read |-> {}]

ReadableBy(s) == {i \in DOMAIN s.msgs : s.msgs[i].chan \in s.members}

-----------------------------------------------------------------------------
(* The filter.                                                                *)

Listed(c)   == push.explicit = Every \/ c \in push.explicit
Effective(members) == {c \in members : Listed(c)}
NeedsRefresh(e) == e.kind \in {"channel", "identity"}

\* `wants`, with the membership before the refresh and after it.
Wants(e, after) ==
    \/ e.kind = "message" /\ e.on \in Effective(push.members)
    \/ e.kind = "channel" /\ e.on \in Effective(push.members) \cup Effective(after)
    \/ e.kind = "identity"

-----------------------------------------------------------------------------
(* The queue to the connection.                                                *)

Full == Len(push.out) >= EventQueue

\* `offer`: never blocks; the marker that is owed goes first, what does not fit is owed.
Offer(p, e) ==
    CASE Full                         -> [p EXCEPT !.dropped = TRUE]
      [] ~Full /\ ~p.dropped          -> [p EXCEPT !.out = Append(@, e)]
      [] ~Full /\ p.dropped /\ Len(p.out) + 1 < EventQueue
                                      -> [p EXCEPT !.out = @ \o <<Marker, e>>, !.dropped = FALSE]
      [] OTHER                        -> [p EXCEPT !.out = Append(@, Marker), !.dropped = TRUE]

-----------------------------------------------------------------------------
(* The forwarder.                                                             *)

\* `subscribe`: the receiver first ...
SubscribePush(explicit) ==
    /\ push.stage = "off"
    /\ push' = [push EXCEPT !.stage = "reading", !.pos = Subscription, !.explicit = explicit]
    /\ UNCHANGED online

\* ... then the membership; then the identity is online and the reply is queued.
ReadMembership ==
    /\ push.stage = "reading"
    /\ IF store.active /\ push.explicit \subseteq store.members
         THEN /\ push' = [push EXCEPT !.stage = "on", !.members = store.members, !.due = TRUE]
              /\ online' = TRUE
         ELSE push' = [push EXCEPT !.stage = "ended"] /\ UNCHANGED online

\* The marker goes out as soon as there is room, even with no event to carry it.
PayMarker ==
    /\ push.stage = "on" /\ push.dropped /\ ~Full
    /\ push' = [push EXCEPT !.out = Append(@, Marker), !.dropped = FALSE]
    /\ UNCHANGED online

\* Faulty: events lost on the bus are not owed.
TakeLagOwesNothing == [push EXCEPT !.pos = Oldest, !.stage = "refresh", !.event = NoEvent]
\* Events lost on the bus are owed; a change of membership may be among them.
TakeLag == [push EXCEPT !.pos = Oldest, !.dropped = TRUE, !.stage = "refresh", !.event = NoEvent]

\* The select is biased: the marker goes before the next event.
TakeEvent ==
    /\ push.stage = "on" /\ ~(push.dropped /\ ~Full) /\ Waiting(push.pos)
    /\ LET e == NextEvent(push.pos)
           taken == [push EXCEPT !.pos = @ + 1] IN
       push' = IF Lagged(push.pos) THEN TakeLag
               ELSE IF NeedsRefresh(e) THEN [taken EXCEPT !.stage = "refresh", !.event = e]
               ELSE IF Wants(e, {}) THEN Offer(taken, e)
               ELSE taken
    /\ UNCHANGED online

\* `refresh` reads the membership of now, not of the event.  A revoked identity cannot be
\* read: nothing is forwarded from then on, and its own revocation ends the subscription.
Refresh ==
    /\ push.stage = "refresh"
    /\ LET after == IF store.active THEN store.members ELSE {}
           told  == IF push.event # NoEvent /\ Wants(push.event, after)
                      THEN Offer(push, push.event) ELSE push
           end   == ~store.active /\ push.event.kind = "identity"
       IN /\ push' = [told EXCEPT !.members = after, !.event = NoEvent,
                                  !.stage = IF end THEN "ended" ELSE "on"]
          /\ online' = (online /\ ~end)

\* The connection or the daemon ends: the presence guard is dropped.
EndPush ==
    /\ push.stage \in {"on", "refresh"}
    /\ push' = [push EXCEPT !.stage = "ended"] /\ online' = FALSE

\* The connection writes a frame, and the client reads its inbox.
ClientTakes ==
    /\ push.stage # "off" /\ push.out # <<>>
    /\ push' = [push EXCEPT !.out = Tail(@), !.due = TRUE]
    /\ UNCHANGED online
ClientReads ==
    /\ push.due
    /\ push' = [push EXCEPT !.due = FALSE, !.read = @ \cup ReadableBy(store)]
    /\ UNCHANGED online

PushStep ==
    \/ ReadMembership \/ PayMarker \/ TakeEvent \/ Refresh \/ EndPush \/ ClientTakes \/ ClientReads
    \/ \E explicit \in {Every} \cup {{c} : c \in Channels} : SubscribePush(explicit)

PushInit == push = NoPush /\ online = FALSE

-----------------------------------------------------------------------------
(* Properties.                                                                *)

\* When nothing is under way, a subscribed client has read every message of the channels
\* it asked for: events it was too slow for, or that the bus dropped, were made up for by
\* the marker (`Forwarder::run`, `offer`).
QuiescentClientIsCurrent ==
    (push.stage = "on" /\ unpublished = <<>> /\ ~Waiting(push.pos) /\ push.out = <<>>
       /\ ~push.dropped /\ ~push.due)
    => {i \in ReadableBy(store) : Listed(store.msgs[i].chan)} \subseteq push.read

=============================================================================
