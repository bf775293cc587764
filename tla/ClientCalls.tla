---------------------------- MODULE ClientCalls ----------------------------
(***************************************************************************)
(* The client's end of a connection: calls, one at a time, each under a        *)
(* deadline, and the subscription that turns the connection into a stream of   *)
(* events.  A frame is read in two parts, so a call that is dropped or times    *)
(* out may leave half of one behind.                                          *)
(***************************************************************************)
EXTENDS Integers, Sequences

CONSTANT MaxCalls   \* bound: requests and events on the wire

VARIABLES
    client,  \* next id, the broken flag, the call in flight and what it returned
    stream,  \* frames on the way to the client, and whether the first is half read
    pushed,  \* events the daemon sent
    early,   \* events kept while the subscription is answered
    seen     \* events `next` has returned

callVars == <<client, stream, pushed, early, seen>>

Answer(id) == [kind |-> "answer", id |-> id]
EventFrame(n) == [kind |-> "event", id |-> n]

\* `settle`: only an answer, or the daemon's refusal, ends an exchange cleanly.
Settle(ended) == ended # "answered"

\* A call is refused once the connection is broken; the flag is set before the exchange.
Call(kind) ==
    /\ client.flying = 0 /\ ~client.broken /\ client.role = "calls" /\ client.next <= MaxCalls
    /\ client' = [client EXCEPT !.flying = client.next, !.next = @ + 1, !.broken = TRUE,
                                !.role = IF kind = "subscribe" THEN "subscribing" ELSE @]
    /\ UNCHANGED <<stream, pushed, early, seen>>

\* Ends the exchange; a subscribe that fails consumes the client.
Ended(how) ==
    client' = [client EXCEPT !.flying = 0, !.broken = Settle(how),
                             !.role = IF @ # "subscribing" THEN @
                                      ELSE IF how = "answered" THEN "stream" ELSE "consumed"]

\* The daemon answers the call in flight (perhaps after the deadline), or pushes an event.
DaemonAnswers(id) ==
    /\ id < client.next /\ id \notin client.answered
    /\ client' = [client EXCEPT !.answered = @ \cup {id}]
    /\ stream' = [stream EXCEPT !.frames = Append(@, Answer(id))]
    /\ UNCHANGED <<pushed, early, seen>>

\* A subscription sends only once it is asked for.
DaemonPushes ==
    /\ client.role \in {"subscribing", "stream"} /\ Len(pushed) < MaxCalls
    /\ pushed' = Append(pushed, Len(pushed) + 1)
    /\ stream' = [stream EXCEPT !.frames = Append(@, EventFrame(Len(pushed) + 1))]
    /\ UNCHANGED <<client, early, seen>>

Reading == client.flying # 0 \/ client.role = "stream"

ReadHalf ==
    /\ Reading /\ stream.frames # <<>> /\ ~stream.half
    /\ stream' = [stream EXCEPT !.half = TRUE]
    /\ UNCHANGED <<client, pushed, early, seen>>

\* The rest of the first frame is here.
Rest(frame) == stream.half /\ frame = Head(stream.frames)
             /\ stream' = [frames |-> Tail(stream.frames), half |-> FALSE]

\* Faulty: events before the answer are passed over.
KeepEarlyNot(frame) == early
\* `exchange_subscribe` keeps the events that come before its answer; a call skips them.
KeepEarly(frame) ==
    IF frame.kind = "event" /\ client.role = "subscribing" THEN Append(early, frame.id) ELSE early

\* The answer with the call's own id ends it; other frames are passed over.
ReadInCall ==
    /\ client.flying # 0
    /\ \E frame \in {Head(stream.frames)} :
         /\ Rest(frame)
         /\ early' = KeepEarly(frame)
         /\ IF frame = Answer(client.flying) THEN Ended("answered") ELSE UNCHANGED client
    /\ UNCHANGED <<pushed, seen>>

\* The deadline passes, the caller drops the future, or the connection fails.
CallFails ==
    /\ client.flying # 0 /\ Ended("failed")
    /\ UNCHANGED <<stream, pushed, early, seen>>

\* `next`: the early events first, then the socket.
NextEarly ==
    /\ client.role = "stream" /\ early # <<>>
    /\ seen' = Append(seen, Head(early)) /\ early' = Tail(early)
    /\ UNCHANGED <<client, stream, pushed>>

NextRead ==
    /\ client.role = "stream" /\ early = <<>>
    /\ \E frame \in {Head(stream.frames)} :
         /\ Rest(frame)
         /\ seen' = IF frame.kind = "event" THEN Append(seen, frame.id) ELSE seen
    /\ UNCHANGED <<client, pushed, early>>

CallsNext ==
    \/ \E kind \in {"plain", "subscribe"} : Call(kind)
    \/ \E id \in 1..MaxCalls : DaemonAnswers(id)
    \/ DaemonPushes \/ ReadHalf \/ CallFails \/ NextEarly
    \/ (stream.frames # <<>> /\ ReadInCall) \/ (stream.frames # <<>> /\ NextRead)

CallsInit ==
    /\ client = [next |-> 1, broken |-> FALSE, flying |-> 0, role |-> "calls",
                 answered |-> {}]
    /\ stream = [frames |-> <<>>, half |-> FALSE] /\ pushed = <<>> /\ early = <<>> /\ seen = <<>>

CallsSpec == CallsInit /\ [][CallsNext]_callVars

-----------------------------------------------------------------------------
(* Properties.                                                                *)

\* A subscriber sees the daemon's events, all and in order, those sent before its answer
\* included (`subscribe`: "so none is lost"): what it was given or holds is what was sent
\* first, and the rest is on its way, once and in order.
NoEventIsPassedOver ==
    LET known  == seen \o early
        frames == stream.frames
        coming == {k \in DOMAIN frames : frames[k].kind = "event"}
    IN  client.role = "stream" =>
            /\ \A k \in DOMAIN known : k <= Len(pushed) /\ known[k] = pushed[k]
            /\ {frames[k].id : k \in coming} = Len(known) + 1..Len(pushed)
            /\ \A j, k \in coming : j < k => frames[j].id < frames[k].id
=============================================================================
