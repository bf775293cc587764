----------------------------- MODULE Connection -----------------------------
(***************************************************************************)
(* One connection of the daemon: its handshake, a reader, a dispatcher with a  *)
(* window of permits, a task per request, one subscription, and a writer that  *)
(* sends replies before events.  The peer pipelines requests.                  *)
(***************************************************************************)
EXTENDS Integers, Sequences, FiniteSets

CONSTANTS
    Window,       \* max_inflight_per_conn (at least 1)
    MaxRequests   \* bound: frames the peer sends

ASSUME WindowAssumption == Window \in Nat \ {0} /\ MaxRequests \in Nat

VARIABLES
    peer,    \* what the peer has sent and seen
    slot,    \* the parsed request between reader and dispatcher
    tasks,   \* request tasks: stage by request id
    replies, \* the reply queue, at most Window
    events,  \* whether an event is queued for the writer
    sub,     \* the `subscribed` flag, and whether a forwarder runs
    conn     \* "accepted", "challenged", "open", "ending" or "closed"

connVars == <<peer, slot, tasks, replies, events, sub, conn>>

Ids    == 1..MaxRequests
Frames == {"plain", "subscribe", "malformed", "too large"}
NoRequest == [id |-> 0, kind |-> "none"]

\* A permit is held from dispatch until its reply is written.
Permits == Cardinality({i \in Ids : tasks[i] # "none"}) + Cardinality({k \in DOMAIN replies : replies[k].permit})
Room == Len(replies) < Window

-----------------------------------------------------------------------------
(* The handshake: every failure rejects the peer and closes.                    *)

OnlyConn(stage) == conn' = stage /\ UNCHANGED <<peer, slot, tasks, replies, events, sub>>

\* A peer of another user is closed at once; the others get a challenge.
Challenge(sameUser) == conn = "accepted" /\ OnlyConn(IF sameUser THEN "challenged" ELSE "closed")

\* Hellos: none before the peer closes, one over the limit, one that does not parse,
\* one that does not sign this challenge, and a good one, which is welcomed.
Hello(kind) == conn = "challenged" /\ OnlyConn(IF kind = "good" THEN "open" ELSE "closed")

\* The whole handshake shares one deadline.
HandshakeTimesOut == conn = "challenged" /\ OnlyConn("closed")

Hellos == {"none", "too large", "malformed", "unsigned", "good"}

-----------------------------------------------------------------------------
(* The peer.                                                                  *)

PeerSends(kind) ==
    /\ conn = "open" /\ peer.sent < MaxRequests
    /\ peer' = [peer EXCEPT !.sent = @ + 1, !.wire = Append(@, [id |-> peer.sent + 1, kind |-> kind])]
    /\ UNCHANGED <<slot, tasks, replies, events, sub, conn>>

\* It closes, a read fails or the daemon stops: the connection ends.
PeerCloses == conn = "open" /\ OnlyConn("ending")

-----------------------------------------------------------------------------
(* The reader: one request ahead of the window.                                *)

Took == peer' = [peer EXCEPT !.wire = Tail(@)]

ReadRequest ==
    /\ conn = "open" /\ peer.wire # <<>> /\ Head(peer.wire).kind \in {"plain", "subscribe"} /\ slot = NoRequest
    /\ slot' = Head(peer.wire) /\ Took
    /\ UNCHANGED <<tasks, replies, events, sub, conn>>

\* A malformed frame is answered here, without a permit.
AnswerMalformed ==
    /\ conn = "open" /\ peer.wire # <<>> /\ Head(peer.wire).kind = "malformed" /\ Room
    /\ replies' = Append(replies, [id |-> Head(peer.wire).id, what |-> "error", permit |-> FALSE])
    /\ Took /\ UNCHANGED <<slot, tasks, events, sub, conn>>

\* A frame over the limit cannot be skipped: it is answered with id 0 and the reader ends.
EndOnTooLarge ==
    /\ conn = "open" /\ peer.wire # <<>> /\ Head(peer.wire).kind = "too large" /\ Room
    /\ replies' = Append(replies, [id |-> 0, what |-> "error", permit |-> FALSE])
    /\ conn' = "ending" /\ Took /\ UNCHANGED <<slot, tasks, events, sub>>

-----------------------------------------------------------------------------
(* The dispatcher.                                                            *)

\* The `subscribed` flag lets one Subscribe in at a time.
Dispatch ==
    /\ conn = "open" /\ slot # NoRequest /\ Permits < Window
    /\ tasks' = [tasks EXCEPT ![slot.id] =
          IF slot.kind = "plain" THEN "running" ELSE IF sub.flag THEN "refuse" ELSE "subscribing"]
    /\ sub' = IF slot.kind = "subscribe" THEN [sub EXCEPT !.flag = TRUE] ELSE sub
    /\ slot' = NoRequest
    /\ UNCHANGED <<peer, replies, events, conn>>

\* Faulty: the answer of a handler that panicked is lost with it.
HandledUnlessPanic(i, outcome) == IF outcome = "panic" THEN "none" ELSE outcome
\* The handler runs in a task of its own: a panic is an error like any other.
Handled(i, outcome) == IF outcome = "panic" THEN "error" ELSE outcome

\* A handler ends; every wait in one is bounded.
HandlerEnds(i, outcome) ==
    /\ conn = "open" /\ tasks[i] = "running"
    /\ tasks' = [tasks EXCEPT ![i] = Handled(i, outcome)]
    /\ UNCHANGED <<peer, slot, replies, events, sub, conn>>

\* ... and cleared, before the error is queued, when it fails.
FlagAfter(ok) == IF ok THEN sub ELSE [sub EXCEPT !.flag = FALSE]

\* `push::subscribe` ends, well or not.
SubscribeEnds(i, ok) ==
    /\ conn = "open" /\ tasks[i] = "subscribing"
    /\ tasks' = [tasks EXCEPT ![i] = IF ok THEN "subscribed" ELSE "error"]
    /\ sub' = FlagAfter(ok)
    /\ UNCHANGED <<peer, slot, replies, events, conn>>

\* The reply is queued with its permit; a forwarder starts only after it.
QueueReply(i) ==
    /\ conn = "open" /\ tasks[i] \in {"ok", "error", "refuse", "subscribed"} /\ Room
    /\ replies' = Append(replies, [id |-> i, what |-> tasks[i], permit |-> TRUE])
    /\ tasks' = [tasks EXCEPT ![i] = "none"]
    /\ sub' = IF tasks[i] = "subscribed" THEN [sub EXCEPT !.forwards = TRUE] ELSE sub
    /\ UNCHANGED <<peer, slot, events, conn>>

Forward ==
    /\ conn = "open" /\ sub.forwards /\ ~events /\ events' = TRUE
    /\ UNCHANGED <<peer, slot, tasks, replies, sub, conn>>

-----------------------------------------------------------------------------
(* The writer.                                                                *)

\* A result that is too large is answered as an error in its place.
WriteReply ==
    /\ conn # "closed" /\ replies # <<>>
    /\ peer' = [peer EXCEPT !.answered = @ \cup {Head(replies).id}]
    /\ replies' = Tail(replies)
    /\ UNCHANGED <<slot, tasks, events, sub, conn>>

WriteEvent ==
    /\ conn # "closed" /\ replies = <<>> /\ events /\ events' = FALSE
    /\ UNCHANGED <<peer, slot, tasks, replies, sub, conn>>

\* A peer that stops reading: the write times out, and the connection with it.
WriteFails ==
    /\ conn # "closed" /\ (replies # <<>> \/ events)
    /\ replies' = <<>> /\ events' = FALSE /\ conn' = "ending"
    /\ UNCHANGED <<peer, slot, tasks, sub>>

\* The dispatcher leaves its loop: the request tasks stop, the writer flushes the queue.
EndConnection ==
    /\ conn = "ending" /\ replies = <<>>
    /\ conn' = "closed" /\ slot' = NoRequest /\ tasks' = [i \in Ids |-> "none"]
    /\ sub' = [sub EXCEPT !.forwards = FALSE] /\ events' = FALSE
    /\ UNCHANGED <<peer, replies>>

ServerStep ==
    \/ ReadRequest \/ AnswerMalformed \/ EndOnTooLarge \/ Dispatch \/ EndConnection
    \/ \E i \in Ids : \/ \E o \in {"ok", "error", "panic"} : HandlerEnds(i, o)
                      \/ \E ok \in BOOLEAN : SubscribeEnds(i, ok)
                      \/ QueueReply(i)

ConnNext ==
    \/ ServerStep \/ PeerCloses \/ Forward \/ WriteEvent \/ WriteFails \/ HandshakeTimesOut
    \/ (\E same \in BOOLEAN : Challenge(same)) \/ \E kind \in Hellos : Hello(kind)
    \/ WriteReply
    \/ \E kind \in Frames : PeerSends(kind)

ConnInit ==
    /\ peer = [sent |-> 0, wire |-> <<>>, answered |-> {}]
    /\ slot = NoRequest /\ tasks = [i \in Ids |-> "none"] /\ replies = <<>> /\ events = FALSE
    /\ sub = [flag |-> FALSE, forwards |-> FALSE] /\ conn = "accepted"

\* The runtime runs the server's tasks, and a write ends one way or another.
ConnFairness ==
    /\ WF_connVars(ServerStep)
    /\ WF_connVars(WriteReply \/ WriteEvent \/ WriteFails)

-----------------------------------------------------------------------------
(* Properties.                                                                *)

\* Every frame the peer sends is answered, or the connection ends: no request waits for
\* ever behind the window, the reply queue or a handler that failed (`serve_conn`).
EveryRequestEnds == \A i \in Ids : (peer.sent >= i) ~> (i \in peer.answered \/ conn = "closed")
=============================================================================
