------------------------------- MODULE Bridge -------------------------------
(***************************************************************************)
(* `agora run-agent`: a bridge process beside the agent it launched.  The pump *)
(* offers the unread messages of the inbox as one batch; the driver of the      *)
(* harness turns it into a prompt and answers whether the agent took it; only    *)
(* then the cursor of the session moves.                                        *)
(*                                                                             *)
(* codex and copilot ("acp") are child processes spoken to in JSON-RPC lines:    *)
(* a reader routes each line to the request that waits for it or to a bounded    *)
(* channel.  opencode is a server with an event stream; agy is one process per   *)
(* delivery.  The agents themselves are external and answer as they like.        *)
(***************************************************************************)
EXTENDS Naturals, Sequences, FiniteSets

CONSTANTS Harnesses,  \* which of "codex", "acp", "opencode", "agy" are run
          MaxMail,    \* messages posted to the inbox
          MaxOffers,  \* deliveries made
          OfferCap,   \* REFUSAL_CAP
          NoteCap,    \* INCOMING_CAP
          MaxTurns,   \* turns the agent runs
          MaxNoise    \* requests of the agent and breaks of the stream

ASSUME BridgeAssumption ==
    /\ Harnesses \subseteq {"codex", "acp", "opencode", "agy"}
    /\ {MaxMail, MaxOffers, OfferCap, NoteCap, MaxTurns, MaxNoise} \subseteq Nat

VARIABLES bridge,  \* the bridge's tasks and its child
          inbox,   \* the inbox, the session cursor and the delivery on offer
          link,    \* the JSON-RPC connection, or the HTTP requests and events
          peer,    \* the agent's side
          reached  \* for each delivery, how often its text was put to the agent

bridgeVars == <<bridge, inbox, link, peer, reached>>

Quiet   == [id |-> 0, what |-> "none", turn |-> 0, offer |-> 0, got |-> "none"]
HasLink == bridge.harness \in {"codex", "acp"}
DriverLive(h) == bridge.harness = h /\ bridge.driver = "live" /\ ~bridge.stop
LastOf(S) == CHOOSE m \in S : \A n \in S : n <= m

BridgeInit ==
    /\ \E h \in Harnesses :
          bridge = [harness |-> h, stop |-> FALSE, driver |-> "setup", pump |-> "off", child |-> "none",
                    active |-> 0, prompt |-> "none", queued |-> 0, stream |-> "off", busy |-> FALSE]
    /\ inbox = [posted |-> 0, cursor |-> 0, offers |-> 0, batch |-> {}, at |-> "none", answer |-> "none",
               refusals |-> [upto |-> 0, count |-> 0], skipped |-> {}]
    /\ link = [open |-> TRUE, last |-> 0, call |-> Quiet, wire |-> <<>>, lines |-> <<>>, incoming |-> <<>>, noise |-> 0]
    /\ peer = [turn |-> 0, turns |-> 0, running |-> Quiet, waiting |-> <<>>, taken |-> {}]
    /\ reached = [o \in 0 .. MaxOffers |-> 0]

(***************************************************************************)
(* The pump.                                                                  *)
(***************************************************************************)
MailArrives ==
    /\ inbox.posted < MaxMail /\ inbox' = [inbox EXCEPT !.posted = @ + 1]
    /\ UNCHANGED <<bridge, link, peer, reached>>

PumpOffers ==
    /\ bridge.pump = "idle" /\ ~bridge.stop /\ bridge.driver = "live" /\ inbox.posted > inbox.cursor /\ inbox.offers < MaxOffers
    /\ bridge' = [bridge EXCEPT !.pump = "waiting"]
    /\ inbox' = [inbox EXCEPT !.offers = @ + 1, !.batch = (inbox.cursor + 1) .. inbox.posted, !.at = "channel", !.answer = "none"]
    /\ UNCHANGED <<link, peer, reached>>

RefusedTimes(upto) == IF inbox.refusals.upto = upto THEN inbox.refusals.count + 1 ELSE 1
CommitCursor(upto) == [inbox EXCEPT !.cursor = IF upto > @ THEN upto ELSE @, !.batch = {}, !.at = "none",
                             !.refusals = [upto |-> 0, count |-> 0]]
PumpHears ==
    /\ bridge.pump = "waiting" /\ ~bridge.stop /\ inbox.answer # "none"
    /\ bridge' = [bridge EXCEPT !.pump = "idle"]
    /\ LET upto == LastOf(inbox.batch)   n == RefusedTimes(upto)
       IN inbox' = CASE inbox.answer = "yes" -> CommitCursor(upto)
                    [] n >= OfferCap -> [CommitCursor(upto) EXCEPT !.skipped = @ \union inbox.batch]
                    [] OTHER -> [inbox EXCEPT !.batch = {}, !.at = "none", !.refusals = [upto |-> upto, count |-> n]]
    /\ UNCHANGED <<link, peer, reached>>

\* The pump ends when it is stopped, when the driver is gone, or when the cursor cannot be written.
PumpEnds ==
    /\ bridge.pump \in {"idle", "waiting"}
    /\ bridge.stop \/ (IF bridge.pump = "idle" THEN bridge.driver = "ended" ELSE inbox.answer # "none")
    /\ bridge' = [bridge EXCEPT !.pump = "ended"]
    /\ UNCHANGED <<inbox, link, peer, reached>>

(***************************************************************************)
(* What the driver answers, and what an answer that never comes counts as.     *)
(***************************************************************************)
Replied(accepted) == [inbox EXCEPT !.answer = IF accepted THEN "yes" ELSE "no", !.at = "answered"]
DroppedAsTaken == "yes"
Dropped == "no"
DropHeld == IF inbox.at \in {"channel", "held"} THEN [inbox EXCEPT !.answer = Dropped, !.at = "answered"] ELSE inbox
DriverEnds ==
    /\ bridge' = [bridge EXCEPT !.driver = "ended", !.active = 0, !.prompt = "none", !.queued = 0]
    /\ inbox' = DropHeld

\* The text of delivery o arrives where the agent works on it.
TextArrives(o) == reached' = [reached EXCEPT ![o] = IF o = 0 THEN 0 ELSE @ + 1]
Takes(o, a) == [a EXCEPT !.taken = IF o = inbox.offers THEN @ \union inbox.batch ELSE @]

(***************************************************************************)
(* Setup, stop and end of the process.                                        *)
(***************************************************************************)
Signal ==
    /\ ~bridge.stop /\ bridge' = [bridge EXCEPT !.stop = TRUE]
    /\ UNCHANGED <<inbox, link, peer, reached>>

\* One request on the JSON-RPC connection; a closed one fails it at once.
Ask(what, turn, o) ==
    LET c == [id |-> link.last + 1, what |-> what, turn |-> turn, offer |-> o, got |-> "none"]
    IN [link EXCEPT !.last = @ + 1, !.call = IF link.open THEN c ELSE [c EXCEPT !.got = "closed"],
                    !.wire = IF link.open THEN Append(@, c) ELSE @]

\* Whichever of driver and pump ends first stops the other.
StopOther ==
    /\ ~bridge.stop /\ "ended" \in {bridge.driver, bridge.pump} /\ bridge' = [bridge EXCEPT !.stop = TRUE]
    /\ UNCHANGED <<inbox, link, peer, reached>>

\* Handshake and session: the pump starts once the session is known.  The user may give a first prompt,
\* delivery 0, which nothing answers for.
Setup(h) == bridge.harness = h /\ bridge.driver = "setup" /\ ~bridge.stop /\ UNCHANGED inbox
BridgeUp == [bridge EXCEPT !.driver = "live", !.pump = "idle", !.child = IF HasLink THEN "running" ELSE "none"]
SetupFails ==
    /\ Setup(bridge.harness) /\ UNCHANGED <<link, peer, reached>>
    /\ bridge' = [BridgeUp EXCEPT !.driver = "ended", !.stop = TRUE, !.pump = "ended"]
CodexOpen ==
    /\ Setup("codex") /\ bridge' = BridgeUp /\ UNCHANGED <<peer, reached>>
    /\ \E first \in BOOLEAN : link' = IF first THEN Ask("start", 0, 0) ELSE link
AcpOpen ==
    /\ Setup("acp") /\ UNCHANGED <<peer, reached>>
    /\ \E first \in BOOLEAN :
          /\ bridge' = [BridgeUp EXCEPT !.prompt = IF first THEN "running" ELSE "none"]
          /\ link' = IF first THEN Ask("prompt", 0, 0) ELSE link
OpencodeOpen ==
    /\ Setup("opencode") /\ bridge' = BridgeUp /\ UNCHANGED <<link, reached>>
    /\ \E first \in BOOLEAN : peer' = IF first THEN [peer EXCEPT !.waiting = <<Quiet>>] ELSE peer
AgyOpen ==
    Setup("agy") /\ bridge' = BridgeUp /\ UNCHANGED <<link, peer, reached>>
StopInSetup ==
    /\ bridge.driver = "setup" /\ bridge.stop
    /\ bridge' = [bridge EXCEPT !.driver = "ended", !.pump = "ended", !.child = IF HasLink THEN "running" ELSE "none"]
    /\ UNCHANGED <<inbox, link, peer, reached>>

\* With both tasks ended the child's stdin is closed; it exits, or its process group is killed.
Reap(h) ==
    /\ bridge.harness = h /\ bridge.driver = "ended" /\ bridge.pump = "ended" /\ bridge.child = "running"
    /\ \/ bridge' = [bridge EXCEPT !.child = "exited"]
       \/ bridge' = [bridge EXCEPT !.child = "killed"]
    /\ link' = [link EXCEPT !.open = FALSE, !.wire = <<>>] /\ peer' = [peer EXCEPT !.turn = 0, !.running = Quiet]
    /\ UNCHANGED <<inbox, reached>>
CodexReap == Reap("codex")
AcpReap   == Reap("acp")

(***************************************************************************)
(* JSON-RPC.  `wire` is what the agent has not read, `lines` what the reader    *)
(* has not read, `incoming` the channel to the driver.                          *)
(***************************************************************************)
\* A response goes to its request or is ignored; a request waits for room, and holds up what is behind it;
\* a notification without room is dropped.
ReadLine ==
    /\ HasLink /\ link.lines # <<>>
    /\ LET l == Head(link.lines)   rest == [link EXCEPT !.lines = Tail(@)]
           room == Len(link.incoming) < NoteCap
       IN \/ /\ l.kind = "response"
             /\ link' = IF l.id = link.call.id /\ link.call.got = "none" THEN [rest EXCEPT !.call.got = l.got, !.call.turn = l.turn] ELSE rest
          \/ l.kind = "ask" /\ room /\ link' = [rest EXCEPT !.incoming = Append(@, l)]
          \/ l.kind \in {"started", "completed", "idle"} /\ link' = IF room THEN [rest EXCEPT !.incoming = Append(@, l)] ELSE rest
    /\ UNCHANGED <<bridge, inbox, peer, reached>>

CallTimesOut ==
    /\ link.call.id # 0 /\ link.call.got = "none" /\ link' = [link EXCEPT !.call.got = "timeout"]
    /\ UNCHANGED <<bridge, inbox, peer, reached>>

\* The agent exits or closes its side: what waits is failed, and the driver sees the channel end.
LinkCloses ==
    /\ HasLink /\ bridge.driver = "live" /\ link.open /\ link.lines = <<>>
    /\ link' = [link EXCEPT !.open = FALSE, !.wire = <<>>, !.call.got = IF link.call.id # 0 /\ @ = "none" THEN "closed" ELSE @]
    /\ peer' = [peer EXCEPT !.turn = 0, !.running = Quiet]
    /\ UNCHANGED <<bridge, inbox, reached>>
\* The ACP driver is gone; the task of its prompt still answers for what it carries.
PromptOutlives ==
    /\ bridge' = [bridge EXCEPT !.driver = "ended", !.queued = 0]
    /\ inbox' = IF bridge.prompt = "running" /\ bridge.queued = 0 /\ inbox.at = "held" THEN inbox ELSE DropHeld
ChannelEnds ==
    /\ HasLink /\ bridge.driver = "live" /\ ~link.open /\ link.incoming = <<>>
    /\ \/ bridge.harness = "codex" /\ link.call.id = 0 /\ DriverEnds
       \/ bridge.harness = "acp" /\ PromptOutlives
    /\ UNCHANGED <<link, peer, reached>>

Say(ls) == [link EXCEPT !.wire = Tail(@), !.lines = @ \o ls]
Line(kind, id, got, turn) == [kind |-> kind, id |-> id, got |-> got, turn |-> turn]

(***************************************************************************)
(* Codex: a delivery steers the running turn, or starts one.                   *)
(***************************************************************************)
CodexTakes ==
    /\ DriverLive("codex") /\ link.call.id = 0 /\ inbox.at = "channel"
    /\ inbox' = [inbox EXCEPT !.at = "held"]
    /\ link' = IF bridge.active # 0 THEN Ask("steer", bridge.active, inbox.offers) ELSE Ask("start", 0, inbox.offers)
    /\ UNCHANGED <<bridge, peer, reached>>

FallsBackAlways(got) == got \in {"error", "timeout"}
FallsBack(got) == got = "error"
CodexHears ==
    /\ bridge.harness = "codex" /\ bridge.driver = "live" /\ link.call.got # "none"
    /\ LET c == link.call
       IN \/ /\ c.what = "steer" /\ FallsBack(c.got)
             /\ bridge' = [bridge EXCEPT !.active = 0] /\ link' = Ask("start", 0, c.offer) /\ inbox' = inbox
          \/ /\ (c.what = "start" /\ (c.offer # 0 \/ c.got = "ok")) \/ (c.what = "steer" /\ ~FallsBack(c.got))
             /\ bridge' = [bridge EXCEPT !.active = IF c.what = "start" /\ c.got = "ok" THEN c.turn ELSE @]
             /\ link' = [link EXCEPT !.call = Quiet] /\ inbox' = IF c.offer = 0 THEN inbox ELSE Replied(c.got = "ok")
          \/ c.offer = 0 /\ c.got # "ok" /\ DriverEnds /\ link' = [link EXCEPT !.call = Quiet]
    /\ UNCHANGED <<peer, reached>>

\* Notifications and the agent's own requests are taken between deliveries.
CodexObserves ==
    /\ DriverLive("codex") /\ link.call.id = 0 /\ link.incoming # <<>> /\ Head(link.incoming).kind # "ask"
    /\ LET l == Head(link.incoming)
       IN bridge' = [bridge EXCEPT !.active = CASE l.kind = "started" -> l.turn
                                                [] l.kind = "completed" /\ l.turn = @ -> 0
                                                [] l.kind = "idle" -> 0
                                                [] OTHER -> @]
    /\ link' = [link EXCEPT !.incoming = Tail(@)]
    /\ UNCHANGED <<inbox, peer, reached>>
\* Every request is declined; an answer that cannot be written ends the driver.
CodexAnswers ==
    /\ DriverLive("codex") /\ link.call.id = 0 /\ link.incoming # <<>> /\ Head(link.incoming).kind = "ask"
    /\ IF link.open THEN UNCHANGED <<bridge, inbox>> ELSE DriverEnds
    /\ link' = [link EXCEPT !.incoming = Tail(@)]
    /\ UNCHANGED <<peer, reached>>
CodexStops ==
    /\ bridge.harness = "codex" /\ bridge.driver = "live" /\ bridge.stop /\ link.call.id = 0
    /\ DriverEnds /\ UNCHANGED <<link, peer, reached>>

\* The app-server: a steer of a turn that is over is an error; a start may be refused while a turn runs.
CodexServes ==
    /\ bridge.harness = "codex" /\ link.wire # <<>>
    /\ LET c == Head(link.wire)   t == peer.turns + 1
       IN \/ /\ c.what = "steer" /\ peer.turn = c.turn
             /\ peer' = Takes(c.offer, peer) /\ TextArrives(c.offer) /\ link' = Say(<<Line("response", c.id, "ok", c.turn)>>)
          \/ /\ IF c.what = "steer" THEN peer.turn # c.turn ELSE peer.turn # 0 \/ t > MaxTurns
             /\ link' = Say(<<Line("response", c.id, "error", 0)>>) /\ UNCHANGED <<peer, reached>>
          \/ /\ c.what = "start" /\ t <= MaxTurns
             /\ peer' = [Takes(c.offer, peer) EXCEPT !.turn = t, !.turns = t] /\ TextArrives(c.offer)
             /\ link' = Say(<<Line("response", c.id, "ok", t), Line("started", 0, "none", t)>>)
    /\ UNCHANGED <<bridge, inbox>>
CodexTurnEnds ==
    /\ bridge.harness = "codex" /\ peer.turn # 0 /\ peer' = [peer EXCEPT !.turn = 0]
    /\ link' = [link EXCEPT !.lines = @ \o <<Line("completed", 0, "none", peer.turn), Line("idle", 0, "none", 0)>>]
    /\ UNCHANGED <<bridge, inbox, reached>>
AgentAsks ==
    /\ HasLink /\ bridge.driver = "live" /\ link.open /\ link.noise < MaxNoise
    /\ link' = [link EXCEPT !.lines = Append(@, Line("ask", 0, "none", 0)), !.noise = @ + 1]
    /\ UNCHANGED <<bridge, inbox, peer, reached>>

(***************************************************************************)
(* ACP: one prompt at a time, answered when its turn ends.  `prompt` is         *)
(* "running", then "answered" until the driver has heard of it.                 *)
(***************************************************************************)
AcpTakes ==
    /\ DriverLive("acp") /\ inbox.at = "channel" /\ inbox' = [inbox EXCEPT !.at = "held"]
    /\ \/ bridge.prompt = "none" /\ bridge' = [bridge EXCEPT !.prompt = "running"] /\ link' = Ask("prompt", 0, inbox.offers)
       \/ bridge.prompt # "none" /\ bridge' = [bridge EXCEPT !.queued = inbox.offers] /\ link' = link
    /\ UNCHANGED <<peer, reached>>
\* The task of the prompt answers its deliveries, then reports to the driver.
AcpPromptEnds ==
    /\ bridge.harness = "acp" /\ bridge.prompt = "running" /\ link.call.got # "none"
    /\ bridge' = [bridge EXCEPT !.prompt = "answered"]
    /\ inbox' = IF link.call.offer = inbox.offers /\ inbox.at = "held" THEN Replied(link.call.got = "ok") ELSE inbox
    /\ link' = [link EXCEPT !.call = Quiet]
    /\ UNCHANGED <<peer, reached>>
AcpFinish ==
    /\ bridge.harness = "acp" /\ bridge.prompt = "answered" /\ bridge.driver = "live"
    /\ bridge' = [bridge EXCEPT !.prompt = IF bridge.queued = 0 THEN "none" ELSE "running", !.queued = 0]
    /\ link' = IF bridge.queued = 0 THEN link ELSE Ask("prompt", 0, bridge.queued)
    /\ UNCHANGED <<inbox, peer, reached>>
AcpAnswers ==
    /\ DriverLive("acp") /\ link.incoming # <<>> /\ link' = [link EXCEPT !.incoming = Tail(@)]
    /\ IF link.open THEN UNCHANGED <<bridge, inbox>> ELSE PromptOutlives
    /\ UNCHANGED <<peer, reached>>
\* session/cancel for the turn in flight; its task is aborted.
AcpStops ==
    /\ bridge.harness = "acp" /\ bridge.driver = "live" /\ bridge.stop
    /\ DriverEnds /\ link' = [link EXCEPT !.call = Quiet] /\ UNCHANGED <<peer, reached>>

\* The agent takes up a prompt, and answers when the turn is over: ended, cancelled or failed.
AcpServes ==
    /\ bridge.harness = "acp" /\ link.wire # <<>> /\ peer.running = Quiet
    /\ peer' = [peer EXCEPT !.running = Head(link.wire)] /\ TextArrives(Head(link.wire).offer)
    /\ link' = Say(<<>>)
    /\ UNCHANGED <<bridge, inbox>>
AcpTurnEnds(got) ==
    /\ bridge.harness = "acp" /\ peer.running # Quiet
    /\ peer' = [(IF got = "ok" THEN Takes(peer.running.offer, peer) ELSE peer) EXCEPT !.running = Quiet]
    /\ link' = [link EXCEPT !.lines = Append(@, Line("response", peer.running.id, got, 0))]
    /\ UNCHANGED <<bridge, inbox, reached>>

(***************************************************************************)
(* opencode: a delivery waits until the session is idle, as the event stream    *)
(* says; `incoming` holds the events the tracker has not read.                   *)
(***************************************************************************)
StreamEvent(b) == Append(link.incoming, Line(IF b THEN "busy" ELSE "idle", 0, "none", 0))
OpencodeTakes ==
    /\ DriverLive("opencode") /\ inbox.at = "channel" /\ inbox' = [inbox EXCEPT !.at = "held"]
    /\ UNCHANGED <<bridge, link, peer, reached>>
MarkNotBefore == bridge.busy
MarkBefore == TRUE
\* Idle, or busy for too long.
OpencodePosts ==
    /\ DriverLive("opencode") /\ inbox.at = "held" /\ link.call.id = 0
    /\ bridge' = [bridge EXCEPT !.busy = MarkBefore]
    /\ link' = [link EXCEPT !.last = @ + 1, !.call = [Quiet EXCEPT !.id = link.last + 1, !.what = "post", !.offer = inbox.offers],
                            !.wire = Append(@, [Quiet EXCEPT !.id = link.last + 1, !.what = "post", !.offer = inbox.offers])]
    /\ UNCHANGED <<inbox, peer, reached>>
OpencodeHears ==
    /\ bridge.harness = "opencode" /\ bridge.driver = "live" /\ link.call.got # "none"
    /\ bridge' = [bridge EXCEPT !.busy = IF link.call.got = "ok" THEN @ \/ ~MarkBefore ELSE FALSE]
    /\ inbox' = Replied(link.call.got = "ok") /\ link' = [link EXCEPT !.call = Quiet]
    /\ UNCHANGED <<peer, reached>>
OpencodeStops ==
    /\ bridge.harness = "opencode" /\ bridge.driver = "live" /\ bridge.stop /\ link.call.id = 0
    /\ DriverEnds /\ UNCHANGED <<link, peer, reached>>

\* The server queues a prompt behind the turn that runs, and says on the stream when a turn starts and ends.
OpencodeServes ==
    /\ bridge.harness = "opencode" /\ link.wire # <<>>
    /\ LET c == Head(link.wire)
           Answers(got) == [link EXCEPT !.wire = Tail(@), !.call.got = IF link.call.id = c.id /\ @ = "none" THEN got ELSE @]
       IN \/ /\ peer' = [Takes(c.offer, peer) EXCEPT !.waiting = Append(@, c)] /\ TextArrives(c.offer) /\ link' = Answers("ok")
          \/ link' = Answers("error") /\ UNCHANGED <<peer, reached>>
    /\ UNCHANGED <<bridge, inbox>>
OpencodeTurn ==
    /\ bridge.harness = "opencode"
    /\ \/ /\ peer.turn = 0 /\ peer.waiting # <<>>
          /\ peer' = [peer EXCEPT !.turn = 1, !.waiting = Tail(@)]
          /\ link' = [link EXCEPT !.incoming = IF bridge.stream # "off" THEN StreamEvent(TRUE) ELSE @]
       \/ /\ peer.turn = 1 /\ peer' = [peer EXCEPT !.turn = 0]
          /\ link' = [link EXCEPT !.incoming = IF bridge.stream # "off" THEN StreamEvent(FALSE) ELSE @]
    /\ UNCHANGED <<bridge, inbox, reached>>

\* The tracker: a stream that opens replays nothing, so the session is taken for idle.
ReadEvent ==
    /\ bridge.stream = "on" /\ link.incoming # <<>>
    /\ bridge' = [bridge EXCEPT !.busy = Head(link.incoming).kind = "busy"]
    /\ link' = [link EXCEPT !.incoming = Tail(@)]
    /\ UNCHANGED <<inbox, peer, reached>>
Track ==
    /\ DriverLive("opencode") /\ UNCHANGED <<inbox, peer, reached>>
    /\ \/ bridge.stream = "off" /\ bridge' = [bridge EXCEPT !.stream = "opening"] /\ link' = link
       \/ bridge.stream = "opening" /\ bridge' = [bridge EXCEPT !.stream = "on", !.busy = FALSE] /\ link' = link
       \/ /\ bridge.stream # "off" /\ link.noise < MaxNoise /\ bridge' = [bridge EXCEPT !.stream = "off"]
          /\ link' = [link EXCEPT !.incoming = <<>>, !.noise = @ + 1]

(***************************************************************************)
(* agy: one process per delivery.  A run that reaches its time is killed and    *)
(* counts as handed over; one cut short by the stop does not.                   *)
(***************************************************************************)
AgyRuns ==
    /\ DriverLive("agy") /\ inbox.at = "channel"
    /\ \/ /\ inbox' = [inbox EXCEPT !.at = "held"] /\ bridge' = [bridge EXCEPT !.child = "running"]
          /\ peer' = Takes(inbox.offers, peer) /\ TextArrives(inbox.offers)
       \/ /\ bridge' = [bridge EXCEPT !.driver = "ended"] /\ inbox' = Replied(FALSE) /\ UNCHANGED <<peer, reached>>
    /\ UNCHANGED link
AgyExits(how) ==
    /\ bridge.harness = "agy" /\ bridge.child = "running"
    /\ how = "stop" <=> bridge.stop
    /\ bridge' = [bridge EXCEPT !.child = IF how \in {"success", "failure"} THEN "exited" ELSE "killed"]
    /\ inbox' = Replied(how \in {"success", "timeout"})
    /\ UNCHANGED <<link, peer, reached>>
AgyStops ==
    /\ bridge.harness = "agy" /\ bridge.driver = "live" /\ bridge.stop /\ bridge.child # "running"
    /\ DriverEnds /\ UNCHANGED <<link, peer, reached>>

CodexStep    == CodexOpen \/ CodexTakes \/ CodexHears \/ CodexObserves \/ CodexAnswers \/ CodexStops \/ CodexServes \/ CodexTurnEnds \/ CodexReap
AcpStep      == \/ AcpOpen \/ AcpTakes \/ AcpPromptEnds \/ AcpFinish \/ AcpAnswers \/ AcpStops \/ AcpServes \/ AcpReap
                \/ \E got \in {"ok", "cancelled", "error"} : AcpTurnEnds(got)
OpencodeStep == \/ OpencodeOpen \/ OpencodeTakes \/ OpencodePosts \/ OpencodeHears \/ OpencodeStops \/ OpencodeServes
                \/ OpencodeTurn \/ ReadEvent \/ Track
AgyStep      == AgyOpen \/ AgyRuns \/ AgyStops \/ \E how \in {"success", "failure", "timeout", "stop"} : AgyExits(how)
LinkStep     == ReadLine \/ CallTimesOut \/ LinkCloses \/ ChannelEnds \/ AgentAsks
PumpMoves    == MailArrives \/ PumpOffers \/ PumpHears \/ PumpEnds \/ StopOther \/ Signal \/ StopInSetup \/ SetupFails
BridgeStep   == PumpMoves \/ LinkStep \/ CodexStep \/ AcpStep \/ OpencodeStep \/ AgyStep
BridgeSpec   == BridgeInit /\ [][BridgeStep]_bridgeVars

(***************************************************************************)
(* Properties.                                                                *)
(***************************************************************************)
\* The session cursor never passes a message that the agent did not take, however requests, turns and
\* the two tasks end, except one of a batch that was refused OfferCap times in a row.
OnlyTakenIsPassed == \A m \in 1 .. inbox.cursor : m \in peer.taken \/ m \in inbox.skipped

\* One delivery puts its text to the agent once: a steer whose fate is unknown is not followed by a new
\* turn with the same text.
OfferReachesOnce == \A o \in DOMAIN reached : reached[o] <= 1

\* The opencode session is not taken for busy when it is idle, all its events are read and no prompt
\* of the bridge is under way: a delivery would be held back with nothing left to release it.
IdleIsNotMissed ==
    /\ bridge.harness = "opencode" /\ bridge.driver = "live" /\ bridge.stream = "on" /\ link.incoming = <<>>
    /\ link.call.id = 0 /\ link.wire = <<>> /\ peer.turn = 0 /\ peer.waiting = <<>>
    => ~bridge.busy
=============================================================================
