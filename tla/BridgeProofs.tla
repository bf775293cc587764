---------------------------- MODULE BridgeProofs ----------------------------
(***************************************************************************)
(* Proofs about `agora run-agent`: what the cursor of a bridged session may    *)
(* pass, how often a text reaches the agent, and what the session tracker      *)
(* knows; for any harness, any mail and any number of deliveries and turns.    *)
(* And about the MCP tools: what a call leaves that is made again and again.    *)
(***************************************************************************)
EXTENDS Bridge, Tools, WellFoundedInduction, TLAPS

-----------------------------------------------------------------------------
(* Types and the invariant.                                                    *)

Offers    == 0 .. MaxOffers
CallRow   == [id : Nat, what : {"none", "start", "steer", "prompt", "post"}, turn : Nat, offer : Offers,
              got : {"none", "ok", "error", "cancelled", "timeout", "closed"}]
LineRow   == [kind : {"response", "ask", "started", "completed", "idle", "busy"}, id : Nat,
              got : {"none", "ok", "error", "cancelled"}, turn : Nat]
BridgeRow == [harness : {"codex", "acp", "opencode", "agy"}, stop : BOOLEAN, driver : {"setup", "live", "ended"},
              pump : {"off", "idle", "waiting", "ended"}, child : {"none", "running", "exited", "killed"}, active : Nat,
              prompt : {"none", "running", "answered"}, queued : Offers, stream : {"off", "opening", "on"}, busy : BOOLEAN]
InboxRow  == [posted : Nat, cursor : Nat, offers : Offers, batch : SUBSET Nat, at : {"none", "channel", "held", "answered"},
              answer : {"none", "yes", "no"}, refusals : [upto : Nat, count : Nat], skipped : SUBSET Nat]
WireRow   == [open : BOOLEAN, last : Nat, call : CallRow, wire : Seq(CallRow), lines : Seq(LineRow),
              incoming : Seq(LineRow), noise : Nat]
PeerRow   == [turn : Nat, turns : Nat, running : CallRow, waiting : Seq(CallRow), taken : SUBSET Nat]

BridgeTypes ==
    /\ bridge \in BridgeRow /\ inbox \in InboxRow /\ link \in WireRow /\ peer \in PeerRow
    /\ reached \in [Offers -> Nat]

Sent == {link.wire[i] : i \in DOMAIN link.wire}
Said == {link.lines[i] : i \in DOMAIN link.lines}

\* The text of a delivery has not been put to the agent and is not on its way.
Fresh(o) == o # 0 => reached[o] = 0 /\ \A w \in Sent : w.offer # o
\* The agent has taken the batch on offer.
HandedOver == inbox.batch \subseteq peer.taken

\* Ids grow; what is on its way under the id of the request that waits is that request.
IdsGrow ==
    /\ link.call.id <= link.last /\ peer.running.id <= link.last
    /\ link.call.id = 0 => link.call.offer = 0 /\ link.call.got = "none"
    /\ peer.running.id = 0 => peer.running = Quiet
    /\ \A w \in Sent : w.id # 0 /\ w.id <= link.last
    /\ \A l \in Said : l.id <= link.last /\ (l.kind = "response" => l.id # 0)
    /\ \A w \in Sent : w.id = link.call.id => w.offer = link.call.offer
    /\ peer.running.id = link.call.id => peer.running.offer = link.call.offer

\* How far the delivery on offer has come.
OfferStages ==
    /\ inbox.at \in {"channel", "held"} => inbox.answer = "none" /\ bridge.pump \in {"waiting", "ended"}
    /\ inbox.at # "none" => inbox.offers # 0
    /\ bridge.driver = "setup" => inbox.at = "none" /\ link.call.id = 0 /\ bridge.queued = 0
    /\ link.call.offer <= inbox.offers /\ bridge.queued <= inbox.offers
    /\ bridge.harness \in {"codex", "opencode"} /\ link.call.offer # 0 => link.call.offer = inbox.offers /\ inbox.at = "held"
    /\ bridge.harness = "opencode" /\ link.call.id # 0 => link.call.offer # 0
    /\ bridge.prompt = "none" \/ bridge.harness # "acp" => bridge.queued = 0
    /\ bridge.queued # 0 /\ inbox.at = "channel" => bridge.queued # inbox.offers

\* One text per delivery is on its way, and none of a delivery that is still to be put to the agent.
OneTextEach ==
    /\ \A w \in Sent : w.offer # 0 => reached[w.offer] = 0
    /\ \A i, j \in DOMAIN link.wire : i < j => link.wire[i].offer = 0 \/ link.wire[i].offer # link.wire[j].offer
FreshTexts ==
    /\ \A o \in Offers : o > inbox.offers => Fresh(o)
    /\ inbox.at = "channel" => Fresh(inbox.offers)
    /\ bridge.harness = "opencode" /\ inbox.at = "held" /\ link.call.id = 0 => Fresh(inbox.offers)
    /\ Fresh(bridge.queued)
    /\ bridge.harness = "codex" /\ link.call.got = "error" => Fresh(link.call.offer)
    /\ \A l \in Said : l.kind = "response" /\ l.id = link.call.id /\ l.got = "error" /\ bridge.harness = "codex"
                       => Fresh(link.call.offer)

\* Who says yes, or is about to, says it of a batch that the agent has taken.
OnOffer(o) == o # 0 /\ o = inbox.offers
TakenTexts ==
    /\ inbox.answer = "yes" => HandedOver
    /\ link.call.got = "ok" /\ OnOffer(link.call.offer) => HandedOver
    /\ \A l \in Said : l.kind = "response" /\ l.id = link.call.id /\ l.got = "ok" /\ OnOffer(link.call.offer) => HandedOver
    /\ bridge.harness = "agy" /\ bridge.child = "running" => inbox.at = "held" /\ HandedOver

\* The batch on offer is what comes next.
BatchIsNext == bridge.pump = "waiting" => \E k \in Nat : k > inbox.cursor /\ inbox.batch = (inbox.cursor + 1) .. k

BatchInv ==
    IdsGrow /\ OfferStages /\ OneTextEach /\ FreshTexts /\ TakenTexts /\ BatchIsNext /\ OfferReachesOnce /\ OnlyTakenIsPassed

\* What the session tracker has still to read says whether the session is busy, or a prompt is under way.
EventsTell ==
    bridge.harness = "opencode" =>
       /\ bridge.stream = "off" => link.incoming = <<>>
       /\ link.incoming # <<>> /\ link.incoming[Len(link.incoming)].kind = "busy" => peer.turn = 1
       /\ bridge.stream = "on" /\ link.incoming = <<>> /\ bridge.busy =>
            peer.turn = 1 \/ peer.waiting # <<>> \/ (link.call.id # 0 /\ link.call.got # "ok")

-----------------------------------------------------------------------------
(* Sequences.                                                                  *)

LEMMA TailFacts ==
    ASSUME NEW S, NEW s \in Seq(S), s # <<>>
    PROVE  /\ Head(s) \in S /\ 1 \in DOMAIN s /\ Head(s) = s[1] /\ Tail(s) \in Seq(S)
           /\ \A i \in DOMAIN Tail(s) : i + 1 \in DOMAIN s /\ 1 < i + 1 /\ Tail(s)[i] = s[i + 1]
           /\ \A i, j \in DOMAIN Tail(s) : i < j => i + 1 < j + 1
OBVIOUS

LEMMA LastOfTail ==
    ASSUME NEW S, NEW s \in Seq(S), s # <<>>
    PROVE  /\ Tail(s) # <<>> => Tail(s)[Len(Tail(s))] = s[Len(s)]
           /\ Tail(s) = <<>> => Head(s) = s[Len(s)]
<1>1. Len(s) \in Nat /\ Len(s) > 0 /\ Tail(s) \in Seq(S) /\ Len(Tail(s)) = Len(s) - 1 /\ Head(s) = s[1]
  OBVIOUS
<1>2. Tail(s) = <<>> => Len(s) = 1
  <2>1. Len(<<>>) = 0
    OBVIOUS
  <2>2. Tail(s) = <<>> => Len(Tail(s)) = 0
    BY <2>1, Zenon
  <2> QED BY <1>1, <2>2
<1>3. Tail(s) # <<>> => Len(Tail(s)) > 0
  BY <1>1
<1>4. \A i \in 1 .. Len(Tail(s)) : Tail(s)[i] = s[i + 1]
  OBVIOUS
<1> QED BY <1>1, <1>2, <1>3, <1>4

LEMMA AppendFacts ==
    ASSUME NEW S, NEW s \in Seq(S), NEW x \in S
    PROVE  /\ Append(s, x) \in Seq(S) /\ Append(s, x) # <<>> /\ Append(s, x)[Len(Append(s, x))] = x
           /\ \A i \in DOMAIN Append(s, x) : (i \in DOMAIN s /\ Append(s, x)[i] = s[i]) \/ (i = Len(s) + 1 /\ Append(s, x)[i] = x)
           /\ \A i, j \in DOMAIN Append(s, x) : i < j => i \in DOMAIN s
OBVIOUS

LEMMA ConcatFacts ==
    ASSUME NEW S, NEW s \in Seq(S), NEW t \in Seq(S)
    PROVE  /\ s \o t \in Seq(S)
           /\ \A i \in DOMAIN (s \o t) : (i \in DOMAIN s /\ (s \o t)[i] = s[i]) \/ (\E j \in DOMAIN t : (s \o t)[i] = t[j])
<1>1. s \o t \in Seq(S)
  OBVIOUS
<1>2. ASSUME NEW i \in DOMAIN (s \o t)
      PROVE  (i \in DOMAIN s /\ (s \o t)[i] = s[i]) \/ (\E j \in DOMAIN t : (s \o t)[i] = t[j])
  <2>1. CASE i <= Len(s)
    BY <2>1
  <2>2. CASE i > Len(s)
    <3>1. i - Len(s) \in DOMAIN t /\ (s \o t)[i] = t[i - Len(s)]
      BY <2>2
    <3> QED BY <3>1
  <2> QED BY <2>1, <2>2
<1> QED BY <1>1, <1>2

-----------------------------------------------------------------------------
(* What a step may do to a delivery, and that it keeps the invariant.          *)

LEMMA TypedFields ==
    ASSUME BridgeTypes
    PROVE  /\ link.last \in Nat /\ link.call \in CallRow /\ link.wire \in Seq(CallRow) /\ link.lines \in Seq(LineRow)
           /\ link.incoming \in Seq(LineRow) /\ link.noise \in Nat /\ link.open \in BOOLEAN
           /\ link.call.id \in Nat /\ link.call.offer \in Offers /\ link.call.offer \in Nat
           /\ inbox.offers \in Offers /\ inbox.offers \in Nat /\ inbox.batch \in SUBSET Nat /\ inbox.cursor \in Nat /\ inbox.posted \in Nat
           /\ bridge.queued \in Offers /\ bridge.queued \in Nat
           /\ peer.running \in CallRow /\ peer.running.id \in Nat /\ peer.running.offer \in Offers
           /\ peer.waiting \in Seq(CallRow) /\ peer.taken \in SUBSET Nat /\ peer.turn \in Nat /\ peer.turns \in Nat
           /\ \A w \in Sent : w \in CallRow /\ w.id \in Nat /\ w.offer \in Offers
           /\ \A l \in Said : l \in LineRow /\ l.id \in Nat
<1>1. /\ link.last \in Nat /\ link.call \in CallRow /\ link.wire \in Seq(CallRow) /\ link.lines \in Seq(LineRow)
      /\ link.incoming \in Seq(LineRow) /\ link.noise \in Nat /\ link.open \in BOOLEAN
  BY DEF BridgeTypes, WireRow
<1>2. /\ inbox.offers \in Offers /\ inbox.batch \in SUBSET Nat /\ inbox.cursor \in Nat /\ inbox.posted \in Nat /\ bridge.queued \in Offers
      /\ peer.running \in CallRow /\ peer.waiting \in Seq(CallRow) /\ peer.taken \in SUBSET Nat /\ peer.turn \in Nat /\ peer.turns \in Nat
  BY DEF BridgeTypes, InboxRow, BridgeRow, PeerRow
<1>3. \A w \in Sent : w \in CallRow
  BY <1>1 DEF Sent
<1>4. \A l \in Said : l \in LineRow
  BY <1>1 DEF Said
<1>5. \A c \in CallRow : c.id \in Nat /\ c.offer \in Offers
  BY DEF CallRow
<1>6. \A l \in LineRow : l.id \in Nat
  BY DEF LineRow
<1>7. \A o \in Offers : o \in Nat
  BY BridgeAssumption DEF Offers
<1> QED BY <1>1, <1>2, <1>3, <1>4, <1>5, <1>6, <1>7

\* The tasks go on, or end.
TasksMove ==
    /\ bridge'.harness = bridge.harness /\ (bridge'.driver = "setup" => bridge.driver = "setup")
    /\ bridge'.queued \in {bridge.queued, 0} /\ (bridge'.prompt = "none" => bridge'.queued = 0)
    /\ bridge'.pump \in {bridge.pump, "ended"} \/ (bridge.driver = "setup" /\ bridge'.pump \in {"idle", "ended"})
    /\ bridge.harness = "agy" /\ bridge'.child = "running" => bridge.child = "running"
InboxStays ==
    /\ inbox'.offers = inbox.offers /\ inbox'.batch = inbox.batch /\ inbox'.cursor = inbox.cursor
    /\ inbox'.skipped = inbox.skipped /\ inbox'.at = inbox.at /\ inbox'.answer = inbox.answer
\* Lines are read, or added that answer nothing.
NoNewAnswer == \A l \in Said' : l \in Said \/ (l.kind # "response" /\ l.id = 0)
PeerStays == peer'.running \in {peer.running, Quiet} /\ peer'.taken = peer.taken /\ reached' = reached

\* The request that waits stays, or its fate becomes known.
CallStays ==
    /\ link'.last = link.last /\ link'.call.id = link.call.id /\ link'.call.offer = link.call.offer
    /\ link'.wire \in {link.wire, <<>>} /\ NoNewAnswer
    /\ \/ link'.call.got = link.call.got
       \/ link.call.id # 0 /\ link'.call.got \in {"timeout", "closed"}
       \/ \E l \in Said : l.kind = "response" /\ l.id = link.call.id /\ link'.call.got = l.got

LEMMA FreshStays ==
    ASSUME reached' = reached, Sent' \subseteq Sent PROVE \A o : Fresh(o) => Fresh(o)'
BY DEF Fresh

LEMMA WireStays ==
    ASSUME BridgeTypes, link'.wire \in {link.wire, <<>>}
    PROVE  /\ Sent' \subseteq Sent
           /\ \A i \in DOMAIN link'.wire : i \in DOMAIN link.wire /\ link'.wire[i] = link.wire[i]
<1>1. CASE link'.wire = link.wire
  BY <1>1 DEF Sent
<1>2. CASE link'.wire = <<>>
  BY <1>2 DEF Sent
<1> QED BY <1>1, <1>2

LEMMA CallStaysKeeps ==
    ASSUME BridgeTypes, BatchInv, TasksMove, InboxStays, CallStays, PeerStays
    PROVE  BatchInv'
<1>1. /\ IdsGrow /\ OfferStages /\ OneTextEach /\ FreshTexts /\ TakenTexts /\ BatchIsNext
      /\ OfferReachesOnce /\ OnlyTakenIsPassed
  BY DEF BatchInv
<1>2. /\ Sent' \subseteq Sent
      /\ \A i \in DOMAIN link'.wire : i \in DOMAIN link.wire /\ link'.wire[i] = link.wire[i]
  BY WireStays DEF CallStays
<1>3. \A o : Fresh(o) => Fresh(o)'
  BY <1>2, FreshStays DEF PeerStays
<1>4. HandedOver' <=> HandedOver
  BY DEF HandedOver, InboxStays, PeerStays
<1>t. link.last \in Nat /\ inbox.offers \in Nat /\ link.call.offer \in Nat /\ bridge.queued \in Nat
  BY TypedFields
<1>5. IdsGrow'
  <2>0. Quiet.id = 0 /\ 0 <= link.last
    BY <1>t DEF Quiet
  <2>1. link'.call.id <= link'.last /\ peer'.running.id <= link'.last /\ (peer'.running.id = 0 => peer'.running = Quiet)
    BY <1>1, <2>0 DEF IdsGrow, CallStays, PeerStays
  <2>2. link'.call.id = 0 => link'.call.offer = 0 /\ link'.call.got = "none"
    BY <1>1 DEF IdsGrow, CallStays
  <2>3. \A w \in Sent' : w.id # 0 /\ w.id <= link'.last /\ (w.id = link'.call.id => w.offer = link'.call.offer)
    BY <1>1, <1>2 DEF IdsGrow, CallStays
  <2>4. \A l \in Said' : l.id <= link'.last /\ (l.kind = "response" => l.id # 0)
    BY <1>1, <2>0 DEF IdsGrow, CallStays, NoNewAnswer
  <2>5. peer'.running.id = link'.call.id => peer'.running.offer = link'.call.offer
    BY <1>1 DEF IdsGrow, CallStays, PeerStays, Quiet
  <2> QED BY <2>1, <2>2, <2>3, <2>4, <2>5 DEF IdsGrow
<1>6. OfferStages'
  <2>1. bridge'.queued <= inbox'.offers /\ link'.call.offer <= inbox'.offers
    BY <1>1, <1>t DEF OfferStages, TasksMove, InboxStays, CallStays
  <2> QED BY <1>1, <2>1 DEF OfferStages, TasksMove, InboxStays, CallStays
<1>7. OneTextEach'
  BY <1>1, <1>2 DEF OneTextEach, PeerStays
<1>8. FreshTexts'
  <2>1. \A o \in Offers : o > inbox'.offers => Fresh(o)'
    BY <1>1, <1>3 DEF FreshTexts, InboxStays
  <2>2. /\ inbox'.at = "channel" => Fresh(inbox.offers)'
        /\ bridge'.harness = "opencode" /\ inbox'.at = "held" /\ link'.call.id = 0 => Fresh(inbox.offers)'
    BY <1>1, <1>3 DEF FreshTexts, InboxStays, CallStays, TasksMove, Fresh
  <2>3. Fresh(bridge.queued)'
    <3>1. Fresh(bridge'.queued)
      BY <1>1 DEF FreshTexts, TasksMove, Fresh
    <3> QED BY <3>1, <1>3 DEF Fresh
  <2>4. ASSUME bridge'.harness = "codex", link'.call.got = "error" PROVE Fresh(link.call.offer)'
    <3>1. Fresh(link.call.offer)
      BY <1>1, <2>4 DEF FreshTexts, CallStays, TasksMove
    <3> QED BY <1>3, <3>1 DEF CallStays, Fresh
  <2>5. ASSUME NEW l \in Said', l.kind = "response", l.id = link'.call.id, l.got = "error", bridge'.harness = "codex"
        PROVE  Fresh(link.call.offer)'
    <3>1. Fresh(link.call.offer)
      BY <1>1, <2>5 DEF FreshTexts, CallStays, TasksMove, NoNewAnswer
    <3> QED BY <1>3, <3>1 DEF CallStays, Fresh
  <2> QED BY <2>1, <2>2, <2>3, <2>4, <2>5 DEF FreshTexts
<1>9. TakenTexts'
  <2>1. inbox'.answer = "yes" => HandedOver'
    BY <1>1, <1>4 DEF TakenTexts, InboxStays
  <2>2. link'.call.got = "ok" /\ OnOffer(link.call.offer) => HandedOver
    BY <1>1 DEF TakenTexts, CallStays
  <2>3. ASSUME NEW l \in Said', l.kind = "response", l.id = link'.call.id, l.got = "ok", OnOffer(link.call.offer) PROVE HandedOver
    BY <1>1, <2>3 DEF TakenTexts, CallStays, NoNewAnswer
  <2>4. OnOffer(link.call.offer)' <=> OnOffer(link.call.offer)
    BY DEF OnOffer, InboxStays, CallStays
  <2>5. bridge'.harness = "agy" /\ bridge'.child = "running" => inbox'.at = "held" /\ HandedOver'
    BY <1>1, <1>4 DEF TakenTexts, InboxStays, TasksMove
  <2> QED BY <1>4, <2>1, <2>2, <2>3, <2>4, <2>5 DEF TakenTexts
<1>10. BatchIsNext' /\ OfferReachesOnce' /\ OnlyTakenIsPassed'
  BY <1>1 DEF BatchIsNext, OfferReachesOnce, OnlyTakenIsPassed, TasksMove, InboxStays, PeerStays
<1> QED BY <1>5, <1>6, <1>7, <1>8, <1>9, <1>10 DEF BatchInv

\* A new request is written to the agent, with the text of delivery o, or fails on a closed connection.
Asked(o) ==
    /\ link'.last = link.last + 1 /\ link'.call.id = link.last + 1 /\ link'.call.offer = o
    /\ link'.call.got \in {"none", "closed"} /\ link'.lines = link.lines
    /\ \/ link'.wire = link.wire
       \/ \E c \in CallRow : c.id = link.last + 1 /\ c.offer = o /\ link'.wire = Append(link.wire, c)
AskedAt(o) ==
    /\ inbox'.offers = inbox.offers /\ inbox'.batch = inbox.batch /\ inbox'.cursor = inbox.cursor
    /\ inbox'.skipped = inbox.skipped /\ inbox'.answer = inbox.answer
    /\ inbox'.at = inbox.at \/ (inbox.at = "channel" /\ inbox'.at = "held")
    /\ bridge.harness # "agy" /\ bridge'.driver # "setup"
    /\ o # 0 => inbox'.at # "channel" \/ o # inbox.offers
    /\ o # 0 => bridge'.queued # o
    /\ bridge.harness \in {"codex", "opencode"} /\ o # 0 => o = inbox.offers /\ inbox'.at = "held"
    /\ bridge.harness = "opencode" => o # 0

LEMMA AskKeeps ==
    ASSUME BridgeTypes, BatchInv, TasksMove, NEW o \in Offers, Fresh(o), o <= inbox.offers, Asked(o), AskedAt(o),
           UNCHANGED <<peer, reached>>
    PROVE  BatchInv'
<1>1. /\ IdsGrow /\ OfferStages /\ OneTextEach /\ FreshTexts /\ TakenTexts /\ BatchIsNext
      /\ OfferReachesOnce /\ OnlyTakenIsPassed
  BY DEF BatchInv
<1>t. o \in Nat /\ link.last \in Nat /\ inbox.offers \in Nat /\ bridge.queued \in Nat /\ link.wire \in Seq(CallRow)
  BY TypedFields, BridgeAssumption DEF Offers
<1>2. \A w \in Sent' : w \in Sent \/ (w.id = link.last + 1 /\ w.offer = o)
  <2>1. CASE link'.wire = link.wire
    BY <2>1 DEF Sent
  <2>2. ASSUME NEW c \in CallRow, c.id = link.last + 1, c.offer = o, link'.wire = Append(link.wire, c)
        PROVE  \A w \in Sent' : w \in Sent \/ (w.id = link.last + 1 /\ w.offer = o)
    BY <1>t, <2>2, AppendFacts DEF Sent
  <2> QED BY <2>1, <2>2 DEF Asked
<1>3. \A n : Fresh(n) /\ (n = 0 \/ n # o) => Fresh(n)'
  BY <1>2 DEF Fresh
<1>4. HandedOver' <=> HandedOver
  BY DEF HandedOver, AskedAt
<1>5. Said' = Said
  BY DEF Said, Asked
<1>6. IdsGrow'
  <2>1. link'.call.id <= link'.last /\ peer'.running.id <= link'.last /\ (peer'.running.id = 0 => peer'.running = Quiet)
        /\ link'.call.id # 0 /\ peer'.running.id # link'.call.id
    <3>1. peer' = peer /\ peer.running.id \in Nat
      BY TypedFields
    <3>2. peer.running.id <= link.last /\ (peer.running.id = 0 => peer.running = Quiet)
      BY <1>1 DEF IdsGrow
    <3>3. link'.last = link.last + 1 /\ link'.call.id = link.last + 1
      BY DEF Asked
    <3> QED BY <1>t, <3>1, <3>2, <3>3
  <2>2. ASSUME NEW w \in Sent' PROVE w.id # 0 /\ w.id <= link'.last /\ (w.id = link'.call.id => w.offer = link'.call.offer)
    <3>1. CASE w \in Sent
      <4>1. w.id \in Nat
        BY <3>1, TypedFields
      <4>2. w.id # 0 /\ w.id <= link.last
        BY <1>1, <3>1 DEF IdsGrow
      <4>3. link'.last = link.last + 1 /\ link'.call.id = link.last + 1
        BY DEF Asked
      <4> QED BY <1>t, <4>1, <4>2, <4>3
    <3>2. CASE w.id = link.last + 1 /\ w.offer = o
      BY <1>t, <3>2 DEF Asked
    <3> QED BY <1>2, <3>1, <3>2
  <2>3. ASSUME NEW l \in Said' PROVE l.id <= link'.last /\ (l.kind = "response" => l.id # 0)
    <3>1. l.id \in Nat
      BY <1>5, TypedFields
    <3>2. l.id <= link.last /\ (l.kind = "response" => l.id # 0)
      BY <1>1, <1>5 DEF IdsGrow
    <3>3. link'.last = link.last + 1
      BY DEF Asked
    <3> QED BY <1>t, <3>1, <3>2, <3>3
  <2> QED BY <2>1, <2>2, <2>3 DEF IdsGrow
<1>7. OfferStages'
  <2>1. bridge'.queued <= inbox'.offers /\ link'.call.offer <= inbox'.offers
    BY <1>1, <1>t DEF OfferStages, TasksMove, AskedAt, Asked
  <2>2. bridge'.driver # "setup" /\ link'.call.offer = o /\ (bridge'.harness = "opencode" => o # 0)
    BY DEF AskedAt, Asked, TasksMove
  <2> QED BY <1>1, <2>1, <2>2 DEF OfferStages, TasksMove, AskedAt
<1>8. OneTextEach'
  <2>1. \A w \in Sent' : w.offer # 0 => reached'[w.offer] = 0
    BY <1>1, <1>2 DEF OneTextEach, Fresh
  <2>2. CASE link'.wire = link.wire
    BY <1>1, <2>1, <2>2 DEF OneTextEach
  <2>3. ASSUME NEW c \in CallRow, c.id = link.last + 1, c.offer = o, link'.wire = Append(link.wire, c),
               NEW i \in DOMAIN link'.wire, NEW j \in DOMAIN link'.wire, i < j
        PROVE  link'.wire[i].offer = 0 \/ link'.wire[i].offer # link'.wire[j].offer
    <3>1. i \in DOMAIN link.wire /\ link'.wire[i] = link.wire[i]
      BY <1>t, <2>3, AppendFacts
    <3>2. link.wire[i].offer = 0 \/ link.wire[i].offer # o
      BY <3>1 DEF Fresh, Sent
    <3>3. CASE j \in DOMAIN link.wire
      BY <1>1, <1>t, <2>3, <3>1, <3>3, AppendFacts DEF OneTextEach
    <3>4. CASE j \notin DOMAIN link.wire
      BY <1>t, <2>3, <3>1, <3>2, <3>4, AppendFacts
    <3> QED BY <3>3, <3>4
  <2> QED BY <2>1, <2>2, <2>3 DEF OneTextEach, Asked
<1>12. \A l \in Said' : l.id # link'.call.id
  <2> SUFFICES ASSUME NEW l \in Said PROVE l.id # link.last + 1
    BY <1>5 DEF Asked
  <2>1. l.id \in Nat
    BY TypedFields
  <2>2. l.id <= link.last
    BY <1>1 DEF IdsGrow
  <2> QED BY <1>t, <2>1, <2>2
<1>9. FreshTexts'
  <2>1. \A n \in Offers : n > inbox'.offers => Fresh(n)'
    <3> SUFFICES ASSUME NEW n \in Offers, n > inbox.offers PROVE Fresh(n)'
      BY DEF AskedAt
    <3>1. Fresh(n) /\ n # o
      BY <1>1, <1>t, BridgeAssumption DEF FreshTexts, Offers
    <3> QED BY <1>3, <3>1
  <2>2. inbox'.at = "channel" => Fresh(inbox.offers)'
    BY <1>1, <1>3 DEF FreshTexts, AskedAt, Fresh
  <2>3. Fresh(bridge.queued)'
    <3>1. Fresh(bridge'.queued) /\ (bridge'.queued = 0 \/ bridge'.queued # o)
      BY <1>1 DEF FreshTexts, TasksMove, AskedAt, Fresh
    <3> QED BY <1>3, <3>1 DEF Fresh
  <2>4. \A l \in Said' : l.id # link'.call.id
    BY <1>12
  <2>5. link'.call.id # 0 /\ link'.call.got # "error"
    BY <1>t DEF Asked
  <2> QED BY <2>1, <2>2, <2>3, <2>4, <2>5 DEF FreshTexts
<1>10. TakenTexts'
  <2>1. \A l \in Said' : l.id # link'.call.id
    BY <1>12
  <2>2. inbox'.answer = "yes" => HandedOver'
    BY <1>1, <1>4 DEF TakenTexts, AskedAt
  <2>3. link'.call.got # "ok" /\ bridge'.harness # "agy"
    BY DEF Asked, AskedAt, TasksMove
  <2> QED BY <2>1, <2>2, <2>3 DEF TakenTexts
<1>11. BatchIsNext' /\ OfferReachesOnce' /\ OnlyTakenIsPassed'
  BY <1>1 DEF BatchIsNext, OfferReachesOnce, OnlyTakenIsPassed, TasksMove, AskedAt
<1> QED BY <1>6, <1>7, <1>8, <1>9, <1>10, <1>11 DEF BatchInv

\* The driver answers for the delivery on offer, and a yes only of one that was taken; its request is over.
Settles(yes) ==
    /\ inbox'.offers = inbox.offers /\ inbox'.batch = inbox.batch /\ inbox'.cursor = inbox.cursor
    /\ inbox'.skipped = inbox.skipped
    /\ inbox.at \in {"channel", "held"} /\ inbox'.at = "answered" /\ inbox'.answer = (IF yes THEN "yes" ELSE "no")
    /\ yes => HandedOver
CallOver ==
    /\ link'.last = link.last /\ link'.wire = link.wire /\ link'.lines = link.lines
    /\ link'.call = Quiet \/ (link'.call = link.call /\ (bridge.harness \in {"codex", "opencode"} => link.call.offer = 0))
Released == bridge.harness = "agy" => bridge'.child # "running"

LEMMA SettleKeeps ==
    ASSUME BridgeTypes, BatchInv, TasksMove, CallOver, UNCHANGED <<peer, reached>>,
           \/ InboxStays /\ (bridge.harness = "opencode" => link'.call = link.call)
           \/ Released /\ \E yes \in BOOLEAN : Settles(yes)
    PROVE  BatchInv'
<1>1. /\ IdsGrow /\ OfferStages /\ OneTextEach /\ FreshTexts /\ TakenTexts /\ BatchIsNext
      /\ OfferReachesOnce /\ OnlyTakenIsPassed
  BY DEF BatchInv
<1>t. link.last \in Nat /\ inbox.offers \in Nat /\ link.call.id \in Nat
  BY TypedFields
<1>2. Sent' = Sent /\ Said' = Said /\ (HandedOver' <=> HandedOver)
  BY DEF Sent, Said, CallOver, HandedOver, InboxStays, Settles
<1>3. \A o : Fresh(o) => Fresh(o)'
  BY <1>2, FreshStays
<1>4. Quiet.id = 0 /\ Quiet.offer = 0 /\ Quiet.got = "none"
  BY DEF Quiet
<1>5. IdsGrow'
  <2>1. CASE link'.call = link.call
    BY <1>1, <1>2, <2>1 DEF IdsGrow, CallOver
  <2>2. CASE link'.call = Quiet
    BY <1>1, <1>2, <1>4, <1>t, <2>2 DEF IdsGrow, CallOver
  <2> QED BY <2>1, <2>2 DEF CallOver
<1>6. OfferStages'
  <2>1. link'.call.offer <= inbox'.offers /\ bridge'.queued <= inbox'.offers
    BY <1>1, <1>4, <1>t, TypedFields DEF OfferStages, TasksMove, CallOver, InboxStays, Settles
  <2>2. CASE InboxStays
    BY <1>1, <1>4, <2>1, <2>2 DEF OfferStages, TasksMove, CallOver, InboxStays
  <2>3. CASE \E yes \in BOOLEAN : Settles(yes)
    BY <1>1, <1>4, <2>1, <2>3 DEF OfferStages, TasksMove, CallOver, Settles
  <2> QED BY <2>2, <2>3
<1>7. OneTextEach'
  BY <1>1, <1>2 DEF OneTextEach, CallOver
<1>8. FreshTexts'
  <2>1. inbox'.offers = inbox.offers
    BY DEF InboxStays, Settles
  <2>2. \A o \in Offers : o > inbox'.offers => Fresh(o)'
    BY <1>1, <1>3, <2>1 DEF FreshTexts
  <2>3. (inbox'.at = "channel" \/ (bridge'.harness = "opencode" /\ inbox'.at = "held" /\ link'.call.id = 0)) => Fresh(inbox.offers)
    BY <1>1 DEF FreshTexts, InboxStays, Settles, TasksMove
  <2>4. Fresh(bridge.queued)'
    <3>1. Fresh(bridge'.queued)
      BY <1>1 DEF FreshTexts, TasksMove, Fresh
    <3> QED BY <1>3, <3>1 DEF Fresh
  <2>5. ASSUME bridge'.harness = "codex", link'.call.got = "error" PROVE Fresh(link'.call.offer)
    BY <1>1, <1>4, <2>5 DEF FreshTexts, CallOver, TasksMove
  <2>6. ASSUME NEW l \in Said', l.kind = "response", l.id = link'.call.id, l.got = "error", bridge'.harness = "codex"
        PROVE  Fresh(link'.call.offer)
    BY <1>1, <1>2, <1>4, <2>6 DEF FreshTexts, CallOver, TasksMove, Fresh
  <2> QED BY <1>3, <2>1, <2>2, <2>3, <2>4, <2>5, <2>6 DEF FreshTexts, Fresh
<1>9. TakenTexts'
  <2>1. inbox'.answer = "yes" => HandedOver'
    BY <1>1, <1>2 DEF TakenTexts, InboxStays, Settles
  <2>2. inbox'.offers = inbox.offers
    BY DEF InboxStays, Settles
  <2>3. link'.call.got = "ok" /\ link'.call.offer # 0 /\ link'.call.offer = inbox.offers => HandedOver
    BY <1>1, <1>4 DEF TakenTexts, CallOver, OnOffer
  <2>4. ASSUME NEW l \in Said', l.kind = "response", l.id = link'.call.id, l.got = "ok", link'.call.offer # 0, link'.call.offer = inbox.offers
        PROVE  HandedOver
    BY <1>1, <1>2, <1>4, <2>4 DEF TakenTexts, CallOver, OnOffer
  <2>5. bridge'.harness = "agy" /\ bridge'.child = "running" => inbox'.at = "held" /\ HandedOver
    BY <1>1 DEF TakenTexts, InboxStays, TasksMove, Released
  <2> QED BY <1>2, <2>1, <2>2, <2>3, <2>4, <2>5 DEF TakenTexts, OnOffer
<1>10. BatchIsNext' /\ OfferReachesOnce' /\ OnlyTakenIsPassed'
  BY <1>1 DEF BatchIsNext, OfferReachesOnce, OnlyTakenIsPassed, TasksMove, InboxStays, Settles
<1> QED BY <1>5, <1>6, <1>7, <1>8, <1>9, <1>10 DEF BatchInv

\* The agent takes a request off the wire, and puts its text to work or not.
LEMMA TextLeavesWire ==
    ASSUME BridgeTypes, OneTextEach, OfferReachesOnce, link.wire # <<>>, link'.wire = Tail(link.wire),
           NEW c \in CallRow, c = Head(link.wire), reached' = reached \/ TextArrives(c.offer)
    PROVE  /\ c \in Sent /\ Sent' \subseteq Sent /\ OneTextEach' /\ OfferReachesOnce'
           /\ \A o \in Offers : Fresh(o) => Fresh(o)'
           /\ reached' = reached => Fresh(c.offer)'
<1>1. link.wire \in Seq(CallRow) /\ reached \in [Offers -> Nat]
  BY DEF BridgeTypes, WireRow
<1>2. /\ c \in CallRow /\ 1 \in DOMAIN link.wire /\ c = link.wire[1]
      /\ \A i \in DOMAIN link'.wire : i + 1 \in DOMAIN link.wire /\ 1 < i + 1 /\ link'.wire[i] = link.wire[i + 1]
      /\ \A i, j \in DOMAIN link'.wire : i < j => i + 1 < j + 1
  BY <1>1, TailFacts
<1>3. c \in Sent /\ Sent' \subseteq Sent /\ c.offer \in Offers
  BY <1>2 DEF Sent, CallRow
<1>4. \A w \in Sent' : c.offer = 0 \/ c.offer # w.offer
  BY <1>2 DEF Sent, OneTextEach
<1>5. \A o \in Offers : o # c.offer \/ reached' = reached => reached'[o] = reached[o]
  BY <1>1 DEF TextArrives
<1>6. reached'[c.offer] <= 1
  <2>1. reached[c.offer] \in Nat /\ reached[c.offer] <= 1 /\ (c.offer # 0 => reached[c.offer] = 0)
    BY <1>1, <1>3 DEF OneTextEach, OfferReachesOnce
  <2>2. CASE reached' = reached
    BY <2>1, <2>2
  <2>3. CASE TextArrives(c.offer)
    BY <1>1, <1>3, <2>1, <2>3 DEF TextArrives
  <2> QED BY <2>2, <2>3
<1>7. OfferReachesOnce'
  <2>1. DOMAIN reached' = Offers /\ DOMAIN reached = Offers
    BY <1>1 DEF TextArrives
  <2> QED BY <1>5, <1>6, <2>1 DEF OfferReachesOnce
<1>8. \A o \in Offers : Fresh(o) => Fresh(o)'
  BY <1>3, <1>5 DEF Fresh
<1>9. reached' = reached => Fresh(c.offer)'
  BY <1>3, <1>4 DEF Fresh, OneTextEach
<1>10. OneTextEach'
  <2>1. ASSUME NEW w \in Sent', w.offer # 0 PROVE reached'[w.offer] = 0
    <3>1. w \in Sent /\ w.offer \in Offers /\ reached[w.offer] = 0
      BY <1>3, <2>1, TypedFields DEF OneTextEach
    <3> QED BY <1>4, <1>5, <2>1, <3>1
  <2>2. \A i, j \in DOMAIN link'.wire : i < j => link'.wire[i].offer = 0 \/ link'.wire[i].offer # link'.wire[j].offer
    BY <1>2 DEF OneTextEach
  <2> QED BY <2>1, <2>2 DEF OneTextEach
<1> QED BY <1>3, <1>7, <1>8, <1>9, <1>10

\* An answer about request c is said, or heard; a yes of the delivery on offer is of one that was taken.
AnswerOf(c, l) ==
    /\ l.kind = "response" /\ l.id = c.id
    /\ l.got = "ok" /\ OnOffer(c.offer) => HandedOver'
    /\ l.got = "error" /\ bridge.harness = "codex" => Fresh(c.offer)'

LEMMA AnswerKeeps ==
    ASSUME BridgeTypes, BridgeTypes', BatchInv, UNCHANGED <<bridge, inbox>>, NEW c \in CallRow,
           c.id # 0, c.id <= link.last, c.id = link.call.id => c.offer = link.call.offer,
           link'.last = link.last, link'.call.id = link.call.id, link'.call.offer = link.call.offer,
           Sent' \subseteq Sent, OneTextEach', OfferReachesOnce', \A o \in Offers : Fresh(o) => Fresh(o)',
           peer.taken \subseteq peer'.taken, peer'.running \in {peer.running, Quiet, c},
           \A l \in Said' : l \in Said \/ (l.kind # "response" /\ l.id = 0) \/ AnswerOf(c, l),
           \/ link'.call.got = link.call.got
           \/ /\ bridge.harness = "opencode" /\ c.id = link.call.id
              /\ link'.call.got = "ok" /\ OnOffer(c.offer) => HandedOver'
    PROVE  BatchInv'
<1>1. /\ IdsGrow /\ OfferStages /\ OneTextEach /\ FreshTexts /\ TakenTexts /\ BatchIsNext
      /\ OfferReachesOnce /\ OnlyTakenIsPassed
  BY DEF BatchInv
<1>t. /\ link.last \in Nat /\ inbox.offers \in Offers /\ bridge.queued \in Offers /\ link.call.offer \in Offers
      /\ inbox.cursor \in Nat
  BY TypedFields
<1>2. HandedOver => HandedOver'
  BY DEF HandedOver
<1>3. IdsGrow'
  <2>1. link'.call.id <= link'.last /\ peer'.running.id <= link'.last /\ (peer'.running.id = 0 => peer'.running = Quiet)
    BY <1>1, <1>t DEF IdsGrow, Quiet
  <2>2. link'.call.id = 0 => link'.call.offer = 0 /\ link'.call.got = "none"
    BY <1>1 DEF IdsGrow
  <2>3. \A w \in Sent' : w.id # 0 /\ w.id <= link'.last /\ (w.id = link'.call.id => w.offer = link'.call.offer)
    BY <1>1 DEF IdsGrow
  <2>4. \A l \in Said' : l.id <= link'.last /\ (l.kind = "response" => l.id # 0)
    BY <1>1, <1>t DEF IdsGrow, AnswerOf
  <2>5. peer'.running.id = link'.call.id => peer'.running.offer = link'.call.offer
    BY <1>1 DEF IdsGrow, Quiet
  <2> QED BY <2>1, <2>2, <2>3, <2>4, <2>5 DEF IdsGrow
<1>4. OfferStages'
  BY <1>1 DEF OfferStages
<1>5. FreshTexts'
  <2>1. \A o \in Offers : o > inbox'.offers => Fresh(o)'
    BY <1>1 DEF FreshTexts
  <2>2. inbox.at = "channel" \/ (bridge.harness = "opencode" /\ inbox.at = "held" /\ link.call.id = 0) => Fresh(inbox.offers)'
    BY <1>1, <1>t DEF FreshTexts, Fresh
  <2>3. Fresh(bridge.queued)'
    BY <1>1, <1>t DEF FreshTexts, Fresh
  <2>4. ASSUME bridge.harness = "codex", link'.call.got = "error" PROVE Fresh(link.call.offer)'
    BY <1>1, <1>t, <2>4 DEF FreshTexts, Fresh
  <2>5. ASSUME NEW l \in Said', l.kind = "response", l.id = link.call.id, l.got = "error", bridge.harness = "codex"
        PROVE  Fresh(link.call.offer)'
    <3>1. CASE l \in Said
      BY <1>1, <1>t, <2>5, <3>1 DEF FreshTexts, Fresh
    <3>2. CASE AnswerOf(c, l)
      BY <2>5, <3>2 DEF AnswerOf, Fresh
    <3> QED BY <2>5, <3>1, <3>2
  <2> QED BY <2>1, <2>2, <2>3, <2>4, <2>5 DEF FreshTexts
<1>6. TakenTexts'
  <2>1. inbox'.answer = "yes" => HandedOver'
    BY <1>1, <1>2 DEF TakenTexts
  <2>2. link'.call.got = "ok" /\ OnOffer(link.call.offer) => HandedOver'
    BY <1>1, <1>2 DEF TakenTexts
  <2>3. ASSUME NEW l \in Said', l.kind = "response", l.id = link.call.id, l.got = "ok", OnOffer(link.call.offer)
        PROVE  HandedOver'
    BY <1>1, <1>2, <2>3 DEF TakenTexts, AnswerOf
  <2>4. bridge'.harness = "agy" /\ bridge'.child = "running" => inbox'.at = "held" /\ HandedOver'
    BY <1>1, <1>2 DEF TakenTexts
  <2> QED BY <2>1, <2>2, <2>3, <2>4 DEF TakenTexts, OnOffer
<1>7. BatchIsNext' /\ OnlyTakenIsPassed'
  BY <1>1 DEF BatchIsNext, OnlyTakenIsPassed
<1> QED BY <1>3, <1>4, <1>5, <1>6, <1>7 DEF BatchInv

-----------------------------------------------------------------------------
(* The pump.                                                                   *)

LEMMA LastOfBatch == ASSUME NEW a \in Nat, NEW k \in Nat, k > a PROVE LastOf((a + 1) .. k) = k
<1>1. \E m \in (a + 1) .. k : \A n \in (a + 1) .. k : n <= m
  <2>1. k \in (a + 1) .. k /\ \A n \in (a + 1) .. k : n <= k
    OBVIOUS
  <2> QED BY <2>1
<1>2. LastOf((a + 1) .. k) \in (a + 1) .. k /\ \A n \in (a + 1) .. k : n <= LastOf((a + 1) .. k)
  BY <1>1 DEF LastOf
<1> QED BY <1>2

\* Rows change only their own fields.
LEMMA UnchangedFrame ==
    ASSUME UNCHANGED <<link, peer, reached>>
    PROVE  /\ Sent' = Sent /\ Said' = Said /\ PeerStays /\ (\A o : Fresh(o) => Fresh(o)') /\ CallStays
<1>1. Sent' = Sent /\ Said' = Said
  BY DEF Sent, Said
<1>2. \A o : Fresh(o) => Fresh(o)'
  BY <1>1, FreshStays
<1> QED BY <1>1, <1>2 DEF PeerStays, CallStays, NoNewAnswer

LEMMA OffersKeep ==
    ASSUME BridgeTypes, PumpOffers PROVE BridgeTypes' /\ (BatchInv => BatchInv')
<1> DEFINE batch == (inbox.cursor + 1) .. inbox.posted
           n == inbox.offers + 1
<1>1. /\ bridge \in BridgeRow /\ inbox \in InboxRow /\ inbox.cursor \in Nat /\ inbox.posted \in Nat /\ inbox.offers \in Nat
      /\ bridge.queued \in Nat /\ link.call.offer \in Nat /\ MaxOffers \in Nat
  BY TypedFields, BridgeAssumption DEF BridgeTypes
<1>2. /\ bridge' = [bridge EXCEPT !.pump = "waiting"] /\ UNCHANGED <<link, peer, reached>>
      /\ inbox' = [inbox EXCEPT !.offers = n, !.batch = batch, !.at = "channel", !.answer = "none"]
      /\ bridge.pump = "idle" /\ bridge.driver = "live" /\ inbox.posted > inbox.cursor /\ inbox.offers < MaxOffers
  BY DEF PumpOffers
<1>3. batch \in SUBSET Nat /\ n \in Offers /\ n \in Nat /\ n # 0 /\ \A o \in Offers : o > n \/ o = n => o > inbox.offers
  BY <1>1, <1>2 DEF Offers
<1>4. \E k \in Nat : k > inbox.cursor /\ batch = (inbox.cursor + 1) .. k
  BY <1>1, <1>2
<1> HIDE DEF batch
<1>5. /\ inbox' \in InboxRow /\ inbox'.offers = n /\ inbox'.batch = batch /\ inbox'.at = "channel" /\ inbox'.answer = "none"
      /\ inbox'.cursor = inbox.cursor /\ inbox'.skipped = inbox.skipped
  <2> HIDE DEF n
  <2> QED BY <1>1, <1>2, <1>3 DEF InboxRow
<1>6. /\ bridge' \in BridgeRow /\ bridge'.pump = "waiting" /\ bridge'.harness = bridge.harness /\ bridge'.driver = bridge.driver
      /\ bridge'.child = bridge.child /\ bridge'.queued = bridge.queued /\ bridge'.prompt = bridge.prompt
  BY <1>1, <1>2 DEF BridgeRow
<1>7. BridgeTypes'
  BY <1>2, <1>5, <1>6 DEF BridgeTypes
<1>8. ASSUME BatchInv PROVE BatchInv'
  <2>1. /\ IdsGrow /\ OfferStages /\ OneTextEach /\ FreshTexts /\ TakenTexts /\ OfferReachesOnce /\ OnlyTakenIsPassed
    BY <1>8 DEF BatchInv
  <2>2. Sent' = Sent /\ Said' = Said /\ \A o : Fresh(o) => Fresh(o)'
    BY <1>2, UnchangedFrame
  <2>3. inbox.at \notin {"channel", "held"}
    BY <1>2, <2>1 DEF OfferStages
  <2>4. IdsGrow' /\ OneTextEach' /\ OfferReachesOnce'
    BY <1>2, <2>1, <2>2 DEF IdsGrow, OneTextEach, OfferReachesOnce
  <2>5. link.call.offer <= n /\ bridge.queued <= n /\ link.call.offer # n /\ bridge.queued # n
    BY <1>1, <2>1 DEF OfferStages
  <2>6. OfferStages'
    BY <1>2, <1>3, <1>5, <1>6, <2>1, <2>3, <2>5 DEF OfferStages
  <2>7. FreshTexts'
    <3>1. \A o \in Offers : o > n \/ o = n => Fresh(o)'
      BY <1>3, <2>1, <2>2 DEF FreshTexts
    <3>2. Fresh(n)
      BY <1>3, <2>1 DEF FreshTexts
    <3>3. Fresh(inbox.offers)'
      BY <1>5, <2>2, <3>2 DEF Fresh
    <3>4. Fresh(bridge.queued)' /\ (Fresh(link.call.offer) => Fresh(link.call.offer)')
      BY <1>2, <1>6, <2>1, <2>2 DEF Fresh, FreshTexts
    <3> HIDE DEF n
    <3> QED BY <1>2, <1>5, <1>6, <2>1, <2>2, <3>1, <3>3, <3>4 DEF FreshTexts
  <2>8. TakenTexts'
    <3>1. ~OnOffer(link.call.offer)'
      BY <1>2, <1>5, <2>5 DEF OnOffer
    <3>2. ~(bridge'.harness = "agy" /\ bridge'.child = "running")
      BY <1>6, <2>1, <2>3 DEF TakenTexts
    <3> QED BY <1>5, <3>1, <3>2 DEF TakenTexts
  <2>9. BatchIsNext' /\ OnlyTakenIsPassed'
    BY <1>2, <1>4, <1>5, <2>1 DEF BatchIsNext, OnlyTakenIsPassed
  <2> QED BY <2>4, <2>6, <2>7, <2>8, <2>9 DEF BatchInv
<1> QED BY <1>7, <1>8

LEMMA HearsKeep ==
    ASSUME BridgeTypes, BatchInv, PumpHears PROVE BridgeTypes' /\ BatchInv'
<1>1. /\ bridge \in BridgeRow /\ inbox \in InboxRow /\ inbox.cursor \in Nat /\ inbox.refusals \in [upto : Nat, count : Nat]
      /\ inbox.batch \in SUBSET Nat /\ inbox.skipped \in SUBSET Nat
  BY DEF BridgeTypes, InboxRow
<1>2. /\ IdsGrow /\ OfferStages /\ OneTextEach /\ FreshTexts /\ TakenTexts /\ BatchIsNext
      /\ OfferReachesOnce /\ OnlyTakenIsPassed
  BY DEF BatchInv
<1>3. PICK k \in Nat : k > inbox.cursor /\ inbox.batch = (inbox.cursor + 1) .. k
  BY <1>2 DEF PumpHears, BatchIsNext
<1>4. LastOf(inbox.batch) = k
  BY <1>1, <1>3, LastOfBatch
<1> DEFINE n == RefusedTimes(k)
<1>5. n \in Nat
  BY <1>1 DEF RefusedTimes
<1>6. /\ bridge' = [bridge EXCEPT !.pump = "idle"] /\ UNCHANGED <<link, peer, reached>> /\ inbox.answer # "none"
      /\ \/ inbox.answer = "yes" /\ inbox' = CommitCursor(k)
         \/ inbox' = [CommitCursor(k) EXCEPT !.skipped = @ \union inbox.batch]
         \/ inbox' = [inbox EXCEPT !.batch = {}, !.at = "none", !.refusals = [upto |-> k, count |-> n]]
  BY <1>4 DEF PumpHears
<1> HIDE DEF n
<1>7. CommitCursor(k) = [inbox EXCEPT !.cursor = k, !.batch = {}, !.at = "none", !.refusals = [upto |-> 0, count |-> 0]]
  BY <1>3 DEF CommitCursor
<1>8. /\ inbox' \in InboxRow /\ inbox'.batch = {} /\ inbox'.at = "none" /\ inbox'.offers = inbox.offers
      /\ \/ inbox'.cursor = inbox.cursor /\ inbox'.skipped = inbox.skipped
         \/ inbox'.cursor = k /\ inbox'.skipped = inbox.skipped /\ inbox.answer = "yes"
         \/ inbox'.cursor = k /\ inbox'.skipped = inbox.skipped \union inbox.batch
  <2>1. CASE inbox.answer = "yes" /\ inbox' = CommitCursor(k)
    <3>1. inbox' = [inbox EXCEPT !.cursor = k, !.batch = {}, !.at = "none", !.refusals = [upto |-> 0, count |-> 0]]
      BY <1>7, <2>1
    <3>2. inbox' \in InboxRow
      BY <1>1, <3>1 DEF InboxRow
    <3>3. /\ inbox'.batch = {} /\ inbox'.at = "none" /\ inbox'.offers = inbox.offers
          /\ inbox'.cursor = k /\ inbox'.skipped = inbox.skipped
      BY <1>1, <3>1 DEF InboxRow
    <3> QED BY <2>1, <3>2, <3>3
  <2>2. CASE inbox' = [CommitCursor(k) EXCEPT !.skipped = @ \union inbox.batch]
    <3> DEFINE skipped == inbox.skipped \union inbox.batch
    <3>1. skipped \in SUBSET Nat
      BY <1>1
    <3>2. inbox' = [inbox EXCEPT !.cursor = k, !.batch = {}, !.at = "none", !.refusals = [upto |-> 0, count |-> 0], !.skipped = skipped]
      BY <1>1, <1>7, <2>2 DEF InboxRow
    <3> HIDE DEF skipped
    <3>3. inbox' \in InboxRow /\ inbox'.batch = {} /\ inbox'.at = "none" /\ inbox'.offers = inbox.offers
          /\ inbox'.cursor = k /\ inbox'.skipped = skipped
      BY <1>1, <3>1, <3>2 DEF InboxRow
    <3> QED BY <3>3 DEF skipped
  <2>3. CASE inbox' = [inbox EXCEPT !.batch = {}, !.at = "none", !.refusals = [upto |-> k, count |-> n]]
    BY <1>1, <1>5, <2>3 DEF InboxRow
  <2> QED BY <1>6, <2>1, <2>2, <2>3
<1>9. /\ bridge' \in BridgeRow /\ bridge'.pump = "idle" /\ bridge'.harness = bridge.harness /\ bridge'.driver = bridge.driver
      /\ bridge'.child = bridge.child /\ bridge'.queued = bridge.queued /\ bridge'.prompt = bridge.prompt
  BY <1>1, <1>6 DEF BridgeRow
<1>10. BridgeTypes'
  BY <1>6, <1>8, <1>9 DEF BridgeTypes
<1>11. Sent' = Sent /\ Said' = Said /\ \A o : Fresh(o) => Fresh(o)'
  BY <1>6, UnchangedFrame
<1>12. inbox.at \notin {"channel", "held"} /\ HandedOver'
  BY <1>2, <1>6, <1>8 DEF OfferStages, HandedOver
<1>13. IdsGrow' /\ OneTextEach' /\ OfferReachesOnce'
  BY <1>2, <1>6, <1>11 DEF IdsGrow, OneTextEach, OfferReachesOnce
<1>14. OfferStages'
  BY <1>2, <1>6, <1>8, <1>9, <1>12 DEF OfferStages
<1>15. FreshTexts'
  <2>1. Fresh(bridge.queued)' /\ (Fresh(link.call.offer) => Fresh(link.call.offer)')
    BY <1>2, <1>6, <1>9, <1>11 DEF Fresh, FreshTexts
  <2> QED BY <1>2, <1>6, <1>8, <1>9, <1>11, <2>1 DEF FreshTexts
<1>16. TakenTexts'
  BY <1>2, <1>6, <1>8, <1>9, <1>12 DEF TakenTexts
<1>17. BatchIsNext'
  BY <1>9 DEF BatchIsNext
<1>18. OnlyTakenIsPassed'
  <2>1. CASE inbox'.cursor = inbox.cursor /\ inbox'.skipped = inbox.skipped
    BY <1>2, <1>6, <2>1 DEF OnlyTakenIsPassed
  <2>2. CASE inbox'.cursor = k /\ inbox'.skipped = inbox.skipped /\ inbox.answer = "yes"
    <3>1. inbox.batch \subseteq peer.taken
      BY <1>2, <2>2 DEF TakenTexts, HandedOver
    <3> QED BY <1>1, <1>2, <1>3, <1>6, <2>2, <3>1 DEF OnlyTakenIsPassed
  <2>3. CASE inbox'.cursor = k /\ inbox'.skipped = inbox.skipped \union inbox.batch
    BY <1>1, <1>2, <1>3, <1>6, <2>3 DEF OnlyTakenIsPassed
  <2> QED BY <1>8, <2>1, <2>2, <2>3
<1> QED BY <1>10, <1>13, <1>14, <1>15, <1>16, <1>17, <1>18 DEF BatchInv

-----------------------------------------------------------------------------
(* The tasks, and what they do to a row.                                       *)

LEMMA TasksOnly ==
    ASSUME BridgeTypes, BatchInv, bridge' \in BridgeRow, TasksMove, UNCHANGED <<inbox, link, peer, reached>>
    PROVE  BridgeTypes' /\ BatchInv'
<1>1. BridgeTypes'
  BY DEF BridgeTypes
<1>2. InboxStays /\ CallStays /\ PeerStays
  BY UnchangedFrame DEF InboxStays
<1> QED BY <1>1, <1>2, CallStaysKeeps

\* What BatchInv says of the tasks.
LEMMA TaskFacts ==
    ASSUME BridgeTypes, BatchInv
    PROVE  /\ bridge \in BridgeRow /\ (bridge.prompt = "none" => bridge.queued = 0) /\ 0 \in Offers
           /\ bridge.driver = "setup" => inbox.at = "none" /\ link.call.id = 0 /\ bridge.queued = 0
           /\ bridge.harness \in {"codex", "acp", "opencode", "agy"}
<1>1. bridge \in BridgeRow /\ (bridge.prompt = "none" => bridge.queued = 0)
      /\ (bridge.driver = "setup" => inbox.at = "none" /\ link.call.id = 0 /\ bridge.queued = 0)
  BY DEF BridgeTypes, BatchInv, OfferStages
<1>2. 0 \in Offers
  BY BridgeAssumption DEF Offers
<1>3. bridge.harness \in {"codex", "acp", "opencode", "agy"}
  BY <1>1 DEF BridgeRow
<1> QED BY <1>1, <1>2, <1>3

LEMMA PumpEndsKeeps ==
    ASSUME BridgeTypes, BatchInv, PumpEnds \/ StopOther \/ Signal PROVE BridgeTypes' /\ BatchInv'
<1>1. UNCHANGED <<inbox, link, peer, reached>>
  BY DEF PumpEnds, StopOther, Signal
<1>2. bridge' = [bridge EXCEPT !.pump = "ended"] \/ bridge' = [bridge EXCEPT !.stop = TRUE]
  BY DEF PumpEnds, StopOther, Signal
<1>3. bridge' \in BridgeRow
  BY <1>2, TaskFacts DEF BridgeRow
<1>4. TasksMove
  BY <1>2, TaskFacts DEF BridgeRow, TasksMove
<1> QED BY <1>1, <1>3, <1>4, TasksOnly

\* The bridge comes up, or gives up while it does.
LEMMA UpFacts ==
    ASSUME BridgeTypes, BatchInv, bridge.driver = "setup",
           \/ bridge' = BridgeUp \/ (\E first \in BOOLEAN : bridge' = [BridgeUp EXCEPT !.prompt = IF first THEN "running" ELSE "none"])
           \/ bridge' = [BridgeUp EXCEPT !.driver = "ended", !.stop = TRUE, !.pump = "ended"]
           \/ bridge' = [bridge EXCEPT !.driver = "ended", !.pump = "ended", !.child = IF HasLink THEN "running" ELSE "none"]
    PROVE  bridge' \in BridgeRow /\ TasksMove /\ bridge'.driver # "setup" /\ bridge'.queued = bridge.queued
<1> DEFINE child == IF HasLink THEN "running" ELSE "none"
<1>1. child \in {"none", "running", "exited", "killed"} /\ (bridge.harness = "agy" => child # "running")
  BY DEF HasLink
<1>2. BridgeUp = [bridge EXCEPT !.driver = "live", !.pump = "idle", !.child = child]
  BY DEF BridgeUp
<1> HIDE DEF child
<1>3. CASE bridge' = BridgeUp
  BY <1>1, <1>2, <1>3, TaskFacts DEF BridgeRow, TasksMove
<1>4. ASSUME NEW first \in BOOLEAN, bridge' = [BridgeUp EXCEPT !.prompt = IF first THEN "running" ELSE "none"]
      PROVE  bridge' \in BridgeRow /\ TasksMove /\ bridge'.driver # "setup" /\ bridge'.queued = bridge.queued
  <2> DEFINE prompt == IF first THEN "running" ELSE "none"
  <2>1. prompt \in {"none", "running", "answered"}
    OBVIOUS
  <2>2. bridge' = [bridge EXCEPT !.driver = "live", !.pump = "idle", !.child = child, !.prompt = prompt]
    BY <1>2, <1>4, TaskFacts DEF BridgeRow
  <2> HIDE DEF prompt
  <2>3. bridge \in BridgeRow /\ bridge.queued = 0
    BY TaskFacts
  <2>4. bridge' \in BridgeRow
    BY <1>1, <2>1, <2>2, <2>3 DEF BridgeRow
  <2>5. /\ bridge'.driver = "live" /\ bridge'.queued = bridge.queued /\ bridge'.harness = bridge.harness
        /\ bridge'.pump = "idle" /\ bridge'.child = child
    BY <2>2, <2>3 DEF BridgeRow
  <2> QED BY <1>1, <2>3, <2>4, <2>5 DEF TasksMove
<1>5. CASE bridge' = [BridgeUp EXCEPT !.driver = "ended", !.stop = TRUE, !.pump = "ended"]
  <2>1. bridge' = [bridge EXCEPT !.driver = "ended", !.pump = "ended", !.child = child, !.stop = TRUE]
    BY <1>2, <1>5, TaskFacts DEF BridgeRow
  <2> QED BY <1>1, <2>1, TaskFacts DEF BridgeRow, TasksMove
<1>6. CASE bridge' = [bridge EXCEPT !.driver = "ended", !.pump = "ended", !.child = IF HasLink THEN "running" ELSE "none"]
  <2>1. bridge' = [bridge EXCEPT !.driver = "ended", !.pump = "ended", !.child = child]
    BY <1>6 DEF child
  <2> QED BY <1>1, <2>1, TaskFacts DEF BridgeRow, TasksMove
<1> QED BY <1>3, <1>4, <1>5, <1>6

\* One request of the JSON-RPC connection.
LEMMA AskFacts ==
    ASSUME BridgeTypes, NEW what \in {"start", "steer", "prompt"}, NEW turn \in Nat, NEW o \in Offers, link' = Ask(what, turn, o)
    PROVE  link' \in WireRow /\ Asked(o)
<1> DEFINE n == link.last + 1
           c == [id |-> n, what |-> what, turn |-> turn, offer |-> o, got |-> "none"]
           d == [c EXCEPT !.got = "closed"]
<1>0. link.last \in Nat /\ link.wire \in Seq(CallRow)
  BY TypedFields
<1>1. n \in Nat /\ link \in WireRow /\ link.wire \in Seq(CallRow)
  BY <1>0 DEF BridgeTypes
<1>2. c \in CallRow /\ c.id = n /\ c.offer = o /\ c.got = "none"
  <2> HIDE DEF n
  <2> QED BY <1>1 DEF CallRow
<1>3. d \in CallRow /\ d.id = n /\ d.offer = o /\ d.got = "closed"
  <2> HIDE DEF n
  <2> QED BY <1>1 DEF CallRow
<1>4. link' = [link EXCEPT !.last = n, !.call = IF link.open THEN c ELSE d, !.wire = IF link.open THEN Append(link.wire, c) ELSE link.wire]
  BY DEF Ask
<1> HIDE DEF c, d
<1>5. Append(link.wire, c) \in Seq(CallRow)
  BY <1>1, <1>2
<1> DEFINE call == IF link.open THEN c ELSE d
           wire == IF link.open THEN Append(link.wire, c) ELSE link.wire
<1>6. call \in CallRow /\ wire \in Seq(CallRow) /\ call.id = n /\ call.offer = o /\ call.got \in {"none", "closed"}
  BY <1>1, <1>2, <1>3, <1>5
<1>7. wire = link.wire \/ wire = Append(link.wire, c)
  OBVIOUS
<1> HIDE DEF call, wire
<1>8. link' \in WireRow /\ link'.last = n /\ link'.call = call /\ link'.wire = wire /\ link'.lines = link.lines
  <2> HIDE DEF n
  <2>1. link' = [link EXCEPT !.last = n, !.call = call, !.wire = wire]
    BY <1>4 DEF call, wire
  <2> QED BY <1>1, <1>6, <2>1 DEF WireRow
<1>9. link'.call.id = n /\ link'.call.offer = o /\ link'.call.got \in {"none", "closed"}
  BY <1>6, <1>8
<1>10. link'.wire = link.wire \/ (\E x \in CallRow : x.id = n /\ x.offer = o /\ link'.wire = Append(link.wire, x))
  BY <1>2, <1>7, <1>8
<1> QED BY <1>8, <1>9, <1>10 DEF Asked

LEMMA FreshZero == Fresh(0)
BY DEF Fresh

LEMMA OpensKeep ==
    ASSUME BridgeTypes, BatchInv, CodexOpen \/ AcpOpen \/ AgyOpen \/ SetupFails \/ StopInSetup
    PROVE  BridgeTypes' /\ BatchInv'
<1>1. bridge.driver = "setup" /\ UNCHANGED <<inbox, peer, reached>>
  BY DEF CodexOpen, AcpOpen, AgyOpen, SetupFails, StopInSetup, Setup
<1>2. bridge' \in BridgeRow /\ TasksMove /\ bridge'.driver # "setup" /\ bridge'.queued = bridge.queued
  <2>1. \/ bridge' = BridgeUp \/ (\E first \in BOOLEAN : bridge' = [BridgeUp EXCEPT !.prompt = IF first THEN "running" ELSE "none"])
        \/ bridge' = [BridgeUp EXCEPT !.driver = "ended", !.stop = TRUE, !.pump = "ended"]
        \/ bridge' = [bridge EXCEPT !.driver = "ended", !.pump = "ended", !.child = IF HasLink THEN "running" ELSE "none"]
    BY DEF CodexOpen, AcpOpen, AgyOpen, SetupFails, StopInSetup
  <2> QED BY <1>1, <2>1, UpFacts
<1>3. \/ link' = link
      \/ /\ bridge.harness \in {"codex", "acp"}
         /\ \E what \in {"start", "steer", "prompt"} : link' = Ask(what, 0, 0)
  BY DEF CodexOpen, AcpOpen, AgyOpen, SetupFails, StopInSetup, Setup
<1>4. CASE link' = link
  BY <1>1, <1>2, <1>4, TasksOnly
<1>5. ASSUME NEW what \in {"start", "steer", "prompt"}, link' = Ask(what, 0, 0), bridge.harness \in {"codex", "acp"}
      PROVE  BridgeTypes' /\ BatchInv'
  <2>1. 0 \in Offers /\ 0 \in Nat /\ inbox.offers \in Nat
    BY TaskFacts, TypedFields
  <2>2. link' \in WireRow /\ Asked(0)
    BY <1>5, <2>1, AskFacts
  <2>3. BridgeTypes'
    BY <1>1, <1>2, <2>2 DEF BridgeTypes
  <2>4. AskedAt(0)
    BY <1>1, <1>2, <1>5 DEF AskedAt
  <2>5. BatchInv'
    BY <1>1, <1>2, <2>1, <2>2, <2>4, AskKeeps, FreshZero
  <2> QED BY <2>3, <2>5
<1> QED BY <1>3, <1>4, <1>5

-----------------------------------------------------------------------------
(* The lines of the connection.                                                *)

LEMMA ReadKeeps ==
    ASSUME BridgeTypes, BatchInv, ReadLine PROVE BridgeTypes' /\ BatchInv'
<1>1. UNCHANGED <<bridge, inbox, peer, reached>> /\ link.lines # <<>>
  BY DEF ReadLine
<1>2. PICK l \in LineRow : l = Head(link.lines) /\ l \in Said
  <2>1. Head(link.lines) \in LineRow /\ Head(link.lines) \in Said
    BY <1>1, TypedFields, TailFacts DEF Said
  <2> QED BY <2>1
<1>3. /\ link.call \in CallRow /\ link.wire \in Seq(CallRow) /\ link.incoming \in Seq(LineRow) /\ link.noise \in Nat
      /\ link.open \in BOOLEAN /\ Tail(link.lines) \in Seq(LineRow) /\ Append(link.incoming, l) \in Seq(LineRow) /\ link \in WireRow
  BY <1>1, TypedFields, TailFacts, AppendFacts DEF BridgeTypes
<1> DEFINE heard == [link.call EXCEPT !.got = l.got, !.turn = l.turn]
<1>4. heard \in CallRow /\ heard.id = link.call.id /\ heard.offer = link.call.offer /\ heard.got = l.got
  BY <1>3 DEF CallRow, LineRow
<1>5. PICK call \in {link.call, heard}, incoming \in {link.incoming, Append(link.incoming, l)} :
         /\ link' = [link EXCEPT !.open = link.open, !.call = call, !.wire = link.wire, !.lines = Tail(link.lines),
                                 !.incoming = incoming, !.noise = link.noise]
         /\ call = link.call \/ (l.kind = "response" /\ l.id = link.call.id)
  <2>1. \/ l.kind = "response" /\ l.id = link.call.id /\ link' = [link EXCEPT !.lines = Tail(link.lines), !.call = heard]
        \/ link' = [link EXCEPT !.lines = Tail(link.lines)]
        \/ link' = [link EXCEPT !.lines = Tail(link.lines), !.incoming = Append(link.incoming, l)]
    BY <1>2, <1>3 DEF ReadLine, WireRow, CallRow
  <2> HIDE DEF heard
  <2>2. CASE l.kind = "response" /\ l.id = link.call.id /\ link' = [link EXCEPT !.lines = Tail(link.lines), !.call = heard]
    <3>1. link' = [link EXCEPT !.open = link.open, !.call = heard, !.wire = link.wire, !.lines = Tail(link.lines),
                               !.incoming = link.incoming, !.noise = link.noise]
      BY <1>3, <2>2 DEF WireRow
    <3> QED BY <2>2, <3>1
  <2>3. CASE link' = [link EXCEPT !.lines = Tail(link.lines)]
    <3>1. link' = [link EXCEPT !.open = link.open, !.call = link.call, !.wire = link.wire, !.lines = Tail(link.lines),
                               !.incoming = link.incoming, !.noise = link.noise]
      BY <1>3, <2>3 DEF WireRow
    <3> QED BY <3>1
  <2>4. CASE link' = [link EXCEPT !.lines = Tail(link.lines), !.incoming = Append(link.incoming, l)]
    <3>1. link' = [link EXCEPT !.open = link.open, !.call = link.call, !.wire = link.wire, !.lines = Tail(link.lines),
                               !.incoming = Append(link.incoming, l), !.noise = link.noise]
      BY <1>3, <2>4 DEF WireRow
    <3> QED BY <3>1
  <2> QED BY <2>1, <2>2, <2>3, <2>4
<1> HIDE DEF heard
<1>6. /\ link' \in WireRow /\ link'.last = link.last /\ link'.call = call /\ link'.wire = link.wire /\ link'.lines = Tail(link.lines)
  <2>1. call \in CallRow /\ incoming \in Seq(LineRow)
    BY <1>3, <1>4, <1>5
  <2>2. link' \in WireRow
    BY <1>3, <1>5, <2>1 DEF WireRow
  <2>3. link'.last = link.last /\ link'.call = call /\ link'.wire = link.wire /\ link'.lines = Tail(link.lines)
    BY <1>3, <1>5 DEF WireRow
  <2> QED BY <2>2, <2>3
<1>7. BridgeTypes'
  BY <1>1, <1>6 DEF BridgeTypes
<1>8. NoNewAnswer
  BY <1>1, <1>6, TypedFields, TailFacts DEF NoNewAnswer, Said
<1>9. CallStays
  BY <1>2, <1>4, <1>5, <1>6, <1>8 DEF CallStays
<1>10. TasksMove /\ InboxStays /\ PeerStays
  BY <1>1, TaskFacts DEF TasksMove, InboxStays, PeerStays
<1> QED BY <1>7, <1>9, <1>10, CallStaysKeeps

-----------------------------------------------------------------------------
(* Steps that leave the delivery on offer where it is.                         *)

LEMMA QuietKeeps ==
    ASSUME BridgeTypes, BatchInv, bridge' \in BridgeRow, TasksMove, inbox' \in InboxRow, InboxStays,
           link' \in WireRow, CallStays, peer' \in PeerRow, PeerStays
    PROVE  BridgeTypes' /\ BatchInv'
<1>1. BridgeTypes'
  BY DEF BridgeTypes, PeerStays
<1> QED BY <1>1, CallStaysKeeps

LEMMA SameRows ==
    ASSUME BridgeTypes, BatchInv
    PROVE  /\ UNCHANGED bridge => bridge' \in BridgeRow /\ TasksMove
           /\ UNCHANGED inbox => inbox' \in InboxRow /\ InboxStays
           /\ UNCHANGED <<peer, reached>> => peer' \in PeerRow /\ PeerStays
           /\ UNCHANGED link => link' \in WireRow /\ CallStays
<1>1. UNCHANGED bridge => bridge' \in BridgeRow /\ TasksMove
  BY TaskFacts DEF TasksMove
<1>2. UNCHANGED inbox => inbox' \in InboxRow /\ InboxStays
  BY DEF BridgeTypes, InboxStays
<1>3. UNCHANGED <<peer, reached>> => peer' \in PeerRow /\ PeerStays
  BY DEF BridgeTypes, PeerStays
<1>4. UNCHANGED link => link' \in WireRow /\ CallStays
  <2>1. UNCHANGED link => Said' = Said
    BY DEF Said
  <2> QED BY <2>1 DEF BridgeTypes, CallStays, NoNewAnswer
<1> QED BY <1>1, <1>2, <1>3, <1>4

LEMMA MailKeeps ==
    ASSUME BridgeTypes, BatchInv, MailArrives PROVE BridgeTypes' /\ BatchInv'
<1>1. UNCHANGED <<bridge, link, peer, reached>> /\ inbox' = [inbox EXCEPT !.posted = @ + 1]
  BY DEF MailArrives
<1>2. inbox \in InboxRow
  BY DEF BridgeTypes
<1>3. inbox' \in InboxRow
  BY <1>1, <1>2 DEF InboxRow
<1>4. InboxStays
  BY <1>1, <1>2 DEF InboxRow, InboxStays
<1> QED BY <1>1, <1>3, <1>4, SameRows, QuietKeeps

LEMMA TimeoutKeeps ==
    ASSUME BridgeTypes, BatchInv, CallTimesOut PROVE BridgeTypes' /\ BatchInv'
<1>1. UNCHANGED <<bridge, inbox, peer, reached>> /\ link.call.id # 0 /\ link' = [link EXCEPT !.call.got = "timeout"]
  BY DEF CallTimesOut
<1> DEFINE call == [link.call EXCEPT !.got = "timeout"]
<1>2. link \in WireRow /\ link.call \in CallRow
  BY DEF BridgeTypes, WireRow
<1>3. call \in CallRow /\ call.id = link.call.id /\ call.offer = link.call.offer /\ call.got = "timeout"
  BY <1>2 DEF CallRow
<1>4. link' = [link EXCEPT !.call = call]
  BY <1>1, <1>2 DEF WireRow
<1> HIDE DEF call
<1>5. link' \in WireRow
  BY <1>2, <1>3, <1>4 DEF WireRow
<1>6. link'.last = link.last /\ link'.call = call /\ link'.wire = link.wire /\ link'.lines = link.lines
  BY <1>2, <1>4 DEF WireRow
<1>7. CallStays
  BY <1>1, <1>3, <1>6 DEF CallStays, NoNewAnswer, Said
<1> QED BY <1>1, <1>5, <1>7, SameRows, QuietKeeps

LEMMA ClosedPeer ==
    ASSUME BridgeTypes, peer' = [peer EXCEPT !.turn = 0, !.running = Quiet], UNCHANGED reached
    PROVE  peer' \in PeerRow /\ PeerStays
<1>1. Quiet \in CallRow
  BY BridgeAssumption DEF Quiet, CallRow, Offers
<1>2. peer \in PeerRow
  BY DEF BridgeTypes
<1>3. peer' \in PeerRow
  BY <1>1, <1>2 DEF PeerRow
<1>4. peer'.running = Quiet /\ peer'.taken = peer.taken
  BY <1>2 DEF PeerRow
<1> QED BY <1>3, <1>4 DEF PeerStays

LEMMA ClosesKeep ==
    ASSUME BridgeTypes, BatchInv, LinkCloses PROVE BridgeTypes' /\ BatchInv'
<1> DEFINE got == IF link.call.id # 0 /\ link.call.got = "none" THEN "closed" ELSE link.call.got
           call == [link.call EXCEPT !.got = got]
<1>1. /\ UNCHANGED <<bridge, inbox, reached>> /\ peer' = [peer EXCEPT !.turn = 0, !.running = Quiet]
      /\ link' = [link EXCEPT !.open = FALSE, !.wire = <<>>, !.call.got = got]
  BY DEF LinkCloses
<1>2. link \in WireRow /\ link.call \in CallRow
  BY DEF BridgeTypes, WireRow
<1>3. got \in {"none", "ok", "error", "cancelled", "timeout", "closed"}
  BY <1>2 DEF CallRow
<1>4. got = link.call.got \/ (link.call.id # 0 /\ got = "closed")
  OBVIOUS
<1> HIDE DEF got
<1>5. call \in CallRow /\ call.id = link.call.id /\ call.offer = link.call.offer /\ call.got = got
  BY <1>2, <1>3 DEF CallRow
<1>6. link' = [link EXCEPT !.open = FALSE, !.wire = <<>>, !.call = call]
  BY <1>1, <1>2 DEF WireRow
<1> HIDE DEF call
<1>7. link' \in WireRow
  <2>0. <<>> \in Seq(CallRow)
    OBVIOUS
  <2>1. PICK e \in Seq(CallRow) : e = <<>>
    BY <2>0, Zenon
  <2>2. link' = [link EXCEPT !.open = FALSE, !.wire = e, !.call = call]
    BY <1>6, <2>1
  <2> QED BY <1>2, <1>5, <2>2 DEF WireRow
<1>8. link'.last = link.last /\ link'.call = call /\ link'.wire = <<>> /\ link'.lines = link.lines
  BY <1>2, <1>6 DEF WireRow
<1>9. CallStays
  BY <1>4, <1>5, <1>8 DEF CallStays, NoNewAnswer, Said
<1>10. peer' \in PeerRow /\ PeerStays
  BY <1>1, ClosedPeer
<1> QED BY <1>1, <1>7, <1>9, <1>10, SameRows, QuietKeeps

LEMMA ReapKeeps ==
    ASSUME BridgeTypes, BatchInv, NEW h \in {"codex", "acp"}, Reap(h) PROVE BridgeTypes' /\ BatchInv'
<1>1. /\ UNCHANGED <<inbox, reached>> /\ peer' = [peer EXCEPT !.turn = 0, !.running = Quiet]
      /\ link' = [link EXCEPT !.open = FALSE, !.wire = <<>>] /\ bridge.harness # "agy"
      /\ bridge' = [bridge EXCEPT !.child = "exited"] \/ bridge' = [bridge EXCEPT !.child = "killed"]
  BY DEF Reap
<1>2. link \in WireRow
  BY DEF BridgeTypes
<1>3. link' \in WireRow
  <2>0. <<>> \in Seq(CallRow)
    OBVIOUS
  <2>1. PICK e \in Seq(CallRow) : e = <<>>
    BY <2>0, Zenon
  <2>2. link' = [link EXCEPT !.open = FALSE, !.wire = e]
    BY <1>1, <2>1
  <2> QED BY <1>2, <2>2 DEF WireRow
<1>4. link'.last = link.last /\ link'.call = link.call /\ link'.wire = <<>> /\ link'.lines = link.lines
  BY <1>1, <1>2 DEF WireRow
<1>5. CallStays
  BY <1>4 DEF CallStays, NoNewAnswer, Said
<1>6. bridge' \in BridgeRow
  BY <1>1, TaskFacts DEF BridgeRow
<1>7. TasksMove
  BY <1>1, TaskFacts DEF BridgeRow, TasksMove
<1>8. peer' \in PeerRow /\ PeerStays
  BY <1>1, ClosedPeer
<1> QED BY <1>1, <1>3, <1>5, <1>6, <1>7, <1>8, SameRows, QuietKeeps

\* Lines that answer nothing are added to what the reader has not read.
LEMMA NoiseFacts ==
    ASSUME BridgeTypes, NEW lines \in Seq(LineRow), NEW noise \in Nat, link' = [link EXCEPT !.lines = lines, !.noise = noise],
           \A i \in DOMAIN lines : lines[i] \in Said \/ (lines[i].kind # "response" /\ lines[i].id = 0)
    PROVE  link' \in WireRow /\ CallStays
<1>1. link \in WireRow
  BY DEF BridgeTypes
<1>2. link' \in WireRow
  BY <1>1 DEF WireRow
<1>3. link'.last = link.last /\ link'.call = link.call /\ link'.wire = link.wire /\ link'.lines = lines
  BY <1>1 DEF WireRow
<1>4. NoNewAnswer
  BY <1>3 DEF NoNewAnswer, Said
<1> QED BY <1>2, <1>3, <1>4 DEF CallStays

LEMMA NoiseKeeps ==
    ASSUME BridgeTypes, BatchInv, AgentAsks \/ CodexTurnEnds PROVE BridgeTypes' /\ BatchInv'
<1>1. UNCHANGED <<bridge, inbox, reached>>
  BY DEF AgentAsks, CodexTurnEnds
<1>2. link \in WireRow /\ link.lines \in Seq(LineRow) /\ link.noise \in Nat /\ peer \in PeerRow /\ peer.turn \in Nat
  BY DEF BridgeTypes, WireRow, PeerRow
<1>3. CASE AgentAsks
  <2> DEFINE l == Line("ask", 0, "none", 0)
             lines == Append(link.lines, l)
             noise == link.noise + 1
  <2>1. l \in LineRow /\ l.kind # "response" /\ l.id = 0
    BY DEF Line, LineRow
  <2>2. link' = [link EXCEPT !.lines = lines, !.noise = noise] /\ noise \in Nat /\ UNCHANGED peer
    BY <1>2, <1>3 DEF AgentAsks
  <2> HIDE DEF l, noise
  <2>3. lines \in Seq(LineRow) /\ \A i \in DOMAIN lines : lines[i] \in Said \/ (lines[i].kind # "response" /\ lines[i].id = 0)
    BY <1>2, <2>1, AppendFacts DEF Said
  <2> HIDE DEF lines
  <2>4. link' \in WireRow /\ CallStays
    BY <2>2, <2>3, NoiseFacts
  <2> QED BY <1>1, <2>2, <2>4, SameRows, QuietKeeps
<1>4. CASE CodexTurnEnds
  <2> DEFINE ls == <<Line("completed", 0, "none", peer.turn), Line("idle", 0, "none", 0)>>
             lines == link.lines \o ls
  <2>1. ls \in Seq(LineRow) /\ \A i \in DOMAIN ls : ls[i].kind # "response" /\ ls[i].id = 0
    BY <1>2 DEF Line, LineRow
  <2>2. link' = [link EXCEPT !.lines = lines] /\ peer' = [peer EXCEPT !.turn = 0]
    BY <1>4 DEF CodexTurnEnds
  <2> HIDE DEF ls
  <2>3. lines \in Seq(LineRow) /\ \A i \in DOMAIN lines : lines[i] \in Said \/ (lines[i].kind # "response" /\ lines[i].id = 0)
    BY <1>2, <2>1, ConcatFacts DEF Said
  <2> HIDE DEF lines
  <2>4. link' = [link EXCEPT !.lines = lines, !.noise = link.noise]
    BY <1>2, <2>2 DEF WireRow
  <2>5. link' \in WireRow /\ CallStays
    BY <1>2, <2>3, <2>4, NoiseFacts
  <2>6. peer' \in PeerRow
    BY <1>2, <2>2 DEF PeerRow
  <2>7. PeerStays
    BY <1>1, <1>2, <2>2 DEF PeerRow, PeerStays
  <2> QED BY <1>1, <2>5, <2>6, <2>7, SameRows, QuietKeeps
<1> QED BY <1>3, <1>4

\* The channel to the driver, and the noise, have no part in the invariant.
LEMMA IncomingFacts ==
    ASSUME BridgeTypes, NEW incoming \in Seq(LineRow), NEW noise \in Nat, link' = [link EXCEPT !.incoming = incoming, !.noise = noise]
    PROVE  /\ link' \in WireRow /\ CallStays /\ link'.last = link.last /\ link'.call = link.call /\ link'.wire = link.wire
           /\ link'.lines = link.lines /\ link'.incoming = incoming
<1>1. link \in WireRow
  BY DEF BridgeTypes
<1>2. link' \in WireRow
  BY <1>1 DEF WireRow
<1>3. /\ link'.last = link.last /\ link'.call = link.call /\ link'.wire = link.wire /\ link'.lines = link.lines
      /\ link'.incoming = incoming
  BY <1>1 DEF WireRow
<1>4. NoNewAnswer
  BY <1>3 DEF NoNewAnswer, Said
<1> QED BY <1>2, <1>3, <1>4 DEF CallStays

LEMMA PoppedFacts ==
    ASSUME BridgeTypes, link.incoming # <<>>, link' = [link EXCEPT !.incoming = Tail(@)]
    PROVE  /\ link' \in WireRow /\ CallStays /\ link'.last = link.last /\ link'.call = link.call /\ link'.wire = link.wire
           /\ link'.lines = link.lines /\ link'.incoming = Tail(link.incoming)
<1>1. link \in WireRow /\ link.noise \in Nat /\ link.incoming \in Seq(LineRow)
  BY DEF BridgeTypes, WireRow
<1>2. Tail(link.incoming) \in Seq(LineRow)
  BY <1>1, TailFacts
<1>3. link' = [link EXCEPT !.incoming = Tail(link.incoming), !.noise = link.noise]
  BY <1>1 DEF WireRow
<1> QED BY <1>1, <1>2, <1>3, IncomingFacts

LEMMA ObservesKeep ==
    ASSUME BridgeTypes, BatchInv, CodexObserves \/ ReadEvent PROVE BridgeTypes' /\ BatchInv'
<1>1. UNCHANGED <<inbox, peer, reached>> /\ link.incoming # <<>> /\ link' = [link EXCEPT !.incoming = Tail(@)]
  BY DEF CodexObserves, ReadEvent
<1>2. link' \in WireRow /\ CallStays
  BY <1>1, PoppedFacts
<1>3. bridge' \in BridgeRow /\ TasksMove
  <2>1. CASE CodexObserves
    <3> DEFINE l == Head(link.incoming)
    <3>1. link.incoming \in Seq(LineRow)
      BY TypedFields
    <3>2. l \in LineRow
      BY <1>1, <3>1, TailFacts
    <3>3. PICK active : bridge' = [bridge EXCEPT !.active = active] /\ active \in {l.turn, 0, bridge.active}
      BY <2>1 DEF CodexObserves
    <3> HIDE DEF l
    <3>4. active \in Nat
      BY <3>2, <3>3, TaskFacts DEF LineRow, BridgeRow
    <3>5. bridge' \in BridgeRow
      BY <3>3, <3>4, TaskFacts DEF BridgeRow
    <3> QED BY <3>3, <3>5, TaskFacts DEF BridgeRow, TasksMove
  <2>2. CASE ReadEvent
    <3>1. PICK busy \in BOOLEAN : bridge' = [bridge EXCEPT !.busy = busy]
      BY <2>2 DEF ReadEvent
    <3>2. bridge' \in BridgeRow
      BY <3>1, TaskFacts DEF BridgeRow
    <3> QED BY <3>1, <3>2, TaskFacts DEF BridgeRow, TasksMove
  <2> QED BY <2>1, <2>2 DEF CodexObserves, ReadEvent
<1> QED BY <1>1, <1>2, <1>3, SameRows, QuietKeeps

\* The channel to the driver is read; the driver goes on while the connection is open.
LEMMA DeclinesKeep ==
    ASSUME BridgeTypes, BatchInv, CodexAnswers \/ AcpAnswers, link.open PROVE BridgeTypes' /\ BatchInv'
<1>1. UNCHANGED <<bridge, inbox, peer, reached>> /\ link.incoming # <<>> /\ link' = [link EXCEPT !.incoming = Tail(@)]
  BY DEF CodexAnswers, AcpAnswers
<1>2. link' \in WireRow /\ CallStays
  BY <1>1, PoppedFacts
<1> QED BY <1>1, <1>2, SameRows, QuietKeeps

\* The opencode server's own turns.
LEMMA OpencodeOpenKeeps ==
    ASSUME BridgeTypes, BatchInv, OpencodeOpen PROVE BridgeTypes' /\ BatchInv'
<1>1. bridge.driver = "setup" /\ UNCHANGED <<inbox, link, reached>> /\ bridge' = BridgeUp
  BY DEF OpencodeOpen, Setup
<1>2. bridge' \in BridgeRow /\ TasksMove
  BY <1>1, UpFacts
<1>3. peer' \in PeerRow /\ PeerStays
  <2>1. CASE peer' = peer
    BY <1>1, <2>1, SameRows
  <2>2. CASE peer' = [peer EXCEPT !.waiting = <<Quiet>>]
    <3>1. Quiet \in CallRow
      BY BridgeAssumption DEF Quiet, CallRow, Offers
    <3>2. <<Quiet>> \in Seq(CallRow)
      BY <3>1
    <3>3. peer \in PeerRow
      BY DEF BridgeTypes
    <3> DEFINE waiting == <<Quiet>>
    <3>4. peer' = [peer EXCEPT !.waiting = waiting] /\ waiting \in Seq(CallRow)
      BY <2>2, <3>2
    <3> HIDE DEF waiting
    <3>5. peer' \in PeerRow
      BY <3>3, <3>4 DEF PeerRow
    <3>6. peer'.running = peer.running /\ peer'.taken = peer.taken
      BY <3>3, <3>4 DEF PeerRow
    <3> QED BY <1>1, <3>5, <3>6 DEF PeerStays
  <2> QED BY <2>1, <2>2 DEF OpencodeOpen
<1> QED BY <1>1, <1>2, <1>3, SameRows, QuietKeeps

\* An event for the tracker.
LEMMA EventFacts ==
    ASSUME BridgeTypes, NEW b \in BOOLEAN
    PROVE  /\ StreamEvent(b) \in Seq(LineRow) /\ StreamEvent(b) # <<>>
           /\ StreamEvent(b)[Len(StreamEvent(b))].kind = (IF b THEN "busy" ELSE "idle")
<1> DEFINE l == Line(IF b THEN "busy" ELSE "idle", 0, "none", 0)
<1>1. l \in LineRow /\ l.kind = (IF b THEN "busy" ELSE "idle")
  BY DEF Line, LineRow
<1>2. link.incoming \in Seq(LineRow)
  BY TypedFields
<1>3. StreamEvent(b) = Append(link.incoming, l)
  BY DEF StreamEvent
<1> HIDE DEF l
<1>4. Append(link.incoming, l) \in Seq(LineRow) /\ Append(link.incoming, l) # <<>> /\ Append(link.incoming, l)[Len(Append(link.incoming, l))] = l
  BY <1>1, <1>2, AppendFacts
<1> QED BY <1>1, <1>3, <1>4

LEMMA OpencodeTurnKeeps ==
    ASSUME BridgeTypes, BatchInv, OpencodeTurn PROVE BridgeTypes' /\ BatchInv'
<1>1. UNCHANGED <<bridge, inbox, reached>>
  BY DEF OpencodeTurn
<1>2. peer \in PeerRow /\ link \in WireRow /\ link.noise \in Nat /\ link.incoming \in Seq(LineRow) /\ peer.waiting \in Seq(CallRow)
  BY DEF BridgeTypes, PeerRow, WireRow
<1>3. link' \in WireRow /\ CallStays
  <2>1. StreamEvent(TRUE) \in Seq(LineRow) /\ StreamEvent(FALSE) \in Seq(LineRow)
    BY EventFacts
  <2>2. PICK incoming \in {link.incoming, StreamEvent(TRUE), StreamEvent(FALSE)} : link' = [link EXCEPT !.incoming = incoming]
    BY DEF OpencodeTurn
  <2>3. link' = [link EXCEPT !.incoming = incoming, !.noise = link.noise]
    BY <1>2, <2>2 DEF WireRow
  <2>4. incoming \in Seq(LineRow)
    BY <1>2, <2>1, <2>2
  <2> QED BY <1>2, <2>3, <2>4, IncomingFacts
<1>4. peer' \in PeerRow /\ PeerStays
  <2>1. CASE peer.waiting # <<>> /\ peer' = [peer EXCEPT !.turn = 1, !.waiting = Tail(@)]
    <3>1. Tail(peer.waiting) \in Seq(CallRow)
      BY <1>2, <2>1, TailFacts
    <3>2. peer' \in PeerRow
      BY <1>2, <2>1, <3>1 DEF PeerRow
    <3>3. peer'.running = peer.running /\ peer'.taken = peer.taken
      BY <1>2, <2>1 DEF PeerRow
    <3> QED BY <1>1, <3>2, <3>3 DEF PeerStays
  <2>2. CASE peer' = [peer EXCEPT !.turn = 0]
    <3>1. peer' \in PeerRow
      BY <1>2, <2>2 DEF PeerRow
    <3>2. peer'.running = peer.running /\ peer'.taken = peer.taken
      BY <1>2, <2>2 DEF PeerRow
    <3> QED BY <1>1, <3>1, <3>2 DEF PeerStays
  <2> QED BY <2>1, <2>2 DEF OpencodeTurn
<1> QED BY <1>1, <1>3, <1>4, SameRows, QuietKeeps

LEMMA TrackKeeps ==
    ASSUME BridgeTypes, BatchInv, Track PROVE BridgeTypes' /\ BatchInv'
<1>1. UNCHANGED <<inbox, peer, reached>>
  BY DEF Track
<1>2. bridge' \in BridgeRow /\ TasksMove
  <2>1. \/ bridge' = [bridge EXCEPT !.stream = "opening"] \/ bridge' = [bridge EXCEPT !.stream = "on", !.busy = FALSE]
        \/ bridge' = [bridge EXCEPT !.stream = "off"]
    BY DEF Track
  <2>2. bridge' \in BridgeRow
    BY <2>1, TaskFacts DEF BridgeRow
  <2>3. /\ bridge'.harness = bridge.harness /\ bridge'.driver = bridge.driver /\ bridge'.queued = bridge.queued
        /\ bridge'.prompt = bridge.prompt /\ bridge'.pump = bridge.pump /\ bridge'.child = bridge.child
    BY <2>1, TaskFacts DEF BridgeRow
  <2> QED BY <2>2, <2>3, TaskFacts DEF TasksMove
<1>3. link' \in WireRow /\ CallStays
  <2>1. CASE link' = link
    BY <2>1, SameRows
  <2>2. CASE link' = [link EXCEPT !.incoming = <<>>, !.noise = @ + 1]
    <3>0. link.noise \in Nat
      BY TypedFields
    <3>1. <<>> \in Seq(LineRow) /\ link.noise + 1 \in Nat
      BY <3>0
    <3>2. PICK e \in Seq(LineRow), n \in Nat : e = <<>> /\ n = link.noise + 1
      BY <3>1, Zenon
    <3>3. link' = [link EXCEPT !.incoming = e, !.noise = n]
      BY <2>2, <3>2
    <3> QED BY <3>3, IncomingFacts
  <2> QED BY <2>1, <2>2 DEF Track
<1> QED BY <1>1, <1>2, <1>3, SameRows, QuietKeeps

-----------------------------------------------------------------------------
(* The driver answers for a delivery.                                          *)

LEMMA RepliedFacts ==
    ASSUME BridgeTypes, NEW yes \in BOOLEAN, inbox' = Replied(yes), inbox.at \in {"channel", "held"}, yes => HandedOver
    PROVE  inbox' \in InboxRow /\ Settles(yes)
<1> DEFINE answer == IF yes THEN "yes" ELSE "no"
<1>1. answer \in {"none", "yes", "no"} /\ inbox \in InboxRow /\ inbox' = [inbox EXCEPT !.answer = answer, !.at = "answered"]
  BY DEF Replied, BridgeTypes
<1> HIDE DEF answer
<1>2. inbox' \in InboxRow
  BY <1>1 DEF InboxRow
<1>3. /\ inbox'.offers = inbox.offers /\ inbox'.batch = inbox.batch /\ inbox'.cursor = inbox.cursor
      /\ inbox'.skipped = inbox.skipped /\ inbox'.at = "answered" /\ inbox'.answer = answer
  BY <1>1 DEF InboxRow
<1> QED BY <1>2, <1>3 DEF Settles, answer

\* A driver that ends drops what it holds: that is a no.
LEMMA DropFacts ==
    ASSUME BridgeTypes, inbox' = DropHeld
    PROVE  inbox' \in InboxRow /\ (InboxStays \/ Settles(FALSE))
<1>1. CASE inbox.at \in {"channel", "held"}
  <2>1. inbox' = Replied(FALSE)
    BY <1>1 DEF DropHeld, Replied, Dropped
  <2> QED BY <1>1, <2>1, RepliedFacts
<1>2. CASE inbox.at \notin {"channel", "held"}
  BY <1>2 DEF DropHeld, BridgeTypes, InboxStays
<1> QED BY <1>1, <1>2

LEMMA EndedFacts ==
    ASSUME BridgeTypes, BatchInv, DriverEnds \/ PromptOutlives
    PROVE  /\ bridge' \in BridgeRow /\ TasksMove /\ bridge'.child = bridge.child
           /\ inbox' \in InboxRow /\ (InboxStays \/ Settles(FALSE))
<1>1. \/ bridge' = [bridge EXCEPT !.driver = "ended", !.active = 0, !.prompt = "none", !.queued = 0]
      \/ bridge' = [bridge EXCEPT !.driver = "ended", !.queued = 0]
  BY DEF DriverEnds, PromptOutlives
<1>2. bridge' \in BridgeRow
  <2>1. bridge \in BridgeRow /\ 0 \in Offers
    BY TaskFacts
  <2>2. CASE bridge' = [bridge EXCEPT !.driver = "ended", !.active = 0, !.prompt = "none", !.queued = 0]
    BY <2>1, <2>2 DEF BridgeRow
  <2>3. CASE bridge' = [bridge EXCEPT !.driver = "ended", !.queued = 0]
    BY <2>1, <2>3 DEF BridgeRow
  <2> QED BY <1>1, <2>2, <2>3
<1>3. /\ bridge'.harness = bridge.harness /\ bridge'.driver = "ended" /\ bridge'.queued = 0
      /\ bridge'.pump = bridge.pump /\ bridge'.child = bridge.child
  BY <1>1, TaskFacts DEF BridgeRow
<1>4. TasksMove
  BY <1>3 DEF TasksMove
<1>5. inbox' = inbox \/ inbox' = DropHeld
  BY DEF DriverEnds, PromptOutlives
<1>6. inbox' \in InboxRow /\ (InboxStays \/ Settles(FALSE))
  BY <1>5, DropFacts, SameRows
<1> QED BY <1>2, <1>3, <1>4, <1>6

LEMMA SettledKeeps ==
    ASSUME BridgeTypes, BatchInv, bridge' \in BridgeRow, TasksMove, inbox' \in InboxRow, link' \in WireRow, CallOver,
           UNCHANGED <<peer, reached>>,
           \/ InboxStays /\ (bridge.harness = "opencode" => link'.call = link.call)
           \/ Released /\ \E yes \in BOOLEAN : Settles(yes)
    PROVE  BridgeTypes' /\ BatchInv'
<1>1. BridgeTypes'
  BY DEF BridgeTypes
<1> QED BY <1>1, SettleKeeps

LEMMA QuietCall ==
    ASSUME BridgeTypes, link' = [link EXCEPT !.call = Quiet]
    PROVE  link' \in WireRow /\ CallOver /\ link'.call = Quiet
<1>1. Quiet \in CallRow
  BY BridgeAssumption DEF Quiet, CallRow, Offers
<1>2. link \in WireRow
  BY DEF BridgeTypes
<1>3. link' \in WireRow
  BY <1>1, <1>2 DEF WireRow
<1>4. link'.last = link.last /\ link'.wire = link.wire /\ link'.lines = link.lines /\ link'.call = Quiet
  BY <1>2 DEF WireRow
<1> QED BY <1>3, <1>4 DEF CallOver

\* The driver ends while no request waits, or with the one that does.
LEMMA EndsKeep ==
    ASSUME BridgeTypes, BatchInv, CodexStops \/ AcpStops \/ OpencodeStops \/ AgyStops \/ ChannelEnds
                                  \/ ((CodexAnswers \/ AcpAnswers) /\ ~link.open)
    PROVE  BridgeTypes' /\ BatchInv'
<1>1. UNCHANGED <<peer, reached>> /\ (DriverEnds \/ PromptOutlives)
  BY DEF CodexStops, AcpStops, OpencodeStops, AgyStops, ChannelEnds, CodexAnswers, AcpAnswers
<1>2. /\ bridge' \in BridgeRow /\ TasksMove /\ bridge'.child = bridge.child
      /\ inbox' \in InboxRow /\ (InboxStays \/ Settles(FALSE))
  BY <1>1, EndedFacts
<1>3. Released
  BY <1>2 DEF Released, CodexStops, AcpStops, OpencodeStops, AgyStops, ChannelEnds, CodexAnswers, AcpAnswers, DriverLive, HasLink
<1>4. link.call.id = 0 => link.call.offer = 0
  BY DEF BatchInv, IdsGrow
<1>5. link' \in WireRow /\ CallOver /\ (bridge.harness = "opencode" => link'.call = link.call)
  <2>1. CASE AcpStops
    BY <2>1, QuietCall DEF AcpStops
  <2>2. CASE CodexAnswers \/ AcpAnswers
    <3>1. link.incoming # <<>> /\ link' = [link EXCEPT !.incoming = Tail(@)] /\ bridge.harness \in {"codex", "acp"}
          /\ (bridge.harness = "codex" => link.call.id = 0)
      BY <2>2 DEF CodexAnswers, AcpAnswers, DriverLive
    <3>2. /\ link' \in WireRow /\ link'.last = link.last /\ link'.call = link.call /\ link'.wire = link.wire
          /\ link'.lines = link.lines
      BY <3>1, PoppedFacts
    <3> QED BY <1>4, <3>1, <3>2 DEF CallOver
  <2>3. CASE CodexStops \/ OpencodeStops \/ AgyStops \/ ChannelEnds
    <3>1. link' = link /\ (bridge.harness \in {"codex", "opencode"} => link.call.id = 0)
      BY <2>3 DEF CodexStops, OpencodeStops, AgyStops, ChannelEnds, HasLink
    <3>2. link' \in WireRow
      BY <3>1, SameRows
    <3> QED BY <1>4, <3>1, <3>2 DEF CallOver
  <2> QED BY <2>1, <2>2, <2>3
<1> QED BY <1>1, <1>2, <1>3, <1>5, SettledKeeps

\* The answer of a request of the delivery on offer is passed on; the rest is the caller's.
LEMMA HeardFacts ==
    ASSUME BridgeTypes, BatchInv, link.call.offer # 0, link.call.offer = inbox.offers, inbox.at = "held",
           inbox' = Replied(link.call.got = "ok")
    PROVE  inbox' \in InboxRow /\ \E yes \in BOOLEAN : Settles(yes)
<1> DEFINE yes == link.call.got = "ok"
<1>1. yes \in BOOLEAN /\ (yes => HandedOver)
  BY DEF BatchInv, TakenTexts, OnOffer
<1>2. inbox' = Replied(yes)
  OBVIOUS
<1> HIDE DEF yes
<1> QED BY <1>1, <1>2, RepliedFacts

LEMMA CodexHearsKeeps ==
    ASSUME BridgeTypes, BatchInv, CodexHears PROVE BridgeTypes' /\ BatchInv'
<1>1. UNCHANGED <<peer, reached>> /\ bridge.harness = "codex" /\ bridge.driver = "live" /\ link.call.got # "none"
  BY DEF CodexHears
<1>2. link.call \in CallRow /\ link.call.id # 0 /\ link.call.offer \in Offers /\ link.call.turn \in Nat /\ inbox.offers \in Nat /\ link.call.offer <= inbox.offers
  <2>1. link.call \in CallRow /\ inbox.offers \in Nat
    BY TypedFields
  <2>2. link.call.offer \in Offers /\ link.call.turn \in Nat
    BY <2>1 DEF CallRow
  <2> QED BY <1>1, <2>1, <2>2 DEF BatchInv, IdsGrow, OfferStages
<1>3. link.call.offer # 0 => link.call.offer = inbox.offers /\ inbox.at = "held"
  BY <1>1 DEF BatchInv, OfferStages
<1>4. CASE /\ link.call.what = "steer" /\ FallsBack(link.call.got)
           /\ bridge' = [bridge EXCEPT !.active = 0] /\ link' = Ask("start", 0, link.call.offer) /\ inbox' = inbox
  <2>1. Fresh(link.call.offer)
    BY <1>1, <1>4 DEF FallsBack, BatchInv, FreshTexts
  <2>2. link' \in WireRow /\ Asked(link.call.offer)
    BY <1>2, <1>4, AskFacts
  <2>3. bridge' \in BridgeRow
    BY <1>4, TaskFacts DEF BridgeRow
  <2>4. /\ bridge'.harness = bridge.harness /\ bridge'.driver = bridge.driver /\ bridge'.queued = bridge.queued
        /\ bridge'.prompt = bridge.prompt /\ bridge'.pump = bridge.pump /\ bridge'.child = bridge.child
    BY <1>4, TaskFacts DEF BridgeRow
  <2>5. TasksMove
    BY <2>4, TaskFacts DEF TasksMove
  <2>6. bridge.queued = 0
    BY <1>1 DEF BatchInv, OfferStages
  <2>7. AskedAt(link.call.offer)
    BY <1>1, <1>3, <1>4, <2>4, <2>6 DEF AskedAt
  <2>8. BridgeTypes'
    BY <1>1, <1>4, <2>2, <2>3 DEF BridgeTypes
  <2>9. BatchInv'
    BY <1>1, <1>2, <2>1, <2>2, <2>5, <2>7, AskKeeps
  <2> QED BY <2>8, <2>9
<1>5. CASE /\ \E active \in {link.call.turn, bridge.active} : bridge' = [bridge EXCEPT !.active = active]
           /\ link' = [link EXCEPT !.call = Quiet]
           /\ inbox' = IF link.call.offer = 0 THEN inbox ELSE Replied(link.call.got = "ok")
  <2>1. PICK active \in {link.call.turn, bridge.active} : bridge' = [bridge EXCEPT !.active = active]
    BY <1>5
  <2>2. active \in Nat
    BY <1>2, <2>1, TaskFacts DEF BridgeRow
  <2>3. bridge' \in BridgeRow
    BY <2>1, <2>2, TaskFacts DEF BridgeRow
  <2>4. /\ bridge'.harness = bridge.harness /\ bridge'.driver = bridge.driver /\ bridge'.queued = bridge.queued
        /\ bridge'.prompt = bridge.prompt /\ bridge'.pump = bridge.pump /\ bridge'.child = bridge.child
    BY <2>1, TaskFacts DEF BridgeRow
  <2>5. TasksMove
    BY <2>4, TaskFacts DEF TasksMove
  <2>6. link' \in WireRow /\ CallOver
    BY <1>5, QuietCall
  <2>7. inbox' \in InboxRow /\ (InboxStays \/ \E yes \in BOOLEAN : Settles(yes))
    BY <1>3, <1>5, HeardFacts, SameRows
  <2>8. Released
    BY <1>1 DEF Released
  <2> QED BY <1>1, <2>3, <2>5, <2>6, <2>7, <2>8, SettledKeeps
<1>6. CASE DriverEnds /\ link' = [link EXCEPT !.call = Quiet]
  <2>1. /\ bridge' \in BridgeRow /\ TasksMove /\ inbox' \in InboxRow /\ (InboxStays \/ Settles(FALSE))
    BY <1>6, EndedFacts
  <2>2. link' \in WireRow /\ CallOver
    BY <1>6, QuietCall
  <2>3. Released
    BY <1>1 DEF Released
  <2> QED BY <1>1, <2>1, <2>2, <2>3, SettledKeeps
<1> QED BY <1>4, <1>5, <1>6 DEF CodexHears

LEMMA PromptEndsKeeps ==
    ASSUME BridgeTypes, BatchInv, AcpPromptEnds PROVE BridgeTypes' /\ BatchInv'
<1>1. /\ UNCHANGED <<peer, reached>> /\ bridge.harness = "acp" /\ bridge' = [bridge EXCEPT !.prompt = "answered"]
      /\ link' = [link EXCEPT !.call = Quiet]
      /\ inbox' = IF link.call.offer = inbox.offers /\ inbox.at = "held" THEN Replied(link.call.got = "ok") ELSE inbox
  BY DEF AcpPromptEnds
<1>2. bridge' \in BridgeRow
  BY <1>1, TaskFacts DEF BridgeRow
<1>3. /\ bridge'.harness = bridge.harness /\ bridge'.driver = bridge.driver /\ bridge'.queued = bridge.queued
      /\ bridge'.prompt = "answered" /\ bridge'.pump = bridge.pump /\ bridge'.child = bridge.child
  BY <1>1, TaskFacts DEF BridgeRow
<1>4. TasksMove
  BY <1>3, TaskFacts DEF TasksMove
<1>5. link' \in WireRow /\ CallOver
  BY <1>1, QuietCall
<1>6. inbox' \in InboxRow /\ (InboxStays \/ \E yes \in BOOLEAN : Settles(yes))
  <2>1. inbox.at = "held" => inbox.offers # 0
    BY DEF BatchInv, OfferStages
  <2> QED BY <1>1, <2>1, HeardFacts, SameRows
<1>7. Released
  BY <1>1 DEF Released
<1> QED BY <1>1, <1>2, <1>4, <1>5, <1>6, <1>7, SettledKeeps

LEMMA OpencodeHearsKeeps ==
    ASSUME BridgeTypes, BatchInv, OpencodeHears PROVE BridgeTypes' /\ BatchInv'
<1>1. /\ UNCHANGED <<peer, reached>> /\ bridge.harness = "opencode" /\ link.call.got # "none"
      /\ link' = [link EXCEPT !.call = Quiet] /\ inbox' = Replied(link.call.got = "ok")
  BY DEF OpencodeHears
<1>2. PICK busy \in BOOLEAN : bridge' = [bridge EXCEPT !.busy = busy]
  BY TaskFacts DEF OpencodeHears, BridgeRow
<1>3. bridge' \in BridgeRow
  BY <1>2, TaskFacts DEF BridgeRow
<1>4. /\ bridge'.harness = bridge.harness /\ bridge'.driver = bridge.driver /\ bridge'.queued = bridge.queued
      /\ bridge'.prompt = bridge.prompt /\ bridge'.pump = bridge.pump /\ bridge'.child = bridge.child
  BY <1>2, TaskFacts DEF BridgeRow
<1>5. TasksMove
  BY <1>4, TaskFacts DEF TasksMove
<1>6. link' \in WireRow /\ CallOver
  BY <1>1, QuietCall
<1>7. link.call.offer # 0 /\ link.call.offer = inbox.offers /\ inbox.at = "held"
  BY <1>1 DEF BatchInv, IdsGrow, OfferStages
<1>8. inbox' \in InboxRow /\ (\E yes \in BOOLEAN : Settles(yes))
  BY <1>1, <1>7, HeardFacts
<1>9. Released
  BY <1>1 DEF Released
<1> QED BY <1>1, <1>3, <1>5, <1>6, <1>8, <1>9, SettledKeeps

LEMMA AgyExitsKeeps ==
    ASSUME BridgeTypes, BatchInv, NEW how, AgyExits(how) PROVE BridgeTypes' /\ BatchInv'
<1>1. UNCHANGED <<link, peer, reached>> /\ bridge.harness = "agy" /\ bridge.child = "running"
  BY DEF AgyExits
<1>2. PICK child \in {"exited", "killed"} : bridge' = [bridge EXCEPT !.child = child]
  BY DEF AgyExits
<1>3. bridge' \in BridgeRow
  BY <1>2, TaskFacts DEF BridgeRow
<1>4. /\ bridge'.harness = bridge.harness /\ bridge'.driver = bridge.driver /\ bridge'.queued = bridge.queued
      /\ bridge'.prompt = bridge.prompt /\ bridge'.pump = bridge.pump /\ bridge'.child = child
  BY <1>2, TaskFacts DEF BridgeRow
<1>5. TasksMove /\ Released
  BY <1>2, <1>4, TaskFacts DEF TasksMove, Released
<1>6. inbox.at = "held" /\ HandedOver
  BY <1>1 DEF BatchInv, TakenTexts
<1> DEFINE yes == how \in {"success", "timeout"}
<1>7. yes \in BOOLEAN /\ inbox' = Replied(yes)
  BY DEF AgyExits
<1> HIDE DEF yes
<1>8. inbox' \in InboxRow /\ Settles(yes)
  BY <1>6, <1>7, RepliedFacts
<1>9. link' \in WireRow /\ CallOver
  BY <1>1, SameRows DEF CallOver
<1>10. \E y \in BOOLEAN : Settles(y)
  BY <1>7, <1>8, Zenon
<1> QED BY <1>1, <1>3, <1>5, <1>8, <1>9, <1>10, SettledKeeps

-----------------------------------------------------------------------------
(* A delivery is taken up by its driver.                                       *)

LEMMA HeldFacts ==
    ASSUME BridgeTypes, inbox.at = "channel", inbox' = [inbox EXCEPT !.at = "held"]
    PROVE  /\ inbox' \in InboxRow /\ inbox'.offers = inbox.offers /\ inbox'.batch = inbox.batch /\ inbox'.cursor = inbox.cursor
           /\ inbox'.skipped = inbox.skipped /\ inbox'.answer = inbox.answer /\ inbox'.at = "held"
<1>1. inbox \in InboxRow
  BY DEF BridgeTypes
<1>2. inbox' \in InboxRow
  BY <1>1 DEF InboxRow
<1>3. /\ inbox'.offers = inbox.offers /\ inbox'.batch = inbox.batch /\ inbox'.cursor = inbox.cursor
      /\ inbox'.skipped = inbox.skipped /\ inbox'.answer = inbox.answer /\ inbox'.at = "held"
  BY <1>1 DEF InboxRow
<1> QED BY <1>2, <1>3

\* What BatchInv says of a delivery that waits in the channel.
LEMMA ChannelFacts ==
    ASSUME BridgeTypes, BatchInv, inbox.at = "channel"
    PROVE  /\ inbox.offers \in Offers /\ inbox.offers \in Nat /\ inbox.offers # 0 /\ Fresh(inbox.offers)
           /\ inbox.answer = "none" /\ bridge.queued # inbox.offers
<1>1. inbox.offers \in Offers /\ inbox.offers \in Nat
  BY TypedFields
<1>2. inbox.offers # 0 /\ inbox.answer = "none" /\ (bridge.queued # 0 => bridge.queued # inbox.offers)
  BY DEF BatchInv, OfferStages
<1>3. Fresh(inbox.offers)
  BY DEF BatchInv, FreshTexts
<1> QED BY <1>1, <1>2, <1>3

LEMMA CodexTakesKeeps ==
    ASSUME BridgeTypes, BatchInv, CodexTakes PROVE BridgeTypes' /\ BatchInv'
<1>1. /\ UNCHANGED <<bridge, peer, reached>> /\ bridge.harness = "codex" /\ bridge.driver = "live"
      /\ inbox.at = "channel" /\ inbox' = [inbox EXCEPT !.at = "held"]
  BY DEF CodexTakes, DriverLive
<1>2. PICK what \in {"start", "steer", "prompt"}, turn \in Nat : link' = Ask(what, turn, inbox.offers)
  <2>1. bridge.active \in Nat
    BY TaskFacts DEF BridgeRow
  <2> QED BY <2>1 DEF CodexTakes
<1>3. /\ inbox' \in InboxRow /\ inbox'.offers = inbox.offers /\ inbox'.batch = inbox.batch /\ inbox'.cursor = inbox.cursor
      /\ inbox'.skipped = inbox.skipped /\ inbox'.answer = inbox.answer /\ inbox'.at = "held"
  BY <1>1, HeldFacts
<1>4. inbox.offers \in Offers /\ inbox.offers \in Nat /\ inbox.offers # 0 /\ Fresh(inbox.offers) /\ bridge.queued # inbox.offers
  BY <1>1, ChannelFacts
<1>5. link' \in WireRow /\ Asked(inbox.offers)
  BY <1>2, <1>4, AskFacts
<1>6. bridge' \in BridgeRow /\ TasksMove
  BY <1>1, SameRows
<1>7. AskedAt(inbox.offers)
  BY <1>1, <1>3, <1>4 DEF AskedAt
<1>8. BridgeTypes'
  BY <1>1, <1>3, <1>5, <1>6 DEF BridgeTypes
<1>9. BatchInv'
  BY <1>1, <1>4, <1>5, <1>6, <1>7, AskKeeps
<1> QED BY <1>8, <1>9

LEMMA OpencodePostsKeeps ==
    ASSUME BridgeTypes, BatchInv, OpencodePosts PROVE BridgeTypes' /\ BatchInv'
<1> DEFINE n == link.last + 1
           c == [Quiet EXCEPT !.id = n, !.what = "post", !.offer = inbox.offers]
           wire == Append(link.wire, c)
<1>1. /\ UNCHANGED <<inbox, peer, reached>> /\ bridge.harness = "opencode" /\ bridge.driver = "live"
      /\ inbox.at = "held" /\ link.call.id = 0 /\ bridge' = [bridge EXCEPT !.busy = TRUE]
      /\ link' = [link EXCEPT !.last = n, !.call = c, !.wire = wire]
  BY DEF OpencodePosts, DriverLive, MarkBefore
<1>2. link.last \in Nat /\ inbox.offers \in Offers /\ inbox.offers \in Nat /\ link.wire \in Seq(CallRow)
  BY TypedFields
<1>3. n \in Nat
  BY <1>2
<1>4. c \in CallRow /\ c.id = n /\ c.offer = inbox.offers /\ c.got = "none"
  <2> HIDE DEF n
  <2> QED BY <1>2, <1>3 DEF Quiet, CallRow
<1> HIDE DEF c
<1>5. wire \in Seq(CallRow)
  BY <1>2, <1>4, AppendFacts
<1>6. link \in WireRow
  BY DEF BridgeTypes
<1>7. link' \in WireRow /\ link'.last = n /\ link'.call = c /\ link'.wire = wire /\ link'.lines = link.lines
  <2> HIDE DEF n, wire
  <2>1. link' \in WireRow
    BY <1>1, <1>3, <1>4, <1>5, <1>6 DEF WireRow
  <2> QED BY <1>1, <1>6, <2>1 DEF WireRow
<1>8. Asked(inbox.offers)
  BY <1>4, <1>7 DEF Asked
<1>9. bridge' \in BridgeRow
  BY <1>1, TaskFacts DEF BridgeRow
<1>10. /\ bridge'.harness = bridge.harness /\ bridge'.driver = bridge.driver /\ bridge'.queued = bridge.queued
       /\ bridge'.prompt = bridge.prompt /\ bridge'.pump = bridge.pump /\ bridge'.child = bridge.child
  BY <1>1, TaskFacts DEF BridgeRow
<1>11. TasksMove
  BY <1>10, TaskFacts DEF TasksMove
<1>12. bridge.queued = 0 /\ inbox.offers # 0 /\ Fresh(inbox.offers)
  BY <1>1 DEF BatchInv, OfferStages, FreshTexts
<1>13. AskedAt(inbox.offers)
  BY <1>1, <1>10, <1>12 DEF AskedAt
<1>14. BridgeTypes'
  BY <1>1, <1>7, <1>9 DEF BridgeTypes
<1>15. BatchInv'
  BY <1>1, <1>2, <1>8, <1>11, <1>12, <1>13, AskKeeps
<1> QED BY <1>14, <1>15

LEMMA AcpFinishKeeps ==
    ASSUME BridgeTypes, BatchInv, AcpFinish PROVE BridgeTypes' /\ BatchInv'
<1> DEFINE prompt == IF bridge.queued = 0 THEN "none" ELSE "running"
<1>1. /\ UNCHANGED <<inbox, peer, reached>> /\ bridge.harness = "acp" /\ bridge.driver = "live"
      /\ bridge' = [bridge EXCEPT !.prompt = prompt, !.queued = 0] /\ prompt \in {"none", "running", "answered"}
      /\ link' = IF bridge.queued = 0 THEN link ELSE Ask("prompt", 0, bridge.queued)
  BY DEF AcpFinish
<1> HIDE DEF prompt
<1>2. bridge' \in BridgeRow
  BY <1>1, TaskFacts DEF BridgeRow
<1>3. /\ bridge'.harness = bridge.harness /\ bridge'.driver = bridge.driver /\ bridge'.queued = 0
      /\ bridge'.pump = bridge.pump /\ bridge'.child = bridge.child
  BY <1>1, TaskFacts DEF BridgeRow
<1>4. TasksMove
  BY <1>3 DEF TasksMove
<1>5. CASE bridge.queued = 0
  BY <1>1, <1>2, <1>4, <1>5, TasksOnly
<1>6. CASE bridge.queued # 0
  <2>1. bridge.queued \in Offers /\ Fresh(bridge.queued) /\ bridge.queued <= inbox.offers
        /\ (inbox.at = "channel" => bridge.queued # inbox.offers)
    BY <1>6, TypedFields DEF BatchInv, FreshTexts, OfferStages
  <2>2. link' \in WireRow /\ Asked(bridge.queued)
    BY <1>1, <1>6, <2>1, AskFacts
  <2>3. AskedAt(bridge.queued)
    BY <1>1, <1>3, <1>6, <2>1 DEF AskedAt
  <2>4. BridgeTypes'
    BY <1>1, <1>2, <2>2 DEF BridgeTypes
  <2>5. BatchInv'
    BY <1>1, <1>4, <2>1, <2>2, <2>3, AskKeeps
  <2> QED BY <2>4, <2>5
<1> QED BY <1>5, <1>6

\* A driver holds the delivery for later.
LEMMA HoldsKeep ==
    ASSUME BridgeTypes, BatchInv, inbox.at = "channel", inbox' = [inbox EXCEPT !.at = "held"], UNCHANGED <<link, peer, reached>>,
           bridge' \in BridgeRow, bridge.harness \in {"acp", "opencode"}, bridge'.harness = bridge.harness,
           bridge'.driver = bridge.driver, bridge'.pump = bridge.pump, bridge'.prompt = bridge.prompt, bridge.driver # "setup",
           bridge'.queued = bridge.queued \/ (bridge.harness = "acp" /\ bridge.prompt # "none" /\ bridge'.queued = inbox.offers)
    PROVE  BridgeTypes' /\ BatchInv'
<1>1. /\ IdsGrow /\ OfferStages /\ OneTextEach /\ FreshTexts /\ TakenTexts /\ BatchIsNext
      /\ OfferReachesOnce /\ OnlyTakenIsPassed
  BY DEF BatchInv
<1>2. /\ inbox' \in InboxRow /\ inbox'.offers = inbox.offers /\ inbox'.batch = inbox.batch /\ inbox'.cursor = inbox.cursor
      /\ inbox'.skipped = inbox.skipped /\ inbox'.answer = inbox.answer /\ inbox'.at = "held"
  BY HeldFacts
<1>3. inbox.offers \in Offers /\ inbox.offers \in Nat /\ inbox.offers # 0 /\ Fresh(inbox.offers) /\ inbox.answer = "none"
  BY ChannelFacts
<1>4. Sent' = Sent /\ Said' = Said /\ (\A o : Fresh(o) => Fresh(o)') /\ (HandedOver' <=> HandedOver)
  BY <1>2, UnchangedFrame DEF HandedOver
<1>5. BridgeTypes'
  BY <1>2 DEF BridgeTypes
<1>6. IdsGrow' /\ OneTextEach' /\ OfferReachesOnce'
  BY <1>1, <1>4 DEF IdsGrow, OneTextEach, OfferReachesOnce
<1>7. OfferStages'
  BY <1>1, <1>2, <1>3 DEF OfferStages
<1>8. FreshTexts'
  <2>1. \A o \in Offers : o > inbox'.offers => Fresh(o)'
    BY <1>1, <1>2, <1>4 DEF FreshTexts
  <2>2. Fresh(inbox.offers)'
    BY <1>2, <1>3, <1>4 DEF Fresh
  <2>3. Fresh(bridge.queued)'
    <3>1. Fresh(bridge'.queued)
      BY <1>1, <1>3 DEF FreshTexts
    <3> QED BY <1>4, <3>1 DEF Fresh
  <2> QED BY <1>2, <2>1, <2>2, <2>3 DEF FreshTexts
<1>9. TakenTexts'
  BY <1>1, <1>2, <1>4 DEF TakenTexts, OnOffer
<1>10. BatchIsNext' /\ OnlyTakenIsPassed'
  BY <1>1, <1>2 DEF BatchIsNext, OnlyTakenIsPassed
<1> QED BY <1>5, <1>6, <1>7, <1>8, <1>9, <1>10 DEF BatchInv

LEMMA OpencodeTakesKeeps ==
    ASSUME BridgeTypes, BatchInv, OpencodeTakes PROVE BridgeTypes' /\ BatchInv'
<1>1. /\ UNCHANGED <<bridge, link, peer, reached>> /\ bridge.harness = "opencode" /\ bridge.driver = "live"
      /\ inbox.at = "channel" /\ inbox' = [inbox EXCEPT !.at = "held"]
  BY DEF OpencodeTakes, DriverLive
<1>2. bridge' \in BridgeRow
  BY <1>1, SameRows
<1> QED BY <1>1, <1>2, HoldsKeep

LEMMA AcpTakesKeeps ==
    ASSUME BridgeTypes, BatchInv, AcpTakes PROVE BridgeTypes' /\ BatchInv'
<1>1. /\ UNCHANGED <<peer, reached>> /\ bridge.harness = "acp" /\ bridge.driver = "live"
      /\ inbox.at = "channel" /\ inbox' = [inbox EXCEPT !.at = "held"]
  BY DEF AcpTakes, DriverLive
<1>2. inbox.offers \in Offers /\ inbox.offers \in Nat /\ inbox.offers # 0 /\ Fresh(inbox.offers) /\ bridge.queued # inbox.offers
  BY <1>1, ChannelFacts
<1>3. CASE bridge.prompt = "none" /\ bridge' = [bridge EXCEPT !.prompt = "running"] /\ link' = Ask("prompt", 0, inbox.offers)
  <2>1. /\ inbox' \in InboxRow /\ inbox'.offers = inbox.offers /\ inbox'.batch = inbox.batch /\ inbox'.cursor = inbox.cursor
        /\ inbox'.skipped = inbox.skipped /\ inbox'.answer = inbox.answer /\ inbox'.at = "held"
    BY <1>1, HeldFacts
  <2>2. bridge' \in BridgeRow
    BY <1>3, TaskFacts DEF BridgeRow
  <2>3. /\ bridge'.harness = bridge.harness /\ bridge'.driver = bridge.driver /\ bridge'.queued = bridge.queued
        /\ bridge'.prompt = "running" /\ bridge'.pump = bridge.pump /\ bridge'.child = bridge.child
    BY <1>3, TaskFacts DEF BridgeRow
  <2>4. TasksMove
    BY <2>3 DEF TasksMove
  <2>5. link' \in WireRow /\ Asked(inbox.offers)
    BY <1>2, <1>3, AskFacts
  <2>6. AskedAt(inbox.offers)
    BY <1>1, <1>2, <2>1, <2>3 DEF AskedAt
  <2>7. BridgeTypes'
    BY <1>1, <2>1, <2>2, <2>5 DEF BridgeTypes
  <2>8. BatchInv'
    BY <1>1, <1>2, <2>4, <2>5, <2>6, AskKeeps
  <2> QED BY <2>7, <2>8
<1>4. CASE bridge.prompt # "none" /\ bridge' = [bridge EXCEPT !.queued = inbox.offers] /\ link' = link
  <2>1. bridge' \in BridgeRow
    BY <1>2, <1>4, TaskFacts DEF BridgeRow
  <2>2. /\ bridge'.harness = bridge.harness /\ bridge'.driver = bridge.driver /\ bridge'.queued = inbox.offers
        /\ bridge'.prompt = bridge.prompt /\ bridge'.pump = bridge.pump
    BY <1>4, TaskFacts DEF BridgeRow
  <2> QED BY <1>1, <1>4, <2>1, <2>2, HoldsKeep
<1> QED BY <1>3, <1>4 DEF AcpTakes

LEMMA TakesFacts ==
    ASSUME BridgeTypes, NEW o
    PROVE  /\ Takes(o, peer) \in PeerRow /\ peer.taken \subseteq Takes(o, peer).taken
           /\ Takes(o, peer).running = peer.running /\ Takes(o, peer).waiting = peer.waiting /\ Takes(o, peer).turn = peer.turn
           /\ o = inbox.offers => inbox.batch \subseteq Takes(o, peer).taken
<1> DEFINE taken == IF o = inbox.offers THEN peer.taken \union inbox.batch ELSE peer.taken
<1>1. peer \in PeerRow /\ peer.taken \in SUBSET Nat /\ inbox.batch \in SUBSET Nat
  BY DEF BridgeTypes, PeerRow, InboxRow
<1>2. taken \in SUBSET Nat /\ peer.taken \subseteq taken /\ (o = inbox.offers => inbox.batch \subseteq taken)
  BY <1>1
<1>3. Takes(o, peer) = [peer EXCEPT !.taken = taken]
  BY DEF Takes
<1> HIDE DEF taken
<1>4. Takes(o, peer) \in PeerRow
  BY <1>1, <1>2, <1>3 DEF PeerRow
<1>5. /\ Takes(o, peer).running = peer.running /\ Takes(o, peer).waiting = peer.waiting /\ Takes(o, peer).turn = peer.turn
      /\ Takes(o, peer).taken = taken
  BY <1>1, <1>3 DEF PeerRow
<1> QED BY <1>2, <1>4, <1>5

LEMMA ArrivesTyped ==
    ASSUME BridgeTypes, NEW o \in Offers, TextArrives(o) PROVE reached' \in [Offers -> Nat]
<1>1. reached \in [Offers -> Nat]
  BY DEF BridgeTypes
<1> QED BY <1>1 DEF TextArrives

LEMMA AgyRunsKeeps ==
    ASSUME BridgeTypes, BatchInv, AgyRuns PROVE BridgeTypes' /\ BatchInv'
<1>1. UNCHANGED link /\ bridge.harness = "agy" /\ bridge.driver = "live" /\ inbox.at = "channel"
  BY DEF AgyRuns, DriverLive
<1>2. CASE bridge' = [bridge EXCEPT !.driver = "ended"] /\ inbox' = Replied(FALSE) /\ UNCHANGED <<peer, reached>>
  <2>1. bridge' \in BridgeRow
    BY <1>2, TaskFacts DEF BridgeRow
  <2>2. /\ bridge'.harness = bridge.harness /\ bridge'.driver = "ended" /\ bridge'.queued = bridge.queued
        /\ bridge'.prompt = bridge.prompt /\ bridge'.pump = bridge.pump /\ bridge'.child = bridge.child
    BY <1>2, TaskFacts DEF BridgeRow
  <2>3. bridge.child # "running"
    BY <1>1 DEF BatchInv, TakenTexts
  <2>4. TasksMove /\ Released
    BY <2>2, <2>3, TaskFacts DEF TasksMove, Released
  <2>5. inbox' \in InboxRow /\ Settles(FALSE)
    BY <1>1, <1>2, RepliedFacts
  <2>6. link' \in WireRow /\ CallOver
    BY <1>1, SameRows DEF CallOver
  <2> QED BY <1>2, <2>1, <2>4, <2>5, <2>6, SettledKeeps
<1>3. CASE /\ inbox' = [inbox EXCEPT !.at = "held"] /\ bridge' = [bridge EXCEPT !.child = "running"]
           /\ peer' = Takes(inbox.offers, peer) /\ TextArrives(inbox.offers)
  <2>1. /\ IdsGrow /\ OfferStages /\ OneTextEach /\ FreshTexts /\ TakenTexts /\ BatchIsNext
        /\ OfferReachesOnce /\ OnlyTakenIsPassed
    BY DEF BatchInv
  <2>2. /\ inbox' \in InboxRow /\ inbox'.offers = inbox.offers /\ inbox'.batch = inbox.batch /\ inbox'.cursor = inbox.cursor
        /\ inbox'.skipped = inbox.skipped /\ inbox'.answer = inbox.answer /\ inbox'.at = "held"
    BY <1>1, <1>3, HeldFacts
  <2>3. inbox.offers \in Offers /\ inbox.offers \in Nat /\ inbox.offers # 0 /\ Fresh(inbox.offers) /\ inbox.answer = "none"
    BY <1>1, ChannelFacts
  <2>4. bridge' \in BridgeRow
    BY <1>3, TaskFacts DEF BridgeRow
  <2>5. /\ bridge'.harness = bridge.harness /\ bridge'.driver = bridge.driver /\ bridge'.queued = bridge.queued
        /\ bridge'.prompt = bridge.prompt /\ bridge'.pump = bridge.pump /\ bridge'.child = "running"
    BY <1>3, TaskFacts DEF BridgeRow
  <2>6. /\ peer' \in PeerRow /\ peer.taken \subseteq peer'.taken /\ peer'.running = peer.running /\ inbox.batch \subseteq peer'.taken
    BY <1>3, TakesFacts
  <2>7. reached' \in [Offers -> Nat] /\ reached \in [Offers -> Nat]
    BY <1>3, <2>3, ArrivesTyped DEF BridgeTypes
  <2>8. BridgeTypes'
    BY <1>1, <2>2, <2>4, <2>6, <2>7 DEF BridgeTypes
  <2>9. Sent' = Sent /\ Said' = Said
    BY <1>1 DEF Sent, Said
  <2>10. \A o \in Offers : reached'[o] = IF o = inbox.offers THEN reached[o] + 1 ELSE reached[o]
    BY <1>3, <2>3, <2>7 DEF TextArrives
  <2>11. HandedOver'
    BY <2>2, <2>6 DEF HandedOver
  <2>12. IdsGrow'
    BY <1>1, <2>1, <2>6, <2>9 DEF IdsGrow
  <2>13. OfferStages'
    BY <1>1, <2>1, <2>2, <2>3, <2>5 DEF OfferStages
  <2>14. OneTextEach'
    <3>1. ASSUME NEW w \in Sent, w.offer # 0 PROVE reached'[w.offer] = 0
      <4>1. w.offer \in Offers /\ w.offer # inbox.offers /\ reached[w.offer] = 0
        BY <2>1, <2>3, <3>1, TypedFields DEF Fresh, OneTextEach
      <4> QED BY <2>10, <4>1
    <3> QED BY <1>1, <2>1, <2>9, <3>1 DEF OneTextEach
  <2>15. OfferReachesOnce'
    <3>1. reached[inbox.offers] = 0 /\ \A o \in Offers : reached[o] <= 1
      BY <2>1, <2>3, <2>7 DEF Fresh, OfferReachesOnce
    <3>2. \A o \in Offers : reached'[o] <= 1
      BY <2>7, <2>10, <3>1
    <3> QED BY <2>7, <3>2 DEF OfferReachesOnce
  <2>16. FreshTexts'
    <3>1. \A o \in Offers : o # inbox.offers /\ Fresh(o) => Fresh(o)'
      BY <2>9, <2>10 DEF Fresh
    <3>2. \A o \in Offers : o > inbox'.offers => Fresh(o)'
      <4> SUFFICES ASSUME NEW o \in Offers, o > inbox.offers PROVE Fresh(o)'
        BY <2>2
      <4>1. o # inbox.offers /\ Fresh(o)
        BY <2>1, <2>3, BridgeAssumption DEF FreshTexts, Offers
      <4> QED BY <3>1, <4>1
    <3>3. Fresh(bridge.queued)'
      BY <1>1, <2>1, <2>5 DEF OfferStages, Fresh
    <3> QED BY <1>1, <2>2, <2>5, <3>2, <3>3 DEF FreshTexts
  <2>17. TakenTexts'
    BY <2>2, <2>11 DEF TakenTexts
  <2>18. BatchIsNext' /\ OnlyTakenIsPassed'
    BY <2>1, <2>2, <2>5, <2>6 DEF BatchIsNext, OnlyTakenIsPassed
  <2> QED BY <2>8, <2>12, <2>13, <2>14, <2>15, <2>16, <2>17, <2>18 DEF BatchInv
<1> QED BY <1>2, <1>3 DEF AgyRuns

-----------------------------------------------------------------------------
(* The agent's side.                                                           *)

LEMMA SayFacts ==
    ASSUME BridgeTypes, link.wire # <<>>, NEW ls \in Seq(LineRow), link' = Say(ls)
    PROVE  /\ link' \in WireRow /\ link'.last = link.last /\ link'.call = link.call /\ link'.wire = Tail(link.wire)
           /\ \A l \in Said' : l \in Said \/ \E i \in DOMAIN ls : l = ls[i]
<1> DEFINE wire == Tail(link.wire)
           lines == link.lines \o ls
<1>1. link \in WireRow /\ link.wire \in Seq(CallRow) /\ link.lines \in Seq(LineRow)
  BY DEF BridgeTypes, WireRow
<1>2. wire \in Seq(CallRow)
  BY <1>1, TailFacts
<1>3. /\ lines \in Seq(LineRow)
      /\ \A i \in DOMAIN lines : (i \in DOMAIN link.lines /\ lines[i] = link.lines[i]) \/ (\E j \in DOMAIN ls : lines[i] = ls[j])
  BY <1>1, ConcatFacts
<1>4. link' = [link EXCEPT !.wire = wire, !.lines = lines]
  BY DEF Say
<1> HIDE DEF wire, lines
<1>5. link' \in WireRow
  BY <1>1, <1>2, <1>3, <1>4 DEF WireRow
<1>6. link'.last = link.last /\ link'.call = link.call /\ link'.wire = wire /\ link'.lines = lines
  BY <1>1, <1>4 DEF WireRow
<1>7. \A l \in Said' : l \in Said \/ \E i \in DOMAIN ls : l = ls[i]
  BY <1>3, <1>6 DEF Said
<1> QED BY <1>5, <1>6, <1>7 DEF wire

\* The request at the head of the wire.
LEMMA HeadOfWire ==
    ASSUME BridgeTypes, BatchInv, link.wire # <<>>, NEW c, c = Head(link.wire)
    PROVE  /\ c \in CallRow /\ c \in Sent /\ c.offer \in Offers /\ c.turn \in Nat /\ c.id \in Nat
           /\ c.id # 0 /\ c.id <= link.last /\ (c.id = link.call.id => c.offer = link.call.offer)
<1>1. c \in CallRow /\ c \in Sent
  <2>1. link.wire \in Seq(CallRow)
    BY TypedFields
  <2> QED BY <2>1, TailFacts DEF Sent
<1>2. c.offer \in Offers /\ c.turn \in Nat /\ c.id \in Nat
  BY <1>1 DEF CallRow
<1>3. c.id # 0 /\ c.id <= link.last /\ (c.id = link.call.id => c.offer = link.call.offer)
  BY <1>1 DEF BatchInv, IdsGrow
<1> QED BY <1>1, <1>2, <1>3

\* What a server does with the request c at the head of the wire keeps the invariant.
LEMMA ServedKeeps ==
    ASSUME BridgeTypes, BatchInv, UNCHANGED <<bridge, inbox>>, link.wire # <<>>, NEW c, c = Head(link.wire),
           link' \in WireRow, link'.last = link.last, link'.call.id = link.call.id, link'.call.offer = link.call.offer,
           link'.wire = Tail(link.wire), peer' \in PeerRow, reached' = reached \/ TextArrives(c.offer),
           peer.taken \subseteq peer'.taken, peer'.running \in {peer.running, c},
           \A l \in Said' : l \in Said \/ (l.kind # "response" /\ l.id = 0)
                            \/ /\ l.kind = "response" /\ l.id = c.id
                               /\ (l.got = "ok" /\ c.offer = inbox.offers => HandedOver')
                               /\ (l.got = "error" => reached' = reached),
           \/ link'.call.got = link.call.got
           \/ /\ bridge.harness = "opencode" /\ c.id = link.call.id
              /\ link'.call.got = "ok" /\ c.offer = inbox.offers => HandedOver'
    PROVE  BridgeTypes' /\ BatchInv'
<1>1. /\ c \in CallRow /\ c.offer \in Offers /\ c.id # 0 /\ c.id <= link.last /\ (c.id = link.call.id => c.offer = link.call.offer)
  BY HeadOfWire
<1>2. reached' \in [Offers -> Nat]
  BY <1>1, ArrivesTyped DEF BridgeTypes
<1>3. BridgeTypes'
  BY <1>2 DEF BridgeTypes
<1>4. OneTextEach /\ OfferReachesOnce
  BY DEF BatchInv
<1>5. /\ Sent' \subseteq Sent /\ OneTextEach' /\ OfferReachesOnce' /\ (\A o \in Offers : Fresh(o) => Fresh(o)')
      /\ (reached' = reached => Fresh(c.offer)')
  BY <1>1, <1>4, TextLeavesWire
<1>6. \A l \in Said' : l \in Said \/ (l.kind # "response" /\ l.id = 0) \/ AnswerOf(c, l)
  BY <1>5 DEF AnswerOf, OnOffer
<1>7. \/ link'.call.got = link.call.got
      \/ /\ bridge.harness = "opencode" /\ c.id = link.call.id
         /\ link'.call.got = "ok" /\ OnOffer(c.offer) => HandedOver'
  BY DEF OnOffer
<1>8. BatchInv'
  BY <1>1, <1>3, <1>5, <1>6, <1>7, AnswerKeeps
<1> QED BY <1>3, <1>8

LEMMA CodexServesKeeps ==
    ASSUME BridgeTypes, BatchInv, CodexServes PROVE BridgeTypes' /\ BatchInv'
<1>1. UNCHANGED <<bridge, inbox>> /\ link.wire # <<>>
  BY DEF CodexServes
<1>w. link.wire # <<>>
  BY DEF CodexServes
<1>2. PICK c : c = Head(link.wire)
  OBVIOUS
<1>3. c \in CallRow /\ c.id \in Nat /\ c.turn \in Nat /\ c.offer \in Offers
  BY <1>w, <1>2, HeadOfWire, Zenon
<1> DEFINE t == peer.turns + 1
<1>4. t \in Nat
  <2>1. peer.turns \in Nat
    BY TypedFields
  <2> QED BY <2>1
<1> DEFINE AnswerLine(got, turn) == Line("response", c.id, got, turn)
<1>5. ASSUME NEW got \in {"ok", "error"}, NEW turn \in Nat
      PROVE  AnswerLine(got, turn) \in LineRow /\ AnswerLine(got, turn).kind = "response" /\ AnswerLine(got, turn).id = c.id
             /\ AnswerLine(got, turn).got = got
  BY <1>3 DEF Line, LineRow
<1>6. CASE /\ c.what = "steer" /\ peer' = Takes(c.offer, peer) /\ TextArrives(c.offer)
           /\ link' = Say(<<AnswerLine("ok", c.turn)>>)
  <2> DEFINE l == AnswerLine("ok", c.turn)
             ls == <<l>>
  <2>1. l \in LineRow /\ l.kind = "response" /\ l.id = c.id /\ l.got = "ok"
    BY <1>3, <1>5
  <2> HIDE DEF l
  <2>2. ls \in Seq(LineRow) /\ \A i \in DOMAIN ls : ls[i] = l
    BY <2>1
  <2>3. link' = Say(ls)
    BY <1>6 DEF l
  <2> HIDE DEF ls
  <2>4. /\ link' \in WireRow /\ link'.last = link.last /\ link'.call = link.call /\ link'.wire = Tail(link.wire)
        /\ \A x \in Said' : x \in Said \/ x = l
    BY <1>1, <2>2, <2>3, SayFacts
  <2>5. /\ peer' \in PeerRow /\ peer.taken \subseteq peer'.taken /\ peer'.running = peer.running
        /\ c.offer = inbox.offers => inbox.batch \subseteq peer'.taken
    BY <1>6, TakesFacts
  <2>6. c.offer = inbox.offers => HandedOver'
    BY <1>1, <2>5 DEF HandedOver
  <2> QED BY <1>1, <1>2, <1>6, <2>1, <2>4, <2>5, <2>6, ServedKeeps
<1>7. CASE link' = Say(<<AnswerLine("error", 0)>>) /\ UNCHANGED <<peer, reached>>
  <2> DEFINE l == AnswerLine("error", 0)
             ls == <<l>>
  <2>1. l \in LineRow /\ l.kind = "response" /\ l.id = c.id /\ l.got = "error"
    BY <1>5
  <2> HIDE DEF l
  <2>2. ls \in Seq(LineRow) /\ \A i \in DOMAIN ls : ls[i] = l
    BY <2>1
  <2>3. link' = Say(ls)
    BY <1>7 DEF l
  <2> HIDE DEF ls
  <2>4. /\ link' \in WireRow /\ link'.last = link.last /\ link'.call = link.call /\ link'.wire = Tail(link.wire)
        /\ \A x \in Said' : x \in Said \/ x = l
    BY <1>1, <2>2, <2>3, SayFacts
  <2>5. peer' \in PeerRow /\ peer.taken \subseteq peer'.taken /\ peer'.running = peer.running
    BY <1>7, SameRows
  <2> QED BY <1>1, <1>2, <1>7, <2>1, <2>4, <2>5, ServedKeeps
<1>8. CASE /\ peer' = [Takes(c.offer, peer) EXCEPT !.turn = t, !.turns = t] /\ TextArrives(c.offer)
           /\ link' = Say(<<AnswerLine("ok", t), Line("started", 0, "none", t)>>)
  <2> DEFINE l == AnswerLine("ok", t)
             m == Line("started", 0, "none", t)
             ls == <<l, m>>
  <2>1. l \in LineRow /\ l.kind = "response" /\ l.id = c.id /\ l.got = "ok"
    BY <1>4, <1>5
  <2>2. m \in LineRow /\ m.kind # "response" /\ m.id = 0
    <3> HIDE DEF t
    <3> QED BY <1>4 DEF Line, LineRow
  <2> HIDE DEF l, m
  <2>3. ls \in Seq(LineRow) /\ \A i \in DOMAIN ls : ls[i] = l \/ ls[i] = m
    BY <2>1, <2>2
  <2>4. link' = Say(ls)
    BY <1>8 DEF l, m
  <2> HIDE DEF ls
  <2>5. /\ link' \in WireRow /\ link'.last = link.last /\ link'.call = link.call /\ link'.wire = Tail(link.wire)
        /\ \A x \in Said' : x \in Said \/ x = l \/ x = m
    BY <1>1, <2>3, <2>4, SayFacts
  <2>6. PICK p : p = Takes(c.offer, peer)
    OBVIOUS
  <2>7. /\ p \in PeerRow /\ peer.taken \subseteq p.taken /\ p.running = peer.running
        /\ c.offer = inbox.offers => inbox.batch \subseteq p.taken
    BY <2>6, TakesFacts
  <2>8. peer' = [p EXCEPT !.turn = t, !.turns = t]
    BY <1>8, <2>6
  <2>9. peer' \in PeerRow
    <3> HIDE DEF t
    <3> QED BY <1>4, <2>7, <2>8 DEF PeerRow
  <2>10. peer'.taken = p.taken /\ peer'.running = p.running
    BY <2>7, <2>8 DEF PeerRow
  <2>11. c.offer = inbox.offers => HandedOver'
    BY <1>1, <2>7, <2>10 DEF HandedOver
  <2>12. peer.taken \subseteq peer'.taken /\ peer'.running = peer.running
    BY <2>7, <2>10
  <2> QED BY <1>1, <1>2, <1>8, <2>1, <2>2, <2>5, <2>9, <2>11, <2>12, ServedKeeps
<1> HIDE DEF t
<1> QED BY <1>2, <1>6, <1>7, <1>8 DEF CodexServes, t

LEMMA AcpServesKeeps ==
    ASSUME BridgeTypes, BatchInv, AcpServes PROVE BridgeTypes' /\ BatchInv'
<1>1. /\ UNCHANGED <<bridge, inbox>> /\ link.wire # <<>> /\ link' = Say(<<>>) /\ TextArrives(Head(link.wire).offer)
      /\ peer' = [peer EXCEPT !.running = Head(link.wire)]
  BY DEF AcpServes
<1>w. link.wire # <<>>
  BY DEF AcpServes
<1>2. PICK c : c = Head(link.wire)
  OBVIOUS
<1>3. c \in CallRow
  BY <1>w, <1>2, HeadOfWire, Zenon
<1>4. <<>> \in Seq(LineRow) /\ DOMAIN <<>> = {}
  OBVIOUS
<1>5. /\ link' \in WireRow /\ link'.last = link.last /\ link'.call = link.call /\ link'.wire = Tail(link.wire)
      /\ \A l \in Said' : l \in Said \/ \E i \in DOMAIN <<>> : l = <<>>[i]
  BY <1>1, <1>4, SayFacts
<1>6. peer \in PeerRow
  BY DEF BridgeTypes
<1>7. peer' = [peer EXCEPT !.running = c]
  BY <1>1, <1>2
<1>8. peer' \in PeerRow
  BY <1>3, <1>6, <1>7 DEF PeerRow
<1>9. peer'.taken = peer.taken /\ peer'.running = c
  BY <1>6, <1>7 DEF PeerRow
<1>10. \A l \in Said' : l \in Said
  BY <1>4, <1>5
<1>11. TextArrives(c.offer)
  BY <1>1, <1>2
<1>12. /\ link'.call.id = link.call.id /\ link'.call.offer = link.call.offer /\ link'.call.got = link.call.got
       /\ peer.taken \subseteq peer'.taken /\ peer'.running \in {peer.running, c}
  BY <1>5, <1>9
<1> QED BY <1>1, <1>2, <1>5, <1>8, <1>10, <1>11, <1>12, ServedKeeps

LEMMA AcpTurnEndsKeeps ==
    ASSUME BridgeTypes, BatchInv, NEW got \in {"ok", "cancelled", "error"}, AcpTurnEnds(got) PROVE BridgeTypes' /\ BatchInv'
<1>1. UNCHANGED <<bridge, inbox, reached>> /\ bridge.harness = "acp" /\ peer.running # Quiet
  BY DEF AcpTurnEnds
<1>2. PICK c : c = peer.running
  OBVIOUS
<1>3. /\ IdsGrow /\ OneTextEach /\ OfferReachesOnce
  BY DEF BatchInv
<1>4. c \in CallRow /\ c.id \in Nat /\ c.id # 0 /\ c.id <= link.last /\ (c.id = link.call.id => c.offer = link.call.offer)
  BY <1>1, <1>2, <1>3, TypedFields DEF IdsGrow
<1> DEFINE l == Line("response", c.id, got, 0)
           lines == Append(link.lines, l)
<1>5. l \in LineRow /\ l.kind = "response" /\ l.id = c.id /\ l.got = got
  BY <1>4 DEF Line, LineRow
<1>6. link' = [link EXCEPT !.lines = lines]
  BY <1>2 DEF AcpTurnEnds
<1> HIDE DEF l
<1>7. link \in WireRow /\ link.lines \in Seq(LineRow)
  BY DEF BridgeTypes, WireRow
<1>8. lines \in Seq(LineRow) /\ \A i \in DOMAIN lines : (i \in DOMAIN link.lines /\ lines[i] = link.lines[i]) \/ lines[i] = l
  BY <1>5, <1>7, AppendFacts
<1> HIDE DEF lines
<1>9. link' \in WireRow
  BY <1>6, <1>7, <1>8 DEF WireRow
<1>10. link'.last = link.last /\ link'.call = link.call /\ link'.wire = link.wire /\ link'.lines = lines
  BY <1>6, <1>7 DEF WireRow
<1>11. \A x \in Said' : x \in Said \/ x = l
  BY <1>8, <1>10 DEF Said
<1>12. PICK p : p = IF got = "ok" THEN Takes(c.offer, peer) ELSE peer
  OBVIOUS
<1>13. /\ p \in PeerRow /\ peer.taken \subseteq p.taken
       /\ got = "ok" /\ c.offer = inbox.offers => inbox.batch \subseteq p.taken
  BY <1>12, TakesFacts DEF BridgeTypes
<1>14. peer' = [p EXCEPT !.running = Quiet]
  BY <1>2, <1>12 DEF AcpTurnEnds
<1>15. Quiet \in CallRow
  BY BridgeAssumption DEF Quiet, CallRow, Offers
<1>16. peer' \in PeerRow
  BY <1>13, <1>14, <1>15 DEF PeerRow
<1>17. peer'.taken = p.taken /\ peer'.running = Quiet
  BY <1>13, <1>14 DEF PeerRow
<1>18. BridgeTypes'
  BY <1>1, <1>9, <1>16 DEF BridgeTypes
<1>19. Sent' = Sent /\ OneTextEach' /\ OfferReachesOnce'
  BY <1>1, <1>3, <1>10 DEF Sent, OneTextEach, OfferReachesOnce
<1>20. \A o \in Offers : Fresh(o) => Fresh(o)'
  BY <1>1, <1>19, FreshStays
<1>21. got = "ok" /\ OnOffer(c.offer) => HandedOver'
  BY <1>1, <1>13, <1>17 DEF HandedOver, OnOffer
<1>22. \A x \in Said' : x \in Said \/ (x.kind # "response" /\ x.id = 0) \/ AnswerOf(c, x)
  BY <1>1, <1>5, <1>11, <1>21 DEF AnswerOf
<1>23. /\ link'.call.id = link.call.id /\ link'.call.offer = link.call.offer /\ link'.call.got = link.call.got
       /\ peer.taken \subseteq peer'.taken /\ peer'.running \in {peer.running, Quiet, c} /\ Sent' \subseteq Sent
  BY <1>10, <1>13, <1>17, <1>19
<1>24. BatchInv'
  BY <1>1, <1>4, <1>10, <1>18, <1>19, <1>20, <1>22, <1>23, AnswerKeeps
<1> QED BY <1>18, <1>24

LEMMA OpencodeServesKeeps ==
    ASSUME BridgeTypes, BatchInv, OpencodeServes PROVE BridgeTypes' /\ BatchInv'
<1>1. UNCHANGED <<bridge, inbox>> /\ link.wire # <<>> /\ bridge.harness = "opencode"
  BY DEF OpencodeServes
<1>w. link.wire # <<>>
  BY DEF OpencodeServes
<1>2. PICK c : c = Head(link.wire)
  OBVIOUS
<1>3. c \in CallRow /\ c.id \in Nat /\ c.offer \in Offers
  BY <1>w, <1>2, HeadOfWire, Zenon
<1>5. link \in WireRow /\ link.call \in CallRow /\ link.wire \in Seq(CallRow)
  BY DEF BridgeTypes, WireRow
<1> DEFINE Answers(g) == [link EXCEPT !.wire = Tail(@), !.call.got = IF link.call.id = Head(link.wire).id /\ @ = "none" THEN g ELSE @]
<1>4. \/ peer' = [Takes(c.offer, peer) EXCEPT !.waiting = Append(@, c)] /\ TextArrives(c.offer) /\ link' = Answers("ok")
      \/ link' = Answers("error") /\ UNCHANGED <<peer, reached>>
  BY <1>2 DEF OpencodeServes
<1>a. PICK ok \in BOOLEAN :
         /\ ok => peer' = [Takes(c.offer, peer) EXCEPT !.waiting = Append(@, c)] /\ TextArrives(c.offer)
         /\ ~ok => UNCHANGED <<peer, reached>>
         /\ link' = Answers(IF ok THEN "ok" ELSE "error")
  <2> HIDE DEF Answers
  <2>1. CASE peer' = [Takes(c.offer, peer) EXCEPT !.waiting = Append(@, c)] /\ TextArrives(c.offer) /\ link' = Answers("ok")
    BY <2>1
  <2>2. CASE link' = Answers("error") /\ UNCHANGED <<peer, reached>>
    BY <2>2
  <2> QED BY <1>4, <2>1, <2>2
<1> DEFINE said == IF ok THEN "ok" ELSE "error"
           got == IF link.call.id = c.id /\ link.call.got = "none" THEN said ELSE link.call.got
           call == [link.call EXCEPT !.got = got]
           wire == Tail(link.wire)
<1>6. wire \in Seq(CallRow)
  BY <1>1, <1>5, TailFacts
<1>7. got \in {"none", "ok", "error", "cancelled", "timeout", "closed"}
  BY <1>5 DEF CallRow
<1>8. got = link.call.got \/ (c.id = link.call.id /\ (got = "ok" => ok))
  OBVIOUS
<1>9. link' = [link EXCEPT !.wire = wire, !.call.got = got]
  <2> HIDE DEF said
  <2>1. link' = Answers(said)
    BY <1>a DEF said
  <2> QED BY <1>2, <2>1
<1> HIDE DEF got, wire
<1>10. call \in CallRow /\ call.id = link.call.id /\ call.offer = link.call.offer /\ call.got = got
  BY <1>5, <1>7 DEF CallRow
<1>11. link' = [link EXCEPT !.wire = wire, !.call = call]
  BY <1>5, <1>9 DEF WireRow
<1> HIDE DEF call
<1>12. link' \in WireRow
  BY <1>5, <1>6, <1>10, <1>11 DEF WireRow
<1>13. link'.last = link.last /\ link'.call = call /\ link'.wire = wire /\ link'.lines = link.lines
  BY <1>5, <1>11 DEF WireRow
<1>14. Said' = Said
  BY <1>13 DEF Said
<1>15. /\ peer' \in PeerRow /\ peer.taken \subseteq peer'.taken /\ peer'.running = peer.running
       /\ (reached' = reached \/ TextArrives(c.offer)) /\ (ok /\ c.offer = inbox.offers => HandedOver')
  <2>1. CASE ~ok
    BY <1>a, <2>1, SameRows
  <2>2. CASE ok
    <3>1. PICK p : p = Takes(c.offer, peer)
      OBVIOUS
    <3>2. /\ p \in PeerRow /\ peer.taken \subseteq p.taken /\ p.running = peer.running
          /\ c.offer = inbox.offers => inbox.batch \subseteq p.taken
      BY <3>1, TakesFacts
    <3>3. p.waiting \in Seq(CallRow)
      BY <3>2 DEF PeerRow
    <3>4. PICK waiting : waiting = Append(p.waiting, c)
      OBVIOUS
    <3>5. waiting \in Seq(CallRow)
      BY <1>3, <3>3, <3>4, AppendFacts
    <3>6. peer' = [p EXCEPT !.waiting = waiting] /\ TextArrives(c.offer)
      BY <1>a, <2>2, <3>1, <3>4
    <3>7. peer' \in PeerRow
      BY <3>2, <3>5, <3>6 DEF PeerRow
    <3>8. peer'.taken = p.taken /\ peer'.running = p.running
      BY <3>2, <3>6 DEF PeerRow
    <3>9. c.offer = inbox.offers => HandedOver'
      BY <1>1, <3>2, <3>8 DEF HandedOver
    <3> QED BY <3>2, <3>6, <3>7, <3>8, <3>9
  <2> QED BY <2>1, <2>2
<1>16. link'.call.id = link.call.id /\ link'.call.offer = link.call.offer /\ link'.wire = Tail(link.wire) /\ link'.call.got = got
  BY <1>10, <1>13 DEF wire
<1>17. \/ link'.call.got = link.call.got
       \/ /\ bridge.harness = "opencode" /\ c.id = link.call.id
          /\ link'.call.got = "ok" /\ c.offer = inbox.offers => HandedOver'
  BY <1>1, <1>8, <1>15, <1>16
<1> QED BY <1>1, <1>2, <1>12, <1>13, <1>14, <1>15, <1>16, <1>17, ServedKeeps

-----------------------------------------------------------------------------
(* The theorems about deliveries.                                              *)

LEMMA BridgeStarts == BridgeInit => BridgeTypes /\ BatchInv
<1> SUFFICES ASSUME BridgeInit PROVE BridgeTypes /\ BatchInv
  OBVIOUS
<1>1. PICK h \in Harnesses :
         bridge = [harness |-> h, stop |-> FALSE, driver |-> "setup", pump |-> "off", child |-> "none",
                   active |-> 0, prompt |-> "none", queued |-> 0, stream |-> "off", busy |-> FALSE]
  BY DEF BridgeInit
<1>2. h \in {"codex", "acp", "opencode", "agy"} /\ 0 \in Offers /\ MaxOffers \in Nat
  BY BridgeAssumption DEF Offers
<1>3. Quiet \in CallRow /\ Quiet.id = 0 /\ Quiet.offer = 0 /\ Quiet.got = "none"
  BY <1>2 DEF Quiet, CallRow
<1>4. bridge \in BridgeRow
  BY <1>1, <1>2 DEF BridgeRow
<1>5. inbox \in InboxRow /\ inbox.offers = 0 /\ inbox.at = "none" /\ inbox.answer = "none" /\ inbox.cursor = 0
  <2>1. inbox = [posted |-> 0, cursor |-> 0, offers |-> 0, batch |-> {}, at |-> "none", answer |-> "none",
                 refusals |-> [upto |-> 0, count |-> 0], skipped |-> {}]
    BY DEF BridgeInit
  <2> QED BY <1>2, <2>1 DEF InboxRow
<1>6. link \in WireRow /\ link.last = 0 /\ link.call = Quiet /\ link.wire = <<>> /\ link.lines = <<>>
  <2>1. <<>> \in Seq(CallRow) /\ <<>> \in Seq(LineRow)
    OBVIOUS
  <2>2. link = [open |-> TRUE, last |-> 0, call |-> Quiet, wire |-> <<>>, lines |-> <<>>, incoming |-> <<>>, noise |-> 0]
    BY DEF BridgeInit
  <2> QED BY <1>3, <2>1, <2>2 DEF WireRow
<1>7. peer \in PeerRow /\ peer.running = Quiet
  <2>1. <<>> \in Seq(CallRow)
    OBVIOUS
  <2>2. peer = [turn |-> 0, turns |-> 0, running |-> Quiet, waiting |-> <<>>, taken |-> {}]
    BY DEF BridgeInit
  <2> QED BY <1>3, <2>1, <2>2 DEF PeerRow
<1>8. reached \in [Offers -> Nat] /\ \A o \in Offers : reached[o] = 0
  BY DEF BridgeInit, Offers
<1>9. Sent = {} /\ Said = {} /\ \A o \in Offers : Fresh(o)
  BY <1>6, <1>8 DEF Sent, Said, Fresh
<1>10. BridgeTypes
  BY <1>4, <1>5, <1>6, <1>7, <1>8 DEF BridgeTypes
<1>11. IdsGrow /\ OneTextEach
  BY <1>3, <1>6, <1>7, <1>9 DEF IdsGrow, OneTextEach
<1>12. OfferStages
  BY <1>1, <1>3, <1>5, <1>6 DEF OfferStages
<1>13. FreshTexts /\ TakenTexts
  BY <1>1, <1>2, <1>3, <1>5, <1>6, <1>9 DEF FreshTexts, TakenTexts
<1>14. BatchIsNext /\ OfferReachesOnce /\ OnlyTakenIsPassed
  BY <1>1, <1>5, <1>8 DEF BatchIsNext, OfferReachesOnce, OnlyTakenIsPassed
<1> QED BY <1>10, <1>11, <1>12, <1>13, <1>14 DEF BatchInv

LEMMA BridgeMoves == ASSUME BridgeTypes, BatchInv, [BridgeStep]_bridgeVars PROVE BridgeTypes' /\ BatchInv'
<1>1. CASE PumpMoves
  <2>1. CASE MailArrives
    BY <2>1, MailKeeps
  <2>2. CASE PumpOffers
    BY <2>2, OffersKeep
  <2>3. CASE PumpHears
    BY <2>3, HearsKeep
  <2>4. CASE PumpEnds \/ StopOther \/ Signal
    BY <2>4, PumpEndsKeeps
  <2>5. CASE StopInSetup \/ SetupFails
    BY <2>5, OpensKeep
  <2> QED BY <1>1, <2>1, <2>2, <2>3, <2>4, <2>5 DEF PumpMoves
<1>2. CASE LinkStep
  <2>1. CASE ReadLine
    BY <2>1, ReadKeeps
  <2>2. CASE CallTimesOut
    BY <2>2, TimeoutKeeps
  <2>3. CASE LinkCloses
    BY <2>3, ClosesKeep
  <2>4. CASE ChannelEnds
    BY <2>4, EndsKeep
  <2>5. CASE AgentAsks
    BY <2>5, NoiseKeeps
  <2> QED BY <1>2, <2>1, <2>2, <2>3, <2>4, <2>5 DEF LinkStep
<1>3. CASE CodexStep
  <2>1. CASE CodexOpen
    BY <2>1, OpensKeep
  <2>2. CASE CodexTakes
    BY <2>2, CodexTakesKeeps
  <2>3. CASE CodexHears
    BY <2>3, CodexHearsKeeps
  <2>4. CASE CodexObserves
    BY <2>4, ObservesKeep
  <2>5. CASE CodexAnswers
    BY <2>5, DeclinesKeep, EndsKeep
  <2>6. CASE CodexStops
    BY <2>6, EndsKeep
  <2>7. CASE CodexServes
    BY <2>7, CodexServesKeeps
  <2>8. CASE CodexTurnEnds
    BY <2>8, NoiseKeeps
  <2>9. CASE CodexReap
    BY <2>9, ReapKeeps DEF CodexReap
  <2> QED BY <1>3, <2>1, <2>2, <2>3, <2>4, <2>5, <2>6, <2>7, <2>8, <2>9 DEF CodexStep
<1>4. CASE AcpStep
  <2>1. CASE AcpOpen
    BY <2>1, OpensKeep
  <2>2. CASE AcpTakes
    BY <2>2, AcpTakesKeeps
  <2>3. CASE AcpPromptEnds
    BY <2>3, PromptEndsKeeps
  <2>4. CASE AcpFinish
    BY <2>4, AcpFinishKeeps
  <2>5. CASE AcpAnswers
    BY <2>5, DeclinesKeep, EndsKeep
  <2>6. CASE AcpStops
    BY <2>6, EndsKeep
  <2>7. CASE AcpServes
    BY <2>7, AcpServesKeeps
  <2>8. CASE AcpReap
    BY <2>8, ReapKeeps DEF AcpReap
  <2>9. ASSUME NEW got \in {"ok", "cancelled", "error"}, AcpTurnEnds(got) PROVE BridgeTypes' /\ BatchInv'
    BY <2>9, AcpTurnEndsKeeps
  <2> QED BY <1>4, <2>1, <2>2, <2>3, <2>4, <2>5, <2>6, <2>7, <2>8, <2>9 DEF AcpStep
<1>5. CASE OpencodeStep
  <2>1. CASE OpencodeOpen
    BY <2>1, OpencodeOpenKeeps
  <2>2. CASE OpencodeTakes
    BY <2>2, OpencodeTakesKeeps
  <2>3. CASE OpencodePosts
    BY <2>3, OpencodePostsKeeps
  <2>4. CASE OpencodeHears
    BY <2>4, OpencodeHearsKeeps
  <2>5. CASE OpencodeStops
    BY <2>5, EndsKeep
  <2>6. CASE OpencodeServes
    BY <2>6, OpencodeServesKeeps
  <2>7. CASE OpencodeTurn
    BY <2>7, OpencodeTurnKeeps
  <2>8. CASE ReadEvent
    BY <2>8, ObservesKeep
  <2>9. CASE Track
    BY <2>9, TrackKeeps
  <2> QED BY <1>5, <2>1, <2>2, <2>3, <2>4, <2>5, <2>6, <2>7, <2>8, <2>9 DEF OpencodeStep
<1>6. CASE AgyStep
  <2>1. CASE AgyOpen
    BY <2>1, OpensKeep
  <2>2. CASE AgyRuns
    BY <2>2, AgyRunsKeeps
  <2>3. CASE AgyStops
    BY <2>3, EndsKeep
  <2>4. ASSUME NEW how, AgyExits(how) PROVE BridgeTypes' /\ BatchInv'
    BY <2>4, AgyExitsKeeps
  <2> QED BY <1>6, <2>1, <2>2, <2>3, <2>4 DEF AgyStep
<1>7. CASE UNCHANGED bridgeVars
  <2>1. UNCHANGED <<bridge, inbox, link, peer, reached>>
    BY <1>7 DEF bridgeVars
  <2> QED BY <2>1, SameRows, QuietKeeps
<1> QED BY <1>1, <1>2, <1>3, <1>4, <1>5, <1>6, <1>7 DEF BridgeStep

\* Whatever order requests, answers, timeouts, stops and ends of the agent come in, the cursor that
\* `commit_cursor` writes passes only messages that the agent took, or that were given up after
\* `REFUSAL_CAP` refusals.
THEOREM CursorFollowsTheAgent == BridgeSpec => []OnlyTakenIsPassed
<1>1. BridgeTypes /\ BatchInv => OnlyTakenIsPassed
  BY DEF BatchInv
<1>2. BridgeTypes /\ BatchInv /\ [BridgeStep]_bridgeVars => BridgeTypes' /\ BatchInv'
  BY BridgeMoves
<1> QED BY <1>1, <1>2, BridgeStarts, PTL DEF BridgeSpec

\* No driver puts the text of one delivery to the agent twice: the codex driver starts a turn after a
\* steer only when the steer was refused, not when its fate is unknown.
THEOREM TextReachesOnce == BridgeSpec => []OfferReachesOnce
<1>1. BridgeTypes /\ BatchInv => OfferReachesOnce
  BY DEF BatchInv
<1>2. BridgeTypes /\ BatchInv /\ [BridgeStep]_bridgeVars => BridgeTypes' /\ BatchInv'
  BY BridgeMoves
<1> QED BY <1>1, <1>2, BridgeStarts, PTL DEF BridgeSpec

-----------------------------------------------------------------------------
(* What the tracker of the opencode session knows.                             *)

\* A step that neither reads nor makes an event, and starts and ends no turn and no prompt.
EventsStay ==
    /\ bridge'.stream = bridge.stream /\ bridge'.busy = bridge.busy /\ link'.incoming = link.incoming
    /\ peer'.turn = peer.turn /\ (peer'.waiting = peer.waiting \/ peer'.waiting # <<>>)
    /\ link'.call.id = link.call.id /\ (link'.call.got = link.call.got \/ link'.call.got = "timeout")

LEMMA EventsStayTell == ASSUME EventsTell, bridge.harness = "opencode", EventsStay PROVE EventsTell'
BY DEF EventsTell, EventsStay

LEMMA HarnessStays == ASSUME BridgeTypes, BridgeStep PROVE bridge'.harness = bridge.harness
<1>1. bridge \in BridgeRow
  BY DEF BridgeTypes
<1>2. CASE PumpMoves
  BY <1>1, <1>2 DEF PumpMoves, MailArrives, PumpOffers, PumpHears, PumpEnds, StopOther, Signal, StopInSetup, SetupFails, BridgeUp, BridgeRow
<1>3. CASE LinkStep
  BY <1>1, <1>3 DEF LinkStep, ReadLine, CallTimesOut, LinkCloses, ChannelEnds, AgentAsks, DriverEnds, PromptOutlives, BridgeRow
<1>4. CASE CodexStep
  BY <1>1, <1>4 DEF CodexStep, CodexOpen, CodexTakes, CodexHears, CodexObserves, CodexAnswers, CodexStops, CodexServes,
                    CodexTurnEnds, CodexReap, Reap, DriverEnds, BridgeUp, BridgeRow
<1>5. CASE AcpStep
  BY <1>1, <1>5 DEF AcpStep, AcpOpen, AcpTakes, AcpPromptEnds, AcpFinish, AcpAnswers, AcpStops, AcpServes, AcpTurnEnds,
                    AcpReap, Reap, DriverEnds, PromptOutlives, BridgeUp, BridgeRow
<1>6. CASE OpencodeStep
  BY <1>1, <1>6 DEF OpencodeStep, OpencodeOpen, OpencodeTakes, OpencodePosts, OpencodeHears, OpencodeStops, OpencodeServes,
                    OpencodeTurn, ReadEvent, Track, DriverEnds, BridgeUp, BridgeRow
<1>7. CASE AgyStep
  BY <1>1, <1>7 DEF AgyStep, AgyOpen, AgyRuns, AgyStops, AgyExits, DriverEnds, BridgeUp, BridgeRow
<1> QED BY <1>2, <1>3, <1>4, <1>5, <1>6, <1>7 DEF BridgeStep

LEMMA EventsQuiet ==
    ASSUME BridgeTypes, bridge.harness = "opencode",
           PumpMoves \/ LinkStep \/ OpencodeOpen \/ OpencodeTakes \/ OpencodeStops
    PROVE  EventsStay
<1>1. bridge \in BridgeRow /\ link \in WireRow /\ link.call \in CallRow /\ peer \in PeerRow
  BY DEF BridgeTypes, WireRow
<1>2. CASE PumpMoves
  BY <1>1, <1>2 DEF PumpMoves, MailArrives, PumpOffers, PumpHears, PumpEnds, StopOther, Signal, StopInSetup, SetupFails, BridgeUp,
                    BridgeRow, EventsStay
<1>3. CASE LinkStep
  <2>1. CallTimesOut
    BY <1>3 DEF LinkStep, ReadLine, LinkCloses, ChannelEnds, AgentAsks, HasLink
  <2>2. link'.incoming = link.incoming /\ link'.call.id = link.call.id /\ link'.call.got = "timeout"
    BY <1>1, <2>1 DEF CallTimesOut, WireRow, CallRow
  <2> QED BY <2>1, <2>2 DEF CallTimesOut, EventsStay
<1>4. CASE OpencodeOpen
  <2>1. bridge'.stream = bridge.stream /\ bridge'.busy = bridge.busy /\ link' = link
    BY <1>1, <1>4 DEF OpencodeOpen, BridgeUp, BridgeRow
  <2>2. peer'.turn = peer.turn /\ (peer'.waiting = peer.waiting \/ peer'.waiting # <<>>)
    <3>1. <<Quiet>> # <<>>
      OBVIOUS
    <3>2. peer' = peer \/ peer' = [peer EXCEPT !.waiting = <<Quiet>>]
      BY <1>4 DEF OpencodeOpen
    <3> QED BY <1>1, <3>1, <3>2 DEF PeerRow
  <2> QED BY <2>1, <2>2 DEF EventsStay
<1>5. CASE OpencodeTakes
  BY <1>5 DEF OpencodeTakes, EventsStay
<1>6. CASE OpencodeStops
  BY <1>1, <1>6 DEF OpencodeStops, DriverEnds, BridgeRow, EventsStay
<1> QED BY <1>2, <1>3, <1>4, <1>5, <1>6

LEMMA PostsTell ==
    ASSUME BridgeTypes, EventsTell, bridge.harness = "opencode", OpencodePosts PROVE EventsTell'
<1>1. link \in WireRow /\ link.last \in Nat /\ bridge \in BridgeRow
  BY DEF BridgeTypes, WireRow
<1>2. link'.incoming = link.incoming /\ UNCHANGED peer /\ bridge'.stream = bridge.stream
  BY <1>1 DEF OpencodePosts, WireRow, BridgeRow
<1>3. link'.call.id = link.last + 1 /\ link'.call.got = "none"
  BY <1>1 DEF OpencodePosts, WireRow, Quiet
<1> QED BY <1>1, <1>2, <1>3 DEF EventsTell

LEMMA HearsTell ==
    ASSUME BridgeTypes, EventsTell, bridge.harness = "opencode", OpencodeHears PROVE EventsTell'
<1>1. link \in WireRow /\ bridge \in BridgeRow
  BY DEF BridgeTypes
<1>2. link'.incoming = link.incoming /\ UNCHANGED peer
  BY <1>1 DEF OpencodeHears, WireRow
<1>3. bridge'.stream = bridge.stream /\ (bridge'.busy => bridge.busy /\ link.call.got = "ok")
  BY <1>1 DEF OpencodeHears, BridgeRow, MarkBefore
<1> QED BY <1>2, <1>3 DEF EventsTell

LEMMA ServesTell ==
    ASSUME BridgeTypes, EventsTell, bridge.harness = "opencode", OpencodeServes PROVE EventsTell'
<1> DEFINE c == Head(link.wire)
           Answers(got) == [link EXCEPT !.wire = Tail(@), !.call.got = IF link.call.id = c.id /\ @ = "none" THEN got ELSE @]
<1>1. link \in WireRow /\ link.call \in CallRow /\ peer \in PeerRow /\ UNCHANGED bridge
  BY DEF BridgeTypes, WireRow, OpencodeServes
<1>2. \/ peer' = [Takes(c.offer, peer) EXCEPT !.waiting = Append(@, c)] /\ link' = Answers("ok")
      \/ link' = Answers("error") /\ UNCHANGED <<peer, reached>>
  BY DEF OpencodeServes
<1>3. ASSUME NEW got \in {"ok", "error"}, link' = Answers(got)
      PROVE  /\ link'.incoming = link.incoming /\ link'.call.id = link.call.id
             /\ link'.call.got = link.call.got \/ link'.call.got = got
  <2> HIDE DEF c
  <2>1. link'.incoming = link.incoming
    BY <1>1, <1>3 DEF WireRow
  <2>2. link'.call.id = link.call.id
    BY <1>1, <1>3 DEF WireRow, CallRow
  <2>3. link'.call.got = link.call.got \/ link'.call.got = got
    BY <1>1, <1>3 DEF WireRow, CallRow
  <2> QED BY <2>1, <2>2, <2>3
<1> HIDE DEF Answers
<1>4. CASE peer' = [Takes(c.offer, peer) EXCEPT !.waiting = Append(@, c)] /\ link' = Answers("ok")
  <2>1. PICK p : p = Takes(c.offer, peer)
    OBVIOUS
  <2>2. p \in PeerRow /\ p.turn = peer.turn /\ p.waiting = peer.waiting
    BY <2>1, TakesFacts
  <2>3. peer.waiting \in Seq(CallRow) /\ c \in CallRow
    <3>1. link.wire # <<>> /\ link.wire \in Seq(CallRow) /\ peer.waiting \in Seq(CallRow)
      BY <1>1 DEF OpencodeServes, WireRow, PeerRow
    <3> QED BY <3>1, TailFacts
  <2>4. Append(p.waiting, c) # <<>>
    BY <2>2, <2>3, AppendFacts
  <2>5. peer' = [p EXCEPT !.waiting = Append(p.waiting, c)]
    BY <1>4, <2>1
  <2>6. peer'.turn = peer.turn /\ peer'.waiting # <<>>
    BY <2>2, <2>4, <2>5 DEF PeerRow
  <2> QED BY <1>1, <1>3, <1>4, <2>6 DEF EventsTell
<1>5. CASE link' = Answers("error") /\ UNCHANGED <<peer, reached>>
  BY <1>1, <1>3, <1>5 DEF EventsTell
<1> QED BY <1>2, <1>4, <1>5

LEMMA TurnTells ==
    ASSUME BridgeTypes, EventsTell, bridge.harness = "opencode", OpencodeTurn PROVE EventsTell'
<1>1. link \in WireRow /\ peer \in PeerRow /\ UNCHANGED bridge
  BY DEF BridgeTypes, OpencodeTurn
<1>2. PICK b \in BOOLEAN :
         /\ peer'.turn = IF b THEN 1 ELSE 0
         /\ link' = [link EXCEPT !.incoming = IF bridge.stream # "off" THEN StreamEvent(b) ELSE @]
  <2>1. CASE /\ peer' = [peer EXCEPT !.turn = 1, !.waiting = Tail(@)]
             /\ link' = [link EXCEPT !.incoming = IF bridge.stream # "off" THEN StreamEvent(TRUE) ELSE @]
    <3>1. peer'.turn = 1
      BY <1>1, <2>1 DEF PeerRow
    <3> QED BY <2>1, <3>1
  <2>2. CASE /\ peer' = [peer EXCEPT !.turn = 0]
             /\ link' = [link EXCEPT !.incoming = IF bridge.stream # "off" THEN StreamEvent(FALSE) ELSE @]
    <3>1. peer'.turn = 0
      BY <1>1, <2>2 DEF PeerRow
    <3> QED BY <2>2, <3>1
  <2> QED BY <2>1, <2>2 DEF OpencodeTurn
<1>3. /\ StreamEvent(b) # <<>>
      /\ StreamEvent(b)[Len(StreamEvent(b))].kind = (IF b THEN "busy" ELSE "idle")
  BY EventFacts
<1>4. link'.incoming = IF bridge.stream # "off" THEN StreamEvent(b) ELSE link.incoming
  BY <1>1, <1>2 DEF WireRow
<1>5. CASE bridge.stream = "off"
  BY <1>1, <1>4, <1>5 DEF EventsTell
<1>6. CASE bridge.stream # "off"
  BY <1>1, <1>2, <1>3, <1>4, <1>6 DEF EventsTell
<1> QED BY <1>5, <1>6

LEMMA ReadTells ==
    ASSUME BridgeTypes, EventsTell, bridge.harness = "opencode", ReadEvent PROVE EventsTell'
<1>1. link \in WireRow /\ bridge \in BridgeRow /\ link.incoming \in Seq(LineRow)
  BY DEF BridgeTypes, WireRow
<1>2. UNCHANGED peer /\ link.incoming # <<>> /\ bridge.stream = "on"
  BY DEF ReadEvent
<1>3. link'.incoming = Tail(link.incoming) /\ link'.call = link.call
  BY <1>1 DEF ReadEvent, WireRow
<1>4. bridge'.stream = "on" /\ (bridge'.busy => Head(link.incoming).kind = "busy")
  BY <1>1, <1>2 DEF ReadEvent, BridgeRow
<1>5. /\ Tail(link.incoming) # <<>> => Tail(link.incoming)[Len(Tail(link.incoming))] = link.incoming[Len(link.incoming)]
      /\ Tail(link.incoming) = <<>> => Head(link.incoming) = link.incoming[Len(link.incoming)]
  BY <1>1, <1>2, LastOfTail
<1>7. link.incoming[Len(link.incoming)].kind = "busy" => peer.turn = 1
  BY <1>2 DEF EventsTell
<1> QED BY <1>2, <1>3, <1>4, <1>5, <1>7 DEF EventsTell

LEMMA TrackTells ==
    ASSUME BridgeTypes, EventsTell, bridge.harness = "opencode", Track PROVE EventsTell'
<1>1. link \in WireRow /\ bridge \in BridgeRow /\ UNCHANGED peer
  BY DEF BridgeTypes, Track
<1>2. CASE bridge' = [bridge EXCEPT !.stream = "opening"] /\ link' = link
  <2>1. bridge'.stream = "opening"
    BY <1>1, <1>2 DEF BridgeRow
  <2> QED BY <1>1, <1>2, <2>1 DEF EventsTell
<1>3. CASE bridge' = [bridge EXCEPT !.stream = "on", !.busy = FALSE] /\ link' = link
  <2>1. bridge'.stream = "on" /\ ~bridge'.busy
    BY <1>1, <1>3 DEF BridgeRow
  <2> QED BY <1>1, <1>3, <2>1 DEF EventsTell
<1>4. CASE bridge' = [bridge EXCEPT !.stream = "off"] /\ link' = [link EXCEPT !.incoming = <<>>, !.noise = @ + 1]
  <2>1. bridge'.stream = "off" /\ link'.incoming = <<>>
    BY <1>1, <1>4 DEF BridgeRow, WireRow
  <2> QED BY <2>1 DEF EventsTell
<1> QED BY <1>2, <1>3, <1>4 DEF Track

LEMMA EventsKeep == ASSUME BridgeTypes, EventsTell, [BridgeStep]_bridgeVars PROVE EventsTell'
<1>1. CASE UNCHANGED bridgeVars
  BY <1>1 DEF bridgeVars, EventsTell
<1>2. CASE BridgeStep /\ bridge.harness # "opencode"
  BY <1>2, HarnessStays DEF EventsTell
<1>3. CASE BridgeStep /\ bridge.harness = "opencode"
  <2>1. \/ PumpMoves \/ LinkStep \/ OpencodeOpen \/ OpencodeTakes \/ OpencodeStops
        \/ OpencodePosts \/ OpencodeHears \/ OpencodeServes \/ OpencodeTurn \/ ReadEvent \/ Track
    <3>1. ~CodexStep
      BY <1>3 DEF CodexStep, CodexOpen, CodexTakes, CodexHears, CodexObserves, CodexAnswers, CodexStops, CodexServes,
                  CodexTurnEnds, CodexReap, Reap, DriverLive, Setup
    <3>2. ~AcpStep
      BY <1>3 DEF AcpStep, AcpOpen, AcpTakes, AcpPromptEnds, AcpFinish, AcpAnswers, AcpStops, AcpServes, AcpTurnEnds,
                  AcpReap, Reap, DriverLive, Setup
    <3>3. ~AgyStep
      BY <1>3 DEF AgyStep, AgyOpen, AgyRuns, AgyStops, AgyExits, DriverLive, Setup
    <3> QED BY <1>3, <3>1, <3>2, <3>3 DEF BridgeStep, OpencodeStep
  <2>2. CASE PumpMoves \/ LinkStep \/ OpencodeOpen \/ OpencodeTakes \/ OpencodeStops
    BY <1>3, <2>2, EventsQuiet, EventsStayTell, HarnessStays
  <2> QED BY <1>3, <2>1, <2>2, PostsTell, HearsTell, ServesTell, TurnTells, ReadTells, TrackTells
<1> QED BY <1>1, <1>2, <1>3

\* The opencode driver does not hold a delivery for a session that is idle once every event is read,
\* however stream breaks, posts and turns interleave.
THEOREM IdleSessionIsSeen == BridgeSpec => []IdleIsNotMissed
<1>1. BridgeInit => EventsTell
  BY DEF BridgeInit, EventsTell
<1>2. EventsTell /\ BatchInv => IdleIsNotMissed
  BY DEF EventsTell, IdleIsNotMissed
<1>3. BridgeTypes /\ BatchInv /\ EventsTell /\ [BridgeStep]_bridgeVars => BridgeTypes' /\ BatchInv' /\ EventsTell'
  BY BridgeMoves, EventsKeep
<1> QED BY <1>1, <1>2, <1>3, BridgeStarts, PTL DEF BridgeSpec

-----------------------------------------------------------------------------
(* The tools: a try, request by request.                                       *)

LEMMA LeastNumber == ASSUME NEW S \in SUBSET Nat, S # {} PROVE \E n \in S : \A m \in S : n <= m
<1> DEFINE R == OpToRel(<, Nat)
<1>1. IsWellFoundedOn(R, Nat)
  BY NatLessThanWellFounded
<1>2. \A x, y \in Nat : x < y => <<x, y>> \in R
  BY DEF OpToRel
<1> HIDE DEF R
<1>3. PICK x \in S : \A y \in S : ~(<<y, x>> \in R)
  BY <1>1, WFMin
<1>4. ASSUME NEW y \in S PROVE x <= y
  <2>1. x \in Nat /\ y \in Nat /\ ~(y < x)
    BY <1>2, <1>3
  <2> QED BY <2>1
<1> QED BY <1>4

Start(state) == [ok |-> TRUE, state |-> state]
\* A function that follows a try up to its n-th request.
Follows(g, n, reqs, remote, state) == g = [k \in 0 .. n |-> IF k = 0 THEN Start(state) ELSE Tried(reqs[k], remote, g[k - 1])]

LEMMA TryExists ==
  ASSUME NEW reqs, NEW remote, NEW state, NEW n \in Nat PROVE \E g : Follows(g, n, reqs, remote, state)
<1> DEFINE Bad == {k \in Nat : ~\E g : Follows(g, k, reqs, remote, state)}
<1>1. SUFFICES Bad = {}
  BY <1>1
<1>2. SUFFICES ASSUME Bad # {} PROVE FALSE
  OBVIOUS
<1>3. PICK m \in Bad : \A k \in Bad : m <= k
  <2>1. Bad \in SUBSET Nat
    OBVIOUS
  <2> HIDE DEF Bad
  <2> QED BY <1>2, <2>1, LeastNumber
<1>4. m # 0
  <2> DEFINE h == [k \in 0 .. 0 |-> Start(state)]
  <2>1. \A k \in 0 .. 0 : k = 0
    OBVIOUS
  <2>2. h = [k \in 0 .. 0 |-> IF k = 0 THEN Start(state) ELSE Tried(reqs[k], remote, h[k - 1])]
    BY <2>1
  <2>3. \E g : Follows(g, 0, reqs, remote, state)
    BY <2>2 DEF Follows
  <2> QED BY <2>3
<1>5. m - 1 \in Nat /\ m - 1 \notin Bad /\ m \in Nat
  BY <1>3, <1>4
<1>6. PICK g : Follows(g, m - 1, reqs, remote, state)
  BY <1>5
<1> DEFINE h == [k \in 0 .. m |-> IF k = m THEN Tried(reqs[m], remote, g[m - 1]) ELSE g[k]]
<1>7. ASSUME NEW k \in 0 .. m PROVE h[k] = IF k = 0 THEN Start(state) ELSE Tried(reqs[k], remote, h[k - 1])
  <2>0. g = [i \in 0 .. m - 1 |-> IF i = 0 THEN Start(state) ELSE Tried(reqs[i], remote, g[i - 1])]
    BY <1>6 DEF Follows
  <2>1. CASE k = m
    <3>1. m - 1 \in 0 .. m /\ m - 1 # m /\ m \in 0 .. m
      BY <1>5
    <3>2. h[m] = Tried(reqs[m], remote, g[m - 1]) /\ h[m - 1] = g[m - 1]
      BY <3>1
    <3> QED BY <3>2, <2>1, <1>4
  <2>2. CASE k # m
    <3>1. k \in 0 .. m - 1 /\ (k # 0 => k - 1 \in 0 .. m /\ k - 1 # m)
      BY <2>2, <1>5
    <3>2. g[k] = IF k = 0 THEN Start(state) ELSE Tried(reqs[k], remote, g[k - 1])
      BY <2>0, <3>1
    <3>3. h[k] = g[k] /\ (k # 0 => h[k - 1] = g[k - 1])
      BY <2>2, <3>1
    <3> QED BY <3>2, <3>3
  <2> QED BY <2>1, <2>2
<1>8. h = [k \in 0 .. m |-> h[k]]
  OBVIOUS
<1>9. h = [k \in 0 .. m |-> IF k = 0 THEN Start(state) ELSE Tried(reqs[k], remote, h[k - 1])]
  <2> HIDE DEF h
  <2> QED BY <1>7, <1>8
<1>10. \E f : Follows(f, m, reqs, remote, state)
  <2> HIDE DEF h
  <2> QED BY <1>9 DEF Follows
<1> QED BY <1>3, <1>10

LEMMA TryUnfolds ==
  ASSUME NEW reqs, NEW remote, NEW state, Len(reqs) \in Nat
  PROVE  LET f == SingleTry(reqs, remote, state) IN
         /\ DOMAIN f = 0 .. Len(reqs) /\ f[0] = Start(state)
         /\ \A k \in 1 .. Len(reqs) : f[k] = Tried(reqs[k], remote, f[k - 1])
<1> DEFINE n == Len(reqs)
           f == CHOOSE g : Follows(g, n, reqs, remote, state)
<1>1. Follows(f, n, reqs, remote, state)
  BY TryExists
<1>2. SingleTry(reqs, remote, state) = f
  BY DEF SingleTry, Follows, Start
<1> HIDE DEF f
<1>3. f = [k \in 0 .. n |-> IF k = 0 THEN Start(state) ELSE Tried(reqs[k], remote, f[k - 1])]
  BY <1>1 DEF Follows
<1>4. 0 \in 0 .. n /\ \A k \in 1 .. n : k \in 0 .. n /\ k # 0
  OBVIOUS
<1>5. DOMAIN f = 0 .. n /\ f[0] = Start(state) /\ \A k \in 1 .. n : f[k] = Tried(reqs[k], remote, f[k - 1])
  BY <1>3, <1>4
<1> QED BY <1>2, <1>5

-----------------------------------------------------------------------------
(* The requests of the tools that are annotated.                               *)

CellNames ==
    {"none", "reaction", "acked", "status", "policy", "settings", "scope", "channelRole", "role", "revoked",
     "dep1", "dep2", "dep3", "link", "fields", "accepted", "lease", "pool"}
Request == [cell : CellNames, from : SUBSET All, to : Nat, how : {"put", "raise", "read", "local"}]

\* No request adds to what is there, and no two write the same cell.
Steady(reqs) ==
    /\ reqs \in Seq(Request)
    /\ \A i, j \in 1 .. Len(reqs) : i # j /\ reqs[i].cell = reqs[j].cell => reqs[i].cell = "none"
\* No request writes.
Still(reqs) == \A i \in 1 .. Len(reqs) : reqs[i].cell = "none"
CallOk(c) ==
    /\ c.name \in Idempotent => Steady(c.reqs)
    /\ c.name \in ReadOnly => Still(c.reqs)

LEMMA OneRequest ==
    ASSUME NEW r \in Request PROVE Steady(<<r>>) /\ (r.cell = "none" => Still(<<r>>))
  BY DEF Steady, Still

LEMMA Reading ==
    /\ Look \in Request /\ Look.cell = "none" /\ LocalOnly \in Request /\ LocalOnly.cell = "none"
    /\ Steady(<<>>) /\ Still(<<>>)
    /\ Steady(<<Look>>) /\ Still(<<Look>>) /\ Steady(<<Look, Look>>) /\ Still(<<Look, Look>>)
    /\ Steady(<<LocalOnly, Look>>) /\ Still(<<LocalOnly, Look>>)
    /\ Steady(<<Look, Look, Look, Look>>) /\ Still(<<Look, Look, Look, Look>>)
<1>1. Look \in Request /\ Look.cell = "none" /\ LocalOnly \in Request /\ LocalOnly.cell = "none"
  BY DEF Look, LocalOnly, Request, CellNames, All
<1>2. /\ Still(<<>>) /\ Still(<<Look>>) /\ Still(<<Look, Look>>) /\ Still(<<LocalOnly, Look>>) /\ Still(<<Look, Look, Look, Look>>)
  BY <1>1 DEF Still
<1>3. \A reqs \in Seq(Request) : Still(reqs) => Steady(reqs)
  BY DEF Still, Steady
<1>4. /\ <<>> \in Seq(Request) /\ <<Look>> \in Seq(Request) /\ <<Look, Look>> \in Seq(Request)
      /\ <<LocalOnly, Look>> \in Seq(Request) /\ <<Look, Look, Look, Look>> \in Seq(Request)
  BY <1>1
<1> QED BY <1>1, <1>2, <1>3, <1>4

LEMMA Written ==
    ASSUME NEW c \in CellNames, NEW f \in SUBSET All, NEW v \in Nat
    PROVE  Values(c, f, v) \in Request /\ Values(c, f, v).cell = c /\ Raise(c, v) \in Request
  BY DEF Values, Raise, Request, All

LEMMA Sources == All \in SUBSET All /\ {0} \in SUBSET All /\ {1} \in SUBSET All
  BY DEF All

\* The tools that carry no annotation, those that carry one and write, and the sequences of requests that only read.
Plain ==
    {"chat", "attach", "fetch_file", "channel_create", "channel_add", "channel_remove", "channel_rotate",
     "card_create", "card_move", "card_evidence", "card_approve", "card_reclaim", "sprint_create", "sprint_add", "sprint_start",
     "sprint_close", "note_publish", "work_add", "work_next", "work_claim", "work_cancel", "work_finish", "work_run",
     "work_schedule", "pool_lease", "quiet_window", "reclaim", "escalate"}
Setters ==
    {"react", "ack", "channel_promote", "channel_demote", "role_grant", "revoke", "status_set", "status_clear",
     "work_scope", "work_accept", "work_settings", "pool_define", "pool_release", "policy_set", "card_update"}
Looks == {<<>>, <<Look>>, <<Look, Look>>, <<LocalOnly, Look>>, <<Look, Look, Look, Look>>}

LEMMA Annotations == Plain \cap (Idempotent \cup ReadOnly) = {} /\ Setters \cap ReadOnly = {}
  BY DEF Plain, Setters, Idempotent, ReadOnly, ReadOnlyChat, ReadOnlyBoard, ReadOnlyWork, ReadOnlySched

Single(c) == c.name \in Setters /\ \E r \in Request : c.reqs = <<r>>
LEMMA EasyOk ==
    ASSUME NEW c, c.name \in Plain \/ c.reqs \in Looks \/ Single(c) PROVE CallOk(c)
<1>1. CASE c.name \in Plain
  BY <1>1, Annotations DEF CallOk
<1>2. CASE c.reqs \in Looks
  BY <1>2, Reading DEF CallOk, Looks
<1>3. CASE Single(c)
  BY <1>3, Annotations, OneRequest DEF CallOk, Single
<1> QED BY <1>1, <1>2, <1>3

LEMMA ReadsOk == ASSUME NEW names, NEW c \in Reads(names) PROVE CallOk(c)
<1>1. c.reqs \in Looks
  BY DEF Reads, Asks, Looks
<1> QED BY <1>1, EasyOk

LEMMA PlainOk == ASSUME NEW n \in Plain, NEW reqs PROVE CallOk(Asks(n, reqs))
  BY EasyOk DEF Asks
LEMMA LooksOk == ASSUME NEW n, NEW reqs \in Looks PROVE CallOk(Asks(n, reqs))
  BY EasyOk DEF Asks
LEMMA SingleOk == ASSUME NEW n \in Setters, NEW r \in Request PROVE CallOk(Asks(n, <<r>>))
  BY EasyOk DEF Asks, Single

LEMMA FileToolsOk == \A c \in FileTools : CallOk(c)
  BY PlainOk DEF FileTools, Plain

LEMMA ChatToolsOk == \A c \in ChatTools : CallOk(c)
<1>1. \A v \in {0, 1} : React(v) \in Request
  BY Written, Sources DEF React, CellNames
<1> QED BY <1>1, PlainOk, LooksOk, SingleOk DEF ChatTools, Plain, Looks, Setters

LEMMA InboxToolsOk == \A c \in InboxTools : CallOk(c)
<1>1. \A n \in {1, 2} : Ack(n) \in Request
  BY Written, Sources DEF Ack, CellNames
<1> QED BY <1>1, PlainOk, LooksOk, SingleOk, ReadsOk DEF InboxTools, Plain, Looks, Setters

LEMMA OrgToolsOk == \A c \in OrgTools : CallOk(c)
<1>1. \A v \in {0, 1} : ChannelRole(v) \in Request /\ GrantRole(v) \in Request
  BY Written, Sources DEF ChannelRole, GrantRole, CellNames
<1>2. RevokeKey \in Request
  BY Written, Sources DEF RevokeKey, CellNames
<1> QED BY <1>1, <1>2, PlainOk, LooksOk, SingleOk, ReadsOk DEF OrgTools, Plain, Looks, Setters

LEMMA StatusToolsOk == \A c \in StatusTools : CallOk(c)
<1>1. \A v \in {0, 1, 2} : Status(v) \in Request
  BY Written, Sources DEF Status, CellNames
<1> QED BY <1>1, PlainOk, LooksOk, SingleOk, ReadsOk DEF StatusTools, Plain, Looks, Setters

LEMMA BoardToolsOk == \A c \in BoardTools : CallOk(c)
  BY PlainOk, LooksOk, ReadsOk DEF BoardTools, Plain, Looks

LEMMA SummaryToolsOk == \A c \in SummaryTools : CallOk(c)
  BY PlainOk, LooksOk, ReadsOk DEF SummaryTools, Plain, Looks

LEMMA DiscoverToolsOk == \A c \in DiscoverTools : CallOk(c)
  BY PlainOk, LooksOk, ReadsOk DEF DiscoverTools, Plain, Looks

LEMMA DiagToolsOk == \A c \in DiagTools : CallOk(c)
  BY PlainOk, LooksOk, ReadsOk DEF DiagTools, Plain, Looks

LEMMA PlanToolsOk == \A c \in PlanTools : CallOk(c)
  BY PlainOk, LooksOk, ReadsOk DEF PlanTools, Plain, Looks

LEMMA WaitToolsOk == \A c \in WaitTools : CallOk(c)
  BY PlainOk, LooksOk, ReadsOk DEF WaitTools, Plain, Looks

LEMMA RunToolsOk == \A c \in RunTools : CallOk(c)
  BY PlainOk, LooksOk, ReadsOk DEF RunTools, Plain, Looks

LEMMA ScheduleToolsOk == \A c \in ScheduleTools : CallOk(c)
  BY PlainOk, LooksOk, ReadsOk DEF ScheduleTools, Plain, Looks

LEMMA WatchToolsOk == \A c \in WatchTools : CallOk(c)
  BY PlainOk, LooksOk, ReadsOk DEF WatchTools, Plain, Looks

LEMMA SetterToolsOk == \A c \in SetterTools : CallOk(c)
<1>1. \A v \in {0, 1} : ScopeSet(v) \in Request /\ SettingsSet(v) \in Request
  BY Written, Sources DEF ScopeSet, SettingsSet, CellNames
<1> QED BY <1>1, PlainOk, LooksOk, SingleOk, ReadsOk DEF SetterTools, Plain, Looks, Setters

LEMMA PolicyToolsOk == \A c \in PolicyTools : CallOk(c)
<1>1. \A v \in {0, 1} : PolicySet(v) \in Request
  BY Written, Sources DEF PolicySet, CellNames
<1> QED BY <1>1, PlainOk, LooksOk, SingleOk, ReadsOk DEF PolicyTools, Plain, Looks, Setters

LEMMA LeaseToolsOk == \A c \in LeaseTools : CallOk(c)
<1>1. \A v \in {1, 2} : Values("pool", All, v) \in Request
  BY Written, Sources DEF CellNames
<1>2. SchedOps.release \in Request
  BY Written, Sources DEF SchedOps, CellNames
<1> QED BY <1>1, <1>2, PlainOk, SingleOk DEF LeaseTools, Plain, Setters

\* The accept of a command looks first, and is for this machine.
LEMMA WorkToolsOk == \A c \in WorkTools : CallOk(c)
<1>1. Accept \in Request /\ WorkOps.accept = Accept
  BY Written, Sources DEF Accept, WorkOps, CellNames
<1>2. Steady(<<Look, LocalOnly, Accept>>)
  BY <1>1, Reading DEF Steady
<1>3. CallOk(Asks("work_accept", <<Look, LocalOnly, WorkOps.accept>>))
  BY <1>1, <1>2, Annotations DEF CallOk, Asks, Setters
<1> QED BY <1>3, PlainOk, ReadsOk DEF WorkTools, Plain

CellsOf(reqs) == {reqs[i].cell : i \in 1 .. Len(reqs)}
LEMMA Joined ==
    ASSUME NEW a, NEW b, Steady(a), Steady(b), CellsOf(a) \cap CellsOf(b) \subseteq {"none"}
    PROVE  Steady(a \o b) /\ CellsOf(a \o b) \subseteq CellsOf(a) \cup CellsOf(b)
<1>1. a \in Seq(Request) /\ b \in Seq(Request)
  BY DEF Steady
<1> DEFINE s == a \o b
<1>2. /\ s \in Seq(Request) /\ Len(s) = Len(a) + Len(b) /\ Len(a) \in Nat /\ Len(b) \in Nat
      /\ \A i \in 1 .. Len(s) : s[i] = IF i <= Len(a) THEN a[i] ELSE b[i - Len(a)]
  BY <1>1
<1> HIDE DEF s
<1>3. ASSUME NEW i \in 1 .. Len(s)
      PROVE  \/ i \in 1 .. Len(a) /\ s[i] = a[i] /\ s[i].cell \in CellsOf(a)
             \/ i - Len(a) \in 1 .. Len(b) /\ s[i] = b[i - Len(a)] /\ s[i].cell \in CellsOf(b)
  <2>1. CASE i <= Len(a)
    <3>1. i \in 1 .. Len(a) /\ s[i] = a[i]
      BY <1>2, <2>1
    <3> QED BY <3>1 DEF CellsOf
  <2>2. CASE ~(i <= Len(a))
    <3>1. i - Len(a) \in 1 .. Len(b) /\ s[i] = b[i - Len(a)]
      BY <1>2, <2>2
    <3> QED BY <3>1 DEF CellsOf
  <2> QED BY <2>1, <2>2
<1>4. ASSUME NEW i \in 1 .. Len(s), NEW j \in 1 .. Len(s), i # j, s[i].cell = s[j].cell PROVE s[i].cell = "none"
  <2>1. CASE i \in 1 .. Len(a) /\ s[i] = a[i] /\ j \in 1 .. Len(a) /\ s[j] = a[j]
    BY <1>4, <2>1 DEF Steady
  <2>2. CASE i - Len(a) \in 1 .. Len(b) /\ s[i] = b[i - Len(a)] /\ j - Len(a) \in 1 .. Len(b) /\ s[j] = b[j - Len(a)]
    <3>1. i - Len(a) # j - Len(a)
      BY <1>2, <1>4
    <3> QED BY <1>4, <2>2, <3>1 DEF Steady
  <2>3. CASE s[i].cell \in CellsOf(a) /\ s[j].cell \in CellsOf(b)
    BY <1>4, <2>3
  <2>4. CASE s[i].cell \in CellsOf(b) /\ s[j].cell \in CellsOf(a)
    BY <1>4, <2>4
  <2>5. \/ i \in 1 .. Len(a) /\ s[i] = a[i] /\ s[i].cell \in CellsOf(a)
        \/ i - Len(a) \in 1 .. Len(b) /\ s[i] = b[i - Len(a)] /\ s[i].cell \in CellsOf(b)
    BY <1>3
  <2>6. \/ j \in 1 .. Len(a) /\ s[j] = a[j] /\ s[j].cell \in CellsOf(a)
        \/ j - Len(a) \in 1 .. Len(b) /\ s[j] = b[j - Len(a)] /\ s[j].cell \in CellsOf(b)
    BY <1>3
  <2> QED BY <2>1, <2>2, <2>3, <2>4, <2>5, <2>6
<1>5. Steady(s)
  BY <1>2, <1>4 DEF Steady
<1>6. CellsOf(s) \subseteq CellsOf(a) \cup CellsOf(b)
  <2> SUFFICES ASSUME NEW x \in CellsOf(s) PROVE x \in CellsOf(a) \cup CellsOf(b)
    OBVIOUS
  <2>1. PICK i \in 1 .. Len(s) : x = s[i].cell
    BY DEF CellsOf
  <2> QED BY <1>3, <2>1
<1> QED BY <1>5, <1>6 DEF s

\* The parts of a card's update write cells of their own.
LEMMA CardUpdatesOk == \A c \in CardUpdates : CallOk(c)
<1> DEFINE F == {<<>>, <<CardFields(1)>>}
           D == {<<>>, <<CardDep("dep1", 1)>>, <<CardDep("dep1", 1), CardDep("dep2", 1)>>}
           R == {<<>>, <<CardDep("dep3", 0)>>}
           L == {<<>>, <<CardLink(1)>>, <<CardLink(0)>>}
<1>0. 1 - 1 = 0 /\ 1 - 0 = 1
  OBVIOUS
<1>1. /\ CardFields(1) \in Request /\ CardFields(1).cell = "fields"
      /\ CardDep("dep1", 1) \in Request /\ CardDep("dep1", 1).cell = "dep1"
      /\ CardDep("dep2", 1) \in Request /\ CardDep("dep2", 1).cell = "dep2"
      /\ CardDep("dep3", 0) \in Request /\ CardDep("dep3", 0).cell = "dep3"
      /\ CardLink(1) \in Request /\ CardLink(1).cell = "link" /\ CardLink(0) \in Request /\ CardLink(0).cell = "link"
  BY <1>0, Written, Sources DEF CardFields, CardDep, CardLink, CellNames
<1>2. \A r \in Request : Steady(<<r>>) /\ CellsOf(<<r>>) = {r.cell}
  BY DEF Steady, CellsOf
<1>3. Steady(<<>>) /\ CellsOf(<<>>) = {}
  BY DEF Steady, CellsOf
<1>4. Steady(<<CardDep("dep1", 1), CardDep("dep2", 1)>>) /\ CellsOf(<<CardDep("dep1", 1), CardDep("dep2", 1)>>) \subseteq {"dep1", "dep2"}
  BY <1>1 DEF Steady, CellsOf
<1>5. \A f \in F : Steady(f) /\ CellsOf(f) \subseteq {"fields"}
  BY <1>1, <1>2, <1>3
<1>6. \A d \in D : Steady(d) /\ CellsOf(d) \subseteq {"dep1", "dep2"}
  BY <1>1, <1>2, <1>3, <1>4
<1>7. \A r \in R : Steady(r) /\ CellsOf(r) \subseteq {"dep3"}
  BY <1>1, <1>2, <1>3
<1>8. \A l \in L : Steady(l) /\ CellsOf(l) \subseteq {"link"}
  BY <1>1, <1>2, <1>3
<1>9. Steady(<<Look>>) /\ CellsOf(<<Look>>) \subseteq {"none"}
  BY <1>2, Reading
<1>10. \A c \in CardUpdates : \E f \in F, d \in D, r \in R, l \in L : c = Asks("card_update", f \o d \o r \o l \o <<Look>>)
  BY DEF CardUpdates
<1> HIDE DEF F, D, R, L
<1>11. ASSUME NEW f \in F, NEW d \in D, NEW r \in R, NEW l \in L PROVE Steady(f \o d \o r \o l \o <<Look>>)
  <2>1. Steady(f \o d) /\ CellsOf(f \o d) \subseteq {"fields", "dep1", "dep2"}
    <3>1. Steady(f) /\ Steady(d) /\ CellsOf(f) \subseteq {"fields"} /\ CellsOf(d) \subseteq {"dep1", "dep2"}
      BY <1>5, <1>6
    <3>2. CellsOf(f) \cap CellsOf(d) \subseteq {"none"}
      BY <3>1
    <3>3. Steady(f \o d) /\ CellsOf(f \o d) \subseteq CellsOf(f) \cup CellsOf(d)
      BY <3>1, <3>2, Joined
    <3> QED BY <3>1, <3>3
  <2>2. Steady(f \o d \o r) /\ CellsOf(f \o d \o r) \subseteq {"fields", "dep1", "dep2", "dep3"}
    <3> DEFINE a == f \o d
    <3>1. Steady(a) /\ Steady(r) /\ CellsOf(a) \subseteq {"fields", "dep1", "dep2"} /\ CellsOf(r) \subseteq {"dep3"}
      BY <1>7, <2>1
    <3> HIDE DEF a
    <3>2. CellsOf(a) \cap CellsOf(r) \subseteq {"none"}
      BY <3>1
    <3>3. Steady(a \o r) /\ CellsOf(a \o r) \subseteq CellsOf(a) \cup CellsOf(r)
      BY <3>1, <3>2, Joined
    <3>4. CellsOf(a \o r) \subseteq {"fields", "dep1", "dep2", "dep3"}
      BY <3>1, <3>3
    <3> QED BY <3>3, <3>4 DEF a
  <2>3. Steady(f \o d \o r \o l) /\ CellsOf(f \o d \o r \o l) \subseteq {"fields", "dep1", "dep2", "dep3", "link"}
    <3> DEFINE a == f \o d \o r
    <3>1. Steady(a) /\ Steady(l) /\ CellsOf(a) \subseteq {"fields", "dep1", "dep2", "dep3"} /\ CellsOf(l) \subseteq {"link"}
      BY <1>8, <2>2
    <3> HIDE DEF a
    <3>2. CellsOf(a) \cap CellsOf(l) \subseteq {"none"}
      BY <3>1
    <3>3. Steady(a \o l) /\ CellsOf(a \o l) \subseteq CellsOf(a) \cup CellsOf(l)
      BY <3>1, <3>2, Joined
    <3>4. CellsOf(a \o l) \subseteq {"fields", "dep1", "dep2", "dep3", "link"}
      BY <3>1, <3>3
    <3> QED BY <3>3, <3>4 DEF a
  <2> DEFINE a == f \o d \o r \o l
             b == <<Look>>
  <2>4. Steady(a) /\ Steady(b) /\ CellsOf(a) \cap CellsOf(b) \subseteq {"none"}
    BY <1>9, <2>3
  <2> HIDE DEF a, b
  <2>5. Steady(a \o b)
    BY <2>4, Joined
  <2> QED BY <2>5 DEF a, b
<1>12. "card_update" \in Setters
  BY DEF Setters
<1>13. ASSUME NEW reqs, Steady(reqs) PROVE CallOk(Asks("card_update", reqs))
  BY <1>12, <1>13, Annotations DEF CallOk, Asks
<1> QED BY <1>10, <1>11, <1>13

LEMMA CallsOk == \A c \in Calls : CallOk(c)
  BY FileToolsOk, ChatToolsOk, InboxToolsOk, OrgToolsOk, StatusToolsOk, BoardToolsOk, SummaryToolsOk, DiscoverToolsOk,
     DiagToolsOk, WorkToolsOk, PlanToolsOk, SetterToolsOk, WaitToolsOk, RunToolsOk, ScheduleToolsOk, LeaseToolsOk,
     WatchToolsOk, PolicyToolsOk, CardUpdatesOk DEF Calls

-----------------------------------------------------------------------------
(* A call, however often it is made.                                           *)

ToolNames == {c.name : c \in Calls}
AllAsked  == {c.reqs : c \in Calls}
ToolRow == [remote : BOOLEAN, name : ToolNames, reqs : AllAsked, at : Nat, tries : Nat,
            is : {"open", "lost", "refused", "done"}]
CallHeld == CallOk([name |-> tool.name, reqs |-> tool.reqs])
FitsCells(reqs) == \A i \in 1 .. Len(reqs) : reqs[i].cell \in Cells

\* The state is that of the k-th request of one try, and what the requests before write is there.
ReachedAt(t, now, first, k) ==
    /\ t.at <= k + 1 /\ (t.is = "done" => k = Len(t.reqs))
    /\ SingleTry(t.reqs, t.remote, first)[k] = [ok |-> TRUE, state |-> now]
    /\ \A i \in 1 .. k : Applied(t.reqs[i], now) = now
OneTry(t, now, first) ==
    /\ now \in [Cells -> Nat] /\ FitsCells(t.reqs)
    /\ \E k \in 0 .. Len(t.reqs) : ReachedAt(t, now, first, k)
ToolInv ==
    /\ tool \in ToolRow /\ tool.at >= 1 /\ CallHeld
    /\ tool.name \in ReadOnly => cell = before
    /\ tool.name \in Idempotent => OneTry(tool, cell, before)

LEMMA AppliedAgain ==
    ASSUME NEW r \in Request, r.cell \in Cells, NEW s \in [Cells -> Nat]
    PROVE  /\ Applied(r, s) \in [Cells -> Nat] /\ Applied(r, Applied(r, s)) = Applied(r, s)
           /\ \A x \in Cells : x # r.cell => Applied(r, s)[x] = s[x]
<1>0. r.to \in Nat /\ r.how # "more"
  BY DEF Request
<1>1. CASE r.cell = "none"
  BY <1>1 DEF Applied
<1>2. CASE r.cell # "none"
  <2> DEFINE v == IF r.how = "raise" THEN (IF s[r.cell] < r.to THEN r.to ELSE s[r.cell]) ELSE r.to
             t == [s EXCEPT ![r.cell] = v]
  <2>1. Applied(r, s) = t /\ v \in Nat
    BY <1>0, <1>2 DEF Applied
  <2>2. t \in [Cells -> Nat] /\ t[r.cell] = v /\ \A x \in Cells : x # r.cell => t[x] = s[x]
    BY <2>1
  <2>3. (IF r.how = "raise" THEN (IF v < r.to THEN r.to ELSE v) ELSE r.to) = v
    BY <1>0
  <2> HIDE DEF v, t
  <2>4. Applied(r, t) = [t EXCEPT ![r.cell] = IF r.how = "raise" THEN (IF t[r.cell] < r.to THEN r.to ELSE t[r.cell]) ELSE r.to]
    BY <1>0, <1>2 DEF Applied
  <2>5. Applied(r, t) = [t EXCEPT ![r.cell] = v]
    BY <2>2, <2>3, <2>4
  <2>6. [t EXCEPT ![r.cell] = v] = t
    BY <2>2
  <2> QED BY <2>1, <2>2, <2>5, <2>6
<1> QED BY <1>1, <1>2

\* What a request has done stays done when another cell is written.
LEMMA AppliedApart ==
    ASSUME NEW r \in Request, r.cell \in Cells, NEW s \in [Cells -> Nat], NEW t \in [Cells -> Nat],
           Applied(r, s) = s, r.cell = "none" \/ t[r.cell] = s[r.cell]
    PROVE  Applied(r, t) = t
<1>1. CASE r.cell = "none"
  BY <1>1 DEF Applied
<1>2. CASE r.cell # "none"
  <2>0. r.to \in Nat /\ r.how # "more"
    BY DEF Request
  <2> DEFINE v(u) == IF r.how = "raise" THEN (IF u[r.cell] < r.to THEN r.to ELSE u[r.cell]) ELSE r.to
  <2>1. \A u \in {s, t} : Applied(r, u) = [u EXCEPT ![r.cell] = v(u)]
    BY <1>2, <2>0 DEF Applied
  <2>2. v(s) = s[r.cell]
    BY <2>1
  <2>3. v(t) = t[r.cell]
    BY <1>2, <2>2
  <2> HIDE DEF v
  <2>4. Applied(r, t) = [t EXCEPT ![r.cell] = t[r.cell]]
    BY <2>1, <2>3
  <2> QED BY <2>4
<1> QED BY <1>1, <1>2

LEMMA ToolStarts == ToolInit => ToolInv
<1> SUFFICES ASSUME ToolInit PROVE ToolInv
  OBVIOUS
<1>1. PICK h \in BOOLEAN, c \in Calls : tool = [remote |-> h, name |-> c.name, reqs |-> c.reqs, at |-> 1, tries |-> 1, is |-> "open"]
  BY DEF ToolInit
<1>2. cell = before /\ before \in [Cells -> Nat]
  BY DEF ToolInit
<1>3. tool \in ToolRow /\ tool.at = 1 /\ tool.is = "open" /\ tool.name = c.name /\ tool.reqs = c.reqs
  BY <1>1 DEF ToolRow, ToolNames, AllAsked
<1>4. CallHeld
  BY <1>3, CallsOk DEF CallHeld, CallOk
<1>5. ASSUME tool.name \in Idempotent PROVE OneTry(tool, cell, before)
  <2>1. tool.reqs \in Seq(Request)
    BY <1>4, <1>5 DEF CallHeld, CallOk, Steady
  <2>2. FitsCells(tool.reqs)
    BY <1>3, <2>1 DEF FitsCells, Cells, Range
  <2>3. Len(tool.reqs) \in Nat
    BY <2>1
  <2>4. SingleTry(tool.reqs, tool.remote, before)[0] = [ok |-> TRUE, state |-> cell]
    BY <1>2, <2>3, TryUnfolds DEF Start
  <2>5. ReachedAt(tool, cell, before, 0)
    BY <1>3, <2>4 DEF ReachedAt
  <2>6. 0 \in 0 .. Len(tool.reqs)
    BY <2>3
  <2> QED BY <1>2, <2>2, <2>5, <2>6 DEF OneTry
<1> QED BY <1>2, <1>3, <1>4, <1>5 DEF ToolInv

\* Nothing is written: the same prefix of a try is reached, the whole of it when the last request is behind.
LEMMA KeptTry ==
    ASSUME NEW t \in ToolRow, NEW u \in ToolRow, NEW now, NEW first, OneTry(t, now, first), Steady(t.reqs),
           u.reqs = t.reqs, u.remote = t.remote, u.at <= t.at, u.is = "done" => t.at > Len(t.reqs)
    PROVE  OneTry(u, now, first)
<1>1. PICK k \in 0 .. Len(t.reqs) : ReachedAt(t, now, first, k)
  BY DEF OneTry
<1>2. k \in Nat /\ Len(t.reqs) \in Nat /\ t.at \in Nat /\ u.at \in Nat /\ t.at <= k + 1 /\ k <= Len(t.reqs)
  BY <1>1 DEF ReachedAt, ToolRow, Steady
<1>3. u.at <= k + 1
  BY <1>2
<1>4. u.is = "done" => k = Len(u.reqs)
  BY <1>2
<1>5. ReachedAt(u, now, first, k)
  BY <1>1, <1>3, <1>4 DEF ReachedAt
<1> QED BY <1>5 DEF OneTry

\* A request is served: it was served before and changes nothing, or it is the next one of the try.
LEMMA ServedTry ==
    ASSUME NEW t \in ToolRow, NEW u \in ToolRow, NEW now, NEW first, OneTry(t, now, first), Steady(t.reqs),
           t.at \in 1 .. Len(t.reqs), Admits(t.reqs[t.at], t.remote, now),
           u.reqs = t.reqs, u.remote = t.remote, u.at <= t.at + 1, u.is # "done"
    PROVE  OneTry(u, Applied(t.reqs[t.at], now), first)
<1> DEFINE reqs == t.reqs
           r == reqs[t.at]
           next == Applied(r, now)
           f == SingleTry(reqs, t.remote, first)
<1>1. PICK k \in 0 .. Len(reqs) : ReachedAt(t, now, first, k)
  BY DEF OneTry
<1>2. /\ reqs \in Seq(Request) /\ Len(reqs) \in Nat /\ k \in Nat /\ t.at \in Nat /\ u.at \in Nat
      /\ \A i \in 1 .. Len(reqs) : reqs[i] \in Request /\ reqs[i].cell \in Cells
  BY <1>1 DEF Steady, OneTry, FitsCells, ToolRow
<1>3. r \in Request /\ r.cell \in Cells /\ now \in [Cells -> Nat]
  BY <1>2 DEF OneTry
<1>4. /\ t.at <= k + 1 /\ f[k] = [ok |-> TRUE, state |-> now]
      /\ \A i \in 1 .. k : Applied(reqs[i], now) = now
  BY <1>1 DEF ReachedAt
<1>5. CASE t.at <= k
  <2>1. next = now
    BY <1>2, <1>4, <1>5
  <2>2. u.at <= k + 1
    BY <1>2, <1>5
  <2>3. ReachedAt(u, next, first, k)
    BY <1>4, <2>1, <2>2 DEF ReachedAt
  <2> QED BY <1>1, <2>1, <2>3 DEF OneTry
<1>6. CASE t.at = k + 1
  <2>1. k + 1 \in 1 .. Len(reqs) /\ k + 1 \in 0 .. Len(reqs) /\ (k + 1) - 1 = k
    BY <1>2, <1>6
  <2>2. f[k + 1] = Tried(r, t.remote, f[k])
    BY <1>2, <1>6, <2>1, TryUnfolds
  <2>3. f[k + 1] = [ok |-> TRUE, state |-> next]
    <3> HIDE DEF r, f, next
    <3>1. Admits(r, t.remote, now)
      BY DEF r
    <3>2. Tried(r, t.remote, [ok |-> TRUE, state |-> now]) = [ok |-> TRUE, state |-> Applied(r, now)]
      BY <3>1 DEF Tried
    <3> QED BY <1>4, <2>2, <3>2 DEF next
  <2>4. /\ next \in [Cells -> Nat] /\ Applied(r, next) = next /\ \A x \in Cells : x # r.cell => next[x] = now[x]
    BY <1>3, AppliedAgain
  <2>5. ASSUME NEW i \in 1 .. k + 1 PROVE Applied(reqs[i], next) = next
    <3>1. CASE i = k + 1
      BY <1>6, <2>4, <3>1
    <3>2. CASE i # k + 1
      <4>1. i \in 1 .. k /\ i \in 1 .. Len(reqs) /\ i # t.at
        BY <1>2, <1>6, <2>1, <3>2
      <4> DEFINE q == reqs[i]
      <4>2. q \in Request /\ q.cell \in Cells /\ Applied(q, now) = now /\ (q.cell = r.cell => q.cell = "none")
        BY <1>2, <1>4, <4>1 DEF Steady
      <4> HIDE DEF q, next, r
      <4>3. q.cell = "none" \/ next[q.cell] = now[q.cell]
        BY <2>4, <4>2
      <4>4. Applied(q, next) = next
        BY <1>3, <2>4, <4>2, <4>3, AppliedApart
      <4> QED BY <4>4 DEF q
    <3> QED BY <3>1, <3>2
  <2>6. u.at <= (k + 1) + 1
    BY <1>2, <1>6
  <2> HIDE DEF next, f
  <2>7. SingleTry(u.reqs, u.remote, first)[k + 1] = [ok |-> TRUE, state |-> next]
    BY <2>3 DEF f
  <2>8. ReachedAt(u, next, first, k + 1)
    BY <2>5, <2>6, <2>7 DEF ReachedAt
  <2>9. OneTry(u, next, first)
    BY <2>1, <2>4, <2>8 DEF OneTry
  <2> QED BY <2>9 DEF next
<1> QED BY <1>2, <1>4, <1>5, <1>6

LEMMA ToolKeeps == ToolInv /\ [ToolStep]_toolVars => ToolInv'
<1> SUFFICES ASSUME ToolInv, [ToolStep]_toolVars PROVE ToolInv'
  OBVIOUS
<1>0. /\ tool \in ToolRow /\ tool.at \in Nat /\ tool.at >= 1 /\ CallHeld
      /\ tool.name \in ReadOnly => cell = before /\ Still(tool.reqs)
      /\ tool.name \in Idempotent => OneTry(tool, cell, before) /\ Steady(tool.reqs)
  BY DEF ToolInv, ToolRow, CallHeld, CallOk
<1> DEFINE Same == /\ tool' \in ToolRow /\ tool'.name = tool.name /\ tool'.reqs = tool.reqs /\ tool'.remote = tool.remote
                   /\ tool'.at >= 1
\* What every step leaves alone.
<1>a. Same => CallHeld'
  BY <1>0 DEF CallHeld
<1>1. ASSUME Same, UNCHANGED <<cell, before>>, tool'.at <= tool.at, tool'.is = "done" => tool.at > Len(tool.reqs)
      PROVE  ToolInv'
  <2>1. tool.name \in Idempotent => OneTry(tool', cell, before)
    BY <1>0, <1>1, KeptTry
  <2> QED BY <1>0, <1>1, <1>a, <2>1 DEF ToolInv
<1>2. CASE Serve
  <2> DEFINE r == tool.reqs[tool.at]
  <2>1. /\ tool.is = "open" /\ tool.at <= Len(tool.reqs) /\ before' = before
        /\ IF Admits(r, tool.remote, cell)
           THEN cell' = Applied(r, cell) /\ tool' \in {[tool EXCEPT !.at = @ + 1], [tool EXCEPT !.is = "lost"]}
           ELSE cell' = cell /\ tool' = [tool EXCEPT !.is = "refused"]
    BY <1>2 DEF Serve
  <2>2. CASE ~Admits(r, tool.remote, cell)
    <3>1. tool' = [tool EXCEPT !.is = "refused"] /\ cell' = cell
      BY <2>1, <2>2
    <3>2. Same /\ tool'.at = tool.at /\ tool'.is = "refused"
      BY <1>0, <3>1 DEF ToolRow
    <3> QED BY <1>0, <1>1, <2>1, <3>1, <3>2
  <2>3. CASE Admits(r, tool.remote, cell)
    <3>1. cell' = Applied(r, cell) /\ tool' \in {[tool EXCEPT !.at = @ + 1], [tool EXCEPT !.is = "lost"]}
      BY <2>1, <2>3
    <3>2. Same /\ tool'.at <= tool.at + 1 /\ tool'.is # "done"
      <4>1. CASE tool' = [tool EXCEPT !.at = @ + 1]
        <5>1. tool' \in ToolRow /\ tool'.at = tool.at + 1 /\ tool'.is = tool.is
          BY <1>0, <4>1 DEF ToolRow
        <5>2. tool'.name = tool.name /\ tool'.reqs = tool.reqs /\ tool'.remote = tool.remote
          BY <1>0, <4>1 DEF ToolRow
        <5> QED BY <1>0, <2>1, <5>1, <5>2
      <4>2. CASE tool' = [tool EXCEPT !.is = "lost"]
        BY <1>0, <4>2 DEF ToolRow
      <4> QED BY <3>1, <4>1, <4>2
    <3>3. ASSUME tool.name \in ReadOnly PROVE cell' = before'
      <4>1. r.cell = "none"
        <5>1. Still(tool.reqs) /\ cell = before /\ tool.at >= 1
          BY <1>0, <3>3
        <5>2. Len(tool.reqs) \in Nat => tool.at \in 1 .. Len(tool.reqs)
          BY <1>0, <2>1, <5>1
        <5> QED BY <5>1, <5>2 DEF Still
      <4>2. Applied(r, cell) = cell
        BY <4>1 DEF Applied
      <4> QED BY <1>0, <2>1, <3>1, <3>3, <4>2
    <3>4. ASSUME tool.name \in Idempotent PROVE OneTry(tool', cell', before')
      <4>1. OneTry(tool, cell, before) /\ Steady(tool.reqs) /\ tool \in ToolRow
        BY <1>0, <3>4
      <4>2. tool.at \in 1 .. Len(tool.reqs)
        BY <1>0, <2>1, <4>1 DEF Steady
      <4>3. OneTry(tool', Applied(tool.reqs[tool.at], cell), before)
        BY <2>3, <3>2, <4>1, <4>2, ServedTry
      <4> QED BY <2>1, <3>1, <4>3
    <3> QED BY <1>a, <3>2, <3>3, <3>4 DEF ToolInv
  <2> QED BY <2>2, <2>3
<1>3. CASE Lose
  <2>1. Same /\ tool'.at = tool.at /\ tool'.is = "lost" /\ UNCHANGED <<cell, before>>
    BY <1>0, <1>3 DEF Lose, ToolRow
  <2> QED BY <1>0, <1>1, <2>1
<1>4. CASE Answered
  <2>1. Same /\ tool'.at = tool.at /\ tool.at > Len(tool.reqs) /\ UNCHANGED <<cell, before>>
    BY <1>0, <1>4 DEF Answered, ToolRow
  <2> QED BY <1>0, <1>1, <2>1
<1>5. CASE Again
  <2>1. tool' = [tool EXCEPT !.is = "open", !.at = 1, !.tries = tool.tries + 1] /\ UNCHANGED <<cell, before>>
    BY <1>5 DEF Again
  <2>a. tool.tries + 1 \in Nat
    BY <1>0 DEF ToolRow
  <2>2. tool' \in ToolRow
    BY <1>0, <2>1, <2>a DEF ToolRow
  <2>3. /\ tool'.name = tool.name /\ tool'.reqs = tool.reqs /\ tool'.remote = tool.remote
        /\ tool'.at = 1 /\ tool'.is = "open"
    BY <1>0, <2>1 DEF ToolRow
  <2> QED BY <1>0, <1>1, <2>1, <2>2, <2>3
<1>6. CASE UNCHANGED toolVars
  <2>1. tool' = tool /\ cell' = cell /\ before' = before
    BY <1>6 DEF toolVars
  <2> QED BY <2>1 DEF ToolInv, CallHeld
<1> QED BY <1>2, <1>3, <1>4, <1>5, <1>6 DEF ToolStep

\* A harness may call again, as often as it likes and wherever an answer was lost, every tool whose annotation says so: what a
\* read-only tool leaves is what was there, and what an idempotent one leaves is what a single try of it would have.
THEOREM RepeatsAddNothing == ToolSpec => []RepeatAddsNothing
<1>1. ToolInv => RepeatAddsNothing
  <2> SUFFICES ASSUME ToolInv, tool.name \in Idempotent
               PROVE  LET f == SingleTry(tool.reqs, tool.remote, before) IN
                      (\E k \in DOMAIN f : cell = f[k].state) /\ (tool.is = "done" => cell = f[Len(tool.reqs)].state)
    BY DEF RepeatAddsNothing, ToolInv
  <2> DEFINE f == SingleTry(tool.reqs, tool.remote, before)
  <2>1. OneTry(tool, cell, before) /\ Steady(tool.reqs)
    BY DEF ToolInv, CallHeld, CallOk
  <2>2. PICK k \in 0 .. Len(tool.reqs) : ReachedAt(tool, cell, before, k)
    BY <2>1 DEF OneTry
  <2>3. Len(tool.reqs) \in Nat
    BY <2>1 DEF Steady
  <2>4. DOMAIN f = 0 .. Len(tool.reqs)
    BY <2>3, TryUnfolds
  <2>5. f[k] = [ok |-> TRUE, state |-> cell] /\ (tool.is = "done" => k = Len(tool.reqs))
    BY <2>2 DEF ReachedAt
  <2> HIDE DEF f
  <2>6. f[k].state = cell
    BY <2>5
  <2>7. (\E i \in DOMAIN f : cell = f[i].state) /\ (tool.is = "done" => cell = f[Len(tool.reqs)].state)
    BY <2>4, <2>5, <2>6
  <2> QED BY <2>7 DEF f
<1> QED BY <1>1, ToolStarts, ToolKeeps, PTL DEF ToolSpec

=============================================================================
