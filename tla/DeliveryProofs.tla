---------------------------- MODULE DeliveryProofs ----------------------------
(***************************************************************************)
(* Proofs about the consumers of the bus, for any channels, any number of      *)
(* commits and calls, and any capacity of the bus and of a connection's queue. *)
(***************************************************************************)
EXTENDS Delivery, TimerLoop, WellFoundedInduction, TLAPS

-----------------------------------------------------------------------------
(* The bus: what a receiver at `pos` still has ahead of it.                    *)

AheadOf(pos) == {bus[i] : i \in (pos + 1)..Len(bus)} \cup {unpublished[i] : i \in DOMAIN unpublished}

\* The types of the store; its notices that were announced are among its notices, and who is revoked is in
\* no channel.
BusInv ==
    /\ BusTypeOK
    /\ store.heard <= store.notices
    /\ ~store.active => store.members = {}

LEMMA BusInitially == BusInit => BusInv
<1> SUFFICES ASSUME BusInit PROVE BusInv
  OBVIOUS
<1>1. PICK ms \in SUBSET Channels :
         store = [members |-> ms, active |-> TRUE, workDone |-> FALSE, cardMoved |-> FALSE, notices |-> 0,
                  heard |-> 0, msgs |-> <<>>, commits |-> 0]
  BY DEF BusInit
<1>2. store \in Store
  BY <1>1, BusAssumption DEF Store
<1> QED BY <1>1, <1>2 DEF BusInit, BusInv, BusTypeOK

\* A commit keeps the types when what it writes and the events it returns have theirs.
LEMMA CommitKeeps ==
    ASSUME BusInv, NEW row \in Store, NEW events \in Seq(Event), Commit(row, events), row.commits = store.commits,
           row.heard <= row.notices, ~row.active => row.members = {}
    PROVE  /\ BusInv' /\ UNCHANGED bus /\ unpublished = <<>> /\ unpublished' = events
           /\ store'.members = row.members /\ store'.active = row.active /\ store'.workDone = row.workDone
           /\ store'.cardMoved = row.cardMoved /\ store'.notices = row.notices /\ store'.heard = row.heard
           /\ store'.msgs = row.msgs
<1>1. store' = [row EXCEPT !.commits = row.commits + 1] /\ row.commits + 1 \in 0..MaxCommits
  BY BusAssumption DEF Commit, Store
<1>2. /\ store' \in Store
      /\ store'.members = row.members /\ store'.active = row.active /\ store'.workDone = row.workDone
      /\ store'.cardMoved = row.cardMoved /\ store'.notices = row.notices /\ store'.heard = row.heard
      /\ store'.msgs = row.msgs
  BY <1>1 DEF Store
<1> QED BY <1>2 DEF Commit, BusInv, BusTypeOK

\* What each write changes of what a consumer reads, and the events it leaves with the writer.
Writing(events) == BusInv' /\ UNCHANGED bus /\ unpublished = <<>> /\ unpublished' = events
SameWork     == /\ store'.workDone = store.workDone /\ store'.cardMoved = store.cardMoved
                /\ store'.notices = store.notices /\ store'.heard = store.heard
SameChannels == store'.members = store.members /\ store'.active = store.active /\ store'.msgs = store.msgs

LEMMA EventTypes ==
    /\ \A c \in Channels : Ev("message", c) \in Event /\ Ev("channel", c) \in Event
    /\ Ev("identity", NoChannel) \in Event /\ Ev("notice", NoChannel) \in Event /\ Ev("other", NoChannel) \in Event
    /\ Ev("work", NoChannel) \in Event /\ Ev("card", NoChannel) \in Event
BY DEF Ev, Event, Kinds

LEMMA PostFacts ==
    ASSUME BusInv, NEW c \in Channels, Post(c)
    PROVE  /\ Writing(<<Ev("message", c)>>) /\ SameWork
           /\ store'.members = store.members /\ store'.active = store.active
           /\ store'.msgs = Append(store.msgs, [chan |-> c])
<1>1. store \in Store /\ store.msgs \in Seq([chan : Channels]) /\ [chan |-> c] \in [chan : Channels]
  BY DEF BusInv, BusTypeOK, Store
<1> DEFINE more == Append(store.msgs, [chan |-> c])
           row  == [store EXCEPT !.msgs = more]
<1>2. more \in Seq([chan : Channels])
  BY <1>1
<1> HIDE DEF more
<1>3. /\ row \in Store /\ row.members = store.members /\ row.active = store.active /\ row.workDone = store.workDone
      /\ row.cardMoved = store.cardMoved /\ row.notices = store.notices /\ row.heard = store.heard
      /\ row.msgs = more /\ row.commits = store.commits
  BY <1>1, <1>2 DEF Store
<1>4. Commit(row, <<Ev("message", c)>>) /\ <<Ev("message", c)>> \in Seq(Event)
  BY EventTypes DEF Post, more
<1> HIDE DEF row
<1> QED BY <1>3, <1>4, CommitKeeps DEF BusInv, Writing, SameWork, more

LEMMA MembersFacts ==
    ASSUME BusInv, NEW c \in Channels, Join(c) \/ Leave(c)
    PROVE  /\ Writing(<<Ev("channel", c)>>) /\ SameWork
           /\ store'.active = store.active /\ store'.msgs = store.msgs
           /\ \A d \in Channels : d # c => (d \in store'.members <=> d \in store.members)
<1>1. store \in Store /\ <<Ev("channel", c)>> \in Seq(Event)
  BY EventTypes DEF BusInv, BusTypeOK
<1>2. ASSUME NEW ms \in SUBSET Channels, ms \in {store.members \cup {c}, store.members \ {c}},
             Commit([store EXCEPT !.members = ms], <<Ev("channel", c)>>), ~store.active => ms = {}
      PROVE  /\ Writing(<<Ev("channel", c)>>) /\ SameWork
             /\ store'.active = store.active /\ store'.msgs = store.msgs /\ store'.members = ms
  <2> DEFINE row == [store EXCEPT !.members = ms]
  <2>1. /\ row \in Store /\ row.members = ms /\ row.active = store.active /\ row.workDone = store.workDone
        /\ row.cardMoved = store.cardMoved /\ row.notices = store.notices /\ row.heard = store.heard
        /\ row.msgs = store.msgs /\ row.commits = store.commits
    BY <1>1 DEF Store
  <2>2. Commit(row, <<Ev("channel", c)>>)
    BY <1>2
  <2> HIDE DEF row
  <2> QED BY <1>1, <1>2, <2>1, <2>2, CommitKeeps DEF BusInv, Writing, SameWork
<1>3. store.members \in SUBSET Channels
  BY <1>1 DEF Store
<1>4. CASE Join(c)
  <2>1. Commit([store EXCEPT !.members = store.members \cup {c}], <<Ev("channel", c)>>) /\ store.active
    BY <1>4 DEF Join
  <2>2. store.members \cup {c} \in SUBSET Channels
    BY <1>3
  <2> QED BY <1>2, <2>1, <2>2
<1>5. CASE Leave(c)
  <2>1. Commit([store EXCEPT !.members = store.members \ {c}], <<Ev("channel", c)>>)
    BY <1>5 DEF Leave
  <2>2. store.members \ {c} \in SUBSET Channels /\ (~store.active => store.members \ {c} = {})
    BY <1>3 DEF BusInv
  <2> DEFINE ms == store.members \ {c}
  <2>3. ms \in {store.members \cup {c}, store.members \ {c}}
    OBVIOUS
  <2>4. \A d \in Channels : d # c => (d \in ms <=> d \in store.members)
    OBVIOUS
  <2> HIDE DEF ms
  <2> QED BY <1>2, <2>1, <2>2, <2>3, <2>4 DEF ms
<1> QED BY <1>4, <1>5

LEMMA RevokeFacts ==
    ASSUME BusInv, Revoke
    PROVE  /\ Writing(<<Ev("identity", NoChannel)>>) /\ SameWork
           /\ ~store'.active /\ store'.members = {} /\ store'.msgs = store.msgs
<1>1. store \in Store /\ <<Ev("identity", NoChannel)>> \in Seq(Event)
  BY EventTypes DEF BusInv, BusTypeOK
<1> DEFINE row == [store EXCEPT !.active = FALSE, !.members = {}]
<1>2. /\ row \in Store /\ row.members = {} /\ row.active = FALSE /\ row.workDone = store.workDone
      /\ row.cardMoved = store.cardMoved /\ row.notices = store.notices /\ row.heard = store.heard
      /\ row.msgs = store.msgs /\ row.commits = store.commits
  BY <1>1 DEF Store
<1>3. Commit(row, <<Ev("identity", NoChannel)>>)
  BY DEF Revoke
<1> HIDE DEF row
<1> QED BY <1>1, <1>2, <1>3, CommitKeeps DEF BusInv, Writing, SameWork

LEMMA NoticeFacts ==
    ASSUME BusInv, PostNotice
    PROVE  /\ Writing(<<Ev("notice", NoChannel)>>) /\ SameChannels
           /\ store'.workDone = store.workDone /\ store'.cardMoved = store.cardMoved
<1>1. store \in Store /\ <<Ev("notice", NoChannel)>> \in Seq(Event) /\ store.notices \in Nat
  BY EventTypes DEF BusInv, BusTypeOK, Store
<1> DEFINE n   == store.notices + 1
           row == [store EXCEPT !.notices = n, !.heard = n]
<1>2. n \in Nat
  BY <1>1
<1>3. Commit(row, <<Ev("notice", NoChannel)>>)
  BY DEF PostNotice
<1> HIDE DEF n
<1>4. /\ row \in Store /\ row.members = store.members /\ row.active = store.active /\ row.msgs = store.msgs
      /\ row.notices = n /\ row.heard = n /\ row.commits = store.commits
      /\ row.workDone = store.workDone /\ row.cardMoved = store.cardMoved
  BY <1>1, <1>2 DEF Store
<1> HIDE DEF row
<1>5. row.heard <= row.notices /\ (~row.active => row.members = {})
  BY <1>2, <1>4 DEF BusInv
<1> QED BY <1>1, <1>3, <1>4, <1>5, CommitKeeps DEF Writing, SameChannels

LEMMA FinishFacts ==
    ASSUME BusInv, NEW skipped \in BOOLEAN, FinishWork(skipped)
    PROVE  /\ Writing(<<Ev("work", NoChannel), Ev("card", NoChannel)>>) /\ SameChannels
           /\ store'.heard = store.heard
<1> DEFINE events == <<Ev("work", NoChannel), Ev("card", NoChannel)>>
<1>1. store \in Store /\ events \in Seq(Event) /\ store.notices \in Nat /\ store.heard \in Nat
  BY EventTypes DEF BusInv, BusTypeOK, Store
<1> DEFINE n   == IF skipped THEN store.notices + 1 ELSE store.notices
           moved == ~skipped
           row == [store EXCEPT !.workDone = TRUE, !.cardMoved = moved, !.notices = n]
<1>n. n \in Nat /\ n >= store.notices
  BY <1>1
<1>m. moved \in BOOLEAN
  OBVIOUS
<1>3. Commit(row, events)
  BY DEF FinishWork
<1> HIDE DEF n, moved
<1>2. /\ row \in Store /\ row.members = store.members /\ row.active = store.active /\ row.msgs = store.msgs
      /\ row.notices = n /\ row.heard = store.heard /\ row.commits = store.commits
  BY <1>1, <1>n, <1>m DEF Store
<1> HIDE DEF row, events
<1>4. row.heard <= row.notices /\ (~row.active => row.members = {})
  BY <1>1, <1>2, <1>n DEF BusInv
<1>5. Writing(events) /\ SameChannels /\ store'.heard = store.heard
  BY <1>1, <1>2, <1>3, <1>4, CommitKeeps DEF Writing, SameChannels
<1> QED BY <1>5 DEF events

LEMMA UnrelatedFacts ==
    ASSUME BusInv, Unrelated PROVE Writing(<<Ev("other", NoChannel)>>) /\ SameWork /\ SameChannels
<1>1. store \in Store /\ <<Ev("other", NoChannel)>> \in Seq(Event)
  BY EventTypes DEF BusInv, BusTypeOK
<1> QED BY <1>1, CommitKeeps DEF BusInv, Writing, SameWork, SameChannels, Unrelated

\* Events do not get lost between a commit and the bus: what is ahead of a receiver stays ahead of it,
\* the events of a new commit join it, and who has lagged goes on lagging.
LEMMA CommitAhead ==
    ASSUME NEW events, Writing(events), NEW pos \in Nat
    PROVE  /\ \A e \in AheadOf(pos) : e \in AheadOf(pos)'
           /\ \A i \in DOMAIN events : events[i] \in AheadOf(pos)'
BY DEF Writing, AheadOf

LEMMA PublishFacts ==
    ASSUME BusInv, Publish
    PROVE  /\ BusInv' /\ UNCHANGED store /\ bus' = Append(bus, Head(unpublished))
           /\ unpublished' = Tail(unpublished) /\ Len(bus') = Len(bus) + 1
<1>1. bus \in Seq(Event) /\ unpublished \in Seq(Event) /\ unpublished # <<>>
  BY DEF BusInv, BusTypeOK, Publish
<1>2. Head(unpublished) \in Event /\ Tail(unpublished) \in Seq(Event)
  BY <1>1
<1>3. bus' \in Seq(Event) /\ Len(bus') = Len(bus) + 1
  BY <1>1, <1>2 DEF Publish
<1> QED BY <1>2, <1>3 DEF Publish, BusInv, BusTypeOK

LEMMA PublishAhead ==
    ASSUME BusInv, Publish, NEW pos \in Nat, pos <= Len(bus)
    PROVE  \A e \in AheadOf(pos) : e \in AheadOf(pos)'
<1>1. bus \in Seq(Event) /\ unpublished \in Seq(Event) /\ unpublished # <<>> /\ Len(bus) \in Nat
  BY DEF BusInv, BusTypeOK, Publish
<1>2. bus' = Append(bus, Head(unpublished)) /\ unpublished' = Tail(unpublished) /\ Len(bus') = Len(bus) + 1
  BY PublishFacts
<1>h. Head(unpublished) \in Event /\ Head(unpublished) = unpublished[1]
  BY <1>1
<1>3. ASSUME NEW i \in (pos + 1)..Len(bus) PROVE bus[i] \in AheadOf(pos)'
  <2>1. bus'[i] = bus[i] /\ i \in (pos + 1)..Len(bus')
    BY <1>1, <1>2, <1>h
  <2> QED BY <2>1 DEF AheadOf
<1>4. ASSUME NEW j \in DOMAIN unpublished PROVE unpublished[j] \in AheadOf(pos)'
  <2>1. CASE j = 1
    <3>1. bus'[Len(bus) + 1] = unpublished[1] /\ Len(bus) + 1 \in (pos + 1)..Len(bus')
      BY <1>1, <1>2, <1>h
    <3> QED BY <2>1, <3>1 DEF AheadOf
  <2>2. CASE j # 1
    <3>1. j - 1 \in DOMAIN unpublished' /\ unpublished'[j - 1] = unpublished[j]
      BY <1>1, <1>2, <2>2
    <3> QED BY <3>1 DEF AheadOf
  <2> QED BY <2>1, <2>2
<1> QED BY <1>3, <1>4 DEF AheadOf

-----------------------------------------------------------------------------
(* The waits.                                                                  *)

WaitKinds == {"inbox", "messages", "notices", "tasks", "cards"} \cup PolledKinds
WaitRow == [stage : {"quiet", "members", "floor", "check", "turn", "parked", "answered"}, kind : WaitKinds,
            on : Channels \cup {NoChannel}, pos : Nat, cache : SUBSET Channels, floor : Int, began : Int,
            late : BOOLEAN, final : BOOLEAN, answer : {"none", "told", "timeout", "refused", "stopped"}, calls : Nat]
WaitTypes == wait \in WaitRow /\ wait.pos <= Len(bus)

\* A call has an answer once it is over; only the inbox reads its channels first; a notices wait counts
\* from the notice its first call began at.
AnswerMatches == wait.stage = "answered" <=> wait.answer # "none"
FloorStays ==
    /\ wait.floor = wait.began
    /\ wait.stage = "members" => wait.kind = "inbox"
    /\ wait.stage = "floor" => wait.kind = "notices" /\ wait.floor < 0
    /\ wait.kind = "notices" /\ wait.stage \in {"check", "turn", "parked"} => wait.floor >= 0

\* Something will wake the wait.
Alert == Lagged(wait.pos) \/ \E e \in AheadOf(wait.pos) : Relevant(e)

\* What the wait is for is there, and the bus says so.
ToTell == Found /\ (wait.kind = "notices" => store.heard > wait.floor)

\* Whoever is asleep, or about to be, has read the world as it is, or will be woken.  The inbox needs
\* this of its channels from the moment it has read them: the messages it listens for are theirs.
InboxKnowsItsChannels ==
    wait.kind = "inbox" /\ wait.stage \in {"check", "turn", "parked"} => Alert \/ wait.cache = store.members
SleepsOnNothing ==
    wait.kind \notin PolledKinds /\ wait.stage \in {"turn", "parked"} => Alert \/ ~ToTell

WaitIInv == WaitTypes /\ AnswerMatches /\ FloorStays /\ InboxKnowsItsChannels /\ SleepsOnNothing

\* A wait that will be woken is not forgotten by a write or a publication.
LEMMA AlertStays ==
    ASSUME BusInv, WaitTypes, UNCHANGED waitVars, Alert, (\E events : Writing(events)) \/ Publish
    PROVE  Alert'
<1>1. wait' = wait /\ wait.pos \in Nat /\ Len(bus) \in Nat /\ Len(bus') \in Nat
  <2>1. wait' = wait /\ wait.pos \in Nat /\ bus \in Seq(Event)
    BY DEF waitVars, WaitTypes, WaitRow, BusInv, BusTypeOK
  <2>2. bus' \in Seq(Event)
    BY PublishFacts DEF Writing, BusInv, BusTypeOK
  <2> QED BY <2>1, <2>2
<1>2. Len(bus') >= Len(bus)
  BY <1>1, PublishFacts DEF Writing
<1>3. \A e \in AheadOf(wait.pos) : e \in AheadOf(wait.pos)'
  <2>1. ASSUME NEW pos \in Nat, pos = wait.pos PROVE \A e \in AheadOf(pos) : e \in AheadOf(pos)'
    BY <2>1, CommitAhead, PublishAhead DEF WaitTypes
  <2> QED BY <1>1, <2>1 DEF AheadOf
<1>4. \A e : Relevant(e) => Relevant(e)'
  BY <1>1 DEF Relevant
<1>5. Lagged(wait.pos) => Lagged(wait.pos)'
  BY <1>1, <1>2, BusAssumption DEF Lagged
<1> QED BY <1>3, <1>4, <1>5 DEF Alert

\* A write keeps the waits covered when a change of the inbox's channels, and a condition that comes
\* true, wakes the wait.
LEMMA WaitUnderWrite ==
    ASSUME BusInv, WaitIInv, UNCHANGED waitVars, NEW events, Writing(events),
           wait.kind = "inbox" /\ store'.members # store.members => Alert',
           wait.kind \notin PolledKinds /\ (wait.kind = "inbox" => wait.cache = store.members) /\ ~ToTell /\ ToTell'
              => Alert'
    PROVE  WaitIInv'
<1>1. wait' = wait /\ bus' = bus
  BY DEF waitVars, Writing
<1>2. Alert => Alert'
  BY AlertStays DEF WaitIInv
<1>3. WaitTypes' /\ AnswerMatches' /\ FloorStays'
  BY <1>1 DEF WaitIInv, WaitTypes, AnswerMatches, FloorStays
<1>4. InboxKnowsItsChannels'
  BY <1>1, <1>2 DEF WaitIInv, InboxKnowsItsChannels
<1>5. SleepsOnNothing'
  BY <1>1, <1>2 DEF WaitIInv, InboxKnowsItsChannels, SleepsOnNothing
<1> QED BY <1>3, <1>4, <1>5 DEF WaitIInv

\* An event of the write wakes the wait.
LEMMA AlertedBy ==
    ASSUME WaitTypes, UNCHANGED waitVars, NEW events, Writing(events), NEW i \in DOMAIN events, Relevant(events[i])
    PROVE  Alert'
<1>1. wait' = wait /\ wait.pos \in Nat
  BY DEF waitVars, WaitTypes, WaitRow
<1>2. events[i] \in AheadOf(wait.pos)'
  <2>1. ASSUME NEW pos \in Nat, pos = wait.pos PROVE events[i] \in AheadOf(pos)'
    BY <2>1, CommitAhead
  <2> QED BY <1>1, <2>1 DEF AheadOf
<1>3. Relevant(events[i])'
  BY <1>1 DEF Relevant, Writing
<1> QED BY <1>2, <1>3 DEF Alert

LEMMA WritesKeepWait ==
    ASSUME BusInv, WaitIInv, UNCHANGED waitVars, ChannelChanges \/ WorkChanges \/ Unrelated \/ Publish
    PROVE  WaitIInv' /\ BusInv'
<1>t. /\ WaitTypes /\ wait' = wait /\ ready' = ready /\ wait \in WaitRow /\ wait.kind \in WaitKinds
      /\ wait.cache \in SUBSET Channels /\ wait.floor \in Int
  BY DEF WaitIInv, WaitTypes, WaitRow, waitVars
<1>m. store.msgs \in Seq([chan : Channels])
  BY DEF BusInv, BusTypeOK, Store
<1>f. ASSUME SameWork, store'.members = store.members, store'.msgs = store.msgs PROVE ToTell' => ToTell
  BY <1>f, <1>t DEF ToTell, Found, InboxFound, MessagesFound, NoticesFound, TasksDone, CardsReached, FilesReady,
                    PathsGone, PidsGone, InboxOf, ChannelOf, SameWork
<1>1. ASSUME NEW c \in Channels, Post(c) PROVE WaitIInv' /\ BusInv'
  <2> DEFINE events == <<Ev("message", c)>>
  <2>1. /\ Writing(events) /\ SameWork /\ store'.members = store.members
        /\ store'.msgs = Append(store.msgs, [chan |-> c])
    BY <1>1, PostFacts
  <2>2. ASSUME wait.kind \notin PolledKinds, wait.kind = "inbox" => wait.cache = store.members, ~ToTell, ToTell'
        PROVE  Relevant(events[1])
    <3>1. events[1].kind = "message" /\ events[1].on = c
      BY DEF Ev
    <3>2. \A i \in DOMAIN store'.msgs :
             (i \in DOMAIN store.msgs /\ store'.msgs[i] = store.msgs[i]) \/ store'.msgs[i].chan = c
      BY <1>m, <2>1
    <3>3. CASE wait.kind = "inbox"
      <4>1. \E i \in DOMAIN store'.msgs : store'.msgs[i].chan \in store.members
        BY <1>t, <2>1, <2>2, <3>3 DEF ToTell, Found, InboxFound, MessagesFound, NoticesFound, TasksDone, CardsReached,
              FilesReady, PathsGone, PidsGone, InboxOf
      <4>2. ~\E i \in DOMAIN store.msgs : store.msgs[i].chan \in store.members
        BY <2>2, <3>3 DEF ToTell, Found, InboxFound, InboxOf
      <4>3. c \in store.members
        BY <3>2, <4>1, <4>2
      <4> QED BY <2>2, <3>1, <3>3, <4>3 DEF Relevant
    <3>4. CASE wait.kind = "messages"
      <4>1. \E i \in DOMAIN store'.msgs : store'.msgs[i].chan = wait.on
        BY <1>t, <2>2, <3>4 DEF ToTell, Found, InboxFound, MessagesFound, NoticesFound, TasksDone, CardsReached,
              FilesReady, PathsGone, PidsGone, ChannelOf
      <4>2. ~\E i \in DOMAIN store.msgs : store.msgs[i].chan = wait.on
        BY <2>2, <3>4 DEF ToTell, Found, MessagesFound, ChannelOf
      <4>3. wait.on = c
        BY <3>2, <4>1, <4>2
      <4> QED BY <3>1, <3>4, <4>3 DEF Relevant
    <3>5. CASE wait.kind \in {"notices", "tasks", "cards"}
      BY <1>t, <2>1, <2>2, <3>5 DEF ToTell, Found, InboxFound, MessagesFound, NoticesFound, TasksDone, CardsReached,
              FilesReady, PathsGone, PidsGone, SameWork
    <3> QED BY <1>t, <2>2, <3>3, <3>4, <3>5 DEF WaitKinds
  <2>3. 1 \in DOMAIN events
    OBVIOUS
  <2> HIDE DEF events
  <2> QED BY <1>t, <2>1, <2>2, <2>3, AlertedBy, WaitUnderWrite DEF Writing
<1>2. ASSUME NEW c \in Channels, Join(c) \/ Leave(c) PROVE WaitIInv' /\ BusInv'
  <2> DEFINE events == <<Ev("channel", c)>>
  <2>1. Writing(events) /\ SameWork /\ store'.msgs = store.msgs
    BY <1>2, MembersFacts
  <2>2. wait.kind = "inbox" => Relevant(events[1])
    BY DEF Relevant, Ev
  <2>3. wait.kind # "inbox" => (ToTell' => ToTell)
    BY <1>t, <2>1 DEF ToTell, Found, InboxFound, MessagesFound, NoticesFound, TasksDone, CardsReached, FilesReady,
                    PathsGone, PidsGone, ChannelOf, SameWork
  <2>4. 1 \in DOMAIN events
    OBVIOUS
  <2> HIDE DEF events
  <2> QED BY <1>t, <2>1, <2>2, <2>3, <2>4, AlertedBy, WaitUnderWrite DEF Writing
<1>3. CASE Revoke
  <2> DEFINE events == <<Ev("identity", NoChannel)>>
  <2>1. Writing(events) /\ SameWork /\ store'.msgs = store.msgs
    BY <1>3, RevokeFacts
  <2>2. wait.kind = "inbox" => Relevant(events[1])
    BY DEF Relevant, Ev
  <2>3. wait.kind # "inbox" => (ToTell' => ToTell)
    BY <1>t, <2>1 DEF ToTell, Found, InboxFound, MessagesFound, NoticesFound, TasksDone, CardsReached, FilesReady,
                    PathsGone, PidsGone, ChannelOf, SameWork
  <2>4. 1 \in DOMAIN events
    OBVIOUS
  <2> HIDE DEF events
  <2> QED BY <1>t, <2>1, <2>2, <2>3, <2>4, AlertedBy, WaitUnderWrite DEF Writing
<1>4. CASE PostNotice
  <2> DEFINE events == <<Ev("notice", NoChannel)>>
  <2>1. Writing(events) /\ SameChannels
    BY <1>4, NoticeFacts
  <2>2. wait.kind = "notices" => Relevant(events[1])
    BY DEF Relevant, Ev
  <2>3. wait.kind # "notices" => (ToTell' => ToTell)
    BY <1>4, <1>t, NoticeFacts DEF ToTell, Found, InboxFound, MessagesFound, NoticesFound, TasksDone, CardsReached,
          FilesReady, PathsGone, PidsGone, InboxOf, ChannelOf, SameChannels
  <2>4. 1 \in DOMAIN events
    OBVIOUS
  <2> HIDE DEF events
  <2> QED BY <1>t, <2>1, <2>2, <2>3, <2>4, AlertedBy, WaitUnderWrite DEF Writing, SameChannels
<1>5. ASSUME NEW skipped \in BOOLEAN, FinishWork(skipped) PROVE WaitIInv' /\ BusInv'
  <2> DEFINE events == <<Ev("work", NoChannel), Ev("card", NoChannel)>>
  <2>1. Writing(events) /\ SameChannels /\ store'.heard = store.heard
    BY <1>5, FinishFacts
  <2>2. /\ wait.kind = "tasks" => Relevant(events[1])
        /\ wait.kind = "cards" => Relevant(events[2])
    BY DEF Relevant, Ev
  <2>h. store.heard \in Nat /\ store.notices \in Nat /\ store.heard <= store.notices
    BY DEF BusInv, BusTypeOK, Store
  <2>3. wait.kind \notin {"tasks", "cards"} => (ToTell' => ToTell)
    <3>1. CASE wait.kind = "notices"
      BY <1>t, <2>1, <2>h, <3>1 DEF ToTell, Found, NoticesFound
    <3>2. CASE wait.kind \notin {"tasks", "cards", "notices"}
      BY <1>t, <2>1, <3>2 DEF ToTell, Found, InboxFound, MessagesFound, NoticesFound, TasksDone, CardsReached,
          FilesReady, PathsGone, PidsGone, InboxOf, ChannelOf, SameChannels
    <3> QED BY <3>1, <3>2
  <2>4. 1 \in DOMAIN events /\ 2 \in DOMAIN events
    OBVIOUS
  <2> HIDE DEF events
  <2> QED BY <1>t, <2>1, <2>2, <2>3, <2>4, AlertedBy, WaitUnderWrite DEF Writing, SameChannels
<1>6. CASE Unrelated
  <2>1. Writing(<<Ev("other", NoChannel)>>) /\ SameWork /\ SameChannels
    BY <1>6, UnrelatedFacts
  <2>2. store'.members = store.members /\ (ToTell' => ToTell)
    BY <1>f, <2>1 DEF SameChannels
  <2> QED BY <2>1, <2>2, WaitUnderWrite DEF Writing
<1>7. CASE Publish
  <2>1. BusInv' /\ store' = store /\ bus \in Seq(Event) /\ Len(bus') = Len(bus) + 1
    BY <1>7, PublishFacts DEF BusInv, BusTypeOK
  <2>2. Alert => Alert'
    BY <1>7, <1>t, AlertStays
  <2>3. ToTell' => ToTell
    BY <1>f, <2>1 DEF SameWork
  <2>4. WaitTypes' /\ AnswerMatches' /\ FloorStays'
    BY <1>t, <2>1 DEF WaitIInv, WaitTypes, WaitRow, AnswerMatches, FloorStays
  <2>5. InboxKnowsItsChannels' /\ SleepsOnNothing'
    BY <1>t, <2>1, <2>2, <2>3 DEF WaitIInv, InboxKnowsItsChannels, SleepsOnNothing
  <2> QED BY <2>1, <2>4, <2>5 DEF WaitIInv
<1> QED BY <1>1, <1>2, <1>3, <1>4, <1>5, <1>6, <1>7 DEF ChannelChanges, WorkChanges

\* What wakes the wait, and whether there is anything to tell, depends on what the call asks for and on
\* its receiver; the rest of the call may change.
LEMMA SameAlert ==
    ASSUME UNCHANGED busVars, wait'.pos = wait.pos, wait'.kind = wait.kind, wait'.on = wait.on,
           wait'.cache = wait.cache
    PROVE  Alert' <=> Alert
<1>1. \A e : Relevant(e)' <=> Relevant(e)
  BY DEF Relevant
<1>2. Lagged(wait.pos)' <=> Lagged(wait.pos)
  BY DEF busVars, Lagged
<1>3. AheadOf(wait.pos)' = AheadOf(wait.pos)
  BY DEF busVars, AheadOf
<1> QED BY <1>1, <1>2, <1>3 DEF Alert

LEMMA SameToTell ==
    ASSUME UNCHANGED busVars, wait'.kind = wait.kind, wait'.on = wait.on, wait'.floor = wait.floor, UNCHANGED ready
    PROVE  ToTell' <=> ToTell
BY DEF busVars, ToTell, Found, InboxFound, MessagesFound, NoticesFound, TasksDone, CardsReached, FilesReady,
       PathsGone, PidsGone, InboxOf, ChannelOf

\* The receiver passes over an event that is not for the wait: what is for it is still ahead.
LEMMA PassedOver ==
    ASSUME BusInv, NEW pos \in Nat, pos < Len(bus), NEW e \in AheadOf(pos), e # bus[pos + 1]
    PROVE  e \in AheadOf(pos + 1)
<1>1. bus \in Seq(Event) /\ Len(bus) \in Nat
  BY DEF BusInv, BusTypeOK
<1>2. CASE \E i \in (pos + 1)..Len(bus) : e = bus[i]
  <2>1. PICK i \in (pos + 1)..Len(bus) : e = bus[i]
    BY <1>2
  <2>2. i \in (pos + 1 + 1)..Len(bus)
    BY <1>1, <2>1
  <2> QED BY <2>1, <2>2 DEF AheadOf
<1>3. CASE \E i \in DOMAIN unpublished : e = unpublished[i]
  BY <1>3 DEF AheadOf
<1> QED BY <1>2, <1>3 DEF AheadOf

\* A call that is waiting with nothing asked of its channels or its sleep: the types suffice.
LEMMA AwakeKeeps ==
    ASSUME WaitTypes', AnswerMatches', FloorStays', wait'.stage \notin {"turn", "parked"},
           wait'.stage = "check" => wait'.kind # "inbox"
    PROVE  WaitIInv'
BY DEF WaitIInv, InboxKnowsItsChannels, SleepsOnNothing

LEMMA CallKeepsWait ==
    ASSUME BusInv, WaitIInv, UNCHANGED busVars, NEW kinds \in SUBSET WaitKinds, WaitStep(kinds)
    PROVE  WaitIInv'
<1>t. /\ wait \in WaitRow /\ wait.pos <= Len(bus) /\ bus' = bus /\ store' = store /\ unpublished' = unpublished
      /\ Len(bus) \in Nat /\ bus \in Seq(Event) /\ AnswerMatches /\ FloorStays /\ InboxKnowsItsChannels /\ SleepsOnNothing
  <2>1. bus \in Seq(Event)
    BY DEF BusInv, BusTypeOK
  <2> QED BY <2>1 DEF WaitIInv, WaitTypes, busVars
<1>r. wait \in WaitRow
  BY <1>t
<1>l. Len(bus) \in Nat
  BY <1>t
<1>p. wait.pos \in Nat /\ wait.floor \in Int /\ wait.began \in Int /\ wait.calls \in Nat /\ wait.kind \in WaitKinds
  BY <1>t DEF WaitRow
<1>s. store.notices \in Nat /\ store.members \in SUBSET Channels /\ store.active \in BOOLEAN
  BY DEF BusInv, BusTypeOK, Store
<1>k. Subscription = Len(bus) /\ BusCapacity \in Nat \ {0}
  BY BusAssumption DEF Subscription
\* The call is over.
<1>a. ASSUME NEW a \in {"told", "timeout", "refused", "stopped"}, Answer(a) PROVE WaitIInv'
  <2>1. wait' = [wait EXCEPT !.stage = "answered", !.answer = a, !.pos = 0, !.cache = {}]
    BY <1>a DEF Answer
  <2>2. wait' \in WaitRow
    BY <1>a, <1>r, <2>1 DEF WaitRow
  <2>3. /\ wait'.stage = "answered" /\ wait'.answer = a /\ wait'.pos = 0 /\ wait'.kind = wait.kind
        /\ wait'.floor = wait.floor /\ wait'.began = wait.began
    BY <1>r, <2>1 DEF WaitRow
  <2>4. WaitTypes' /\ AnswerMatches' /\ FloorStays'
    BY <1>a, <1>t, <2>2, <2>3 DEF WaitTypes, AnswerMatches, FloorStays
  <2> QED BY <2>3, <2>4, AwakeKeeps
\* The call wakes.
<1>w. ASSUME NEW pos \in Nat, pos <= Len(bus), NEW final \in BOOLEAN, wait.stage = "parked",
             wait' = [Woken(pos) EXCEPT !.final = final]
      PROVE  WaitIInv'
  <2>1. CASE wait.kind = "inbox"
    <3>1. wait' = [wait EXCEPT !.pos = pos, !.stage = "members", !.final = final]
      BY <1>w, <1>t, <2>1 DEF Woken, WaitRow
    <3>2. wait' \in WaitRow
      BY <1>w, <1>r, <3>1 DEF WaitRow
    <3>3. /\ wait'.stage = "members" /\ wait'.answer = wait.answer /\ wait'.pos = pos /\ wait'.kind = wait.kind
          /\ wait'.floor = wait.floor /\ wait'.began = wait.began
      BY <1>r, <3>1 DEF WaitRow
    <3>4. WaitTypes' /\ AnswerMatches' /\ FloorStays'
      BY <1>w, <1>t, <2>1, <3>2, <3>3 DEF WaitTypes, AnswerMatches, FloorStays
    <3> QED BY <3>3, <3>4, AwakeKeeps
  <2>2. CASE wait.kind # "inbox"
    <3>1. wait' = [wait EXCEPT !.pos = Len(bus), !.stage = "check", !.final = final]
      BY <1>w, <1>t, <2>2 DEF Woken, WaitRow
    <3>2. wait' \in WaitRow
      BY <1>w, <1>r, <1>l, <3>1 DEF WaitRow
    <3>3. /\ wait'.stage = "check" /\ wait'.answer = wait.answer /\ wait'.pos = Len(bus) /\ wait'.kind = wait.kind
          /\ wait'.floor = wait.floor /\ wait'.began = wait.began
      BY <1>r, <3>1 DEF WaitRow
    <3>4. WaitTypes' /\ AnswerMatches' /\ FloorStays'
      BY <1>w, <1>t, <2>2, <3>2, <3>3 DEF WaitTypes, AnswerMatches, FloorStays
    <3> QED BY <2>2, <3>3, <3>4, AwakeKeeps
  <2> QED BY <2>1, <2>2
<1>f. Woken(Oldest) = [Woken(Oldest) EXCEPT !.final = wait.final] /\ wait.final \in BOOLEAN
      /\ \A pos : Woken(pos) = [Woken(pos) EXCEPT !.final = wait.final]
  BY <1>t DEF Woken, WaitRow
<1>1. ASSUME NEW kind \in WaitKinds, NEW c \in Channels \cup {NoChannel}, NEW after \in {-1, 0},
             after = 0 => kind = "notices", BeginWait(kind, c, after)
      PROVE  WaitIInv'
  <2> DEFINE floor == KnownFloor(after, wait.floor)
             began == IF wait.began < 0 THEN after ELSE wait.began
             stage == IF store.active THEN FirstStage(kind, floor) ELSE "answered"
             answer == IF store.active THEN "none" ELSE "refused"
             calls == wait.calls + 1
  <2>1. floor \in Int /\ began \in Int /\ floor = began /\ calls \in Nat
    BY <1>1, <1>p, <1>t DEF KnownFloor, FloorStays
  <2>2. wait' = [wait EXCEPT !.stage = stage, !.answer = answer, !.kind = kind, !.on = c, !.pos = Len(bus),
                   !.floor = floor, !.began = began, !.late = FALSE, !.final = FALSE, !.calls = calls]
    BY <1>1, <1>k, <1>t DEF BeginWait, WaitRow
  <2>3. /\ stage \in {"members", "floor", "check", "answered"} /\ answer \in {"none", "refused"}
        /\ (stage = "answered" <=> answer # "none")
        /\ stage = "members" => kind = "inbox"
        /\ stage = "floor" => kind = "notices" /\ floor < 0
        /\ stage = "check" => kind # "inbox" /\ (kind = "notices" => floor >= 0)
    BY <1>s, <2>1 DEF FirstStage
  <2> HIDE DEF floor, began, stage, answer, calls
  <2>4. /\ wait'.stage = stage /\ wait'.answer = answer /\ wait'.kind = kind /\ wait'.floor = floor
        /\ wait'.began = began /\ wait'.pos = Len(bus)
    BY <1>t, <2>2 DEF WaitRow
  <2>a. stage \in {"quiet", "members", "floor", "check", "turn", "parked", "answered"}
        /\ answer \in {"none", "told", "timeout", "refused", "stopped"}
    BY <2>3
  <2>b. wait' \in WaitRow
    <3> DEFINE begun == [wait EXCEPT !.stage = stage, !.answer = answer, !.kind = kind, !.on = c, !.pos = Len(bus)]
    <3>1. begun \in WaitRow
      BY <1>1, <1>r, <1>l, <2>a DEF WaitRow
    <3>2. wait' = [begun EXCEPT !.floor = floor, !.began = began, !.late = FALSE, !.final = FALSE, !.calls = calls]
      BY <2>2
    <3> HIDE DEF begun
    <3> QED BY <2>1, <3>1, <3>2 DEF WaitRow
  <2>5. WaitTypes'
    BY <1>t, <2>b, <2>4 DEF WaitTypes
  <2>6. AnswerMatches' /\ FloorStays'
    BY <2>1, <2>3, <2>4 DEF AnswerMatches, FloorStays
  <2> QED BY <2>3, <2>4, <2>5, <2>6, AwakeKeeps
<1>2. CASE ReadFloor
  <2>1. wait' = [wait EXCEPT !.floor = store.notices, !.stage = "check", !.began = store.notices]
    BY <1>2, <1>t, <1>p DEF ReadFloor, FloorStays
  <2>n. store.notices \in Int
    BY <1>s
  <2>2. wait' \in WaitRow
    BY <1>r, <2>1, <2>n DEF WaitRow
  <2>3. /\ wait'.stage = "check" /\ wait'.answer = wait.answer /\ wait'.pos = wait.pos /\ wait'.kind = wait.kind
        /\ wait'.floor = store.notices /\ wait'.began = store.notices
    BY <1>r, <2>1 DEF WaitRow
  <2>4. WaitTypes' /\ AnswerMatches' /\ FloorStays' /\ wait.kind = "notices"
    BY <1>2, <1>t, <1>s, <2>2, <2>3 DEF ReadFloor, WaitTypes, AnswerMatches, FloorStays
  <2> QED BY <2>3, <2>4, AwakeKeeps
<1>3. CASE ReadMembers
  <2>1. CASE ~store.active
    BY <1>3, <1>a, <2>1 DEF ReadMembers
  <2>2. CASE store.active
    <3>1. wait' = [wait EXCEPT !.cache = store.members, !.stage = "check"] /\ wait.stage = "members"
      BY <1>3, <2>2 DEF ReadMembers
    <3>2. wait' \in WaitRow
      BY <1>r, <1>s, <3>1 DEF WaitRow
    <3>3. /\ wait'.stage = "check" /\ wait'.answer = wait.answer /\ wait'.pos = wait.pos /\ wait'.kind = wait.kind
          /\ wait'.floor = wait.floor /\ wait'.began = wait.began /\ wait'.cache = store.members
      BY <1>r, <3>1 DEF WaitRow
    <3>4. WaitTypes' /\ AnswerMatches' /\ FloorStays'
      BY <1>t, <3>1, <3>2, <3>3 DEF WaitTypes, AnswerMatches, FloorStays
    <3> QED BY <1>t, <3>3, <3>4 DEF WaitIInv, InboxKnowsItsChannels, SleepsOnNothing
  <2> QED BY <1>s, <2>1, <2>2
\* The call goes to sleep: nothing but its stage changes.
<1>z. ASSUME wait' \in WaitRow, wait'.answer = wait.answer, wait'.pos = wait.pos, wait'.kind = wait.kind,
              wait'.on = wait.on, wait'.cache = wait.cache, wait'.floor = wait.floor, wait'.began = wait.began,
              UNCHANGED ready, (wait.stage = "check" /\ ~Found) \/ wait.stage = "turn",
              wait'.stage \in {"turn", "parked"}
       PROVE  WaitIInv'
  <2>1. (Alert' <=> Alert) /\ (ToTell' <=> ToTell)
    BY <1>z, SameAlert, SameToTell
  <2>2. WaitTypes' /\ AnswerMatches' /\ FloorStays'
    BY <1>z, <1>t DEF WaitTypes, AnswerMatches, FloorStays
  <2>3. InboxKnowsItsChannels'
    BY <1>z, <1>t, <2>1 DEF InboxKnowsItsChannels
  <2>4. SleepsOnNothing'
    BY <1>z, <1>t, <2>1 DEF SleepsOnNothing, ToTell
  <2> QED BY <2>2, <2>3, <2>4 DEF WaitIInv
<1>4. CASE CheckWait
  <2>1. CASE Refused \/ Found \/ wait.final
    BY <1>4, <1>a, <2>1 DEF CheckWait
  <2>2. CASE ~(Refused \/ Found \/ wait.final)
    <3> DEFINE stage == IF wait.kind = "inbox" THEN "parked" ELSE "turn"
    <3>1. wait' = [wait EXCEPT !.stage = stage] /\ wait.stage = "check" /\ ready' = ready
      BY <1>4, <2>2 DEF CheckWait
    <3>2. stage \in {"turn", "parked"}
      OBVIOUS
    <3> HIDE DEF stage
    <3>3. wait' \in WaitRow
      BY <1>r, <3>1, <3>2 DEF WaitRow
    <3>4. /\ wait'.answer = wait.answer /\ wait'.pos = wait.pos /\ wait'.kind = wait.kind /\ wait'.on = wait.on
          /\ wait'.cache = wait.cache /\ wait'.floor = wait.floor /\ wait'.began = wait.began /\ wait'.stage = stage
      BY <1>r, <3>1 DEF WaitRow
    <3> QED BY <1>z, <2>2, <3>1, <3>2, <3>3, <3>4
  <2> QED BY <2>1, <2>2
<1>5. CASE Turn
  <2>1. CASE wait.late
    BY <1>5, <1>a, <2>1 DEF Turn
  <2>2. CASE ~wait.late
    <3>1. wait' = [wait EXCEPT !.stage = "parked"] /\ wait.stage = "turn" /\ ready' = ready
      BY <1>5, <2>2 DEF Turn
    <3>3. wait' \in WaitRow
      BY <1>r, <3>1 DEF WaitRow
    <3>4. /\ wait'.answer = wait.answer /\ wait'.pos = wait.pos /\ wait'.kind = wait.kind /\ wait'.on = wait.on
          /\ wait'.cache = wait.cache /\ wait'.floor = wait.floor /\ wait'.began = wait.began /\ wait'.stage = "parked"
      BY <1>r, <3>1 DEF WaitRow
    <3> QED BY <1>z, <3>1, <3>3, <3>4
  <2> QED BY <2>1, <2>2
<1>6. CASE Receive
  <2>1. wait.stage = "parked" /\ wait.pos < Len(bus) /\ ready' = ready
    BY <1>6 DEF Receive, Waiting
  <2>2. CASE Lagged(wait.pos)
    <3>1. wait' = Woken(Oldest)
      BY <1>6, <2>2 DEF Receive, WokenByLag
    <3>2. Oldest \in Nat /\ Oldest <= Len(bus)
      BY <1>k, <1>l, <1>p, <2>2 DEF Lagged, Oldest
    <3> QED BY <1>f, <1>w, <2>1, <3>1, <3>2
  <2>3. CASE ~Lagged(wait.pos) /\ Relevant(NextEvent(wait.pos))
    <3>1. wait' = Woken(wait.pos + 1)
      BY <1>6, <2>3 DEF Receive
    <3>2. wait.pos + 1 \in Nat /\ wait.pos + 1 <= Len(bus)
      BY <1>l, <1>p, <2>1
    <3> QED BY <1>f, <1>w, <2>1, <3>1, <3>2
  <2>4. CASE ~Lagged(wait.pos) /\ ~Relevant(NextEvent(wait.pos))
    <3> DEFINE pos == wait.pos + 1
    <3>1. wait' = [wait EXCEPT !.pos = pos]
      BY <1>6, <2>4 DEF Receive
    <3>2. pos \in Nat /\ pos <= Len(bus)
      BY <1>l, <1>p, <2>1
    <3>a. Alert => \E e \in AheadOf(pos) : Relevant(e)
      BY <1>p, <2>1, <2>4, PassedOver DEF Alert, NextEvent
    <3> HIDE DEF pos
    <3>3. wait' \in WaitRow
      BY <1>r, <3>1, <3>2 DEF WaitRow
    <3>4. /\ wait'.answer = wait.answer /\ wait'.pos = pos /\ wait'.kind = wait.kind /\ wait'.on = wait.on
          /\ wait'.cache = wait.cache /\ wait'.floor = wait.floor /\ wait'.began = wait.began
          /\ wait'.stage = wait.stage
      BY <1>r, <3>1 DEF WaitRow
    <3>5. Alert => Alert'
      <4>1. \A e : Relevant(e)' <=> Relevant(e)
        BY <3>4 DEF Relevant
      <4>2. AheadOf(wait.pos)' = AheadOf(pos)
        BY <1>t, <3>4 DEF AheadOf
      <4> QED BY <3>a, <4>1, <4>2 DEF Alert
    <3>6. ToTell' <=> ToTell
      BY <2>1, <3>4, SameToTell
    <3>7. WaitTypes' /\ AnswerMatches' /\ FloorStays'
      BY <1>t, <3>2, <3>3, <3>4 DEF WaitTypes, AnswerMatches, FloorStays
    <3> QED BY <1>t, <3>4, <3>5, <3>6, <3>7 DEF WaitIInv, InboxKnowsItsChannels, SleepsOnNothing
  <2> QED BY <2>2, <2>3, <2>4
<1>7. CASE Recheck
  <2>1. wait' = [wait EXCEPT !.stage = "check"] /\ wait.stage = "parked" /\ wait.kind \in PolledKinds
    BY <1>7 DEF Recheck
  <2>2. wait' \in WaitRow
    BY <1>r, <2>1 DEF WaitRow
  <2>3. /\ wait'.stage = "check" /\ wait'.answer = wait.answer /\ wait'.pos = wait.pos /\ wait'.kind = wait.kind
        /\ wait'.floor = wait.floor /\ wait'.began = wait.began
    BY <1>r, <2>1 DEF WaitRow
  <2>4. WaitTypes' /\ AnswerMatches' /\ FloorStays'
    BY <1>t, <2>1, <2>2, <2>3 DEF WaitTypes, AnswerMatches, FloorStays
  <2>5. wait'.kind # "inbox"
    BY <2>1, <2>3 DEF PolledKinds
  <2> QED BY <2>3, <2>4, <2>5, AwakeKeeps
<1>8. CASE WokenByDeadline
  <2> DEFINE final == wait.kind = "inbox"
  <2>1. wait' = [Woken(wait.pos) EXCEPT !.final = final] /\ wait.stage = "parked"
    BY <1>8 DEF WokenByDeadline
  <2>2. final \in BOOLEAN
    OBVIOUS
  <2> HIDE DEF final
  <2> QED BY <1>p, <1>t, <1>w, <2>1, <2>2
<1>9. CASE WokenByShutdown
  BY <1>9, <1>a DEF WokenByShutdown
<1>10. CASE DeadlinePasses
  <2>1. wait' = [wait EXCEPT !.late = TRUE] /\ ready' = ready
    BY <1>10 DEF DeadlinePasses
  <2>2. wait' \in WaitRow
    BY <1>r, <2>1 DEF WaitRow
  <2>3. /\ wait'.answer = wait.answer /\ wait'.pos = wait.pos /\ wait'.kind = wait.kind /\ wait'.on = wait.on
        /\ wait'.cache = wait.cache /\ wait'.floor = wait.floor /\ wait'.began = wait.began
        /\ wait'.stage = wait.stage
    BY <1>r, <2>1 DEF WaitRow
  <2>4. (Alert' <=> Alert) /\ (ToTell' <=> ToTell)
    BY <2>1, <2>3, SameAlert, SameToTell
  <2>5. WaitTypes' /\ AnswerMatches' /\ FloorStays'
    BY <1>t, <2>2, <2>3 DEF WaitTypes, AnswerMatches, FloorStays
  <2> QED BY <1>t, <2>3, <2>4, <2>5 DEF WaitIInv, InboxKnowsItsChannels, SleepsOnNothing
<1>11. CASE MachineMoves
  <2>1. wait' = wait /\ wait.kind \in PolledKinds
    BY <1>11 DEF MachineMoves
  <2>2. wait.kind # "inbox"
    BY <2>1 DEF PolledKinds
  <2>3. WaitTypes' /\ AnswerMatches' /\ FloorStays'
    BY <1>t, <2>1 DEF WaitTypes, AnswerMatches, FloorStays
  <2> QED BY <2>1, <2>2, <2>3 DEF WaitIInv, InboxKnowsItsChannels, SleepsOnNothing
<1>12. CASE Shutdown
  <2>1. wait' = wait /\ ready' = ready
    BY <1>12 DEF Shutdown
  <2>2. (Alert' <=> Alert) /\ (ToTell' <=> ToTell)
    BY <2>1, SameAlert, SameToTell
  <2> QED BY <1>t, <2>1, <2>2
          DEF WaitIInv, WaitTypes, AnswerMatches, FloorStays, InboxKnowsItsChannels, SleepsOnNothing
<1>13. CASE \E kind \in kinds \ {"messages", "notices"} : BeginWait(kind, NoChannel, -1)
  BY <1>1, <1>13
<1>14. CASE "messages" \in kinds /\ \E c \in Channels : BeginWait("messages", c, -1)
  BY <1>1, <1>14
<1>15. CASE "notices" \in kinds /\ \E after \in {-1, 0} : BeginWait("notices", NoChannel, after)
  BY <1>1, <1>15
<1> QED
  BY <1>2, <1>3, <1>4, <1>5, <1>6, <1>7, <1>8, <1>9, <1>10, <1>11, <1>12, <1>13, <1>14, <1>15 DEF WaitStep, CallStep

WaitSafe == BusInv /\ WaitIInv

LEMMA WaitInitially == DeliveryInit => WaitSafe
<1> SUFFICES ASSUME DeliveryInit PROVE WaitSafe
  OBVIOUS
<1>1. BusInv
  BY BusInitially DEF DeliveryInit
<1>2. wait = NoWait /\ Len(bus) = 0
  BY DEF DeliveryInit, WaitInit, BusInit
<1>3. wait \in WaitRow
  BY <1>2 DEF NoWait, WaitRow, WaitKinds
<1>4. /\ wait.stage = "quiet" /\ wait.answer = "none" /\ wait.pos = 0 /\ wait.floor = -1 /\ wait.began = -1
  BY <1>2 DEF NoWait
<1>5. WaitTypes /\ AnswerMatches /\ FloorStays /\ InboxKnowsItsChannels /\ SleepsOnNothing
  BY <1>2, <1>3, <1>4 DEF WaitTypes, AnswerMatches, FloorStays, InboxKnowsItsChannels, SleepsOnNothing
<1> QED BY <1>1, <1>5 DEF WaitSafe, WaitIInv

LEMMA WaitIdle == ASSUME WaitSafe, UNCHANGED busVars, UNCHANGED waitVars PROVE WaitSafe'
<1>1. BusInv'
  BY DEF WaitSafe, BusInv, BusTypeOK, busVars
<1>2. wait' = wait /\ ready' = ready /\ bus' = bus /\ store' = store
  BY DEF waitVars, busVars
<1>3. (Alert' <=> Alert) /\ (ToTell' <=> ToTell)
  BY <1>2, SameAlert, SameToTell
<1>4. WaitTypes' /\ AnswerMatches' /\ FloorStays'
  BY <1>2 DEF WaitSafe, WaitIInv, WaitTypes, AnswerMatches, FloorStays
<1> QED BY <1>1, <1>2, <1>3, <1>4 DEF WaitSafe, WaitIInv, InboxKnowsItsChannels, SleepsOnNothing

\* The kinds a behaviour's waiter asks for.
LEMMA WaiterKinds ==
    ASSUME WaitMoves
    PROVE  \E kinds \in SUBSET WaitKinds : WaitStep(kinds)
<1>1. {"inbox", "messages"} \in SUBSET WaitKinds /\ {"notices", "tasks", "cards"} \cup PolledKinds \in SUBSET WaitKinds
  BY DEF WaitKinds
<1>2. WaitStep({"inbox", "messages"}) \/ WaitStep({"notices", "tasks", "cards"} \cup PolledKinds)
  BY DEF WaitMoves
<1> QED BY <1>1, <1>2

LEMMA WaitSafeStep == WaitSafe /\ [DeliveryNext]_deliveryVars => WaitSafe'
<1> SUFFICES ASSUME WaitSafe, [DeliveryNext]_deliveryVars PROVE WaitSafe'
  OBVIOUS
<1>1. CASE Writes
  <2>1. UNCHANGED waitVars /\ (ChannelChanges \/ WorkChanges \/ Unrelated \/ Publish)
    BY <1>1 DEF Writes
  <2> QED BY <2>1, WritesKeepWait DEF WaitSafe
<1>2. CASE WaitMoves
  <2>1. UNCHANGED busVars
    BY <1>2 DEF WaitMoves
  <2>2. BusInv'
    BY <2>1 DEF WaitSafe, BusInv, BusTypeOK, busVars
  <2>3. PICK kinds \in SUBSET WaitKinds : WaitStep(kinds)
    BY <1>2, WaiterKinds
  <2> QED BY <2>1, <2>2, <2>3, CallKeepsWait DEF WaitSafe
<1>3. CASE PushMoves
  BY <1>3, WaitIdle DEF PushMoves
<1>4. CASE UNCHANGED deliveryVars
  BY <1>4, WaitIdle DEF deliveryVars
<1> QED BY <1>1, <1>2, <1>3, <1>4 DEF DeliveryNext

LEMMA WaitSafeAlways == DeliverySpec => []WaitSafe
BY WaitInitially, WaitSafeStep, PTL DEF DeliverySpec

\* Subscribe, then check, then sleep (`inbox_wait`, `wait_turn`): whatever is committed, published or
\* dropped by the bus in between, a wait that sleeps while its condition holds will be woken.
THEOREM WaitsAreCovered == DeliverySpec => []ParkedIsCovered
<1>1. WaitSafe => ParkedIsCovered
  <2> SUFFICES ASSUME WaitSafe PROVE ParkedIsCovered
    OBVIOUS
  <2>1. Ahead = AheadOf(wait.pos)
    BY DEF Ahead, AheadOf
  <2> QED BY <2>1 DEF ParkedIsCovered, WaitSafe, WaitIInv, SleepsOnNothing, ToTell, Alert
<1> QED BY <1>1, WaitSafeAlways, PTL

-----------------------------------------------------------------------------
(* The waits implement the promise: every step of a call is a step of it.      *)

LEMMA PromiseTypes == Holds \in BOOLEAN /\ Announced \in BOOLEAN
BY DEF Holds, Announced, Found, InboxFound, MessagesFound, NoticesFound, TasksDone, CardsReached, FilesReady,
       PathsGone, PidsGone

LEMMA PromiseTypesNext == Holds' \in BOOLEAN /\ Announced' \in BOOLEAN
BY DEF Holds, Announced, Found, InboxFound, MessagesFound, NoticesFound, TasksDone, CardsReached, FilesReady,
       PathsGone, PidsGone

\* A step that does not change the status of the call is a step of the world.
LEMMA WorldStep == ASSUME StatusOf' = StatusOf PROVE WP!PromiseNext
BY PromiseTypesNext DEF WP!PromiseNext, WP!World

LEMMA StatusKept ==
    ASSUME wait'.answer = wait.answer, wait'.stage = "quiet" <=> wait.stage = "quiet"
    PROVE  StatusOf' = StatusOf
BY DEF StatusOf

\* The step of a call that ends it.
LEMMA EndStep ==
    ASSUME WaitSafe, UNCHANGED busVars, UNCHANGED ready, wait.stage \notin {"quiet", "answered"},
           NEW a \in {"told", "timeout", "refused", "stopped"}, Answer(a), a = "told" => Found /\ ~Refused /\ wait.stage = "check"
    PROVE  WP!PromiseNext
<1>1. wait \in WaitRow /\ wait.answer = "none" /\ FloorStays /\ store' = store /\ ready' = ready
  BY DEF WaitSafe, WaitIInv, WaitTypes, AnswerMatches, busVars
<1>2. wait' = [wait EXCEPT !.stage = "answered", !.answer = a, !.pos = 0, !.cache = {}]
  BY DEF Answer
<1>3. /\ wait'.stage = "answered" /\ wait'.answer = a /\ wait'.kind = wait.kind /\ wait'.on = wait.on
      /\ wait'.floor = wait.floor /\ wait'.began = wait.began
  BY <1>1, <1>2 DEF WaitRow
<1>4. StatusOf = "waiting"
  BY <1>1 DEF StatusOf
<1>5. Holds' = Holds /\ Announced' = Announced
  <2>1. Holds' <=> Holds
    BY <1>1, <1>3 DEF Holds, Found, InboxFound, MessagesFound, NoticesFound, TasksDone, CardsReached, FilesReady,
                      PathsGone, PidsGone, InboxOf, ChannelOf
  <2>2. Announced' <=> Announced
    BY <1>1, <1>3, <2>1 DEF Announced
  <2> QED BY <2>1, <2>2, PromiseTypes, PromiseTypesNext
<1>6. CASE a = "told"
  <2>1. Holds
    BY <1>1, <1>6 DEF Holds, Refused, Found, InboxFound, MessagesFound, NoticesFound, TasksDone, CardsReached,
                      FilesReady, PathsGone, PidsGone, FloorStays
  <2>2. StatusOf' = "told"
    BY <1>3, <1>6 DEF StatusOf
  <2> QED BY <1>4, <1>5, <2>1, <2>2 DEF WP!PromiseNext, WP!Tell
<1>7. CASE a = "timeout"
  <2>1. StatusOf' = "gaveup"
    BY <1>3, <1>7 DEF StatusOf
  <2> QED BY <1>4, <1>5, <2>1 DEF WP!PromiseNext, WP!GiveUp
<1>8. CASE a \in {"refused", "stopped"}
  <2>1. StatusOf' = "refused"
    BY <1>3, <1>8 DEF StatusOf
  <2> QED BY <1>4, <2>1, PromiseTypesNext DEF WP!PromiseNext, WP!Refuse
<1> QED BY <1>6, <1>7, <1>8

LEMMA AskStep ==
    ASSUME WaitSafe, NEW kind, NEW c, NEW after, BeginWait(kind, c, after)
    PROVE  WP!PromiseNext
<1>1. wait \in WaitRow /\ AnswerMatches /\ store.active \in BOOLEAN
  BY DEF WaitSafe, WaitIInv, WaitTypes, BusInv, BusTypeOK, Store
<1>2. StatusOf \in {"quiet", "gaveup"}
  BY <1>1 DEF BeginWait, AnswerMatches, StatusOf
<1>3. wait'.stage = (IF store.active THEN FirstStage(kind, KnownFloor(after, wait.floor)) ELSE "answered")
      /\ wait'.answer = IF store.active THEN "none" ELSE "refused"
  BY <1>1 DEF BeginWait, WaitRow
<1>4. CASE store.active
  <2>1. StatusOf' = "waiting"
    BY <1>3, <1>4 DEF FirstStage, StatusOf
  <2> QED BY <1>2, <2>1, PromiseTypesNext DEF WP!PromiseNext, WP!Ask
<1>5. CASE ~store.active
  <2>1. StatusOf' = "refused"
    BY <1>3, <1>5 DEF StatusOf
  <2> QED BY <1>2, <2>1, PromiseTypesNext DEF WP!PromiseNext, WP!Refuse
<1> QED BY <1>4, <1>5

LEMMA CallKeepsPromise ==
    ASSUME WaitSafe, UNCHANGED busVars, NEW kinds \in SUBSET WaitKinds, WaitStep(kinds)
    PROVE  WP!PromiseNext
<1>r. wait \in WaitRow
  BY DEF WaitSafe, WaitIInv, WaitTypes
\* The call goes on.
<1>o. ASSUME NEW stage \in {"check", "turn", "parked", "members"}, wait.stage \notin {"quiet", "answered"},
             wait'.stage = stage, wait'.answer = wait.answer
      PROVE  WP!PromiseNext
  BY <1>o, StatusKept, WorldStep
<1>w. ASSUME NEW pos, wait.stage = "parked", NEW final, wait' = Woken(pos) \/ wait' = [Woken(pos) EXCEPT !.final = final]
      PROVE  WP!PromiseNext
  <2>1. wait'.stage \in {"members", "check"} /\ wait'.answer = wait.answer
    BY <1>r, <1>w DEF Woken, WaitRow
  <2> QED BY <1>o, <1>w, <2>1
<1>1. CASE ReadFloor
  <2>1. wait.stage = "floor" /\ wait'.stage = "check" /\ wait'.answer = wait.answer
    BY <1>1, <1>r DEF ReadFloor, WaitRow
  <2> QED BY <1>o, <2>1
<1>2. CASE ReadMembers
  <2>1. CASE ~store.active
    BY <1>2, <2>1, EndStep DEF ReadMembers
  <2>2. CASE store.active
    <3>1. wait.stage = "members" /\ wait'.stage = "check" /\ wait'.answer = wait.answer
      BY <1>2, <1>r, <2>2 DEF ReadMembers, WaitRow
    <3> QED BY <1>o, <3>1
  <2> QED BY <2>1, <2>2
<1>3. CASE CheckWait
  <2>0. wait.stage = "check" /\ ready' = ready
    BY <1>3 DEF CheckWait
  <2>1. CASE Refused
    BY <1>3, <2>0, <2>1, EndStep DEF CheckWait
  <2>2. CASE ~Refused /\ Found
    BY <1>3, <2>0, <2>2, EndStep DEF CheckWait
  <2>3. CASE ~Refused /\ ~Found /\ wait.final
    BY <1>3, <2>0, <2>3, EndStep DEF CheckWait
  <2>4. CASE ~Refused /\ ~Found /\ ~wait.final
    <3>1. wait'.stage \in {"parked", "turn"} /\ wait'.answer = wait.answer
      BY <1>3, <1>r, <2>4 DEF CheckWait, WaitRow
    <3> QED BY <1>o, <2>0, <3>1
  <2> QED BY <2>1, <2>2, <2>3, <2>4
<1>4. CASE Turn
  <2>0. wait.stage = "turn" /\ ready' = ready
    BY <1>4 DEF Turn
  <2>1. CASE wait.late
    BY <1>4, <2>0, <2>1, EndStep DEF Turn
  <2>2. CASE ~wait.late
    <3>1. wait'.stage = "parked" /\ wait'.answer = wait.answer
      BY <1>4, <1>r, <2>2 DEF Turn, WaitRow
    <3> QED BY <1>o, <2>0, <3>1
  <2> QED BY <2>1, <2>2
<1>5. CASE Receive
  <2>0. wait.stage = "parked"
    BY <1>5 DEF Receive
  <2>1. CASE wait' = Woken(Oldest) \/ wait' = Woken(wait.pos + 1)
    BY <1>w, <2>0, <2>1
  <2>2. CASE wait' = [wait EXCEPT !.pos = wait.pos + 1]
    <3>1. wait'.stage = "parked" /\ wait'.answer = wait.answer
      BY <1>r, <2>0, <2>2 DEF WaitRow
    <3> QED BY <1>o, <2>0, <3>1
  <2> QED BY <1>5, <2>1, <2>2 DEF Receive, WokenByLag
<1>6. CASE Recheck
  <2>1. wait.stage = "parked" /\ wait'.stage = "check" /\ wait'.answer = wait.answer
    BY <1>6, <1>r DEF Recheck, WaitRow
  <2> QED BY <1>o, <2>1
<1>7. CASE WokenByDeadline
  BY <1>7, <1>w DEF WokenByDeadline
<1>8. CASE WokenByShutdown
  <2>1. wait.stage = "parked" /\ ready' = ready /\ Answer("stopped")
    BY <1>8 DEF WokenByShutdown
  <2> QED BY <2>1, EndStep
<1>9. CASE DeadlinePasses
  <2>1. wait'.stage = wait.stage /\ wait'.answer = wait.answer
    BY <1>9, <1>r DEF DeadlinePasses, WaitRow
  <2> QED BY <2>1, StatusKept, WorldStep
<1>10. CASE MachineMoves \/ Shutdown
  BY <1>10, StatusKept, WorldStep DEF MachineMoves, Shutdown
<1>11. CASE \E kind, c, after : BeginWait(kind, c, after)
  BY <1>11, AskStep
<1> QED
  BY <1>1, <1>2, <1>3, <1>4, <1>5, <1>6, <1>7, <1>8, <1>9, <1>10, <1>11 DEF WaitStep, CallStep

LEMMA PromiseStep == WaitSafe /\ [DeliveryNext]_deliveryVars => [WP!PromiseNext]_WP!promiseVars
<1> SUFFICES ASSUME WaitSafe, [DeliveryNext]_deliveryVars PROVE WP!PromiseNext
  OBVIOUS
<1>1. CASE UNCHANGED waitVars
  <2>1. wait' = wait
    BY <1>1 DEF waitVars
  <2> QED BY <2>1, StatusKept, WorldStep
<1>2. CASE WaitMoves
  <2>1. UNCHANGED busVars
    BY <1>2 DEF WaitMoves
  <2>2. PICK kinds \in SUBSET WaitKinds : WaitStep(kinds)
    BY <1>2, WaiterKinds
  <2> QED BY <2>1, <2>2, CallKeepsPromise
<1> QED BY <1>1, <1>2 DEF DeliveryNext, Writes, PushMoves, deliveryVars

\* The bounded waits implement the promise of `WaitPromise` but for its fairness: a wait answers that its
\* condition holds only when it does, is refused or gives up only while it is open, and is asked again
\* only after it gave up (`inbox_wait`, `WorkWait`), whatever the other processes do meanwhile.
THEOREM WaitsImplementThePromise == DeliverySpec => WP!PromiseSafety
<1>1. DeliveryInit => WP!PromiseInit
  <2> SUFFICES ASSUME DeliveryInit PROVE WP!PromiseInit
    OBVIOUS
  <2>1. StatusOf = "quiet"
    BY DEF DeliveryInit, WaitInit, NoWait, StatusOf
  <2> QED BY <2>1, PromiseTypes DEF WP!PromiseInit
<1> QED BY <1>1, PromiseStep, WaitSafeAlways, PTL DEF DeliverySpec, WP!PromiseSafety

-----------------------------------------------------------------------------
(* The event push.                                                             *)

Frames  == Event \cup {Marker}
PushRow == [stage : {"off", "reading", "on", "refresh", "ended"}, pos : Nat, explicit : SUBSET Channels,
            members : SUBSET Channels, event : Event \cup {NoEvent}, dropped : BOOLEAN, out : Seq(Frames),
            due : BOOLEAN, read : SUBSET Nat]
PushTypes == push \in PushRow /\ push.pos <= Len(bus)

\* An event of the bus that tells the forwarder of the channel c is still ahead of it.
Coming(kinds, c) == Lagged(push.pos) \/ \E e \in AheadOf(push.pos) : e.kind \in kinds /\ e.on = c

\* Between events, the membership the forwarder knows differs from the store's only where an event of
\* the channel is coming.
KnowsMembership ==
    push.stage = "on" /\ store.active =>
       \A c \in Channels : (c \in push.members <=> c \in store.members) \/ Coming({"channel"}, c)

\* A frame is owed to the client, or on its way.
Owed == push.due \/ push.dropped \/ push.out # <<>>

\* A message the client may read and has not read is accounted for.
Accounted(c) ==
    Owed \/ Coming({"message", "channel"}, c) \/ (push.stage = "refresh" /\ push.event = Ev("channel", c))
UnreadIsComing ==
    push.stage \in {"on", "refresh"} =>
       \A i \in ReadableBy(store) \ push.read, c \in Channels :
          store.msgs[i].chan = c /\ Listed(c) => Accounted(c)

PushIInv == PushTypes /\ KnowsMembership /\ UnreadIsComing

LEMMA ComingStays ==
    ASSUME BusInv, PushTypes, push' = push, NEW kinds, NEW c, Coming(kinds, c),
           (\E events : Writing(events)) \/ Publish
    PROVE  Coming(kinds, c)'
<1>1. push.pos \in Nat /\ push.pos <= Len(bus) /\ bus \in Seq(Event) /\ bus' \in Seq(Event)
  <2>1. bus' \in Seq(Event)
    BY PublishFacts DEF Writing, BusInv, BusTypeOK
  <2> QED BY <2>1 DEF PushTypes, PushRow, BusInv, BusTypeOK
<1>2. Len(bus') >= Len(bus) /\ Len(bus) \in Nat /\ Len(bus') \in Nat
  BY <1>1, PublishFacts DEF Writing
<1>3. \A e \in AheadOf(push.pos) : e \in AheadOf(push.pos)'
  <2>1. ASSUME NEW pos \in Nat, pos = push.pos PROVE \A e \in AheadOf(pos) : e \in AheadOf(pos)'
    BY <1>1, <2>1, CommitAhead, PublishAhead
  <2> QED BY <1>1, <2>1 DEF AheadOf
<1>4. Lagged(push.pos) => Lagged(push.pos)'
  BY <1>1, <1>2, BusAssumption DEF Lagged
<1> QED BY <1>3, <1>4 DEF Coming

\* A write whose events tell of every channel whose membership or messages it changes keeps the push covered.
LEMMA PushUnderWrite ==
    ASSUME BusInv, PushIInv, push' = push, NEW events, Writing(events), store'.active => store.active,
           \A c \in Channels : store'.active /\ ~(c \in store'.members <=> c \in store.members) => Coming({"channel"}, c)',
           \A i \in ReadableBy(store'), c \in Channels :
              store'.msgs[i].chan = c
                 => (i \in ReadableBy(store) /\ store.msgs[i].chan = c) \/ Coming({"message", "channel"}, c)'
    PROVE  PushIInv'
<1>1. bus' = bus
  BY DEF Writing
<1>2. PushTypes'
  BY <1>1 DEF PushIInv, PushTypes
<1>3. \A kinds, c : Coming(kinds, c) => Coming(kinds, c)'
  BY ComingStays DEF PushIInv
<1>4. KnowsMembership'
  BY <1>3 DEF PushIInv, KnowsMembership
<1>5. UnreadIsComing'
  <2> SUFFICES ASSUME push'.stage \in {"on", "refresh"}, NEW i \in ReadableBy(store') \ push'.read, NEW c \in Channels,
                      store'.msgs[i].chan = c, Listed(c)'
               PROVE  Accounted(c)'
    BY DEF UnreadIsComing, ReadableBy
  <2>1. CASE i \in ReadableBy(store) /\ store.msgs[i].chan = c
    <3>1. Listed(c)
      BY DEF Listed
    <3>2. Accounted(c)
      BY <2>1, <3>1 DEF PushIInv, UnreadIsComing
    <3> QED BY <1>3, <3>2 DEF Accounted, Owed
  <2>2. CASE Coming({"message", "channel"}, c)'
    BY <2>2 DEF Accounted
  <2> QED BY <2>1, <2>2
<1> QED BY <1>2, <1>4, <1>5 DEF PushIInv

\* An event of the write tells of its channel.
LEMMA ComingBy ==
    ASSUME PushTypes, push' = push, NEW events, Writing(events), NEW i \in DOMAIN events, NEW kinds, NEW c,
           events[i].kind \in kinds, events[i].on = c
    PROVE  Coming(kinds, c)'
<1>1. push.pos \in Nat
  BY DEF PushTypes, PushRow
<1>2. events[i] \in AheadOf(push.pos)'
  <2>1. ASSUME NEW pos \in Nat, pos = push.pos PROVE events[i] \in AheadOf(pos)'
    BY <2>1, CommitAhead
  <2> QED BY <1>1, <2>1 DEF AheadOf
<1> QED BY <1>2 DEF Coming

LEMMA WritesKeepPush ==
    ASSUME BusInv, PushIInv, push' = push, ChannelChanges \/ WorkChanges \/ Unrelated \/ Publish
    PROVE  PushIInv'
<1>t. PushTypes /\ store \in Store /\ store.msgs \in Seq([chan : Channels]) /\ store.members \in SUBSET Channels
  BY DEF PushIInv, BusInv, BusTypeOK, Store
\* Nothing of the channels changes.
<1>s. ASSUME NEW events, Writing(events), SameChannels PROVE PushIInv'
  BY <1>s, PushUnderWrite DEF SameChannels, ReadableBy
<1>1. ASSUME NEW c \in Channels, Post(c) PROVE PushIInv'
  <2> DEFINE events == <<Ev("message", c)>>
  <2>1. /\ Writing(events) /\ store'.members = store.members /\ store'.active = store.active
        /\ store'.msgs = Append(store.msgs, [chan |-> c])
    BY <1>1, PostFacts
  <2>2. 1 \in DOMAIN events /\ events[1].kind \in {"message", "channel"} /\ events[1].on = c
    BY DEF Ev
  <2> HIDE DEF events
  <2>3. Coming({"message", "channel"}, c)'
    <3>1. PushTypes /\ push' = push /\ Writing(events)
      BY <1>t, <2>1
    <3> QED BY <2>2, <3>1, ComingBy
  <2>4. \A i \in DOMAIN store'.msgs :
           (i \in DOMAIN store.msgs /\ store'.msgs[i] = store.msgs[i]) \/ store'.msgs[i].chan = c
    BY <1>t, <2>1
  <2>5. \A i \in ReadableBy(store'), d \in Channels :
           store'.msgs[i].chan = d
              => (i \in ReadableBy(store) /\ store.msgs[i].chan = d) \/ Coming({"message", "channel"}, d)'
    BY <2>1, <2>3, <2>4 DEF ReadableBy
  <2> QED BY <2>1, <2>5, PushUnderWrite
<1>2. ASSUME NEW c \in Channels, Join(c) \/ Leave(c) PROVE PushIInv'
  <2> DEFINE events == <<Ev("channel", c)>>
  <2>1. /\ Writing(events) /\ store'.active = store.active /\ store'.msgs = store.msgs
        /\ \A d \in Channels : d # c => (d \in store'.members <=> d \in store.members)
    BY <1>2, MembersFacts
  <2>2. 1 \in DOMAIN events /\ events[1].kind = "channel" /\ events[1].on = c
    BY DEF Ev
  <2> HIDE DEF events
  <2>3. Coming({"message", "channel"}, c)' /\ Coming({"channel"}, c)'
    <3>1. \A kinds : "channel" \in kinds => Coming(kinds, c)'
      BY <1>t, <2>1, <2>2, ComingBy
    <3> QED BY <3>1
  <2>5. \A i \in ReadableBy(store'), d \in Channels :
           store'.msgs[i].chan = d
              => (i \in ReadableBy(store) /\ store.msgs[i].chan = d) \/ Coming({"message", "channel"}, d)'
    BY <2>1, <2>3 DEF ReadableBy
  <2>6. \A d \in Channels : store'.active /\ ~(d \in store'.members <=> d \in store.members) => Coming({"channel"}, d)'
    BY <2>1, <2>3
  <2> QED BY <2>1, <2>5, <2>6, PushUnderWrite
<1>3. CASE Revoke
  <2>1. Writing(<<Ev("identity", NoChannel)>>) /\ ~store'.active /\ store'.members = {}
    BY <1>3, RevokeFacts
  <2>2. ReadableBy(store') = {}
    BY <2>1 DEF ReadableBy
  <2> QED BY <2>1, <2>2, PushUnderWrite
<1>4. CASE PostNotice \/ Unrelated \/ \E skipped \in BOOLEAN : FinishWork(skipped)
  BY <1>4, <1>s, NoticeFacts, FinishFacts, UnrelatedFacts
<1>5. CASE Publish
  <2>1. store' = store /\ bus \in Seq(Event) /\ Len(bus') = Len(bus) + 1
    BY <1>5, PublishFacts DEF BusInv, BusTypeOK
  <2>2. \A kinds, c : Coming(kinds, c) => Coming(kinds, c)'
    BY <1>5, <1>t, ComingStays
  <2>3. PushTypes'
    BY <1>t, <2>1 DEF PushTypes, PushRow
  <2>4. KnowsMembership'
    BY <2>1, <2>2 DEF PushIInv, KnowsMembership
  <2>5. UnreadIsComing'
    <3> SUFFICES ASSUME push.stage \in {"on", "refresh"}, NEW i \in ReadableBy(store) \ push.read, NEW c \in Channels,
                        store.msgs[i].chan = c, Listed(c)
                 PROVE  Accounted(c)'
      BY <2>1 DEF UnreadIsComing, Listed
    <3>1. Accounted(c)
      BY DEF PushIInv, UnreadIsComing
    <3> QED BY <2>2, <3>1 DEF Accounted, Owed
  <2> QED BY <2>3, <2>4, <2>5 DEF PushIInv
<1> QED BY <1>1, <1>2, <1>3, <1>4, <1>5 DEF ChannelChanges, WorkChanges

\* `offer` leaves a frame on its way, or owed, and touches nothing else.
LEMMA OfferTells ==
    ASSUME NEW p \in PushRow, NEW e \in Frames
    PROVE  /\ Offer(p, e) \in PushRow
           /\ Offer(p, e).dropped \/ Offer(p, e).out # <<>>
           /\ Offer(p, e).stage = p.stage /\ Offer(p, e).pos = p.pos /\ Offer(p, e).explicit = p.explicit
           /\ Offer(p, e).members = p.members /\ Offer(p, e).event = p.event /\ Offer(p, e).due = p.due
           /\ Offer(p, e).read = p.read
<1>1. p.out \in Seq(Frames) /\ Marker \in Frames
  BY DEF PushRow, Frames
<1>2. ASSUME NEW out \in Seq(Frames), NEW dropped \in BOOLEAN, out # <<>> \/ dropped,
             Offer(p, e) = [p EXCEPT !.out = out, !.dropped = dropped]
      PROVE  /\ Offer(p, e) \in PushRow
             /\ Offer(p, e).dropped \/ Offer(p, e).out # <<>>
             /\ Offer(p, e).stage = p.stage /\ Offer(p, e).pos = p.pos /\ Offer(p, e).explicit = p.explicit
             /\ Offer(p, e).members = p.members /\ Offer(p, e).event = p.event /\ Offer(p, e).due = p.due
             /\ Offer(p, e).read = p.read
  BY <1>2 DEF PushRow
<1>3. CASE Full
  <2>1. Offer(p, e) = [p EXCEPT !.out = p.out, !.dropped = TRUE]
    BY <1>3 DEF Offer, PushRow
  <2> QED BY <1>1, <1>2, <2>1
<1>4. CASE ~Full /\ ~p.dropped
  <2> DEFINE out == Append(p.out, e)
  <2>1. out \in Seq(Frames) /\ out # <<>>
    BY <1>1
  <2>2. Offer(p, e) = [p EXCEPT !.out = out, !.dropped = FALSE]
    <3>1. p.dropped = FALSE
      BY <1>4 DEF PushRow
    <3> QED BY <1>4, <3>1 DEF Offer, PushRow
  <2> HIDE DEF out
  <2> QED BY <1>2, <2>1, <2>2
<1>5. CASE ~Full /\ p.dropped /\ Len(p.out) + 1 < EventQueue
  <2> DEFINE out == p.out \o <<Marker, e>>
  <2>1. out \in Seq(Frames) /\ out # <<>>
    <3>1. <<Marker, e>> \in Seq(Frames) /\ Len(<<Marker, e>>) = 2
      BY <1>1
    <3>2. out \in Seq(Frames) /\ Len(out) = Len(p.out) + 2 /\ Len(p.out) \in Nat
      BY <1>1, <3>1
    <3> QED BY <3>2
  <2>2. Offer(p, e) = [p EXCEPT !.out = out, !.dropped = FALSE]
    BY <1>5 DEF Offer
  <2> HIDE DEF out
  <2> QED BY <1>2, <2>1, <2>2
<1>6. CASE ~Full /\ p.dropped /\ ~(Len(p.out) + 1 < EventQueue)
  <2> DEFINE out == Append(p.out, Marker)
  <2>1. out \in Seq(Frames) /\ out # <<>>
    BY <1>1
  <2>2. Offer(p, e) = [p EXCEPT !.out = out, !.dropped = TRUE]
    BY <1>6 DEF Offer
  <2> HIDE DEF out
  <2> QED BY <1>2, <2>1, <2>2
<1> QED BY <1>3, <1>4, <1>5, <1>6

\* What is coming does not depend on anything but the receiver.
LEMMA SameComing ==
    ASSUME UNCHANGED busVars, push'.pos = push.pos, NEW kinds, NEW c
    PROVE  Coming(kinds, c)' <=> Coming(kinds, c)
<1>1. AheadOf(push.pos)' = AheadOf(push.pos)
  BY DEF busVars, AheadOf
<1>2. Lagged(push.pos)' <=> Lagged(push.pos)
  BY DEF busVars, Lagged
<1> QED BY <1>1, <1>2 DEF Coming

\* A client that is owed a frame has nothing unaccounted for.
LEMMA OwedSuffices == ASSUME Owed' PROVE UnreadIsComing'
BY DEF UnreadIsComing, Accounted

LEMMA OffKeeps ==
    ASSUME PushTypes', push'.stage \notin {"on", "refresh"} PROVE PushIInv'
BY DEF PushIInv, KnowsMembership, UnreadIsComing

\* Taking an event that is not about the channel leaves what is coming for the channel.
LEMMA StillComing ==
    ASSUME BusInv, PushTypes, UNCHANGED busVars, push.pos < Len(bus), ~Lagged(push.pos), push'.pos = push.pos + 1,
           NEW kinds, NEW c, Coming(kinds, c), ~(NextEvent(push.pos).kind \in kinds /\ NextEvent(push.pos).on = c)
    PROVE  Coming(kinds, c)'
<1>1. push.pos \in Nat
  BY DEF PushTypes, PushRow
<1>2. PICK e \in AheadOf(push.pos) : e.kind \in kinds /\ e.on = c
  BY DEF Coming
<1>3. e \in AheadOf(push.pos + 1)
  BY <1>1, <1>2, PassedOver DEF NextEvent
<1>4. AheadOf(push.pos)' = AheadOf(push.pos + 1)
  BY DEF AheadOf, busVars
<1> QED BY <1>2, <1>3, <1>4 DEF Coming

LEMMA TakeKeepsPush ==
    ASSUME BusInv, PushIInv, UNCHANGED busVars, TakeEvent
    PROVE  PushIInv'
<1> DEFINE e   == NextEvent(push.pos)
           pos == push.pos + 1
           taken == [push EXCEPT !.pos = pos]
<1>t. PushTypes /\ push \in PushRow /\ store' = store /\ bus' = bus /\ bus \in Seq(Event) /\ Len(bus) \in Nat
      /\ push.pos \in Nat
  BY DEF PushIInv, PushTypes, PushRow, busVars, BusInv, BusTypeOK
<1>s. push.stage = "on" /\ push.pos < Len(bus)
  BY DEF TakeEvent, Waiting
<1>p. pos \in Nat /\ pos <= Len(bus) /\ e \in Event
  BY <1>t, <1>s DEF NextEvent
<1>e. push.pos + 1 = pos
  OBVIOUS
<1>1. CASE Lagged(push.pos)
  <2> DEFINE old == Oldest
  <2>1. push' = [push EXCEPT !.pos = old, !.dropped = TRUE, !.stage = "refresh", !.event = NoEvent]
    BY <1>1 DEF TakeEvent, TakeLag
  <2>2. old \in Nat /\ old <= Len(bus)
    BY <1>t, <1>1, BusAssumption DEF Lagged, Oldest
  <2> HIDE DEF old
  <2>3. push' \in PushRow
    BY <1>t, <2>1, <2>2 DEF PushRow
  <2>4. push'.pos = old /\ push'.dropped /\ push'.stage = "refresh"
    BY <1>t, <2>1 DEF PushRow
  <2>5. PushTypes' /\ KnowsMembership'
    BY <1>t, <2>2, <2>3, <2>4 DEF PushTypes, KnowsMembership
  <2>6. UnreadIsComing'
    BY <2>4, OwedSuffices DEF Owed
  <2> QED BY <2>5, <2>6 DEF PushIInv
<1>k. taken \in PushRow
  <2> HIDE DEF pos
  <2> QED BY <1>t, <1>p DEF PushRow
<1>f. /\ taken.stage = "on" /\ taken.pos = pos /\ taken.explicit = push.explicit /\ taken.members = push.members
      /\ taken.dropped = push.dropped /\ taken.out = push.out /\ taken.due = push.due /\ taken.read = push.read
  <2> HIDE DEF pos
  <2> QED BY <1>t, <1>s DEF PushRow
<1>2. CASE ~Lagged(push.pos) /\ NeedsRefresh(e)
  <2>1. push' = [taken EXCEPT !.stage = "refresh", !.event = e]
    BY <1>2 DEF TakeEvent
  <2> HIDE DEF taken, e, pos
  <2>2. push' \in PushRow
    BY <1>k, <1>p, <2>1 DEF PushRow
  <2>3. /\ push'.stage = "refresh" /\ push'.event = e /\ push'.pos = pos /\ push'.explicit = push.explicit
        /\ push'.dropped = push.dropped /\ push'.out = push.out /\ push'.due = push.due /\ push'.read = push.read
    BY <1>k, <1>f, <2>1 DEF PushRow
  <2>4. PushTypes' /\ KnowsMembership'
    BY <1>t, <1>p, <2>2, <2>3 DEF PushTypes, KnowsMembership
  <2>5. UnreadIsComing'
    <3> SUFFICES ASSUME NEW i \in ReadableBy(store) \ push.read, NEW c \in Channels, store.msgs[i].chan = c, Listed(c)
                 PROVE  Accounted(c)'
      BY <1>t, <2>3 DEF UnreadIsComing, Listed
    <3>1. Accounted(c)
      BY <1>s DEF PushIInv, UnreadIsComing
    <3>2. CASE Owed
      BY <2>3, <3>2 DEF Accounted, Owed
    <3>3. CASE Coming({"message", "channel"}, c) /\ ~(e.kind \in {"message", "channel"} /\ e.on = c)
      <4>1. Coming({"message", "channel"}, c)'
        BY <1>t, <1>s, <1>e, <1>2, <2>3, <3>3, StillComing DEF e
      <4> QED BY <4>1 DEF Accounted
    <3>4. CASE e.kind \in {"message", "channel"} /\ e.on = c
      <4>1. e = Ev("channel", c)
        BY <1>2, <1>p, <3>4 DEF NeedsRefresh, Event, Ev
      <4> QED BY <2>3, <4>1 DEF Accounted
    <3> QED BY <1>s, <3>1, <3>2, <3>3, <3>4 DEF Accounted
  <2> QED BY <2>4, <2>5 DEF PushIInv
\* The event is no change of membership: what the forwarder knows is as good as before.
<1>m. ASSUME ~Lagged(push.pos), ~NeedsRefresh(e), push'.pos = pos, push'.members = push.members PROVE KnowsMembership'
  <2>1. e.kind # "channel"
    BY <1>m DEF NeedsRefresh
  <2>2. \A c \in Channels : Coming({"channel"}, c) => Coming({"channel"}, c)'
    BY <1>m, <1>t, <1>s, <2>1, StillComing
  <2> QED BY <1>m, <1>t, <1>s, <2>2 DEF PushIInv, KnowsMembership
<1>3. CASE ~Lagged(push.pos) /\ ~NeedsRefresh(e) /\ Wants(e, {})
  <2>1. push' = Offer(taken, e)
    BY <1>3 DEF TakeEvent
  <2>2. e \in Frames
    BY <1>p DEF Frames
  <2> HIDE DEF taken, e, pos
  <2>3. push' \in PushRow /\ (push'.dropped \/ push'.out # <<>>) /\ push'.pos = pos /\ push'.members = push.members
    BY <1>k, <1>f, <2>1, <2>2, OfferTells
  <2>4. PushTypes' /\ KnowsMembership'
    BY <1>m, <1>t, <1>p, <1>3, <2>3 DEF PushTypes
  <2>5. UnreadIsComing'
    BY <2>3, OwedSuffices DEF Owed
  <2> QED BY <2>4, <2>5 DEF PushIInv
<1>4. CASE ~Lagged(push.pos) /\ ~NeedsRefresh(e) /\ ~Wants(e, {})
  <2>1. push' = taken
    BY <1>4 DEF TakeEvent
  <2> HIDE DEF taken, e, pos
  <2>2. PushTypes'
    BY <1>t, <1>k, <1>f, <1>p, <2>1 DEF PushTypes
  <2>3. KnowsMembership'
    BY <1>m, <1>f, <1>4, <2>1
  <2>4. UnreadIsComing'
    <3> SUFFICES ASSUME NEW i \in ReadableBy(store) \ push.read, NEW c \in Channels, store.msgs[i].chan = c, Listed(c)
                 PROVE  Accounted(c)'
      BY <1>t, <1>f, <2>1 DEF UnreadIsComing, Listed
    <3>1. Accounted(c)
      BY <1>s DEF PushIInv, UnreadIsComing
    <3>2. CASE Owed
      BY <1>f, <2>1, <3>2 DEF Accounted, Owed
    <3>3. CASE Coming({"message", "channel"}, c) /\ ~(e.kind \in {"message", "channel"} /\ e.on = c)
      <4>1. Coming({"message", "channel"}, c)'
        BY <1>t, <1>s, <1>e, <1>f, <1>4, <2>1, <3>3, StillComing DEF e
      <4> QED BY <4>1 DEF Accounted
    <3>4. CASE e.kind \in {"message", "channel"} /\ e.on = c
      <4>1. e.kind = "message"
        BY <1>4, <3>4 DEF NeedsRefresh
      <4>2. c \notin push.members
        BY <1>4, <3>4, <4>1 DEF Wants, Effective
      <4>3. c \in store.members /\ store.active
        BY DEF ReadableBy, BusInv
      <4>4. Coming({"channel"}, c)
        BY <1>s, <4>2, <4>3 DEF PushIInv, KnowsMembership
      <4>5. Coming({"channel"}, c)'
        BY <1>t, <1>s, <1>e, <1>f, <1>4, <2>1, <4>1, <4>4, StillComing DEF e
      <4> QED BY <4>5 DEF Accounted, Coming
    <3> QED BY <1>s, <3>1, <3>2, <3>3, <3>4 DEF Accounted
  <2> QED BY <2>2, <2>3, <2>4 DEF PushIInv
<1> QED BY <1>1, <1>2, <1>3, <1>4

LEMMA RefreshKeepsPush ==
    ASSUME BusInv, PushIInv, UNCHANGED busVars, Refresh
    PROVE  PushIInv'
<1> DEFINE after == IF store.active THEN store.members ELSE {}
           tells == push.event # NoEvent /\ Wants(push.event, after)
           told  == IF tells THEN Offer(push, push.event) ELSE push
           end   == ~store.active /\ push.event.kind = "identity"
           stage == IF end THEN "ended" ELSE "on"
<1>t. /\ PushTypes /\ push \in PushRow /\ store' = store /\ bus' = bus /\ push.event \in Event \cup {NoEvent}
      /\ store.members \in SUBSET Channels
  BY DEF PushIInv, PushTypes, PushRow, busVars, BusInv, BusTypeOK, Store
<1>1. push' = [told EXCEPT !.members = after, !.event = NoEvent, !.stage = stage] /\ push.stage = "refresh"
  BY DEF Refresh
<1>2. /\ told \in PushRow /\ told.pos = push.pos /\ told.explicit = push.explicit /\ told.due = push.due
      /\ told.read = push.read /\ (tells => told.dropped \/ told.out # <<>>)
      /\ (~tells => told.dropped = push.dropped /\ told.out = push.out)
  <2>1. CASE tells
    <3>1. push.event \in Frames
      BY <1>t, <2>1 DEF Frames
    <3>2. told = Offer(push, push.event)
      BY <2>1
    <3> HIDE DEF told, tells
    <3> QED BY <1>t, <2>1, <3>1, <3>2, OfferTells
  <2>2. CASE ~tells
    <3>1. told = push
      BY <2>2
    <3> HIDE DEF told, tells
    <3> QED BY <1>t, <2>2, <3>1
  <2> QED BY <2>1, <2>2
<1>3. after \in SUBSET Channels /\ stage \in {"on", "ended"}
  BY <1>t
<1>a. store.active => after = store.members
  OBVIOUS
<1>w. \A c \in Channels : store.active /\ c \in store.members /\ Listed(c) /\ push.event = Ev("channel", c) => tells
  BY DEF Wants, Effective, Ev, NoEvent
<1> HIDE DEF after, tells, told, stage
<1>4. push' \in PushRow
  BY <1>1, <1>2, <1>3 DEF PushRow
<1>5. /\ push'.members = after /\ push'.stage = stage /\ push'.pos = push.pos /\ push'.explicit = push.explicit
      /\ push'.due = push.due /\ push'.read = push.read /\ push'.dropped = told.dropped /\ push'.out = told.out
  BY <1>1, <1>2 DEF PushRow
<1>6. PushTypes'
  BY <1>t, <1>4, <1>5 DEF PushTypes
<1>7. KnowsMembership'
  BY <1>t, <1>a, <1>5 DEF KnowsMembership
<1>8. UnreadIsComing'
  <2> SUFFICES ASSUME NEW i \in ReadableBy(store) \ push.read, NEW c \in Channels, store.msgs[i].chan = c, Listed(c)
               PROVE  Accounted(c)'
    BY <1>t, <1>5 DEF UnreadIsComing, Listed
  <2>1. Accounted(c)
    BY <1>1 DEF PushIInv, UnreadIsComing
  <2>2. CASE tells \/ Owed
    BY <1>2, <1>5, <2>2 DEF Accounted, Owed
  <2>3. CASE Coming({"message", "channel"}, c)
    <3>1. Coming({"message", "channel"}, c)'
      BY <1>5, <2>3, SameComing
    <3> QED BY <3>1 DEF Accounted
  <2>4. CASE push.event = Ev("channel", c)
    <3>1. c \in store.members /\ store.active
      BY DEF ReadableBy, BusInv
    <3> QED BY <1>w, <2>2, <2>4, <3>1
  <2> QED BY <2>1, <2>2, <2>3, <2>4 DEF Accounted
<1> QED BY <1>6, <1>7, <1>8 DEF PushIInv

LEMMA PushStepKeeps ==
    ASSUME BusInv, PushIInv, UNCHANGED busVars, PushStep
    PROVE  PushIInv'
<1>t. /\ PushTypes /\ push \in PushRow /\ store' = store /\ bus' = bus /\ Len(bus) \in Nat
      /\ store.members \in SUBSET Channels /\ store.msgs \in Seq([chan : Channels])
  <2>1. bus \in Seq(Event)
    BY DEF BusInv, BusTypeOK
  <2> QED BY <2>1 DEF PushIInv, PushTypes, busVars, BusInv, BusTypeOK, Store
\* The forwarder's view does not move.
<1>m. ASSUME push'.stage = push.stage, push'.pos = push.pos, push'.members = push.members PROVE KnowsMembership'
  <2>1. \A c \in Channels : Coming({"channel"}, c)' <=> Coming({"channel"}, c)
    BY <1>m, SameComing
  <2> QED BY <1>m, <1>t, <2>1 DEF PushIInv, KnowsMembership
<1>1. ASSUME NEW explicit \in SUBSET Channels, SubscribePush(explicit) PROVE PushIInv'
  <2>1. push' = [push EXCEPT !.stage = "reading", !.pos = Len(bus), !.explicit = explicit]
    BY <1>1 DEF SubscribePush, Subscription
  <2>2. push' \in PushRow
    BY <1>1, <1>t, <2>1 DEF PushRow
  <2>3. push'.stage = "reading" /\ push'.pos = Len(bus)
    BY <1>t, <2>1 DEF PushRow
  <2> QED BY <1>t, <2>2, <2>3, OffKeeps DEF PushTypes
\* The subscription ends.
<1>e. ASSUME push' = [push EXCEPT !.stage = "ended"] PROVE PushIInv'
  <2>1. push' \in PushRow
    BY <1>e, <1>t DEF PushRow
  <2>2. push'.stage = "ended" /\ push'.pos = push.pos
    BY <1>e, <1>t DEF PushRow
  <2> QED BY <1>t, <2>1, <2>2, OffKeeps DEF PushTypes
<1>2. CASE ReadMembership
  <2>1. CASE push' = [push EXCEPT !.stage = "on", !.members = store.members, !.due = TRUE]
    <3>1. push' \in PushRow
      BY <1>t, <2>1 DEF PushRow
    <3>2. push'.members = store.members /\ push'.due /\ push'.pos = push.pos
      BY <1>t, <2>1 DEF PushRow
    <3>3. PushTypes' /\ KnowsMembership'
      BY <1>t, <3>1, <3>2 DEF PushTypes, KnowsMembership
    <3>4. UnreadIsComing'
      BY <3>2, OwedSuffices DEF Owed
    <3> QED BY <3>3, <3>4 DEF PushIInv
  <2> QED BY <1>2, <1>e, <2>1 DEF ReadMembership
<1>3. CASE PayMarker
  <2> DEFINE out == Append(push.out, Marker)
  <2>1. push' = [push EXCEPT !.out = out, !.dropped = FALSE]
    BY <1>3 DEF PayMarker
  <2>2. out \in Seq(Frames) /\ out # <<>>
    BY <1>t DEF PushRow, Frames
  <2> HIDE DEF out
  <2>3. push' \in PushRow
    BY <1>t, <2>1, <2>2 DEF PushRow
  <2>4. push'.stage = push.stage /\ push'.pos = push.pos /\ push'.members = push.members /\ push'.out = out
    BY <1>t, <2>1 DEF PushRow
  <2>5. PushTypes' /\ KnowsMembership'
    BY <1>m, <1>t, <2>3, <2>4 DEF PushTypes
  <2>6. UnreadIsComing'
    BY <2>2, <2>4, OwedSuffices DEF Owed
  <2> QED BY <2>5, <2>6 DEF PushIInv
<1>4. CASE TakeEvent
  BY <1>4, TakeKeepsPush
<1>5. CASE Refresh
  BY <1>5, RefreshKeepsPush
<1>6. CASE EndPush
  BY <1>6, <1>e DEF EndPush
<1>7. CASE ClientTakes
  <2> DEFINE out == Tail(push.out)
  <2>1. push' = [push EXCEPT !.out = out, !.due = TRUE] /\ push.out # <<>>
    BY <1>7 DEF ClientTakes
  <2>2. out \in Seq(Frames)
    BY <1>t, <2>1 DEF PushRow
  <2> HIDE DEF out
  <2>3. push' \in PushRow
    BY <1>t, <2>1, <2>2 DEF PushRow
  <2>4. push'.stage = push.stage /\ push'.pos = push.pos /\ push'.members = push.members /\ push'.due
    BY <1>t, <2>1 DEF PushRow
  <2>5. PushTypes' /\ KnowsMembership'
    BY <1>m, <1>t, <2>3, <2>4 DEF PushTypes
  <2>6. UnreadIsComing'
    BY <2>4, OwedSuffices DEF Owed
  <2> QED BY <2>5, <2>6 DEF PushIInv
<1>8. CASE ClientReads
  <2> DEFINE read == push.read \cup ReadableBy(store)
  <2>1. push' = [push EXCEPT !.due = FALSE, !.read = read]
    BY <1>8 DEF ClientReads
  <2>2. read \in SUBSET Nat /\ ReadableBy(store) \subseteq read
    <3>1. ReadableBy(store) \in SUBSET Nat
      BY <1>t DEF ReadableBy
    <3> QED BY <1>t, <3>1 DEF PushRow
  <2> HIDE DEF read
  <2>3. push' \in PushRow
    BY <1>t, <2>1, <2>2 DEF PushRow
  <2>4. push'.stage = push.stage /\ push'.pos = push.pos /\ push'.members = push.members /\ push'.read = read
    BY <1>t, <2>1 DEF PushRow
  <2>5. PushTypes' /\ KnowsMembership'
    BY <1>m, <1>t, <2>3, <2>4 DEF PushTypes
  <2>6. UnreadIsComing'
    BY <1>t, <2>2, <2>4 DEF UnreadIsComing
  <2> QED BY <2>5, <2>6 DEF PushIInv
<1>9. \A explicit \in {Every} \cup {{c} : c \in Channels} : explicit \in SUBSET Channels
  BY DEF Every
<1> QED BY <1>1, <1>2, <1>3, <1>4, <1>5, <1>6, <1>7, <1>8, <1>9 DEF PushStep

PushSafe == BusInv /\ PushIInv

LEMMA PushSafeStep == PushSafe /\ [DeliveryNext]_deliveryVars => PushSafe'
<1> SUFFICES ASSUME PushSafe, [DeliveryNext]_deliveryVars PROVE PushSafe'
  OBVIOUS
\* The push does not move, nor the bus.
<1>i. ASSUME UNCHANGED busVars, push' = push PROVE PushSafe'
  <2>1. BusInv'
    BY <1>i DEF PushSafe, BusInv, BusTypeOK, busVars
  <2>2. \A kinds, c : Coming(kinds, c)' <=> Coming(kinds, c)
    BY <1>i, SameComing
  <2>3. store' = store /\ bus' = bus
    BY <1>i DEF busVars
  <2>4. PushTypes' /\ KnowsMembership'
    BY <1>i, <2>2, <2>3 DEF PushSafe, PushIInv, PushTypes, KnowsMembership
  <2>5. UnreadIsComing'
    <3> SUFFICES ASSUME push.stage \in {"on", "refresh"}, NEW i \in ReadableBy(store) \ push.read, NEW c \in Channels,
                        store.msgs[i].chan = c, Listed(c)
                 PROVE  Accounted(c)'
      BY <1>i, <2>3 DEF UnreadIsComing, Listed
    <3>1. Accounted(c)
      BY DEF PushSafe, PushIInv, UnreadIsComing
    <3> QED BY <1>i, <2>2, <3>1 DEF Accounted, Owed
  <2> QED BY <2>1, <2>4, <2>5 DEF PushSafe, PushIInv
<1>1. CASE Writes
  <2>1. push' = push /\ UNCHANGED waitVars /\ (ChannelChanges \/ WorkChanges \/ Unrelated \/ Publish)
    BY <1>1 DEF Writes, pushVars
  <2>2. BusInv'
    BY <2>1, PostFacts, MembersFacts, RevokeFacts, NoticeFacts, FinishFacts, UnrelatedFacts, PublishFacts
       DEF PushSafe, Writing, ChannelChanges, WorkChanges
  <2> QED BY <2>1, <2>2, WritesKeepPush DEF PushSafe
<1>2. CASE WaitMoves
  BY <1>2, <1>i DEF WaitMoves, pushVars
<1>3. CASE PushMoves
  <2>1. UNCHANGED busVars /\ PushStep
    BY <1>3 DEF PushMoves
  <2>2. BusInv'
    BY <2>1 DEF PushSafe, BusInv, BusTypeOK, busVars
  <2> QED BY <2>1, <2>2, PushStepKeeps DEF PushSafe
<1>4. CASE UNCHANGED deliveryVars
  BY <1>4, <1>i DEF deliveryVars, pushVars
<1> QED BY <1>1, <1>2, <1>3, <1>4 DEF DeliveryNext

\* A subscribed client whose connection is quiet has read every message of the channels it asked for, and is
\* a member of: whether its events were forwarded, did not fit its queue, or were dropped by the bus, and
\* however joins, leaves and the refreshes of the forwarder interleave (`Forwarder::run`, `offer`, `refresh`).
THEOREM PushedClientIsCurrent == DeliverySpec => []QuiescentClientIsCurrent
<1>1. DeliveryInit => PushSafe
  <2> SUFFICES ASSUME DeliveryInit PROVE PushSafe
    OBVIOUS
  <2>1. BusInv
    BY BusInitially DEF DeliveryInit
  <2>2. push = NoPush /\ Len(bus) = 0
    BY DEF DeliveryInit, PushInit, BusInit
  <2>3. push \in PushRow
    <3>1. <<>> \in Seq(Frames) /\ Every \in SUBSET Channels /\ {} \in SUBSET Channels /\ {} \in SUBSET Nat
      BY DEF Every
    <3> QED BY <2>2, <3>1 DEF NoPush, PushRow
  <2>4. push.stage = "off" /\ push.pos = 0
    BY <2>2 DEF NoPush
  <2> QED BY <2>1, <2>2, <2>3, <2>4 DEF PushSafe, PushIInv, PushTypes, KnowsMembership, UnreadIsComing
<1>2. PushSafe => QuiescentClientIsCurrent
  <2> SUFFICES ASSUME PushSafe, push.stage = "on", unpublished = <<>>, ~Waiting(push.pos), push.out = <<>>,
                      ~push.dropped, ~push.due,
                      NEW i \in ReadableBy(store), Listed(store.msgs[i].chan)
               PROVE  i \in push.read
    BY DEF QuiescentClientIsCurrent
  <2>1. push.pos = Len(bus) /\ Len(bus) \in Nat
    <3>1. bus \in Seq(Event) /\ push.pos \in Nat /\ push.pos <= Len(bus)
      BY DEF PushSafe, PushIInv, PushTypes, PushRow, BusInv, BusTypeOK, Store
    <3> QED BY <3>1 DEF Waiting
  <2>2. store.msgs[i].chan \in Channels
    BY DEF ReadableBy, PushSafe, BusInv, BusTypeOK, Store
  <2>3. AheadOf(push.pos) = {}
    BY <2>1 DEF AheadOf
  <2>4. ~Lagged(push.pos)
    BY <2>1, BusAssumption DEF Lagged
  <2>5. ~Accounted(store.msgs[i].chan)
    BY <2>3, <2>4 DEF Accounted, Owed, Coming
  <2> QED BY <2>2, <2>5 DEF PushSafe, PushIInv, UnreadIsComing
<1> QED BY <1>1, <1>2, PushSafeStep, PTL DEF DeliverySpec

-----------------------------------------------------------------------------
(* The timer loop.                                                             *)

TimerSpecs == [kind : {"at", "every", "cron"}, at : Nat, period : Nat \ {0}, start : Int]
TimerRow == [live : BOOLEAN, enabled : BOOLEAN, next : Int, phase : Int, spec : TimerSpecs]
LoopRow == [stage : {"scan", "fire", "asleep"}, pos : Nat, at : Nat, due : SUBSET (Timers \X Int), deadline : Int,
            failed : [Timers -> Int]]

\* Types; a timer that is enabled has a next fire.
TimerTypes ==
    /\ timers \in [Timers -> TimerRow] /\ loop \in LoopRow /\ loop.pos <= Len(bus) /\ now \in Nat
    /\ \A t \in Timers : Enabled(t) => timers[t].next \in Nat

TimerSafe == BusInv /\ TimerTypes /\ SleepCoversEveryTimer

\* A set of instants has an earliest one.
LEMMA EarliestExists ==
    ASSUME NEW S \in SUBSET Nat, S # {} PROVE Min(S) \in S /\ \A n \in S : Min(S) <= n
<1> DEFINE R == OpToRel(<, Nat)
<1>1. IsWellFoundedOn(R, Nat)
  BY NatLessThanWellFounded
<1>2. \A x, y \in Nat : x < y => <<x, y>> \in R
  BY DEF OpToRel
<1> HIDE DEF R
<1>3. \E x \in S : \A y \in S : ~(<<y, x>> \in R)
  BY <1>1, WFMin
<1>4. \E x \in S : \A y \in S : x <= y
  <2>1. PICK x \in S : \A y \in S : ~(<<y, x>> \in R)
    BY <1>3
  <2>2. ASSUME NEW y \in S PROVE x <= y
    <3>1. x \in Nat /\ y \in Nat /\ ~(y < x)
      BY <1>2, <2>1
    <3> QED BY <3>1
  <2> QED BY <2>2
<1> QED BY <1>4 DEF Min

\* The grid goes on strictly after the instant given.
LEMMA GridIsAhead ==
    ASSUME NEW anchor \in Int, NEW period \in Nat \ {0}, NEW t \in Int
    PROVE  GridAfter(anchor, period, t) \in Int /\ GridAfter(anchor, period, t) > t
<1> DEFINE x == t - anchor   q == x \div period   r == x % period
<1>1. q \in Int /\ r \in 0 .. (period - 1) /\ x = period * q + r
  OBVIOUS
<1>2. (q + 1) * period = period * q + period /\ (q + 1) * period \in Int
  BY <1>1
<1> QED BY <1>1, <1>2 DEF GridAfter

LEMMA SpecTypes == Specs \subseteq TimerSpecs
<1> SUFFICES ASSUME NEW spec \in Specs PROVE spec \in TimerSpecs
  OBVIOUS
<1>1. Never \in Int /\ (\A i \in Instants : i \in Nat) /\ (\A p \in Periods : p \in Nat \ {0}) /\ 1 \in Nat \ {0}
  BY TimerAssumption DEF Never
<1>2. CASE spec \in [kind : {"at"}, at : Instants, period : {1}, start : {Never}]
  BY <1>1, <1>2 DEF TimerSpecs
<1>3. CASE spec \in [kind : {"every"}, at : {0}, period : Periods, start : {Never} \cup Instants]
  <2>0. spec.period \in Periods /\ spec.start \in {Never} \cup Instants /\ spec.at = 0 /\ spec.kind = "every"
    BY <1>3
  <2>1. spec.period \in Nat \ {0} /\ spec.start \in Int
    BY <1>1, <2>0
  <2>2. spec = [kind |-> spec.kind, at |-> spec.at, period |-> spec.period, start |-> spec.start]
    BY <1>3
  <2> QED BY <2>0, <2>1, <2>2 DEF TimerSpecs
<1>4. CASE spec \in [kind : {"cron"}, at : {0}, period : Periods, start : {0}]
  <2>0. spec.period \in Periods /\ spec.start \in {0} /\ spec.at = 0 /\ spec.kind = "cron"
    BY <1>4
  <2>1. spec.period \in Nat \ {0} /\ spec.start \in Int
    BY <1>1, <2>0
  <2>2. spec = [kind |-> spec.kind, at |-> spec.at, period |-> spec.period, start |-> spec.start]
    BY <1>4
  <2> QED BY <2>0, <2>1, <2>2 DEF TimerSpecs
<1> QED BY <1>2, <1>3, <1>4 DEF Specs

\* A timer's first fire is an instant; so is a later one, unless it was its last.
LEMMA FirstIsAnInstant ==
    ASSUME NEW spec \in Specs, NEW created \in Nat PROVE FirstFire(spec, created) \in Nat
<1>1. spec \in TimerSpecs /\ spec.kind \in {"at", "every", "cron"} /\ (spec.start # Never => spec.start \in Nat)
  BY SpecTypes, TimerAssumption DEF Specs, TimerSpecs
<1>2. spec.at \in Nat /\ spec.period \in Nat \ {0}
  BY <1>1 DEF TimerSpecs
<1>3. GridAfter(0, spec.period, created) \in Nat
  <2>1. 0 \in Int /\ created \in Int
    OBVIOUS
  <2>2. GridAfter(0, spec.period, created) \in Int /\ GridAfter(0, spec.period, created) > created
    BY <1>2, <2>1, GridIsAhead, Zenon
  <2> QED BY <2>2
<1> QED BY <1>1, <1>2, <1>3 DEF FirstFire

LEMMA NextIsAnInstant ==
    ASSUME NEW spec \in TimerSpecs, NEW fired \in Int, NEW t \in Nat
    PROVE  NextFire(spec, fired, t) \in Nat \cup {Never}
<1>1. spec.period \in Nat \ {0} /\ spec.start \in Int /\ spec.kind \in {"at", "every", "cron"}
  BY DEF TimerSpecs
<1>2. \A a \in Int : GridAfter(a, spec.period, t) \in Nat
  <2> TAKE a \in Int
  <2>1. t \in Int
    OBVIOUS
  <2>2. GridAfter(a, spec.period, t) \in Int /\ GridAfter(a, spec.period, t) > t
    BY <1>1, <2>1, GridIsAhead, Zenon
  <2> QED BY <2>2
<1>3. GridAfter(0, spec.period, IF t > fired THEN t ELSE fired) \in Nat
  <2> DEFINE late == IF t > fired THEN t ELSE fired
  <2>1. late \in Nat /\ late \in Int /\ 0 \in Int
    OBVIOUS
  <2> HIDE DEF late
  <2>2. GridAfter(0, spec.period, late) \in Int /\ GridAfter(0, spec.period, late) > late
    BY <1>1, <2>1, GridIsAhead, Zenon
  <2> QED BY <2>1, <2>2 DEF late
<1> QED BY <1>1, <1>2, <1>3 DEF NextFire

\* The timer will be looked at in time, or a change of it is still to be heard.
TimerAlert(t) == Lagged(loop.pos) \/ Ev("timer", t) \in AheadOf(loop.pos)
InTime(t) == loop.deadline # Never /\ loop.deadline <= (IF timers[t].next > now THEN timers[t].next ELSE now + 1)
Asks(t) == Enabled(t) /\ timers[t].next # loop.failed[t]

LEMMA CoverInShort ==
    SleepCoversEveryTimer <=> (loop.stage = "asleep" => \A t \in Timers : Asks(t) => InTime(t) \/ TimerAlert(t))
BY DEF SleepCoversEveryTimer, TimerAlert, InTime, Asks, AheadOf

LEMMA CoverInShortNext ==
    SleepCoversEveryTimer' <=> (loop'.stage = "asleep" => \A t \in Timers : Asks(t)' => InTime(t)' \/ TimerAlert(t)')
BY DEF SleepCoversEveryTimer, TimerAlert, InTime, Asks, AheadOf

LEMMA TimerAlertStays ==
    ASSUME BusInv, TimerTypes, UNCHANGED loop, (\E events : Writing(events)) \/ Publish
    PROVE  \A t \in Timers : TimerAlert(t) => TimerAlert(t)'
<1>1. loop' = loop /\ loop.pos \in Nat /\ Len(bus) \in Nat /\ Len(bus') \in Nat
  <2>1. loop' = loop /\ loop.pos \in Nat /\ bus \in Seq(Event)
    BY DEF TimerTypes, LoopRow, BusInv, BusTypeOK
  <2>2. bus' \in Seq(Event)
    BY PublishFacts DEF Writing, BusInv, BusTypeOK
  <2> QED BY <2>1, <2>2
<1>2. Len(bus') >= Len(bus)
  BY <1>1, PublishFacts DEF Writing
<1>3. \A e \in AheadOf(loop.pos) : e \in AheadOf(loop.pos)'
  <2>1. ASSUME NEW pos \in Nat, pos = loop.pos PROVE \A e \in AheadOf(pos) : e \in AheadOf(pos)'
    BY <2>1, CommitAhead, PublishAhead DEF TimerTypes
  <2> QED BY <1>1, <2>1 DEF AheadOf
<1>4. Lagged(loop.pos) => Lagged(loop.pos)'
  BY <1>1, <1>2, BusAssumption DEF Lagged
<1> QED BY <1>3, <1>4 DEF TimerAlert, Ev

\* A write that leaves timers and loop alone, and the passing of time.
LEMMA OthersKeepTimers ==
    ASSUME TimerSafe, UNCHANGED timerVars, Revoke \/ Unrelated \/ Publish PROVE TimerSafe'
<1>1. BusInv' /\ ((\E events : Writing(events)) \/ Publish)
  BY RevokeFacts, UnrelatedFacts, PublishFacts DEF TimerSafe, Writing
<1>2. UNCHANGED timers /\ UNCHANGED loop /\ UNCHANGED now
  BY DEF timerVars
<1>3. \A t \in Timers : TimerAlert(t) => TimerAlert(t)'
  BY <1>1, <1>2, TimerAlertStays DEF TimerSafe
<1>4. \A t \in Timers : (Asks(t)' <=> Asks(t)) /\ (InTime(t)' <=> InTime(t))
  BY <1>2 DEF Asks, InTime, Enabled
<1>5. loop.pos <= Len(bus')
  <2>1. bus \in Seq(Event) /\ loop.pos \in Nat /\ loop.pos <= Len(bus)
    BY DEF TimerSafe, TimerTypes, BusInv, BusTypeOK, LoopRow
  <2>2. bus' = bus \/ Len(bus') = Len(bus) + 1
    BY <1>1, PublishFacts DEF Writing, TimerSafe
  <2> QED BY <2>1, <2>2
<1>6. TimerTypes'
  BY <1>2, <1>5 DEF TimerSafe, TimerTypes, Enabled
<1> QED BY <1>1, <1>2, <1>3, <1>4, <1>6, CoverInShort, CoverInShortNext DEF TimerSafe

\* A write of the timers: the row as it was, and these events.
LEMMA TimerWrite ==
    ASSUME BusInv, NEW events \in Seq(Event), Commit(store, events) PROVE Writing(events)
<1>1. store \in Store
  BY DEF BusInv, BusTypeOK
<1> QED BY <1>1, CommitKeeps DEF BusInv, Writing

LEMMA TimerEvents ==
    ASSUME NEW t \in Timers
    PROVE  <<Ev("timer", t)>> \in Seq(Event)
BY DEF Ev, Event, Kinds

LEMMA CreateKeepsTimers ==
    ASSUME TimerSafe, NEW t \in Timers, NEW spec \in Specs, TimerCreate(t, spec) PROVE TimerSafe'
<1> DEFINE first == FirstFire(spec, now)   phase == first % spec.period
           row == [live |-> TRUE, enabled |-> TRUE, next |-> first, phase |-> phase, spec |-> spec]
<1>1. first \in Nat
  BY FirstIsAnInstant DEF TimerSafe, TimerTypes
<1>2. spec \in TimerSpecs
  BY SpecTypes
<1>3. phase \in Int
  <2>1. spec.period \in Nat \ {0}
    BY <1>2 DEF TimerSpecs
  <2> HIDE DEF first
  <2> QED BY <1>1, <2>1
<1>4. timers' = [timers EXCEPT ![t] = row] /\ UNCHANGED loop /\ UNCHANGED now
  BY DEF TimerCreate
<1>5. Writing(<<Ev("timer", t)>>)
  BY TimerWrite, TimerEvents DEF TimerCreate, Changed, TimerSafe
<1> HIDE DEF first, phase
<1>6. row \in TimerRow /\ row.next \in Nat
  BY <1>1, <1>2, <1>3 DEF TimerRow
<1> HIDE DEF row
<1>7. TimerTypes'
  <2>1. timers' \in [Timers -> TimerRow] /\ timers'[t] = row /\ \A u \in Timers : u # t => timers'[u] = timers[u]
    BY <1>4, <1>6 DEF TimerSafe, TimerTypes
  <2>2. \A u \in Timers : Enabled(u)' => timers'[u].next \in Nat
    BY <1>6, <2>1 DEF TimerSafe, TimerTypes, Enabled
  <2>3. loop' \in LoopRow /\ loop'.pos <= Len(bus') /\ now' \in Nat
    BY <1>4, <1>5 DEF TimerSafe, TimerTypes, Writing
  <2> QED BY <2>1, <2>2, <2>3 DEF TimerTypes
<1>8. ASSUME NEW u \in Timers, loop.stage = "asleep", Asks(u)' PROVE InTime(u)' \/ TimerAlert(u)'
  <2>1. CASE u = t
    <3>1. loop.pos \in Nat
      BY DEF TimerSafe, TimerTypes, LoopRow
    <3>2. ASSUME NEW pos \in Nat, pos = loop.pos PROVE Ev("timer", t) \in AheadOf(pos)'
      BY <1>5, CommitAhead
    <3>3. Ev("timer", t) \in AheadOf(loop.pos)'
      BY <1>4, <3>1, <3>2 DEF AheadOf
    <3> QED BY <2>1, <3>3 DEF TimerAlert, Ev
  <2>2. CASE u # t
    <3>1. timers'[u] = timers[u]
      BY <1>4, <2>2 DEF TimerSafe, TimerTypes
    <3>2. Asks(u) /\ (InTime(u) => InTime(u)')
      BY <1>4, <1>8, <3>1 DEF Asks, InTime, Enabled
    <3>3. TimerAlert(u) => TimerAlert(u)'
      BY <1>4, <1>5, TimerAlertStays DEF TimerSafe
    <3> QED BY <1>8, <3>2, <3>3, CoverInShort DEF TimerSafe
  <2> QED BY <2>1, <2>2
<1> QED BY <1>4, <1>5, <1>7, <1>8, CoverInShortNext DEF TimerSafe, Writing

LEMMA DeleteKeepsTimers ==
    ASSUME TimerSafe, NEW t \in Timers, TimerDelete(t) PROVE TimerSafe'
<1>4. timers' = [timers EXCEPT ![t] = NoTimer] /\ UNCHANGED loop /\ UNCHANGED now
  BY DEF TimerDelete
<1>5. Writing(<<Ev("timer", t)>>)
  BY TimerWrite, TimerEvents DEF TimerDelete, Changed, TimerSafe
<1>6. NoTimer \in TimerRow /\ ~NoTimer.live
  BY DEF NoTimer, TimerRow, TimerSpecs, Never
<1>1. timers' \in [Timers -> TimerRow] /\ ~timers'[t].live /\ \A u \in Timers : u # t => timers'[u] = timers[u]
  BY <1>4, <1>6 DEF TimerSafe, TimerTypes
<1>7. TimerTypes'
  <2>2. \A u \in Timers : Enabled(u)' => timers'[u].next \in Nat
    BY <1>1 DEF TimerSafe, TimerTypes, Enabled
  <2>3. loop' \in LoopRow /\ loop'.pos <= Len(bus') /\ now' \in Nat
    BY <1>4, <1>5 DEF TimerSafe, TimerTypes, Writing
  <2> QED BY <1>1, <2>2, <2>3 DEF TimerTypes
<1>8. ASSUME NEW u \in Timers, loop.stage = "asleep", Asks(u)' PROVE InTime(u)' \/ TimerAlert(u)'
  <2>1. timers'[u] = timers[u]
    BY <1>1, <1>8 DEF Asks, Enabled
  <2>2. Asks(u) /\ (InTime(u) => InTime(u)')
    BY <1>4, <1>8, <2>1 DEF Asks, InTime, Enabled
  <2>3. TimerAlert(u) => TimerAlert(u)'
    BY <1>4, <1>5, TimerAlertStays DEF TimerSafe
  <2> QED BY <1>8, <2>2, <2>3, CoverInShort DEF TimerSafe
<1> QED BY <1>4, <1>5, <1>7, <1>8, CoverInShortNext DEF TimerSafe, Writing

\* While the loop is awake there is nothing to cover.
LEMMA AwakeLoop == ASSUME loop'.stage # "asleep" PROVE SleepCoversEveryTimer'
BY DEF SleepCoversEveryTimer

\* A step of the loop that reads, and writes nothing.
LEMMA ReadingKeepsTypes ==
    ASSUME TimerSafe, UNCHANGED <<timers, now, store, unpublished, bus>>, loop' \in LoopRow, loop'.pos <= Len(bus)
    PROVE  BusInv' /\ TimerTypes'
BY DEF TimerSafe, BusInv, BusTypeOK, TimerTypes, Enabled

LEMMA ScanKeepsTimers == ASSUME TimerSafe, Scan PROVE TimerSafe'
<1> DEFINE found == {t \in Timers : DueAt(t, now)}
           due == {<<t, timers[t].next>> : t \in found}
           kept == [t \in Timers |-> IF t \in found /\ timers[t].next = loop.failed[t] THEN loop.failed[t] ELSE Never]
<1>1. loop \in LoopRow /\ loop.failed \in [Timers -> Int] /\ timers \in [Timers -> TimerRow] /\ now \in Nat
  BY DEF TimerSafe, TimerTypes, LoopRow
<1>2. due \in SUBSET (Timers \X Int)
  BY <1>1 DEF TimerRow
<1>3. kept \in [Timers -> Int]
  BY <1>1 DEF Never
<1>4. loop' = [loop EXCEPT !.stage = "fire", !.at = now, !.deadline = Never, !.due = due, !.failed = kept]
  BY DEF Scan
<1> HIDE DEF due, kept
<1>5. loop' \in LoopRow /\ loop'.stage = "fire" /\ loop'.pos = loop.pos
  <2>1. Never \in Int
    BY DEF Never
  <2> QED BY <1>1, <1>2, <1>3, <1>4, <2>1 DEF LoopRow
<1>6. loop'.pos <= Len(bus) /\ UNCHANGED <<timers, now, store, unpublished, bus>>
  BY <1>5 DEF TimerSafe, TimerTypes, Scan
<1> QED BY <1>5, <1>6, AwakeLoop, ReadingKeepsTypes DEF TimerSafe

\* With nothing due any more the loop sleeps until the earliest next fire.
LEMMA DeadlineKeepsTimers == ASSUME TimerSafe, NextDeadline PROVE TimerSafe'
<1> DEFINE next == {timers[t].next : t \in {u \in Timers : Enabled(u) /\ timers[u].next # loop.failed[u]}}
<1>1. next \in SUBSET Nat /\ \A t \in Timers : Asks(t) => timers[t].next \in next
  BY DEF TimerSafe, TimerTypes, Asks
<1>2. Earliest = IF next = {} THEN Never ELSE Min(next)
  BY DEF Earliest
<1> HIDE DEF next
<1>3. next # {} => Earliest \in Nat /\ \A n \in next : Earliest <= n
  BY <1>1, <1>2, EarliestExists
<1>4. Earliest \in Int
  BY <1>2, <1>3 DEF Never
<1>5. loop' = [loop EXCEPT !.stage = "asleep", !.deadline = Earliest, !.at = 0]
  BY DEF NextDeadline
<1>6. /\ loop' \in LoopRow /\ loop'.stage = "asleep" /\ loop'.pos = loop.pos /\ loop'.deadline = Earliest
      /\ loop'.failed = loop.failed
  BY <1>4, <1>5 DEF TimerSafe, TimerTypes, LoopRow
<1>7. loop'.pos <= Len(bus) /\ UNCHANGED <<timers, now, store, unpublished, bus>>
  BY <1>6 DEF TimerSafe, TimerTypes, NextDeadline
<1>8. ASSUME NEW t \in Timers, Asks(t)' PROVE InTime(t)'
  <2>1. Asks(t)
    BY <1>6, <1>7, <1>8 DEF Asks, Enabled
  <2>2. timers[t].next \in next /\ timers[t].next \in Nat /\ now \in Nat
    BY <1>1, <2>1 DEF TimerSafe, TimerTypes
  <2>3. Earliest \in Nat /\ Earliest <= timers[t].next
    BY <1>3, <2>2
  <2>4. Earliest # Never /\ Earliest <= (IF timers[t].next > now THEN timers[t].next ELSE now + 1)
    BY <2>2, <2>3 DEF Never
  <2> QED BY <1>6, <1>7, <2>4 DEF InTime
<1> QED BY <1>6, <1>7, <1>8, ReadingKeepsTypes, CoverInShortNext DEF TimerSafe

LEMMA ScanFailsKeepsTimers == ASSUME TimerSafe, ScanFails PROVE TimerSafe'
<1>1. /\ now \in Nat /\ loop' = [loop EXCEPT !.stage = "asleep", !.deadline = now + 1]
      /\ UNCHANGED <<timers, now, store, unpublished, bus>>
  BY DEF ScanFails, TimerSafe, TimerTypes
<1>2. loop' \in LoopRow /\ loop'.stage = "asleep" /\ loop'.pos = loop.pos /\ loop'.deadline = now + 1
  <2> DEFINE later == now + 1
  <2>1. loop \in LoopRow /\ later \in Int /\ loop' = [loop EXCEPT !.stage = "asleep", !.deadline = later]
    BY <1>1 DEF TimerSafe, TimerTypes
  <2> HIDE DEF later
  <2>2. loop' \in LoopRow /\ loop'.stage = "asleep" /\ loop'.pos = loop.pos /\ loop'.deadline = later
    BY <2>1 DEF LoopRow
  <2> QED BY <2>2 DEF later
<1>3. loop'.pos <= Len(bus)
  BY <1>2 DEF TimerSafe, TimerTypes
<1>4. ASSUME NEW t \in Timers PROVE InTime(t)'
  <2>1. timers[t].next \in Int
    BY DEF TimerSafe, TimerTypes, TimerRow
  <2>2. now + 1 # Never /\ now + 1 <= (IF timers[t].next > now THEN timers[t].next ELSE now + 1)
    BY <1>1, <2>1 DEF Never
  <2> QED BY <1>1, <1>2, <2>2 DEF InTime
<1> QED BY <1>1, <1>2, <1>3, <1>4, ReadingKeepsTypes, CoverInShortNext DEF TimerSafe

LEMMA FireKeepsTimers == ASSUME TimerSafe, NEW d \in loop.due, Fire(d) PROVE TimerSafe'
<1>1. loop \in LoopRow /\ timers \in [Timers -> TimerRow] /\ now \in Nat /\ loop.pos <= Len(bus)
  BY DEF TimerSafe, TimerTypes
<1>2. d[1] \in Timers /\ d[2] \in Int /\ loop.at \in Nat /\ loop.due \in SUBSET (Timers \X Int) /\ loop.pos \in Nat
  BY <1>1 DEF LoopRow
<1> DEFINE t == d[1]
           next == IF store.active THEN NextFire(timers[t].spec, d[2], loop.at) ELSE Never
<1>3. next \in Nat \cup {Never} /\ next \in Int
  <2>1. timers[t].spec \in TimerSpecs
    BY <1>1, <1>2 DEF TimerRow
  <2>2. NextFire(timers[t].spec, d[2], loop.at) \in Nat \cup {Never}
    BY <1>2, <2>1, NextIsAnInstant
  <2> QED BY <2>2 DEF Never
<1>4. timers' = timers \/ timers' = [timers EXCEPT ![t].next = next, ![t].enabled = (next # Never)]
  BY DEF Fire, Fired, FireTime
<1> DEFINE on == (next # Never)
<1>o. on \in BOOLEAN
  OBVIOUS
<1> HIDE DEF t, next
<1>5. timers' \in [Timers -> TimerRow] /\ \A u \in Timers : Enabled(u)' => timers'[u].next \in Nat
  <2>1. CASE timers' = timers
    BY <1>1, <2>1 DEF TimerSafe, TimerTypes, Enabled
  <2>2. CASE timers' = [timers EXCEPT ![t].next = next, ![t].enabled = (next # Never)]
    <3> DEFINE row == [timers[t] EXCEPT !.next = next, !.enabled = on]
    <3>1. t \in Timers /\ timers[t] \in TimerRow
      BY <1>1, <1>2 DEF t
    <3>2. timers' = [timers EXCEPT ![t] = row]
      BY <1>1, <2>2, <3>1
    <3> HIDE DEF on
    <3>3. row \in TimerRow /\ row.next = next /\ row.enabled = on
      BY <1>3, <1>o, <3>1 DEF TimerRow
    <3> HIDE DEF row
    <3>4. timers' \in [Timers -> TimerRow] /\ timers'[t] = row /\ \A u \in Timers : u # t => timers'[u] = timers[u]
      BY <1>1, <3>1, <3>2, <3>3
    <3> QED BY <1>3, <3>3, <3>4 DEF on, TimerSafe, TimerTypes, Enabled
  <2> QED BY <1>4, <2>1, <2>2
<1>6. loop' \in LoopRow /\ loop'.stage = "fire" /\ loop'.pos = loop.pos
  BY <1>1, <1>2 DEF Fire, LoopRow
<1>7. \E events : Writing(events)
  <2>1. \E events \in {<<>> \o <<Ev("timer", d[1])>>, <<Ev("work", NoChannel)>> \o <<Ev("timer", d[1])>>} : Commit(store, events)
    BY DEF Fire
  <2>2. <<Ev("timer", d[1])>> \in Seq(Event) /\ <<Ev("work", NoChannel)>> \in Seq(Event) /\ <<>> \in Seq(Event)
    BY <1>2, EventTypes, TimerEvents
  <2>c. \A a, b \in Seq(Event) : a \o b \in Seq(Event)
    OBVIOUS
  <2>3. \E events \in Seq(Event) : Commit(store, events)
    BY <2>1, <2>2, <2>c, Zenon
  <2> QED BY <2>3, TimerWrite DEF TimerSafe
<1>8. BusInv' /\ TimerTypes'
  BY <1>1, <1>5, <1>6, <1>7 DEF Fire, TimerTypes, Writing
<1> QED BY <1>6, <1>8, AwakeLoop DEF TimerSafe

LEMMA SkipKeepsTimers == ASSUME TimerSafe, NEW d \in loop.due, FireFails(d) \/ SkipFailed(d) PROVE TimerSafe'
<1>1. loop \in LoopRow /\ loop.pos <= Len(bus) /\ d[1] \in Timers /\ d[2] \in Int
  BY DEF TimerSafe, TimerTypes, LoopRow
<1> DEFINE less == loop.due \ {d}   failed == [loop.failed EXCEPT ![d[1]] = d[2]]
<1>2. less \in SUBSET (Timers \X Int) /\ failed \in [Timers -> Int]
  BY <1>1 DEF LoopRow
<1>3. loop' = [loop EXCEPT !.due = less, !.failed = failed] \/ loop' = [loop EXCEPT !.due = less]
  BY <1>1 DEF FireFails, SkipFailed, LoopRow
<1> HIDE DEF less, failed
<1>4. loop' \in LoopRow /\ loop'.stage = loop.stage /\ loop'.pos = loop.pos
  BY <1>1, <1>2, <1>3 DEF LoopRow
<1>5. loop.stage = "fire" /\ UNCHANGED <<timers, now, store, unpublished, bus>>
  BY DEF FireFails, SkipFailed
<1> QED BY <1>1, <1>4, <1>5, AwakeLoop, ReadingKeepsTypes DEF TimerSafe

LEMMA WakeKeepsTimers == ASSUME TimerSafe, WakeAtDeadline PROVE TimerSafe'
<1>1. loop' \in LoopRow /\ loop'.stage = "scan" /\ loop'.pos = loop.pos
  BY DEF TimerSafe, TimerTypes, LoopRow, WakeAtDeadline
<1>2. loop'.pos <= Len(bus) /\ UNCHANGED <<timers, now, store, unpublished, bus>>
  BY <1>1 DEF TimerSafe, TimerTypes, WakeAtDeadline
<1> QED BY <1>1, <1>2, AwakeLoop, ReadingKeepsTypes DEF TimerSafe

\* The loop takes one event from the bus: a change of a timer and a lag wake it, another event is no change of
\* any timer and is passed over.
LEMMA BusWakeKeepsTimers == ASSUME TimerSafe, WakeOnBus PROVE TimerSafe'
<1>1. /\ loop \in LoopRow /\ loop.pos \in Nat /\ loop.failed \in [Timers -> Int]
      /\ bus \in Seq(Event) /\ Len(bus) \in Nat /\ loop.pos < Len(bus)
  BY DEF TimerSafe, TimerTypes, LoopRow, BusInv, BusTypeOK, WakeOnBus, Waiting
<1> DEFINE e == NextEvent(loop.pos)   at == loop.pos + 1
           failed == [loop.failed EXCEPT ![e.on] = Never]
<1>2. at \in Nat /\ at <= Len(bus) /\ e = bus[at]
  BY <1>1 DEF NextEvent
<1>3. failed \in [Timers -> Int]
  <2>1. Never \in Int
    BY DEF Never
  <2>2. \A x : [loop.failed EXCEPT ![x] = Never] \in [Timers -> Int]
    BY <1>1, <2>1
  <2> QED BY <2>2
<1>4. UNCHANGED <<timers, now, store, unpublished, bus>>
  BY DEF WakeOnBus
<1>5. CASE Lagged(loop.pos)
  <2>1. Oldest \in Nat /\ Oldest <= Len(bus)
    BY <1>1, <1>5, BusAssumption DEF Lagged, Oldest
  <2>2. loop' = [loop EXCEPT !.pos = Oldest, !.stage = "scan"]
    BY <1>5 DEF WakeOnBus
  <2>3. loop' \in LoopRow /\ loop'.stage = "scan" /\ loop'.pos = Oldest
    BY <1>1, <2>1, <2>2 DEF LoopRow
  <2> QED BY <1>4, <2>1, <2>3, AwakeLoop, ReadingKeepsTypes DEF TimerSafe
<1>6. CASE ~Lagged(loop.pos) /\ e.kind = "timer"
  <2>1. loop' = [loop EXCEPT !.pos = at, !.stage = "scan", !.failed = failed]
    BY <1>1, <1>6 DEF WakeOnBus, LoopRow
  <2> HIDE DEF at, failed
  <2>2. loop' \in LoopRow /\ loop'.stage = "scan" /\ loop'.pos = at
    BY <1>1, <1>2, <1>3, <2>1 DEF LoopRow
  <2> QED BY <1>2, <1>4, <2>2, AwakeLoop, ReadingKeepsTypes DEF TimerSafe
<1>7. CASE ~Lagged(loop.pos) /\ e.kind # "timer"
  <2>1. loop' = [loop EXCEPT !.pos = at]
    BY <1>7 DEF WakeOnBus
  <2>2. /\ loop' \in LoopRow /\ loop'.stage = loop.stage /\ loop'.pos = at /\ loop'.deadline = loop.deadline
        /\ loop'.failed = loop.failed
    <3> HIDE DEF at
    <3> QED BY <1>1, <1>2, <2>1 DEF LoopRow
  <2>3. \A t \in Timers : TimerAlert(t) => TimerAlert(t)'
    <3> SUFFICES ASSUME NEW t \in Timers, TimerAlert(t) PROVE Ev("timer", t) \in AheadOf(at)
      BY <1>4, <2>2 DEF TimerAlert, AheadOf, Ev
    <3>1. Ev("timer", t) \in AheadOf(loop.pos)
      BY <1>7 DEF TimerAlert
    <3>2. bus[at] # Ev("timer", t)
      BY <1>2, <1>7 DEF Ev
    <3>3. CASE \E i \in (loop.pos + 1)..Len(bus) : Ev("timer", t) = bus[i]
      <4>1. PICK i \in (loop.pos + 1)..Len(bus) : Ev("timer", t) = bus[i]
        BY <3>3
      <4>2. i \in (at + 1)..Len(bus)
        BY <1>1, <3>2, <4>1
      <4> QED BY <4>1, <4>2 DEF AheadOf
    <3> QED BY <3>1, <3>3 DEF AheadOf
  <2>4. \A t \in Timers : (Asks(t)' <=> Asks(t)) /\ (InTime(t)' <=> InTime(t))
    BY <1>4, <2>2 DEF Asks, InTime, Enabled
  <2>5. BusInv' /\ TimerTypes'
    BY <1>2, <1>4, <2>2, ReadingKeepsTypes
  <2> QED BY <2>2, <2>3, <2>4, <2>5, CoverInShort, CoverInShortNext DEF TimerSafe
<1> QED BY <1>5, <1>6, <1>7

LEMMA TickKeepsTimers == ASSUME TimerSafe, Tick PROVE TimerSafe'
<1>1. now \in Nat /\ now' = now + 1 /\ UNCHANGED <<timers, loop, store, unpublished, bus>>
  BY DEF TimerSafe, TimerTypes, Tick
<1>2. BusInv' /\ TimerTypes'
  BY <1>1 DEF TimerSafe, BusInv, BusTypeOK, TimerTypes, Enabled
<1>3. \A t \in Timers : (Asks(t)' <=> Asks(t)) /\ (TimerAlert(t)' <=> TimerAlert(t))
  BY <1>1 DEF Asks, Enabled, TimerAlert, AheadOf, Lagged
<1>4. ASSUME NEW t \in Timers, InTime(t) PROVE InTime(t)'
  <2>1. timers[t].next \in Int /\ loop.deadline \in Int
    BY DEF TimerSafe, TimerTypes, TimerRow, LoopRow
  <2> QED BY <1>1, <1>4, <2>1 DEF InTime
<1> QED BY <1>1, <1>2, <1>3, <1>4, CoverInShort, CoverInShortNext DEF TimerSafe

LEMMA TimerInitially == BusInit /\ TimerInit => TimerSafe
<1> SUFFICES ASSUME BusInit, TimerInit PROVE TimerSafe
  OBVIOUS
<1>1. BusInv /\ bus = <<>>
  BY BusInitially DEF BusInit
<1>2. NoTimer \in TimerRow /\ ~NoTimer.live
  BY DEF NoTimer, TimerRow, TimerSpecs, Never
<1>3. [t \in Timers |-> Never] \in [Timers -> Int] /\ Never \in Int
  BY DEF Never
<1>4. NoLoop \in LoopRow /\ NoLoop.stage = "scan" /\ NoLoop.pos = 0
  BY <1>3 DEF NoLoop, LoopRow
<1>5. TimerTypes /\ loop.stage = "scan"
  BY <1>1, <1>2, <1>4 DEF TimerInit, TimerTypes, Enabled
<1> QED BY <1>1, <1>5 DEF TimerSafe, SleepCoversEveryTimer

LEMMA TimerIdle == ASSUME TimerSafe, UNCHANGED <<busVars, timerVars>> PROVE TimerSafe'
<1>1. UNCHANGED <<timers, loop, now, store, unpublished, bus>>
  BY DEF busVars, timerVars
<1>2. loop \in LoopRow /\ loop.pos <= Len(bus)
  BY DEF TimerSafe, TimerTypes
<1>3. BusInv' /\ TimerTypes'
  BY <1>1, <1>2, ReadingKeepsTypes
<1>4. \A t \in Timers : (Asks(t)' <=> Asks(t)) /\ (InTime(t)' <=> InTime(t)) /\ (TimerAlert(t)' <=> TimerAlert(t))
  BY <1>1 DEF Asks, InTime, Enabled, TimerAlert, AheadOf, Lagged
<1> QED BY <1>1, <1>3, <1>4, CoverInShort, CoverInShortNext DEF TimerSafe

LEMMA TimerSafeStep == TimerSafe /\ [TimerNext]_<<busVars, timerVars>> => TimerSafe'
<1> SUFFICES ASSUME TimerSafe, [TimerNext]_<<busVars, timerVars>> PROVE TimerSafe'
  OBVIOUS
<1>1. CASE UNCHANGED <<busVars, timerVars>>
  BY <1>1, TimerIdle
<1>2. CASE (Revoke \/ Unrelated \/ Publish) /\ UNCHANGED timerVars
  BY <1>2, OthersKeepTimers
<1>3. CASE Tick
  BY <1>3, TickKeepsTimers
<1>4. CASE \E t \in Timers : TimerDelete(t) \/ \E spec \in Specs : TimerCreate(t, spec)
  BY <1>4, DeleteKeepsTimers, CreateKeepsTimers
<1>5. CASE LoopStep
  BY <1>5, ScanKeepsTimers, ScanFailsKeepsTimers, DeadlineKeepsTimers, WakeKeepsTimers, BusWakeKeepsTimers,
     FireKeepsTimers, SkipKeepsTimers DEF LoopStep
<1> QED BY <1>1, <1>2, <1>3, <1>4, <1>5 DEF TimerNext, TimerStep

\* However timers are created, deleted, fired or fail, whatever the capacity of the bus and whoever else writes:
\* while the timer loop sleeps it is due to wake for every timer (`next_deadline`, `wait`).
THEOREM NoTimerIsForgotten == TimerSpec => []SleepCoversEveryTimer
<1>1. TimerSafe => SleepCoversEveryTimer
  BY DEF TimerSafe
<1> QED BY <1>1, TimerInitially, TimerSafeStep, PTL DEF TimerSpec
=============================================================================
