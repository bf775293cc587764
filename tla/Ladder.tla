------------------------------- MODULE Ladder -------------------------------
(***************************************************************************)
(* The delivery ladder of one MCP session: which rungs a harness has, which    *)
(* are armed by a fresh heartbeat, when the next one fires for a message that  *)
(* is not acked, and the bucket that limits the pushes.  The tracker delivers  *)
(* nothing but the push: it records which rung's turn it is.  One unit of time *)
(* is 15 s, the shorter patience.                                              *)
(***************************************************************************)
EXTENDS Integers, Sequences, FiniteSets, FiniteSetsExt, SequencesExt

CONSTANTS
    Letters,  \* messages of the inbox
    Beating,  \* rungs whose processes run in this instance
    EndTime,  \* bound: the clock
    MaxBeats, \* bound: heartbeats
    Burst, Refill  \* the bucket: its size, and the time of one token

ASSUME LadderAssumption == EndTime \in Nat /\ Burst \in Nat \ {0} /\ Refill \in Nat \ {0}

VARIABLES
    clock,    \* wall time
    host,     \* the harness and how far its session is initialised
    beats,    \* rungs installed (capabilities.json), and the last heartbeat of each
    track,    \* the tracker: its ladder and an entry per message
    bucket,   \* tokens and the time they were last credited
    hist      \* which rungs each message really had, whether a tick came last

ladderVars == <<clock, host, beats, track, bucket, hist>>

NoBeat == -1
WakesIdle(m) == m \in {"push", "mod", "rewake", "owned"}
Patience(m)  == IF WakesIdle(m) THEN 1 ELSE 4
ArmedWindow(m) == CASE m = "mod" -> 4 [] m = "rewake" -> 8 [] m = "owned" -> 6
                    [] m \in {"stop", "inject"} -> 120 [] OTHER -> 0
SeenWindow == 40320
Rungs == {"push", "mod", "rewake", "owned", "stop", "inject", "wait"}

Fresh(t, window) == t # NoBeat /\ clock - t <= window
Armed == {m \in Rungs : ArmedWindow(m) > 0 /\ Fresh(beats.last[m], ArmedWindow(m))}
Seen  == {m \in Rungs : Fresh(beats.last[m], SeenWindow)}
\* `ladder_for_caps`: installed or seen; push by its flag, an owned session while armed.
OnLadder(m, on) ==
    \/ (m = "push" /\ on) \/ (m = "owned" /\ m \in Armed)
    \/ m \in {"mod", "rewake", "stop", "inject"} /\ m \in beats.installed \cup Seen
IfOn(m, on) == IF OnLadder(m, on) THEN <<m>> ELSE <<>>
\* The rungs a harness has, in the order they are tried.
LadderOf(harness, on) ==
    LET hooks == IfOn("stop", on) \o IfOn("inject", on) \o <<"wait">>
    IN  CASE harness = "claude" -> IfOn("push", on) \o IfOn("mod", on) \o IfOn("rewake", on) \o hooks
          [] harness = "codex"  -> IfOn("owned", on) \o hooks
          [] harness = "cursor" -> hooks
          [] OTHER              -> <<"wait">>
LadderNow(on) == LadderOf(host.harness, on)
PushEnabled == host.stage = "ready" /\ host.harness = "claude"

-----------------------------------------------------------------------------
(* The tracker.                                                                *)

Tracked == {x \in Letters : track.entry[x].state = "tracked"}
InPrefix(s, n) == ToSet(SubSeq(s, 1, Min({n, Len(s)})))

\* Faulty: the number of rungs tried is kept over a change of the ladder.
StillTriedCount(old, new, n) == Min({n, Len(new)})
\* The rungs of the new ladder, from its first, that were tried on the old one.
StillTried(old, new, n) == Max({k \in 0..Len(new) : \A j \in 1..k : new[j] \in InPrefix(old, n)})

Reconfigured(t, new) ==
    IF new = t.ladder THEN t
    ELSE [ladder |-> new,
          entry  |-> [x \in Letters |-> [t.entry[x] EXCEPT !.tried = StillTried(t.ladder, new, @), !.spent = FALSE]]]

\* A push, the wait tool and an armed rung are given their patience; others are passed at once.
Waits(m) == m \in {"push", "wait"} \cup Armed
Due(ladder, e) == e.tried = 0 \/ clock >= e.last + Patience(ladder[e.tried])
\* `tick_with` of one message: the rungs from the next one to the first that waits.
FiredTo(ladder, e) ==
    IF e.tried >= Len(ladder) \/ ~Due(ladder, e) THEN e.tried
    ELSE Min({k \in e.tried + 1..Len(ladder) : Waits(ladder[k])} \cup {Len(ladder)})
Ticked(ladder, e) ==
    LET k == FiredTo(ladder, e)
    IN  [e EXCEPT !.tried = k, !.last = IF k > e.tried THEN clock ELSE @, !.spent = @ \/ k >= Len(ladder)]

\* Faulty: a message no rung was tried for is not due.
NextDueOfTried(e) ==
    IF e.spent \/ e.tried = 0 \/ e.tried >= Len(track.ladder) THEN {} ELSE {e.last + Patience(track.ladder[e.tried])}
\* `next_due`: when the loop wakes for a message.
NextDue(e) ==
    IF e.spent \/ e.tried >= Len(track.ladder) THEN {}
    ELSE IF e.tried = 0 THEN {0} ELSE {e.last + Patience(track.ladder[e.tried])}

\* The loop wakes, reads files and harness, changes the ladder if it must, and fires.
LadderTick ==
    /\ \E x \in Tracked : \E d \in NextDue(track.entry[x]) : d <= clock
    /\ \E t \in {Reconfigured(track, LadderNow(PushEnabled))} :
       /\ track' = [t EXCEPT !.entry = [x \in Letters |-> IF x \in Tracked THEN Ticked(t.ladder, t.entry[x]) ELSE t.entry[x]]]
       /\ hist' = [hist EXCEPT !.synced = TRUE, !.had = [x \in Letters |->
            IF x \notin Tracked THEN @[x]
            ELSE @[x] \cup {t.ladder[k] : k \in t.entry[x].tried + 1..FiredTo(t.ladder, t.entry[x])}]]
    /\ UNCHANGED <<clock, host, beats, bucket>>

\* `on_seen`, of a fetched message, queued when the push is on; an ack removes it.
OnSeen(x) ==
    /\ track.entry[x].state = "new"
    /\ track' = [track EXCEPT !.entry[x].state = "tracked", !.entry[x].queued = PushEnabled]
    /\ hist' = [hist EXCEPT !.synced = FALSE] /\ UNCHANGED <<clock, host, beats, bucket>>
OnAcked(x) ==
    /\ x \in Tracked
    /\ track' = [track EXCEPT !.entry[x].state = "acked"]
    /\ UNCHANGED <<clock, host, beats, bucket, hist>>

-----------------------------------------------------------------------------
(* The push and its bucket.                                                     *)

\* Whole periods are credited and the rest of one is carried; a full bucket saves no time.
Credited(b) ==
    LET tokens == Min({Burst, b.tokens + (clock - b.stamp) \div Refill})
    IN  [tokens |-> tokens,
         stamp  |-> IF tokens = Burst THEN clock ELSE b.stamp + (tokens - b.tokens) * Refill]

\* One notification of everything queued, when the bucket has a token; `on_pushed` of each.
Queued == {x \in Tracked : track.entry[x].queued}
SendNotification ==
    /\ Queued # {}
    /\ LET b == Credited(bucket) IN b.tokens > 0 /\ bucket' = [b EXCEPT !.tokens = @ - 1]
    /\ track' = [track EXCEPT !.entry = [x \in Letters |->
          LET e == track.entry[x]
          IN  IF x \in Queued THEN [e EXCEPT !.queued = FALSE, !.tried = Max({e.tried, 1}), !.last = clock] ELSE e]]
    /\ hist' = [hist EXCEPT !.synced = FALSE,
                            !.had = [x \in Letters |-> IF x \in Queued THEN @[x] \cup {"push"} ELSE @[x]]]
    /\ UNCHANGED <<clock, host, beats>>

-----------------------------------------------------------------------------
\* `initialize` sets a ladder with the push the client can have; `initialized` enables it.
InitializeSession(harness) ==
    /\ host.stage = "new"
    /\ host' = [stage |-> "init", harness |-> harness]
    /\ track' = Reconfigured(track, LadderOf(harness, harness = "claude"))
    /\ UNCHANGED <<clock, beats, bucket, hist>>
SessionReady ==
    /\ host.stage = "init" /\ host' = [host EXCEPT !.stage = "ready"]
    /\ UNCHANGED <<clock, beats, track, bucket, hist>>

\* A hook, the mod or the bridge writes its heartbeat file.
Beat(m) ==
    /\ m \in Beating /\ beats.last[m] # clock /\ beats.count < MaxBeats
    /\ beats' = [beats EXCEPT !.last[m] = clock, !.count = @ + 1]
    /\ UNCHANGED <<clock, host, track, bucket, hist>>
TimePasses ==
    /\ clock < EndTime /\ clock' = clock + 1
    /\ UNCHANGED <<host, beats, track, bucket, hist>>

LadderEvent ==
    \/ SessionReady \/ (\E x \in Letters : OnSeen(x) \/ OnAcked(x)) \/ SendNotification
    \/ (\E h \in {"claude", "codex"} : InitializeSession(h)) \/ (\E m \in Rungs : Beat(m))

LadderInit ==
    /\ clock = 0 /\ host = [stage |-> "new", harness |-> "unknown"]
    /\ \E S \in {{}, Beating} : beats = [installed |-> S, count |-> 0, last |-> [m \in Rungs |-> NoBeat]]
    /\ track = [ladder |-> <<"wait">>, entry |-> [x \in Letters |-> [state |-> "new", queued |-> FALSE, tried |-> 0, last |-> 0, spent |-> FALSE]]]
    /\ bucket = [tokens |-> Burst, stamp |-> 0]
    /\ hist = [had |-> [x \in Letters |-> {}], synced |-> FALSE]

LadderSpec == LadderInit /\ [][LadderTick \/ LadderEvent \/ TimePasses]_ladderVars

-----------------------------------------------------------------------------
\* After a tick every rung counted as tried for a message was its turn once: a ladder that
\* changed under it (a heartbeat seen or gone stale, a session made ready) skips none.
NoRungIsSkipped ==
    hist.synced => \A x \in Tracked : InPrefix(track.ladder, track.entry[x].tried) \subseteq hist.had[x]

\* A message not acked climbs to the end of its ladder, or waits for a time still to come.
EveryMessageEscalates ==
    \A x \in Letters : x \in Tracked ~>
        (\/ x \notin Tracked \/ track.entry[x].tried >= Len(track.ladder)
         \/ track.entry[x].tried > 0 /\ track.entry[x].last + Patience(track.ladder[track.entry[x].tried]) > EndTime)

=============================================================================
