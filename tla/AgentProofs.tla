---------------------------- MODULE AgentProofs ----------------------------
(***************************************************************************)
(* Proofs about what reaches an agent: the rungs that share a session's cursor, *)
(* for any hook processes, messages, resets and caps, the ladder of rungs that *)
(* each message climbs, for any messages, heartbeats and times, and the files  *)
(* that set the agent's client up, for any clients, commands and failures.     *)
(***************************************************************************)
EXTENDS Sessions, Ladder, Install, FiniteSetTheorems, WellFoundedInduction, TLAPS

-----------------------------------------------------------------------------
(* Sets of message numbers.                                                    *)

LEMMA LeastExists ==
    ASSUME NEW S \in SUBSET Nat, S # {} PROVE Min(S) \in S /\ \A n \in S : Min(S) <= n
<1> DEFINE R == OpToRel(<, Nat)
<1>1. IsWellFoundedOn(R, Nat)
  BY NatLessThanWellFounded
<1>2. \A x, y \in Nat : x < y => <<x, y>> \in R
  BY DEF OpToRel
<1> HIDE DEF R
<1>3. \E x \in S : \A y \in S : ~(<<y, x>> \in R)
  BY <1>1, WFMin
<1>4. \E x \in S : \A y \in S : x <= y
  <2>1. PICK x \in S : \A y \in S : ~(<<y, x>> \in R)
    BY <1>3
  <2>2. ASSUME NEW y \in S PROVE x <= y
    <3>1. x \in Nat /\ y \in Nat /\ ~(y < x)
      BY <1>2, <2>1
    <3> QED BY <3>1
  <2> QED BY <2>2
<1> QED BY <1>4 DEF Min

\* A set of numbers with a bound has a greatest.
LEMMA GreatestExists ==
    ASSUME NEW b \in Nat, NEW S \in SUBSET (0 .. b), S # {} PROVE Max(S) \in S /\ \A n \in S : n <= Max(S)
<1> DEFINE T == {b - n : n \in S}
<1>1. T \in SUBSET Nat /\ T # {}
  <2>1. \A n \in S : b - n \in Nat
    OBVIOUS
  <2> QED BY <2>1
<1>2. PICK least \in T : \A t \in T : least <= t
  BY <1>1, LeastExists
<1>3. PICK x \in S : least = b - x
  OBVIOUS
<1>4. \A n \in S : x >= n
  BY <1>2, <1>3
<1> QED BY <1>3, <1>4 DEF Max

LEMMA MaxOfTwo == ASSUME NEW a \in Nat, NEW b \in Nat PROVE Max({a, b}) = IF a < b THEN b ELSE a
<1>1. {a, b} \in SUBSET (0 .. (a + b)) /\ {a, b} # {} /\ a + b \in Nat
  OBVIOUS
<1>2. Max({a, b}) \in {a, b} /\ \A n \in {a, b} : n <= Max({a, b})
  BY <1>1, GreatestExists
<1> QED BY <1>2

-----------------------------------------------------------------------------
(* Sessions: types.                                                            *)

MailRow  == [channel : Seq({"own", "other"}), joined : BOOLEAN, acked : [{"own", "other"} -> Nat]]
FileRow  == [cursor : Nat, blocks : Nat, owner : Runs \cup {"nobody"}, lock : Runs \cup {Free}]
HookRow  == [kind : HookKinds \cup {"none"}, stage : {"idle", "lock", "fetch", "decide", "own", "round", "polled", "over"},
             got : SUBSET Seqs]
LinkRow  == [linked : BOOLEAN, before : BOOLEAN, dirty : BOOLEAN, seen : Nat, pending : SUBSET Seqs, floor : Nat, mark : Nat]
PumpRow  == [stage : {"poll", "offer", "offered", "commit"}, got : SUBSET Seqs, refusals : Nat, last : Nat]
AgentRow == [shown : SUBSET Seqs, times : [Seqs -> Nat], read : Nat, skipped : SUBSET Seqs, late : SUBSET Seqs, resets : Nat]

MailOK == mail \in MailRow /\ Len(mail.channel) <= MaxSeq
PumpOK == pump \in PumpRow /\ (pump.stage \in {"offered", "commit"} => pump.got # {})
AgentOK == agent \in AgentRow /\ (~mail.joined => agent.late = {})
SessionTypes ==
    MailOK /\ file \in FileRow /\ hook \in [Runs -> HookRow] /\ push \in LinkRow /\ PumpOK /\ AgentOK

\* What a hook has shown in this context is behind the cursor.
ShownOnce == \A m \in Seqs : agent.times[m] <= 1 /\ (agent.times[m] > 0 => m <= file.cursor)

\* Shown, or excused.
Accounted(m) == m \in agent.shown \cup Excused
NoGap(got) == \A m \in Posted, g \in got : m < g => m \in got \/ Accounted(m)

\* No rung runs ahead of the messages.
WithinMail ==
    /\ file.cursor <= Len(mail.channel) /\ agent.read <= Len(mail.channel)
    /\ \A r \in Runs : hook[r].got \subseteq Posted
    /\ pump.got \subseteq Posted

\* What the agent read by itself, and what a rung holds, leave nothing out; what the pump is about to pass
\* is accounted for.
ReadIsAll   == \A m \in Posted : m <= agent.read => Accounted(m)
HeldIsAll   == NoGap(pump.got) /\ \A r \in Runs : NoGap(hook[r].got)
CommitIsAll == pump.stage = "commit" => \A g \in pump.got : Accounted(g)

PullInv == WithinMail /\ MarkHidesNothing /\ ReadIsAll /\ HeldIsAll /\ CommitIsAll

LEMMA MailFacts ==
    ASSUME MailOK
    PROVE  /\ Len(mail.channel) \in Nat /\ Posted = 1 .. Len(mail.channel) /\ Posted \subseteq Seqs
           /\ \A c : Above(Unacked, c) \subseteq Posted
           /\ \A m \in Posted : mail.channel[m] \in {"own", "other"}
<1>1. mail.channel \in Seq({"own", "other"}) /\ MaxSeq \in Nat
  BY SessionAssumption DEF MailOK, MailRow
<1>2. Len(mail.channel) \in Nat /\ Posted = 1 .. Len(mail.channel) /\ \A m \in Posted : mail.channel[m] \in {"own", "other"}
  BY <1>1 DEF Posted
<1>3. Posted \subseteq Seqs
  BY <1>1, <1>2 DEF Seqs, MailOK
<1>4. \A c : Above(Unacked, c) \subseteq Posted
  BY DEF Above, Unacked
<1> QED BY <1>2, <1>3, <1>4

\* What `Max` and `Highest` are of the messages shown.
LEMMA PageMax ==
    ASSUME NEW page \in SUBSET Seqs
    PROVE  /\ Highest(page) \in Nat /\ \A m \in page : m <= Highest(page)
           /\ Highest(page) \in page \cup {0}
           /\ page # {} => Max(page) \in page /\ Max(page) \in Nat /\ \A m \in page : m <= Max(page)
<1>1. MaxSeq \in Nat /\ page \in SUBSET (0 .. MaxSeq) /\ page \cup {0} \in SUBSET (0 .. MaxSeq) /\ page \cup {0} # {}
  BY SessionAssumption DEF Seqs
<1>2. Max(page \cup {0}) \in page \cup {0} /\ \A n \in page \cup {0} : n <= Max(page \cup {0})
  BY <1>1, GreatestExists
<1>3. page # {} => Max(page) \in page /\ \A n \in page : n <= Max(page)
  BY <1>1, GreatestExists
<1>4. \A n \in page \cup {0} : n \in Nat
  BY <1>1
<1>5. Highest(page) \in page \cup {0} /\ \A n \in page \cup {0} : n <= Highest(page)
  BY <1>2 DEF Highest
<1>6. page # {} => Max(page) \in page /\ Max(page) \in Nat /\ \A n \in page : n <= Max(page)
  BY <1>3, <1>4
<1>7. Highest(page) \in Nat
  BY <1>4, <1>5
<1> QED BY <1>5, <1>6, <1>7, Zenon

LEMMA PrefixFacts ==
    ASSUME NEW S, NEW page \in SeqPrefixes(S)
    PROVE  page \subseteq S /\ page # {} /\ \A p \in page, m \in S : m < p => m \in page
BY DEF SeqPrefixes

\* A hook writes its own row.
LEMMA HookWrite ==
    ASSUME hook \in [Runs -> HookRow], NEW r \in Runs, NEW row \in HookRow, hook' = [hook EXCEPT ![r] = row]
    PROVE  /\ hook' \in [Runs -> HookRow] /\ hook'[r] = row /\ \A q \in Runs : q # r => hook'[q] = hook[q]
OBVIOUS

LEMMA RestRows == Over \in HookRow /\ Idle \in HookRow
BY DEF Over, Idle, HookRow

\* Most steps of a hook only move it on, or fetch, or let go of the lock.
HookQuietly(r) ==
    /\ UNCHANGED <<mail, push, pump, agent>> /\ file' \in FileRow /\ file'.cursor = file.cursor
    /\ \E row \in HookRow : /\ hook' = [hook EXCEPT ![r] = row]
                             /\ row.got \in {hook[r].got, {}, Above(Unacked, file.cursor)}

LEMMA FetchedIsTyped == ASSUME SessionTypes PROVE \A c : Above(Unacked, c) \in SUBSET Seqs
BY MailFacts DEF SessionTypes, AgentOK

LEMMA HookQuietSteps ==
    ASSUME SessionTypes, NEW r \in Runs,
           \/ \E kind \in HookKinds : StartHook(r, kind)
           \/ LockSession(r) \/ FetchLocked(r) \/ SilentWithLock(r) \/ TakeOwnership(r) \/ PollRound(r)
           \/ RefusedWake(r) \/ HookFails(r) \/ (\E again \in BOOLEAN : EmptyRound(r, again))
    PROVE  HookQuietly(r)
<1>1. hook \in [Runs -> HookRow] /\ hook[r] \in HookRow /\ file \in FileRow
  BY DEF SessionTypes, AgentOK
<1> DEFINE got == Above(Unacked, file.cursor)
<1>g. got \in SUBSET Seqs
  BY FetchedIsTyped
<1>o. Over \in HookRow /\ Over.got = {}
  BY DEF Over, HookRow
<1>2. ASSUME Ends(r) PROVE \E row \in HookRow : hook' = [hook EXCEPT ![r] = row] /\ row.got \in {hook[r].got, {}, got}
  BY <1>2, <1>o DEF Ends
<1>3. ASSUME NEW st \in {"fetch", "round"}, hook' = [hook EXCEPT ![r].stage = st]
      PROVE  \E row \in HookRow : hook' = [hook EXCEPT ![r] = row] /\ row.got \in {hook[r].got, {}, got}
  <2> DEFINE row == [hook[r] EXCEPT !.stage = st]
  <2>1. row \in HookRow /\ row.got = hook[r].got
    BY <1>1 DEF HookRow
  <2>2. hook' = [hook EXCEPT ![r] = row]
    BY <1>1, <1>3
  <2> QED BY <2>1, <2>2
<1>4. ASSUME NEW st \in {"decide", "polled"}, hook' = [hook EXCEPT ![r].stage = st, ![r].got = got]
      PROVE  \E row \in HookRow : hook' = [hook EXCEPT ![r] = row] /\ row.got \in {hook[r].got, {}, got}
  <2> HIDE DEF got
  <2> DEFINE row == [hook[r] EXCEPT !.stage = st, !.got = got]
  <2>1. row \in HookRow /\ row.got = got
    BY <1>1, <1>g DEF HookRow
  <2>2. hook' = [hook EXCEPT ![r] = row]
    BY <1>1, <1>4
  <2> QED BY <2>1, <2>2
<1>5. ASSUME NEW kind \in HookKinds, StartHook(r, kind) PROVE HookQuietly(r)
  <2> DEFINE st == CASE kind = "rewake" -> "own" [] kind = "quick" -> "round" [] OTHER -> "lock"
             row == [kind |-> kind, got |-> {}, stage |-> st]
  <2>1. st \in {"own", "round", "lock"}
    OBVIOUS
  <2>2. hook' = [hook EXCEPT ![r] = row]
    BY <1>5 DEF StartHook
  <2> HIDE DEF st
  <2>3. row \in HookRow /\ row.got = {}
    BY <2>1 DEF HookRow
  <2> QED BY <1>1, <1>5, <2>2, <2>3 DEF StartHook, HookQuietly
<1>6. CASE LockSession(r)
  <2> DEFINE n == IF hook[r].kind = "prompt" THEN 0 ELSE file.blocks
  <2>1. n \in Nat
    BY <1>1 DEF FileRow
  <2>2. file' = [file EXCEPT !.lock = r, !.blocks = n]
    BY <1>6 DEF LockSession
  <2> HIDE DEF n
  <2>3. file' \in FileRow /\ file'.cursor = file.cursor
    BY <1>1, <2>1, <2>2 DEF FileRow
  <2> QED BY <1>3, <1>6, <2>3 DEF LockSession, HookQuietly
<1>7. CASE FetchLocked(r)
  BY <1>1, <1>4, <1>7 DEF FetchLocked, HookQuietly
<1>8. CASE SilentWithLock(r)
  <2>1. \E n \in Nat : file' = [[file EXCEPT !.blocks = n] EXCEPT !.lock = Free]
    BY <1>1, <1>8 DEF SilentWithLock, Release, FileRow
  <2>2. file' \in FileRow /\ file'.cursor = file.cursor
    BY <1>1, <2>1 DEF FileRow
  <2> QED BY <1>2, <1>8, <2>2 DEF SilentWithLock, HookQuietly
<1>9. CASE TakeOwnership(r)
  <2>1. file' \in FileRow /\ file'.cursor = file.cursor
    BY <1>1, <1>9 DEF TakeOwnership, FileRow
  <2> QED BY <1>3, <1>9, <2>1 DEF TakeOwnership, HookQuietly
<1>10. CASE PollRound(r)
  BY <1>1, <1>2, <1>4, <1>10 DEF PollRound, HookQuietly
<1>11. CASE RefusedWake(r)
  BY <1>1, <1>2, <1>3, <1>11 DEF RefusedWake, HookQuietly
<1>12. CASE HookFails(r)
  <2>1. file' \in FileRow /\ file'.cursor = file.cursor
    BY <1>1, <1>12 DEF HookFails, Release, FileRow
  <2> QED BY <1>2, <1>12, <2>1 DEF HookFails, HookQuietly
<1>13. ASSUME NEW again \in BOOLEAN, EmptyRound(r, again) PROVE HookQuietly(r)
  BY <1>1, <1>2, <1>3, <1>13 DEF EmptyRound, HookQuietly
<1> QED BY <1>5, <1>6, <1>7, <1>8, <1>9, <1>10, <1>11, <1>12, <1>13

\* Where a hook, the agent's own reading or the pump moves the cursor to.
LEMMA CursorMoves ==
    ASSUME SessionTypes, NEW to \in Nat PROVE Max({file.cursor, to}) \in Nat /\ Max({file.cursor, to}) >= file.cursor
                                              /\ Max({file.cursor, to}) >= to /\ Max({file.cursor, to}) \in {file.cursor, to}
<1>1. file.cursor \in Nat
  BY DEF SessionTypes, AgentOK, FileRow
<1>2. Max({file.cursor, to}) = IF file.cursor < to THEN to ELSE file.cursor
  BY <1>1, MaxOfTwo
<1> QED BY <1>1, <1>2

HookDelivers(r, page) ==
    /\ page \in SeqPrefixes(Above(hook[r].got, file.cursor)) /\ page \in SUBSET Seqs
    /\ UNCHANGED <<mail, push, pump>> /\ hook' = [hook EXCEPT ![r] = Over]
    /\ file' \in FileRow /\ agent' \in AgentRow
    /\ file'.cursor = Max({file.cursor, Highest(page)})
    /\ agent'.shown = agent.shown \cup page /\ agent'.read = agent.read /\ agent'.skipped = agent.skipped
    /\ agent'.late = agent.late
    /\ agent'.times = [m \in Seqs |-> IF m \in page THEN agent.times[m] + 1 ELSE agent.times[m]]

LEMMA DeliverSteps ==
    ASSUME SessionTypes, NEW r \in Runs, NEW page \in SUBSET Seqs, DeliverWithLock(r, page) \/ DeliverWake(r, page)
    PROVE  HookDelivers(r, page)
<1>1. file \in FileRow /\ agent \in AgentRow /\ file.blocks \in Nat /\ agent.times \in [Seqs -> Nat]
      /\ agent.shown \in SUBSET Seqs
  BY DEF SessionTypes, AgentOK, FileRow, AgentRow
<1>2. page \in SeqPrefixes(Above(hook[r].got, file.cursor))
  BY DEF DeliverWithLock, DeliverWake, StillNew
<1> DEFINE to == Max({file.cursor, Highest(page)})
           shown == agent.shown \cup page
           times == [m \in Seqs |-> IF m \in page THEN agent.times[m] + 1 ELSE agent.times[m]]
<1>3. to \in Nat
  BY PageMax, CursorMoves
<1>4. shown \in SUBSET Seqs /\ times \in [Seqs -> Nat]
  BY <1>1
<1>5. \E n \in Nat : file' = [[file EXCEPT !.blocks = n, !.cursor = to] EXCEPT !.lock = Free]
  <2>1. CASE DeliverWithLock(r, page)
    <3> DEFINE n == IF hook[r].kind = "stop" THEN file.blocks + 1 ELSE file.blocks
               f == [file EXCEPT !.blocks = n]
    <3>1. Deliver(r, page, f)
      BY <2>1 DEF DeliverWithLock
    <3>2. n \in Nat
      BY <1>1
    <3> HIDE DEF n
    <3>3. f.cursor = file.cursor
      BY <1>1 DEF FileRow
    <3>4. file' = [[f EXCEPT !.cursor = to] EXCEPT !.lock = Free]
      BY <3>1, <3>3 DEF Deliver, Release, ShownUpto
    <3> HIDE DEF to
    <3>5. [f EXCEPT !.cursor = to] = [file EXCEPT !.blocks = n, !.cursor = to]
      BY <1>1 DEF FileRow
    <3> QED BY <3>2, <3>4, <3>5
  <2>2. CASE DeliverWake(r, page)
    <3>1. file' = [[file EXCEPT !.cursor = to] EXCEPT !.lock = Free]
      BY <2>2 DEF DeliverWake, Deliver, Release, ShownUpto
    <3> HIDE DEF to
    <3>2. [file EXCEPT !.cursor = to] = [file EXCEPT !.blocks = file.blocks, !.cursor = to]
      BY <1>1 DEF FileRow
    <3> QED BY <1>1, <3>1, <3>2
  <2> QED BY <2>1, <2>2
<1>6. agent' = [agent EXCEPT !.shown = shown, !.times = times] /\ UNCHANGED <<mail, push, pump>> /\ hook' = [hook EXCEPT ![r] = Over]
  BY DEF DeliverWithLock, DeliverWake, Deliver, Ends
<1> HIDE DEF to, shown, times
<1>7. file' \in FileRow /\ file'.cursor = to
  BY <1>1, <1>3, <1>5 DEF FileRow
<1>8. agent' \in AgentRow /\ agent'.shown = shown /\ agent'.times = times /\ agent'.read = agent.read
      /\ agent'.skipped = agent.skipped /\ agent'.late = agent.late
  BY <1>1, <1>4, <1>6 DEF AgentRow
<1> QED BY <1>2, <1>6, <1>7, <1>8 DEF HookDelivers, to, shown, times

-----------------------------------------------------------------------------
(* Sessions: what is accounted for stays so.                                   *)

AgentGrows ==
    agent.shown \subseteq agent'.shown /\ agent.skipped \subseteq agent'.skipped /\ agent.late \subseteq agent'.late

LEMMA AccountsGrow ==
    ASSUME UNCHANGED mail, AgentGrows
    PROVE  Posted' = Posted /\ Unacked' = Unacked /\ \A m : Accounted(m) => Accounted(m)'
<1>1. Posted' = Posted /\ Unacked' = Unacked
  BY DEF Posted, Unacked, InInbox
<1> QED BY <1>1 DEF Accounted, Excused, AgentGrows

\* A step without a change of the inbox keeps the invariant when what it moves is accounted for.
LEMMA PullKept ==
    ASSUME PullInv, UNCHANGED mail, AgentGrows,
           file'.cursor <= Len(mail.channel), \A m \in Posted : m <= file'.cursor => Accounted(m)',
           agent'.read <= Len(mail.channel), \A m \in Posted : m <= agent'.read => Accounted(m)',
           \A r \in Runs : hook'[r].got \subseteq Posted /\ NoGap(hook'[r].got),
           pump'.got \subseteq Posted, NoGap(pump'.got),
           pump'.stage = "commit" => \A g \in pump'.got : Accounted(g)'
    PROVE  PullInv'
<1>1. Posted' = Posted /\ \A m : Accounted(m) => Accounted(m)'
  BY AccountsGrow
<1>2. WithinMail'
  BY <1>1 DEF WithinMail
<1>3. MarkHidesNothing' /\ ReadIsAll'
  BY <1>1 DEF MarkHidesNothing, ReadIsAll, Accounted
<1>4. HeldIsAll'
  BY <1>1 DEF HeldIsAll, NoGap
<1>5. CommitIsAll'
  BY DEF CommitIsAll
<1> QED BY <1>2, <1>3, <1>4, <1>5 DEF PullInv

\* What is fetched above the cursor leaves out only what is behind it or acked.
LEMMA FetchHasNoGap ==
    ASSUME SessionTypes, PullInv PROVE Above(Unacked, file.cursor) \subseteq Posted /\ NoGap(Above(Unacked, file.cursor))
<1>1. file.cursor \in Nat /\ Posted \subseteq Seqs /\ Above(Unacked, file.cursor) \subseteq Posted /\ Seqs \subseteq Nat
  BY MailFacts, SessionAssumption DEF SessionTypes, AgentOK, FileRow, Seqs
<1>2. ASSUME NEW m \in Posted PROVE m \in Above(Unacked, file.cursor) \/ Accounted(m)
  <2>1. CASE m <= file.cursor
    BY <2>1 DEF PullInv, MarkHidesNothing, Accounted
  <2>2. CASE m \notin Unacked
    BY <2>2 DEF Accounted, Excused
  <2>3. CASE ~(m <= file.cursor) /\ m \in Unacked
    <3>1. m \in Nat /\ m > file.cursor
      BY <1>1, <2>3
    <3> QED BY <2>3, <3>1 DEF Above
  <2> QED BY <2>1, <2>2, <2>3
<1> QED BY <1>1, <1>2 DEF NoGap

\* Of what is held, what is still above the cursor, and of that a prefix: nothing is left out either.
LEMMA PageHasNoGap ==
    ASSUME SessionTypes, PullInv, NEW got \in SUBSET Posted, NoGap(got), NEW page \in SeqPrefixes(Above(got, file.cursor))
    PROVE  /\ page \subseteq Posted /\ page \subseteq got /\ NoGap(page)
           /\ \A p \in page : p \in Seqs /\ p > file.cursor
<1>1. file.cursor \in Nat /\ Posted \subseteq Seqs /\ Seqs \subseteq Nat
  BY MailFacts, SessionAssumption DEF SessionTypes, AgentOK, FileRow, Seqs
<1>2. page \subseteq Above(got, file.cursor) /\ \A p \in page, m \in Above(got, file.cursor) : m < p => m \in page
  BY PrefixFacts
<1>3. page \subseteq got /\ \A p \in page : p > file.cursor
  BY <1>2 DEF Above
<1>4. ASSUME NEW m \in Posted, NEW g \in page, m < g PROVE m \in page \/ Accounted(m)
  <2>1. m \in got \/ Accounted(m)
    BY <1>3, <1>4 DEF NoGap
  <2>2. CASE m <= file.cursor
    BY <2>2 DEF PullInv, MarkHidesNothing, Accounted
  <2>3. CASE ~(m <= file.cursor) /\ m \in got
    <3>1. m \in Nat /\ m > file.cursor
      BY <1>1, <2>3
    <3>2. m \in Above(got, file.cursor)
      BY <2>3, <3>1 DEF Above
    <3> QED BY <1>2, <1>4, <3>2
  <2> QED BY <2>1, <2>2, <2>3
<1> QED BY <1>1, <1>3, <1>4 DEF NoGap

LEMMA EmptyHasNoGap == NoGap({})
BY DEF NoGap

\* The steps of a hook.
LEMMA QuietKeeps ==
    ASSUME SessionTypes, NEW r \in Runs, HookQuietly(r)
    PROVE  SessionTypes' /\ (ShownOnce => ShownOnce') /\ (PullInv => PullInv')
<1>1. PICK row \in HookRow : hook' = [hook EXCEPT ![r] = row] /\ row.got \in {hook[r].got, {}, Above(Unacked, file.cursor)}
  BY DEF HookQuietly
<1>2. hook' \in [Runs -> HookRow] /\ hook'[r] = row /\ \A q \in Runs : q # r => hook'[q] = hook[q]
  BY <1>1, HookWrite DEF SessionTypes, AgentOK
<1>3. UNCHANGED <<mail, push, pump, agent>> /\ file' \in FileRow /\ file'.cursor = file.cursor
  BY DEF HookQuietly
<1>4. SessionTypes'
  BY <1>2, <1>3 DEF SessionTypes, AgentOK, MailOK, PumpOK
<1>5. ShownOnce => ShownOnce'
  BY <1>3 DEF ShownOnce
<1>6. ASSUME PullInv PROVE PullInv'
  <2>1. AgentGrows /\ \A m : Accounted(m) => Accounted(m)'
    BY <1>3, AccountsGrow DEF AgentGrows
  <2>2. \A q \in Runs : hook[q].got \subseteq Posted /\ NoGap(hook[q].got)
    BY <1>6 DEF PullInv, WithinMail, HeldIsAll
  <2>3. row.got \subseteq Posted /\ NoGap(row.got)
    <3>1. CASE row.got = hook[r].got
      BY <2>2, <3>1
    <3>2. CASE row.got = {}
      BY <3>2, EmptyHasNoGap
    <3>3. CASE row.got = Above(Unacked, file.cursor)
      BY <1>6, <3>3, FetchHasNoGap
    <3> QED BY <1>1, <3>1, <3>2, <3>3
  <2>4. \A q \in Runs : hook'[q].got \subseteq Posted /\ NoGap(hook'[q].got)
    <3> SUFFICES ASSUME NEW q \in Runs PROVE hook'[q].got \subseteq Posted /\ NoGap(hook'[q].got)
      OBVIOUS
    <3>1. CASE q = r
      BY <1>2, <2>3, <3>1
    <3>2. CASE q # r
      BY <1>2, <2>2, <3>2
    <3> QED BY <3>1, <3>2
  <2>5. /\ file'.cursor <= Len(mail.channel) /\ agent'.read <= Len(mail.channel)
        /\ pump'.got \subseteq Posted /\ NoGap(pump'.got)
    BY <1>3, <1>6 DEF PullInv, WithinMail, HeldIsAll
  <2>6. /\ \A m \in Posted : m <= file'.cursor => Accounted(m)'
        /\ \A m \in Posted : m <= agent'.read => Accounted(m)'
        /\ pump'.stage = "commit" => \A g \in pump'.got : Accounted(g)'
    BY <1>3, <1>6, <2>1 DEF PullInv, MarkHidesNothing, ReadIsAll, CommitIsAll, Accounted
  <2> QED BY <1>3, <1>6, <2>1, <2>4, <2>5, <2>6, PullKept
<1> QED BY <1>4, <1>5, <1>6

\* A hook that has ended holds nothing.
LEMMA EndedHook ==
    ASSUME SessionTypes, NEW r \in Runs, hook' = [hook EXCEPT ![r] = Over]
    PROVE  /\ hook' \in [Runs -> HookRow]
           /\ PullInv => \A q \in Runs : hook'[q].got \subseteq Posted /\ NoGap(hook'[q].got)
<1>1. hook' \in [Runs -> HookRow] /\ hook'[r] = Over /\ \A q \in Runs : q # r => hook'[q] = hook[q]
  BY HookWrite, RestRows DEF SessionTypes, AgentOK
<1>2. Over.got = {} /\ NoGap({})
  BY EmptyHasNoGap DEF Over
<1>3. ASSUME PullInv, NEW q \in Runs PROVE hook'[q].got \subseteq Posted /\ NoGap(hook'[q].got)
  <2>1. CASE q = r
    BY <1>1, <1>2, <2>1
  <2>2. CASE q # r
    BY <1>1, <1>3, <2>2 DEF PullInv, WithinMail, HeldIsAll
  <2> QED BY <2>1, <2>2
<1> QED BY <1>1, <1>3

LEMMA DeliverKeeps ==
    ASSUME SessionTypes, NEW r \in Runs, NEW page \in SUBSET Seqs, HookDelivers(r, page)
    PROVE  SessionTypes' /\ (ShownOnce => ShownOnce') /\ (PullInv => PullInv')
<1>1. /\ UNCHANGED <<mail, push, pump>> /\ hook' = [hook EXCEPT ![r] = Over] /\ file' \in FileRow /\ agent' \in AgentRow
      /\ file'.cursor = Max({file.cursor, Highest(page)}) /\ agent'.shown = agent.shown \cup page
      /\ agent'.read = agent.read /\ agent'.skipped = agent.skipped /\ agent'.late = agent.late
      /\ agent'.times = [m \in Seqs |-> IF m \in page THEN agent.times[m] + 1 ELSE agent.times[m]]
      /\ page \in SeqPrefixes(Above(hook[r].got, file.cursor))
  BY DEF HookDelivers
<1>2. SessionTypes'
  BY <1>1, EndedHook DEF SessionTypes, AgentOK, MailOK, PumpOK
<1>3. file.cursor \in Nat /\ Seqs \subseteq Nat /\ agent.times \in [Seqs -> Nat] /\ Highest(page) \in Nat
  BY PageMax DEF SessionTypes, AgentOK, FileRow, AgentRow, Seqs
<1>4. /\ file'.cursor \in Nat /\ file'.cursor >= file.cursor /\ file'.cursor >= Highest(page)
      /\ file'.cursor \in {file.cursor, Highest(page)}
  BY <1>1, <1>3, CursorMoves
<1>5. \A m \in page : m > file.cursor /\ m <= Highest(page)
  BY <1>1, PageMax, PrefixFacts DEF Above
<1>6. ASSUME ShownOnce PROVE ShownOnce'
  <2> SUFFICES ASSUME NEW m \in Seqs PROVE agent'.times[m] <= 1 /\ (agent'.times[m] > 0 => m <= file'.cursor)
    BY DEF ShownOnce
  <2>1. m \in Nat /\ agent.times[m] \in Nat /\ agent.times[m] <= 1 /\ (agent.times[m] > 0 => m <= file.cursor)
    BY <1>3, <1>6 DEF ShownOnce
  <2>2. CASE m \in page
    <3>1. agent'.times[m] = agent.times[m] + 1 /\ ~(m <= file.cursor)
      BY <1>1, <1>3, <1>5, <2>1, <2>2
    <3>2. m <= file'.cursor
      BY <1>3, <1>4, <1>5, <2>1, <2>2
    <3> QED BY <2>1, <3>1, <3>2
  <2>3. CASE m \notin page
    BY <1>1, <1>3, <1>4, <2>1, <2>3
  <2> QED BY <2>2, <2>3
<1>7. ASSUME PullInv PROVE PullInv'
  <2>1. AgentGrows /\ \A m : Accounted(m) => Accounted(m)'
    BY <1>1, AccountsGrow DEF AgentGrows
  <2>2. hook[r].got \in SUBSET Posted /\ NoGap(hook[r].got)
    BY <1>7 DEF PullInv, WithinMail, HeldIsAll
  <2>3. page \subseteq Posted /\ NoGap(page)
    BY <1>1, <1>7, <2>2, PageHasNoGap
  <2>4. \A q \in Runs : hook'[q].got \subseteq Posted /\ NoGap(hook'[q].got)
    BY <1>1, <1>7, EndedHook
  <2>5. /\ agent'.read <= Len(mail.channel) /\ pump'.got \subseteq Posted /\ NoGap(pump'.got)
    BY <1>1, <1>7 DEF PullInv, WithinMail, HeldIsAll
  <2>6. /\ \A m \in Posted : m <= agent'.read => Accounted(m)'
        /\ pump'.stage = "commit" => \A g \in pump'.got : Accounted(g)'
    BY <1>1, <1>7, <2>1 DEF PullInv, ReadIsAll, CommitIsAll
  <2>7. Posted = 1 .. Len(mail.channel) /\ Len(mail.channel) \in Nat /\ file.cursor <= Len(mail.channel)
    BY <1>7, MailFacts DEF SessionTypes, AgentOK, PullInv, WithinMail
  <2>8. Highest(page) \in page \cup {0}
    BY PageMax
  <2>9. file'.cursor <= Len(mail.channel)
    BY <1>3, <1>4, <2>3, <2>7, <2>8
  <2>10. ASSUME NEW m \in Posted, m <= file'.cursor PROVE Accounted(m)'
    <3>1. CASE m <= file.cursor
      BY <1>7, <2>1, <3>1 DEF PullInv, MarkHidesNothing, Accounted
    <3>2. CASE ~(m <= file.cursor)
      <4>1. m \in Nat /\ m # 0 /\ file'.cursor = Highest(page) /\ Highest(page) \in page
        BY <1>3, <1>4, <2>7, <2>8, <2>10, <3>2
      <4>2. m < Highest(page) \/ m = Highest(page)
        BY <1>3, <2>10, <4>1
      <4>3. m \in page \/ Accounted(m)
        BY <2>3, <4>1, <4>2 DEF NoGap
      <4>4. m \in page => Accounted(m)'
        BY <1>1 DEF Accounted
      <4> QED BY <2>1, <4>3, <4>4
    <3> QED BY <3>1, <3>2
  <2> QED BY <1>1, <1>7, <2>1, <2>4, <2>5, <2>6, <2>9, <2>10, PullKept
<1> QED BY <1>2, <1>6, <1>7

\* A new context starts over: nothing has been shown in it, and the cursor goes back.
LEMMA StartKeeps ==
    ASSUME SessionTypes, NEW r \in Runs, NEW source \in {"startup", "compact"}, SessionStart(r, source)
    PROVE  SessionTypes' /\ (ShownOnce => ShownOnce') /\ (PullInv => PullInv')
<1>0. file \in FileRow /\ agent \in AgentRow /\ file.cursor \in Nat
  BY DEF SessionTypes, AgentOK, FileRow
<1> DEFINE to == IF source = "compact" THEN 0 ELSE file.cursor
           none == [m \in Seqs |-> 0]   more == agent.resets + 1
<1>1. to \in Nat /\ to <= file.cursor /\ none \in [Seqs -> Nat] /\ more \in Nat
  BY <1>0 DEF AgentRow
<1>2. /\ file' = [file EXCEPT !.cursor = to, !.blocks = 0] /\ UNCHANGED <<mail, push, pump>>
      /\ hook' = [hook EXCEPT ![r] = Over]
      /\ (source # "compact" /\ agent' = agent) \/ (to = 0 /\ agent' = [agent EXCEPT !.resets = more, !.times = none])
      /\ source # "compact" => to = file.cursor
  BY DEF SessionStart, Ends
<1> HIDE DEF to, none, more
<1>3. file' \in FileRow /\ file'.cursor = to
  BY <1>0, <1>1, <1>2 DEF FileRow
<1>4. /\ agent' \in AgentRow /\ agent'.shown = agent.shown /\ agent'.read = agent.read /\ agent'.skipped = agent.skipped
      /\ agent'.late = agent.late /\ ((agent' = agent /\ to = file.cursor) \/ agent'.times = none)
  BY <1>0, <1>1, <1>2 DEF AgentRow
<1>5. SessionTypes'
  BY <1>2, <1>3, <1>4, EndedHook DEF SessionTypes, AgentOK, MailOK, PumpOK
<1>6. ShownOnce => ShownOnce'
  BY <1>3, <1>4 DEF ShownOnce, none
<1>7. ASSUME PullInv PROVE PullInv'
  <2>1. AgentGrows /\ \A m : Accounted(m) => Accounted(m)'
    BY <1>2, <1>4, AccountsGrow DEF AgentGrows
  <2>2. Posted = 1 .. Len(mail.channel) /\ Len(mail.channel) \in Nat /\ file.cursor <= Len(mail.channel)
    BY <1>7, MailFacts DEF SessionTypes, AgentOK, PullInv, WithinMail
  <2>3. file'.cursor <= Len(mail.channel)
    BY <1>0, <1>1, <1>3, <2>2
  <2>4. \A m \in Posted : m <= file'.cursor => Accounted(m)'
    <3>1. \A m \in Posted : m <= file'.cursor => m <= file.cursor
      BY <1>0, <1>1, <1>3, <2>2
    <3> QED BY <1>7, <2>1, <3>1 DEF PullInv, MarkHidesNothing, Accounted
  <2>5. /\ agent'.read <= Len(mail.channel) /\ pump'.got \subseteq Posted /\ NoGap(pump'.got)
    BY <1>2, <1>4, <1>7 DEF PullInv, WithinMail, HeldIsAll
  <2>6. /\ \A m \in Posted : m <= agent'.read => Accounted(m)'
        /\ pump'.stage = "commit" => \A g \in pump'.got : Accounted(g)'
    BY <1>2, <1>4, <1>7, <2>1 DEF PullInv, ReadIsAll, CommitIsAll
  <2>7. \A q \in Runs : hook'[q].got \subseteq Posted /\ NoGap(hook'[q].got)
    BY <1>2, <1>7, EndedHook
  <2> QED BY <1>2, <1>7, <2>1, <2>3, <2>4, <2>5, <2>6, <2>7, PullKept
<1> QED BY <1>5, <1>6, <1>7

LEMMA AbsorbKeeps ==
    ASSUME SessionTypes, NEW r \in Runs, AbsorbToolResult(r)
    PROVE  SessionTypes' /\ (ShownOnce => ShownOnce') /\ (PullInv => PullInv')
<1>0. file \in FileRow /\ file.cursor \in Nat /\ agent.read \in Nat
  BY DEF SessionTypes, AgentOK, FileRow, AgentRow
<1> DEFINE to == Max({file.cursor, agent.read})
<1>1. to \in Nat /\ to >= file.cursor /\ to \in {file.cursor, agent.read}
  BY <1>0, CursorMoves
<1>2. /\ file' = [file EXCEPT !.cursor = to] /\ UNCHANGED <<mail, push, pump, agent>> /\ hook' = [hook EXCEPT ![r] = Over]
  BY DEF AbsorbToolResult, Ends
<1> HIDE DEF to
<1>3. file' \in FileRow /\ file'.cursor = to
  BY <1>0, <1>1, <1>2 DEF FileRow
<1>5. SessionTypes'
  BY <1>2, <1>3, EndedHook DEF SessionTypes, AgentOK, MailOK, PumpOK
<1>6. ASSUME ShownOnce PROVE ShownOnce'
  <2>1. \A m \in Seqs : m <= file.cursor => m <= to
    BY <1>0, <1>1 DEF Seqs
  <2> QED BY <1>2, <1>3, <1>6, <2>1 DEF ShownOnce
<1>7. ASSUME PullInv PROVE PullInv'
  <2>1. AgentGrows /\ \A m : Accounted(m) => Accounted(m)'
    BY <1>2, AccountsGrow DEF AgentGrows
  <2>3. file'.cursor <= Len(mail.channel) /\ \A m \in Posted : m <= file'.cursor => Accounted(m)'
    BY <1>1, <1>3, <1>7, <2>1 DEF PullInv, WithinMail, MarkHidesNothing, ReadIsAll, Accounted
  <2>5. /\ agent'.read <= Len(mail.channel) /\ pump'.got \subseteq Posted /\ NoGap(pump'.got)
    BY <1>2, <1>7 DEF PullInv, WithinMail, HeldIsAll
  <2>6. /\ \A m \in Posted : m <= agent'.read => Accounted(m)'
        /\ pump'.stage = "commit" => \A g \in pump'.got : Accounted(g)'
    BY <1>2, <1>7, <2>1 DEF PullInv, ReadIsAll, CommitIsAll
  <2>7. \A q \in Runs : hook'[q].got \subseteq Posted /\ NoGap(hook'[q].got)
    BY <1>2, <1>7, EndedHook
  <2> QED BY <1>2, <1>7, <2>1, <2>3, <2>5, <2>6, <2>7, PullKept
<1> QED BY <1>5, <1>6, <1>7

-----------------------------------------------------------------------------
(* Sessions: the inbox and the agent's own reading.                            *)

\* A change of the inbox adds newer messages and excuses no fewer.
MailGrows ==
    /\ UNCHANGED <<file, hook, pump>> /\ agent'.shown = agent.shown /\ agent'.read = agent.read /\ agent'.times = agent.times
    /\ Len(mail'.channel) \in Nat /\ Len(mail'.channel) >= Len(mail.channel)
    /\ Posted \subseteq Posted' /\ \A m \in Posted' : m \in Posted \/ (m \in Nat /\ m > Len(mail.channel))
    /\ \A m \in Posted : Accounted(m) => Accounted(m)'

LEMMA MailGrowsKeeps ==
    ASSUME SessionTypes, MailGrows PROVE (ShownOnce => ShownOnce') /\ (PullInv => PullInv')
<1>1. ShownOnce => ShownOnce'
  BY DEF ShownOnce, MailGrows
<1>2. ASSUME PullInv PROVE PullInv'
  <2>1. Len(mail.channel) \in Nat /\ Posted = 1 .. Len(mail.channel) /\ file.cursor \in Nat /\ agent.read \in Nat
    BY MailFacts DEF SessionTypes, AgentOK, FileRow, AgentRow
  <2>2. file.cursor <= Len(mail.channel) /\ agent.read <= Len(mail.channel)
    BY <1>2 DEF PullInv, WithinMail
  <2>3. WithinMail'
    <3>1. file'.cursor <= Len(mail'.channel) /\ agent'.read <= Len(mail'.channel)
      BY <2>1, <2>2 DEF MailGrows
    <3> QED BY <1>2, <3>1 DEF PullInv, WithinMail, MailGrows
  <2>4. ASSUME NEW m \in Posted', m <= file.cursor \/ m <= agent.read PROVE m \in Posted
    BY <2>1, <2>2, <2>4 DEF MailGrows
  <2>5. MarkHidesNothing' /\ ReadIsAll'
    BY <1>2, <2>4 DEF PullInv, MarkHidesNothing, ReadIsAll, Accounted, MailGrows
  <2>6. ASSUME NEW got \in SUBSET Posted, NoGap(got), NEW m \in Posted', NEW g \in got, m < g
        PROVE  m \in got \/ Accounted(m)'
    <3>1. m \in Posted
      BY <2>1, <2>6 DEF MailGrows
    <3> QED BY <2>6, <3>1 DEF NoGap, MailGrows
  <2>7. HeldIsAll'
    BY <1>2, <2>6 DEF PullInv, WithinMail, HeldIsAll, NoGap, MailGrows
  <2>8. CommitIsAll'
    BY <1>2 DEF PullInv, WithinMail, CommitIsAll, MailGrows
  <2> QED BY <2>3, <2>5, <2>7, <2>8 DEF PullInv
<1> QED BY <1>1, <1>2

LEMMA ArrivesKeeps ==
    ASSUME SessionTypes, NEW channel \in {"own", "other"}, Arrives(channel) PROVE SessionTypes' /\ MailGrows
<1>1. mail \in MailRow /\ mail.channel \in Seq({"own", "other"}) /\ push \in LinkRow /\ Len(mail.channel) < MaxSeq
      /\ mail.acked \in [{"own", "other"} -> Nat] /\ MaxSeq \in Nat
  BY SessionAssumption DEF SessionTypes, AgentOK, MailOK, MailRow, Arrives
<1> DEFINE longer == Append(mail.channel, channel)
           dirty == push.dirty \/ (push.linked /\ (channel = "own" \/ mail.joined))
<1>2. longer \in Seq({"own", "other"}) /\ Len(longer) = Len(mail.channel) + 1 /\ Len(mail.channel) \in Nat
      /\ DOMAIN longer = 1 .. (Len(mail.channel) + 1) /\ \A m \in 1 .. Len(mail.channel) : longer[m] = mail.channel[m]
  BY <1>1
<1>3. dirty \in BOOLEAN
  BY <1>1 DEF LinkRow, MailRow
<1>4. mail' = [mail EXCEPT !.channel = longer] /\ push' = [push EXCEPT !.dirty = dirty] /\ UNCHANGED <<file, hook, pump, agent>>
  BY DEF Arrives
<1> HIDE DEF longer, dirty
<1>5. mail' \in MailRow /\ mail'.channel = longer /\ mail'.joined = mail.joined /\ mail'.acked = mail.acked
  BY <1>1, <1>2, <1>4 DEF MailRow
<1>6. push' \in LinkRow
  BY <1>1, <1>3, <1>4 DEF LinkRow
<1>7. Len(mail'.channel) <= MaxSeq
  BY <1>1, <1>2, <1>5
<1>8. SessionTypes'
  BY <1>4, <1>5, <1>6, <1>7 DEF SessionTypes, AgentOK, MailOK, PumpOK
<1>9. Posted = 1 .. Len(mail.channel) /\ Posted' = 1 .. (Len(mail.channel) + 1)
  BY <1>1, <1>2, <1>5 DEF Posted
<1>10. \A m \in Posted : m \in Posted' /\ mail'.channel[m] = mail.channel[m]
  BY <1>2, <1>5, <1>9
<1>11. \A m \in Posted : Accounted(m) => Accounted(m)'
  BY <1>4, <1>5, <1>10 DEF Accounted, Excused, Unacked, InInbox
<1>12. \A m \in Posted' : m \in Posted \/ (m \in Nat /\ m > Len(mail.channel))
  BY <1>2, <1>9
<1>13. Len(mail'.channel) \in Nat /\ Len(mail'.channel) >= Len(mail.channel)
  BY <1>2, <1>5
<1> QED BY <1>4, <1>8, <1>10, <1>11, <1>12, <1>13 DEF MailGrows

\* The history of a channel joined late is excused from then on.
LEMMA JoinKeeps == ASSUME SessionTypes, JoinOther PROVE SessionTypes' /\ MailGrows
<1>1. mail \in MailRow /\ push \in LinkRow /\ agent \in AgentRow /\ ~mail.joined /\ agent.late = {}
  BY DEF SessionTypes, AgentOK, MailOK, JoinOther
<1> DEFINE late == {m \in Posted : mail.channel[m] = "other"}   dirty == push.dirty \/ push.linked
<1>2. late \in SUBSET Seqs /\ dirty \in BOOLEAN
  <2>1. Posted \subseteq Seqs
    BY MailFacts DEF SessionTypes, AgentOK
  <2> QED BY <1>1, <2>1 DEF LinkRow
<1>3. /\ mail' = [mail EXCEPT !.joined = TRUE] /\ agent' = [agent EXCEPT !.late = late] /\ push' = [push EXCEPT !.dirty = dirty]
      /\ UNCHANGED <<file, hook, pump>>
  BY DEF JoinOther
<1> HIDE DEF late, dirty
<1>4. mail' \in MailRow /\ mail'.channel = mail.channel /\ mail'.acked = mail.acked /\ mail'.joined
  BY <1>1, <1>3 DEF MailRow
<1>5. push' \in LinkRow
  BY <1>1, <1>2, <1>3 DEF LinkRow
<1>6. /\ agent' \in AgentRow /\ agent'.shown = agent.shown /\ agent'.read = agent.read /\ agent'.times = agent.times
      /\ agent'.skipped = agent.skipped /\ agent'.late = late
  BY <1>1, <1>2, <1>3 DEF AgentRow
<1>7. SessionTypes'
  BY <1>3, <1>4, <1>5, <1>6 DEF SessionTypes, AgentOK, MailOK, PumpOK
<1>8. Posted' = Posted /\ Len(mail'.channel) = Len(mail.channel) /\ Len(mail.channel) \in Nat
  BY <1>4, MailFacts DEF Posted, SessionTypes, AgentOK
<1>9. ASSUME NEW m \in Posted, Accounted(m) PROVE Accounted(m)'
  <2>1. mail.channel[m] \in {"own", "other"}
    BY MailFacts DEF SessionTypes, AgentOK
  <2>2. CASE mail.channel[m] = "other"
    BY <1>6, <2>2 DEF Accounted, Excused, late
  <2>3. CASE mail.channel[m] = "own"
    <3>1. m \in Unacked <=> m \in Unacked'
      BY <1>4, <1>8, <2>3 DEF Unacked, InInbox
    <3> QED BY <1>1, <1>6, <1>8, <1>9, <3>1 DEF Accounted, Excused
  <2> QED BY <2>1, <2>2, <2>3
<1> QED BY <1>3, <1>6, <1>7, <1>8, <1>9 DEF MailGrows

LEMMA AckKeeps == ASSUME SessionTypes, NEW a \in Seqs, AckMessage(a) PROVE SessionTypes' /\ MailGrows
<1>1. mail \in MailRow /\ push \in LinkRow /\ mail.acked \in [{"own", "other"} -> Nat] /\ push.pending \in SUBSET Seqs
  BY DEF SessionTypes, AgentOK, MailOK, MailRow, LinkRow
<1> DEFINE c == mail.channel[a]
           covered == {n \in Posted : mail.channel[n] = c /\ n <= a}
           acked == [mail.acked EXCEPT ![c] = a]
           pending == IF push.linked THEN push.pending \ covered ELSE push.pending
<1>2. a \in Posted /\ a \in Nat /\ c \in {"own", "other"} /\ a > mail.acked[c]
  BY MailFacts DEF SessionTypes, AgentOK, AckMessage, Unacked, Seqs
<1>3. pending \in SUBSET Seqs
  BY <1>1
<1>4. mail' = [mail EXCEPT !.acked = acked] /\ push' = [push EXCEPT !.pending = pending] /\ UNCHANGED <<file, hook, pump, agent>>
  BY <1>1 DEF AckMessage, MailRow
<1>5. acked \in [{"own", "other"} -> Nat] /\ \A d \in {"own", "other"} : acked[d] >= mail.acked[d]
  <2> HIDE DEF c
  <2> QED BY <1>1, <1>2
<1> HIDE DEF c, acked, pending
<1>6. mail' \in MailRow /\ mail'.channel = mail.channel /\ mail'.acked = acked /\ mail'.joined = mail.joined
  BY <1>1, <1>4, <1>5 DEF MailRow
<1>7. push' \in LinkRow
  BY <1>1, <1>3, <1>4 DEF LinkRow
<1>8. SessionTypes'
  BY <1>4, <1>6, <1>7 DEF SessionTypes, AgentOK, MailOK, PumpOK
<1>9. Posted' = Posted /\ Len(mail'.channel) = Len(mail.channel) /\ Len(mail.channel) \in Nat
  BY <1>6, MailFacts DEF Posted, SessionTypes, AgentOK
<1>10. ASSUME NEW m \in Posted, m \in Unacked' PROVE m \in Unacked
  <2>1. m \in Nat /\ mail.channel[m] \in {"own", "other"}
    BY MailFacts DEF SessionTypes, AgentOK, Seqs
  <2>2. InInbox(m) /\ m > acked[mail.channel[m]]
    BY <1>6, <1>10 DEF Unacked, InInbox
  <2>3. m > mail.acked[mail.channel[m]]
    BY <1>1, <1>5, <2>1, <2>2
  <2> QED BY <2>2, <2>3 DEF Unacked
<1>11. \A m \in Posted : Accounted(m) => Accounted(m)'
  BY <1>4, <1>9, <1>10 DEF Accounted, Excused
<1> QED BY <1>4, <1>8, <1>9, <1>11 DEF MailGrows

LEMMA ReadKeeps ==
    ASSUME SessionTypes, NEW page \in SUBSET Seqs, AgentReads(page)
    PROVE  SessionTypes' /\ (ShownOnce => ShownOnce') /\ (PullInv => PullInv')
<1>1. agent \in AgentRow /\ agent.shown \in SUBSET Seqs /\ agent.read \in Nat
  BY DEF SessionTypes, AgentOK, AgentRow
<1>2. /\ page \subseteq Above(Unacked, agent.read) /\ page # {}
      /\ \A p \in page, m \in Above(Unacked, agent.read) : m < p => m \in page
  BY PrefixFacts DEF AgentReads
<1> DEFINE shown == agent.shown \cup page   upto == Max(page)
<1>3. shown \in SUBSET Seqs /\ upto \in Nat /\ upto \in page
  BY <1>1, <1>2, PageMax
<1>4. agent' = [agent EXCEPT !.shown = shown, !.read = upto] /\ UNCHANGED <<mail, file, hook, push, pump>>
  BY DEF AgentReads
<1> HIDE DEF shown, upto
<1>5. /\ agent' \in AgentRow /\ agent'.shown = shown /\ agent'.read = upto /\ agent'.times = agent.times
      /\ agent'.skipped = agent.skipped /\ agent'.late = agent.late
  BY <1>1, <1>3, <1>4 DEF AgentRow
<1>6. SessionTypes'
  BY <1>4, <1>5 DEF SessionTypes, AgentOK, MailOK, PumpOK
<1>7. ShownOnce => ShownOnce'
  BY <1>4, <1>5 DEF ShownOnce
<1>8. ASSUME PullInv PROVE PullInv'
  <2>1. AgentGrows /\ \A m : Accounted(m) => Accounted(m)'
    BY <1>4, <1>5, AccountsGrow DEF AgentGrows, shown
  <2>2. Len(mail.channel) \in Nat /\ Posted = 1 .. Len(mail.channel) /\ page \subseteq Posted
    BY <1>2, MailFacts DEF SessionTypes, AgentOK
  <2>3. agent'.read <= Len(mail.channel)
    BY <1>3, <1>5, <2>2
  <2>4. ASSUME NEW m \in Posted, m <= agent'.read PROVE Accounted(m)'
    <3>1. m \in Nat
      BY <2>2
    <3>2. CASE m <= agent.read
      BY <1>8, <2>1, <3>2 DEF PullInv, ReadIsAll
    <3>3. CASE m \notin Unacked
      BY <2>1, <3>3 DEF Accounted, Excused
    <3>4. CASE ~(m <= agent.read) /\ m \in Unacked
      <4>1. m \in Above(Unacked, agent.read)
        BY <1>1, <3>1, <3>4 DEF Above
      <4>2. m < upto \/ m = upto
        BY <1>3, <1>5, <2>4, <3>1
      <4>3. m \in page
        BY <1>2, <1>3, <4>1, <4>2
      <4> QED BY <1>5, <4>3 DEF Accounted, shown
    <3> QED BY <3>2, <3>3, <3>4
  <2>5. /\ file'.cursor <= Len(mail.channel) /\ pump'.got \subseteq Posted /\ NoGap(pump'.got)
        /\ \A q \in Runs : hook'[q].got \subseteq Posted /\ NoGap(hook'[q].got)
    BY <1>4, <1>8 DEF PullInv, WithinMail, HeldIsAll
  <2>6. /\ \A m \in Posted : m <= file'.cursor => Accounted(m)'
        /\ pump'.stage = "commit" => \A g \in pump'.got : Accounted(g)'
    BY <1>4, <1>8, <2>1 DEF PullInv, MarkHidesNothing, CommitIsAll, Accounted
  <2> QED BY <1>4, <1>8, <2>1, <2>3, <2>4, <2>5, <2>6, PullKept
<1> QED BY <1>6, <1>7, <1>8

-----------------------------------------------------------------------------
(* Sessions: the pump.                                                         *)

\* What a step of the pump leaves to be shown for the invariant.
LEMMA PumpKept ==
    ASSUME SessionTypes, UNCHANGED <<mail, hook, push>>, file' \in FileRow, file'.cursor >= file.cursor,
           PumpOK', agent' \in AgentRow, AgentGrows,
           agent'.read = agent.read, agent'.times = agent.times, agent'.late = agent.late,
           PullInv => /\ pump'.got \subseteq Posted /\ NoGap(pump'.got)
                      /\ pump'.stage = "commit" => \A g \in pump'.got : Accounted(g)'
                      /\ file'.cursor <= Len(mail.channel)
                      /\ \A m \in Posted : m <= file'.cursor => m <= file.cursor \/ Accounted(m)
    PROVE  SessionTypes' /\ (ShownOnce => ShownOnce') /\ (PullInv => PullInv')
<1>1. SessionTypes'
  BY DEF SessionTypes, AgentOK, MailOK
<1>2. ASSUME ShownOnce PROVE ShownOnce'
  <2>1. \A m \in Seqs : m <= file.cursor => m <= file'.cursor
    BY DEF SessionTypes, AgentOK, FileRow, Seqs
  <2> QED BY <1>2, <2>1 DEF ShownOnce
<1>3. ASSUME PullInv PROVE PullInv'
  <2>1. \A m : Accounted(m) => Accounted(m)'
    BY AccountsGrow
  <2>2. /\ agent'.read <= Len(mail.channel)
        /\ \A q \in Runs : hook'[q].got \subseteq Posted /\ NoGap(hook'[q].got)
    BY <1>3 DEF PullInv, WithinMail, HeldIsAll
  <2>3. /\ \A m \in Posted : m <= file'.cursor => Accounted(m)'
        /\ \A m \in Posted : m <= agent'.read => Accounted(m)'
    BY <1>3, <2>1 DEF PullInv, MarkHidesNothing, ReadIsAll, Accounted
  <2> QED BY <1>3, <2>2, <2>3, PullKept
<1> QED BY <1>1, <1>2, <1>3

LEMMA PumpTypes ==
    ASSUME SessionTypes
    PROVE  /\ pump \in PumpRow /\ pump.got \in SUBSET Seqs /\ file \in FileRow /\ file.cursor \in Nat /\ agent \in AgentRow
           /\ pump.stage \in {"offered", "commit"} => Max(pump.got) \in pump.got /\ Max(pump.got) \in Nat
<1>1. /\ pump \in PumpRow /\ pump.got \in SUBSET Seqs /\ file \in FileRow /\ file.cursor \in Nat /\ agent \in AgentRow
      /\ pump.stage \in {"offered", "commit"} => pump.got # {}
  BY DEF SessionTypes, AgentOK, PumpOK, PumpRow, FileRow
<1> QED BY <1>1, PageMax

LEMMA PollingKeeps ==
    ASSUME SessionTypes, PumpFetch \/ PumpPause \/ \E page \in SUBSET Seqs : Offer(page)
    PROVE  SessionTypes' /\ (ShownOnce => ShownOnce') /\ (PullInv => PullInv')
<1>0. pump \in PumpRow /\ file \in FileRow /\ file.cursor \in Nat /\ agent \in AgentRow
  BY PumpTypes
<1>1. UNCHANGED <<mail, file, hook, push, agent>> /\ AgentGrows
  BY DEF PumpFetch, PumpPause, Offer, AgentGrows
<1>2. ASSUME NEW st \in {"poll", "offer", "offered"}, NEW got \in SUBSET Seqs, st = "offered" => got # {},
             pump' = [pump EXCEPT !.stage = st, !.got = got], PullInv => got \subseteq Posted /\ NoGap(got)
      PROVE  SessionTypes' /\ (ShownOnce => ShownOnce') /\ (PullInv => PullInv')
  <2>1. pump' \in PumpRow /\ pump'.stage = st /\ pump'.got = got
    BY <1>0, <1>2 DEF PumpRow
  <2>2. PumpOK'
    BY <1>2, <2>1 DEF PumpOK
  <2>3. PullInv => /\ pump'.got \subseteq Posted /\ NoGap(pump'.got)
                   /\ pump'.stage = "commit" => \A g \in pump'.got : Accounted(g)'
                   /\ file'.cursor <= Len(mail.channel)
                   /\ \A m \in Posted : m <= file'.cursor => m <= file.cursor \/ Accounted(m)
    BY <1>1, <1>2, <2>1 DEF PullInv, WithinMail
  <2>4. file' \in FileRow /\ file'.cursor >= file.cursor /\ agent' \in AgentRow /\ agent'.read = agent.read
        /\ agent'.times = agent.times /\ agent'.late = agent.late
    BY <1>0, <1>1
  <2> QED BY <1>1, <2>2, <2>3, <2>4, PumpKept
<1>3. CASE PumpFetch
  <2> DEFINE got == Above(Unacked, file.cursor)
  <2>1. got \in SUBSET Seqs /\ (PullInv => got \subseteq Posted /\ NoGap(got))
    BY FetchedIsTyped, FetchHasNoGap
  <2>2. pump' = [pump EXCEPT !.stage = "offer", !.got = got]
    BY <1>3 DEF PumpFetch
  <2> HIDE DEF got
  <2> QED BY <1>2, <2>1, <2>2
<1>4. CASE PumpPause
  <2>1. pump' = [pump EXCEPT !.stage = "poll", !.got = {}]
    BY <1>4 DEF PumpPause
  <2>2. {} \in SUBSET Seqs /\ {} \subseteq Posted
    OBVIOUS
  <2> QED BY <1>2, <2>1, <2>2, EmptyHasNoGap
<1>5. ASSUME NEW page \in SUBSET Seqs, Offer(page) PROVE SessionTypes' /\ (ShownOnce => ShownOnce') /\ (PullInv => PullInv')
  <2>1. page \in SeqPrefixes(Above(pump.got, file.cursor)) /\ pump' = [pump EXCEPT !.stage = "offered", !.got = page]
    BY <1>5 DEF Offer
  <2>2. page # {}
    BY <2>1, PrefixFacts
  <2>3. ASSUME PullInv PROVE page \subseteq Posted /\ NoGap(page)
    <3>1. pump.got \in SUBSET Posted /\ NoGap(pump.got)
      BY <2>3 DEF PullInv, WithinMail, HeldIsAll
    <3> QED BY <2>1, <2>3, <3>1, PageHasNoGap
  <2> QED BY <1>2, <2>1, <2>2, <2>3
<1> QED BY <1>3, <1>4, <1>5

\* An accepted batch is shown, one that is passed over is excused; only then does the cursor move over it.
LEMMA AnswerKeeps ==
    ASSUME SessionTypes, Accepted \/ Refused(pump.got)
    PROVE  SessionTypes' /\ (ShownOnce => ShownOnce') /\ (PullInv => PullInv')
<1>0. /\ pump \in PumpRow /\ pump.got \in SUBSET Seqs /\ file \in FileRow /\ file.cursor \in Nat /\ agent \in AgentRow
      /\ pump.stage = "offered" /\ Max(pump.got) \in Nat /\ pump.got # {}
  BY PumpTypes DEF Accepted, Refused
<1>1. UNCHANGED <<mail, file, hook, push>>
  BY DEF Accepted, Refused
<1>c. ASSUME pump' = [pump EXCEPT !.stage = "commit", !.refusals = 0], agent' \in AgentRow, AgentGrows,
             agent'.read = agent.read, agent'.times = agent.times, agent'.late = agent.late,
             pump.got \subseteq agent'.shown \cup agent'.skipped
      PROVE  SessionTypes' /\ (ShownOnce => ShownOnce') /\ (PullInv => PullInv')
  <2>1. pump' \in PumpRow /\ pump'.stage = "commit" /\ pump'.got = pump.got
    BY <1>0, <1>c DEF PumpRow
  <2>2. PumpOK'
    BY <1>0, <2>1 DEF PumpOK
  <2>3. \A g \in pump'.got : Accounted(g)'
    BY <1>c, <2>1 DEF Accounted, Excused
  <2>4. PullInv => /\ pump'.got \subseteq Posted /\ NoGap(pump'.got)
                   /\ pump'.stage = "commit" => \A g \in pump'.got : Accounted(g)'
                   /\ file'.cursor <= Len(mail.channel)
                   /\ \A m \in Posted : m <= file'.cursor => m <= file.cursor \/ Accounted(m)
    BY <1>1, <2>1, <2>3 DEF PullInv, WithinMail, HeldIsAll
  <2>5. file' \in FileRow /\ file'.cursor >= file.cursor
    BY <1>0, <1>1
  <2> QED BY <1>1, <1>c, <2>2, <2>4, <2>5, PumpKept
<1>2. CASE Accepted
  <2> DEFINE shown == agent.shown \cup pump.got
  <2>1. shown \in SUBSET Seqs
    BY <1>0 DEF AgentRow
  <2>2. agent' = [agent EXCEPT !.shown = shown] /\ pump' = [pump EXCEPT !.stage = "commit", !.refusals = 0]
    BY <1>2 DEF Accepted
  <2> HIDE DEF shown
  <2>3. /\ agent' \in AgentRow /\ agent'.shown = shown /\ agent'.read = agent.read /\ agent'.times = agent.times
        /\ agent'.skipped = agent.skipped /\ agent'.late = agent.late
    BY <1>0, <2>1, <2>2 DEF AgentRow
  <2>4. AgentGrows /\ pump.got \subseteq agent'.shown \cup agent'.skipped
    BY <2>3 DEF AgentGrows, shown
  <2> QED BY <1>c, <2>2, <2>3, <2>4
<1>3. CASE Refused(pump.got) /\ RefusedInRow >= RefusalCap
  <2> DEFINE skipped == agent.skipped \cup pump.got
  <2>1. skipped \in SUBSET Seqs
    BY <1>0 DEF AgentRow
  <2>2. agent' = [agent EXCEPT !.skipped = skipped] /\ pump' = [pump EXCEPT !.stage = "commit", !.refusals = 0]
    BY <1>3 DEF Refused
  <2> HIDE DEF skipped
  <2>3. /\ agent' \in AgentRow /\ agent'.skipped = skipped /\ agent'.read = agent.read /\ agent'.times = agent.times
        /\ agent'.shown = agent.shown /\ agent'.late = agent.late
    BY <1>0, <2>1, <2>2 DEF AgentRow
  <2>4. AgentGrows /\ pump.got \subseteq agent'.shown \cup agent'.skipped
    BY <2>3 DEF AgentGrows, skipped
  <2> QED BY <1>c, <2>2, <2>3, <2>4
<1>4. CASE Refused(pump.got) /\ ~(RefusedInRow >= RefusalCap)
  <2> DEFINE n == RefusedInRow   last == Max(pump.got)
  <2>1. n \in Nat /\ last \in Nat
    BY <1>0 DEF RefusedInRow, PumpRow
  <2>2. pump' = [pump EXCEPT !.stage = "poll", !.refusals = n, !.last = last, !.got = {}] /\ UNCHANGED agent
    BY <1>4 DEF Refused
  <2> HIDE DEF n, last
  <2>3. pump' \in PumpRow /\ pump'.stage = "poll" /\ pump'.got = {}
    BY <1>0, <2>1, <2>2 DEF PumpRow
  <2>4. PumpOK' /\ AgentGrows
    BY <2>2, <2>3 DEF PumpOK, AgentGrows
  <2>5. PullInv => /\ pump'.got \subseteq Posted /\ NoGap(pump'.got)
                   /\ pump'.stage = "commit" => \A g \in pump'.got : Accounted(g)'
                   /\ file'.cursor <= Len(mail.channel)
                   /\ \A m \in Posted : m <= file'.cursor => m <= file.cursor \/ Accounted(m)
    BY <1>1, <2>3, EmptyHasNoGap DEF PullInv, WithinMail
  <2>6. file' \in FileRow /\ file'.cursor >= file.cursor /\ agent' \in AgentRow /\ agent'.read = agent.read
        /\ agent'.times = agent.times /\ agent'.late = agent.late
    BY <1>0, <1>1, <2>2
  <2> QED BY <1>1, <2>4, <2>5, <2>6, PumpKept
<1> QED BY <1>2, <1>3, <1>4

LEMMA CommitBatchKeeps ==
    ASSUME SessionTypes, PumpCommit
    PROVE  SessionTypes' /\ (ShownOnce => ShownOnce') /\ (PullInv => PullInv')
<1>0. /\ pump \in PumpRow /\ pump.got \in SUBSET Seqs /\ file \in FileRow /\ file.cursor \in Nat /\ agent \in AgentRow
      /\ pump.stage = "commit" /\ Max(pump.got) \in Nat /\ Max(pump.got) \in pump.got
  BY PumpTypes DEF PumpCommit
<1> DEFINE last == Max(pump.got)   to == Max({file.cursor, last})
<1>1. to \in Nat /\ to >= file.cursor /\ to \in {file.cursor, last}
  BY <1>0, CursorMoves
<1>2. /\ file' = [file EXCEPT !.cursor = to] /\ pump' = [pump EXCEPT !.stage = "poll", !.got = {}]
      /\ UNCHANGED <<mail, hook, push, agent>>
  BY DEF PumpCommit
<1> HIDE DEF to, last
<1>3. file' \in FileRow /\ file'.cursor = to
  BY <1>0, <1>1, <1>2 DEF FileRow
<1>4. pump' \in PumpRow /\ pump'.stage = "poll" /\ pump'.got = {}
  BY <1>0, <1>2 DEF PumpRow
<1>5. PumpOK' /\ AgentGrows
  BY <1>2, <1>4 DEF PumpOK, AgentGrows
<1>6. ASSUME PullInv
      PROVE  /\ pump'.got \subseteq Posted /\ NoGap(pump'.got)
             /\ pump'.stage = "commit" => \A g \in pump'.got : Accounted(g)'
             /\ file'.cursor <= Len(mail.channel)
             /\ \A m \in Posted : m <= file'.cursor => m <= file.cursor \/ Accounted(m)
  <2>1. Len(mail.channel) \in Nat /\ Posted = 1 .. Len(mail.channel) /\ file.cursor <= Len(mail.channel)
    BY <1>6, MailFacts DEF SessionTypes, PullInv, WithinMail
  <2>2. last \in pump.got /\ last \in Posted /\ \A g \in pump.got : Accounted(g)
    BY <1>0, <1>6 DEF PullInv, WithinMail, CommitIsAll, last
  <2>3. file'.cursor <= Len(mail.channel)
    BY <1>1, <1>3, <2>1, <2>2
  <2>4. ASSUME NEW m \in Posted, m <= file'.cursor, ~(m <= file.cursor) PROVE Accounted(m)
    <3>1. m \in Nat /\ (m < last \/ m = last)
      BY <1>0, <1>1, <1>3, <2>1, <2>2, <2>4
    <3>2. NoGap(pump.got)
      BY <1>6 DEF PullInv, HeldIsAll
    <3> QED BY <2>2, <3>1, <3>2 DEF NoGap
  <2> QED BY <1>4, <2>3, <2>4, EmptyHasNoGap
<1>7. file' \in FileRow /\ file'.cursor >= file.cursor /\ agent' \in AgentRow /\ agent'.read = agent.read
      /\ agent'.times = agent.times /\ agent'.late = agent.late
  BY <1>0, <1>1, <1>2, <1>3
<1> QED BY <1>2, <1>5, <1>6, <1>7, PumpKept

-----------------------------------------------------------------------------
(* Sessions: the channel push.                                                 *)

LEMMA LowestType == ASSUME NEW S \in SUBSET Seqs, NEW floor \in Nat PROVE Lowest(S, floor) \in Nat
<1> DEFINE T == S \cup (IF floor = 0 THEN {} ELSE {floor})
<1>1. T \in SUBSET Nat
  BY DEF Seqs
<1>2. S # {} => T # {}
  OBVIOUS
<1> HIDE DEF T
<1>3. S # {} => Min(T) \in Nat
  BY <1>1, <1>2, LeastExists
<1> QED BY <1>3 DEF Lowest, T

LEMMA AbsorbType ==
    ASSUME NEW p \in LinkRow, NEW page \in SUBSET Seqs, NEW queue \in BOOLEAN PROVE PushAbsorb(p, page, queue) \in LinkRow
<1> DEFINE new    == Above(page, p.seen)
           joined == IF queue THEN p.pending \cup new ELSE p.pending
           kept   == {m \in joined : Cardinality({n \in joined : n > m}) < PendingCap}
           unsent == (joined \ kept) \cup (IF queue THEN {} ELSE new)
           seen   == Max({p.seen, Highest(page)})
           floor  == Lowest(unsent, p.floor)
<1>1. p.pending \in SUBSET Seqs /\ p.seen \in Nat /\ p.floor \in Nat /\ new \in SUBSET Seqs
  BY DEF LinkRow, Above
<1> HIDE DEF new
<1>2. joined \in SUBSET Seqs
  BY <1>1
<1> HIDE DEF joined
<1>3. kept \in SUBSET Seqs /\ unsent \in SUBSET Seqs
  BY <1>1, <1>2
<1>4. seen \in Nat
  <2>1. Highest(page) \in Nat
    BY PageMax
  <2>2. seen = IF p.seen < Highest(page) THEN Highest(page) ELSE p.seen
    BY <1>1, <2>1, MaxOfTwo
  <2> QED BY <1>1, <2>1, <2>2
<1>5. floor \in Nat
  <2> HIDE DEF unsent
  <2> QED BY <1>1, <1>3, LowestType
<1>6. PushAbsorb(p, page, queue) = [p EXCEPT !.seen = seen, !.pending = kept, !.floor = floor]
  BY DEF PushAbsorb, new, joined
<1> HIDE DEF kept, unsent, seen, floor
<1> QED BY <1>3, <1>4, <1>5, <1>6 DEF LinkRow

\* A step of the push does not take the cursor back, and is no hook.
PushQuietly ==
    /\ UNCHANGED <<mail, hook, pump>> /\ push' \in LinkRow /\ file' \in FileRow /\ file'.cursor >= file.cursor
    /\ agent' \in AgentRow /\ agent'.times = agent.times /\ agent'.late = agent.late

LEMMA PushSteps == ASSUME SessionTypes, PushStep PROVE PushQuietly
<1>0. /\ push \in LinkRow /\ file \in FileRow /\ agent \in AgentRow /\ file.cursor \in Nat
      /\ push.mark \in Nat /\ push.floor \in Nat /\ push.pending \in SUBSET Seqs /\ push.before \in BOOLEAN
  BY DEF SessionTypes, AgentOK, LinkRow, FileRow
<1>1. CASE OpenLink
  <2> DEFINE p == PushAbsorb(push, Unacked, push.before)   left == p.pending \cap Unacked
  <2>1. Unacked \in SUBSET Seqs
    BY MailFacts DEF SessionTypes, AgentOK, Unacked
  <2>2. p \in LinkRow
    BY <1>0, <2>1, AbsorbType
  <2>3. push' = [p EXCEPT !.linked = TRUE, !.before = TRUE, !.dirty = TRUE, !.pending = left]
    BY <1>1 DEF OpenLink
  <2> HIDE DEF p
  <2>4. left \in SUBSET Seqs
    BY <2>1
  <2> HIDE DEF left
  <2>5. push' \in LinkRow
    BY <2>2, <2>3, <2>4 DEF LinkRow
  <2> QED BY <1>0, <1>1, <2>5 DEF OpenLink, PushQuietly
<1>2. CASE LoseLink
  <2>1. push' \in LinkRow
    BY <1>0, <1>2 DEF LoseLink, LinkRow
  <2> QED BY <1>0, <1>2, <2>1 DEF LoseLink, PushQuietly
<1>3. CASE FlushPush
  <2> DEFINE page == Above(Unacked, push.seen)   p == PushAbsorb(push, page, TRUE)
  <2>1. page \in SUBSET Seqs
    BY FetchedIsTyped
  <2>2. push' = [p EXCEPT !.dirty = FALSE]
    BY <1>3 DEF FlushPush
  <2> HIDE DEF page
  <2>3. p \in LinkRow
    BY <1>0, <2>1, AbsorbType
  <2> HIDE DEF p
  <2>4. push' \in LinkRow
    BY <2>2, <2>3 DEF LinkRow
  <2> QED BY <1>0, <1>3, <2>4 DEF FlushPush, PushQuietly
<1>4. CASE KeepPush
  <2> DEFINE left == Above(push.pending, file.cursor)
  <2>1. left \in SUBSET Seqs
    BY <1>0 DEF Above
  <2>2. push' = [push EXCEPT !.pending = left]
    BY <1>4 DEF KeepPush
  <2> HIDE DEF left
  <2>3. push' \in LinkRow
    BY <1>0, <2>1, <2>2 DEF LinkRow
  <2> QED BY <1>0, <1>4, <2>3 DEF KeepPush, PushQuietly
<1>5. CASE MarkPushed
  <2>1. push' \in LinkRow
    BY <1>0, <1>5 DEF MarkPushed, LinkRow
  <2>2. file' \in FileRow /\ file'.cursor >= file.cursor
    BY <1>0, <1>5 DEF MarkPushed, FileRow
  <2> QED BY <1>0, <1>5, <2>1, <2>2 DEF MarkPushed, PushQuietly
<1>6. ASSUME NEW whole \in SUBSET Seqs, SendPush(whole) PROVE PushQuietly
  <2> DEFINE batch == Above(push.pending, file.cursor)
             floor == Lowest(batch \ whole, push.floor)
             to == IF whole = {} THEN [floor |-> floor, target |-> 0] ELSE MarkTarget(Max(whole), file.cursor, floor)
             shown == agent.shown \cup whole
  <2>1. batch \ whole \in SUBSET Seqs /\ shown \in SUBSET Seqs
    BY <1>0 DEF Above, AgentRow
  <2>2. push' = [push EXCEPT !.pending = {}, !.floor = to.floor, !.mark = to.target] /\ agent' = [agent EXCEPT !.shown = shown]
        /\ UNCHANGED <<mail, file, hook, pump>>
    BY <1>6 DEF SendPush
  <2> HIDE DEF batch
  <2>3. floor \in Nat
    BY <1>0, <2>1, LowestType
  <2> HIDE DEF floor, shown
  <2>4. to.floor \in Nat /\ to.target \in Nat
    <3>1. CASE whole = {}
      BY <2>3, <3>1
    <3>2. CASE whole # {}
      <4> DEFINE top == Max(whole)   stands == floor # 0 /\ floor > file.cursor
                 target == IF stands THEN Min({top, floor - 1}) ELSE top
      <4>1. top \in Nat
        BY <3>2, PageMax
      <4> HIDE DEF top
      <4>2. stands => floor - 1 \in Nat
        BY <2>3
      <4>3. stands => Min({top, floor - 1}) \in Nat
        <5> SUFFICES ASSUME stands PROVE Min({top, floor - 1}) \in Nat
          OBVIOUS
        <5>1. {top, floor - 1} \in SUBSET Nat /\ {top, floor - 1} # {}
          BY <4>1, <4>2
        <5> QED BY <5>1, LeastExists
      <4>4. target \in Nat
        BY <4>1, <4>3
      <4>5. to = [floor |-> IF stands THEN floor ELSE 0, target |-> IF top # 0 /\ target > file.cursor THEN target ELSE 0]
        BY <3>2 DEF MarkTarget, top
      <4> HIDE DEF stands, target, to
      <4> QED BY <2>3, <4>4, <4>5
    <3> QED BY <3>1, <3>2
  <2> HIDE DEF to
  <2>5. push' \in LinkRow
    BY <1>0, <2>2, <2>4 DEF LinkRow
  <2>6. agent' \in AgentRow /\ agent'.times = agent.times /\ agent'.late = agent.late
    BY <1>0, <2>1, <2>2 DEF AgentRow
  <2> QED BY <1>0, <2>2, <2>5, <2>6 DEF PushQuietly
<1> QED BY <1>1, <1>2, <1>3, <1>4, <1>5, <1>6 DEF PushStep

LEMMA PushKeeps == ASSUME SessionTypes, PushStep PROVE SessionTypes' /\ (ShownOnce => ShownOnce')
<1>1. PushQuietly
  BY PushSteps
<1>2. SessionTypes'
  BY <1>1 DEF PushQuietly, SessionTypes, AgentOK, MailOK, PumpOK
<1>3. \A m \in Seqs : m <= file.cursor => m <= file'.cursor
  BY <1>1 DEF PushQuietly, SessionTypes, FileRow, Seqs
<1> QED BY <1>1, <1>2, <1>3 DEF PushQuietly, ShownOnce

-----------------------------------------------------------------------------
(* Sessions: the theorems.                                                     *)

LEMMA SessionInitially == SessionInit => SessionTypes /\ ShownOnce /\ PullInv
<1> SUFFICES ASSUME SessionInit PROVE SessionTypes /\ ShownOnce /\ PullInv
  OBVIOUS
<1>1. mail \in MailRow /\ Len(mail.channel) = 0 /\ mail.channel = <<>>
  BY DEF SessionInit, MailRow
<1>2. file \in FileRow /\ file.cursor = 0
  BY DEF SessionInit, FileRow
<1>3. push \in LinkRow
  BY DEF SessionInit, LinkRow
<1>4. pump \in PumpRow /\ pump.stage = "poll" /\ pump.got = {}
  BY DEF SessionInit, PumpRow
<1>5. agent \in AgentRow /\ agent.late = {} /\ agent.read = 0 /\ \A m \in Seqs : agent.times[m] = 0
  BY DEF SessionInit, AgentRow
<1>6. hook \in [Runs -> HookRow] /\ \A r \in Runs : hook[r].got = {}
  BY RestRows DEF SessionInit, Idle
<1>7. Posted = {}
  BY <1>1 DEF Posted
<1>8. SessionTypes
  BY <1>1, <1>2, <1>3, <1>4, <1>5, <1>6, SessionAssumption DEF SessionTypes, MailOK, PumpOK, AgentOK
<1>9. ShownOnce
  BY <1>5 DEF ShownOnce
<1>10. PullInv
  BY <1>1, <1>2, <1>4, <1>5, <1>6, <1>7 DEF PullInv, WithinMail, MarkHidesNothing, ReadIsAll, HeldIsAll, NoGap, CommitIsAll
<1> QED BY <1>8, <1>9, <1>10

LEMMA HookStepKeeps ==
    ASSUME SessionTypes, NEW r \in Runs, HookStep(r, HookKinds)
    PROVE  SessionTypes' /\ (ShownOnce => ShownOnce') /\ (PullInv => PullInv')
<1>1. CASE \/ \E kind \in HookKinds : StartHook(r, kind)
           \/ LockSession(r) \/ FetchLocked(r) \/ SilentWithLock(r) \/ TakeOwnership(r) \/ PollRound(r)
           \/ RefusedWake(r) \/ HookFails(r) \/ (\E again \in BOOLEAN : EmptyRound(r, again))
  BY <1>1, HookQuietSteps, QuietKeeps
<1>2. CASE AbsorbToolResult(r)
  BY <1>2, AbsorbKeeps
<1>3. CASE \E source \in {"startup", "compact"} : SessionStart(r, source)
  BY <1>3, StartKeeps
<1>4. CASE \E page \in SUBSET Seqs : DeliverWithLock(r, page) \/ DeliverWake(r, page)
  BY <1>4, DeliverSteps, DeliverKeeps
<1> QED BY <1>1, <1>2, <1>3, <1>4 DEF HookStep

LEMMA PullStepKeeps ==
    ASSUME SessionTypes, PullNext PROVE SessionTypes' /\ (ShownOnce => ShownOnce') /\ (PullInv => PullInv')
<1>1. CASE MailStep
  BY <1>1, ArrivesKeeps, JoinKeeps, AckKeeps, MailGrowsKeeps DEF MailStep
<1>2. CASE AgentStep
  BY <1>2, ReadKeeps DEF AgentStep
<1>3. CASE PumpStep
  BY <1>3, PollingKeeps, AnswerKeeps, CommitBatchKeeps DEF PumpStep
<1>4. CASE \E r \in Runs : HookStep(r, HookKinds)
  BY <1>4, HookStepKeeps
<1> QED BY <1>1, <1>2, <1>3, <1>4 DEF PullNext

LEMMA SessionIdle ==
    ASSUME UNCHANGED sessionVars
    PROVE  (SessionTypes => SessionTypes') /\ (ShownOnce => ShownOnce') /\ (PullInv => PullInv')
<1>1. UNCHANGED <<mail, file, hook, push, pump, agent>>
  BY DEF sessionVars
<1>2. Posted' = Posted /\ \A m : Accounted(m)' <=> Accounted(m)
  BY <1>1 DEF Posted, Accounted, Excused, Unacked, InInbox
<1>3. SessionTypes => SessionTypes'
  BY <1>1 DEF SessionTypes, MailOK, PumpOK, AgentOK
<1>4. ShownOnce => ShownOnce'
  BY <1>1 DEF ShownOnce
<1>5. PullInv => PullInv'
  BY <1>1, <1>2 DEF PullInv, WithinMail, MarkHidesNothing, ReadIsAll, HeldIsAll, NoGap, CommitIsAll, Accounted
<1> QED BY <1>3, <1>4, <1>5

\* However many hooks of a session run at once, and whatever pump and push do to the cursor they share, no hook
\* shows a message that a hook has shown in this context (`SessionState::lock`, `filter_new`).
THEOREM HooksNeverRepeat == SessionSpec => []HooksDeliverOnce
<1> DEFINE Inv == SessionTypes /\ ShownOnce
<1>1. SessionInit => Inv
  BY SessionInitially
<1>2. Inv /\ [SessionNext]_sessionVars => Inv'
  BY PullStepKeeps, PushKeeps, SessionIdle DEF SessionNext
<1>3. Inv => HooksDeliverOnce
  BY DEF ShownOnce, HooksDeliverOnce
<1> QED BY <1>1, <1>2, <1>3, PTL DEF SessionSpec

LEMMA PullSafe == PullSpec => [](SessionTypes /\ PullInv)
<1> DEFINE Inv == SessionTypes /\ PullInv
<1>1. SessionInit => Inv
  BY SessionInitially
<1>2. Inv /\ [PullNext]_sessionVars => Inv'
  BY PullStepKeeps, SessionIdle
<1> QED BY <1>1, <1>2, PTL DEF PullSpec

\* A step that moves the cursor on leaves the inbox and the excuses alone.
LEMMA CursorMovesAlone ==
    ASSUME SessionTypes, PullNext
    PROVE  \/ file'.cursor <= file.cursor
           \/ mail' = mail /\ agent'.skipped = agent.skipped /\ agent'.late = agent.late
<1>0. file \in FileRow /\ file.cursor \in Nat
  BY DEF SessionTypes, FileRow
<1>1. CASE MailStep \/ AgentStep
  <2>1. file' = file
    BY <1>1 DEF MailStep, AgentStep, Arrives, JoinOther, AckMessage, AgentReads
  <2> QED BY <1>0, <2>1
<1>2. CASE PumpStep
  <2>1. file' = file \/ UNCHANGED <<mail, agent>>
    BY <1>2 DEF PumpStep, PumpFetch, PumpPause, Offer, Accepted, Refused, PumpCommit
  <2> QED BY <1>0, <2>1
<1>3. ASSUME NEW r \in Runs, HookStep(r, HookKinds)
      PROVE  file'.cursor <= file.cursor \/ (mail' = mail /\ agent'.skipped = agent.skipped /\ agent'.late = agent.late)
  <2>1. CASE \/ \E kind \in HookKinds : StartHook(r, kind)
             \/ LockSession(r) \/ FetchLocked(r) \/ SilentWithLock(r) \/ TakeOwnership(r) \/ PollRound(r)
             \/ RefusedWake(r) \/ HookFails(r) \/ (\E again \in BOOLEAN : EmptyRound(r, again))
    BY <2>1, HookQuietSteps DEF HookQuietly
  <2>2. CASE AbsorbToolResult(r)
    BY <2>2 DEF AbsorbToolResult
  <2>3. CASE \E source \in {"startup", "compact"} : SessionStart(r, source)
    <3>1. PICK c \in {file.cursor, 0} : file' = [file EXCEPT !.cursor = c, !.blocks = 0]
      BY <2>3 DEF SessionStart
    <3> QED BY <1>0, <3>1 DEF FileRow
  <2>4. CASE \E page \in SUBSET Seqs : DeliverWithLock(r, page) \/ DeliverWake(r, page)
    BY <2>4, DeliverSteps DEF HookDelivers
  <2> QED BY <1>3, <2>1, <2>2, <2>3, <2>4 DEF HookStep
<1> QED BY <1>1, <1>2, <1>3 DEF PullNext

\* Hooks and pump never put a message behind the cursor that the agent has not been shown, unless it is acked,
\* came with a channel joined late, or was refused by the driver up to the cap; so it is the push alone that
\* can hide one (`last_seq`, `commit_cursor`).
THEOREM PullHidesNothing == PullSpec => PullRungsHideNothing
<1> DEFINE Inv == SessionTypes /\ PullInv
           Passes == \A m \in Posted : file.cursor < m /\ m <= file'.cursor => m \in agent.shown' \cup Excused
<1>1. Inv /\ Inv' /\ [PullNext]_sessionVars => [Passes]_sessionVars
  <2> SUFFICES ASSUME Inv, Inv', PullNext, NEW m \in Posted, file.cursor < m, m <= file'.cursor
               PROVE  m \in agent.shown' \cup Excused
    OBVIOUS
  <2>1. file.cursor \in Nat /\ file'.cursor \in Nat /\ m \in Nat
    BY MailFacts DEF SessionTypes, FileRow
  <2>2. mail' = mail /\ agent'.skipped = agent.skipped /\ agent'.late = agent.late
    BY <2>1, CursorMovesAlone
  <2>3. Posted' = Posted /\ Excused' = Excused
    BY <2>2 DEF Posted, Excused, Unacked, InInbox
  <2>4. m \in agent.shown' \cup Excused'
    BY <2>3 DEF PullInv, MarkHidesNothing
  <2> QED BY <2>3, <2>4
<1>2. [Passes]_sessionVars => [push.mark' # 0 \/ push.mark = push.mark' => Passes]_sessionVars
  OBVIOUS
<1> QED BY <1>1, <1>2, PullSafe, PTL DEF PullSpec, PullRungsHideNothing

-----------------------------------------------------------------------------
(* Ladder: a rung counted as tried was the message's turn.                      *)

EntryRow == [state : {"new", "tracked", "acked"}, queued : BOOLEAN, tried : Nat, last : Nat, spent : BOOLEAN]
HostRow  == [stage : {"new", "init", "ready"}, harness : {"unknown", "claude", "codex"}]
LadderTypes(h, t, g, c) ==
    /\ c \in Nat /\ h \in HostRow
    /\ t \in [ladder : Seq(Rungs), entry : [Letters -> EntryRow]]
    /\ g \in [had : [Letters -> SUBSET Rungs], synced : BOOLEAN]

\* The push is on for a session of Claude Code that is ready.
PushOn(h) == h.stage = "ready" /\ h.harness = "claude"

\* A rung tried was the message's turn, but for one that was pushed since the last tick: it counts
\* one rung, the push, and the ladder it is kept for may not begin with the push.
RungsHad(e, ladder, had, synced, on) ==
    /\ e.state = "new" => e.tried = 0
    /\ e.queued => on
    /\ e.state = "tracked" => \/ InPrefix(ladder, e.tried) \subseteq had
                              \/ ~synced /\ on /\ e.tried = 1 /\ "push" \in had

LadderOk(h, t, g) ==
    \A x \in Letters : RungsHad(t.entry[x], t.ladder, g.had[x], g.synced, PushOn(h))

LadderInv == LadderTypes(host, track, hist, clock) /\ LadderOk(host, track, hist)

LEMMA PrefixMembers ==
  ASSUME NEW s \in Seq(Rungs), NEW n \in Nat
  PROVE  /\ InPrefix(s, n) \subseteq Rungs
         /\ \A m : m \in InPrefix(s, n) <=> \E k \in 1..Len(s) : k <= n /\ m = s[k]
<1> DEFINE b == Min({n, Len(s)})
<1>1. b \in Nat /\ b <= n /\ b <= Len(s) /\ (b = n \/ b = Len(s))
  <2>1. {n, Len(s)} \in SUBSET Nat /\ {n, Len(s)} # {}
    OBVIOUS
  <2>2. b \in {n, Len(s)} /\ \A y \in {n, Len(s)} : b <= y
    BY <2>1, LeastExists
  <2> QED BY <2>2
<1> HIDE DEF b
<1>2. SubSeq(s, 1, b) \in Seq(Rungs) /\ Len(SubSeq(s, 1, b)) = b /\ \A k \in 1..b : SubSeq(s, 1, b)[k] = s[k]
  BY <1>1
<1>3. InPrefix(s, n) = {s[k] : k \in 1..b}
  <2>1. InPrefix(s, n) = {SubSeq(s, 1, b)[k] : k \in DOMAIN SubSeq(s, 1, b)}
    BY DEF InPrefix, ToSet, b
  <2>2. DOMAIN SubSeq(s, 1, b) = 1..b
    BY <1>2
  <2> QED BY <2>1, <2>2, <1>2
<1>4. \A k \in 1..b : s[k] \in Rungs
  BY <1>1
<1>5. \A k : k \in 1..b <=> k \in 1..Len(s) /\ k <= n
  BY <1>1
<1> QED BY <1>3, <1>4, <1>5

\* A change of the ladder keeps only rungs that were tried.
LEMMA StillTriedFacts ==
  ASSUME NEW old \in Seq(Rungs), NEW new \in Seq(Rungs), NEW n \in Nat
  PROVE  /\ StillTried(old, new, n) \in Nat
         /\ InPrefix(new, StillTried(old, new, n)) \subseteq InPrefix(old, n)
         /\ n = 0 => StillTried(old, new, n) = 0
         /\ StillTried(old, new, n) <= Len(new)
<1> DEFINE S == {k \in 0..Len(new) : \A j \in 1..k : new[j] \in InPrefix(old, n)}
           r == Max(S)
<1>1. S \in SUBSET (0..Len(new)) /\ S # {} /\ Len(new) \in Nat
  <2>1. 0 \in S
    OBVIOUS
  <2> QED BY <2>1
<1>2. r \in S
  BY <1>1, GreatestExists
<1>3. StillTried(old, new, n) = r
  BY DEF StillTried
<1>4. r \in Nat /\ r <= Len(new) /\ \A j \in 1..r : new[j] \in InPrefix(old, n)
  BY <1>2
<1> HIDE DEF r, S
<1>5. InPrefix(new, r) \subseteq InPrefix(old, n)
  BY <1>4, PrefixMembers
<1>6. n = 0 => r = 0
  <2>1. SUFFICES ASSUME n = 0, r # 0 PROVE FALSE
    OBVIOUS
  <2>2. new[1] \in InPrefix(old, 0)
    BY <1>4, <2>1
  <2>3. \E k \in 1..Len(old) : k <= 0
    BY <2>2, PrefixMembers
  <2> QED BY <2>3
<1> QED BY <1>3, <1>4, <1>5, <1>6

\* A tick fires the rungs from the next one on, and counts no other.
LEMMA FiredFacts ==
  ASSUME NEW s \in Seq(Rungs), NEW e \in EntryRow
  PROVE  /\ FiredTo(s, e) \in Nat
         /\ FiredTo(s, e) = e.tried \/ (e.tried < FiredTo(s, e) /\ FiredTo(s, e) <= Len(s))
<1>1. e.tried \in Nat /\ Len(s) \in Nat
  BY DEF EntryRow
<1>2. CASE e.tried >= Len(s) \/ ~Due(s, e)
  BY <1>1, <1>2 DEF FiredTo
<1>3. CASE ~(e.tried >= Len(s) \/ ~Due(s, e))
  <2> DEFINE S == {k \in e.tried + 1..Len(s) : Waits(s[k])} \cup {Len(s)}
  <2>1. FiredTo(s, e) = Min(S)
    BY <1>3 DEF FiredTo
  <2>2. e.tried < Len(s)
    BY <1>1, <1>3
  <2>3. S \in SUBSET Nat /\ S # {} /\ \A k \in S : e.tried < k /\ k <= Len(s)
    BY <1>1, <2>2
  <2>4. Min(S) \in S
    BY <2>3, LeastExists
  <2> HIDE DEF S
  <2> QED BY <2>1, <2>3, <2>4
<1> QED BY <1>2, <1>3

LEMMA PrefixGrows ==
  ASSUME NEW s \in Seq(Rungs), NEW n \in Nat, NEW k \in Nat, n = k \/ (n < k /\ k <= Len(s))
  PROVE  InPrefix(s, k) \subseteq InPrefix(s, n) \cup {s[i] : i \in n + 1..k}
<1>1. ASSUME NEW m \in InPrefix(s, k), m \notin InPrefix(s, n) PROVE m \in {s[i] : i \in n + 1..k}
  <2>1. PICK i \in 1..Len(s) : i <= k /\ m = s[i]
    BY PrefixMembers
  <2>2. ~(i <= n)
    BY <1>1, <2>1, PrefixMembers
  <2>3. i \in n + 1..k
    BY <2>1, <2>2
  <2> QED BY <2>1, <2>3
<1> QED BY <1>1

LEMMA IfOnType == \A m \in Rungs : \A on : IfOn(m, on) \in Seq(Rungs)
  BY DEF IfOn

\* With the push a session of Claude Code tries it first.
LEMMA LadderOfType ==
  ASSUME NEW harness, NEW on
  PROVE  /\ LadderOf(harness, on) \in Seq(Rungs)
         /\ harness = "claude" /\ on = TRUE => LadderOf(harness, on)[1] = "push" /\ LadderOf(harness, on) # <<>>
<1> DEFINE hooks == IfOn("stop", on) \o IfOn("inject", on) \o <<"wait">>
<1>1. "push" \in Rungs /\ "mod" \in Rungs /\ "rewake" \in Rungs /\ "owned" \in Rungs /\ "stop" \in Rungs
      /\ "inject" \in Rungs /\ "wait" \in Rungs
  BY DEF Rungs
<1>2. hooks \in Seq(Rungs) /\ <<"wait">> \in Seq(Rungs)
  <2>1. IfOn("stop", on) \in Seq(Rungs) /\ IfOn("inject", on) \in Seq(Rungs) /\ <<"wait">> \in Seq(Rungs)
    BY <1>1, IfOnType
  <2> QED BY <2>1
<1>3. IfOn("owned", on) \in Seq(Rungs) /\ IfOn("push", on) \in Seq(Rungs)
      /\ IfOn("mod", on) \in Seq(Rungs) /\ IfOn("rewake", on) \in Seq(Rungs)
  BY <1>1, IfOnType
<1> HIDE DEF hooks
<1>4. IfOn("push", on) \o IfOn("mod", on) \o IfOn("rewake", on) \o hooks \in Seq(Rungs)
      /\ IfOn("owned", on) \o hooks \in Seq(Rungs)
  BY <1>2, <1>3
<1>5. LadderOf(harness, on) =
        CASE harness = "claude" -> IfOn("push", on) \o IfOn("mod", on) \o IfOn("rewake", on) \o hooks
          [] harness = "codex"  -> IfOn("owned", on) \o hooks
          [] harness = "cursor" -> hooks
          [] OTHER              -> <<"wait">>
  BY DEF LadderOf, hooks
<1>6. LadderOf(harness, on) \in Seq(Rungs)
  BY <1>2, <1>4, <1>5
<1>7. ASSUME harness = "claude", on = TRUE
      PROVE  LadderOf(harness, on)[1] = "push" /\ LadderOf(harness, on) # <<>>
  <2>1. IfOn("push", on) = <<"push">>
    BY <1>7 DEF IfOn, OnLadder
  <2>2. LadderOf(harness, on) = IfOn("push", on) \o IfOn("mod", on) \o IfOn("rewake", on) \o hooks
    BY <1>5, <1>7
  <2> HIDE DEF hooks
  <2>3. <<"push">> \in Seq(Rungs) /\ Len(<<"push">>) = 1 /\ <<"push">>[1] = "push"
    BY <1>1
  <2>4. ASSUME NEW a \in Seq(Rungs), NEW b \in Seq(Rungs), NEW c \in Seq(Rungs), NEW p \in Seq(Rungs), Len(p) = 1, p[1] = "push"
        PROVE  (p \o a \o b \o c)[1] = "push" /\ p \o a \o b \o c # <<>>
    <3>0. \A s, u \in Seq(Rungs) : Len(s) >= 1 =>
            s \o u \in Seq(Rungs) /\ Len(s \o u) >= 1 /\ (s \o u)[1] = s[1]
      <4>1. ASSUME NEW s \in Seq(Rungs), NEW u \in Seq(Rungs), Len(s) >= 1
            PROVE  s \o u \in Seq(Rungs) /\ Len(s \o u) >= 1 /\ (s \o u)[1] = s[1]
        <5>1. Len(s \o u) = Len(s) + Len(u) /\ s \o u \in Seq(Rungs)
          OBVIOUS
        <5>2. 1 \in 1..Len(s)
          BY <4>1
        <5>3. (s \o u)[1] = s[1]
          BY <5>1, <5>2
        <5> QED BY <4>1, <5>1, <5>3
      <4> QED BY <4>1
    <3>1. p \o a \in Seq(Rungs) /\ (p \o a)[1] = "push" /\ Len(p \o a) >= 1
      <4>1. Len(p) >= 1
        BY <2>4
      <4>2. (p \o a)[1] = p[1] /\ p \o a \in Seq(Rungs) /\ Len(p \o a) >= 1
        BY <3>0, <4>1
      <4> QED BY <2>4, <4>2
    <3>2. p \o a \o b \in Seq(Rungs) /\ (p \o a \o b)[1] = "push" /\ Len(p \o a \o b) >= 1
      BY <3>0, <3>1
    <3>3. (p \o a \o b \o c)[1] = "push" /\ Len(p \o a \o b \o c) >= 1
      BY <3>0, <3>2
    <3> QED BY <3>3
  <2>5. (<<"push">> \o IfOn("mod", on) \o IfOn("rewake", on) \o hooks)[1] = "push"
        /\ <<"push">> \o IfOn("mod", on) \o IfOn("rewake", on) \o hooks # <<>>
    BY <1>2, <1>3, <2>3, <2>4
  <2> QED BY <2>1, <2>2, <2>5
<1> QED BY <1>6, <1>7

\* After a change of the ladder, to one that begins with the push when the push is on.
LEMMA ReconfiguredOk ==
  ASSUME NEW h \in HostRow, NEW t \in [ladder : Seq(Rungs), entry : [Letters -> EntryRow]],
         NEW g \in [had : [Letters -> SUBSET Rungs], synced : BOOLEAN], LadderOk(h, t, g),
         NEW new \in Seq(Rungs), PushOn(h) => new # <<>> /\ new[1] = "push"
  PROVE  /\ Reconfigured(t, new) \in [ladder : Seq(Rungs), entry : [Letters -> EntryRow]]
         /\ Reconfigured(t, new).ladder = new
         /\ \A x \in Letters :
              LET e == Reconfigured(t, new).entry[x] IN
              /\ e.state = t.entry[x].state /\ e.queued = t.entry[x].queued
              /\ e.state = "new" => e.tried = 0
              /\ e.state = "tracked" => InPrefix(new, e.tried) \subseteq g.had[x]
<1> DEFINE r == Reconfigured(t, new)
<1>0. t.ladder \in Seq(Rungs) /\ t.entry \in [Letters -> EntryRow]
  OBVIOUS
<1>a. ASSUME NEW x \in Letters, t.entry[x].state = "tracked",
             NEW k \in Nat, k <= Len(new), InPrefix(new, k) \subseteq InPrefix(t.ladder, t.entry[x].tried)
      PROVE  InPrefix(new, k) \subseteq g.had[x]
  <2>1. RungsHad(t.entry[x], t.ladder, g.had[x], g.synced, PushOn(h))
    BY DEF LadderOk
  <2>2. CASE InPrefix(t.ladder, t.entry[x].tried) \subseteq g.had[x]
    BY <1>a, <2>2
  <2>3. CASE PushOn(h) /\ t.entry[x].tried = 1 /\ "push" \in g.had[x]
    <3>1. ASSUME NEW m \in InPrefix(new, k) PROVE m = "push"
      <4>1. PICK j \in 1..Len(new) : j <= k /\ m = new[j]
        BY <1>a, PrefixMembers
      <4>2. new[1] = "push" /\ 1 \in 1..Len(new) /\ 1 <= k
        BY <1>a, <2>3, <4>1
      <4>3. "push" \in InPrefix(new, k)
        BY <1>a, <4>2, PrefixMembers
      <4>4. "push" \in InPrefix(t.ladder, 1) /\ m \in InPrefix(t.ladder, 1)
        BY <1>a, <2>3, <3>1, <4>3
      <4>5. \A z \in InPrefix(t.ladder, 1) : z = t.ladder[1]
        BY <1>0, PrefixMembers
      <4> QED BY <4>4, <4>5
    <3> QED BY <3>1, <2>3
  <2> QED BY <1>a, <2>1, <2>2, <2>3 DEF RungsHad
<1>1. CASE new = t.ladder
  <2>1. r = t
    BY <1>1 DEF Reconfigured
  <2>2. ASSUME NEW x \in Letters, t.entry[x].state = "tracked" PROVE InPrefix(new, t.entry[x].tried) \subseteq g.had[x]
    <3>1. RungsHad(t.entry[x], t.ladder, g.had[x], g.synced, PushOn(h))
      BY DEF LadderOk
    <3>2. CASE InPrefix(t.ladder, t.entry[x].tried) \subseteq g.had[x]
      BY <1>1, <3>2
    <3>3. CASE PushOn(h) /\ t.entry[x].tried = 1 /\ "push" \in g.had[x]
      <4>1. new[1] = "push"
        BY <3>3
      <4>2. \A z \in InPrefix(new, 1) : z = new[1]
        BY PrefixMembers
      <4> QED BY <3>3, <4>1, <4>2
    <3> QED BY <2>2, <3>1, <3>2, <3>3 DEF RungsHad
  <2>3. \A x \in Letters : t.entry[x].state = "new" => t.entry[x].tried = 0
    BY DEF LadderOk, RungsHad
  <2> HIDE DEF r
  <2> QED BY <1>1, <2>1, <2>2, <2>3 DEF r
<1>2. CASE new # t.ladder
  <2> DEFINE E == [x \in Letters |-> [t.entry[x] EXCEPT !.tried = StillTried(t.ladder, new, t.entry[x].tried), !.spent = FALSE]]
  <2>1. r = [ladder |-> new, entry |-> E]
    BY <1>2 DEF Reconfigured
  <2>2. ASSUME NEW x \in Letters
        PROVE  /\ E[x] \in EntryRow /\ E[x].state = t.entry[x].state /\ E[x].queued = t.entry[x].queued
               /\ E[x].state = "new" => E[x].tried = 0
               /\ E[x].state = "tracked" => InPrefix(new, E[x].tried) \subseteq g.had[x]
    <3> DEFINE k == StillTried(t.ladder, new, t.entry[x].tried)
    <3>1. t.entry[x] \in EntryRow /\ t.entry[x].tried \in Nat
      BY <1>0 DEF EntryRow
    <3>2. /\ k \in Nat /\ InPrefix(new, k) \subseteq InPrefix(t.ladder, t.entry[x].tried)
          /\ (t.entry[x].tried = 0 => k = 0) /\ k <= Len(new)
      BY <1>0, <3>1, StillTriedFacts
    <3>3. E[x] = [t.entry[x] EXCEPT !.tried = k, !.spent = FALSE]
      OBVIOUS
    <3> HIDE DEF k, E
    <3>4. E[x] \in EntryRow /\ E[x].tried = k /\ E[x].state = t.entry[x].state /\ E[x].queued = t.entry[x].queued
      BY <3>1, <3>2, <3>3 DEF EntryRow
    <3>5. t.entry[x].state = "new" => t.entry[x].tried = 0
      BY DEF LadderOk, RungsHad
    <3>6. t.entry[x].state = "tracked" => InPrefix(new, k) \subseteq g.had[x]
      BY <1>a, <3>2
    <3> QED BY <3>2, <3>4, <3>5, <3>6
  <2>3. E \in [Letters -> EntryRow]
    BY <2>2
  <2> HIDE DEF E, r
  <2>4. r \in [ladder : Seq(Rungs), entry : [Letters -> EntryRow]] /\ r.ladder = new /\ r.entry = E
    BY <2>1, <2>3
  <2> QED BY <2>2, <2>4 DEF r
<1> QED BY <1>1, <1>2

\* One message's share of a tick.
LEMMA TickedOk ==
  ASSUME NEW s \in Seq(Rungs), NEW e \in EntryRow, NEW had \in SUBSET Rungs, clock \in Nat,
         e.state = "tracked", InPrefix(s, e.tried) \subseteq had
  PROVE  /\ Ticked(s, e) \in EntryRow /\ Ticked(s, e).state = "tracked" /\ Ticked(s, e).queued = e.queued
         /\ had \cup {s[k] : k \in e.tried + 1..FiredTo(s, e)} \in SUBSET Rungs
         /\ InPrefix(s, Ticked(s, e).tried) \subseteq had \cup {s[k] : k \in e.tried + 1..FiredTo(s, e)}
<1> DEFINE k == FiredTo(s, e)
<1>1. k \in Nat /\ (k = e.tried \/ (e.tried < k /\ k <= Len(s))) /\ e.tried \in Nat
  BY FiredFacts DEF EntryRow
<1>2. Ticked(s, e) = [e EXCEPT !.tried = k, !.last = IF k > e.tried THEN clock ELSE e.last, !.spent = e.spent \/ k >= Len(s)]
  BY DEF Ticked
<1> HIDE DEF k
<1>3. (IF k > e.tried THEN clock ELSE e.last) \in Nat /\ (e.spent \/ k >= Len(s)) \in BOOLEAN
  BY DEF EntryRow
<1>4. Ticked(s, e) \in EntryRow /\ Ticked(s, e).state = e.state /\ Ticked(s, e).queued = e.queued /\ Ticked(s, e).tried = k
  BY <1>1, <1>2, <1>3 DEF EntryRow
<1>5. InPrefix(s, k) \subseteq InPrefix(s, e.tried) \cup {s[i] : i \in e.tried + 1..k}
  BY <1>1, PrefixGrows
<1>6. \A i \in e.tried + 1..k : s[i] \in Rungs
  <2>1. \A i \in e.tried + 1..k : i \in 1..Len(s)
    BY <1>1
  <2> QED BY <2>1
<1> QED BY <1>4, <1>5, <1>6 DEF k

LEMMA LadderStep == LadderInv /\ [LadderTick \/ LadderEvent \/ TimePasses]_ladderVars => LadderInv'
<1> SUFFICES ASSUME LadderInv, [LadderTick \/ LadderEvent \/ TimePasses]_ladderVars PROVE LadderInv'
  OBVIOUS
<1>0. /\ clock \in Nat /\ host \in HostRow
      /\ track \in [ladder : Seq(Rungs), entry : [Letters -> EntryRow]] /\ hist \in [had : [Letters -> SUBSET Rungs], synced : BOOLEAN]
      /\ LadderOk(host, track, hist)
  BY DEF LadderInv, LadderTypes
<1>t. /\ track.ladder \in Seq(Rungs) /\ track.entry \in [Letters -> EntryRow] /\ hist.had \in [Letters -> SUBSET Rungs]
      /\ \A x \in Letters : track.entry[x] \in EntryRow /\ hist.had[x] \in SUBSET Rungs
  BY <1>0
<1>p. PushEnabled = PushOn(host) /\ PushEnabled \in BOOLEAN
  BY DEF PushEnabled, PushOn
<1>1. CASE LadderTick
  <2> DEFINE t == Reconfigured(track, LadderNow(PushEnabled))
             Had(x) == hist.had[x] \cup {t.ladder[k] : k \in t.entry[x].tried + 1..FiredTo(t.ladder, t.entry[x])}
  <2>1. /\ track' = [t EXCEPT !.entry = [x \in Letters |-> IF x \in Tracked THEN Ticked(t.ladder, t.entry[x]) ELSE t.entry[x]]]
        /\ hist' = [hist EXCEPT !.synced = TRUE, !.had = [x \in Letters |-> IF x \notin Tracked THEN hist.had[x] ELSE Had(x)]]
        /\ UNCHANGED <<clock, host>>
    BY <1>1 DEF LadderTick
  <2>2. LadderNow(PushEnabled) \in Seq(Rungs)
        /\ (PushOn(host) => LadderNow(PushEnabled) # <<>> /\ LadderNow(PushEnabled)[1] = "push")
    <3>1. PushOn(host) => host.harness = "claude" /\ PushEnabled = TRUE
      BY DEF PushOn, PushEnabled
    <3> QED BY <3>1, LadderOfType DEF LadderNow
  <2>3. /\ t \in [ladder : Seq(Rungs), entry : [Letters -> EntryRow]]
        /\ t.ladder = LadderNow(PushEnabled)
        /\ \A x \in Letters :
              /\ t.entry[x].state = track.entry[x].state /\ t.entry[x].queued = track.entry[x].queued
              /\ t.entry[x].state = "new" => t.entry[x].tried = 0
              /\ t.entry[x].state = "tracked" => InPrefix(t.ladder, t.entry[x].tried) \subseteq hist.had[x]
    BY <1>0, <2>2, ReconfiguredOk
  <2> DEFINE E == [x \in Letters |-> IF x \in Tracked THEN Ticked(t.ladder, t.entry[x]) ELSE t.entry[x]]
             G == [x \in Letters |-> IF x \notin Tracked THEN hist.had[x] ELSE Had(x)]
  <2> HIDE DEF t
  <2>4. t.ladder \in Seq(Rungs) /\ \A x \in Letters : t.entry[x] \in EntryRow
    BY <2>3
  <2>5. ASSUME NEW x \in Letters
        PROVE  E[x] \in EntryRow /\ G[x] \in SUBSET Rungs /\ RungsHad(E[x], t.ladder, G[x], TRUE, PushOn(host))
    <3>0. track.entry[x].queued => PushOn(host)
      BY <1>0 DEF LadderOk, RungsHad
    <3>1. CASE x \in Tracked
      <4>1. t.entry[x].state = "tracked" /\ InPrefix(t.ladder, t.entry[x].tried) \subseteq hist.had[x]
        BY <2>3, <3>1 DEF Tracked
      <4>2. E[x] = Ticked(t.ladder, t.entry[x]) /\ G[x] = Had(x)
        BY <3>1
      <4>h. clock \in Nat /\ hist.had[x] \in SUBSET Rungs /\ t.ladder \in Seq(Rungs) /\ t.entry[x] \in EntryRow
        BY <1>0, <1>t, <2>4
      <4>3. /\ E[x] \in EntryRow /\ E[x].state = "tracked" /\ E[x].queued = t.entry[x].queued
            /\ G[x] \in SUBSET Rungs /\ InPrefix(t.ladder, E[x].tried) \subseteq G[x]
        BY <4>h, <4>1, <4>2, TickedOk
      <4> HIDE DEF E, G
      <4>4. E[x].queued => PushOn(host)
        BY <2>3, <3>0, <4>3
      <4> QED BY <4>3, <4>4 DEF RungsHad
    <3>2. CASE x \notin Tracked
      <4>1. E[x] = t.entry[x] /\ G[x] = hist.had[x]
        BY <3>2
      <4>2. t.entry[x].state # "tracked"
        BY <2>3, <3>2 DEF Tracked
      <4> HIDE DEF E, G
      <4> QED BY <1>t, <2>3, <2>4, <3>0, <4>1, <4>2 DEF RungsHad
    <3> QED BY <3>1, <3>2
  <2>6. E \in [Letters -> EntryRow] /\ G \in [Letters -> SUBSET Rungs]
    BY <2>5
  <2>7. track' = [t EXCEPT !.entry = E] /\ hist' = [hist EXCEPT !.synced = TRUE, !.had = G]
    BY <2>1
  <2> HIDE DEF E, G
  <2>8. /\ track' \in [ladder : Seq(Rungs), entry : [Letters -> EntryRow]] /\ track'.entry = E /\ track'.ladder = t.ladder
        /\ hist' \in [had : [Letters -> SUBSET Rungs], synced : BOOLEAN] /\ hist'.had = G /\ hist'.synced = TRUE
    BY <1>0, <2>3, <2>6, <2>7
  <2>9. LadderTypes(host, track, hist, clock)'
    BY <1>0, <2>1, <2>8 DEF LadderTypes
  <2>10. LadderOk(host, track, hist)'
    BY <2>1, <2>5, <2>8 DEF LadderOk
  <2> QED BY <2>9, <2>10 DEF LadderInv
<1>2. ASSUME NEW x \in Letters, OnSeen(x) PROVE LadderInv'
  <2>1. /\ track' = [track EXCEPT !.entry = [track.entry EXCEPT ![x] = [track.entry[x] EXCEPT !.state = "tracked", !.queued = PushEnabled]]]
        /\ hist' = [hist EXCEPT !.synced = FALSE] /\ UNCHANGED <<clock, host>> /\ track.entry[x].state = "new"
    BY <1>2, <1>t DEF OnSeen
  <2> DEFINE e == [track.entry[x] EXCEPT !.state = "tracked", !.queued = PushEnabled]
  <2>2. e \in EntryRow /\ e.state = "tracked" /\ e.queued = PushEnabled /\ e.tried = track.entry[x].tried
    BY <1>t, <1>p DEF EntryRow
  <2>3. e.tried = 0
    BY <1>0, <2>1, <2>2 DEF LadderOk, RungsHad
  <2> HIDE DEF e
  <2>4. InPrefix(track.ladder, 0) = {}
    <3>1. \A m : m \in InPrefix(track.ladder, 0) => \E k \in 1..Len(track.ladder) : k <= 0
      BY <1>t, PrefixMembers
    <3>2. ~\E k \in 1..Len(track.ladder) : k <= 0
      BY <1>t
    <3> QED BY <3>1, <3>2
  <2>5. /\ track' \in [ladder : Seq(Rungs), entry : [Letters -> EntryRow]] /\ track'.ladder = track.ladder
        /\ \A y \in Letters : track'.entry[y] = IF y = x THEN e ELSE track.entry[y]
        /\ hist' \in [had : [Letters -> SUBSET Rungs], synced : BOOLEAN] /\ hist'.had = hist.had /\ hist'.synced = FALSE
    BY <1>0, <1>t, <2>1, <2>2 DEF e
  <2>6. LadderTypes(host, track, hist, clock)'
    BY <1>0, <2>1, <2>5 DEF LadderTypes
  <2>7. ASSUME NEW y \in Letters
        PROVE  RungsHad(track'.entry[y], track'.ladder, hist'.had[y], hist'.synced, PushOn(host'))
    <3>1. CASE y = x
      BY <1>p, <2>1, <2>2, <2>3, <2>4, <2>5, <3>1 DEF RungsHad
    <3>2. CASE y # x
      BY <1>0, <2>1, <2>5, <3>2 DEF RungsHad, LadderOk
    <3> QED BY <3>1, <3>2
  <2> QED BY <2>6, <2>7 DEF LadderInv, LadderOk
<1>3. ASSUME NEW x \in Letters, OnAcked(x) PROVE LadderInv'
  <2>1. /\ track' = [track EXCEPT !.entry = [track.entry EXCEPT ![x] = [track.entry[x] EXCEPT !.state = "acked"]]]
        /\ UNCHANGED <<clock, host, hist>>
    BY <1>3, <1>t DEF OnAcked
  <2> DEFINE e == [track.entry[x] EXCEPT !.state = "acked"]
  <2>2. e \in EntryRow /\ e.state = "acked" /\ e.queued = track.entry[x].queued
    BY <1>t DEF EntryRow
  <2> HIDE DEF e
  <2>5. /\ track' \in [ladder : Seq(Rungs), entry : [Letters -> EntryRow]] /\ track'.ladder = track.ladder
        /\ \A y \in Letters : track'.entry[y] = IF y = x THEN e ELSE track.entry[y]
    BY <1>0, <1>t, <2>1, <2>2 DEF e
  <2>6. LadderTypes(host, track, hist, clock)'
    BY <1>0, <2>1, <2>5 DEF LadderTypes
  <2>7. ASSUME NEW y \in Letters
        PROVE  RungsHad(track'.entry[y], track'.ladder, hist'.had[y], hist'.synced, PushOn(host'))
    <3>1. CASE y = x
      BY <1>0, <2>1, <2>2, <2>5, <3>1 DEF RungsHad, LadderOk
    <3>2. CASE y # x
      BY <1>0, <2>1, <2>5, <3>2 DEF RungsHad, LadderOk
    <3> QED BY <3>1, <3>2
  <2> QED BY <2>6, <2>7 DEF LadderInv, LadderOk
<1>4. CASE SendNotification
  <2> DEFINE E == [x \in Letters |-> IF x \in Queued
                       THEN [track.entry[x] EXCEPT !.queued = FALSE, !.tried = Max({track.entry[x].tried, 1}), !.last = clock]
                       ELSE track.entry[x]]
             G == [x \in Letters |-> IF x \in Queued THEN hist.had[x] \cup {"push"} ELSE hist.had[x]]
  <2>1. /\ track' = [track EXCEPT !.entry = E] /\ hist' = [hist EXCEPT !.synced = FALSE, !.had = G]
        /\ UNCHANGED <<clock, host>>
    BY <1>4 DEF SendNotification
  <2>2. ASSUME NEW x \in Letters
        PROVE  E[x] \in EntryRow /\ G[x] \in SUBSET Rungs /\ RungsHad(E[x], track.ladder, G[x], FALSE, PushOn(host))
    <3>0. RungsHad(track.entry[x], track.ladder, hist.had[x], hist.synced, PushOn(host)) /\ track.entry[x] \in EntryRow
          /\ hist.had[x] \in SUBSET Rungs /\ track.entry[x].tried \in Nat
      BY <1>0, <1>t DEF LadderOk, EntryRow
    <3>1. CASE x \in Queued
      <4> DEFINE k == Max({track.entry[x].tried, 1})
      <4>1. k \in Nat /\ (k = track.entry[x].tried \/ k = 1)
        BY <3>0, MaxOfTwo
      <4>a. track.entry[x].tried # 0 => k = track.entry[x].tried
        BY <3>0, MaxOfTwo
      <4>2. E[x] = [track.entry[x] EXCEPT !.queued = FALSE, !.tried = k, !.last = clock] /\ G[x] = hist.had[x] \cup {"push"}
        BY <3>1
      <4> HIDE DEF E, G, k
      <4>3. E[x] \in EntryRow /\ E[x].state = track.entry[x].state /\ E[x].queued = FALSE /\ E[x].tried = k
        BY <1>0, <3>0, <4>1, <4>2 DEF EntryRow
      <4>4. PushOn(host) /\ track.entry[x].state = "tracked"
        BY <3>0, <3>1 DEF Queued, Tracked, RungsHad
      <4>5. "push" \in Rungs /\ G[x] \in SUBSET Rungs
        BY <3>0, <4>2 DEF Rungs
      <4>6. CASE track.entry[x].tried = 0
        <5>1. k = 1
          BY <4>6, MaxOfTwo DEF k
        <5> QED BY <4>2, <4>3, <4>4, <4>5, <5>1 DEF RungsHad
      <4>7. CASE track.entry[x].tried # 0
        BY <3>0, <4>a, <4>2, <4>3, <4>4, <4>5, <4>7 DEF RungsHad
      <4> QED BY <4>6, <4>7
    <3>2. CASE x \notin Queued
      <4>1. E[x] = track.entry[x] /\ G[x] = hist.had[x]
        BY <3>2
      <4> HIDE DEF E, G
      <4> QED BY <3>0, <4>1 DEF RungsHad
    <3> QED BY <3>1, <3>2
  <2>3. E \in [Letters -> EntryRow] /\ G \in [Letters -> SUBSET Rungs]
    BY <2>2
  <2> HIDE DEF E, G
  <2>4. /\ track' \in [ladder : Seq(Rungs), entry : [Letters -> EntryRow]] /\ track'.entry = E /\ track'.ladder = track.ladder
        /\ hist' \in [had : [Letters -> SUBSET Rungs], synced : BOOLEAN] /\ hist'.had = G /\ hist'.synced = FALSE
    BY <1>0, <2>1, <2>3
  <2>5. LadderTypes(host, track, hist, clock)'
    BY <1>0, <2>1, <2>4 DEF LadderTypes
  <2>6. LadderOk(host, track, hist)'
    BY <2>1, <2>2, <2>4 DEF LadderOk
  <2> QED BY <2>5, <2>6 DEF LadderInv
<1>5. ASSUME NEW h \in {"claude", "codex"}, InitializeSession(h) PROVE LadderInv'
  <2> DEFINE new == LadderOf(h, h = "claude")
  <2>1. /\ host.stage = "new" /\ host' = [stage |-> "init", harness |-> h] /\ track' = Reconfigured(track, new)
        /\ UNCHANGED <<clock, hist>>
    BY <1>5 DEF InitializeSession
  <2>2. new \in Seq(Rungs) /\ ~PushOn(host) /\ ~PushOn(host') /\ host' \in HostRow
    BY <2>1, LadderOfType DEF PushOn, HostRow
  <2> HIDE DEF new
  <2> DEFINE t == Reconfigured(track, new)
  <2>r. /\ t \in [ladder : Seq(Rungs), entry : [Letters -> EntryRow]] /\ t.ladder = new
        /\ \A x \in Letters :
              /\ t.entry[x].state = track.entry[x].state /\ t.entry[x].queued = track.entry[x].queued
              /\ t.entry[x].state = "new" => t.entry[x].tried = 0
              /\ t.entry[x].state = "tracked" => InPrefix(new, t.entry[x].tried) \subseteq hist.had[x]
    BY <1>0, <2>2, ReconfiguredOk
  <2>e. track' = t
    BY <2>1
  <2> HIDE DEF t
  <2>3. /\ track' \in [ladder : Seq(Rungs), entry : [Letters -> EntryRow]] /\ track'.ladder = new
        /\ \A x \in Letters :
              /\ track'.entry[x].state = track.entry[x].state /\ track'.entry[x].queued = track.entry[x].queued
              /\ track'.entry[x].state = "new" => track'.entry[x].tried = 0
              /\ track'.entry[x].state = "tracked" => InPrefix(new, track'.entry[x].tried) \subseteq hist.had[x]
    BY <2>r, <2>e
  <2>4. \A x \in Letters : track.entry[x].queued => PushOn(host)
    BY <1>0 DEF LadderOk, RungsHad
  <2>5. LadderTypes(host, track, hist, clock)'
    BY <1>0, <2>1, <2>2, <2>3 DEF LadderTypes
  <2>6. LadderOk(host, track, hist)'
    BY <2>1, <2>2, <2>3, <2>4 DEF LadderOk, RungsHad
  <2> QED BY <2>5, <2>6 DEF LadderInv
<1>6. CASE SessionReady
  <2>1. host.stage = "init" /\ host' = [host EXCEPT !.stage = "ready"] /\ UNCHANGED <<clock, track, hist>>
    BY <1>6 DEF SessionReady
  <2>2. host' \in HostRow /\ ~PushOn(host)
    BY <1>0, <2>1 DEF HostRow, PushOn
  <2>3. LadderTypes(host, track, hist, clock)'
    BY <1>0, <2>1, <2>2 DEF LadderTypes
  <2>4. LadderOk(host, track, hist)'
    BY <1>0, <2>1, <2>2 DEF LadderOk, RungsHad
  <2> QED BY <2>3, <2>4 DEF LadderInv
<1>7. ASSUME NEW m \in Rungs, Beat(m) PROVE LadderInv'
  <2>1. UNCHANGED <<clock, host, track, hist>>
    BY <1>7 DEF Beat
  <2> QED BY <2>1 DEF LadderInv
<1>8. CASE TimePasses
  <2>1. clock' \in Nat /\ UNCHANGED <<host, track, hist>>
    BY <1>0, <1>8 DEF TimePasses
  <2>2. LadderTypes(host, track, hist, clock)'
    BY <1>0, <2>1 DEF LadderTypes
  <2>3. LadderOk(host, track, hist)'
    BY <1>0, <2>1 DEF LadderOk
  <2> QED BY <2>2, <2>3 DEF LadderInv
<1>9. CASE UNCHANGED ladderVars
  <2>1. UNCHANGED <<clock, host, track, hist>>
    BY <1>9 DEF ladderVars
  <2> QED BY <2>1 DEF LadderInv
<1> QED BY <1>1, <1>2, <1>3, <1>4, <1>5, <1>6, <1>7, <1>8, <1>9 DEF LadderEvent

LEMMA LadderInvariant == LadderSpec => []LadderInv
<1>1. LadderInit => LadderInv
  <2> SUFFICES ASSUME LadderInit PROVE LadderInv
    OBVIOUS
  <2> DEFINE e == [state |-> "new", queued |-> FALSE, tried |-> 0, last |-> 0, spent |-> FALSE]
  <2>1. /\ clock = 0 /\ host = [stage |-> "new", harness |-> "unknown"]
        /\ track = [ladder |-> <<"wait">>, entry |-> [x \in Letters |-> e]]
        /\ hist = [had |-> [x \in Letters |-> {}], synced |-> FALSE]
    BY DEF LadderInit
  <2>2. e \in EntryRow /\ e.state = "new" /\ e.queued = FALSE /\ e.tried = 0
    BY DEF EntryRow
  <2>3. <<"wait">> \in Seq(Rungs) /\ host \in HostRow
    BY <2>1 DEF Rungs, HostRow
  <2> HIDE DEF e
  <2>4. LadderTypes(host, track, hist, clock)
    BY <2>1, <2>2, <2>3 DEF LadderTypes
  <2>5. LadderOk(host, track, hist)
    BY <2>1, <2>2 DEF LadderOk, RungsHad
  <2> QED BY <2>4, <2>5 DEF LadderInv
<1> QED BY <1>1, LadderStep, PTL DEF LadderSpec

\* After a tick every rung counted as tried for a message was its turn once, whatever heartbeats,
\* installs and clients changed the ladder in between (`Tracker::reconfigure`, `Tracker::tick_with`),
\* for any messages, times and bucket.
THEOREM RungsAreNotSkipped == LadderSpec => []NoRungIsSkipped
<1>1. LadderInv => NoRungIsSkipped
  BY DEF LadderInv, LadderOk, RungsHad, NoRungIsSkipped, Tracked
<1> QED BY <1>1, LadderInvariant, PTL

-----------------------------------------------------------------------------
(* Installing and uninstalling.                                              *)

\* What `Only` returns is a sequence of elements of the sequence that are in the set.
LEMMA OnlyKeeps ==
    ASSUME NEW V, NEW s \in Seq(V), NEW T
    PROVE  Only(s, T) \in Seq(V \cap T)
<1> DEFINE I == {i \in DOMAIN s : s[i] \in T}
           N == Cardinality(I)
           rank(i) == Cardinality({j \in I : j < i})
<1>1. DOMAIN s = 1 .. Len(s) /\ Len(s) \in Nat /\ I \subseteq DOMAIN s /\ \A i \in I : i \in Nat /\ s[i] \in V \cap T
  OBVIOUS
<1>2. IsFiniteSet(I) /\ N \in Nat
  <2>1. IsFiniteSet(1 .. Len(s))
    BY <1>1, FS_Interval
  <2>2. IsFiniteSet(I)
    BY <1>1, <2>1, FS_Subset
  <2> QED BY <2>2, FS_CardinalityType
<1> HIDE DEF I
<1>3. ASSUME NEW i \in I PROVE rank(i) \in Nat /\ rank(i) < N /\ \A j \in I : j < i => rank(j) < rank(i)
  <2>1. ASSUME NEW A, NEW B, B \subseteq I, A \subseteq B, A # B
        PROVE  Cardinality(A) \in Nat /\ Cardinality(B) \in Nat /\ Cardinality(A) < Cardinality(B)
    <3>1. IsFiniteSet(B)
      BY <1>2, <2>1, FS_Subset
    <3>2. IsFiniteSet(A) /\ Cardinality(A) <= Cardinality(B) /\ Cardinality(A) # Cardinality(B)
      BY <2>1, <3>1, FS_Subset
    <3> QED BY <3>1, <3>2, FS_CardinalityType
  <2>2. rank(i) \in Nat /\ rank(i) < N
    <3> DEFINE A == {j \in I : j < i}
    <3>1. A \subseteq I /\ i \notin A
      BY <1>1
    <3>2. A # I
      BY <3>1
    <3> HIDE DEF A
    <3> QED BY <2>1, <3>1, <3>2 DEF A
  <2>3. ASSUME NEW j \in I, j < i PROVE rank(j) < rank(i)
    <3> DEFINE A == {k \in I : k < j}
               B == {k \in I : k < i}
    <3>1. A \subseteq B /\ B \subseteq I /\ j \in B /\ j \notin A
      BY <1>1, <2>3
    <3>2. A # B
      BY <3>1
    <3> HIDE DEF A, B
    <3> QED BY <2>1, <3>1, <3>2 DEF A, B
  <2> QED BY <2>2, <2>3
<1>4. ASSUME NEW k \in 1 .. N PROVE \E i \in I : rank(i) = k - 1
  <2> DEFINE f == [i \in I |-> rank(i) + 1]
  <2>1. \A i \in I : rank(i) + 1 \in 1 .. N
    BY <1>2, <1>3
  <2>2. ASSUME NEW i \in I, NEW j \in I, rank(i) + 1 = rank(j) + 1 PROVE i = j
    <3>1. rank(i) \in Nat /\ rank(j) \in Nat /\ i \in Nat /\ j \in Nat
      BY <1>1, <1>3
    <3>2. rank(i) = rank(j)
      BY <2>2, <3>1
    <3>3. (j < i => rank(j) < rank(i)) /\ (i < j => rank(i) < rank(j))
      BY <1>3
    <3> HIDE DEF rank
    <3> QED BY <3>1, <3>2, <3>3
  <2> HIDE DEF rank
  <2>3. f \in Injection(I, 1 .. N)
    BY <2>1, <2>2 DEF Injection, IsInjective
  <2>4. IsFiniteSet(1 .. N) /\ Cardinality(1 .. N) = N
    BY <1>2, FS_Interval
  <2>5. f \in Surjection(I, 1 .. N)
    <3> HIDE DEF f, N
    <3>1. Cardinality(I) = Cardinality(1 .. N)
      BY <2>4 DEF N
    <3> QED BY <2>3, <2>4, <3>1, FS_Injection
  <2>6. PICK i \in I : f[i] = k
    BY <2>5 DEF Surjection
  <2>7. rank(i) \in Nat /\ rank(i) + 1 = k
    BY <1>3, <2>6 DEF rank
  <2> QED BY <2>7
<1>5. \A k \in 1 .. N : s[CHOOSE i \in I : rank(i) = k - 1] \in V \cap T
  BY <1>1, <1>4
<1>6. Only(s, T) = [k \in 1 .. N |-> s[CHOOSE i \in I : rank(i) = k - 1]]
  BY DEF Only, I
<1> HIDE DEF rank, N
<1>7. Only(s, T) \in [1 .. N -> V \cap T]
  BY <1>5, <1>6
<1> QED BY <1>2, <1>7

-----------------------------------------------------------------------------
(* Hooks.                                                                     *)

\* A hooks file that merges holds groups of agora's handlers and the user's, at most one of agora's.
Handlers == Exes \union {"user"}
AtMostOne(gs) == \A p, q \in OursIn(gs) : p = q
Hooks == {gs \in Seq(Seq(Handlers)) : AtMostOne(gs)}

LEMMA PlaceOf ==
    ASSUME NEW gs \in Seq(Seq(Handlers)), NEW p
    PROVE  p \in OursIn(gs) <=> /\ p \in Nat \X Nat /\ p[1] \in 1 .. Len(gs) /\ p[2] \in 1 .. 3
                                /\ p[2] \in 1 .. Len(gs[p[1]]) /\ gs[p[1]][p[2]] \in Exes
  BY DEF OursIn, Places, IsOurs

LEMMA OneIsHeld ==
    ASSUME NEW gs \in Hooks, NEW p \in OursIn(gs) PROVE Cardinality(OursIn(gs)) = 1
<1>1. OursIn(gs) = {p}
  BY DEF Hooks, AtMostOne
<1> QED BY <1>1, FS_Singleton

\* Merging leaves exactly one handler of agora's.
LEMMA MergeHolds ==
    ASSUME NEW gs \in Hooks, NEW x \in Exes
    PROVE  MergeHooks(gs, x) \in Hooks /\ Cardinality(OursIn(MergeHooks(gs, x))) = 1
<1> DEFINE m == MergeHooks(gs, x)
<1>0. gs \in Seq(Seq(Handlers)) /\ AtMostOne(gs) /\ x \in Handlers
  BY DEF Hooks, Handlers
<1>1. CASE \E p \in Places(gs) : gs[p[1]][p[2]] = x
  <2>1. m = gs
    BY <1>1 DEF MergeHooks
  <2>2. PICK p : p \in OursIn(gs)
    BY <1>1 DEF OursIn, IsOurs
  <2> QED BY <2>1, <2>2, OneIsHeld
<1>2. CASE (~\E p \in Places(gs) : gs[p[1]][p[2]] = x) /\ OursIn(gs) = {}
  <2> DEFINE new == <<x>>
  <2>1. m = Append(gs, new)
    BY <1>2 DEF MergeHooks
  <2>2. new \in Seq(Handlers) /\ Len(new) = 1 /\ new[1] = x
    BY <1>0
  <2> HIDE DEF m, new
  <2>3. m \in Seq(Seq(Handlers)) /\ Len(m) = Len(gs) + 1 /\ m[Len(gs) + 1] = new /\ \A i \in 1 .. Len(gs) : m[i] = gs[i]
    BY <1>0, <2>1, <2>2
  <2>4. ASSUME NEW p \in OursIn(m) PROVE p = <<Len(gs) + 1, 1>>
    <3>1. /\ p \in Nat \X Nat /\ p[1] \in 1 .. Len(m) /\ p[2] \in 1 .. 3
          /\ p[2] \in 1 .. Len(m[p[1]]) /\ m[p[1]][p[2]] \in Exes
      BY <2>3, <2>4, PlaceOf
    <3>2. p[1] \notin 1 .. Len(gs)
      <4>1. SUFFICES ASSUME p[1] \in 1 .. Len(gs) PROVE FALSE
        OBVIOUS
      <4>2. p \in OursIn(gs)
        BY <1>0, <2>3, <3>1, <4>1, PlaceOf
      <4> QED BY <1>2, <4>2
    <3>3. p[1] = Len(gs) + 1
      BY <1>0, <2>3, <3>1, <3>2
    <3>4. p[2] = 1
      <4>1. Len(m[p[1]]) = 1
        BY <2>2, <2>3, <3>3
      <4> QED BY <3>1, <4>1
    <3> QED BY <3>1, <3>3, <3>4
  <2>5. m \in Hooks
    BY <2>3, <2>4 DEF Hooks, AtMostOne
  <2>6. <<Len(gs) + 1, 1>> \in OursIn(m)
    <3> DEFINE p == <<Len(gs) + 1, 1>>
    <3>1. p \in Nat \X Nat /\ p[1] = Len(gs) + 1 /\ p[2] = 1
      BY <1>0
    <3>2. Len(m[p[1]]) = 1 /\ m[p[1]][p[2]] = x
      BY <2>2, <2>3, <3>1
    <3>3. p[1] \in 1 .. Len(m)
      BY <1>0, <2>3, <3>1
    <3> HIDE DEF p
    <3>4. p \in OursIn(m)
      <4>1. p[2] \in 1 .. 3 /\ p[2] \in 1 .. Len(m[p[1]]) /\ m[p[1]][p[2]] \in Exes
        BY <3>1, <3>2
      <4> QED BY <2>3, <3>1, <3>3, <4>1, PlaceOf
    <3> QED BY <3>4 DEF p
  <2>7. Cardinality(OursIn(m)) = 1
    BY <2>5, <2>6, OneIsHeld
  <2> QED BY <2>5, <2>7 DEF m
<1>3. CASE (~\E p \in Places(gs) : gs[p[1]][p[2]] = x) /\ OursIn(gs) # {}
  <2>1. PICK p : p \in OursIn(gs)
    BY <1>3
  <2>2. OursIn(gs) = {p}
    BY <1>0, <2>1 DEF AtMostOne
  <2>3. /\ p \in Nat \X Nat /\ p[1] \in 1 .. Len(gs) /\ p[2] \in 1 .. 3
        /\ p[2] \in 1 .. Len(gs[p[1]]) /\ gs[p[1]][p[2]] \in Exes
    BY <1>0, <2>1, PlaceOf
  <2>4. FirstOf(OursIn(gs)) = p
    BY <2>2, <2>3 DEF FirstOf
  <2> DEFINE g == [gs[p[1]] EXCEPT ![p[2]] = x]
  <2>5. m = [gs EXCEPT ![p[1]] = g]
    BY <1>3, <2>4 DEF MergeHooks
  <2>6. gs[p[1]] \in Seq(Handlers)
    BY <1>0, <2>3
  <2>7. g \in Seq(Handlers) /\ Len(g) = Len(gs[p[1]]) /\ g[p[2]] = x /\ \A k \in 1 .. Len(g) : k # p[2] => g[k] = gs[p[1]][k]
    BY <1>0, <2>3, <2>6
  <2> HIDE DEF m, g
  <2>8. m \in Seq(Seq(Handlers)) /\ Len(m) = Len(gs) /\ m[p[1]] = g /\ \A i \in 1 .. Len(gs) : i # p[1] => m[i] = gs[i]
    BY <1>0, <2>3, <2>5, <2>7
  <2>9. ASSUME NEW q \in OursIn(m) PROVE q = p
    <3>1. /\ q \in Nat \X Nat /\ q[1] \in 1 .. Len(m) /\ q[2] \in 1 .. 3
          /\ q[2] \in 1 .. Len(m[q[1]]) /\ m[q[1]][q[2]] \in Exes
      BY <2>8, <2>9, PlaceOf
    <3>2. CASE q[1] = p[1] /\ q[2] = p[2]
      BY <2>3, <3>1, <3>2
    <3>3. CASE ~(q[1] = p[1] /\ q[2] = p[2])
      <4>1. q \in OursIn(gs)
        <5>1. CASE q[1] # p[1]
          <6>1. m[q[1]] = gs[q[1]] /\ q[1] \in 1 .. Len(gs)
            BY <2>8, <3>1, <5>1
          <6> QED BY <1>0, <3>1, <6>1, PlaceOf
        <5>2. CASE q[1] = p[1] /\ q[2] # p[2]
          <6>1. m[q[1]] = g /\ q[2] \in 1 .. Len(g)
            BY <2>8, <3>1, <5>2
          <6>2. g[q[2]] = gs[q[1]][q[2]] /\ q[2] \in 1 .. Len(gs[q[1]]) /\ q[1] \in 1 .. Len(gs)
            BY <2>3, <2>7, <5>2, <6>1
          <6> QED BY <1>0, <3>1, <6>1, <6>2, PlaceOf
        <5> QED BY <3>3, <5>1, <5>2
      <4> QED BY <2>2, <4>1
    <3> QED BY <3>2, <3>3
  <2>10. m \in Hooks
    BY <2>8, <2>9 DEF Hooks, AtMostOne
  <2>11. p \in OursIn(m)
    <3>1. p[1] \in 1 .. Len(m) /\ p[2] \in 1 .. Len(m[p[1]]) /\ m[p[1]][p[2]] \in Exes
      BY <2>3, <2>7, <2>8
    <3> QED BY <2>3, <2>8, <3>1, PlaceOf
  <2> QED BY <2>10, <2>11, OneIsHeld DEF m
<1> QED BY <1>1, <1>2, <1>3

\* Removing leaves none of agora's.
LEMMA RemoveLeaves ==
    ASSUME NEW gs \in Hooks PROVE RemoveHooks(gs) \in Hooks
<1> DEFINE Unowned(g) == {h \in Range(g) : ~IsOurs(h)}
           Keep(g) == Only(g, Unowned(g))
           T == {g \in Range(gs) : Keep(g) = g \/ Keep(g) # <<>>}
           kept == Only(gs, T)
           m == [i \in DOMAIN kept |-> Keep(kept[i])]
<1>1. gs \in Seq(Seq(Handlers))
  BY DEF Hooks
<1>2. kept \in Seq(Seq(Handlers))
  <2> HIDE DEF T
  <2>1. kept \in Seq(Seq(Handlers) \cap T)
    BY <1>1, OnlyKeeps
  <2> HIDE DEF kept
  <2> QED BY <2>1
<1>3. ASSUME NEW g \in Seq(Handlers) PROVE Keep(g) \in Seq(Handlers) /\ \A k \in 1 .. Len(Keep(g)) : Keep(g)[k] \notin Exes
  <2>1. Unowned(g) \cap Exes = {}
    BY DEF IsOurs
  <2> HIDE DEF Unowned
  <2>2. Keep(g) \in Seq(Handlers \cap Unowned(g))
    BY OnlyKeeps
  <2> HIDE DEF Keep
  <2> QED BY <2>1, <2>2
<1>4. RemoveHooks(gs) = m
  BY DEF RemoveHooks
<1> HIDE DEF Keep, T, kept
<1>5. m \in Seq(Seq(Handlers)) /\ \A i \in 1 .. Len(m) : \A k \in 1 .. Len(m[i]) : m[i][k] \notin Exes
  <2>1. DOMAIN kept = 1 .. Len(kept) /\ Len(kept) \in Nat /\ \A i \in 1 .. Len(kept) : kept[i] \in Seq(Handlers)
    BY <1>2
  <2>2. \A i \in 1 .. Len(kept) : m[i] = Keep(kept[i]) /\ Keep(kept[i]) \in Seq(Handlers)
    BY <1>3, <2>1
  <2>3. m \in [1 .. Len(kept) -> Seq(Handlers)]
    BY <2>1, <2>2
  <2>4. m \in Seq(Seq(Handlers)) /\ Len(m) = Len(kept)
    BY <2>1, <2>3
  <2> HIDE DEF m
  <2>5. ASSUME NEW i \in 1 .. Len(m) PROVE \A k \in 1 .. Len(m[i]) : m[i][k] \notin Exes
    <3>1. kept[i] \in Seq(Handlers) /\ m[i] = Keep(kept[i])
      BY <2>1, <2>2, <2>4
    <3> QED BY <1>3, <3>1
  <2> QED BY <2>4, <2>5
<1> HIDE DEF m
<1>6. \A p : p \notin OursIn(m)
  BY <1>5, PlaceOf
<1> QED BY <1>4, <1>5, <1>6 DEF Hooks, AtMostOne

\* A hook that the user adds in front moves agora's by one group.
LEMMA FrontKeeps ==
    ASSUME NEW gs \in Hooks
    PROVE  LET m == <<<<"user">>>> \o gs
           IN m \in Hooks /\ (OursIn(gs) # {} => OursIn(m) # {})
<1> DEFINE m == <<<<"user">>>> \o gs
           u == <<"user">>
<1>1. gs \in Seq(Seq(Handlers)) /\ AtMostOne(gs)
  BY DEF Hooks
<1>2. u \in Seq(Handlers) /\ Len(u) = 1 /\ u[1] = "user" /\ "user" \notin Exes
  BY InstallAssumption DEF Handlers
<1>3. m = <<u>> \o gs
  OBVIOUS
<1> HIDE DEF u, m
<1>4. /\ m \in Seq(Seq(Handlers)) /\ Len(m) = Len(gs) + 1 /\ m[1] = u
      /\ \A i \in 1 .. Len(gs) : m[i + 1] = gs[i]
  BY <1>1, <1>2, <1>3
<1>5. ASSUME NEW p \in OursIn(m) PROVE p = <<p[1], p[2]>> /\ <<p[1] - 1, p[2]>> \in OursIn(gs) /\ p[1] \in Nat /\ p[2] \in Nat
  <2>1. /\ p \in Nat \X Nat /\ p[1] \in 1 .. Len(m) /\ p[2] \in 1 .. 3
        /\ p[2] \in 1 .. Len(m[p[1]]) /\ m[p[1]][p[2]] \in Exes
    BY <1>4, <1>5, PlaceOf
  <2>2. p[1] # 1
    <3>1. SUFFICES ASSUME p[1] = 1 PROVE FALSE
      OBVIOUS
    <3>2. p[2] \in 1 .. 1 /\ u[p[2]] \in Exes
      BY <1>2, <1>4, <2>1, <3>1
    <3>3. p[2] = 1
      BY <3>2
    <3> QED BY <1>2, <3>2, <3>3
  <2> DEFINE q == <<p[1] - 1, p[2]>>
  <2>3. q \in Nat \X Nat /\ q[1] = p[1] - 1 /\ q[2] = p[2] /\ q[1] \in 1 .. Len(gs) /\ q[1] + 1 = p[1]
    <3>1. p[1] \in Nat /\ p[2] \in Nat /\ Len(gs) \in Nat
      BY <1>1, <2>1
    <3>a. Len(m) = Len(gs) + 1 /\ 1 <= p[1] /\ p[1] <= Len(m)
      BY <1>4, <2>1
    <3>2. p[1] - 1 \in 1 .. Len(gs) /\ (p[1] - 1) + 1 = p[1]
      BY <2>2, <3>1, <3>a
    <3> QED BY <3>1, <3>2
  <2>4. gs[q[1]] = m[p[1]]
    BY <1>4, <2>3
  <2> HIDE DEF q
  <2>5. q \in OursIn(gs)
    BY <1>1, <2>1, <2>3, <2>4, PlaceOf
  <2> QED BY <2>1, <2>5 DEF q
<1>6. AtMostOne(m)
  <2> SUFFICES ASSUME NEW p \in OursIn(m), NEW q \in OursIn(m) PROVE p = q
    BY DEF AtMostOne
  <2>1. <<p[1] - 1, p[2]>> = <<q[1] - 1, q[2]>>
    BY <1>1, <1>5 DEF AtMostOne
  <2>2. p[1] - 1 = q[1] - 1 /\ p[2] = q[2]
    BY <2>1
  <2>3. p[1] \in Nat /\ q[1] \in Nat /\ p = <<p[1], p[2]>> /\ q = <<q[1], q[2]>>
    BY <1>5
  <2>4. p[1] = q[1]
    BY <2>2, <2>3
  <2> QED BY <2>2, <2>3, <2>4
<1>7. ASSUME NEW q \in OursIn(gs) PROVE <<q[1] + 1, q[2]>> \in OursIn(m)
  <2>1. /\ q \in Nat \X Nat /\ q[1] \in 1 .. Len(gs) /\ q[2] \in 1 .. 3
        /\ q[2] \in 1 .. Len(gs[q[1]]) /\ gs[q[1]][q[2]] \in Exes
    BY <1>1, <1>7, PlaceOf
  <2> DEFINE p == <<q[1] + 1, q[2]>>
  <2>2. p \in Nat \X Nat /\ p[1] = q[1] + 1 /\ p[2] = q[2] /\ p[1] \in 1 .. Len(m)
    <3>1. q[1] \in Nat /\ q[2] \in Nat /\ Len(gs) \in Nat
      BY <1>1, <2>1
    <3>a. Len(m) = Len(gs) + 1 /\ 1 <= q[1] /\ q[1] <= Len(gs)
      BY <1>4, <2>1
    <3>2. q[1] + 1 \in 1 .. Len(m)
      BY <3>1, <3>a
    <3> QED BY <3>1, <3>2
  <2>3. m[p[1]] = gs[q[1]]
    BY <1>4, <2>1, <2>2
  <2> HIDE DEF p
  <2>4. p \in OursIn(m)
    BY <1>4, <2>1, <2>2, <2>3, PlaceOf
  <2> QED BY <2>4 DEF p
<1> QED BY <1>4, <1>6, <1>7 DEF Hooks, m, u

\* One that the user adds behind leaves them where they are.
LEMMA BackKeeps ==
    ASSUME NEW gs \in Hooks, gs # <<>>
    PROVE  LET m == [gs EXCEPT ![Len(gs)] = Append(gs[Len(gs)], "user")]
           IN m \in Hooks /\ OursIn(m) = OursIn(gs)
<1> DEFINE n == Len(gs)
           m == [gs EXCEPT ![n] = Append(gs[n], "user")]
           g == Append(gs[n], "user")
<1>1. gs \in Seq(Seq(Handlers)) /\ AtMostOne(gs)
  BY DEF Hooks
<1>2. n \in Nat /\ n \in 1 .. Len(gs) /\ gs[n] \in Seq(Handlers)
  BY <1>1
<1>3. "user" \in Handlers /\ "user" \notin Exes
  BY InstallAssumption DEF Handlers
<1>4. /\ g \in Seq(Handlers) /\ Len(g) = Len(gs[n]) + 1 /\ g[Len(gs[n]) + 1] = "user"
      /\ \A k \in 1 .. Len(gs[n]) : g[k] = gs[n][k]
  BY <1>2, <1>3
<1>5. m = [gs EXCEPT ![n] = g]
  BY <1>2
<1> HIDE DEF m, g
<1>6. m \in Seq(Seq(Handlers)) /\ Len(m) = Len(gs) /\ m[n] = g /\ \A i \in 1 .. Len(gs) : i # n => m[i] = gs[i]
  BY <1>1, <1>2, <1>4, <1>5
<1>7. ASSUME NEW p PROVE p \in OursIn(m) <=> p \in OursIn(gs)
  <2>1. ASSUME p \in Nat \X Nat, p[1] \in 1 .. Len(gs), p[2] \in 1 .. 3
        PROVE  /\ p[2] \in 1 .. Len(m[p[1]]) /\ m[p[1]][p[2]] \in Exes
               <=> p[2] \in 1 .. Len(gs[p[1]]) /\ gs[p[1]][p[2]] \in Exes
    <3>1. CASE p[1] # n
      BY <1>6, <2>1, <3>1
    <3>2. CASE p[1] = n
      <4>1. Len(gs[n]) \in Nat
        BY <1>2
      <4>2. m[p[1]] = g /\ gs[p[1]] = gs[n]
        BY <1>6, <3>2
      <4> QED BY <1>3, <1>4, <2>1, <4>1, <4>2
    <3> QED BY <3>1, <3>2
  <2>2. p \in OursIn(m) <=> /\ p \in Nat \X Nat /\ p[1] \in 1 .. Len(m) /\ p[2] \in 1 .. 3
                            /\ p[2] \in 1 .. Len(m[p[1]]) /\ m[p[1]][p[2]] \in Exes
    BY <1>6, PlaceOf
  <2>3. p \in OursIn(gs) <=> /\ p \in Nat \X Nat /\ p[1] \in 1 .. Len(gs) /\ p[2] \in 1 .. 3
                             /\ p[2] \in 1 .. Len(gs[p[1]]) /\ gs[p[1]][p[2]] \in Exes
    BY <1>1, PlaceOf
  <2> QED BY <1>6, <2>1, <2>2, <2>3
<1>8. OursIn(m) = OursIn(gs)
  BY <1>7
<1> QED BY <1>1, <1>6, <1>8 DEF Hooks, AtMostOne, m

-----------------------------------------------------------------------------
(* The table of files.                                                        *)

Peers == Client \ {"claude"}
Shareable(f) == f[1] \in {"AGENTS", "copilot.hooks", "copilot.text"}
Market == <<"claude.market", "home">>
Setting(s) == <<"claude.settings", s>>
CodexUser == <<"codex.toml", "user">>

Strange == {"refuse", "capabilities", "claude.market", "claude.settings", "claude.mcp"}

\* A file of a client other than claude carries its scope and none of the names that are claude's.
LEMMA PeerFiles ==
    ASSUME NEW c \in Peers, NEW s \in Scopes, NEW f \in ScopeFiles(c, s)
    PROVE  /\ f = <<f[1], s>> /\ f[2] = s
           /\ f[1] \notin Strange
           /\ f[1] = "codex.toml" => c = "codex"
<1>1. c \in {"codex", "copilot", "vscode", "agy", "opencode", "cursor"}
  BY DEF Peers, Client
<1>2. f # NoFile /\ (f = Target(c, s).mcp \/ f = Target(c, s).hooks \/ f = Target(c, s).text)
  BY DEF ScopeFiles
<1>3. \E n : f = <<n, s>> /\ n \notin Strange /\ (n = "codex.toml" => c = "codex")
  <2>1. CASE c = "codex"
    BY <1>1, <1>2, <2>1 DEF Target, Strange
  <2>2. CASE c = "copilot"
    BY <1>1, <1>2, <2>2 DEF Target, Strange
  <2>3. CASE c = "vscode"
    BY <1>1, <1>2, <2>3 DEF Target, Strange
  <2>4. CASE c = "agy"
    BY <1>1, <1>2, <2>4 DEF Target, Strange
  <2>5. CASE c = "opencode"
    BY <1>1, <1>2, <2>5 DEF Target, Strange
  <2>6. CASE c = "cursor"
    BY <1>1, <1>2, <2>6 DEF Target, Strange
  <2> QED BY <1>1, <2>1, <2>2, <2>3, <2>4, <2>5, <2>6
<1>4. PICK n : f = <<n, s>> /\ n \notin Strange /\ (n = "codex.toml" => c = "codex")
  BY <1>3
<1>5. f[1] = n /\ f[2] = s
  BY <1>4
<1> QED BY <1>4, <1>5

LEMMA ClaudeFiles ==
    ASSUME NEW s \in Scopes
    PROVE  /\ Target("claude", s).mcp = <<"claude.mcp", s>> /\ Target("claude", s).hooks = Setting(s)
           /\ Target("claude", s).text = Market
           /\ ScopeFiles("claude", s) = {<<"claude.mcp", s>>, Setting(s), Market}
  BY DEF ScopeFiles, Target, NoFile, Setting, Market, Scopes

\* Two clients have only these files in common.
LEMMA CommonFiles ==
    ASSUME NEW c \in Peers, NEW o \in Peers, c # o, NEW s \in Scopes, NEW z \in Scopes,
           NEW f, f \in ScopeFiles(c, s), f \in ScopeFiles(o, z)
    PROVE  Shareable(f)
  BY DEF Peers, Client, Scopes, ScopeFiles, Target, NoFile, Shareable

LEMMA CodexFiles ==
    ASSUME NEW s \in Scopes
    PROVE  /\ Target("codex", s).mcp = <<"codex.toml", s>> /\ Target("codex", s).hooks = <<"codex.hooks", s>>
           /\ Target("codex", s).text \in {<<"AGENTS", s>>, <<"codex.AGENTS", s>>}
           /\ ScopeFiles("codex", s) = {Target("codex", s).mcp, Target("codex", s).hooks, Target("codex", s).text}
           /\ CodexUser = Target("codex", "user").mcp
  BY DEF ScopeFiles, Target, NoFile, Scopes, CodexUser

Plain(f) == f[1] \notin {"codex.toml", "codex.hooks", "cursor.hooks"} \union Strange

LEMMA PlainTargets ==
    ASSUME NEW c \in {"agy", "copilot", "vscode"}, NEW s \in Scopes
    PROVE  LET t == Target(c, s)
           IN /\ ScopeFiles(c, s) = {t.mcp, t.hooks, t.text}
              /\ Plain(t.mcp) /\ Plain(t.hooks) /\ Plain(t.text) /\ ~Shareable(t.mcp)
  BY DEF Target, ScopeFiles, NoFile, Plain, Strange, Shareable, Scopes

LEMMA OpencodeFiles ==
    ASSUME NEW s \in Scopes
    PROVE  LET t == Target("opencode", s)
           IN ScopeFiles("opencode", s) = {t.mcp, t.text} /\ Plain(t.mcp) /\ Plain(t.text) /\ ~Shareable(t.mcp)
  BY DEF Target, ScopeFiles, NoFile, Plain, Strange, Shareable, Scopes

LEMMA CursorFiles ==
    ASSUME NEW s \in Scopes
    PROVE  LET t == Target("cursor", s)
           IN /\ ScopeFiles("cursor", s) = {t.mcp, t.hooks} \union (IF t.text = NoFile THEN {} ELSE {t.text})
              /\ t.hooks = <<"cursor.hooks", s>> /\ Plain(t.mcp)
              /\ ~Shareable(t.mcp) /\ ~Shareable(t.hooks)
              /\ t.text # NoFile => Plain(t.text) /\ ~Shareable(t.text)
  BY DEF Target, ScopeFiles, NoFile, Plain, Strange, Shareable, Scopes

-----------------------------------------------------------------------------
(* Contents.                                                                  *)

IsToml(v)     == v = [server |-> v.server, trust |-> v.trust]
IsSettings(v) == v = [plugin |-> v.plugin, hooks |-> v.hooks] /\ v.plugin \in BOOLEAN
Fits(f, v) ==
    /\ f[1] = "codex.toml" => IsToml(v)
    /\ f[1] \in {"codex.hooks", "cursor.hooks"} => v \in Hooks
    /\ f[1] = "claude.settings" => IsSettings(v)
    /\ f[1] = "claude.market" => v \subseteq PluginFiles
DiskFits == \A f \in DOMAIN disk : Fits(f, disk[f])

LEMMA PlainFits ==
    ASSUME NEW f, Plain(f), NEW v PROVE Fits(f, v) /\ (Holding(f, v) <=> IsOurs(v) \/ v = "block")
  BY DEF Plain, Fits, Holding, Strange

LEMMA TomlHolds ==
    ASSUME NEW f, f[1] = "codex.toml", NEW v PROVE (Fits(f, v) <=> IsToml(v)) /\ (Holding(f, v) <=> IsOurs(v.server))
  BY DEF Fits, Holding

LEMMA HooksHold ==
    ASSUME NEW f, f[1] \in {"codex.hooks", "cursor.hooks"}, NEW v
    PROVE  (Fits(f, v) <=> v \in Hooks) /\ (Holding(f, v) <=> Cardinality(OursIn(v)) = 1)
  BY DEF Fits, Holding

LEMMA TomlServer ==
    ASSUME NEW v, IsToml(v), NEW x PROVE IsToml([v EXCEPT !.server = x]) /\ [v EXCEPT !.server = x].server = x
  BY DEF IsToml

LEMMA TomlTrust ==
    ASSUME NEW v, IsToml(v), NEW x PROVE IsToml([v EXCEPT !.trust = x]) /\ [v EXCEPT !.trust = x].server = v.server
  BY DEF IsToml

-----------------------------------------------------------------------------
(* Plans.                                                                     *)

IsSeq(p) == \E S : p \in Seq(S)

LEMMA Joined ==
    ASSUME NEW p, NEW q, IsSeq(p), IsSeq(q)
    PROVE  IsSeq(p \o q) /\ Range(p \o q) = Range(p) \union Range(q)
<1>1. PICK S : p \in Seq(S)
  BY DEF IsSeq
<1>2. PICK T : q \in Seq(T)
  BY DEF IsSeq
<1>3. p \in Seq(S \union T) /\ q \in Seq(S \union T)
  BY <1>1, <1>2
<1>4. p \o q \in Seq(S \union T) /\ Len(p) \in Nat /\ Len(q) \in Nat /\ Len(p \o q) = Len(p) + Len(q)
  BY <1>3
<1>5. /\ \A i \in 1 .. Len(p) : i \in 1 .. Len(p \o q) /\ (p \o q)[i] = p[i]
      /\ \A i \in 1 .. Len(q) : i + Len(p) \in 1 .. Len(p \o q) /\ (p \o q)[i + Len(p)] = q[i]
  BY <1>3, <1>4
<1>6. \A i \in 1 .. Len(p \o q) : (i \in 1 .. Len(p) /\ (p \o q)[i] = p[i])
                                   \/ (i - Len(p) \in 1 .. Len(q) /\ (p \o q)[i] = q[i - Len(p)])
  BY <1>3, <1>4
<1>7. DOMAIN p = 1 .. Len(p) /\ DOMAIN q = 1 .. Len(q) /\ DOMAIN (p \o q) = 1 .. Len(p \o q)
  BY <1>3, <1>4
<1>8. Range(p \o q) = Range(p) \union Range(q)
  <2> DEFINE u == p \o q
  <2> HIDE DEF u
  <2>1. \A i \in 1 .. Len(p) : p[i] \in Range(u)
    BY <1>5, <1>7 DEF Range, u
  <2>2. \A i \in 1 .. Len(q) : q[i] \in Range(u)
    BY <1>5, <1>7 DEF Range, u
  <2>3. \A i \in 1 .. Len(u) : u[i] \in Range(p) \union Range(q)
    BY <1>6, <1>7 DEF Range, u
  <2>4. Range(p) \subseteq Range(u) /\ Range(q) \subseteq Range(u)
    BY <1>7, <2>1, <2>2 DEF Range
  <2>5. Range(u) \subseteq Range(p) \union Range(q)
    BY <1>7, <2>3 DEF Range, u
  <2> QED BY <2>4, <2>5 DEF u
<1> QED BY <1>4, <1>8 DEF IsSeq

LEMMA OneWrite ==
    ASSUME NEW f, NEW v PROVE IsSeq(W(f, v)) /\ Range(W(f, v)) = {[file |-> f, to |-> v]}
<1> DEFINE w == [file |-> f, to |-> v]
<1>1. W(f, v) = <<w>>
  BY DEF W
<1> HIDE DEF w
<1>2. <<w>> \in Seq({w}) /\ DOMAIN <<w>> = {1} /\ <<w>>[1] = w
  OBVIOUS
<1> DEFINE u == <<w>>
<1>3. u \in Seq({w}) /\ DOMAIN u = {1} /\ u[1] = w
  BY <1>2
<1> HIDE DEF u
<1>4. Range(u) = {w} /\ IsSeq(u)
  BY <1>3 DEF Range, IsSeq
<1> QED BY <1>1, <1>4 DEF u, w

LEMMA NoWrite == IsSeq(<<>>) /\ Range(<<>>) = {}
<1>1. <<>> \in Seq({}) /\ DOMAIN <<>> = {}
  OBVIOUS
<1> QED BY <1>1 DEF IsSeq, Range

LEMMA ThreeParts ==
    ASSUME NEW p, NEW q, NEW r, IsSeq(p), IsSeq(q), IsSeq(r)
    PROVE  IsSeq(p \o q \o r) /\ Range(p \o q \o r) = Range(p) \union Range(q) \union Range(r)
<1>1. IsSeq(p \o q) /\ Range(p \o q) = Range(p) \union Range(q)
  BY Joined
<1> QED BY <1>1, Joined

Refusal(w) == w.file[1] = "refuse"
Reach(c, s) == ScopeFiles(c, s) \union (IF c = "codex" THEN {CodexUser} ELSE {})

\* A write of an install: its files end up holding agora's part, and another scope's keeps it.
Puts(c, s, w) ==
    \/ Refusal(w)
    \/ /\ w.file \in Reach(c, s) /\ Fits(w.file, w.to)
       /\ w.file \in ScopeFiles(c, s) \/ HoldsOurs(w.file) => Holding(w.file, w.to)
PutsAll(c, s, p) ==
    /\ IsSeq(p) /\ \A w \in Range(p) : Puts(c, s, w)
    /\ (\E w \in Range(p) : Refusal(w)) \/ (\A f \in ScopeFiles(c, s) : \E w \in Range(p) : w.file = f)

\* A write of an uninstall spares a file that others are recorded to share.
Takes(c, r, w) ==
    \/ Refusal(w)
    \/ /\ w.file \in Reach(c, r.scope) /\ Fits(w.file, w.to)
       /\ w.file \notin ScopeFiles(c, r.scope) /\ HoldsOurs(w.file) => Holding(w.file, w.to)
       /\ Shareable(w.file) => ~FileShared(r.caps, w.file, c)
TakesAll(c, r, p) == IsSeq(p) /\ \A w \in Range(p) : Takes(c, r, w)

LEMMA RefusalIs == IsSeq(Refuse) /\ Range(Refuse) = {[file |-> <<"refuse", "none">>, to |-> Nothing]}
  BY OneWrite DEF Refuse

LEMMA RefusalPuts == \A c, s : PutsAll(c, s, Refuse)
<1>1. \A w \in Range(Refuse) : Refusal(w)
  BY RefusalIs DEF Refusal
<1>2. \E w : w \in Range(Refuse)
  BY RefusalIs
<1> QED BY <1>1, <1>2, RefusalIs DEF PutsAll, Puts

LEMMA RefusalTakes == \A c, r : TakesAll(c, r, Refuse)
<1>1. \A w \in Range(Refuse) : Refusal(w)
  BY RefusalIs DEF Refusal
<1> QED BY <1>1, RefusalIs DEF TakesAll, Takes

LEMMA PlainPut ==
    ASSUME NEW c \in Client, NEW s \in Scopes, NEW f \in ScopeFiles(c, s), Plain(f), NEW v, v \in Exes \/ v = "block",
           NEW w \in Range(W(f, v))
    PROVE  Puts(c, s, w) /\ w.file = f
<1>1. w.file = f /\ w.to = v
  BY OneWrite
<1>2. Fits(f, v) /\ Holding(f, v)
  BY PlainFits DEF IsOurs
<1> QED BY <1>1, <1>2 DEF Puts, Reach

LEMMA PlainTake ==
    ASSUME NEW c \in Client, NEW r, r.scope \in Scopes, NEW f \in ScopeFiles(c, r.scope), Plain(f), NEW v,
           ~Shareable(f) \/ ~FileShared(r.caps, f, c), NEW w \in Range(W(f, v))
    PROVE  Takes(c, r, w)
<1>1. w.file = f /\ w.to = v
  BY OneWrite
<1>2. Fits(f, v)
  BY PlainFits
<1> QED BY <1>1, <1>2 DEF Takes, Reach

\* agy, copilot and vscode write a server, a hooks file and a text.
LEMMA PlainInstall ==
    ASSUME NEW c \in {"agy", "copilot", "vscode"}, NEW s \in Scopes, NEW x \in Exes
    PROVE  LET t == Target(c, s) IN PutsAll(c, s, W(t.mcp, x) \o W(t.hooks, x) \o W(t.text, "block"))
<1> DEFINE t == Target(c, s)
           p == W(t.mcp, x) \o W(t.hooks, x) \o W(t.text, "block")
<1>0. c \in Client
  BY DEF Client
<1>1. ScopeFiles(c, s) = {t.mcp, t.hooks, t.text} /\ Plain(t.mcp) /\ Plain(t.hooks) /\ Plain(t.text)
  BY PlainTargets
<1> HIDE DEF t
<1>2. IsSeq(p) /\ Range(p) = Range(W(t.mcp, x)) \union Range(W(t.hooks, x)) \union Range(W(t.text, "block"))
  BY OneWrite, ThreeParts
<1>3. \A w \in Range(W(t.mcp, x)) : Puts(c, s, w) /\ w.file = t.mcp
  BY <1>0, <1>1, PlainPut
<1>4. \A w \in Range(W(t.hooks, x)) : Puts(c, s, w) /\ w.file = t.hooks
  BY <1>0, <1>1, PlainPut
<1>5. \A w \in Range(W(t.text, "block")) : Puts(c, s, w) /\ w.file = t.text
  BY <1>0, <1>1, PlainPut
<1>6. (\E w : w \in Range(W(t.mcp, x))) /\ (\E w : w \in Range(W(t.hooks, x))) /\ \E w : w \in Range(W(t.text, "block"))
  BY OneWrite
<1> HIDE DEF p
<1>7. \A f \in ScopeFiles(c, s) : \E w \in Range(p) : w.file = f
  BY <1>1, <1>2, <1>3, <1>4, <1>5, <1>6
<1>8. PutsAll(c, s, p)
  BY <1>2, <1>3, <1>4, <1>5, <1>7 DEF PutsAll
<1> QED BY <1>8 DEF p, t

LEMMA AgyPuts ==
    ASSUME NEW r, r.scope \in Scopes, r.exe \in Exes PROVE PutsAll("agy", r.scope, AgyInstall(r))
  BY PlainInstall, RefusalPuts DEF AgyInstall

LEMMA CopilotPuts ==
    ASSUME NEW r, r.scope \in Scopes, r.exe \in Exes PROVE PutsAll("copilot", r.scope, CopilotInstall(r))
  BY PlainInstall, RefusalPuts DEF CopilotInstall

LEMMA VscodePuts ==
    ASSUME NEW r, r.scope \in Scopes, r.exe \in Exes PROVE PutsAll("vscode", r.scope, VscodeInstall(r))
  BY PlainInstall, RefusalPuts DEF VscodeInstall

LEMMA OpencodePuts ==
    ASSUME NEW r, r.scope \in Scopes, r.exe \in Exes PROVE PutsAll("opencode", r.scope, OpencodeInstall(r))
<1> DEFINE s == r.scope
           t == Target("opencode", s)
           p == W(t.mcp, r.exe) \o W(t.text, "block")
<1>0. "opencode" \in Client
  BY DEF Client
<1>1. ScopeFiles("opencode", s) = {t.mcp, t.text} /\ Plain(t.mcp) /\ Plain(t.text)
  BY OpencodeFiles
<1> HIDE DEF t
<1>2. IsSeq(p) /\ Range(p) = Range(W(t.mcp, r.exe)) \union Range(W(t.text, "block"))
  BY OneWrite, Joined
<1>3. \A w \in Range(W(t.mcp, r.exe)) : Puts("opencode", s, w) /\ w.file = t.mcp
  BY <1>0, <1>1, PlainPut
<1>4. \A w \in Range(W(t.text, "block")) : Puts("opencode", s, w) /\ w.file = t.text
  BY <1>0, <1>1, PlainPut
<1>5. (\E w : w \in Range(W(t.mcp, r.exe))) /\ \E w : w \in Range(W(t.text, "block"))
  BY OneWrite
<1>6. OpencodeInstall(r) \in {Refuse, p}
  BY DEF OpencodeInstall, t
<1> HIDE DEF p
<1>7. \A f \in ScopeFiles("opencode", s) : \E w \in Range(p) : w.file = f
  BY <1>1, <1>2, <1>3, <1>4, <1>5
<1>8. PutsAll("opencode", s, p)
  BY <1>2, <1>3, <1>4, <1>7 DEF PutsAll
<1> QED BY <1>6, <1>8, RefusalPuts

LEMMA CursorPuts ==
    ASSUME NEW r, r.scope \in Scopes, r.exe \in Exes, DiskFits, ScopeFiles("cursor", r.scope) \subseteq DOMAIN disk
    PROVE  PutsAll("cursor", r.scope, CursorInstall(r))
<1> DEFINE s == r.scope
           t == Target("cursor", s)
           gs == MergeFlatHooks(disk[t.hooks], r.exe)
           last == IF t.text = NoFile THEN <<>> ELSE W(t.text, "block")
           p == W(t.mcp, r.exe) \o W(t.hooks, gs) \o last
<1>0. "cursor" \in Client
  BY DEF Client
<1>1. /\ ScopeFiles("cursor", s) = {t.mcp, t.hooks} \union (IF t.text = NoFile THEN {} ELSE {t.text})
      /\ t.hooks = <<"cursor.hooks", s>> /\ Plain(t.mcp) /\ (t.text # NoFile => Plain(t.text))
  BY CursorFiles
<1>2. CursorInstall(r) \in {Refuse, p}
  BY DEF CursorInstall
<1>3. t.hooks[1] = "cursor.hooks"
  BY <1>1
<1> HIDE DEF t
<1>4. disk[t.hooks] \in Hooks
  BY <1>1, <1>3, HooksHold DEF DiskFits
<1>5. gs \in Hooks /\ Cardinality(OursIn(gs)) = 1
  BY <1>4, MergeHolds DEF MergeFlatHooks
<1> HIDE DEF gs
<1>6. \A w \in Range(W(t.hooks, gs)) : Puts("cursor", s, w) /\ w.file = t.hooks
  <2> TAKE w \in Range(W(t.hooks, gs))
  <2>1. w.file = t.hooks /\ w.to = gs
    BY OneWrite
  <2>2. Fits(t.hooks, gs) /\ Holding(t.hooks, gs)
    BY <1>3, <1>5, HooksHold
  <2> QED BY <1>1, <2>1, <2>2 DEF Puts, Reach
<1>7. \A w \in Range(W(t.mcp, r.exe)) : Puts("cursor", s, w) /\ w.file = t.mcp
  BY <1>0, <1>1, PlainPut
<1>8. IsSeq(last) /\ \A w \in Range(last) : t.text # NoFile /\ Puts("cursor", s, w) /\ w.file = t.text
  BY <1>0, <1>1, PlainPut, NoWrite, OneWrite
<1>9. (\E w : w \in Range(W(t.mcp, r.exe))) /\ (\E w : w \in Range(W(t.hooks, gs))) /\ (t.text # NoFile => \E w : w \in Range(last))
  BY OneWrite
<1> HIDE DEF last
<1>10. IsSeq(p) /\ Range(p) = Range(W(t.mcp, r.exe)) \union Range(W(t.hooks, gs)) \union Range(last)
  BY <1>8, OneWrite, ThreeParts
<1> HIDE DEF p
<1>11. \A f \in ScopeFiles("cursor", s) : \E w \in Range(p) : w.file = f
  BY <1>1, <1>6, <1>7, <1>8, <1>9, <1>10
<1>12. PutsAll("cursor", s, p)
  BY <1>6, <1>7, <1>8, <1>10, <1>11 DEF PutsAll
<1> QED BY <1>2, <1>12, RefusalPuts

LEMMA CodexPuts ==
    ASSUME NEW r, r.scope \in Scopes, r.exe \in Exes, DiskFits, Reach("codex", r.scope) \subseteq DOMAIN disk
    PROVE  PutsAll("codex", r.scope, CodexInstall(r))
<1> DEFINE s == r.scope
           t == Target("codex", s)
           user == Target("codex", "user").mcp
           gs == MergeHooks(disk[t.hooks], r.exe)
           es == TrustEntries(s, gs, r.exe)
           server == [disk[t.mcp] EXCEPT !.server = r.exe]
           trusted(toml) == IF r.trust THEN [toml EXCEPT !.trust = SetTrust(toml.trust, es)] ELSE toml
           own == IF t.mcp = user THEN trusted(server) ELSE server
           keys == trusted(disk[user])
           more == IF t.mcp = user THEN <<>> ELSE W(user, keys)
           p == W(t.hooks, gs) \o W(t.mcp, own) \o more \o W(t.text, "block")
<1>0. "codex" \in Client
  BY DEF Client
<1>1. /\ t.mcp = <<"codex.toml", s>> /\ t.hooks = <<"codex.hooks", s>> /\ t.text \in {<<"AGENTS", s>>, <<"codex.AGENTS", s>>}
      /\ ScopeFiles("codex", s) = {t.mcp, t.hooks, t.text} /\ user = CodexUser
  BY CodexFiles
<1>2. CodexInstall(r) \in {Refuse, p}
  BY DEF CodexInstall
<1>3. t.hooks[1] = "codex.hooks" /\ t.mcp[1] = "codex.toml" /\ user[1] = "codex.toml" /\ Plain(t.text)
  BY <1>1 DEF CodexUser, Plain, Strange
<1>4. {t.hooks, t.mcp, t.text} \subseteq DOMAIN disk /\ user \in DOMAIN disk
  BY <1>1 DEF Reach
<1> HIDE DEF t, user
<1>5. disk[t.hooks] \in Hooks /\ IsToml(disk[t.mcp]) /\ IsToml(disk[user])
  BY <1>3, <1>4, HooksHold, TomlHolds DEF DiskFits
<1>6. gs \in Hooks /\ Cardinality(OursIn(gs)) = 1
  BY <1>5, MergeHolds
<1> HIDE DEF gs, es
<1>7. IsToml(server) /\ server.server = r.exe
  BY <1>5, TomlServer
<1> HIDE DEF server
<1>8. ASSUME NEW v, IsToml(v) PROVE IsToml(trusted(v)) /\ trusted(v).server = v.server
  <2>1. CASE r.trust
    BY <1>8, <2>1, TomlTrust
  <2>2. CASE ~r.trust
    BY <1>8, <2>2
  <2> QED BY <2>1, <2>2
<1> HIDE DEF trusted
<1>9. IsToml(own) /\ own.server = r.exe /\ IsToml(keys) /\ keys.server = disk[user].server
  BY <1>5, <1>7, <1>8
<1> HIDE DEF own, keys
<1>10. \A w \in Range(W(t.hooks, gs)) : Puts("codex", s, w) /\ w.file = t.hooks
  <2> TAKE w \in Range(W(t.hooks, gs))
  <2>1. w.file = t.hooks /\ w.to = gs
    BY OneWrite
  <2>2. Fits(t.hooks, gs) /\ Holding(t.hooks, gs)
    BY <1>3, <1>6, HooksHold
  <2> QED BY <1>1, <2>1, <2>2 DEF Puts, Reach
<1>11. \A w \in Range(W(t.mcp, own)) : Puts("codex", s, w) /\ w.file = t.mcp
  <2> TAKE w \in Range(W(t.mcp, own))
  <2>1. w.file = t.mcp /\ w.to = own
    BY OneWrite
  <2>2. Fits(t.mcp, own) /\ Holding(t.mcp, own)
    BY <1>3, <1>9, TomlHolds DEF IsOurs
  <2> QED BY <1>1, <2>1, <2>2 DEF Puts, Reach
<1>12. IsSeq(more) /\ \A w \in Range(more) : Puts("codex", s, w)
  <2>1. CASE t.mcp = user
    BY <2>1, NoWrite
  <2>2. CASE t.mcp # user
    <3>1. IsSeq(W(user, keys)) /\ more = W(user, keys)
      BY <2>2, OneWrite
    <3>2. ASSUME NEW w \in Range(W(user, keys)) PROVE Puts("codex", s, w)
      <4>1. w.file = user /\ w.to = keys
        BY OneWrite
      <4>2. Fits(user, keys) /\ (HoldsOurs(user) => Holding(user, keys))
        BY <1>3, <1>9, TomlHolds DEF HoldsOurs
      <4>3. user \notin ScopeFiles("codex", s)
        <5>1. user # t.hooks /\ user # t.text
          BY <1>3 DEF Plain
        <5> QED BY <1>1, <2>2, <5>1
      <4> QED BY <1>1, <4>1, <4>2, <4>3 DEF Puts, Reach
    <3> QED BY <3>1, <3>2
  <2> QED BY <2>1, <2>2
<1>13. \A w \in Range(W(t.text, "block")) : Puts("codex", s, w) /\ w.file = t.text
  BY <1>0, <1>1, <1>3, PlainPut
<1>14. (\E w : w \in Range(W(t.hooks, gs))) /\ (\E w : w \in Range(W(t.mcp, own))) /\ \E w : w \in Range(W(t.text, "block"))
  BY OneWrite
<1> HIDE DEF more
<1>15. IsSeq(p) /\ Range(p) = Range(W(t.hooks, gs)) \union Range(W(t.mcp, own)) \union Range(more) \union Range(W(t.text, "block"))
  <2> DEFINE q == W(t.hooks, gs) \o W(t.mcp, own) \o more
  <2>1. IsSeq(q) /\ Range(q) = Range(W(t.hooks, gs)) \union Range(W(t.mcp, own)) \union Range(more)
    BY <1>12, OneWrite, ThreeParts
  <2>2. p = q \o W(t.text, "block")
    OBVIOUS
  <2> HIDE DEF q, p
  <2> QED BY <2>1, <2>2, OneWrite, Joined
<1> HIDE DEF p
<1>16. \A f \in ScopeFiles("codex", s) : \E w \in Range(p) : w.file = f
  BY <1>1, <1>10, <1>11, <1>13, <1>14, <1>15
<1>17. PutsAll("codex", s, p)
  BY <1>10, <1>11, <1>12, <1>13, <1>15, <1>16 DEF PutsAll
<1> QED BY <1>2, <1>17, RefusalPuts

LEMMA PeerInstalls ==
    ASSUME NEW c \in Peers, NEW r, r.scope \in Scopes, r.exe \in Exes, DiskFits, Reach(c, r.scope) \subseteq DOMAIN disk
    PROVE  PutsAll(c, r.scope, InstallModule(c, r))
<1>1. c \in {"codex", "copilot", "vscode", "agy", "opencode", "cursor"}
  BY DEF Peers, Client
<1>2. ScopeFiles(c, r.scope) \subseteq DOMAIN disk
  BY DEF Reach
<1>3. CASE c = "codex"
  BY <1>3, CodexPuts DEF InstallModule
<1>4. CASE c = "copilot"
  BY <1>4, CopilotPuts DEF InstallModule
<1>5. CASE c = "vscode"
  BY <1>5, VscodePuts DEF InstallModule
<1>6. CASE c = "agy"
  BY <1>6, AgyPuts DEF InstallModule
<1>7. CASE c = "opencode"
  BY <1>7, OpencodePuts DEF InstallModule
<1>8. CASE c = "cursor"
  BY <1>2, <1>8, CursorPuts DEF InstallModule
<1> QED BY <1>1, <1>3, <1>4, <1>5, <1>6, <1>7, <1>8

LEMMA NoTake == \A c, r : TakesAll(c, r, <<>>)
  BY NoWrite DEF TakesAll

LEMMA TakesJoin ==
    ASSUME NEW c, NEW r, NEW p, NEW q, TakesAll(c, r, p), TakesAll(c, r, q) PROVE TakesAll(c, r, p \o q)
<1>1. IsSeq(p) /\ IsSeq(q)
  BY DEF TakesAll
<1>2. IsSeq(p \o q) /\ Range(p \o q) = Range(p) \union Range(q)
  BY <1>1, Joined
<1> QED BY <1>2 DEF TakesAll

LEMMA PlainTakes ==
    ASSUME NEW c \in Client, NEW r, r.scope \in Scopes, NEW f \in ScopeFiles(c, r.scope), Plain(f), NEW v,
           ~Shareable(f) \/ ~FileShared(r.caps, f, c)
    PROVE  TakesAll(c, r, W(f, v))
  BY PlainTake, OneWrite DEF TakesAll

LEMMA AgyTakes ==
    ASSUME NEW r, r.scope \in Scopes PROVE TakesAll("agy", r, AgyUninstall(r))
<1> DEFINE t == Target("agy", r.scope)
           shared == FileShared(r.caps, t.text, "agy")
           a == W(t.mcp, RemoveServer(disk[t.mcp]))
           b == W(t.hooks, RemoveServer(disk[t.hooks]))
           d == IF shared THEN <<>> ELSE W(t.text, RemoveBlock(disk[t.text]))
<1>0. "agy" \in Client
  BY DEF Client
<1>1. AgyUninstall(r) \in {Refuse, a \o b \o d}
  BY DEF AgyUninstall
<1>2. ScopeFiles("agy", r.scope) = {t.mcp, t.hooks, t.text} /\ Plain(t.mcp) /\ Plain(t.hooks) /\ Plain(t.text) /\ ~Shareable(t.mcp)
  BY PlainTargets
<1>3. ~Shareable(t.hooks)
  BY DEF Shareable, Target
<1> HIDE DEF t
<1>4. TakesAll("agy", r, a) /\ TakesAll("agy", r, b)
  BY <1>0, <1>2, <1>3, PlainTakes
<1>5. TakesAll("agy", r, d)
  BY <1>0, <1>2, PlainTakes, NoTake
<1> HIDE DEF a, b, d
<1>6. TakesAll("agy", r, a \o b)
  BY <1>4, TakesJoin
<1>7. TakesAll("agy", r, a \o b \o d)
  BY <1>5, <1>6, TakesJoin
<1> QED BY <1>1, <1>7, RefusalTakes

LEMMA OpencodeTakes ==
    ASSUME NEW r, r.scope \in Scopes PROVE TakesAll("opencode", r, OpencodeUninstall(r))
<1> DEFINE t == Target("opencode", r.scope)
           a == W(t.mcp, RemoveServer(disk[t.mcp]))
           d == IF FileShared(r.caps, t.text, "opencode") THEN <<>> ELSE W(t.text, RemoveBlock(disk[t.text]))
<1>0. "opencode" \in Client
  BY DEF Client
<1>1. OpencodeUninstall(r) \in {Refuse, a \o d}
  BY DEF OpencodeUninstall
<1>2. ScopeFiles("opencode", r.scope) = {t.mcp, t.text} /\ Plain(t.mcp) /\ Plain(t.text) /\ ~Shareable(t.mcp)
  BY OpencodeFiles
<1> HIDE DEF t
<1>3. TakesAll("opencode", r, a)
  BY <1>0, <1>2, PlainTakes
<1>4. TakesAll("opencode", r, d)
  BY <1>0, <1>2, PlainTakes, NoTake
<1> HIDE DEF a, d
<1>5. TakesAll("opencode", r, a \o d)
  BY <1>3, <1>4, TakesJoin
<1> QED BY <1>1, <1>5, RefusalTakes

LEMMA SharedHooksTake ==
    ASSUME NEW c \in Client, NEW r, r.scope \in Scopes, NEW f \in ScopeFiles(c, r.scope), Plain(f)
    PROVE  TakesAll(c, r, UninstallSharedHooks(r, f, c))
  BY PlainTakes, NoTake DEF UninstallSharedHooks

LEMMA CopilotTakes ==
    ASSUME NEW r, r.scope \in Scopes PROVE TakesAll("copilot", r, CopilotUninstall(r))
<1> DEFINE t == Target("copilot", r.scope)
           a == W(t.mcp, RemoveServer(disk[t.mcp]))
           b == UninstallSharedHooks(r, t.hooks, "copilot")
           d == IF FileShared(r.caps, t.text, "copilot") THEN <<>> ELSE W(t.text, RemoveBlock(disk[t.text]))
<1>0. "copilot" \in Client
  BY DEF Client
<1>1. CopilotUninstall(r) \in {Refuse, a \o b \o d}
  BY DEF CopilotUninstall
<1>2. ScopeFiles("copilot", r.scope) = {t.mcp, t.hooks, t.text} /\ Plain(t.mcp) /\ Plain(t.hooks) /\ Plain(t.text) /\ ~Shareable(t.mcp)
  BY PlainTargets
<1> HIDE DEF t
<1>3. TakesAll("copilot", r, a) /\ TakesAll("copilot", r, b)
  BY <1>0, <1>2, PlainTakes, SharedHooksTake
<1>4. TakesAll("copilot", r, d)
  BY <1>0, <1>2, PlainTakes, NoTake
<1> HIDE DEF a, b, d
<1>5. TakesAll("copilot", r, a \o b)
  BY <1>3, TakesJoin
<1>6. TakesAll("copilot", r, a \o b \o d)
  BY <1>4, <1>5, TakesJoin
<1> QED BY <1>1, <1>6, RefusalTakes

LEMMA VscodeTakes ==
    ASSUME NEW r, r.scope \in Scopes PROVE TakesAll("vscode", r, VscodeUninstall(r))
<1> DEFINE t == Target("vscode", r.scope)
           a == W(t.mcp, RemoveServer(disk[t.mcp]))
           b == UninstallSharedHooks(r, t.hooks, "vscode")
           e == IF ~Owned(t.text) /\ FileShared(r.caps, t.text, "vscode") THEN <<>> ELSE W(t.text, RemoveBlock(disk[t.text]))
           d == IF disk[t.text] = "markers" THEN Refuse ELSE e
<1>0. "vscode" \in Client
  BY DEF Client
<1>1. VscodeUninstall(r) \in {Refuse, a \o b \o d}
  BY DEF VscodeUninstall
<1>2. ScopeFiles("vscode", r.scope) = {t.mcp, t.hooks, t.text} /\ Plain(t.mcp) /\ Plain(t.hooks) /\ Plain(t.text) /\ ~Shareable(t.mcp)
  BY PlainTargets
<1>3. Owned(t.text) => ~Shareable(t.text)
  BY DEF Owned, Shareable, Target
<1> HIDE DEF t
<1>4. TakesAll("vscode", r, a) /\ TakesAll("vscode", r, b)
  BY <1>0, <1>2, PlainTakes, SharedHooksTake
<1>5. TakesAll("vscode", r, e)
  BY <1>0, <1>2, <1>3, PlainTakes, NoTake
<1> HIDE DEF a, b, e
<1>6. TakesAll("vscode", r, d)
  BY <1>5, RefusalTakes
<1> HIDE DEF d
<1>7. TakesAll("vscode", r, a \o b)
  BY <1>4, TakesJoin
<1>8. TakesAll("vscode", r, a \o b \o d)
  BY <1>6, <1>7, TakesJoin
<1> QED BY <1>1, <1>8, RefusalTakes

LEMMA CursorTakes ==
    ASSUME NEW r, r.scope \in Scopes, DiskFits, ScopeFiles("cursor", r.scope) \subseteq DOMAIN disk
    PROVE  TakesAll("cursor", r, CursorUninstall(r))
<1> DEFINE t == Target("cursor", r.scope)
           gs == RemoveFlatHooks(disk[t.hooks])
           a == W(t.mcp, RemoveServer(disk[t.mcp]))
           b == W(t.hooks, gs)
           d == IF t.text = NoFile THEN <<>> ELSE W(t.text, RemoveBlock(disk[t.text]))
<1>0. "cursor" \in Client
  BY DEF Client
<1>1. CursorUninstall(r) \in {Refuse, a \o b \o d}
  BY DEF CursorUninstall
<1>2. /\ ScopeFiles("cursor", r.scope) = {t.mcp, t.hooks} \union (IF t.text = NoFile THEN {} ELSE {t.text})
      /\ t.hooks = <<"cursor.hooks", r.scope>> /\ Plain(t.mcp) /\ ~Shareable(t.mcp) /\ ~Shareable(t.hooks)
      /\ t.text # NoFile => Plain(t.text) /\ ~Shareable(t.text)
  BY CursorFiles
<1>3. t.hooks[1] = "cursor.hooks"
  BY <1>2
<1> HIDE DEF t
<1>4. gs \in Hooks
  BY <1>2, <1>3, HooksHold, RemoveLeaves DEF DiskFits, RemoveFlatHooks
<1> HIDE DEF gs
<1>5. TakesAll("cursor", r, a)
  BY <1>0, <1>2, PlainTakes
<1>6. TakesAll("cursor", r, b)
  <2>1. IsSeq(b) /\ \A w \in Range(b) : w.file = t.hooks /\ w.to = gs
    BY OneWrite
  <2>2. Fits(t.hooks, gs)
    BY <1>3, <1>4, HooksHold
  <2> HIDE DEF b
  <2> QED BY <1>2, <2>1, <2>2 DEF TakesAll, Takes, Reach
<1>7. TakesAll("cursor", r, d)
  BY <1>0, <1>2, PlainTakes, NoTake
<1> HIDE DEF a, b, d
<1>8. TakesAll("cursor", r, a \o b)
  BY <1>5, <1>6, TakesJoin
<1>9. TakesAll("cursor", r, a \o b \o d)
  BY <1>7, <1>8, TakesJoin
<1> QED BY <1>1, <1>9, RefusalTakes

LEMMA CodexTakes ==
    ASSUME NEW r, r.scope \in Scopes, DiskFits, Reach("codex", r.scope) \subseteq DOMAIN disk
    PROVE  TakesAll("codex", r, CodexUninstall(r))
<1> DEFINE s == r.scope
           t == Target("codex", s)
           user == Target("codex", "user").mcp
           es == TrustEntries(s, disk[t.hooks], r.exe)
           shared == FileShared(r.caps, t.text, "codex")
           bare == [disk[t.mcp] EXCEPT !.server = RemoveServer(disk[t.mcp].server)]
           distrust(toml) == [toml EXCEPT !.trust = RemoveTrust(toml.trust, es)]
           own == IF t.mcp = user THEN distrust(bare) ELSE bare
           keys == distrust(disk[user])
           gs == RemoveHooks(disk[t.hooks])
           a == W(t.mcp, own)
           b == IF t.mcp = user THEN <<>> ELSE W(user, keys)
           d == IF shared THEN <<>> ELSE W(t.text, RemoveBlock(disk[t.text]))
           h == W(t.hooks, gs)
<1>0. "codex" \in Client
  BY DEF Client
<1>1. CodexUninstall(r) \in {Refuse, a \o b \o d \o h}
  BY DEF CodexUninstall
<1>2. /\ t.mcp = <<"codex.toml", s>> /\ t.hooks = <<"codex.hooks", s>> /\ t.text \in {<<"AGENTS", s>>, <<"codex.AGENTS", s>>}
      /\ ScopeFiles("codex", s) = {t.mcp, t.hooks, t.text} /\ user = CodexUser
  BY CodexFiles
<1>3. /\ t.hooks[1] = "codex.hooks" /\ t.mcp[1] = "codex.toml" /\ user[1] = "codex.toml" /\ Plain(t.text)
      /\ ~Shareable(t.hooks) /\ ~Shareable(t.mcp) /\ ~Shareable(user)
  BY <1>2 DEF CodexUser, Plain, Strange, Shareable
<1>4. {t.hooks, t.mcp, t.text} \subseteq DOMAIN disk /\ user \in DOMAIN disk
  BY <1>2 DEF Reach
<1> HIDE DEF t, user
<1>5. disk[t.hooks] \in Hooks /\ IsToml(disk[t.mcp]) /\ IsToml(disk[user])
  BY <1>3, <1>4, HooksHold, TomlHolds DEF DiskFits
<1>6. gs \in Hooks
  BY <1>5, RemoveLeaves
<1> HIDE DEF gs, es
<1>7. IsToml(bare)
  BY <1>5, TomlServer
<1> HIDE DEF bare
<1>8. ASSUME NEW v, IsToml(v) PROVE IsToml(distrust(v)) /\ distrust(v).server = v.server
  BY <1>8, TomlTrust
<1> HIDE DEF distrust
<1>9. IsToml(own) /\ IsToml(keys) /\ keys.server = disk[user].server
  BY <1>5, <1>7, <1>8
<1> HIDE DEF own, keys
<1>10. TakesAll("codex", r, a)
  <2>1. IsSeq(a) /\ \A w \in Range(a) : w.file = t.mcp /\ w.to = own
    BY OneWrite
  <2>2. Fits(t.mcp, own)
    BY <1>3, <1>9, TomlHolds
  <2> HIDE DEF a
  <2> QED BY <1>2, <1>3, <2>1, <2>2 DEF TakesAll, Takes, Reach
<1>11. TakesAll("codex", r, b)
  <2>1. CASE t.mcp = user
    BY <2>1, NoTake
  <2>2. CASE t.mcp # user
    <3>1. IsSeq(b) /\ \A w \in Range(b) : w.file = user /\ w.to = keys
      BY <2>2, OneWrite
    <3>2. Fits(user, keys) /\ (HoldsOurs(user) => Holding(user, keys))
      BY <1>3, <1>9, TomlHolds DEF HoldsOurs
    <3> HIDE DEF b
    <3> QED BY <1>2, <1>3, <3>1, <3>2 DEF TakesAll, Takes, Reach
  <2> QED BY <2>1, <2>2
<1>12. TakesAll("codex", r, d)
  BY <1>0, <1>2, <1>3, PlainTakes, NoTake
<1>13. TakesAll("codex", r, h)
  <2>1. IsSeq(h) /\ \A w \in Range(h) : w.file = t.hooks /\ w.to = gs
    BY OneWrite
  <2>2. Fits(t.hooks, gs)
    BY <1>3, <1>6, HooksHold
  <2> HIDE DEF h
  <2> QED BY <1>2, <1>3, <2>1, <2>2 DEF TakesAll, Takes, Reach
<1> HIDE DEF a, b, d, h
<1>14. TakesAll("codex", r, a \o b)
  BY <1>10, <1>11, TakesJoin
<1>15. TakesAll("codex", r, a \o b \o d)
  BY <1>12, <1>14, TakesJoin
<1>16. TakesAll("codex", r, a \o b \o d \o h)
  BY <1>13, <1>15, TakesJoin
<1> QED BY <1>1, <1>16, RefusalTakes

LEMMA PeerUninstalls ==
    ASSUME NEW c \in Peers, NEW r, r.scope \in Scopes, DiskFits, Reach(c, r.scope) \subseteq DOMAIN disk
    PROVE  TakesAll(c, r, UninstallModule(c, r))
<1>1. c \in {"codex", "copilot", "vscode", "agy", "opencode", "cursor"}
  BY DEF Peers, Client
<1>2. ScopeFiles(c, r.scope) \subseteq DOMAIN disk
  BY DEF Reach
<1>3. CASE c = "codex"
  BY <1>3, CodexTakes DEF UninstallModule
<1>4. CASE c = "copilot"
  BY <1>4, CopilotTakes DEF UninstallModule
<1>5. CASE c = "vscode"
  BY <1>5, VscodeTakes DEF UninstallModule
<1>6. CASE c = "agy"
  BY <1>6, AgyTakes DEF UninstallModule
<1>7. CASE c = "opencode"
  BY <1>7, OpencodeTakes DEF UninstallModule
<1>8. CASE c = "cursor"
  BY <1>2, <1>8, CursorTakes DEF UninstallModule
<1> QED BY <1>1, <1>3, <1>4, <1>5, <1>6, <1>7, <1>8

-----------------------------------------------------------------------------
(* Claude's plans.                                                            *)

Everything == FilesOf(Client)
CapsDoc == [claude : BOOLEAN, entry : [Client -> [scopes : SUBSET Scopes, files : SUBSET Everything, trusted : BOOLEAN]]]

Enables(w) == w.file[1] = "claude.settings" /\ w.to.plugin
Empties(w) == w.file = Market /\ w.to # PluginFiles

\* The plan completes the directory just before it enables the plugin.
Completes(w) == w.file = Market /\ w.to = PluginFiles
SetsUp(p) ==
    \/ Len(p) = 3 /\ Completes(p[1]) /\ p[2].file # Market /\ p[3].file # Market
    \/ Len(p) = 4 /\ p[1].file = Market /\ Completes(p[2]) /\ p[3].file # Market /\ p[4].file # Market

\* A plan takes files out of the directory only once no settings enable the plugin, and enables it only
\* once the directory is complete.
PluginSafe(d, p) ==
    /\ (\E w \in Range(p) : Empties(w)) =>
          \A s \in Scopes : ~d[Setting(s)].plugin \/ (Head(p).file = Setting(s) /\ ~Head(p).to.plugin)
    /\ (\E w \in Range(p) : Enables(w)) =>
          (d[Market] = PluginFiles /\ \A w \in Range(p) : w.file # Market) \/ SetsUp(p)

\* A write of claude's part: to its own files, never to settings that cannot be read, and in the record
\* only to its own field.
ClaudeWrite(w) ==
    /\ w.file[1] \in Strange /\ Fits(w.file, w.to)
    /\ w.file \in broken /\ w.file[1] = "claude.settings" => ~w.to.plugin
    /\ w.file[1] = "capabilities" => w.to \in CapsDoc /\ w.to.entry = capsFile.entry
ClaudeAll(p) == IsSeq(p) /\ \A w \in Range(p) : ClaudeWrite(w)

LEMMA ClaudeJoin == ASSUME NEW p, NEW q, ClaudeAll(p), ClaudeAll(q) PROVE ClaudeAll(p \o q) /\ Range(p \o q) = Range(p) \union Range(q)
<1>1. IsSeq(p) /\ IsSeq(q)
  BY DEF ClaudeAll
<1>2. IsSeq(p \o q) /\ Range(p \o q) = Range(p) \union Range(q)
  BY <1>1, Joined
<1> QED BY <1>2 DEF ClaudeAll

LEMMA HeadJoin == ASSUME NEW p, NEW q, IsSeq(p), IsSeq(q), p # <<>> PROVE p \o q # <<>> /\ Head(p \o q) = Head(p)
<1>1. PICK S : p \in Seq(S)
  BY DEF IsSeq
<1>2. PICK T : q \in Seq(T)
  BY DEF IsSeq
<1>3. p \in Seq(S \union T) /\ q \in Seq(S \union T)
  BY <1>1, <1>2
<1>4. Len(p) \in Nat /\ Len(p) >= 1 /\ Len(q) \in Nat /\ p \o q \in Seq(S \union T) /\ Len(p \o q) = Len(p) + Len(q)
  BY <1>3
<1>5. (p \o q)[1] = p[1] /\ Len(p \o q) >= 1
  BY <1>3, <1>4
<1> QED BY <1>3, <1>4, <1>5

LEMMA JoinParts ==
    ASSUME NEW S, NEW p \in Seq(S), NEW q \in Seq(S)
    PROVE  /\ p \o q \in Seq(S) /\ Len(p) \in Nat /\ Len(q) \in Nat /\ Len(p \o q) = Len(p) + Len(q)
           /\ \A i \in 1 .. Len(p) : (p \o q)[i] = p[i]
           /\ \A i \in 1 .. Len(q) : (p \o q)[Len(p) + i] = q[i]
  OBVIOUS

LEMMA FourWrites ==
    ASSUME NEW a, NEW b, NEW c, NEW d
    PROVE  LET p == (<<a>> \o <<b>> \o <<c>>) \o <<d>>
           IN Len(p) = 4 /\ p[1] = a /\ p[2] = b /\ p[3] = c /\ p[4] = d
<1> DEFINE S == {a, b, c, d}
           A == <<a>>
           B == <<b>>
           C == <<c>>
           D == <<d>>
           p == (A \o B \o C) \o D
<1>1. A \in Seq(S) /\ B \in Seq(S) /\ C \in Seq(S) /\ D \in Seq(S)
  OBVIOUS
<1>2. Len(A) = 1 /\ A[1] = a /\ Len(B) = 1 /\ B[1] = b /\ Len(C) = 1 /\ C[1] = c /\ Len(D) = 1 /\ D[1] = d
  OBVIOUS
<1> HIDE DEF A, B, C, D, S
<1> DEFINE E == A \o B
           F == E \o C
<1>3. /\ E \in Seq(S) /\ Len(E) = Len(A) + Len(B)
      /\ \A i \in 1 .. Len(A) : E[i] = A[i]
      /\ \A i \in 1 .. Len(B) : E[Len(A) + i] = B[i]
  BY <1>1, JoinParts
<1> HIDE DEF E
<1>4. Len(E) = 2 /\ E[1] = a /\ E[2] = b
  BY <1>2, <1>3
<1>5. /\ F \in Seq(S) /\ Len(F) = Len(E) + Len(C)
      /\ \A i \in 1 .. Len(E) : F[i] = E[i]
      /\ \A i \in 1 .. Len(C) : F[Len(E) + i] = C[i]
  <2>1. E \in Seq(S)
    BY <1>3
  <2> QED BY <1>1, <2>1, JoinParts
<1> HIDE DEF F
<1>6. Len(F) = 3 /\ F[1] = a /\ F[2] = b /\ F[3] = c
  BY <1>2, <1>4, <1>5
<1> DEFINE G == F \o D
<1>7. /\ Len(G) = Len(F) + Len(D)
      /\ \A i \in 1 .. Len(F) : G[i] = F[i]
      /\ \A i \in 1 .. Len(D) : G[Len(F) + i] = D[i]
  <2>1. F \in Seq(S)
    BY <1>5
  <2> QED BY <1>1, <2>1, JoinParts
<1>8. p = G
  BY DEF F, E
<1> HIDE DEF p, G
<1>9. Len(p) = 4 /\ p[1] = a /\ p[2] = b /\ p[3] = c /\ p[4] = d
  BY <1>2, <1>6, <1>7, <1>8
<1> QED BY <1>9 DEF A, B, C, D, p

LEMMA RefusalIsClaude == ClaudeAll(Refuse) /\ \A w \in Range(Refuse) : w.file = <<"refuse", "none">>
<1>1. \A w \in Range(Refuse) : w.file = <<"refuse", "none">> /\ w.file[1] = "refuse"
  BY RefusalIs
<1> QED BY <1>1, RefusalIs DEF ClaudeAll, ClaudeWrite, Fits, Strange

LEMMA NothingIsClaude == ClaudeAll(<<>>)
  BY NoWrite DEF ClaudeAll

LEMMA ServerIsClaude == ASSUME NEW s, NEW v PROVE ClaudeAll(W(<<"claude.mcp", s>>, v))
<1>1. \A w \in Range(W(<<"claude.mcp", s>>, v)) : w.file = <<"claude.mcp", s>> /\ w.file[1] = "claude.mcp"
  BY OneWrite
<1> QED BY <1>1, OneWrite DEF ClaudeAll, ClaudeWrite, Fits, Strange

LEMMA MarketIsClaude == ASSUME NEW v, v \subseteq PluginFiles PROVE ClaudeAll(W(Market, v))
<1>1. \A w \in Range(W(Market, v)) : w.file = Market /\ w.file[1] = "claude.market" /\ w.to = v
  BY OneWrite DEF Market
<1> QED BY <1>1, OneWrite DEF ClaudeAll, ClaudeWrite, Fits, Strange

LEMMA SettingIsClaude ==
    ASSUME NEW s, NEW v, IsSettings(v), Setting(s) \in broken => ~v.plugin PROVE ClaudeAll(W(Setting(s), v))
<1>1. \A w \in Range(W(Setting(s), v)) : w.file = Setting(s) /\ w.file[1] = "claude.settings" /\ w.to = v
  BY OneWrite DEF Setting
<1> QED BY <1>1, OneWrite DEF ClaudeAll, ClaudeWrite, Fits, Strange

LEMMA RecordIsClaude ==
    ASSUME capsFile \in CapsDoc, NEW b \in BOOLEAN
    PROVE  LET p == W(<<"capabilities", "home">>, [capsFile EXCEPT !.claude = b])
           IN ClaudeAll(p) /\ \A w \in Range(p) : w.file = <<"capabilities", "home">>
<1> DEFINE v == [capsFile EXCEPT !.claude = b]
           p == W(<<"capabilities", "home">>, v)
<1>1. v \in CapsDoc /\ v.entry = capsFile.entry
  BY DEF CapsDoc
<1> HIDE DEF v
<1>2. \A w \in Range(p) : w.file = <<"capabilities", "home">> /\ w.file[1] = "capabilities" /\ w.to = v
  BY OneWrite
<1>3. IsSeq(p)
  BY OneWrite
<1> HIDE DEF p
<1>4. ClaudeAll(p)
  BY <1>1, <1>2, <1>3 DEF ClaudeAll, ClaudeWrite, Fits, Strange
<1> QED BY <1>2, <1>4 DEF p, v

\* What claude's plans start from: readable settings are well formed, none that cannot be read enable the
\* plugin, and where the plugin is enabled its directory is complete.
ClaudeReady ==
    /\ \A s \in Scopes : IsSettings(disk[Setting(s)]) /\ (Setting(s) \in broken => ~disk[Setting(s)].plugin)
    /\ disk[Market] \subseteq PluginFiles
    /\ \A s \in Scopes : disk[Setting(s)].plugin => disk[Market] = PluginFiles
    /\ capsFile \in CapsDoc

LEMMA PluginSwitched ==
    ASSUME NEW v, IsSettings(v), NEW b \in BOOLEAN
    PROVE  IsSettings([v EXCEPT !.plugin = b]) /\ [v EXCEPT !.plugin = b].plugin = b
<1>1. v = [plugin |-> v.plugin, hooks |-> v.hooks]
  BY DEF IsSettings
<1>2. [v EXCEPT !.plugin = b] = [plugin |-> b, hooks |-> v.hooks]
  BY <1>1
<1> QED BY <1>2 DEF IsSettings

LEMMA HooksSwitched ==
    ASSUME NEW v, IsSettings(v), NEW h
    PROVE  IsSettings([v EXCEPT !.hooks = h]) /\ [v EXCEPT !.hooks = h].plugin = v.plugin
<1>1. v = [plugin |-> v.plugin, hooks |-> v.hooks] /\ v.plugin \in BOOLEAN
  BY DEF IsSettings
<1>2. [v EXCEPT !.hooks = h] = [plugin |-> v.plugin, hooks |-> h]
  BY <1>1
<1> DEFINE u == [v EXCEPT !.hooks = h]
<1>3. u.plugin = v.plugin /\ u.hooks = h
  BY <1>2
<1> QED BY <1>1, <1>2, <1>3 DEF IsSettings

\* A plan without writes to the directory that enables nothing new.
LEMMA CalmPlan ==
    ASSUME NEW p, ClaudeAll(p), \A w \in Range(p) : w.file # Market,
           (\E w \in Range(p) : Enables(w)) => disk[Market] = PluginFiles
    PROVE  PluginSafe(disk, p)
  BY DEF PluginSafe, Empties

LEMMA RecordClaudeIs ==
    ASSUME NEW r, capsFile \in CapsDoc
    PROVE  ClaudeAll(RecordClaude(r)) /\ \A w \in Range(RecordClaude(r)) : w.file = <<"capabilities", "home">>
  BY RecordIsClaude DEF RecordClaude

LEMMA ClearClaudeIs ==
    ASSUME NEW r, capsFile \in CapsDoc
    PROVE  ClaudeAll(ClearClaude(r)) /\ \A w \in Range(ClearClaude(r)) : w.file = <<"capabilities", "home">>
  BY RecordIsClaude, NothingIsClaude, NoWrite DEF ClearClaude

LEMMA RefusedPlan ==
    ASSUME NEW q, ClaudeAll(q), \A w \in Range(q) : w.file = <<"capabilities", "home">>
    PROVE  ClaudeAll(Refuse \o q) /\ PluginSafe(disk, Refuse \o q)
<1>1. ClaudeAll(Refuse \o q) /\ Range(Refuse \o q) = Range(Refuse) \union Range(q)
  BY RefusalIsClaude, ClaudeJoin
<1> DEFINE p == Refuse \o q
<1> HIDE DEF p
<1>2. \A w \in Range(p) : w.file = <<"refuse", "none">> \/ w.file = <<"capabilities", "home">>
  BY <1>1, RefusalIsClaude DEF p
<1>3. \A w \in Range(p) : w.file[1] \in {"refuse", "capabilities"}
  BY <1>2
<1>4. \A w \in Range(p) : w.file # Market /\ ~Enables(w)
  BY <1>2, <1>3 DEF Market, Enables
<1>5. PluginSafe(disk, p)
  BY <1>1, <1>4, CalmPlan DEF p
<1> QED BY <1>1, <1>5 DEF p

LEMMA PluginGoesIn ==
    ASSUME NEW r, r.scope \in Scopes, ClaudeReady
    PROVE  ClaudeAll(InstallPlugin(r) \o RecordClaude(r)) /\ PluginSafe(disk, InstallPlugin(r) \o RecordClaude(r))
<1> DEFINE s == r.scope
           M == disk[Market]
           st == EnablePlugin(disk[Setting(s)])
           a == [file |-> Market, to |-> M \union {1}]
           b == [file |-> Market, to |-> M \union PluginFiles]
           e == [file |-> Setting(s), to |-> st]
           k == [file |-> <<"capabilities", "home">>, to |-> [capsFile EXCEPT !.claude = TRUE]]
           q == W(Market, M \union {1}) \o W(Market, M \union PluginFiles) \o W(Setting(s), st)
           p == q \o RecordClaude(r)
<1>1. Target("claude", s).hooks = Setting(s) /\ Target("claude", s).text = Market
  BY ClaudeFiles
<1>2. InstallPlugin(r) = IF Setting(s) \in broken THEN Refuse ELSE q
  BY <1>1 DEF InstallPlugin, Read
<1>3. CASE Setting(s) \in broken
  <2>1. capsFile \in CapsDoc
    BY DEF ClaudeReady
  <2> QED BY <1>2, <1>3, <2>1, RecordClaudeIs, RefusedPlan
<1>4. CASE Setting(s) \notin broken
  <2>1. IsSettings(disk[Setting(s)]) /\ M \subseteq PluginFiles /\ capsFile \in CapsDoc
    BY DEF ClaudeReady
  <2>2. IsSettings(st)
    BY <2>1, PluginSwitched DEF EnablePlugin
  <2>3. M \union {1} \subseteq PluginFiles /\ M \union PluginFiles \subseteq PluginFiles /\ M \union PluginFiles = PluginFiles
    BY <2>1 DEF PluginFiles
  <2>4. Len(p) = 4 /\ p[1] = a /\ p[2] = b /\ p[3] = e /\ p[4] = k
    <3>1. p = (<<a>> \o <<b>> \o <<e>>) \o <<k>>
      BY DEF W, RecordClaude
    <3> HIDE DEF p, a, b, e, k
    <3> DEFINE u == (<<a>> \o <<b>> \o <<e>>) \o <<k>>
    <3>2. Len(u) = 4 /\ u[1] = a /\ u[2] = b /\ u[3] = e /\ u[4] = k
      BY FourWrites
    <3> HIDE DEF u
    <3> QED BY <3>1, <3>2 DEF u
  <2>5. ClaudeAll(p) /\ Range(p) = Range(W(Market, M \union {1})) \union Range(W(Market, M \union PluginFiles)) \union Range(W(Setting(s), st)) \union Range(RecordClaude(r))
    <3> DEFINE A == W(Market, M \union {1})
               B == W(Market, M \union PluginFiles)
               E == W(Setting(s), st)
               K == RecordClaude(r)
    <3>1. ClaudeAll(A) /\ ClaudeAll(B)
      BY <2>3, MarketIsClaude
    <3>2. ClaudeAll(E)
      BY <1>4, <2>2, SettingIsClaude
    <3>3. ClaudeAll(K)
      BY <2>1, RecordClaudeIs
    <3>4. p = A \o B \o E \o K
      OBVIOUS
    <3> HIDE DEF A, B, E, K, p
    <3>5. ClaudeAll(A \o B) /\ Range(A \o B) = Range(A) \union Range(B)
      BY <3>1, ClaudeJoin
    <3>6. ClaudeAll(A \o B \o E) /\ Range(A \o B \o E) = Range(A \o B) \union Range(E)
      BY <3>2, <3>5, ClaudeJoin
    <3>7. ClaudeAll(A \o B \o E \o K) /\ Range(A \o B \o E \o K) = Range(A \o B \o E) \union Range(K)
      BY <3>3, <3>6, ClaudeJoin
    <3> QED BY <3>4, <3>5, <3>6, <3>7 DEF A, B, E, K
  <2>6. SetsUp(p)
    <3>1. Completes(b) /\ a.file = Market
      BY <2>3 DEF Completes
    <3>2. e.file # Market /\ k.file # Market
      BY DEF Setting, Market
    <3> HIDE DEF p, a, b, e, k
    <3> QED BY <2>4, <3>1, <3>2 DEF SetsUp
  <2>7. (\E w \in Range(p) : Empties(w)) => \A z \in Scopes : ~disk[Setting(z)].plugin
    <3>1. SUFFICES ASSUME NEW z \in Scopes, disk[Setting(z)].plugin, NEW w \in Range(p), Empties(w) PROVE FALSE
      OBVIOUS
    <3>2. M = PluginFiles
      BY <3>1 DEF ClaudeReady
    <3>3. M \union {1} = PluginFiles
      BY <2>3, <3>2 DEF PluginFiles
    <3>4. w \in Range(W(Market, M \union {1})) \/ w \in Range(W(Market, M \union PluginFiles)) \/ w \in Range(W(Setting(s), st)) \/ w \in Range(RecordClaude(r))
      BY <2>5
    <3>5. w.to = PluginFiles \/ w.file = Setting(s) \/ w.file = <<"capabilities", "home">>
      <4>0. \A v : w \in Range(W(Market, v)) => w.to = v
        BY OneWrite
      <4>1. CASE w \in Range(W(Market, M \union {1}))
        BY <3>3, <4>0, <4>1
      <4>2. CASE w \in Range(W(Market, M \union PluginFiles))
        BY <2>3, <4>0, <4>2
      <4>3. CASE w \in Range(W(Setting(s), st))
        BY <4>3, OneWrite
      <4>4. CASE w \in Range(RecordClaude(r))
        BY <2>1, <4>4, RecordClaudeIs
      <4> QED BY <3>4, <4>1, <4>2, <4>3, <4>4
    <3>6. Setting(s) # Market /\ <<"capabilities", "home">> # Market
      BY DEF Setting, Market
    <3> QED BY <3>1, <3>5, <3>6 DEF Empties
  <2>8. PluginSafe(disk, p)
    <3> HIDE DEF p
    <3> QED BY <2>6, <2>7 DEF PluginSafe
  <2>9. InstallPlugin(r) \o RecordClaude(r) = p
    BY <1>2, <1>4
  <2> HIDE DEF p
  <2> QED BY <2>5, <2>8, <2>9
<1> QED BY <1>3, <1>4

LEMMA EntriesGoIn ==
    ASSUME NEW r, r.scope \in Scopes, ClaudeReady
    PROVE  ClaudeAll(InstallEntries(r) \o RecordClaude(r)) /\ PluginSafe(disk, InstallEntries(r) \o RecordClaude(r))
<1> DEFINE s == r.scope
           st == MergeSettingsHooks(disk[Setting(s)], r.exe)
           A == W(<<"claude.mcp", s>>, r.exe)
           E == W(Setting(s), st)
           K == RecordClaude(r)
           p == A \o E \o K
<1>1. Target("claude", s).hooks = Setting(s) /\ Target("claude", s).mcp = <<"claude.mcp", s>>
  BY ClaudeFiles
<1>2. InstallEntries(r) = IF {Setting(s), <<"claude.mcp", s>>} \cap broken = {} THEN A \o E ELSE Refuse
  BY <1>1 DEF InstallEntries, Read
<1>3. capsFile \in CapsDoc /\ IsSettings(disk[Setting(s)])
  BY DEF ClaudeReady
<1>4. CASE {Setting(s), <<"claude.mcp", s>>} \cap broken # {}
  BY <1>2, <1>3, <1>4, RecordClaudeIs, RefusedPlan
<1>5. CASE {Setting(s), <<"claude.mcp", s>>} \cap broken = {}
  <2>1. IsSettings(st) /\ st.plugin = disk[Setting(s)].plugin /\ Setting(s) \notin broken
    BY <1>3, <1>5, HooksSwitched DEF MergeSettingsHooks
  <2>2. ClaudeAll(A) /\ ClaudeAll(E) /\ ClaudeAll(K)
    BY <1>3, <2>1, ServerIsClaude, SettingIsClaude, RecordClaudeIs
  <2>3. /\ \A w \in Range(A) : w.file = <<"claude.mcp", s>>
        /\ \A w \in Range(E) : w.file = Setting(s) /\ w.to = st
        /\ \A w \in Range(K) : w.file = <<"capabilities", "home">>
    BY <1>3, OneWrite, RecordClaudeIs
  <2>4. InstallEntries(r) \o RecordClaude(r) = p
    BY <1>2, <1>5
  <2> HIDE DEF A, E, K, st
  <2>5. ClaudeAll(A \o E) /\ Range(A \o E) = Range(A) \union Range(E)
    BY <2>2, ClaudeJoin
  <2>6. ClaudeAll(p) /\ Range(p) = Range(A \o E) \union Range(K)
    BY <2>2, <2>5, ClaudeJoin
  <2> HIDE DEF p
  <2>7. \A w \in Range(p) : w.file # Market
    BY <2>3, <2>5, <2>6 DEF Market, Setting
  <2>8. (\E w \in Range(p) : Enables(w)) => disk[Market] = PluginFiles
    <3>1. \A w \in Range(A) \union Range(K) : ~Enables(w)
      BY <2>3 DEF Enables
    <3>2. \A w \in Range(E) : Enables(w) => disk[Setting(s)].plugin
      BY <2>1, <2>3 DEF Enables
    <3> QED BY <2>5, <2>6, <3>1, <3>2 DEF ClaudeReady
  <2>9. PluginSafe(disk, p)
    BY <2>6, <2>7, <2>8, CalmPlan
  <2> QED BY <2>4, <2>6, <2>9
<1> QED BY <1>4, <1>5

LEMMA EntriesGoOut ==
    ASSUME NEW r, r.scope \in Scopes, ClaudeReady
    PROVE  ClaudeAll(UninstallEntries(r) \o ClearClaude(r)) /\ PluginSafe(disk, UninstallEntries(r) \o ClearClaude(r))
<1> DEFINE s == r.scope
           st == RemoveSettingsHooks(disk[Setting(s)])
           A == W(<<"claude.mcp", s>>, RemoveServer(disk[<<"claude.mcp", s>>]))
           E == IF Setting(s) \in broken THEN Refuse ELSE W(Setting(s), st)
           K == ClearClaude(r)
           p == A \o E \o K
<1>1. Target("claude", s).hooks = Setting(s) /\ Target("claude", s).mcp = <<"claude.mcp", s>>
  BY ClaudeFiles
<1>2. UninstallEntries(r) = IF <<"claude.mcp", s>> \in broken THEN Refuse ELSE A \o E
  BY <1>1 DEF UninstallEntries, Read
<1>3. capsFile \in CapsDoc /\ IsSettings(disk[Setting(s)])
  BY DEF ClaudeReady
<1>4. CASE <<"claude.mcp", s>> \in broken
  BY <1>2, <1>3, <1>4, ClearClaudeIs, RefusedPlan
<1>5. CASE <<"claude.mcp", s>> \notin broken
  <2>1. IsSettings(st) /\ st.plugin = disk[Setting(s)].plugin
    BY <1>3, HooksSwitched DEF RemoveSettingsHooks
  <2>2. ClaudeAll(A) /\ ClaudeAll(K)
    BY <1>3, ServerIsClaude, ClearClaudeIs
  <2>3. /\ ClaudeAll(E)
        /\ \A w \in Range(E) : w.file = <<"refuse", "none">> \/ (w.file = Setting(s) /\ w.to = st)
    <3>1. CASE Setting(s) \in broken
      BY <3>1, RefusalIsClaude
    <3>2. CASE Setting(s) \notin broken
      BY <2>1, <3>2, SettingIsClaude, OneWrite
    <3> QED BY <3>1, <3>2
  <2>4. /\ \A w \in Range(A) : w.file = <<"claude.mcp", s>>
        /\ \A w \in Range(K) : w.file = <<"capabilities", "home">>
    BY <1>3, OneWrite, ClearClaudeIs
  <2>5. UninstallEntries(r) \o ClearClaude(r) = p
    BY <1>2, <1>5
  <2> HIDE DEF A, E, K, st
  <2>6. ClaudeAll(A \o E) /\ Range(A \o E) = Range(A) \union Range(E)
    BY <2>2, <2>3, ClaudeJoin
  <2>7. ClaudeAll(p) /\ Range(p) = Range(A \o E) \union Range(K)
    BY <2>2, <2>6, ClaudeJoin
  <2> HIDE DEF p
  <2>8. \A w \in Range(p) : w.file # Market
    BY <2>3, <2>4, <2>6, <2>7 DEF Market, Setting
  <2>9. (\E w \in Range(p) : Enables(w)) => disk[Market] = PluginFiles
    <3>1. \A w \in Range(A) \union Range(K) : ~Enables(w)
      BY <2>4 DEF Enables
    <3>2. \A w \in Range(E) : Enables(w) => disk[Setting(s)].plugin
      BY <2>1, <2>3 DEF Enables
    <3> QED BY <2>6, <2>7, <3>1, <3>2 DEF ClaudeReady
  <2>10. PluginSafe(disk, p)
    BY <2>7, <2>8, <2>9, CalmPlan
  <2> QED BY <2>5, <2>7, <2>10
<1> QED BY <1>4, <1>5

LEMMA PluginGoesOut ==
    ASSUME NEW r, r.scope \in Scopes, ClaudeReady
    PROVE  ClaudeAll(UninstallPlugin(r) \o ClearClaude(r)) /\ PluginSafe(disk, UninstallPlugin(r) \o ClearClaude(r))
<1> DEFINE s == r.scope
           z == Other(s)
           st == UnsetPlugin(disk[Setting(s)])
           less == disk[Market] \ {1}
           A == W(Setting(s), st)
           B == W(Market, less)
           C == W(Market, {})
           E == IF UsesAgora(z) THEN <<>> ELSE B \o C
           K == ClearClaude(r)
           p == A \o E \o K
<1>1. Target("claude", s).hooks = Setting(s) /\ Target("claude", s).text = Market
  BY ClaudeFiles
<1>2. UninstallPlugin(r) = IF Setting(s) \in broken THEN Refuse ELSE A \o E
  BY <1>1 DEF UninstallPlugin, Read, RemoveMarketplace
<1>3. capsFile \in CapsDoc /\ IsSettings(disk[Setting(s)]) /\ disk[Market] \subseteq PluginFiles
  BY DEF ClaudeReady
<1>4. CASE Setting(s) \in broken
  BY <1>2, <1>3, <1>4, ClearClaudeIs, RefusedPlan
<1>5. CASE Setting(s) \notin broken
  <2>1. IsSettings(st) /\ ~st.plugin
    BY <1>3, PluginSwitched DEF UnsetPlugin
  <2>2. ClaudeAll(A) /\ ClaudeAll(K)
    BY <1>3, <1>5, <2>1, SettingIsClaude, ClearClaudeIs
  <2>3. ClaudeAll(B) /\ ClaudeAll(C)
    BY <1>3, MarketIsClaude
  <2>4. /\ IsSeq(A) /\ A # <<>> /\ Head(A).file = Setting(s) /\ Head(A).to = st
        /\ \A w \in Range(A) : w.file = Setting(s) /\ w.to = st
        /\ \A w \in Range(K) : w.file = <<"capabilities", "home">>
    <3>1. A = <<[file |-> Setting(s), to |-> st]>>
      BY DEF W
    <3> HIDE DEF st
    <3>2. A # <<>> /\ Head(A) = [file |-> Setting(s), to |-> st]
      BY <3>1
    <3> QED BY <1>3, <3>2, OneWrite, ClearClaudeIs
  <2>5. UninstallPlugin(r) \o ClearClaude(r) = p
    BY <1>2, <1>5
  <2>6. \A w \in Range(B) \union Range(C) : w.file = Market
    <3>1. \A v : \A w \in Range(W(Market, v)) : w.file = Market
      BY OneWrite
    <3> HIDE DEF less
    <3> QED BY <3>1
  <2> HIDE DEF A, B, C, K, st, less
  <2>7. ClaudeAll(B \o C) /\ Range(B \o C) = Range(B) \union Range(C)
    BY <2>3, ClaudeJoin
  <2>8. ClaudeAll(E) /\ \A w \in Range(E) : w.file = Market /\ ~UsesAgora(z)
    BY <2>6, <2>7, NothingIsClaude, NoWrite
  <2> HIDE DEF E
  <2>9. ClaudeAll(A \o E) /\ Range(A \o E) = Range(A) \union Range(E)
    BY <2>2, <2>8, ClaudeJoin
  <2>10. ClaudeAll(p) /\ Range(p) = Range(A \o E) \union Range(K)
    BY <2>2, <2>9, ClaudeJoin
  <2>11. Head(p) = Head(A)
    <3>1. IsSeq(E) /\ IsSeq(K) /\ IsSeq(A \o E)
      BY <2>2, <2>8, <2>9 DEF ClaudeAll
    <3>2. A \o E # <<>> /\ Head(A \o E) = Head(A)
      BY <2>4, <3>1, HeadJoin
    <3> QED BY <3>1, <3>2, HeadJoin
  <2> HIDE DEF p
  <2>12. \A w \in Range(p) : ~Enables(w)
    <3>1. \A w \in Range(A) : ~Enables(w)
      BY <2>1, <2>4 DEF Enables
    <3>2. \A w \in Range(E) \union Range(K) : ~Enables(w)
      BY <2>4, <2>8 DEF Enables, Market
    <3> QED BY <2>9, <2>10, <3>1, <3>2
  <2>13. ASSUME NEW w \in Range(p), Empties(w), NEW y \in Scopes
         PROVE  ~disk[Setting(y)].plugin \/ (Head(p).file = Setting(y) /\ ~Head(p).to.plugin)
    <3>1. w.file = Market
      BY <2>13 DEF Empties
    <3>2. w \in Range(E)
      BY <2>4, <2>9, <2>10, <3>1 DEF Market, Setting
    <3>3. CASE y = s
      BY <2>1, <2>4, <2>11, <3>3
    <3>4. CASE y # s
      <4>1. y = z
        BY <3>4 DEF Other, Scopes
      <4>2. Target("claude", z).hooks = Setting(z)
        BY <4>1, ClaudeFiles
      <4>3. ~(Setting(z) \notin broken /\ disk[Setting(z)].plugin)
        BY <2>8, <3>2, <4>2 DEF UsesAgora, Read
      <4> QED BY <4>1, <4>3 DEF ClaudeReady
    <3> QED BY <3>3, <3>4
  <2>14. PluginSafe(disk, p)
    BY <2>12, <2>13 DEF PluginSafe
  <2> QED BY <2>5, <2>10, <2>14
<1> QED BY <1>4, <1>5

LEMMA ClaudePlans ==
    ASSUME NEW r, r.scope \in Scopes, ClaudeReady, NEW p, p = InstallModule("claude", r) \/ p = UninstallModule("claude", r)
    PROVE  ClaudeAll(p) /\ PluginSafe(disk, p)
<1>1. /\ InstallModule("claude", r) = (IF r.plugin THEN InstallPlugin(r) ELSE InstallEntries(r)) \o RecordClaude(r)
      /\ UninstallModule("claude", r) = (IF r.plugin THEN UninstallPlugin(r) ELSE UninstallEntries(r)) \o ClearClaude(r)
  BY DEF InstallModule, UninstallModule
<1> QED BY <1>1, PluginGoesIn, EntriesGoIn, PluginGoesOut, EntriesGoOut

-----------------------------------------------------------------------------
(* The invariant.                                                             *)

RunRecord(crew, P) ==
    [op : {"install", "uninstall"}, todo : Seq(crew), scope : Scopes, exe : Exes, trust : BOOLEAN, plugin : BOOLEAN,
     caps : CapsDoc, at : crew \union {Nothing}, plan : P, done : SUBSET (crew \ {"claude"}), trusted : BOOLEAN]
InstallTypes ==
    /\ setup = [crew |-> setup.crew, run |-> setup.run] /\ setup.crew \subseteq Client
    /\ \E V : disk \in [FilesOf(setup.crew) -> V]
    /\ DiskFits
    /\ capsFile \in CapsDoc
    /\ settled \subseteq (setup.crew \ {"claude"}) \X Scopes
    /\ Run # NoRun => (\E P : Run \in RunRecord(setup.crew, P)) /\ IsSeq(Run.plan)

\* The files that nothing may take: those of the settled clients and, while an install is under way, those
\* of the clients it has served.
Serving(r, o, z) == r # NoRun /\ r.op = "install" /\ o \in r.done /\ z = r.scope
Keeps(S, r, o, z) == <<o, z>> \in S \/ Serving(r, o, z)
Kept(S, r, f) == \E o \in Peers : \E z \in Scopes : Keeps(S, r, o, z) /\ f \in ScopeFiles(o, z)
KeptHold(S, r, d) == \A f : Kept(S, r, f) => Holding(f, d[f])

Recorded(S, caps) ==
    \A o \in Peers : \A z \in Scopes :
        <<o, z>> \in S => z \in caps.entry[o].scopes /\ ScopeFiles(o, z) \subseteq caps.entry[o].files

\* A command under way: the clients it names are no longer settled in its scope; the others that are settled
\* there are in the record it judges by; no write pending takes what is kept; and what it is installing is
\* there or still to be written.
NamedUnsettled(S, r) ==
    \A o \in Peers : o \in Range(r.todo) \/ o = r.at \/ o \in r.done => <<o, r.scope>> \notin S
SeenShared(S, r) ==
    \A o \in Peers : <<o, r.scope>> \in S => ScopeFiles(o, r.scope) \subseteq r.caps.entry[o].files
PlanSpares(S, r) ==
    \A w \in Range(r.plan) : Refusal(w) \/ (Fits(w.file, w.to) /\ (Kept(S, r, w.file) => Holding(w.file, w.to)))
PlanServes(r, d) ==
    r.op = "install" /\ r.at \in Peers =>
        /\ \A w \in Range(r.plan) : Refusal(w) \/ (w.file \in ScopeFiles(r.at, r.scope) => Holding(w.file, w.to))
        /\ \/ \E w \in Range(r.plan) : Refusal(w)
           \/ \A f \in ScopeFiles(r.at, r.scope) : Holding(f, d[f]) \/ \E w \in Range(r.plan) : w.file = f
PlanRecords(r, caps) ==
    \A w \in Range(r.plan) : w.file[1] = "capabilities" => w.to \in CapsDoc /\ w.to.entry = caps.entry
SickStaysOff(r, sick) ==
    \A w \in Range(r.plan) : w.file \in sick /\ w.file[1] = "claude.settings" => ~w.to.plugin

PluginThere(d, sick) ==
    \A s \in Scopes : /\ d[Setting(s)].plugin => d[Market] = PluginFiles
                      /\ Setting(s) \in sick => ~d[Setting(s)].plugin

InstallInv ==
    /\ InstallTypes
    /\ Recorded(settled, capsFile) /\ KeptHold(settled, Run, disk)
    /\ "claude" \in setup.crew => PluginThere(disk, broken)
    /\ Run # NoRun =>
          /\ NamedUnsettled(settled, Run) /\ SeenShared(settled, Run) /\ PlanSpares(settled, Run)
          /\ PlanServes(Run, disk) /\ PlanRecords(Run, capsFile) /\ SickStaysOff(Run, broken)
          /\ "claude" \in setup.crew => PluginSafe(disk, Run.plan)

LEMMA NoHooks == <<>> \in Hooks /\ OursIn(<<>>) = {}
<1> DEFINE e == <<>>
<1>1. e \in Seq(Seq(Handlers)) /\ Len(e) = 0
  OBVIOUS
<1> HIDE DEF e
<1>2. ASSUME NEW p \in OursIn(e) PROVE FALSE
  <2>1. e \in Seq(Seq(Handlers))
    BY <1>1
  <2>2. p[1] \in 1 .. Len(e)
    BY <1>2, <2>1, PlaceOf
  <2> QED BY <1>1, <2>2
<1>3. e \in Hooks /\ OursIn(e) = {}
  BY <1>1, <1>2 DEF Hooks, AtMostOne
<1> QED BY <1>3 DEF e

LEMMA CrewFiles ==
    ASSUME NEW crew, NEW c \in crew, NEW s \in Scopes PROVE ScopeFiles(c, s) \subseteq FilesOf(crew) /\ Reach(c, s) \subseteq FilesOf(crew)
<1>1. \A z \in Scopes : ScopeFiles(c, z) \subseteq FilesOf(crew)
  BY DEF FilesOf
<1>2. "user" \in Scopes
  BY DEF Scopes
<1>3. c = "codex" => CodexUser \in ScopeFiles(c, "user")
  BY <1>2, CodexFiles
<1> QED BY <1>1, <1>2, <1>3 DEF Reach

LEMMA DocsFit == \A f : Fits(f, StartDoc(f)) /\ Fits(f, FoundDoc(f))
<1> SUFFICES ASSUME NEW f PROVE Fits(f, StartDoc(f)) /\ Fits(f, FoundDoc(f))
  OBVIOUS
<1>1. Fits(f, StartDoc(f))
  <2>1. f[1] = "codex.toml" => IsToml(StartDoc(f))
    BY DEF StartDoc, IsToml
  <2>2. f[1] \in {"codex.hooks", "cursor.hooks"} => StartDoc(f) \in Hooks
    <3>1. f[1] \in {"codex.hooks", "cursor.hooks"} => StartDoc(f) = <<>>
      BY DEF StartDoc
    <3> QED BY <3>1, NoHooks
  <2>3. f[1] = "claude.settings" => IsSettings(StartDoc(f))
    BY DEF StartDoc, IsSettings
  <2>4. f[1] = "claude.market" => StartDoc(f) = {}
    BY DEF StartDoc
  <2> QED BY <2>1, <2>2, <2>3, <2>4 DEF Fits
<1>2. f[1] \in {"codex.toml", "claude.settings", "codex.hooks", "cursor.hooks", "claude.market"} => FoundDoc(f) = StartDoc(f)
  BY DEF FoundDoc
<1> QED BY <1>1, <1>2 DEF Fits

LEMMA InstallStarts == InstallInit => InstallInv
<1> SUFFICES ASSUME InstallInit PROVE InstallInv
  OBVIOUS
<1>1. PICK crew \in Crews : /\ setup = [crew |-> crew, run |-> NoRun]
                            /\ \/ disk = [f \in FilesOf(crew) |-> FoundDoc(f)]
                               \/ disk = [f \in FilesOf(crew) |-> StartDoc(f)]
  BY DEF InstallInit
<1>2. setup.crew = crew /\ setup.run = NoRun /\ Run = NoRun /\ crew \subseteq Client
  BY <1>1, InstallAssumption DEF Run
<1>3. DOMAIN disk = FilesOf(crew) /\ \A f \in FilesOf(crew) : disk[f] = FoundDoc(f) \/ disk[f] = StartDoc(f)
  BY <1>1
<1>4. DiskFits
  BY <1>3, DocsFit DEF DiskFits
<1>5. \E V : disk \in [FilesOf(crew) -> V]
  <2>1. disk \in [FilesOf(crew) -> {FoundDoc(f) : f \in FilesOf(crew)} \union {StartDoc(f) : f \in FilesOf(crew)}]
    BY <1>1
  <2> QED BY <2>1
<1>6. settled = {} /\ capsFile = [claude |-> FALSE, entry |-> [c \in Client |-> NoEntry]]
  BY DEF InstallInit
<1>7. capsFile \in CapsDoc
  BY <1>6 DEF CapsDoc, NoEntry
<1>8. InstallTypes
  BY <1>1, <1>2, <1>4, <1>5, <1>6, <1>7 DEF InstallTypes
<1>9. Recorded(settled, capsFile) /\ KeptHold(settled, Run, disk)
  BY <1>2, <1>6 DEF Recorded, KeptHold, Kept, Keeps, Serving
<1>10. ASSUME "claude" \in crew PROVE PluginThere(disk, broken)
  <2>1. ASSUME NEW s \in Scopes PROVE ~disk[Setting(s)].plugin
    <3>1. Setting(s) \in FilesOf(crew)
      BY <1>10, ClaudeFiles, CrewFiles
    <3>2. Setting(s)[1] = "claude.settings"
      BY DEF Setting
    <3>3. FoundDoc(Setting(s)) = StartDoc(Setting(s)) /\ StartDoc(Setting(s)) = [plugin |-> FALSE, hooks |-> <<>>]
      BY <3>2 DEF FoundDoc, StartDoc
    <3> QED BY <1>3, <3>1, <3>3
  <2> QED BY <2>1 DEF PluginThere
<1> QED BY <1>2, <1>8, <1>9, <1>10 DEF InstallInv

LEMMA ListsAre ==
    ASSUME setup.crew \subseteq Client, NEW list \in Lists PROVE list \in Seq(setup.crew)
<1>1. PICK some \in SUBSET setup.crew : list = Only(AllClients, some)
  BY DEF Lists
<1>2. AllClients \in Seq(Client)
  BY DEF AllClients, Client
<1>3. list \in Seq(Client \cap some)
  BY <1>1, <1>2, OnlyKeeps
<1>4. Client \cap some \subseteq setup.crew
  OBVIOUS
<1> QED BY <1>3, <1>4

LEMMA BeginKeeps ==
    ASSUME InstallInv, NEW op \in {"install", "uninstall"}, NEW list \in Lists, NEW s \in Scopes, NEW x \in Exes,
           NEW trust \in BOOLEAN, NEW plugin \in BOOLEAN, Begin(op, list, s, x, trust, plugin)
    PROVE  InstallInv'
<1> DEFINE named == {list[i] : i \in DOMAIN list}
           entries == [c \in Client |-> IF c \in named THEN NoEntry ELSE capsFile.entry[c]]
           before == [capsFile EXCEPT !.entry = entries]
           new == [op |-> op, todo |-> list, scope |-> s, exe |-> x, trust |-> trust, plugin |-> plugin,
                   caps |-> before, at |-> Nothing, plan |-> <<>>, done |-> {}, trusted |-> FALSE]
<1>1. /\ Run = NoRun /\ setup' = [setup EXCEPT !.run = new] /\ settled' = settled \ (named \X {s})
      /\ disk' = disk /\ broken' = broken /\ capsFile' = capsFile
  BY DEF Begin
<1>2. InstallTypes /\ Recorded(settled, capsFile) /\ KeptHold(settled, Run, disk) /\ ("claude" \in setup.crew => PluginThere(disk, broken))
  BY DEF InstallInv
<1>3. /\ setup = [crew |-> setup.crew, run |-> setup.run] /\ setup.crew \subseteq Client /\ capsFile \in CapsDoc
      /\ settled \subseteq (setup.crew \ {"claude"}) \X Scopes /\ DiskFits /\ \E V : disk \in [FilesOf(setup.crew) -> V]
  BY <1>2 DEF InstallTypes
<1>4. setup' = [crew |-> setup.crew, run |-> new] /\ setup'.crew = setup.crew /\ setup'.run = new /\ Run' = new
  BY <1>1, <1>3 DEF Run
<1>5. list \in Seq(setup.crew) /\ named = Range(list)
  BY <1>3, ListsAre DEF Range
<1>6. entries \in [Client -> [scopes : SUBSET Scopes, files : SUBSET Everything, trusted : BOOLEAN]]
  BY <1>3 DEF CapsDoc, NoEntry
<1>7. before \in CapsDoc /\ before.entry = entries
  <2> HIDE DEF entries
  <2> QED BY <1>3, <1>6 DEF CapsDoc
<1>8. \A o \in Client : o \notin named => before.entry[o] = capsFile.entry[o]
  BY <1>7
<1> HIDE DEF before, entries
<1>9. /\ new.op = op /\ new.todo = list /\ new.scope = s /\ new.caps = before /\ new.at = Nothing /\ new.plan = <<>>
      /\ new.done = {} /\ Range(new.plan) = {} /\ new \in RunRecord(setup.crew, {<<>>}) /\ IsSeq(new.plan)
  BY <1>5, <1>7, NoWrite DEF RunRecord
<1> HIDE DEF new
<1>10. InstallTypes'
  <2>1. DiskFits'
    BY <1>1, <1>3 DEF DiskFits
  <2>2. \E P : new \in RunRecord(setup.crew, P)
    BY <1>9
  <2>3. settled' \subseteq settled
    BY <1>1
  <2> QED BY <1>1, <1>3, <1>4, <1>9, <2>1, <2>2, <2>3 DEF InstallTypes
<1>11. Recorded(settled', capsFile')
  BY <1>1, <1>2 DEF Recorded
<1>12. KeptHold(settled', new, disk')
  <2>1. \A f : Kept(settled', new, f) => Kept(settled, Run, f)
    BY <1>1, <1>9 DEF Kept, Keeps, Serving
  <2> QED BY <1>1, <1>2, <2>1 DEF KeptHold
<1>13. NamedUnsettled(settled', new)
  <2>1. Nothing \notin Peers
    BY DEF Peers, Client, Nothing
  <2> QED BY <1>1, <1>5, <1>9, <2>1 DEF NamedUnsettled
<1>14. SeenShared(settled', new)
  <2> SUFFICES ASSUME NEW o \in Peers, <<o, s>> \in settled' PROVE ScopeFiles(o, s) \subseteq before.entry[o].files
    BY <1>9 DEF SeenShared
  <2>1. o \notin named /\ <<o, s>> \in settled /\ o \in Client
    BY <1>1 DEF Peers
  <2> QED BY <1>2, <1>8, <2>1 DEF Recorded
<1>15. PlanSpares(settled', new) /\ PlanServes(new, disk') /\ PlanRecords(new, capsFile') /\ SickStaysOff(new, broken') /\ PluginSafe(disk', new.plan)
  <2>1. Nothing \notin Peers
    BY DEF Peers, Client, Nothing
  <2> QED BY <1>9, <2>1 DEF PlanSpares, PlanServes, PlanRecords, SickStaysOff, PluginSafe
<1> QED BY <1>1, <1>2, <1>4, <1>10, <1>11, <1>12, <1>13, <1>14, <1>15 DEF InstallInv

\* What is common to the steps of a command that change neither the files nor the record.
LEMMA RunFacts ==
    ASSUME InstallInv, Run # NoRun
    PROVE  /\ setup = [crew |-> setup.crew, run |-> Run] /\ setup.crew \subseteq Client
           /\ Run.op \in {"install", "uninstall"} /\ Run.todo \in Seq(setup.crew) /\ Run.scope \in Scopes /\ Run.exe \in Exes
           /\ Run.caps \in CapsDoc /\ Run.at \in setup.crew \union {Nothing} /\ Run.done \subseteq setup.crew \ {"claude"}
           /\ Run.trusted \in BOOLEAN /\ IsSeq(Run.plan)
           /\ NamedUnsettled(settled, Run) /\ SeenShared(settled, Run) /\ PlanSpares(settled, Run)
           /\ PlanServes(Run, disk) /\ PlanRecords(Run, capsFile) /\ SickStaysOff(Run, broken)
           /\ "claude" \in setup.crew => PluginSafe(disk, Run.plan)
<1>1. /\ setup = [crew |-> setup.crew, run |-> Run] /\ setup.crew \subseteq Client /\ IsSeq(Run.plan)
      /\ \E P : Run \in RunRecord(setup.crew, P)
  BY DEF InstallInv, InstallTypes, Run
<1>2. PICK P : Run \in RunRecord(setup.crew, P)
  BY <1>1
<1>3. /\ Run.op \in {"install", "uninstall"} /\ Run.todo \in Seq(setup.crew) /\ Run.scope \in Scopes /\ Run.exe \in Exes
      /\ Run.caps \in CapsDoc /\ Run.at \in setup.crew \union {Nothing} /\ Run.done \in SUBSET (setup.crew \ {"claude"})
      /\ Run.trusted \in BOOLEAN
  BY <1>2 DEF RunRecord
<1> QED BY <1>1, <1>3 DEF InstallInv

LEMMA ClientFailsKeeps == ASSUME InstallInv, ClientFails PROVE InstallInv'
<1> DEFINE new == [Run EXCEPT !.at = Nothing, !.plan = <<>>]
<1>1. /\ Run # NoRun /\ setup' = [setup EXCEPT !.run = new] /\ settled' = settled
      /\ disk' = disk /\ broken' = broken /\ capsFile' = capsFile
  BY DEF ClientFails
<1>2. PICK P : Run \in RunRecord(setup.crew, P)
  BY <1>1 DEF InstallInv, InstallTypes
<1>3. setup = [crew |-> setup.crew, run |-> Run]
  BY DEF InstallInv, InstallTypes, Run
<1>4. /\ new \in RunRecord(setup.crew, {<<>>}) /\ new.op = Run.op /\ new.scope = Run.scope /\ new.todo = Run.todo /\ new.caps = Run.caps
      /\ new.done = Run.done /\ new.at = Nothing /\ new.plan = <<>>
  BY <1>2 DEF RunRecord
<1> HIDE DEF new
<1>5. setup'.crew = setup.crew /\ setup'.run = new /\ Run' = new /\ setup' = [crew |-> setup.crew, run |-> new]
  BY <1>1, <1>3 DEF Run
<1>6. Range(new.plan) = {} /\ IsSeq(new.plan) /\ Nothing \notin Peers /\ \E Q : new \in RunRecord(setup.crew, Q)
  BY <1>4, NoWrite DEF Peers, Client, Nothing
<1>7. DiskFits'
  BY <1>1 DEF InstallInv, InstallTypes, DiskFits
<1>8. InstallTypes'
  BY <1>1, <1>5, <1>6, <1>7 DEF InstallInv, InstallTypes
<1>9. new # NoRun
  BY <1>4 DEF RunRecord, NoRun
<1>10. KeptHold(settled, new, disk)
  <2>1. \A f : Kept(settled, new, f) => Kept(settled, Run, f)
    BY <1>1, <1>4 DEF Kept, Keeps, Serving
  <2> QED BY <2>1 DEF InstallInv, KeptHold
<1>11. NamedUnsettled(settled, new) /\ SeenShared(settled, new)
  BY <1>1, <1>4, <1>6 DEF InstallInv, NamedUnsettled, SeenShared
<1>12. PlanSpares(settled, new) /\ PlanServes(new, disk) /\ PlanRecords(new, capsFile) /\ SickStaysOff(new, broken) /\ PluginSafe(disk, new.plan)
  BY <1>4, <1>6 DEF PlanSpares, PlanServes, PlanRecords, SickStaysOff, PluginSafe
<1> QED BY <1>1, <1>5, <1>8, <1>10, <1>11, <1>12 DEF InstallInv

LEMMA ClientServedKeeps == ASSUME InstallInv, ClientServed PROVE InstallInv'
<1> DEFINE new == [Run EXCEPT !.at = Nothing, !.done = Run.done \union ({Run.at} \ {"claude"})]
<1>1. /\ Run # NoRun /\ Run.at # Nothing /\ Run.plan = <<>> /\ setup' = [setup EXCEPT !.run = new] /\ settled' = settled
      /\ disk' = disk /\ broken' = broken /\ capsFile' = capsFile
  BY DEF ClientServed
<1>2. PICK P : Run \in RunRecord(setup.crew, P)
  BY <1>1 DEF InstallInv, InstallTypes
<1>3. setup = [crew |-> setup.crew, run |-> Run] /\ setup.crew \subseteq Client
  BY DEF InstallInv, InstallTypes, Run
<1>4. /\ new \in RunRecord(setup.crew, P) /\ new.op = Run.op /\ new.scope = Run.scope /\ new.todo = Run.todo /\ new.caps = Run.caps
      /\ new.done = Run.done \union ({Run.at} \ {"claude"}) /\ new.at = Nothing /\ new.plan = <<>>
  BY <1>1, <1>2 DEF RunRecord
<1> HIDE DEF new
<1>5. setup'.crew = setup.crew /\ setup'.run = new /\ Run' = new /\ setup' = [crew |-> setup.crew, run |-> new]
  BY <1>1, <1>3 DEF Run
<1>6. Range(new.plan) = {} /\ Range(Run.plan) = {} /\ IsSeq(new.plan) /\ Nothing \notin Peers /\ \E Q : new \in RunRecord(setup.crew, Q)
  BY <1>1, <1>4, NoWrite DEF Peers, Client, Nothing
<1>7. DiskFits'
  BY <1>1 DEF InstallInv, InstallTypes, DiskFits
<1>8. InstallTypes'
  BY <1>1, <1>5, <1>6, <1>7 DEF InstallInv, InstallTypes
<1>9. KeptHold(settled, new, disk)
  <2> SUFFICES ASSUME NEW f, Kept(settled, new, f) PROVE Holding(f, disk[f])
    BY DEF KeptHold
  <2>1. PICK o \in Peers : \E z \in Scopes : Keeps(settled, new, o, z) /\ f \in ScopeFiles(o, z)
    BY DEF Kept
  <2>2. PICK z \in Scopes : Keeps(settled, new, o, z) /\ f \in ScopeFiles(o, z)
    BY <2>1
  <2>3. CASE Keeps(settled, Run, o, z)
    BY <2>2, <2>3 DEF InstallInv, KeptHold, Kept
  <2>4. CASE ~Keeps(settled, Run, o, z)
    <3>1. Run.op = "install" /\ o = Run.at /\ z = Run.scope
      BY <1>1, <1>4, <2>2, <2>4 DEF Keeps, Serving
    <3>2. PlanServes(Run, disk)
      BY <1>1 DEF InstallInv
    <3> QED BY <1>6, <2>2, <3>1, <3>2 DEF PlanServes
  <2> QED BY <2>3, <2>4
<1>10. NamedUnsettled(settled, new) /\ SeenShared(settled, new)
  BY <1>1, <1>4, <1>6 DEF InstallInv, NamedUnsettled, SeenShared
<1>11. PlanSpares(settled, new) /\ PlanServes(new, disk) /\ PlanRecords(new, capsFile) /\ SickStaysOff(new, broken) /\ PluginSafe(disk, new.plan)
  BY <1>4, <1>6 DEF PlanSpares, PlanServes, PlanRecords, SickStaysOff, PluginSafe
<1> QED BY <1>1, <1>5, <1>8, <1>9, <1>10, <1>11 DEF InstallInv

LEMMA StoppedKeeps == ASSUME InstallInv, Stopped PROVE InstallInv'
<1>1. /\ setup' = [setup EXCEPT !.run = NoRun] /\ settled' = settled /\ disk' = disk /\ broken' = broken /\ capsFile' = capsFile
  BY DEF Stopped
<1>2. setup = [crew |-> setup.crew, run |-> setup.run]
  BY DEF InstallInv, InstallTypes
<1>3. setup'.crew = setup.crew /\ setup'.run = NoRun /\ Run' = NoRun /\ setup' = [crew |-> setup.crew, run |-> NoRun]
  BY <1>1, <1>2 DEF Run
<1>4. DiskFits'
  BY <1>1 DEF InstallInv, InstallTypes, DiskFits
<1>5. InstallTypes'
  BY <1>1, <1>3, <1>4 DEF InstallInv, InstallTypes
<1>6. KeptHold(settled, NoRun, disk)
  <2>1. \A f : Kept(settled, NoRun, f) => Kept(settled, Run, f)
    BY DEF Kept, Keeps, Serving
  <2> QED BY <2>1 DEF InstallInv, KeptHold
<1> QED BY <1>1, <1>3, <1>5, <1>6 DEF InstallInv

LEMMA RecordRunKeeps == ASSUME InstallInv, RecordRun PROVE InstallInv'
<1> DEFINE s == Run.scope
           Edit(e, c) == IF Run.op = "install" THEN RecordEntry(e, c, Run) ELSE ForgetEntry(e, c, Run)
           entries == [c \in Client |-> IF c \in Run.done THEN Edit(capsFile.entry[c], c) ELSE capsFile.entry[c]]
           Entry == [scopes : SUBSET Scopes, files : SUBSET Everything, trusted : BOOLEAN]
<1>1. /\ Run # NoRun /\ capsFile' = [capsFile EXCEPT !.entry = entries]
      /\ settled' = IF Run.op = "install" THEN settled \union (Run.done \X {s}) ELSE settled
      /\ setup' = [setup EXCEPT !.run = NoRun] /\ disk' = disk /\ broken' = broken
  BY DEF RecordRun
<1>2. /\ setup = [crew |-> setup.crew, run |-> Run] /\ setup.crew \subseteq Client /\ s \in Scopes
      /\ Run.done \subseteq setup.crew \ {"claude"} /\ Run.trusted \in BOOLEAN /\ Run.op \in {"install", "uninstall"}
      /\ NamedUnsettled(settled, Run)
  BY <1>1, RunFacts
<1>3. capsFile \in CapsDoc /\ settled \subseteq (setup.crew \ {"claude"}) \X Scopes
  BY DEF InstallInv, InstallTypes
<1>4. setup'.crew = setup.crew /\ setup'.run = NoRun /\ Run' = NoRun /\ setup' = [crew |-> setup.crew, run |-> NoRun]
  BY <1>1, <1>2 DEF Run
<1>5. ASSUME NEW c \in Client PROVE entries[c] \in Entry
  <2>1. capsFile.entry[c] \in Entry
    BY <1>3 DEF CapsDoc
  <2>2. ScopeFiles(c, s) \subseteq Everything
    BY <1>2, CrewFiles DEF Everything
  <2>3. RecordEntry(capsFile.entry[c], c, Run) \in Entry
    BY <1>2, <2>1, <2>2 DEF RecordEntry
  <2>4. ForgetEntry(capsFile.entry[c], c, Run) \in Entry
    BY <1>2, <2>1 DEF ForgetEntry, NoEntry
  <2> QED BY <2>1, <2>3, <2>4
<1>6. entries \in [Client -> Entry]
  <2> DEFINE En(c) == IF c \in Run.done THEN Edit(capsFile.entry[c], c) ELSE capsFile.entry[c]
  <2>1. \A c \in Client : En(c) \in Entry
    BY <1>5
  <2>2. entries = [c \in Client |-> En(c)]
    OBVIOUS
  <2> HIDE DEF En, entries, Entry
  <2> QED BY <2>1, <2>2
<1>7. capsFile' \in CapsDoc /\ capsFile'.entry = entries
  <2> HIDE DEF entries
  <2> QED BY <1>1, <1>3, <1>6 DEF CapsDoc
<1>8. DiskFits'
  BY <1>1 DEF InstallInv, InstallTypes, DiskFits
<1>9. settled' \subseteq (setup.crew \ {"claude"}) \X Scopes
  BY <1>1, <1>2, <1>3
<1>10. InstallTypes'
  BY <1>1, <1>4, <1>7, <1>8, <1>9 DEF InstallInv, InstallTypes
<1>11. ASSUME NEW o \in Peers, NEW z \in Scopes, <<o, z>> \in settled'
       PROVE  z \in entries[o].scopes /\ ScopeFiles(o, z) \subseteq entries[o].files
  <2>1. o \in Client
    BY DEF Peers
  <2>2. /\ entries[o] = IF o \in Run.done THEN Edit(capsFile.entry[o], o) ELSE capsFile.entry[o]
        /\ capsFile.entry[o] \in Entry
    BY <1>3, <2>1 DEF CapsDoc
  <2>3. <<o, z>> \in settled => z \in capsFile.entry[o].scopes /\ ScopeFiles(o, z) \subseteq capsFile.entry[o].files
    BY DEF InstallInv, Recorded
  <2> HIDE DEF entries
  <2>4. CASE o \notin Run.done
    BY <1>1, <1>11, <2>2, <2>3, <2>4
  <2>5. CASE o \in Run.done /\ Run.op = "install"
    <3>1. <<o, z>> \in settled \/ z = s
      BY <1>1, <1>11, <2>5
    <3>2. entries[o].scopes = capsFile.entry[o].scopes \union {s} /\ entries[o].files = capsFile.entry[o].files \union ScopeFiles(o, s)
      BY <2>2, <2>5 DEF RecordEntry
    <3> QED BY <2>3, <3>1, <3>2
  <2>6. CASE o \in Run.done /\ Run.op # "install"
    <3>1. <<o, z>> \in settled /\ z # s
      BY <1>1, <1>2, <1>11, <2>6 DEF NamedUnsettled
    <3>2. capsFile.entry[o].scopes \ {s} # {}
      BY <2>3, <3>1
    <3>3. /\ entries[o].scopes = capsFile.entry[o].scopes \ {s}
          /\ entries[o].files = capsFile.entry[o].files \ ScopeFiles(o, s)
      BY <2>2, <2>6, <3>2 DEF ForgetEntry
    <3>4. \A f \in ScopeFiles(o, z) : f \notin ScopeFiles(o, s)
      BY <1>2, <3>1, PeerFiles
    <3> QED BY <2>3, <3>1, <3>3, <3>4
  <2> QED BY <2>4, <2>5, <2>6
<1>12. Recorded(settled', capsFile')
  BY <1>7, <1>11 DEF Recorded
<1>13. KeptHold(settled', NoRun, disk)
  <2>1. \A o, z : Keeps(settled', NoRun, o, z) => Keeps(settled, Run, o, z)
    BY <1>1 DEF Keeps, Serving
  <2>2. \A f : Kept(settled', NoRun, f) => Kept(settled, Run, f)
    BY <2>1 DEF Kept
  <2> QED BY <2>2 DEF InstallInv, KeptHold
<1> QED BY <1>1, <1>4, <1>10, <1>12, <1>13 DEF InstallInv

LEMMA UserKeeps ==
    ASSUME InstallInv, NEW s \in Scopes, NEW front \in BOOLEAN, setup.crew = {"codex"}, UserAddsHook(<<"codex.hooks", s>>, front)
    PROVE  InstallInv'
<1> DEFINE f == <<"codex.hooks", s>>
           gs == disk[f]
           a == <<<<"user">>>> \o gs
           b == [gs EXCEPT ![Len(gs)] = Append(gs[Len(gs)], "user")]
           v == IF front \/ gs = <<>> THEN a ELSE b
<1>1. /\ Run = NoRun /\ disk' = [disk EXCEPT ![f] = v] /\ setup' = setup /\ settled' = settled /\ broken' = broken /\ capsFile' = capsFile
  BY DEF UserAddsHook
<1>2. PICK V : disk \in [FilesOf(setup.crew) -> V]
  BY DEF InstallInv, InstallTypes
<1>3. f \in DOMAIN disk /\ f[1] = "codex.hooks"
  <2>1. f \in ScopeFiles("codex", s)
    BY CodexFiles
  <2>2. f \in FilesOf(setup.crew)
    BY <2>1, CrewFiles
  <2> QED BY <1>2, <2>2
<1>4. Fits(f, gs)
  BY <1>3 DEF InstallInv, InstallTypes, DiskFits
<1> HIDE DEF f
<1>5. gs \in Hooks
  BY <1>3, <1>4, HooksHold
<1> HIDE DEF gs
<1>6. a \in Hooks /\ (OursIn(gs) # {} => OursIn(a) # {})
  BY <1>5, FrontKeeps
<1>7. gs # <<>> => b \in Hooks /\ OursIn(b) = OursIn(gs)
  BY <1>5, BackKeeps
<1> HIDE DEF a, b
<1>8. v \in Hooks /\ (OursIn(gs) # {} => OursIn(v) # {})
  BY <1>6, <1>7
<1> HIDE DEF v
<1>9. Fits(f, v) /\ (Holding(f, gs) => Holding(f, v))
  <2>1. Cardinality(OursIn(gs)) = 1 => OursIn(gs) # {}
    BY FS_EmptySet
  <2>2. OursIn(v) # {} => Cardinality(OursIn(v)) = 1
    BY <1>8, OneIsHeld
  <2> QED BY <1>3, <1>8, <2>1, <2>2, HooksHold
<1>10. /\ DOMAIN disk' = DOMAIN disk /\ disk'[f] = v /\ \A g \in DOMAIN disk : g # f => disk'[g] = disk[g]
       /\ disk' \in [FilesOf(setup.crew) -> V \union {v}]
  BY <1>1, <1>2, <1>3
<1>11. DiskFits'
  BY <1>9, <1>10 DEF InstallInv, InstallTypes, DiskFits
<1>12. Run' = NoRun
  BY <1>1 DEF Run
<1>13. InstallTypes'
  BY <1>1, <1>10, <1>11, <1>12 DEF InstallInv, InstallTypes
<1>14. KeptHold(settled, NoRun, disk')
  <2> SUFFICES ASSUME NEW g, Kept(settled, NoRun, g) PROVE Holding(g, disk'[g])
    BY DEF KeptHold
  <2>1. Holding(g, disk[g])
    BY <1>1 DEF InstallInv, KeptHold
  <2>2. g \in DOMAIN disk
    <3>1. PICK o \in Peers : \E z \in Scopes : Keeps(settled, NoRun, o, z) /\ g \in ScopeFiles(o, z)
      BY DEF Kept
    <3>2. PICK z \in Scopes : Keeps(settled, NoRun, o, z) /\ g \in ScopeFiles(o, z)
      BY <3>1
    <3>3. o \in setup.crew
      BY <3>2 DEF Keeps, Serving, InstallInv, InstallTypes
    <3> QED BY <1>2, <3>2, <3>3, CrewFiles
  <2> QED BY <1>9, <1>10, <2>1, <2>2 DEF gs
<1>15. "claude" \notin setup'.crew
  BY <1>1
<1> QED BY <1>1, <1>12, <1>13, <1>14, <1>15 DEF InstallInv

LEMMA ReachNames == ASSUME NEW c \in Peers, NEW s \in Scopes, NEW f \in Reach(c, s) PROVE f[1] \notin Strange
<1>1. CodexUser[1] \notin Strange
  BY DEF CodexUser, Strange
<1> QED BY <1>1, PeerFiles DEF Reach

\* A plan that stays off claude's files and the record.
LEMMA PlainPlan ==
    ASSUME NEW r, NEW d, NEW sick, NEW caps, \A w \in Range(r.plan) : Refusal(w) \/ w.file[1] \notin Strange
    PROVE  PlanRecords(r, caps) /\ SickStaysOff(r, sick) /\ PluginSafe(d, r.plan)
<1>1. \A w \in Range(r.plan) : w.file[1] \notin {"capabilities", "claude.settings", "claude.market"}
  BY DEF Refusal, Strange
<1>2. \A w \in Range(r.plan) : ~Enables(w) /\ ~Empties(w)
  BY <1>1 DEF Enables, Empties, Market
<1> QED BY <1>1, <1>2 DEF PlanRecords, SickStaysOff, PluginSafe

LEMMA ReadyForClaude == ASSUME InstallInv, "claude" \in setup.crew PROVE ClaudeReady
<1>1. PICK V : disk \in [FilesOf(setup.crew) -> V]
  BY DEF InstallInv, InstallTypes
<1>2. ASSUME NEW s \in Scopes PROVE Setting(s) \in DOMAIN disk /\ Market \in DOMAIN disk
  <2>1. Setting(s) \in ScopeFiles("claude", s) /\ Market \in ScopeFiles("claude", s)
    BY ClaudeFiles
  <2> QED BY <1>1, <2>1, CrewFiles
<1>3. \A s \in Scopes : IsSettings(disk[Setting(s)])
  <2>1. \A s : Setting(s)[1] = "claude.settings"
    BY DEF Setting
  <2> QED BY <1>2, <2>1 DEF InstallInv, InstallTypes, DiskFits, Fits
<1>4. disk[Market] \subseteq PluginFiles
  <2>1. Market[1] = "claude.market"
    BY DEF Market
  <2>2. "user" \in Scopes
    BY DEF Scopes
  <2> QED BY <1>2, <2>1, <2>2 DEF InstallInv, InstallTypes, DiskFits, Fits
<1> QED BY <1>3, <1>4 DEF ClaudeReady, InstallInv, InstallTypes, PluginThere

LEMMA PlanClientKeeps == ASSUME InstallInv, PlanClient PROVE InstallInv'
<1> DEFINE c == Head(Run.todo)
           s == Run.scope
           p == IF Run.op = "install" THEN InstallModule(c, Run) ELSE UninstallModule(c, Run)
           t == IF c = "codex" /\ Run.op = "install" THEN CodexTrusted(Run) ELSE Run.trusted
           new == [Run EXCEPT !.at = c, !.todo = Tail(Run.todo), !.plan = p, !.trusted = t]
<1>1. /\ Run # NoRun /\ Run.todo # <<>> /\ setup' = [setup EXCEPT !.run = new] /\ settled' = settled
      /\ disk' = disk /\ broken' = broken /\ capsFile' = capsFile
  BY DEF PlanClient
<1>2. /\ setup = [crew |-> setup.crew, run |-> Run] /\ setup.crew \subseteq Client
      /\ Run.op \in {"install", "uninstall"} /\ Run.todo \in Seq(setup.crew) /\ s \in Scopes /\ Run.exe \in Exes
      /\ Run.done \subseteq setup.crew \ {"claude"}
      /\ Run.trusted \in BOOLEAN /\ NamedUnsettled(settled, Run) /\ SeenShared(settled, Run)
  BY <1>1, RunFacts
<1>3. c \in setup.crew /\ c \in Client /\ Tail(Run.todo) \in Seq(setup.crew) /\ c \in Range(Run.todo) /\ Range(Tail(Run.todo)) \subseteq Range(Run.todo)
  <2>1. Len(Run.todo) \in Nat /\ Len(Run.todo) >= 1 /\ DOMAIN Run.todo = 1 .. Len(Run.todo) /\ c = Run.todo[1] /\ c \in setup.crew
    BY <1>1, <1>2
  <2>2. Tail(Run.todo) \in Seq(setup.crew) /\ DOMAIN Tail(Run.todo) = 1 .. Len(Run.todo) - 1 /\ \A i \in 1 .. Len(Run.todo) - 1 : Tail(Run.todo)[i] = Run.todo[i + 1]
    BY <1>1, <1>2, <2>1
  <2>3. \A i \in 1 .. Len(Run.todo) - 1 : i + 1 \in 1 .. Len(Run.todo)
    BY <2>1
  <2> HIDE DEF c
  <2>4. c \in Range(Run.todo)
    BY <2>1 DEF Range
  <2>5. Range(Tail(Run.todo)) \subseteq Range(Run.todo)
    BY <2>1, <2>2, <2>3 DEF Range
  <2> QED BY <1>2, <2>1, <2>2, <2>4, <2>5
<1>4. t \in BOOLEAN
  BY <1>2 DEF CodexTrusted
<1>5. PICK P : Run \in RunRecord(setup.crew, P)
  BY <1>1 DEF InstallInv, InstallTypes
<1> HIDE DEF c, p, t
<1>6. /\ new \in RunRecord(setup.crew, {p}) /\ new.op = Run.op /\ new.scope = Run.scope /\ new.todo = Tail(Run.todo) /\ new.caps = Run.caps
      /\ new.done = Run.done /\ new.at = c /\ new.plan = p
  BY <1>3, <1>4, <1>5 DEF RunRecord
<1> HIDE DEF new
<1>7. setup'.crew = setup.crew /\ setup'.run = new /\ Run' = new /\ setup' = [crew |-> setup.crew, run |-> new]
  BY <1>1, <1>2 DEF Run
<1>8. new # NoRun
  BY <1>6 DEF RunRecord, NoRun
<1>9. \A f : Kept(settled, new, f) <=> Kept(settled, Run, f)
  BY <1>1, <1>6, <1>8 DEF Kept, Keeps, Serving
<1>10. DiskFits
  BY DEF InstallInv, InstallTypes
<1>11. Reach(c, s) \subseteq DOMAIN disk
  <2>1. PICK V : disk \in [FilesOf(setup.crew) -> V]
    BY DEF InstallInv, InstallTypes
  <2> QED BY <1>2, <1>3, <2>1, CrewFiles
<1>12. ASSUME c \in Peers, Run.op = "install"
       PROVE  /\ IsSeq(new.plan) /\ PlanSpares(settled, new) /\ PlanServes(new, disk)
              /\ \A w \in Range(new.plan) : Refusal(w) \/ w.file[1] \notin Strange
  <2>1. PutsAll(c, s, p)
    BY <1>2, <1>10, <1>11, <1>12, PeerInstalls DEF p
  <2>2. \A w \in Range(p) : Puts(c, s, w)
    BY <2>1 DEF PutsAll
  <2>3. IsSeq(p) /\ \A w \in Range(p) : Refusal(w) \/ w.file[1] \notin Strange
    BY <1>2, <1>12, <2>1, <2>2, ReachNames DEF PutsAll, Puts
  <2>4. PlanSpares(settled, new)
    <3> SUFFICES ASSUME NEW w \in Range(p), ~Refusal(w)
                 PROVE  Fits(w.file, w.to) /\ (Kept(settled, Run, w.file) => Holding(w.file, w.to))
      BY <1>6, <1>9 DEF PlanSpares
    <3>1. Fits(w.file, w.to) /\ (HoldsOurs(w.file) => Holding(w.file, w.to))
      BY <2>2 DEF Puts
    <3>2. Kept(settled, Run, w.file) => HoldsOurs(w.file)
      BY DEF InstallInv, KeptHold, HoldsOurs
    <3> QED BY <3>1, <3>2
  <2>5. PlanServes(new, disk)
    <3>1. \A w \in Range(p) : Refusal(w) \/ (w.file \in ScopeFiles(c, s) => Holding(w.file, w.to))
      BY <2>2 DEF Puts
    <3>2. (\E w \in Range(p) : Refusal(w)) \/ (\A f \in ScopeFiles(c, s) : \E w \in Range(p) : w.file = f)
      BY <2>1 DEF PutsAll
    <3> QED BY <1>6, <3>1, <3>2 DEF PlanServes
  <2> QED BY <1>6, <2>3, <2>4, <2>5
<1>13. ASSUME c \in Peers, Run.op # "install"
       PROVE  /\ IsSeq(new.plan) /\ PlanSpares(settled, new) /\ PlanServes(new, disk)
              /\ \A w \in Range(new.plan) : Refusal(w) \/ w.file[1] \notin Strange
  <2>1. TakesAll(c, Run, p)
    BY <1>2, <1>10, <1>11, <1>13, PeerUninstalls DEF p
  <2>2. \A w \in Range(p) : Takes(c, Run, w)
    BY <2>1 DEF TakesAll
  <2>3. IsSeq(p) /\ \A w \in Range(p) : Refusal(w) \/ w.file[1] \notin Strange
    BY <1>2, <1>13, <2>1, <2>2, ReachNames DEF TakesAll, Takes
  <2>4. PlanSpares(settled, new)
    <3> SUFFICES ASSUME NEW w \in Range(p), ~Refusal(w)
                 PROVE  Fits(w.file, w.to) /\ (Kept(settled, Run, w.file) => Holding(w.file, w.to))
      BY <1>6, <1>9 DEF PlanSpares
    <3>1. /\ Fits(w.file, w.to)
          /\ w.file \notin ScopeFiles(c, s) /\ HoldsOurs(w.file) => Holding(w.file, w.to)
          /\ Shareable(w.file) => ~FileShared(Run.caps, w.file, c)
      BY <2>2 DEF Takes
    <3>2. ASSUME Kept(settled, Run, w.file) PROVE Holding(w.file, w.to)
      <4>1. HoldsOurs(w.file)
        BY <3>2 DEF InstallInv, KeptHold, HoldsOurs
      <4>2. w.file \notin ScopeFiles(c, s)
        <5>1. SUFFICES ASSUME w.file \in ScopeFiles(c, s) PROVE FALSE
          OBVIOUS
        <5>2. PICK o \in Peers : \E z \in Scopes : Keeps(settled, Run, o, z) /\ w.file \in ScopeFiles(o, z)
          BY <3>2 DEF Kept
        <5>3. PICK z \in Scopes : Keeps(settled, Run, o, z) /\ w.file \in ScopeFiles(o, z)
          BY <5>2
        <5>4. <<o, z>> \in settled
          BY <1>13, <5>3 DEF Keeps, Serving
        <5>5. w.file[2] = s
          BY <1>2, <1>13, <5>1, PeerFiles
        <5>6. w.file[2] = z
          BY <5>3, PeerFiles
        <5>7. z = s
          BY <5>5, <5>6
        <5>8. o # c
          BY <1>3, <1>2, <5>4, <5>7 DEF NamedUnsettled
        <5>9. Shareable(w.file)
          BY <1>2, <1>13, <5>1, <5>3, <5>8, CommonFiles
        <5>10. w.file \in Run.caps.entry[o].files
          BY <1>2, <5>3, <5>4, <5>7 DEF SeenShared
        <5>11. FileShared(Run.caps, w.file, c)
          BY <5>8, <5>10 DEF FileShared, Peers
        <5> QED BY <3>1, <5>9, <5>11
      <4> QED BY <3>1, <4>1, <4>2
    <3> QED BY <3>1, <3>2
  <2>5. PlanServes(new, disk)
    BY <1>6, <1>13 DEF PlanServes
  <2> QED BY <1>6, <2>3, <2>4, <2>5
<1>14. ASSUME c \in Peers
       PROVE  /\ IsSeq(new.plan) /\ PlanSpares(settled, new) /\ PlanServes(new, disk)
              /\ PlanRecords(new, capsFile) /\ SickStaysOff(new, broken) /\ PluginSafe(disk, new.plan)
  <2>1. /\ IsSeq(new.plan) /\ PlanSpares(settled, new) /\ PlanServes(new, disk)
        /\ \A w \in Range(new.plan) : Refusal(w) \/ w.file[1] \notin Strange
    BY <1>12, <1>13, <1>14
  <2> QED BY <2>1, PlainPlan
<1>15. ASSUME c \notin Peers
       PROVE  /\ IsSeq(new.plan) /\ PlanSpares(settled, new) /\ PlanServes(new, disk)
              /\ PlanRecords(new, capsFile) /\ SickStaysOff(new, broken) /\ PluginSafe(disk, new.plan)
  <2>1. c = "claude"
    BY <1>3, <1>15 DEF Peers
  <2>2. ClaudeAll(p) /\ PluginSafe(disk, p)
    <3>1. ClaudeReady
      BY <1>3, <2>1, ReadyForClaude
    <3>2. p = InstallModule("claude", Run) \/ p = UninstallModule("claude", Run)
      BY <2>1 DEF p
    <3> QED BY <1>2, <3>1, <3>2, ClaudePlans
  <2>3. IsSeq(p) /\ \A w \in Range(p) : ClaudeWrite(w)
    BY <2>2 DEF ClaudeAll
  <2>4. ASSUME NEW f, f[1] \in Strange PROVE ~Kept(settled, Run, f)
    BY <2>4, PeerFiles DEF Kept
  <2>5. PlanSpares(settled, new)
    BY <1>6, <1>9, <2>3, <2>4 DEF PlanSpares, ClaudeWrite
  <2>6. PlanServes(new, disk)
    BY <1>6, <1>15 DEF PlanServes
  <2>7. PlanRecords(new, capsFile) /\ SickStaysOff(new, broken)
    BY <1>6, <2>3 DEF PlanRecords, SickStaysOff, ClaudeWrite
  <2> QED BY <1>6, <2>2, <2>3, <2>5, <2>6, <2>7
<1>16. DiskFits'
  BY <1>1, <1>10 DEF DiskFits
<1>17. IsSeq(new.plan) /\ \E Q : new \in RunRecord(setup.crew, Q)
  BY <1>6, <1>14, <1>15
<1>18. InstallTypes'
  BY <1>1, <1>7, <1>16, <1>17 DEF InstallInv, InstallTypes
<1>19. KeptHold(settled, new, disk)
  BY <1>9 DEF InstallInv, KeptHold
<1>20. NamedUnsettled(settled, new) /\ SeenShared(settled, new)
  BY <1>2, <1>3, <1>6 DEF NamedUnsettled, SeenShared
<1> QED BY <1>1, <1>7, <1>14, <1>15, <1>18, <1>19, <1>20 DEF InstallInv

LEMMA HeadAndTail ==
    ASSUME NEW p, IsSeq(p), p # <<>> PROVE IsSeq(Tail(p)) /\ Range(p) = {Head(p)} \union Range(Tail(p))
<1>1. PICK S : p \in Seq(S)
  BY DEF IsSeq
<1> DEFINE q == Tail(p)
           h == Head(p)
<1>2. /\ Len(p) \in Nat /\ Len(p) >= 1 /\ DOMAIN p = 1 .. Len(p) /\ h = p[1]
      /\ q \in Seq(S) /\ DOMAIN q = 1 .. Len(p) - 1 /\ \A i \in 1 .. Len(p) - 1 : q[i] = p[i + 1]
  BY <1>1
<1>3. \A i \in 1 .. Len(p) - 1 : i + 1 \in 1 .. Len(p)
  BY <1>2
<1>4. \A i \in 1 .. Len(p) : i = 1 \/ (i - 1 \in 1 .. Len(p) - 1 /\ (i - 1) + 1 = i)
  BY <1>2
<1> HIDE DEF q, h
<1>5. h \in Range(p) /\ Range(q) \subseteq Range(p)
  <2>1. 1 \in DOMAIN p
    BY <1>2
  <2>2. h \in Range(p)
    BY <1>2, <2>1 DEF Range
  <2>3. \A i \in DOMAIN q : i + 1 \in DOMAIN p /\ q[i] = p[i + 1]
    BY <1>2, <1>3
  <2>4. Range(q) \subseteq Range(p)
    BY <2>3 DEF Range
  <2> QED BY <2>2, <2>4
<1>6. \A i \in 1 .. Len(p) : p[i] = h \/ p[i] \in Range(q)
  <2> TAKE i \in 1 .. Len(p)
  <2>1. CASE i = 1
    BY <1>2, <2>1
  <2>2. CASE i # 1
    <3>1. i - 1 \in DOMAIN q /\ q[i - 1] = p[i]
      BY <1>2, <1>4, <2>2
    <3> QED BY <3>1 DEF Range
  <2> QED BY <2>1, <2>2
<1>7. Range(p) \subseteq {h} \union Range(q)
  BY <1>2, <1>6 DEF Range
<1> QED BY <1>2, <1>5, <1>7 DEF IsSeq, q, h

\* A write of claude's part leaves the plugin's directory complete wherever it is enabled.
LEMMA PluginKept ==
    ASSUME NEW d, NEW e, NEW p, NEW sick, IsSeq(p), p # <<>>, PluginThere(d, sick), PluginSafe(d, p),
           \A w \in Range(p) : w.file \in sick /\ w.file[1] = "claude.settings" => ~w.to.plugin,
           \A s \in Scopes : e[Setting(s)] = IF Head(p).file = Setting(s) THEN Head(p).to ELSE d[Setting(s)],
           e[Market] = IF Head(p).file = Market THEN Head(p).to ELSE d[Market]
    PROVE  PluginThere(e, sick) /\ PluginSafe(e, Tail(p))
<1> DEFINE w == Head(p)
           q == Tail(p)
<1>1. IsSeq(q) /\ Range(p) = {w} \union Range(q)
  BY HeadAndTail
<1>2. /\ \A s : Setting(s) # Market /\ Setting(s)[1] = "claude.settings"
      /\ \A s, z \in Scopes : Setting(s) = Setting(z) => s = z
  BY DEF Setting, Market
<1>3. SetsUp(p) =>
        \/ Completes(w) /\ \A v \in Range(q) : v.file # Market
        \/ w.file = Market /\ SetsUp(q)
  <2>1. PICK S : p \in Seq(S)
    BY DEF IsSeq
  <2>2. /\ w = p[1] /\ Len(p) \in Nat /\ Len(q) = Len(p) - 1 /\ DOMAIN q = 1 .. Len(p) - 1
        /\ \A i \in 1 .. Len(p) - 1 : q[i] = p[i + 1]
    BY <2>1
  <2> HIDE DEF w, q
  <2>3. CASE Len(p) = 3 /\ Completes(p[1]) /\ p[2].file # Market /\ p[3].file # Market
    <3>1. DOMAIN q = 1 .. 2 /\ q[1] = p[2] /\ q[2] = p[3]
      BY <2>2, <2>3
    <3>2. \A i \in 1 .. 2 : q[i].file # Market
      BY <2>3, <3>1
    <3> QED BY <2>2, <2>3, <3>1, <3>2 DEF Range
  <2>4. CASE Len(p) = 4 /\ p[1].file = Market /\ Completes(p[2]) /\ p[3].file # Market /\ p[4].file # Market
    <3>1. Len(q) = 3 /\ q[1] = p[2] /\ q[2] = p[3] /\ q[3] = p[4]
      BY <2>2, <2>4
    <3> QED BY <2>2, <2>4, <3>1 DEF SetsUp
  <2> QED BY <2>3, <2>4 DEF SetsUp
<1> HIDE DEF w, q
<1>4. \A s \in Scopes : e[Setting(s)] = IF w.file = Setting(s) THEN w.to ELSE d[Setting(s)]
  BY DEF w
<1>5. e[Market] = IF w.file = Market THEN w.to ELSE d[Market]
  BY DEF w
<1>6. /\ (\E v \in Range(p) : Empties(v)) => \A s \in Scopes : ~d[Setting(s)].plugin \/ (w.file = Setting(s) /\ ~w.to.plugin)
      /\ (\E v \in Range(p) : Enables(v)) => (d[Market] = PluginFiles /\ \A v \in Range(p) : v.file # Market) \/ SetsUp(p)
  BY DEF PluginSafe, w
<1>7. \A s \in Scopes : (d[Setting(s)].plugin => d[Market] = PluginFiles) /\ (Setting(s) \in sick => ~d[Setting(s)].plugin)
  BY DEF PluginThere
<1>8. \A s \in Scopes : Setting(s) \in sick => ~e[Setting(s)].plugin
  BY <1>1, <1>2, <1>4, <1>7
<1>9. \A s \in Scopes : e[Setting(s)].plugin => e[Market] = PluginFiles
  <2> SUFFICES ASSUME NEW s \in Scopes, e[Setting(s)].plugin PROVE e[Market] = PluginFiles
    OBVIOUS
  <2>1. CASE w.file = Setting(s)
    <3>1. Enables(w) /\ w.file # Market
      BY <1>2, <1>4, <2>1 DEF Enables
    <3>2. d[Market] = PluginFiles
      BY <1>1, <1>3, <1>6, <3>1 DEF Completes
    <3> QED BY <1>5, <3>1, <3>2
  <2>2. CASE w.file # Setting(s)
    <3>1. d[Setting(s)].plugin /\ d[Market] = PluginFiles
      BY <1>4, <1>7, <2>2
    <3>2. ~Empties(w)
      BY <1>1, <1>6, <2>2, <3>1
    <3> QED BY <1>5, <3>1, <3>2 DEF Empties
  <2> QED BY <2>1, <2>2
<1>10. ASSUME NEW v \in Range(q), Empties(v), NEW s \in Scopes PROVE ~e[Setting(s)].plugin
  <2>1. v \in Range(p)
    BY <1>1
  <2>2. ~d[Setting(s)].plugin \/ (w.file = Setting(s) /\ ~w.to.plugin)
    BY <1>6, <1>10, <2>1
  <2>3. CASE w.file = Setting(s)
    <3>1. ~Enables(w)
      <4>1. SUFFICES ASSUME Enables(w) PROVE FALSE
        OBVIOUS
      <4>2. w.file # Market /\ v.file = Market
        BY <1>2, <1>10, <2>3 DEF Empties
      <4> QED BY <1>1, <1>3, <1>6, <2>1, <4>1, <4>2 DEF Completes
    <3> QED BY <1>2, <1>4, <2>3, <3>1 DEF Enables
  <2>4. CASE w.file # Setting(s)
    BY <1>4, <2>2, <2>4
  <2> QED BY <2>3, <2>4
<1>11. ASSUME NEW v \in Range(q), Enables(v)
       PROVE  (e[Market] = PluginFiles /\ \A u \in Range(q) : u.file # Market) \/ SetsUp(q)
  <2>1. CASE d[Market] = PluginFiles /\ \A u \in Range(p) : u.file # Market
    BY <1>1, <1>5, <2>1
  <2>2. CASE SetsUp(p)
    BY <1>3, <1>5, <2>2 DEF Completes
  <2> QED BY <1>1, <1>6, <1>11, <2>1, <2>2
<1> QED BY <1>8, <1>9, <1>10, <1>11 DEF PluginThere, PluginSafe, q

LEMMA WriteFileKeeps == ASSUME InstallInv, WriteFile PROVE InstallInv'
<1> DEFINE w == Head(Run.plan)
           q == Tail(Run.plan)
           new == [Run EXCEPT !.plan = q]
<1>1. /\ Run # NoRun /\ Run.plan # <<>> /\ ~Refusal(w) /\ setup' = [setup EXCEPT !.run = new] /\ settled' = settled /\ broken' = broken
      /\ disk' = (IF w.file \in DOMAIN disk THEN [disk EXCEPT ![w.file] = w.to] ELSE disk)
      /\ capsFile' = (IF w.file[1] = "capabilities" THEN w.to ELSE capsFile)
  BY DEF WriteFile, Refusal
<1>2. /\ setup = [crew |-> setup.crew, run |-> Run] /\ setup.crew \subseteq Client /\ IsSeq(Run.plan) /\ Run.scope \in Scopes
      /\ Run.at \in setup.crew \union {Nothing} /\ Run.done \subseteq setup.crew \ {"claude"}
      /\ NamedUnsettled(settled, Run) /\ SeenShared(settled, Run) /\ PlanSpares(settled, Run)
      /\ PlanServes(Run, disk) /\ PlanRecords(Run, capsFile) /\ SickStaysOff(Run, broken)
      /\ "claude" \in setup.crew => PluginSafe(disk, Run.plan)
  BY <1>1, RunFacts
<1>3. IsSeq(q) /\ Range(Run.plan) = {w} \union Range(q)
  BY <1>1, <1>2, HeadAndTail
<1>4. PICK P : Run \in RunRecord(setup.crew, P)
  BY <1>1 DEF InstallInv, InstallTypes
<1>5. PICK V : disk \in [FilesOf(setup.crew) -> V]
  BY DEF InstallInv, InstallTypes
<1> HIDE DEF w, q
<1>6. /\ new \in RunRecord(setup.crew, {q}) /\ new.op = Run.op /\ new.scope = Run.scope /\ new.todo = Run.todo /\ new.caps = Run.caps
      /\ new.done = Run.done /\ new.at = Run.at /\ new.plan = q
  BY <1>4 DEF RunRecord
<1> HIDE DEF new
<1>7. setup'.crew = setup.crew /\ setup'.run = new /\ Run' = new /\ setup' = [crew |-> setup.crew, run |-> new]
  BY <1>1, <1>2 DEF Run
<1>8. new # NoRun
  BY <1>6 DEF RunRecord, NoRun
<1>9. \A f : Kept(settled, new, f) <=> Kept(settled, Run, f)
  BY <1>1, <1>6, <1>8 DEF Kept, Keeps, Serving
<1>10. Fits(w.file, w.to) /\ (Kept(settled, Run, w.file) => Holding(w.file, w.to))
  BY <1>1, <1>2, <1>3 DEF PlanSpares
<1>11. /\ disk' \in [FilesOf(setup.crew) -> V \union {w.to}] /\ DOMAIN disk' = DOMAIN disk
       /\ \A f \in DOMAIN disk : disk'[f] = IF f = w.file THEN w.to ELSE disk[f]
  BY <1>1, <1>5
<1>12. DiskFits'
  BY <1>10, <1>11 DEF DiskFits, InstallInv, InstallTypes
<1>13. capsFile' \in CapsDoc /\ capsFile'.entry = capsFile.entry
  BY <1>1, <1>2, <1>3 DEF PlanRecords, InstallInv, InstallTypes
<1>14. InstallTypes'
  <2>1. \E Q : new \in RunRecord(setup.crew, Q)
    BY <1>6
  <2>2. IsSeq(new.plan)
    BY <1>3, <1>6
  <2> QED BY <1>1, <1>7, <1>11, <1>12, <1>13, <2>1, <2>2 DEF InstallInv, InstallTypes
<1>15. Recorded(settled, capsFile')
  BY <1>13 DEF InstallInv, Recorded
<1>16. KeptHold(settled, new, disk')
  <2> SUFFICES ASSUME NEW g, Kept(settled, Run, g) PROVE Holding(g, disk'[g])
    BY <1>9 DEF KeptHold
  <2>1. Holding(g, disk[g])
    BY DEF InstallInv, KeptHold
  <2>2. g \in DOMAIN disk
    <3>1. PICK o \in Peers : \E z \in Scopes : Keeps(settled, Run, o, z) /\ g \in ScopeFiles(o, z)
      BY DEF Kept
    <3>2. PICK z \in Scopes : Keeps(settled, Run, o, z) /\ g \in ScopeFiles(o, z)
      BY <3>1
    <3>3. o \in setup.crew
      BY <1>2, <3>2 DEF Keeps, Serving, InstallInv, InstallTypes
    <3> QED BY <1>5, <3>2, <3>3, CrewFiles
  <2> QED BY <1>10, <1>11, <2>1, <2>2
<1>17. NamedUnsettled(settled, new) /\ SeenShared(settled, new)
  BY <1>2, <1>6 DEF NamedUnsettled, SeenShared
<1>18. PlanSpares(settled, new) /\ PlanRecords(new, capsFile') /\ SickStaysOff(new, broken)
  BY <1>2, <1>3, <1>6, <1>9, <1>13 DEF PlanSpares, PlanRecords, SickStaysOff
<1>19. PlanServes(new, disk')
  <2> SUFFICES ASSUME Run.op = "install", Run.at \in Peers
               PROVE  /\ \A v \in Range(q) : Refusal(v) \/ (v.file \in ScopeFiles(Run.at, Run.scope) => Holding(v.file, v.to))
                      /\ \/ \E v \in Range(q) : Refusal(v)
                         \/ \A f \in ScopeFiles(Run.at, Run.scope) : Holding(f, disk'[f]) \/ \E v \in Range(q) : v.file = f
    BY <1>6 DEF PlanServes
  <2>1. /\ \A v \in Range(Run.plan) : Refusal(v) \/ (v.file \in ScopeFiles(Run.at, Run.scope) => Holding(v.file, v.to))
        /\ \/ \E v \in Range(Run.plan) : Refusal(v)
           \/ \A f \in ScopeFiles(Run.at, Run.scope) : Holding(f, disk[f]) \/ \E v \in Range(Run.plan) : v.file = f
    BY <1>2 DEF PlanServes
  <2>2. Run.at \in setup.crew
    BY <1>2 DEF Peers, Client, Nothing
  <2>3. ScopeFiles(Run.at, Run.scope) \subseteq DOMAIN disk
    BY <1>2, <1>5, <2>2, CrewFiles
  <2>4. w.file \in ScopeFiles(Run.at, Run.scope) => Holding(w.file, w.to)
    BY <1>1, <1>3, <2>1
  <2>5. CASE \E v \in Range(Run.plan) : Refusal(v)
    BY <1>1, <1>3, <2>1, <2>5
  <2>6. CASE \A f \in ScopeFiles(Run.at, Run.scope) : Holding(f, disk[f]) \/ \E v \in Range(Run.plan) : v.file = f
    <3>1. ASSUME NEW f \in ScopeFiles(Run.at, Run.scope) PROVE Holding(f, disk'[f]) \/ \E v \in Range(q) : v.file = f
      <4>1. CASE f = w.file
        BY <1>11, <2>3, <2>4, <4>1
      <4>2. CASE f # w.file
        <5>1. disk'[f] = disk[f]
          BY <1>11, <2>3, <4>2
        <5> QED BY <1>3, <2>6, <4>2, <5>1
      <4> QED BY <4>1, <4>2
    <3> QED BY <1>3, <2>1, <3>1
  <2> QED BY <2>1, <2>5, <2>6
<1>20. ASSUME "claude" \in setup.crew PROVE PluginThere(disk', broken) /\ PluginSafe(disk', q)
  <2>1. ASSUME NEW s \in Scopes PROVE Setting(s) \in DOMAIN disk /\ Market \in DOMAIN disk
    <3>1. Setting(s) \in ScopeFiles("claude", s) /\ Market \in ScopeFiles("claude", s)
      BY ClaudeFiles
    <3> QED BY <1>5, <1>20, <3>1, CrewFiles
  <2>2. "user" \in Scopes
    BY DEF Scopes
  <2>3. \A s \in Scopes : disk'[Setting(s)] = IF w.file = Setting(s) THEN w.to ELSE disk[Setting(s)]
    BY <1>11, <2>1
  <2>4. disk'[Market] = IF w.file = Market THEN w.to ELSE disk[Market]
    BY <1>11, <2>1, <2>2
  <2>5. PluginThere(disk, broken) /\ PluginSafe(disk, Run.plan)
    BY <1>2, <1>20 DEF InstallInv
  <2>6. \A v \in Range(Run.plan) : v.file \in broken /\ v.file[1] = "claude.settings" => ~v.to.plugin
    BY <1>2 DEF SickStaysOff
  <2> QED BY <1>1, <1>2, <2>3, <2>4, <2>5, <2>6, PluginKept DEF w, q
<1> QED BY <1>1, <1>6, <1>7, <1>14, <1>15, <1>16, <1>17, <1>18, <1>19, <1>20 DEF InstallInv

LEMMA InstallStepKeeps == ASSUME InstallInv, [InstallStep]_installVars PROVE InstallInv'
<1>1. CASE UNCHANGED installVars
  <2>1. /\ disk' = disk /\ broken' = broken /\ capsFile' = capsFile /\ setup' = setup /\ settled' = settled
    BY <1>1 DEF installVars
  <2>2. Run' = Run /\ DiskFits' /\ InstallTypes'
    BY <2>1 DEF InstallInv, InstallTypes, DiskFits, Run
  <2> QED BY <2>1, <2>2 DEF InstallInv
<1>2. ASSUME NEW op \in {"install", "uninstall"}, NEW list \in Lists, NEW s \in Scopes, NEW x \in Exes,
             NEW trust \in BOOLEAN, NEW plugin \in BOOLEAN, Begin(op, list, s, x, trust, plugin)
      PROVE  InstallInv'
  BY <1>2, BeginKeeps
<1>3. CASE PlanClient \/ WriteFile \/ ClientFails \/ ClientServed \/ RecordRun \/ Stopped
  BY <1>3, PlanClientKeeps, WriteFileKeeps, ClientFailsKeeps, ClientServedKeeps, RecordRunKeeps, StoppedKeeps
<1>4. CASE \E f \in {<<"codex.hooks", s>> : s \in Scopes}, front \in BOOLEAN : setup.crew = {"codex"} /\ UserAddsHook(f, front)
  <2>1. PICK f \in {<<"codex.hooks", s>> : s \in Scopes} : \E front \in BOOLEAN : setup.crew = {"codex"} /\ UserAddsHook(f, front)
    BY <1>4
  <2>2. PICK front \in BOOLEAN : setup.crew = {"codex"} /\ UserAddsHook(f, front)
    BY <2>1
  <2>3. PICK s \in Scopes : f = <<"codex.hooks", s>>
    BY <2>1
  <2> QED BY <2>2, <2>3, UserKeeps
<1> QED BY <1>1, <1>2, <1>3, <1>4 DEF InstallStep

LEMMA InstallInvSafe == InstallInv => InstalledKeepsItsFiles
<1> SUFFICES ASSUME InstallInv PROVE InstalledKeepsItsFiles
  OBVIOUS
<1>1. ASSUME NEW cs \in settled, NEW f \in ScopeFiles(cs[1], cs[2]) PROVE HoldsOurs(f)
  <2>1. cs[1] \in Peers /\ cs[2] \in Scopes /\ cs = <<cs[1], cs[2]>>
    BY DEF InstallInv, InstallTypes, Peers
  <2>2. Kept(settled, Run, f)
    BY <2>1 DEF Kept, Keeps
  <2> QED BY <2>2 DEF InstallInv, KeptHold, HoldsOurs
<1>2. EnabledPluginIsThere
  <2> SUFFICES ASSUME "claude" \in setup.crew, NEW s \in Scopes, disk[Target("claude", s).hooks].plugin
               PROVE  disk[Target("claude", s).text] = PluginFiles
    BY DEF EnabledPluginIsThere
  <2> QED BY ClaudeFiles DEF InstallInv, PluginThere
<1> QED BY <1>1, <1>2 DEF InstalledKeepsItsFiles

\* `agora install` and `agora uninstall`, for any clients on the machine, any lists, any number of commands and of
\* hooks that the user adds: a client whose install was recorded keeps every file it relies on until a command
\* names it again, whatever other clients' commands do to the files they share, fail at or leave half done; and
\* settings that enable Claude's plugin never point at a directory that lacks files (install/mod.rs,
\* install/manifest.rs, install/claude.rs).
THEOREM InstallationsHold == InstallSpec => []InstalledKeepsItsFiles
<1>1. InstallInit => InstallInv
  BY InstallStarts
<1>2. InstallInv /\ [InstallStep]_installVars => InstallInv'
  BY InstallStepKeeps
<1>3. InstallInv => InstalledKeepsItsFiles
  BY InstallInvSafe
<1> QED BY <1>1, <1>2, <1>3, PTL DEF InstallSpec

=============================================================================
