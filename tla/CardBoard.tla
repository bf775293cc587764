------------------------------ MODULE CardBoard ------------------------------
(***************************************************************************)
(* The board: cards that workers claim, do, review and finish.  Four paths  *)
(* write a card's state: a signed card.move (`transition`), a supervisor's   *)
(* card.reclaim (`reclaim_stale`), the end of a job linked to the card       *)
(* (`card_job_sync_tx`) and the reconciler's reclaim, which the module       *)
(* Reconciler adds.  Every one is a single store transaction.                *)
(*                                                                          *)
(* Left out: titles, priorities, dependencies (no gate reads them) and the   *)
(* needs_owner flag with its text, which only lists the card for its owner.  *)
(*                                                                          *)
(* Sources: agora-core lib.rs; agora-store lib.rs, identity.rs, cards_ext.rs, *)
(* cards_ext/job_sync.rs.                                                    *)
(***************************************************************************)
EXTENDS Integers, FiniteSets

CONSTANTS
    Agents,         \* identities with the worker role or higher
    Supervisors,    \* those with the supervisor role or higher
    Author,         \* the author of the task linked to each card
    Cards,          \* the cards, all of one lane
    Limits,         \* the values the lane's wip_limit is given; 0 for no limit
    RequireReview,  \* the daemon's require_review
    MaxNow          \* bound: the clock

ASSUME BoardAssumption ==
    /\ Agents \subseteq Nat \ {0} /\ Cards \subseteq Nat
    /\ IsFiniteSet(Agents) /\ IsFiniteSet(Cards)
    /\ Supervisors \subseteq Agents /\ Author \in Agents
    /\ Limits \subseteq Nat /\ Limits # {}
    /\ RequireReview \in BOOLEAN /\ MaxNow \in Nat

VARIABLES
    now,      \* the daemon's clock
    card,     \* the cards table, with the evidence and approvals of each card
    revoked,  \* revoked identities
    limit     \* the lane's effective wip_limit

boardVars == <<now, card, revoked, limit>>

NoOne      == 0
CardStates == {"backlog", "ready", "claimed", "doing", "review", "done", "blocked",
               "cancelled"}
Terminal   == {"done", "cancelled"}
InProgress == {"claimed", "doing"}

CardRow == [state : CardStates, owner : Agents \cup {NoOne}, updated : Nat,
            evidence : BOOLEAN, approvals : SUBSET Agents]

\* A card as create_card leaves it.
NewCard == [state |-> "backlog", owner |-> NoOne, updated |-> 0,
            evidence |-> FALSE, approvals |-> {}]

Active == Agents \ revoked

---------------------------------------------------------------------------
\* The legal moves of the board.
Legal ==
    {<<"backlog", "ready">>, <<"ready", "claimed">>, <<"claimed", "doing">>,
     <<"claimed", "ready">>, <<"doing", "review">>, <<"doing", "done">>,
     <<"review", "doing">>, <<"review", "done">>, <<"blocked", "ready">>}
    \cup ({"backlog", "ready", "claimed", "doing", "review"} \X {"blocked"})
    \cup ((CardStates \ Terminal) \X {"cancelled"})

\* Promoting, leaving the backlog and cancelling are planning decisions.
NeedsSupervisor(from, to) == from = "backlog" \/ to = "cancelled"

\* Faulty: the owner's own approval counts.
AnyApproval(c) == card[c].approvals \cap Active # {}
\* An approval that counts: by an active identity that is not the owner.
IndependentApproval(c) ==
    \E a \in card[c].approvals : a # card[c].owner /\ a \in Active

DoneGate(c) == card[c].evidence /\ (RequireReview => IndependentApproval(c))

\* Cards that leave the pool only by their owner's hand or a supervisor's.
Guarded(c) ==
    \/ card[c].state \in {"claimed", "doing", "review"}
    \/ card[c].state = "blocked" /\ card[c].owner # NoOne

Working == {c \in Cards : card[c].state \in InProgress}

\* check_wip, asked only when a card enters work from outside it.
WipOpen(c, to) ==
    (limit > 0 /\ to \in InProgress /\ card[c].state \notin InProgress)
        => Cardinality(Working \ {c}) < limit

\* Faulty: going back to work keeps the approvals.
MovedKeepsApprovals(row, to, actor) ==
    [row EXCEPT !.state = to, !.updated = now,
                !.owner = CASE to = "claimed" -> actor
                            [] to \in {"ready", "backlog"} -> NoOne
                            [] OTHER -> @]
\* A row moved to a state by an actor: claiming takes the card, returning it to
\* the pool frees it, and entering work or the pool forgets the approvals.
Moved(row, to, actor) ==
    [row EXCEPT
        !.state     = to,
        !.owner     = CASE to = "claimed" -> actor
                        [] to \in {"ready", "backlog"} -> NoOne
                        [] OTHER -> @,
        !.approvals = IF to \in {"claimed", "ready", "backlog", "doing"} THEN {} ELSE @,
        !.updated   = now]

Transition(a, c, to) ==
    /\ a \in Active
    /\ <<card[c].state, to>> \in Legal
    /\ NeedsSupervisor(card[c].state, to) => a \in Supervisors
    /\ to = "done" => DoneGate(c)
    /\ Guarded(c) => (a \in Supervisors \/ a = card[c].owner)
    /\ WipOpen(c, to)
    /\ card' = [card EXCEPT ![c] = Moved(@, to, a)]
    /\ UNCHANGED <<now, revoked, limit>>

\* card.evidence: any worker, in any state.  It does not touch `updated`.
AddEvidence(a, c) ==
    /\ a \in Active
    /\ card' = [card EXCEPT ![c].evidence = TRUE]
    /\ UNCHANGED <<now, revoked, limit>>

Approve(a, c) ==
    /\ a \in Active
    /\ card[c].state = "review"
    /\ card' = [card EXCEPT ![c].approvals = @ \cup {a}]
    /\ UNCHANGED <<now, revoked, limit>>

\* What returning a claim to the pool does to the row.
Reclaimed(row, at) ==
    [row EXCEPT !.state = "ready", !.owner = NoOne, !.approvals = {}, !.updated = at]

ReclaimStale(a, c) ==
    /\ a \in Active \cap Supervisors
    /\ card[c].state \in InProgress
    /\ card' = [card EXCEPT ![c] = Reclaimed(@, now)]
    /\ UNCHANGED <<now, revoked, limit>>

---------------------------------------------------------------------------
Outcomes == {"done", "failed", "cancelled"}

\* The state a job's outcome moves a card to, for the states that have an edge.
SyncEdge(outcome, state) ==
    CASE outcome = "done" /\ state \in InProgress -> "review"
      [] outcome = "failed" /\ state \in InProgress \cup {"review"} -> "blocked"
      [] outcome = "cancelled" /\ state \in InProgress \cup {"review"} -> "ready"
      [] OTHER -> state

AuthorMayMove(c) ==
    card[c].owner = Author \/ (Author \in Active /\ Author \in Supervisors)

\* A job linked to the card ends.  Through Doing and to Ready the approvals go;
\* a finished or failed job leaves its log as evidence.
JobSync(c, outcome) ==
    LET to == SyncEdge(outcome, card[c].state) IN
    /\ to # card[c].state
    /\ AuthorMayMove(c)
    /\ card' = [card EXCEPT
          ![c].state     = to,
          ![c].owner     = IF to = "ready" THEN NoOne ELSE @,
          ![c].approvals =
              IF to = "ready" \/ (to = "review" /\ card[c].state = "claimed")
              THEN {} ELSE @,
          ![c].updated   = now,
          ![c].evidence  = @ \/ outcome # "cancelled"]
    /\ UNCHANGED <<now, revoked, limit>>

\* The owner role revokes an identity.  What it owns and approved stays recorded.
Revoke(a) ==
    /\ a \in Active
    /\ revoked' = revoked \cup {a}
    /\ UNCHANGED <<now, card, limit>>

\* policy.set for the lane; a limit may be set below what is in progress.
SetPolicy(a, n) ==
    /\ a \in Active \cap Supervisors
    /\ limit' = n
    /\ UNCHANGED <<now, card, revoked>>

Tick ==
    /\ now < MaxNow
    /\ now' = now + 1
    /\ UNCHANGED <<card, revoked, limit>>

BoardInit ==
    /\ now = 0
    /\ card = [c \in Cards |-> NewCard]
    /\ revoked = {}
    /\ limit \in Limits

\* The operations that write a card's state, the identities or the policy, other
\* than the reconciler's.
BoardStep ==
    \/ \E a \in Agents, c \in Cards :
          \/ \E to \in CardStates : Transition(a, c, to)
          \/ Approve(a, c) \/ ReclaimStale(a, c)
    \/ \E c \in Cards, outcome \in Outcomes : JobSync(c, outcome)
    \/ \E a \in Agents : Revoke(a) \/ \E n \in Limits : SetPolicy(a, n)

BoardNext == BoardStep \/ (\E a \in Agents, c \in Cards : AddEvidence(a, c)) \/ Tick

---------------------------------------------------------------------------
\* Every variable has its type.
BoardTypeOK ==
    /\ now \in Nat
    /\ card \in [Cards -> CardRow]
    /\ revoked \subseteq Agents
    /\ limit \in Limits

\* A card in hand has an owner and a card in the pool has none, whichever of the
\* move, reclaim and job-sync paths last wrote it.
OwnedWhileInHand ==
    \A c \in Cards :
        /\ card[c].state \in {"claimed", "doing", "review"} => card[c].owner # NoOne
        /\ card[c].state \in {"backlog", "ready"} => card[c].owner = NoOne

\* Approvals never survive into new work: a card that is not under or past review
\* carries none, so an approval counted by the done gate was given to the work
\* now under review (transition deletes them on the way back).
ApprovalsAreOfThisReview ==
    \A c \in Cards :
        card[c].state \in {"backlog", "ready", "claimed", "doing"}
            => card[c].approvals = {}

\* With review required, a finished card has evidence and was approved by someone
\* other than its owner.
DoneWasReviewed ==
    \A c \in Cards :
        card[c].state = "done" =>
            /\ card[c].evidence
            /\ RequireReview => card[c].approvals \ {card[c].owner} # {}

\* Work in progress grows only up to the limit: job syncs and reclaims move cards
\* without asking the gate of `transition`, and a lane left over a lowered limit
\* only drains.
WipGrowsToTheLimit ==
    [][limit > 0 /\ ~(Working' \subseteq Working) => Cardinality(Working') <= limit]_boardVars

\* A done or cancelled card keeps its state, its owner and its approvals: no late
\* job end, reclaim or approval reaches it.
TerminalIsFinal ==
    [][\A c \in Cards : card[c].state \in Terminal =>
          /\ card'[c].state = card[c].state
          /\ card'[c].owner = card[c].owner
          /\ card'[c].approvals = card[c].approvals]_boardVars
=============================================================================
