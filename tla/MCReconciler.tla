---------------------------- MODULE MCReconciler ----------------------------
(* Small instances of Reconciler.                                             *)
EXTENDS Reconciler

Marked(kinds) == \E k \in Keys : k[1] \in kinds

\* The kinds of records a behaviour has touched.
Kinds ==
    (IF (\E t \in Tasks : task[t] # Unclaimed) \/ Marked({"claim"})
     THEN {"claims"} ELSE {})
    \cup (IF (\E l \in Leases : lease[l] # NoLease) \/ Marked({"expire", "quiet"})
          THEN {"leases"} ELSE {})
    \cup (IF floor = "low" \/ blocker.made > 0 \/ Marked({"pause"})
          THEN {"floors"} ELSE {})
    \cup (IF sprints # {} \/ Marked({"sprint"}) THEN {"sprints"} ELSE {})
    \cup (IF (\E c \in Cards : card[c] # NewCard) \/ revoked # {} \/ limit # 0
          THEN {"cards"} ELSE {})

\* A pass has begun, or time has gone by.
Passes == pass # Idle \/ marks # {} \/ now > 0

\* A behaviour of the reconciler on cards has one card, which is claimed, worked on
\* and left idle; the rest of the board is explored without passes.
IdleCardOnly ==
    /\ revoked = {} /\ limit = 0
    /\ \A c \in Cards : card[c] # NewCard =>
          /\ c = 1 /\ ~card[c].evidence
          /\ card[c].state \in {"ready", "claimed", "doing"}

\* The rules for claims, leases, floors, sprints and cards read and write tables of
\* their own, so the behaviours explored touch one kind each.  The TTL changes where
\* claims are touched, and a probe fails where the floors are.
OneKind ==
    /\ Cardinality(Kinds) <= 1
    /\ "claims" \in Kinds => now <= 2 /\ \A t \in Tasks : task[t].agent # 2
    /\ "floors" \in Kinds => now <= 3
    /\ "cards" \in Kinds /\ Passes => IdleCardOnly /\ now <= 2
    /\ "claims" \notin Kinds => \A v \in Ttls : v <= ttl
    /\ "floors" \notin Kinds => pass.stage # "applying" \/ pass.floor = "met"
=============================================================================
