------------------------------ MODULE Delivery ------------------------------
(***************************************************************************)
(* The consumers of the bus, each beside every write of the store.  They *)
(* share nothing but the bus, so a behaviour runs one of them: `using` is it.  *)
(***************************************************************************)
EXTENDS Waits, Push

VARIABLE using

deliveryVars == <<busVars, waitVars, pushVars, using>>

Consumers == {"channel wait", "work wait", "push"}
Waiter == using \in {"channel wait", "work wait"}

DeliveryInit == BusInit /\ WaitInit /\ PushInit /\ using \in Consumers

\* Each consumer is read beside the commits that can concern it, and one that cannot,
\* until it is done.
Over == wait.answer \in {"told", "refused", "stopped"} \/ push.stage = "ended"
Writes ==
    /\ ~Over
    /\ \/ using \in {"channel wait", "push"} /\ ChannelChanges
       \/ using = "work wait" /\ WorkChanges
       \/ Unrelated \/ Publish
    /\ UNCHANGED <<waitVars, pushVars, using>>

WaitMoves ==
    /\ \/ using = "channel wait" /\ WaitStep({"inbox", "messages"})
       \/ using = "work wait" /\ WaitStep({"notices", "tasks", "cards"} \cup PolledKinds)
    /\ UNCHANGED <<busVars, pushVars, using>>
PushMoves   == using = "push" /\ PushStep /\ UNCHANGED <<busVars, waitVars, using>>

DeliveryNext == Writes \/ WaitMoves \/ PushMoves

\* The writer goes on to publish, and a call that can move moves: both are driven by the
\* runtime.  Nothing obliges a deadline, a caller, a writer of messages or an operator.
DeliverySpec ==
    /\ DeliveryInit /\ [][DeliveryNext]_deliveryVars
    /\ WF_deliveryVars(Publish /\ UNCHANGED <<waitVars, pushVars, using>>)
    /\ WF_deliveryVars(Waiter /\ CallStep /\ UNCHANGED <<busVars, pushVars, using>>)
=============================================================================
