----------------------------- MODULE WaitPromise -----------------------------
(***************************************************************************)
(* What a bounded wait promises its caller, whatever wakes it: it says that   *)
(* the condition holds only when it does, and it does not sleep on while the  *)
(* condition holds.  The caller repeats a wait that gave up.                  *)
(***************************************************************************)
VARIABLES
    holds,     \* the condition, as anybody could read it
    announced, \* it holds, and whoever made it hold said so
    status     \* "quiet" (no call is open), "waiting", "told", "gaveup" or "refused"

promiseVars == <<holds, announced, status>>

PromiseInit == holds \in BOOLEAN /\ announced \in BOOLEAN /\ status = "quiet"

\* The world moves on.
World   == holds' \in BOOLEAN /\ announced' \in BOOLEAN /\ UNCHANGED status
\* A call, perhaps for another condition.
Ask     == status \in {"quiet", "gaveup"} /\ status' = "waiting"
             /\ holds' \in BOOLEAN /\ announced' \in BOOLEAN
Tell    == status = "waiting" /\ holds /\ status' = "told" /\ UNCHANGED <<holds, announced>>
GiveUp  == status = "waiting" /\ status' = "gaveup" /\ UNCHANGED <<holds, announced>>
Refuse  == status # "told" /\ status' = "refused" /\ holds' \in BOOLEAN /\ announced' \in BOOLEAN

PromiseNext == World \/ Ask \/ Tell \/ GiveUp \/ Refuse

PromiseSafety == PromiseInit /\ [][PromiseNext]_promiseVars

Promise == PromiseSafety /\ WF_promiseVars(announced /\ Tell)
=============================================================================
