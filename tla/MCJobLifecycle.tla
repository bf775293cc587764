--------------------------- MODULE MCJobLifecycle ---------------------------
(* Environments for JobLifecycle. *)
EXTENDS JobLifecycle

Calm == [attempts |-> 1, crashes |-> 0, cancels |-> 0, stubborn |-> FALSE, card |-> "none",
         cardErrors |-> FALSE, supDies |-> FALSE]

\* Anything may fail around one supervisor; the daemon restarts and the job is started a
\* second time; the card sync is refused.
Stormy  == [Calm EXCEPT !.crashes = 1, !.cancels = 1, !.stubborn = TRUE, !.card = "linked", !.supDies = TRUE]
Again   == [Calm EXCEPT !.attempts = 2, !.crashes = 1, !.card = "linked"]
Refused == [Calm EXCEPT !.card = "linked", !.cardErrors = TRUE]
SafetyEnvironments == {Stormy, Again, Refused}

\* A cancel of a meek or a stubborn command; a restart with a second supervisor; a
\* supervisor that is killed, before or after a cancel.
Cancelled == [Calm EXCEPT !.cancels = 1]
Restarted == [Calm EXCEPT !.attempts = 2, !.crashes = 1]
LiveEnvironments == {Cancelled, [Cancelled EXCEPT !.stubborn = TRUE], Restarted,
                     [Cancelled EXCEPT !.supDies = TRUE]}

\* A restart, and nothing else.
TwiceEnvironments == {Restarted}
=============================================================================
