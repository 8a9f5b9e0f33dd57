--------------------------- MODULE IntentPromise ----------------------------
(***************************************************************************)
(* What a dispatch intent promises: a transition that owes notifications   *)
(* has them all queued together, exactly once, or is retired with none of  *)
(* them queued; and one of the two happens.                                *)
(***************************************************************************)
CONSTANT Cause

VARIABLE promise

Init == promise = [c \in Cause |-> "none"]

Owe(c) ==
    /\ promise[c] = "none"
    /\ promise' = [promise EXCEPT ![c] = "owed"]

Tell(c) ==
    /\ promise[c] = "owed"
    /\ promise' = [promise EXCEPT ![c] = "told"]

Retire(c) ==
    /\ promise[c] = "owed"
    /\ promise' = [promise EXCEPT ![c] = "retired"]

Next == \E c \in Cause : Owe(c) \/ Tell(c) \/ Retire(c)

\* Safety: what may become of an intent, and in which order.
Safe == Init /\ [][Next]_promise

Spec ==
    /\ Safe
    /\ \A c \in Cause : WF_promise(Tell(c) \/ Retire(c))
=============================================================================
