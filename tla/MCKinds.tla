------------------------------ MODULE MCKinds -------------------------------
(***************************************************************************)
(* What has to come about in the end: the notifications a dispatch intent  *)
(* owes, with three sweepers racing for a cause, and the state of a group, *)
(* with two processes deriving a group inside another from a monitor that  *)
(* is checked and one that is set by hand.  They share nothing, so a       *)
(* behaviour is of one of them.                                            *)
(***************************************************************************)
EXTENDS Intents, Derived, TLC

\* A checked monitor in a group, that group and a manual monitor in another.
MCTree == ("a" :> "g") @@ ("g" :> "h") @@ ("m" :> "h") @@ ("h" :> Nowhere)

VARIABLE part

NoMonitors ==
    /\ monitor = [m \in Kind |-> [NewRow(Nowhere) EXCEPT !.there = FALSE]]
    /\ says = [m \in Kind |-> "up"]
    /\ walk = [w \in Walker |-> Idle]
    /\ spent = 0

KindsInit ==
    \/ part = "intents" /\ Init /\ NoMonitors
    \/ part = "derived" /\ Init /\ audience = {} /\ DerivedInit

KindsNext ==
    /\ UNCHANGED part
    /\ \/ part = "intents" /\ Next /\ UNCHANGED dvars
       \/ part = "derived" /\ DerivedNext /\ UNCHANGED vars

\* With no intent to sweep and no monitor to check, fairness asks for nothing.
Kinds ==
    /\ KindsInit
    /\ [][KindsNext]_<<part, vars, dvars>>
    /\ IntentsFairness
    /\ DerivedFairness
=============================================================================
