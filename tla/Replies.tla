------------------------------ MODULE Replies --------------------------------
(***************************************************************************)
(* The vocabulary the check types of modules/monitors/types are written    *)
(* in.  A type is a table: for every phase of its conversation with a      *)
(* target, the answers it tells apart.  An answer carries                  *)
(*                                                                         *)
(*   tag   what it says of the target, whatever the probe makes of it:     *)
(*         "right"   what a working one may say here,                      *)
(*         "poor"    a working one, past a limit the operator set,         *)
(*         "wrong"   the service itself, not working as configured,        *)
(*         "foreign" not this protocol, or not within its bounds,          *)
(*         "denied"  something that will not let Vigil look;               *)
(*   step  what the probe does with it: asks on, reports facts, reports a  *)
(*         failure, or reports that it cannot tell.                        *)
(***************************************************************************)

\* ProbeResult, without the wording: `facts' is what the assertions read, and
\* what is learnt before the last answer is kept to it.
Step(do, at, facts) == [do |-> do, at |-> at, facts |-> facts]

AskWith(phase, facts) == Step("ask", phase, facts)
Ask(phase) == AskWith(phase, {})
Facts(facts) == Step("facts", "done", facts)
Fail == Step("fail", "done", {})
Cannot == Step("cannot", "done", {})

Answer(tag, step) == [tag |-> tag, step |-> step]

Right(step) == Answer("right", step)
Poor(step) == Answer("poor", step)
Wrong(step) == Answer("wrong", step)
Foreign(step) == Answer("foreign", step)
Denied(step) == Answer("denied", step)

\* The severities of the assertions that do not hold.
Failing(down, degraded) ==
    (IF down THEN {"down"} ELSE {}) \cup (IF degraded THEN {"degraded"} ELSE {})

\* latencyAssertion, which nearly every type declares last.
Slow(facts) == "slow" \in facts

\* For a type without settings of its own.
NoConfig == {"plain"}
=============================================================================
