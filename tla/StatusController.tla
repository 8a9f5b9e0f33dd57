-------------------------- MODULE StatusController --------------------------
(***************************************************************************)
(* The status controller (modules/monitors/status-controller.ts): what an  *)
(* observation makes of a monitor, given its failure run.  Pure.           *)
(*                                                                         *)
(* A definition named X_Y is X with a plausible mistake Y in it.           *)
(***************************************************************************)
EXTENDS Naturals

CONSTANT Never   \* a timestamp column that is null

MonitorStatus == {"up", "down", "degraded", "unknown"}

Verdict == {"up", "down", "degraded", "indeterminate"}

\* A check's result: `holds' is dockerState.holdResolve, `lines' says whether
\* dockerIncidentLines has anything to write.
Outcome == [verdict : Verdict, holds : BOOLEAN, lines : BOOLEAN]

\* An indeterminate probe neither starts a failure run nor clears one.
AdvanceFailureRun(previous, verdict, now) ==
    CASE verdict = "down" -> IF previous = Never THEN now ELSE previous
      [] verdict = "indeterminate" -> previous
      [] OTHER -> Never

Elapsed(window, firstFailureAt, now) ==
    (IF firstFailureAt = Never THEN 0 ELSE now - firstFailureAt) >= window

\* Inside the window a failing monitor keeps the status last established.
DeriveStatus(verdict, window, firstFailureAt, previous, now) ==
    CASE verdict \in {"up", "degraded"} -> verdict
      [] verdict = "indeterminate" -> "unknown"
      [] OTHER -> IF Elapsed(window, firstFailureAt, now) THEN "down" ELSE previous

\* Only an observed recovery resolves, never a status derived as up.
Resolves(outcome) ==
    \/ outcome.verdict = "up"
    \/ outcome.verdict = "degraded" /\ ~ outcome.holds
=============================================================================
