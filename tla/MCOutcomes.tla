----------------------------- MODULE MCOutcomes -----------------------------
(***************************************************************************)
(* What the outcomes of a flapping monitor's checks leave behind: the      *)
(* incidents they open, page for and close, and the ledger of              *)
(* observations.  They share nothing here, so a behaviour is of one.       *)
(***************************************************************************)
EXTENDS Incidents, Ledger

Flapping == {[verdict |-> v, holds |-> FALSE, lines |-> FALSE] : v \in {"up", "down"}}

VARIABLE part

OutcomesInit ==
    /\ part \in {"incidents", "ledger"}
    /\ Init /\ LedgerInit
    /\ part = "ledger" => ~ monitor.shadow

Incidents(A) == part = "incidents" /\ A

OutcomesNext ==
    \/ Incidents(Next) /\ UNCHANGED <<part, ledgerVars>>
    \/ part = "ledger" /\ LedgerNext /\ UNCHANGED <<part, vars>>

\* Fairness of Incidents, in its behaviours.
OutcomesSpec ==
    /\ OutcomesInit /\ [][OutcomesNext]_<<part, vars, ledgerVars>>
    /\ \A w \in Checker : WF_vars(Incidents(CheckStep(w)))
    /\ WF_vars(Incidents(DeleteMonitorCommit))
=============================================================================
