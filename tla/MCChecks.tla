------------------------------ MODULE MCChecks ------------------------------
(***************************************************************************)
(* What must go on happening: a monitor is checked again (Scheduler; the   *)
(* unit of time is half a minute), a notification is delivered (Outbox,    *)
(* one row, two drains).  They share nothing here, so a behaviour is of    *)
(* one of them.                                                            *)
(***************************************************************************)
EXTENDS Scheduler, Outbox

CONSTANT ch

VARIABLE part

OneTenant == [m \in Monitor |-> "tenant"]

OneChannel == [r \in Row |-> ch]

\* The schedule while a behaviour is of the outbox: of paused monitors.
AllPaused ==
    /\ row = [m \in Monitor |-> [due |-> 0, claim |-> 0, paused |-> TRUE,
                                 fast |-> FALSE, capable |-> TRUE]]
    /\ waiting = [m \in Monitor |-> Never] /\ taken = [m \in Monitor |-> 0]
    /\ tick = [t \in Ticker |-> NoTick] /\ job = [w \in Worker |-> NoJob]
    /\ live = FALSE /\ edits = 0 /\ failures = 0

ChecksInit ==
    /\ OutboxInit
    /\ \/ part = "schedule" /\ Init
       \/ part = "outbox" /\ AllPaused

Scheduling(A) == part = "schedule" /\ A
Delivering(A) == part = "outbox" /\ A

ChecksNext ==
    \/ Scheduling(Next) /\ UNCHANGED <<part, outboxVars>>
    \/ Delivering(OutboxNext) /\ UNCHANGED <<part, vars>>

\* Fairness of Scheduler and of Outbox, each in its behaviours.
Checks ==
    /\ ChecksInit /\ [][ChecksNext]_<<part, vars, outboxVars>>
    /\ WF_vars(Scheduling(Advance)) /\ WF_vars(Scheduling(ReleaseShards))
    /\ \A t \in Ticker : WF_vars(Scheduling(TickStep(t)))
    /\ \A m \in Monitor :
         SF_vars(Scheduling(FetchStep(m))) /\ WF_vars(Scheduling(PlaneStep(m)))
    /\ \A w \in Worker : WF_vars(Scheduling(CheckStep(w)))
    /\ WF_outboxVars(Delivering(TimePasses)) /\ WF_outboxVars(Delivering(Retain))
    /\ \A d \in Drain :
         /\ WF_outboxVars(Delivering(DrainStep(d)))
         /\ WF_outboxVars(Delivering(\E c \in holding : c.drain = d /\ ClaimStep(c)))
=============================================================================
