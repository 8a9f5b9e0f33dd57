------------------------------ MODULE MCEdges --------------------------------
(* Where Vigil meets the outside: a check of every type, a delivery through  *)
(* every provider, and the diagnostic bursts of an incident.  They share     *)
(* nothing, so a behaviour is of one of the three.                           *)
EXTENDS Probing, Delivering, Bursts

NoCheck == Init /\ check.type = "unknown" /\ ~ check.allow

EdgesInit ==
    \/ Init /\ Idle /\ BurstIdle
    \/ NoCheck /\ DInit /\ BurstIdle
    \/ NoCheck /\ Idle /\ BInit

EdgesNext ==
    \/ Next /\ UNCHANGED <<dvars, bvars>>
    \/ DNext /\ UNCHANGED <<vars, bvars>>
    \/ BurstNext /\ UNCHANGED <<vars, dvars>>

EdgesSpec == EdgesInit /\ [][EdgesNext]_<<vars, dvars, bvars>> /\ Fairness
=============================================================================
