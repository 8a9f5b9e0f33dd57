----------------------------- MODULE MCRecords ------------------------------
(***************************************************************************)
(* Three records that several processes write to at once: an outbox whose  *)
(* channel limit defers one of two rows, the leases of the fast plane by   *)
(* two workers, the clock of one behind the database's and of the other    *)
(* ahead of it, and the incidents of a monitor that two checks see.  They  *)
(* share nothing, so a behaviour is of one of them.                        *)
(***************************************************************************)
EXTENDS Outbox, ShardLeases, Incidents, TLC

CONSTANTS
    Parts,     \* of which of them the behaviours are
    ch, w1, w2

\* Both rows share a channel.
OneChannel == [r \in Row |-> ch]

MCSkew == [w \in Worker |-> IF w = w1 THEN -2 ELSE 1]

Seeing(verdict) == [verdict |-> verdict, holds |-> FALSE, lines |-> FALSE]

\* The outcomes that tell the branches of the status controller apart.
Docker ==
    {Seeing(v) : v \in {"up", "degraded", "down", "indeterminate"}} \cup
    {[Seeing("down") EXCEPT !.lines = TRUE], [Seeing("degraded") EXCEPT !.holds = TRUE]}

\* The drains and the checks are the same processes.
Symmetry == Permutations(Drain) \cup Permutations(Incident)

-----------------------------------------------------------------------------
VARIABLE part

RecordsInit ==
    /\ part \in Parts
    /\ OutboxInit /\ LeaseInit /\ Init
    /\ part # "leases" => ~ fleet
    /\ part # "incidents" => ~ monitor.shadow /\ monitor.window = 0

RecordsNext ==
    /\ UNCHANGED part
    /\ \/ part = "outbox" /\ OutboxNext /\ UNCHANGED <<leaseVars, vars>>
       \/ part = "leases" /\ LeaseNext /\ UNCHANGED <<outboxVars, vars>>
       \/ part = "incidents" /\ Next /\ UNCHANGED <<outboxVars, leaseVars>>

RecordsSpec == RecordsInit /\ [][RecordsNext]_<<part, outboxVars, leaseVars, vars>>
=============================================================================
