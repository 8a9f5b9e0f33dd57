------------------------------ MODULE FastSlots ------------------------------
(***************************************************************************)
(* One worker's slot table (modules/monitors/highfreq/plane.ts), its       *)
(* sample writer (writer.ts) and the switch that puts a monitor on the     *)
(* plane (service.ts), all monitors in one organization.  ShardLeases      *)
(* models the leases, which are one bit here.                              *)
(*                                                                         *)
(* A slot is an object the table points to.  A probe or a promotion keeps  *)
(* the object it began with, also after a reload dropped it and another    *)
(* took its place: table[m] is the object in the table, 0 for none.  Time  *)
(* is a slot becoming due, and `ripe', the time shouldPromote waits for an *)
(* unchanged verdict; due slots are served in any order.                   *)
(*                                                                         *)
(* A definition named X_Y is X with a plausible mistake Y in it.           *)
(***************************************************************************)
EXTENDS Integers, FiniteSets

CONSTANTS
    Monitor, Target,
    Object,     \* slot objects of a monitor alive at once, a set of positive numbers
    OrgQuota,   \* HF_MAX_MONITORS_PER_ORG
    WorkerCap,  \* HF_MAX_MONITORS_PER_WORKER
    OrgCap,     \* HF_MAX_INFLIGHT_PER_ORG
    TargetCap,  \* HF_MAX_INFLIGHT_PER_TARGET
    Batch,      \* HF_BATCH_ROWS
    HighWater,  \* HF_WRITER_HIGH_WATER_ROWS
    MaxEdits,   \* bound on what operators do
    MaxUpsets   \* bound on changes of the world and on failures

ASSUME SlotConstants ==
    /\ Object \subseteq Nat \ {0}
    /\ {OrgQuota, WorkerCap, OrgCap, TargetCap, Batch, HighWater} \subseteq Nat \ {0}
    /\ {MaxEdits, MaxUpsets} \subseteq Nat

VARIABLES
    row,        \* monitors: on the plane, target, first_failure_at
    asked,      \* enabling requests that have passed the quota count
    truth,      \* what a probe of the monitor would find
    holds,      \* whether the worker holds the shards
    reload,     \* the rows the reload in flight has read
    slot, table,
    perOrg, perTarget,  \* inFlightPerOrg, inFlightPerTarget
    writer,     \* SampleWriter
    run,        \* history: how many failure runs have begun
    edits, upsets

slotVars == <<row, asked, truth, holds, reload, slot, table, perOrg, perTarget,
          writer, run, edits, upsets>>

world == <<asked, truth, holds, edits, upsets>>

-----------------------------------------------------------------------------
Verdict == {"up", "down"}

NoRows == [m \in {} |-> 0]

\* Of its copy of the row, what a slot uses is the target and first_failure_at.
NewSlot(r) ==
    [key |-> r.key, seen |-> r.ff, due |-> FALSE, flight |-> FALSE,
     carry |-> "none", last |-> "none", ripe |-> FALSE]

NotYet == NewSlot([key |-> CHOOSE k \in Target : TRUE, ff |-> 0])

SlotInit ==
    /\ row \in [Monitor -> [fast : BOOLEAN, key : Target, ff : {0}]]
    /\ Cardinality({m \in Monitor : row[m].fast}) <= OrgQuota
    /\ asked = {}
    /\ truth = [m \in Monitor |-> "up"]
    /\ holds = TRUE
    /\ reload = [stage |-> "none", rows |-> NoRows]
    /\ slot = [m \in Monitor |-> [o \in Object |-> NotYet]]
    /\ table = [m \in Monitor |-> 0]
    /\ perOrg = 0
    /\ perTarget = [k \in Target |-> 0]
    /\ writer = [buf |-> 0, out |-> FALSE, timer |-> FALSE]
    /\ run = 0
    /\ edits = 0
    /\ upsets = 0

Edit == edits < MaxEdits /\ edits' = edits + 1
Upset == upsets < MaxUpsets /\ upsets' = upsets + 1

plane == <<reload, slot, table, perOrg, perTarget, writer, run>>

-----------------------------------------------------------------------------
\* setHighFrequency counts the organization's other monitors on the plane ...
EnableAsks(m) ==
    /\ ~ row[m].fast /\ m \notin asked
    /\ Cardinality({n \in Monitor \ {m} : row[n].fast}) < OrgQuota
    /\ Edit
    /\ asked' = asked \cup {m}
    /\ UNCHANGED <<row, truth, holds, upsets, plane>>

\* ... and then writes, in a statement of its own.
EnableWrites(m) ==
    /\ m \in asked
    /\ asked' = asked \ {m}
    /\ row' = [row EXCEPT ![m].fast = TRUE]
    /\ UNCHANGED <<truth, holds, edits, upsets, plane>>

\* Turned off, paused, or pointed at another target.
Changed(m) ==
    /\ row[m].fast
    /\ Edit
    /\ \/ row' = [row EXCEPT ![m].fast = FALSE]
       \/ \E k \in Target \ {row[m].key} : row' = [row EXCEPT ![m].key = k]
    /\ UNCHANGED <<asked, truth, holds, upsets, plane>>

World ==
    /\ Upset
    /\ \/ \E m \in Monitor :
            truth' = [truth EXCEPT ![m] = CHOOSE v \in Verdict : v # @] /\ UNCHANGED holds
       \/ holds' = ~ holds /\ UNCHANGED truth
    /\ UNCHANGED <<row, asked, edits, plane>>

-----------------------------------------------------------------------------
\* reload: the discovery query is answered ...
ReloadReads ==
    /\ reload.stage = "none"
    /\ reload' = [stage |-> "read",
                  rows |-> [m \in {n \in Monitor : row[n].fast} |-> [key |-> row[m].key, ff |-> row[m].ff]]]
    /\ UNCHANGED <<row, slot, table, perOrg, perTarget, writer, run, world>>

Kept(mine) ==
    {S \in SUBSET mine : Cardinality(S) = IF Cardinality(mine) <= WorkerCap
                                          THEN Cardinality(mine) ELSE WorkerCap}

Idle(m, o) == ~ slot[m][o].flight /\ slot[m][o].carry = "none"

Refreshed_Fresh(s, r) == NewSlot(r)

\* An existing slot is given the row just read and that row's target.
Refreshed(s, r) == [s EXCEPT !.key = r.key, !.seen = r.ff]

\* ... and its rows fill the table, up to the cap, in the order they came; what
\* is not among them is dropped.  A new slot is a new object.
ReloadFills ==
    LET mine == IF holds THEN DOMAIN reload.rows ELSE {} IN
    /\ reload.stage = "read"
    /\ \E keep \in Kept(mine) :
       \E fresh \in [{m \in keep : table[m] = 0} -> Object] :
         /\ \A m \in DOMAIN fresh : Idle(m, fresh[m])
         /\ table' = [m \in Monitor |-> IF m \in DOMAIN fresh THEN fresh[m]
                                        ELSE IF m \in keep THEN table[m] ELSE 0]
         /\ slot' = [m \in Monitor |-> [o \in Object |->
                IF m \notin keep THEN slot[m][o]
                ELSE IF m \in DOMAIN fresh /\ fresh[m] = o THEN NewSlot(reload.rows[m])
                ELSE IF table[m] = o THEN Refreshed(slot[m][o], reload.rows[m])
                ELSE slot[m][o]]]
    /\ reload' = [stage |-> "none", rows |-> NoRows]
    /\ UNCHANGED <<row, perOrg, perTarget, writer, run, world>>

\* The discovery query fails.
ReloadFails ==
    /\ reload.stage = "read"
    /\ Upset
    /\ reload' = [stage |-> "none", rows |-> NoRows]
    /\ UNCHANGED <<row, asked, truth, holds, edits, slot, table, perOrg, perTarget,
                   writer, run>>

-----------------------------------------------------------------------------
\* bump: a count never goes below none.
Bumped(n, d) == IF n + d < 0 THEN 0 ELSE n + d

Saturated == writer.buf >= HighWater

\* A slot's deadline passes.
ComesDue(m) ==
    /\ table[m] # 0 /\ ~ slot[m][table[m]].due
    /\ slot' = [slot EXCEPT ![m][table[m]].due = TRUE]
    /\ UNCHANGED <<row, reload, table, perOrg, perTarget, writer, run, world>>

\* refuse, the caps' part: whether organization and target have room.
Free(m) ==
    /\ perOrg < OrgCap
    /\ perTarget[slot[m][table[m]].key] < TargetCap

\* tick, for a due slot with room: its probe leaves.
TickProbes(m) ==
    LET o == table[m] IN
    /\ o # 0 /\ slot[m][o].due /\ holds
    /\ ~ slot[m][o].flight /\ ~ Saturated /\ Free(m)
    /\ slot' = [slot EXCEPT ![m][o] = [slot[m][o] EXCEPT !.due = FALSE, !.flight = TRUE]]
    /\ perOrg' = perOrg + 1
    /\ perTarget' = [perTarget EXCEPT ![slot[m][o].key] = Bumped(@, 1)]
    /\ UNCHANGED <<row, reload, table, writer, run, world>>

\* tick, for a due slot that is not ours, or whose probe is late: it waits for
\* its next deadline.  One shed for want of room or of a token stays due.
TickSkips(m) ==
    LET o == table[m] IN
    /\ o # 0 /\ slot[m][o].due
    /\ ~ holds \/ slot[m][o].flight
    /\ slot' = [slot EXCEPT ![m][o].due = FALSE]
    /\ UNCHANGED <<row, reload, table, perOrg, perTarget, writer, run, world>>

ShouldPromote_OnEdge(s, v) == s.carry = "none" /\ (s.last = "none" \/ v # s.last)

\* shouldPromote, of the object the probe began with.
ShouldPromote(s, v) ==
    s.carry = "none" /\ (s.last = "none" \/ v # s.last \/ s.ripe)

\* add: over the high-water mark a row is refused; a full batch is flushed,
\* unless a statement is out; and only below a full batch is a timer set.
Add(w) ==
    IF w.buf >= HighWater THEN w
    ELSE IF w.buf + 1 < Batch THEN [w EXCEPT !.buf = @ + 1, !.timer = TRUE]
    ELSE IF w.out THEN [w EXCEPT !.buf = @ + 1]
    ELSE [buf |-> 0, out |-> TRUE, timer |-> FALSE]

\* probe, after performCheck: what it found is added to the writer and, when
\* shouldPromote says so, taken to promote.
ProbeLands(m, o) ==
    LET s == slot[m][o]
        v == truth[m] IN
    /\ s.flight
    /\ slot' = [slot EXCEPT ![m][o] =
                  [s EXCEPT !.flight = FALSE,
                            !.carry = IF ShouldPromote(s, v) THEN v ELSE s.carry]]
    /\ perOrg' = Bumped(perOrg, -1)
    /\ perTarget' = [perTarget EXCEPT ![s.key] = Bumped(@, -1)]
    /\ writer' = Add(writer)
    /\ UNCHANGED <<row, reload, table, run, world>>

\* recordCheckOutcome on the row: a failure ends or begins a failure run or
\* continues the one under way, unless that is not the run it was derived from.
Recorded(r, seen, v) ==
    IF r.ff # seen THEN r
    ELSE [r EXCEPT !.ff = IF v = "up" THEN 0 ELSE IF r.ff = 0 THEN run + 1 ELSE r.ff]

\* promote, once applyOutcome has answered with the row as it now is.
Promote(m, o) ==
    LET s == slot[m][o] IN
    /\ s.carry # "none"
    /\ row' = [row EXCEPT ![m] = Recorded(row[m], s.seen, s.carry)]
    /\ run' = IF row'[m].ff > run THEN row'[m].ff ELSE run
    /\ slot' = [slot EXCEPT ![m][o] =
                  [s EXCEPT !.seen = row'[m].ff, !.last = s.carry,
                            !.carry = "none", !.ripe = FALSE]]
    /\ UNCHANGED <<reload, table, perOrg, perTarget, writer, world>>

\* promote's catch and finally: the sample is not promoted.
PromoteFails(m, o) ==
    /\ slot[m][o].carry # "none"
    /\ Upset
    /\ slot' = [slot EXCEPT ![m][o].carry = "none"]
    /\ UNCHANGED <<row, asked, truth, holds, edits, reload, table, perOrg, perTarget,
                   writer, run>>

\* The time after which an unchanged verdict is promoted again.
Ripens(m, o) ==
    /\ slot[m][o].last # "none" /\ ~ slot[m][o].ripe
    /\ slot' = [slot EXCEPT ![m][o].ripe = TRUE]
    /\ UNCHANGED <<row, reload, table, perOrg, perTarget, writer, run, world>>

-----------------------------------------------------------------------------
\* The flush timer: no second statement while one is out.
FlushTimer ==
    /\ writer.timer
    /\ writer' = IF writer.out THEN [writer EXCEPT !.timer = FALSE]
                 ELSE [buf |-> 0, out |-> TRUE, timer |-> FALSE]
    /\ UNCHANGED <<row, reload, slot, table, perOrg, perTarget, run, world>>

\* write: the statement ends; a batch it fails is dropped.
WriteEnds ==
    /\ writer.out
    /\ writer' = [writer EXCEPT !.out = FALSE]
    /\ UNCHANGED <<row, reload, slot, table, perOrg, perTarget, run, world>>

-----------------------------------------------------------------------------
SlotNext ==
    \/ World \/ ReloadReads \/ ReloadFills \/ ReloadFails \/ FlushTimer \/ WriteEnds
    \/ \E m \in Monitor :
         \/ EnableAsks(m) \/ EnableWrites(m) \/ Changed(m)
         \/ ComesDue(m) \/ TickProbes(m) \/ TickSkips(m)
         \/ \E o \in Object :
              \/ ProbeLands(m, o) \/ Promote(m, o) \/ PromoteFails(m, o) \/ Ripens(m, o)

\* Timers fire, probes end by their timeouts, statements end.
SlotFairness ==
    /\ WF_slotVars(ReloadReads) /\ WF_slotVars(ReloadFills)
    /\ WF_slotVars(FlushTimer) /\ WF_slotVars(WriteEnds)
    /\ \A m \in Monitor :
         /\ WF_slotVars(ComesDue(m)) /\ WF_slotVars(TickProbes(m)) /\ WF_slotVars(TickSkips(m))
         /\ \A o \in Object :
              WF_slotVars(ProbeLands(m, o)) /\ WF_slotVars(Promote(m, o)) /\ WF_slotVars(Ripens(m, o))

SlotSpec == SlotInit /\ [][SlotNext]_slotVars /\ SlotFairness

-----------------------------------------------------------------------------
Flying == {p \in Monitor \X Object : slot[p[1]][p[2]].flight}

SlotRecord == [key : Target, seen : Nat, due : BOOLEAN, flight : BOOLEAN,
               carry : Verdict \cup {"none"}, last : Verdict \cup {"none"},
               ripe : BOOLEAN]

\* Tables, slots and counters keep their shape.
SlotTypeOK ==
    /\ row \in [Monitor -> [fast : BOOLEAN, key : Target, ff : Nat]]
    /\ asked \subseteq Monitor
    /\ truth \in [Monitor -> Verdict]
    /\ holds \in BOOLEAN
    /\ reload.stage \in {"none", "read"}
    /\ slot \in [Monitor -> [Object -> SlotRecord]]
    /\ table \in [Monitor -> Object \cup {0}]
    /\ perOrg \in Nat
    /\ perTarget \in [Target -> Nat]
    /\ writer \in [buf : 0 .. HighWater, out : BOOLEAN, timer : BOOLEAN]

\* The organization's counter is the probes in flight, whichever slots were
\* dropped, replaced or given another row while they flew: so the cap holds.
OrgFair == SlotTypeOK /\ perOrg = Cardinality(Flying) /\ perOrg <= OrgCap

Served(m) == row[m].fast /\ holds /\ truth[m] = "down" /\ ~ Saturated

\* A fast monitor whose target stays down ends up in a failure run, and stays in
\* it, whatever was stale, refused or failed on the way, unless the writer stays
\* over its high-water mark.
DownSeen == \A m \in Monitor : <>[] Served(m) => <>[] (row[m].ff # 0)

\* Nor does a failure run outlive the failure.
UpSeen == \A m \in Monitor :
    <>[] (row[m].fast /\ holds /\ truth[m] = "up" /\ ~ Saturated) => <>[] (row[m].ff = 0)

\* Every lasting change of a target reaches the row, in either direction.
ChangeSeen == DownSeen /\ UpSeen

\* limits.ts on HF_WRITER_HIGH_WATER_ROWS: shedding is visible and recoverable.
Recovers == Saturated ~> ~ Saturated
=============================================================================
