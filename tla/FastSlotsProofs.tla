-------------------------- MODULE FastSlotsProofs ---------------------------
(***************************************************************************)
(* The organization's in-flight counter of the high-frequency plane, for   *)
(* any number of monitors, targets and slot objects: however reloads drop, *)
(* replace and refresh slots under the probes that fly, the counter is the *)
(* number of probes in flight and stays within its cap.                    *)
(***************************************************************************)
EXTENDS FastSlots, FiniteSetTheorems, TLAPS

\* What a reload in flight has read is rows of monitors.
ReadRow == [key : Target, ff : Nat]

ReloadTyped ==
    /\ DOMAIN reload.rows \subseteq Monitor
    /\ \A m \in DOMAIN reload.rows : reload.rows[m] \in ReadRow

\* Every probe in flight is counted once, and only finitely many fly.
Counted == IsFiniteSet(Flying) /\ perOrg = Cardinality(Flying) /\ perOrg <= OrgCap

\* The inductive invariant.
SlotInv == SlotTypeOK /\ ReloadTyped /\ run \in Nat /\ Counted

-----------------------------------------------------------------------------
\* A slot begins on the ground.
LEMMA NewSlotTyped ==
    ASSUME NEW r, r.key \in Target, r.ff \in Nat
    PROVE  NewSlot(r) \in SlotRecord /\ ~ NewSlot(r).flight
BY DEF NewSlot, SlotRecord

\* A refreshed slot keeps its probe in the air.
LEMMA RefreshedTyped ==
    ASSUME NEW s \in SlotRecord, NEW r \in ReadRow
    PROVE  Refreshed(s, r) \in SlotRecord /\ Refreshed(s, r).flight = s.flight
BY DEF Refreshed, SlotRecord, ReadRow

\* What add leaves of the writer.
LEMMA AddTyped ==
    ASSUME NEW w \in [buf : 0 .. HighWater, out : BOOLEAN, timer : BOOLEAN]
    PROVE  Add(w) \in [buf : 0 .. HighWater, out : BOOLEAN, timer : BOOLEAN]
<1>1. HighWater \in Nat /\ Batch \in Nat /\ w.buf \in Nat /\ w.buf <= HighWater
  BY SlotConstants
<1>2. CASE w.buf >= HighWater
  BY <1>2 DEF Add
<1>3. CASE w.buf < HighWater
  <2>1. w.buf + 1 \in 0 .. HighWater /\ 0 \in 0 .. HighWater
    BY <1>1, <1>3
  <2>2. \A n \in 0 .. HighWater :
          /\ [w EXCEPT !.buf = n] \in [buf : 0 .. HighWater, out : BOOLEAN, timer : BOOLEAN]
          /\ [w EXCEPT !.buf = n, !.timer = TRUE]
                \in [buf : 0 .. HighWater, out : BOOLEAN, timer : BOOLEAN]
    OBVIOUS
  <2> QED  BY <1>1, <1>3, <2>1, <2>2 DEF Add
<1> QED  BY <1>1, <1>2, <1>3

\* What a write to one slot object leaves of the table of objects.
LEMMA SlotWritten ==
    ASSUME slot \in [Monitor -> [Object -> SlotRecord]], NEW m \in Monitor,
           NEW o \in Object, NEW q \in SlotRecord,
           slot' = [slot EXCEPT ![m][o] = q]
    PROVE  /\ slot' \in [Monitor -> [Object -> SlotRecord]]
           /\ slot'[m][o] = q
           /\ \A n \in Monitor, p \in Object :
                 n # m \/ p # o => slot'[n][p] = slot[n][p]
OBVIOUS

\* Nobody takes off or lands: the count stands.
LEMMA SameFlights ==
    ASSUME Counted, perOrg' = perOrg,
           \A n \in Monitor, p \in Object : slot'[n][p].flight = slot[n][p].flight
    PROVE  Counted'
<1>1. Flying' = Flying
  BY DEF Flying
<1> QED  BY <1>1 DEF Counted

\* One probe takes off.
LEMMA TakeOff ==
    ASSUME Counted, NEW m \in Monitor, NEW o \in Object, ~ slot[m][o].flight,
           slot'[m][o].flight, perOrg \in Nat, perOrg < OrgCap, perOrg' = perOrg + 1,
           \A n \in Monitor, p \in Object :
               n # m \/ p # o => slot'[n][p] = slot[n][p]
    PROVE  Counted'
<1>1. Flying' = Flying \cup {<<m, o>>} /\ <<m, o>> \notin Flying
  BY DEF Flying
<1>2. IsFiniteSet(Flying') /\ Cardinality(Flying') = Cardinality(Flying) + 1
  BY <1>1, FS_AddElement DEF Counted
<1> QED  BY <1>2, SlotConstants DEF Counted

\* One probe lands.
LEMMA Landing ==
    ASSUME Counted, NEW m \in Monitor, NEW o \in Object, slot[m][o].flight,
           ~ slot'[m][o].flight, perOrg \in Nat, perOrg' = Bumped(perOrg, -1),
           \A n \in Monitor, p \in Object :
               n # m \/ p # o => slot'[n][p] = slot[n][p]
    PROVE  Counted' /\ perOrg' \in Nat
<1>1. Flying' = Flying \ {<<m, o>>} /\ <<m, o>> \in Flying
  BY DEF Flying
<1>2. IsFiniteSet(Flying') /\ Cardinality(Flying') = Cardinality(Flying) - 1
  BY <1>1, FS_RemoveElement DEF Counted
<1>3. perOrg # 0
  BY <1>1, FS_EmptySet DEF Counted
<1> QED  BY <1>2, <1>3, SlotConstants DEF Counted, Bumped

-----------------------------------------------------------------------------
\* The plane starts with no slot and no probe.
LEMMA SlotsInit == SlotInit => SlotInv
<1> SUFFICES ASSUME SlotInit PROVE SlotInv
  OBVIOUS
<1>1. \A m \in Monitor : NotYet \in SlotRecord
  <2>1. \A m \in Monitor : (CHOOSE k \in Target : TRUE) \in Target
    BY DEF SlotInit
  <2>2. PICK r : r = [key |-> CHOOSE k \in Target : TRUE, ff |-> 0]
    OBVIOUS
  <2>3. NotYet = NewSlot(r) /\ (Monitor # {} => r.key \in Target) /\ r.ff \in Nat
    BY <2>1, <2>2 DEF NotYet
  <2> QED  BY <2>3, NewSlotTyped
<1>2. ~ NotYet.flight
  BY DEF NotYet, NewSlot
<1>3. SlotTypeOK
  BY <1>1, SlotConstants DEF SlotInit, SlotTypeOK, Verdict
<1>4. ReloadTyped /\ run \in Nat
  BY DEF SlotInit, ReloadTyped, NoRows
<1>5. Flying = {}
  BY <1>2 DEF SlotInit, Flying
<1> QED  BY <1>3, <1>4, <1>5, FS_EmptySet, SlotConstants DEF SlotInit, SlotInv, Counted

-----------------------------------------------------------------------------
\* A reload gives a fresh object only to a monitor without one, and only an
\* object nothing flies with; a refreshed object keeps its flight.
LEMMA FillsInv ==
    ASSUME SlotInv, ReloadFills
    PROVE  SlotInv'
<1> DEFINE mine == IF holds THEN DOMAIN reload.rows ELSE {}
<1>1. PICK keep \in Kept(mine) :
      \E fresh \in [{m \in keep : table[m] = 0} -> Object] :
         /\ \A m \in DOMAIN fresh : Idle(m, fresh[m])
         /\ table' = [m \in Monitor |-> IF m \in DOMAIN fresh THEN fresh[m]
                                        ELSE IF m \in keep THEN table[m] ELSE 0]
         /\ slot' = [m \in Monitor |-> [o \in Object |->
                IF m \notin keep THEN slot[m][o]
                ELSE IF m \in DOMAIN fresh /\ fresh[m] = o THEN NewSlot(reload.rows[m])
                ELSE IF table[m] = o THEN Refreshed(slot[m][o], reload.rows[m])
                ELSE slot[m][o]]]
  BY DEF ReloadFills
<1>2. PICK fresh \in [{m \in keep : table[m] = 0} -> Object] :
         /\ \A m \in DOMAIN fresh : Idle(m, fresh[m])
         /\ table' = [m \in Monitor |-> IF m \in DOMAIN fresh THEN fresh[m]
                                        ELSE IF m \in keep THEN table[m] ELSE 0]
         /\ slot' = [m \in Monitor |-> [o \in Object |->
                IF m \notin keep THEN slot[m][o]
                ELSE IF m \in DOMAIN fresh /\ fresh[m] = o THEN NewSlot(reload.rows[m])
                ELSE IF table[m] = o THEN Refreshed(slot[m][o], reload.rows[m])
                ELSE slot[m][o]]]
  BY <1>1
<1>3. /\ \A m \in keep : m \in Monitor /\ reload.rows[m] \in ReadRow
      /\ \A m \in DOMAIN fresh : m \in Monitor /\ fresh[m] \in Object
      /\ slot \in [Monitor -> [Object -> SlotRecord]]
      /\ table \in [Monitor -> Object \cup {0}]
  BY DEF Kept, SlotInv, SlotTypeOK, ReloadTyped
<1>4. /\ reload' = [stage |-> "none", rows |-> NoRows]
      /\ UNCHANGED <<row, perOrg, perTarget, writer, run, asked, truth, holds>>
  BY DEF ReloadFills, world
<1> HIDE DEF mine
<1>5. \A m \in Monitor, o \in Object :
         slot'[m][o] \in SlotRecord /\ slot'[m][o].flight = slot[m][o].flight
  <2> SUFFICES ASSUME NEW m \in Monitor, NEW o \in Object
               PROVE  slot'[m][o] \in SlotRecord /\ slot'[m][o].flight = slot[m][o].flight
    OBVIOUS
  <2>1. slot[m][o] \in SlotRecord
    BY <1>3
  <2>2. slot'[m][o] =
                IF m \notin keep THEN slot[m][o]
                ELSE IF m \in DOMAIN fresh /\ fresh[m] = o THEN NewSlot(reload.rows[m])
                ELSE IF table[m] = o THEN Refreshed(slot[m][o], reload.rows[m])
                ELSE slot[m][o]
    BY <1>2
  <2>3. CASE m \in keep /\ m \in DOMAIN fresh /\ fresh[m] = o
    <3>1. reload.rows[m].key \in Target /\ reload.rows[m].ff \in Nat
      BY <1>3, <2>3 DEF ReadRow
    <3>2. NewSlot(reload.rows[m]) \in SlotRecord /\ ~ NewSlot(reload.rows[m]).flight
      BY <3>1, NewSlotTyped
    <3>3. slot[m][o].flight = FALSE
      BY <1>2, <2>1, <2>3 DEF Idle, SlotRecord
    <3>4. NewSlot(reload.rows[m]).flight = FALSE
      BY DEF NewSlot
    <3> QED  BY <2>2, <2>3, <3>2, <3>3, <3>4
  <2>4. CASE m \in keep /\ ~ (m \in DOMAIN fresh /\ fresh[m] = o)
    BY <1>3, <2>1, <2>2, <2>4, RefreshedTyped
  <2>5. CASE m \notin keep
    BY <2>1, <2>2, <2>5
  <2> QED  BY <2>3, <2>4, <2>5
<1>6. slot' \in [Monitor -> [Object -> SlotRecord]]
  <2>1. slot' = [m \in Monitor |-> [o \in Object |-> slot'[m][o]]]
    BY <1>2
  <2> QED  BY <1>5, <2>1
<1>7. table' \in [Monitor -> Object \cup {0}]
  BY <1>2, <1>3
<1>8. SlotTypeOK'
  BY <1>4, <1>6, <1>7 DEF SlotInv, SlotTypeOK
<1>9. ReloadTyped' /\ run' \in Nat
  BY <1>4 DEF SlotInv, ReloadTyped, NoRows
<1>10. Counted'
  BY <1>4, <1>5, SameFlights DEF SlotInv
<1> QED  BY <1>8, <1>9, <1>10 DEF SlotInv

\* A write to one slot object that keeps its flight, next to anything that is
\* no part of the count.
LEMMA GroundWrite ==
    ASSUME SlotInv, NEW m \in Monitor, NEW o \in Object, NEW q \in SlotRecord,
           q.flight = slot[m][o].flight, slot' = [slot EXCEPT ![m][o] = q],
           perOrg' = perOrg
    PROVE  Counted' /\ slot' \in [Monitor -> [Object -> SlotRecord]]
<1>1. /\ slot' \in [Monitor -> [Object -> SlotRecord]]
      /\ slot'[m][o] = q
      /\ \A n \in Monitor, p \in Object : n # m \/ p # o => slot'[n][p] = slot[n][p]
  BY SlotWritten DEF SlotInv, SlotTypeOK
<1> QED  BY <1>1, SameFlights DEF SlotInv

\* Deadlines, refusals and ripening write flags.
LEMMA FlagsInv ==
    ASSUME SlotInv, NEW m \in Monitor,
           \/ ComesDue(m) \/ TickSkips(m)
           \/ \E o \in Object : Ripens(m, o) \/ PromoteFails(m, o)
    PROVE  SlotInv'
<1>1. PICK o \in Object, q \in SlotRecord :
        slot' = [slot EXCEPT ![m][o] = q] /\ q.flight = slot[m][o].flight
  <2>1. \A o \in Object : slot[m][o] \in SlotRecord
    BY DEF SlotInv, SlotTypeOK
  <2>2. \A s \in SlotRecord : \A b \in BOOLEAN :
          /\ [s EXCEPT !.due = b] \in SlotRecord /\ [s EXCEPT !.due = b].flight = s.flight
          /\ [s EXCEPT !.ripe = b] \in SlotRecord /\ [s EXCEPT !.ripe = b].flight = s.flight
          /\ [s EXCEPT !.carry = "none"] \in SlotRecord
          /\ [s EXCEPT !.carry = "none"].flight = s.flight
    BY DEF SlotRecord
  <2>3. table[m] # 0 => table[m] \in Object
    BY DEF SlotInv, SlotTypeOK
  <2>4. CASE ComesDue(m)
    <3>1. PICK o \in Object : o = table[m]
      BY <2>3, <2>4 DEF ComesDue
    <3>2. slot' = [slot EXCEPT ![m][o] = [slot[m][o] EXCEPT !.due = TRUE]]
      BY <2>4, <3>1 DEF ComesDue
    <3>3. /\ [slot[m][o] EXCEPT !.due = TRUE] \in SlotRecord
          /\ [slot[m][o] EXCEPT !.due = TRUE].flight = slot[m][o].flight
      BY <2>1, <2>2
    <3> QED  BY <3>2, <3>3, Zenon
  <2>5. CASE TickSkips(m)
    <3>1. PICK o \in Object : o = table[m]
      BY <2>3, <2>5 DEF TickSkips
    <3>2. slot' = [slot EXCEPT ![m][o] = [slot[m][o] EXCEPT !.due = FALSE]]
      BY <2>5, <3>1 DEF TickSkips
    <3>3. /\ [slot[m][o] EXCEPT !.due = FALSE] \in SlotRecord
          /\ [slot[m][o] EXCEPT !.due = FALSE].flight = slot[m][o].flight
      BY <2>1, <2>2
    <3> QED  BY <3>2, <3>3, Zenon
  <2>6. ASSUME NEW o \in Object, Ripens(m, o) \/ PromoteFails(m, o)
        PROVE  \E q \in SlotRecord :
                  slot' = [slot EXCEPT ![m][o] = q] /\ q.flight = slot[m][o].flight
    <3>1. CASE Ripens(m, o)
      <4>1. slot' = [slot EXCEPT ![m][o] = [slot[m][o] EXCEPT !.ripe = TRUE]]
        BY <3>1 DEF Ripens
      <4> QED  BY <2>1, <2>2, <4>1
    <3>2. CASE PromoteFails(m, o)
      <4>1. slot' = [slot EXCEPT ![m][o] = [slot[m][o] EXCEPT !.carry = "none"]]
        BY <3>2 DEF PromoteFails
      <4> QED  BY <2>1, <2>2, <4>1
    <3> QED  BY <2>6, <3>1, <3>2
  <2> QED  BY <2>4, <2>5, <2>6
<1>2. UNCHANGED <<row, asked, truth, holds, reload, table, perOrg, perTarget, writer, run>>
  BY DEF ComesDue, TickSkips, Ripens, PromoteFails, world
<1>3. Counted' /\ slot' \in [Monitor -> [Object -> SlotRecord]]
  BY <1>1, <1>2, GroundWrite
<1> QED  BY <1>2, <1>3 DEF SlotInv, SlotTypeOK, ReloadTyped

\* A probe leaves only with room in the organization, and is counted.
LEMMA ProbesInv ==
    ASSUME SlotInv, NEW m \in Monitor, TickProbes(m)
    PROVE  SlotInv'
<1>1. PICK o \in Object : o = table[m]
  BY DEF SlotInv, SlotTypeOK, TickProbes
<1>2. /\ slot[m][o] \in SlotRecord /\ ~ slot[m][o].flight
      /\ slot' = [slot EXCEPT ![m][o] = [slot[m][o] EXCEPT !.due = FALSE, !.flight = TRUE]]
      /\ perOrg < OrgCap /\ perOrg' = perOrg + 1 /\ perOrg \in Nat
      /\ perTarget' = [perTarget EXCEPT ![slot[m][o].key] = Bumped(perTarget[slot[m][o].key], 1)]
      /\ UNCHANGED <<row, asked, truth, holds, reload, table, writer, run>>
  BY <1>1 DEF SlotInv, SlotTypeOK, TickProbes, Free, world
<1>3. PICK q : q = [slot[m][o] EXCEPT !.due = FALSE, !.flight = TRUE]
  OBVIOUS
<1>4. /\ q \in SlotRecord /\ q.flight /\ slot' = [slot EXCEPT ![m][o] = q]
      /\ slot \in [Monitor -> [Object -> SlotRecord]]
  BY <1>2, <1>3 DEF SlotRecord, SlotInv, SlotTypeOK
<1>5. /\ slot' \in [Monitor -> [Object -> SlotRecord]]
      /\ slot'[m][o] = q
      /\ \A n \in Monitor, p \in Object : n # m \/ p # o => slot'[n][p] = slot[n][p]
  BY <1>4, SlotWritten
<1>6. Counted'
  BY <1>2, <1>4, <1>5, TakeOff DEF SlotInv
<1>7. perTarget' \in [Target -> Nat]
  BY <1>2 DEF Bumped, SlotInv, SlotTypeOK, SlotRecord
<1> QED  BY <1>2, <1>5, <1>6, <1>7 DEF SlotInv, SlotTypeOK, ReloadTyped

\* A probe that lands is taken off the count, also when the table has long
\* forgotten its slot.
LEMMA LandsInv ==
    ASSUME SlotInv, NEW m \in Monitor, NEW o \in Object, ProbeLands(m, o)
    PROVE  SlotInv'
<1>1. PICK s, v : s = slot[m][o] /\ v = truth[m]
  OBVIOUS
<1>2. /\ s \in SlotRecord /\ s.flight /\ v \in Verdict
      /\ slot' = [slot EXCEPT ![m][o] =
                  [s EXCEPT !.flight = FALSE,
                            !.carry = IF ShouldPromote(s, v) THEN v ELSE s.carry]]
      /\ perOrg' = Bumped(perOrg, -1) /\ perOrg \in Nat
      /\ perTarget' = [perTarget EXCEPT ![s.key] = Bumped(perTarget[s.key], -1)]
      /\ writer' = Add(writer)
      /\ UNCHANGED <<row, asked, truth, holds, reload, table, run>>
  BY <1>1 DEF SlotInv, SlotTypeOK, ProbeLands, world
<1>3. PICK q : q = [s EXCEPT !.flight = FALSE,
                             !.carry = IF ShouldPromote(s, v) THEN v ELSE s.carry]
  OBVIOUS
<1>4. q \in SlotRecord /\ ~ q.flight
  BY <1>2, <1>3 DEF SlotRecord
<1>5. /\ slot' \in [Monitor -> [Object -> SlotRecord]]
      /\ slot'[m][o] = q
      /\ \A n \in Monitor, p \in Object : n # m \/ p # o => slot'[n][p] = slot[n][p]
  BY <1>2, <1>3, <1>4, SlotWritten DEF SlotInv, SlotTypeOK
<1>6. Counted' /\ perOrg' \in Nat
  BY <1>1, <1>2, <1>4, <1>5, Landing DEF SlotInv
<1>7. perTarget' \in [Target -> Nat]
  BY <1>2 DEF Bumped, SlotInv, SlotTypeOK, SlotRecord
<1>8. writer' \in [buf : 0 .. HighWater, out : BOOLEAN, timer : BOOLEAN]
  BY <1>2, AddTyped DEF SlotInv, SlotTypeOK
<1> QED  BY <1>2, <1>5, <1>6, <1>7, <1>8 DEF SlotInv, SlotTypeOK, ReloadTyped

\* A promotion writes the row and the object it was begun with.
LEMMA PromoteInv ==
    ASSUME SlotInv, NEW m \in Monitor, NEW o \in Object, Promote(m, o)
    PROVE  SlotInv'
<1> DEFINE MonitorRow == [fast : BOOLEAN, key : Target, ff : Nat]
<1>1. PICK s, r : s = slot[m][o] /\ r = Recorded(row[m], s.seen, s.carry)
  OBVIOUS
<1>2. /\ s \in SlotRecord /\ s.carry # "none" /\ row \in [Monitor -> MonitorRow] /\ run \in Nat
      /\ row' = [row EXCEPT ![m] = r]
      /\ run' = IF row'[m].ff > run THEN row'[m].ff ELSE run
      /\ slot' = [slot EXCEPT ![m][o] =
                  [s EXCEPT !.seen = row'[m].ff, !.last = s.carry,
                            !.carry = "none", !.ripe = FALSE]]
      /\ UNCHANGED <<asked, truth, holds, reload, table, perOrg, perTarget, writer>>
  BY <1>1 DEF SlotInv, SlotTypeOK, Promote, world
<1>3. r \in MonitorRow
  <2>1. row[m] \in MonitorRow
    BY <1>2
  <2>2. \A n \in Nat : [row[m] EXCEPT !.ff = n] \in MonitorRow
    BY <2>1
  <2>3. (IF s.carry = "up" THEN 0 ELSE IF row[m].ff = 0 THEN run + 1 ELSE row[m].ff) \in Nat
    BY <1>2, <2>1
  <2> QED  BY <1>1, <2>1, <2>2, <2>3 DEF Recorded
<1>4. row' \in [Monitor -> MonitorRow] /\ row'[m] = r /\ r.ff \in Nat /\ run' \in Nat
  BY <1>2, <1>3
<1>5. PICK q : q = [s EXCEPT !.seen = r.ff, !.last = s.carry,
                             !.carry = "none", !.ripe = FALSE]
  OBVIOUS
<1>6. q \in SlotRecord /\ q.flight = s.flight
  BY <1>2, <1>4, <1>5 DEF SlotRecord
<1>7. Counted' /\ slot' \in [Monitor -> [Object -> SlotRecord]]
  BY <1>1, <1>2, <1>4, <1>5, <1>6, GroundWrite
<1> QED  BY <1>2, <1>4, <1>7 DEF SlotInv, SlotTypeOK, ReloadTyped

\* What leaves the slots alone leaves the count alone.
LEMMA ElsewhereInv ==
    ASSUME SlotInv, slot' = slot, table' = table, perOrg' = perOrg, perTarget' = perTarget,
           run' = run, row' \in [Monitor -> [fast : BOOLEAN, key : Target, ff : Nat]],
           asked' \subseteq Monitor, truth' \in [Monitor -> Verdict], holds' \in BOOLEAN,
           reload' = reload \/ (ReloadTyped' /\ reload'.stage \in {"none", "read"}),
           writer' \in [buf : 0 .. HighWater, out : BOOLEAN, timer : BOOLEAN]
    PROVE  SlotInv'
<1>1. Counted'
  BY SameFlights DEF SlotInv
<1>2. ReloadTyped' /\ reload'.stage \in {"none", "read"}
  BY DEF SlotInv, SlotTypeOK, ReloadTyped
<1> QED  BY <1>1, <1>2 DEF SlotInv, SlotTypeOK

\* Every step keeps the invariant.
LEMMA SlotsNext == SlotInv /\ [SlotNext]_slotVars => SlotInv'
<1> SUFFICES ASSUME SlotInv, [SlotNext]_slotVars PROVE SlotInv'
  OBVIOUS
<1>0. /\ row \in [Monitor -> [fast : BOOLEAN, key : Target, ff : Nat]]
      /\ asked \subseteq Monitor /\ truth \in [Monitor -> Verdict] /\ holds \in BOOLEAN
      /\ writer \in [buf : 0 .. HighWater, out : BOOLEAN, timer : BOOLEAN]
  BY DEF SlotInv, SlotTypeOK
<1>1. CASE World
  <2>1. \A m \in Monitor : (CHOOSE v \in Verdict : v # truth[m]) \in Verdict
    BY <1>0 DEF Verdict
  <2>2. truth' \in [Monitor -> Verdict] /\ holds' \in BOOLEAN
    BY <1>0, <1>1, <2>1 DEF World
  <2> QED  BY <1>0, <1>1, <2>2, ElsewhereInv DEF World, plane
<1>2. CASE ReloadReads
  <2>1. ReloadTyped' /\ reload'.stage \in {"none", "read"}
    <3>1. /\ reload'.stage = "read"
          /\ reload'.rows = [m \in {n \in Monitor : row[n].fast} |-> [key |-> row[m].key, ff |-> row[m].ff]]
      BY <1>2 DEF ReloadReads
    <3>2. \A m \in Monitor : [key |-> row[m].key, ff |-> row[m].ff] \in ReadRow
      BY <1>0 DEF ReadRow
    <3> QED  BY <3>1, <3>2 DEF ReloadTyped
  <2> QED  BY <1>0, <1>2, <2>1, ElsewhereInv DEF ReloadReads, world
<1>3. CASE ReloadFills
  BY <1>3, FillsInv
<1>4. CASE ReloadFails
  <2>1. ReloadTyped' /\ reload'.stage \in {"none", "read"}
    BY <1>4 DEF ReloadFails, ReloadTyped, NoRows
  <2> QED  BY <1>0, <1>4, <2>1, ElsewhereInv DEF ReloadFails
<1>5. CASE FlushTimer \/ WriteEnds
  <2>1. writer' \in [buf : 0 .. HighWater, out : BOOLEAN, timer : BOOLEAN]
    <3>1. 0 \in 0 .. HighWater
      BY SlotConstants
    <3>2. CASE FlushTimer
      BY <1>0, <3>1, <3>2 DEF FlushTimer
    <3>3. CASE WriteEnds
      BY <1>0, <3>3 DEF WriteEnds
    <3> QED  BY <1>5, <3>2, <3>3
  <2> QED  BY <1>0, <1>5, <2>1, ElsewhereInv DEF FlushTimer, WriteEnds, world
<1>6. ASSUME NEW m \in Monitor, EnableAsks(m) \/ EnableWrites(m) \/ Changed(m)
      PROVE  SlotInv'
  <2>1. row' \in [Monitor -> [fast : BOOLEAN, key : Target, ff : Nat]] /\ asked' \subseteq Monitor
    <3>1. CASE EnableAsks(m)
      BY <1>0, <3>1 DEF EnableAsks
    <3>2. CASE EnableWrites(m)
      BY <1>0, <3>2 DEF EnableWrites
    <3>3. CASE Changed(m)
      <4>1. asked' = asked /\ (\/ row' = [row EXCEPT ![m].fast = FALSE]
                               \/ \E k \in Target : row' = [row EXCEPT ![m].key = k])
        BY <3>3 DEF Changed
      <4>2. CASE row' = [row EXCEPT ![m].fast = FALSE]
        BY <1>0, <4>1, <4>2
      <4>3. ASSUME NEW k \in Target, row' = [row EXCEPT ![m].key = k]
            PROVE  row' \in [Monitor -> [fast : BOOLEAN, key : Target, ff : Nat]]
        BY <1>0, <4>3
      <4> QED  BY <1>0, <4>1, <4>2, <4>3
    <3> QED  BY <1>6, <3>1, <3>2, <3>3
  <2> QED  BY <1>0, <1>6, <2>1, ElsewhereInv DEF EnableAsks, EnableWrites, Changed, plane
<1>7. ASSUME NEW m \in Monitor, TickProbes(m) PROVE SlotInv'
  BY <1>7, ProbesInv
<1>8. ASSUME NEW m \in Monitor, NEW o \in Object, ProbeLands(m, o) PROVE SlotInv'
  BY <1>8, LandsInv
<1>9. ASSUME NEW m \in Monitor, NEW o \in Object, Promote(m, o) PROVE SlotInv'
  BY <1>9, PromoteInv
<1>10. ASSUME NEW m \in Monitor,
              \/ ComesDue(m) \/ TickSkips(m)
              \/ \E o \in Object : Ripens(m, o) \/ PromoteFails(m, o)
       PROVE SlotInv'
  BY <1>10, FlagsInv
<1>11. CASE UNCHANGED slotVars
  BY <1>0, <1>11, ElsewhereInv DEF slotVars
<1> QED
  BY <1>1, <1>2, <1>3, <1>4, <1>5, <1>6, <1>7, <1>8, <1>9, <1>10, <1>11 DEF SlotNext

-----------------------------------------------------------------------------
\* The inductive invariant holds throughout.
THEOREM SlotInvariant == SlotSpec => []SlotInv
BY SlotsInit, SlotsNext, PTL DEF SlotSpec

\* inFlightPerOrg is the number of probes in flight and never passes
\* HF_MAX_INFLIGHT_PER_ORG, whatever reloads did to the slots they flew from.
THEOREM OrgSafe == SlotSpec => []OrgFair
<1>1. SlotInv => OrgFair
  BY DEF SlotInv, Counted, OrgFair
<1> QED  BY <1>1, SlotInvariant, PTL
=============================================================================
