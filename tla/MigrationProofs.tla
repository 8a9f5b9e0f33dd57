-------------------------- MODULE MigrationProofs ---------------------------
(***************************************************************************)
(* The migration bridge's evidence, for any number of polls at once, any   *)
(* number of incidents, any overlap and any clock: an hour that counts as  *)
(* covered was, a copy that was seen resolved stays so, and as long as one *)
(* poll can refetch what is stale no verdict is safe that the covered      *)
(* hours do not support.                                                   *)
(*                                                                         *)
(* Imports, for any number of them side by side, any fleet and any         *)
(* listing: rows keep their provenance, are reported, are inside a group   *)
(* that is there, and are in shadow exactly as long as the bridge says.    *)
(*                                                                         *)
(* Imports of a Kuma database, for any number of them side by side and any *)
(* database: the report is true of the tables, and when Kuma's groups form *)
(* a forest the monitors arrive as the same forest.                        *)
(*                                                                         *)
(* What a check or a Kuma row becomes, however much it states: nothing of  *)
(* it disappears quietly.                                                  *)
(***************************************************************************)
EXTENDS Kuma, Evidence, FiniteSetTheorems, WellFoundedInduction, SequenceTheorems, TLAPS

-----------------------------------------------------------------------------
(* Evidence *)

SourceRow == [start : Int, end : Int, parses : BOOLEAN, gone : BOOLEAN]

CopyRow == [copied : BOOLEAN, end : Int, seen : Int]

Window == [from : Int, to : Nat]

Found == [id : Incident, end : Int]

PollRecord ==
    [stage : {"idle", "open", "window", "upsert", "refetch"}, from : Int, to : Nat,
     skipped : BOOLEAN, todo : SUBSET Found, seen : SUBSET Incident, stale : SUBSET Incident]

ETypeOK ==
    /\ hour \in Nat
    /\ source \in [Incident -> SourceRow]
    /\ copies \in [Incident -> CopyRow]
    /\ windows \subseteq Window
    /\ pollers \in [Poller -> PollRecord]

\* No poll is of a time to come.
Past ==
    /\ \A w \in windows : w.to <= hour
    /\ \A p \in Poller : pollers[p].to <= hour

\* An end that was read, or copied, is the end the source gave.
EndsTrue ==
    /\ \A i \in Incident : copies[i].end # NotYet => copies[i].end = source[i].end
    /\ \A p \in Poller : \A r \in pollers[p].todo :
          r.end # NotYet => r.end = source[r.id].end

\* The incidents a poll of this window must have found, if the source still has them.
Owed(i, from, to) ==
    Started(i) /\ source[i].start >= from /\ source[i].start < to /\ ~ source[i].gone

\* Half way through a poll: what its window owes is copied or about to be,
\* unless the poll had to leave rows out and will not count.
PollOwes ==
    \A p \in Poller : \A i \in Incident :
        Owed(i, pollers[p].from, pollers[p].to) /\ ~ pollers[p].skipped =>
            /\ pollers[p].stage = "upsert" =>
                   copies[i].copied \/ \E r \in pollers[p].todo : r.id = i
            /\ pollers[p].stage = "refetch" => copies[i].copied

\* The inductive invariant.
BridgeInv == ETypeOK /\ Past /\ EndsTrue /\ PollOwes /\ CoverageHonest

-----------------------------------------------------------------------------
\* Any set of naturals that is not empty has a least element.
LEMMA LeastElement ==
    ASSUME NEW T, T \subseteq Nat, T # {}
    PROVE  \E x \in T : \A y \in T : x <= y
<1>1. IsWellFoundedOn({ss \in Nat \X Nat : ss[1] < ss[2]}, Nat)
  BY NatLessThanWellFounded DEF OpToRel
<1>2. PICK R : R = {ss \in Nat \X Nat : ss[1] < ss[2]}
  OBVIOUS
<1>3. PICK x \in T : \A y \in T : ~ (<<y, x>> \in R)
  BY <1>1, <1>2, WFMin
<1>4. \A y \in T : ~ (y < x)
  BY <1>2, <1>3
<1> QED  BY <1>4

\* There is a last good poll, if there is one.
LEMMA LastPoll ==
    ASSUME hour \in Nat, windows \subseteq Window, \A w \in windows : w.to <= hour, windows # {}
    PROVE  \E v \in windows : PollFrom = v.to - Overlap
<1>1. PICK T : T = {hour - w.to : w \in windows}
  OBVIOUS
<1>2. T \subseteq Nat /\ T # {}
  BY <1>1 DEF Window
<1>3. PICK x \in T : \A y \in T : x <= y
  BY <1>2, LeastElement
<1>4. PICK v \in windows : x = hour - v.to
  BY <1>1
<1>5. \A w \in windows : v.to >= w.to
  <2> SUFFICES ASSUME NEW w \in windows PROVE v.to >= w.to
    OBVIOUS
  <2>1. x <= hour - w.to
    BY <1>1, <1>3
  <2>2. v.to \in Nat /\ w.to \in Nat
    BY DEF Window
  <2> QED  BY <1>4, <2>1, <2>2
<1>6. PICK S : S = {w.to : w \in windows}
  OBVIOUS
<1>7. v.to \in S /\ S \subseteq Nat /\ \A y \in S : v.to >= y
  BY <1>5, <1>6 DEF Window
<1>8. Max(S) \in S
  BY <1>7 DEF Max
<1> QED  BY <1>6, <1>8 DEF PollFrom

\* And so a time to read from.
LEMMA PollFromTyped ==
    ASSUME hour \in Nat, windows \subseteq Window, \A w \in windows : w.to <= hour
    PROVE  PollFrom \in Int
<1>1. CASE windows = {}
  BY <1>1, EvidenceConstants DEF PollFrom, CreatedAt
<1>2. CASE windows # {}
  BY <1>2, LastPoll, EvidenceConstants DEF Window
<1> QED  BY <1>1, <1>2

\* A step of the source or of the clock: no incident joins a window that is past.
LEMMA SourceInv ==
    ASSUME BridgeInv, hour' \in Nat, hour' >= hour, source' \in [Incident -> SourceRow],
           \A i \in Incident :
              /\ source[i].end # NotYet => source'[i].end = source[i].end
              /\ source[i].gone => source'[i].gone
              /\ source'[i].start = source[i].start \/ source'[i].start >= hour,
           UNCHANGED <<copies, windows, pollers>>
    PROVE  BridgeInv'
<1>1. ETypeOK'
  BY DEF BridgeInv, ETypeOK
<1>2. Past'
  <2>1. \A w \in windows : w.to \in Nat
    BY DEF BridgeInv, ETypeOK, Window
  <2>2. \A p \in Poller : pollers[p].to \in Nat
    BY DEF BridgeInv, ETypeOK, PollRecord
  <2> QED  BY <2>1, <2>2 DEF BridgeInv, ETypeOK, Past
<1>3. EndsTrue'
  <2>1. \A p \in Poller : \A r \in pollers[p].todo : r.id \in Incident
    BY DEF BridgeInv, ETypeOK, PollRecord, Found
  <2> QED  BY <2>1 DEF BridgeInv, EndsTrue
<1>4. ASSUME NEW i \in Incident, NEW from, NEW to \in Nat, to <= hour, Owed(i, from, to)'
      PROVE  Owed(i, from, to)
  <2>1. source'[i].start \in Int /\ source[i].gone \in BOOLEAN /\ hour \in Nat
    BY DEF BridgeInv, ETypeOK, SourceRow
  <2>2. source'[i].start < to /\ source'[i].start >= from /\ ~ source'[i].gone
        /\ source'[i].start # NotYet
    BY <1>4 DEF Owed, Started
  <2>3. source'[i].start = source[i].start
    BY <1>4, <2>1, <2>2
  <2> QED  BY <2>2, <2>3 DEF Owed, Started
<1>5. PollOwes'
  <2> SUFFICES ASSUME NEW p \in Poller, NEW i \in Incident,
                      Owed(i, pollers[p].from, pollers[p].to)', ~ pollers[p].skipped
               PROVE  /\ pollers[p].stage = "upsert" =>
                           copies[i].copied \/ \E r \in pollers[p].todo : r.id = i
                      /\ pollers[p].stage = "refetch" => copies[i].copied
    BY DEF PollOwes
  <2>1. PICK f \in Int, t \in Nat : f = pollers[p].from /\ t = pollers[p].to
    BY DEF BridgeInv, ETypeOK, PollRecord
  <2>2. Owed(i, f, t)' /\ t <= hour
    BY <2>1 DEF BridgeInv, Past, Owed, Started
  <2>3. Owed(i, pollers[p].from, pollers[p].to)
    BY <1>4, <2>1, <2>2
  <2> QED  BY <2>3 DEF BridgeInv, PollOwes
<1>6. CoverageHonest'
  <2> SUFFICES ASSUME NEW w \in windows, NEW i \in Incident,
                      (Owed(i, w.from, w.to))'
               PROVE  copies[i].copied
    BY DEF CoverageHonest, Owed
  <2>1. w.to \in Nat /\ w.to <= hour
    BY DEF BridgeInv, ETypeOK, Window, Past
  <2>2. Owed(i, w.from, w.to)
    BY <1>4, <2>1
  <2> QED  BY <2>2 DEF BridgeInv, CoverageHonest, Owed
<1> QED  BY <1>1, <1>2, <1>3, <1>5, <1>6 DEF BridgeInv

\* A step of one poll that writes no copy and records no window.
LEMMA PollMoves ==
    ASSUME BridgeInv, NEW p \in Poller, NEW q \in PollRecord, q.to <= hour,
           pollers' = [pollers EXCEPT ![p] = q],
           \A r \in q.todo : r.end # NotYet => r.end = source[r.id].end,
           \A i \in Incident : Owed(i, q.from, q.to) /\ ~ q.skipped =>
              /\ q.stage = "upsert" => copies[i].copied \/ \E r \in q.todo : r.id = i
              /\ q.stage = "refetch" => copies[i].copied,
           UNCHANGED <<hour, source, copies, windows>>
    PROVE  BridgeInv'
<1>1. /\ pollers' \in [Poller -> PollRecord]
      /\ \A k \in Poller : pollers'[k] = IF k = p THEN q ELSE pollers[k]
  BY DEF BridgeInv, ETypeOK
<1>2. ETypeOK' /\ Past' /\ EndsTrue'
  BY <1>1 DEF BridgeInv, ETypeOK, Past, EndsTrue
<1>3. PollOwes'
  <2> SUFFICES ASSUME NEW k \in Poller, NEW i \in Incident,
                      Owed(i, pollers'[k].from, pollers'[k].to), ~ pollers'[k].skipped
               PROVE  /\ pollers'[k].stage = "upsert" =>
                           copies[i].copied \/ \E r \in pollers'[k].todo : r.id = i
                      /\ pollers'[k].stage = "refetch" => copies[i].copied
    BY DEF PollOwes, Owed, Started
  <2> QED  BY <1>1 DEF BridgeInv, PollOwes
<1>4. CoverageHonest'
  BY DEF BridgeInv, CoverageHonest, Started
<1> QED  BY <1>2, <1>3, <1>4 DEF BridgeInv

\* A poll at rest owes nothing.
LEMMA RestingOwes ==
    Resting \in PollRecord /\ Resting.to = 0 /\ Resting.todo = {} /\ Resting.stage = "idle"
BY DEF Resting, PollRecord

\* toIncident keeps the end it was given.
LEMMA ParsedTrue ==
    ASSUME BridgeInv, NEW ids \in SUBSET Incident
    PROVE  /\ Parsed(ids) \subseteq Found
           /\ \A r \in Parsed(ids) : r.end = source[r.id].end
           /\ \A i \in ids : source[i].parses => \E r \in Parsed(ids) : r.id = i
<1>1. \A i \in ids : source[i].end \in Int
  BY DEF BridgeInv, ETypeOK, SourceRow
<1>2. Parsed(ids) \subseteq Found /\ \A r \in Parsed(ids) : r.end = source[r.id].end
  BY <1>1 DEF Parsed, Found
<1>3. ASSUME NEW i \in ids, source[i].parses PROVE \E r \in Parsed(ids) : r.id = i
  <2>1. [id |-> i, end |-> source[i].end] \in Parsed(ids)
    BY <1>3 DEF Parsed
  <2> QED  BY <2>1
<1> QED  BY <1>2, <1>3

\* The reads of a poll, and its end.
LEMMA ReadsInv ==
    ASSUME BridgeInv, NEW p \in Poller,
           \/ PollBegins(p) \/ ReadOpenIncidents(p) \/ ReadIncidentsWindow(p) \/ FindStale(p)
           \/ ReadIncidentById(p) \/ PollFails(p) \/ PollLost(p)
    PROVE  BridgeInv'
<1>1. PICK self \in PollRecord : self = pollers[p] /\ self.to <= hour
  BY DEF BridgeInv, ETypeOK, Past
<1>2. \A r \in self.todo : r.end # NotYet => r.end = source[r.id].end
  BY <1>1 DEF BridgeInv, EndsTrue
<1>3. hour \in Nat
  BY DEF BridgeInv, ETypeOK
<1>4. CASE PollBegins(p)
  <2>1. PICK from \in Int : from = PollFrom
    BY PollFromTyped DEF BridgeInv, ETypeOK, Past
  <2>2. PICK q : q = [Resting EXCEPT !.stage = "open", !.from = from, !.to = hour]
    OBVIOUS
  <2>3. q \in PollRecord /\ q.stage = "open" /\ q.to = hour /\ q.todo = {}
    BY <1>3, <2>2, RestingOwes DEF PollRecord
  <2>4. pollers' = [pollers EXCEPT ![p] = q] /\ UNCHANGED <<hour, source, copies, windows>>
    BY <1>4, <2>1, <2>2 DEF PollBegins
  <2>5. q.to <= hour
    BY <1>3, <2>3
  <2> QED  BY <2>3, <2>4, <2>5, PollMoves
<1>5. CASE ReadOpenIncidents(p)
  <2>1. PICK open \in SUBSET Incident :
          pollers' = [pollers EXCEPT ![p] = [self EXCEPT !.stage = "window", !.todo = Parsed(open),
                         !.skipped = \E i \in open : ~ source[i].parses]]
    BY <1>1, <1>5 DEF ReadOpenIncidents
  <2>2. PICK b \in BOOLEAN : b = \E i \in open : ~ source[i].parses
    OBVIOUS
  <2>3. PICK todo \in SUBSET Found : todo = Parsed(open)
    BY ParsedTrue
  <2>4. PICK q : q = [self EXCEPT !.stage = "window", !.todo = todo, !.skipped = b]
    OBVIOUS
  <2>5. q \in PollRecord /\ q.stage = "window" /\ q.to = self.to /\ q.todo = todo
    BY <2>4 DEF PollRecord
  <2>6. pollers' = [pollers EXCEPT ![p] = q] /\ UNCHANGED <<hour, source, copies, windows>>
    BY <1>5, <2>1, <2>2, <2>3, <2>4 DEF ReadOpenIncidents
  <2>7. \A r \in q.todo : r.end # NotYet => r.end = source[r.id].end
    BY <2>3, <2>5, ParsedTrue
  <2> QED  BY <1>1, <2>5, <2>6, <2>7, PollMoves
<1>6. CASE ReadIncidentsWindow(p)
  <2>1. PICK listed \in SUBSET Incident :
          listed = {i \in Incident : Started(i) /\ source[i].start >= self.from /\ ~ source[i].gone}
    OBVIOUS
  <2>2. PICK fresh : fresh = {r \in Parsed(listed) : \A o \in self.todo : o.id # r.id}
    OBVIOUS
  <2>3. PICK todo : todo = self.todo \cup fresh
    OBVIOUS
  <2>4. PICK seen : seen = {r.id : r \in todo}
    OBVIOUS
  <2>5. PICK b : b = (self.skipped \/ \E i \in listed : ~ source[i].parses)
    OBVIOUS
  <2>6. self.todo \subseteq Found /\ self.skipped \in BOOLEAN /\ Parsed(listed) \subseteq Found
    BY ParsedTrue DEF PollRecord
  <2>7. todo \in SUBSET Found /\ seen \in SUBSET Incident /\ b \in BOOLEAN
    BY <2>2, <2>3, <2>4, <2>5, <2>6 DEF Found
  <2>8. PICK q : q = [self EXCEPT !.stage = "upsert", !.todo = todo, !.seen = seen, !.skipped = b]
    OBVIOUS
  <2>9. /\ q \in PollRecord /\ q.stage = "upsert" /\ q.to = self.to /\ q.from = self.from
        /\ q.todo = todo /\ q.skipped = b
    BY <2>7, <2>8 DEF PollRecord
  <2>10. pollers' = [pollers EXCEPT ![p] = q] /\ UNCHANGED <<hour, source, copies, windows>>
    BY <1>1, <1>6, <2>1, <2>2, <2>3, <2>4, <2>5, <2>8 DEF ReadIncidentsWindow
  <2>11. \A r \in q.todo : r.end # NotYet => r.end = source[r.id].end
    BY <1>2, <2>2, <2>3, <2>9, ParsedTrue
  <2>12. ASSUME NEW i \in Incident, Owed(i, q.from, q.to), ~ q.skipped
         PROVE  \E r \in q.todo : r.id = i
    <3>1. i \in listed
      BY <2>1, <2>9, <2>12 DEF Owed
    <3>2. source[i].parses
      BY <2>5, <2>9, <2>12, <3>1
    <3>3. PICK r \in Parsed(listed) : r.id = i
      BY <3>1, <3>2, ParsedTrue
    <3>4. CASE \E o \in self.todo : o.id = i
      BY <2>3, <2>9, <3>4
    <3>5. CASE \A o \in self.todo : o.id # i
      BY <2>2, <2>3, <2>9, <3>3, <3>5
    <3> QED  BY <3>4, <3>5
  <2> QED  BY <1>1, <2>9, <2>10, <2>11, <2>12, PollMoves
<1>7. CASE FindStale(p)
  <2>1. PICK some \in SUBSET Incident :
          pollers' = [pollers EXCEPT ![p] = [self EXCEPT !.stage = "refetch", !.stale = some]]
    BY <1>1, <1>7 DEF FindStale
  <2>2. PICK q : q = [self EXCEPT !.stage = "refetch", !.stale = some]
    OBVIOUS
  <2>3. /\ q \in PollRecord /\ q.stage = "refetch" /\ q.to = self.to /\ q.from = self.from
        /\ q.todo = self.todo /\ q.skipped = self.skipped
    BY <2>2 DEF PollRecord
  <2>4. /\ pollers' = [pollers EXCEPT ![p] = q] /\ UNCHANGED <<hour, source, copies, windows>>
        /\ self.stage = "upsert" /\ self.todo = {}
    BY <1>1, <1>7, <2>1, <2>2 DEF FindStale
  <2>5. \A i \in Incident : Owed(i, q.from, q.to) /\ ~ q.skipped => copies[i].copied
    BY <1>1, <2>3, <2>4 DEF BridgeInv, PollOwes
  <2> QED  BY <1>1, <2>3, <2>4, <2>5, PollMoves
<1>8. CASE ReadIncidentById(p)
  <2>1. PICK i \in self.stale :
          pollers' = [pollers EXCEPT ![p] = [self EXCEPT !.stale = self.stale \ {i},
                         !.todo = IF source[i].gone THEN {} ELSE Parsed({i})]]
    BY <1>1, <1>8 DEF ReadIncidentById
  <2>2. {i} \in SUBSET Incident /\ self.stale \ {i} \in SUBSET Incident
    BY <2>1 DEF PollRecord
  <2>3. PICK todo : todo = IF source[i].gone THEN {} ELSE Parsed({i})
    OBVIOUS
  <2>4. todo \in SUBSET Found /\ \A r \in todo : r.end # NotYet => r.end = source[r.id].end
    BY <2>2, <2>3, ParsedTrue
  <2>5. PICK stale \in SUBSET Incident : stale = self.stale \ {i}
    BY <2>2
  <2>6. PICK q : q = [self EXCEPT !.stale = stale, !.todo = todo]
    OBVIOUS
  <2>7. /\ q \in PollRecord /\ q.stage = self.stage /\ q.to = self.to /\ q.from = self.from
        /\ q.todo = todo /\ q.skipped = self.skipped
    BY <2>4, <2>6 DEF PollRecord
  <2>8. /\ pollers' = [pollers EXCEPT ![p] = q] /\ UNCHANGED <<hour, source, copies, windows>>
        /\ self.stage = "refetch"
    BY <1>1, <1>8, <2>1, <2>3, <2>5, <2>6 DEF ReadIncidentById
  <2>9. \A k \in Incident : Owed(k, q.from, q.to) /\ ~ q.skipped => copies[k].copied
    BY <1>1, <2>7, <2>8 DEF BridgeInv, PollOwes
  <2> QED  BY <1>1, <2>4, <2>7, <2>8, <2>9, PollMoves
<1>9. CASE PollFails(p) \/ PollLost(p)
  <2>1. pollers' = [pollers EXCEPT ![p] = Resting] /\ UNCHANGED <<hour, source, copies, windows>>
    BY <1>9 DEF PollFails, PollLost
  <2>2. Resting.to <= hour
    BY <1>3, RestingOwes
  <2> QED  BY <2>1, <2>2, RestingOwes, PollMoves
<1> QED  BY <1>4, <1>5, <1>6, <1>7, <1>8, <1>9

\* A copy that is written: it is there from now on, with an end the source gave.
LEMMA UpsertInv ==
    ASSUME BridgeInv, NEW p \in Poller, Upsert(p)
    PROVE  BridgeInv'
<1>1. PICK self \in PollRecord : self = pollers[p]
  BY DEF BridgeInv, ETypeOK
<1>2. PICK r \in self.todo :
        /\ copies' = [copies EXCEPT ![r.id] = Upserted(copies[r.id], r)]
        /\ pollers' = [pollers EXCEPT ![p] = [self EXCEPT !.todo = self.todo \ {r}]]
  BY <1>1 DEF Upsert
<1>3. UNCHANGED <<hour, source, windows>> /\ hour \in Nat
  BY DEF Upsert, BridgeInv, ETypeOK
<1>4. PICK i \in Incident : i = r.id /\ r.end \in Int
  BY DEF PollRecord, Found
<1>5. PICK c \in CopyRow : c = copies[i]
  BY DEF BridgeInv, ETypeOK
<1>6. PICK d : d = Upserted(c, r)
  OBVIOUS
<1>7. /\ d \in CopyRow /\ d.copied
      /\ d.end = IF r.end # NotYet THEN r.end ELSE c.end
  BY <1>3, <1>4, <1>5, <1>6 DEF Upserted, CopyRow
<1>8. /\ copies' \in [Incident -> CopyRow]
      /\ \A k \in Incident : copies'[k] = IF k = i THEN d ELSE copies[k]
  BY <1>2, <1>4, <1>5, <1>6, <1>7 DEF BridgeInv, ETypeOK
<1>9. PICK todo \in SUBSET Found : todo = self.todo \ {r}
  BY DEF PollRecord
<1>10. PICK q : q = [self EXCEPT !.todo = todo]
  OBVIOUS
<1>11. /\ q \in PollRecord /\ q.todo = todo /\ q.stage = self.stage /\ q.from = self.from
       /\ q.to = self.to /\ q.skipped = self.skipped
  BY <1>10 DEF PollRecord
<1>12. /\ pollers' \in [Poller -> PollRecord]
       /\ \A k \in Poller : pollers'[k] = IF k = p THEN q ELSE pollers[k]
  BY <1>2, <1>9, <1>10, <1>11 DEF BridgeInv, ETypeOK
<1>13. r.end # NotYet => r.end = source[i].end
  BY <1>1, <1>4 DEF BridgeInv, EndsTrue
<1>14. ETypeOK'
  BY <1>3, <1>8, <1>12 DEF BridgeInv, ETypeOK
<1>15. Past'
  BY <1>1, <1>3, <1>11, <1>12 DEF BridgeInv, Past
<1>16. EndsTrue'
  <2>1. \A k \in Incident : copies'[k].end # NotYet => copies'[k].end = source[k].end
    BY <1>5, <1>7, <1>8, <1>13 DEF BridgeInv, EndsTrue
  <2>2. \A k \in Poller : \A x \in pollers'[k].todo : x.end # NotYet => x.end = source[x.id].end
    BY <1>1, <1>9, <1>11, <1>12 DEF BridgeInv, EndsTrue
  <2> QED  BY <1>3, <2>1, <2>2 DEF EndsTrue
<1>17. \A k \in Incident : copies[k].copied => copies'[k].copied
  BY <1>7, <1>8
<1>18. PollOwes'
  <2> SUFFICES ASSUME NEW k \in Poller, NEW j \in Incident,
                      Owed(j, pollers'[k].from, pollers'[k].to), ~ pollers'[k].skipped
               PROVE  /\ pollers'[k].stage = "upsert" =>
                           copies'[j].copied \/ \E x \in pollers'[k].todo : x.id = j
                      /\ pollers'[k].stage = "refetch" => copies'[j].copied
    BY <1>3 DEF PollOwes, Owed, Started
  <2>1. /\ pollers'[k].from = pollers[k].from /\ pollers'[k].to = pollers[k].to
        /\ pollers'[k].skipped = pollers[k].skipped /\ pollers'[k].stage = pollers[k].stage
    BY <1>1, <1>11, <1>12
  <2>2. /\ pollers[k].stage = "upsert" =>
             copies[j].copied \/ \E x \in pollers[k].todo : x.id = j
        /\ pollers[k].stage = "refetch" => copies[j].copied
    BY <2>1 DEF BridgeInv, PollOwes
  <2>3. CASE k # p
    BY <1>12, <1>17, <2>1, <2>2, <2>3
  <2>4. CASE k = p
    <3>1. CASE j = i
      BY <1>7, <1>8, <3>1
    <3>2. CASE j # i
      BY <1>1, <1>4, <1>9, <1>11, <1>12, <1>17, <2>1, <2>2, <2>4, <3>2
    <3> QED  BY <3>1, <3>2
  <2> QED  BY <2>3, <2>4
<1>19. CoverageHonest'
  BY <1>3, <1>17 DEF BridgeInv, CoverageHonest, Started
<1> QED  BY <1>14, <1>15, <1>16, <1>18, <1>19 DEF BridgeInv

\* A poll that ends records its window only if it left nothing out.
LEMMA EndsInv ==
    ASSUME BridgeInv, NEW p \in Poller, PollEnds(p)
    PROVE  BridgeInv'
<1>1. PICK self \in PollRecord : self = pollers[p] /\ self.to <= hour
  BY DEF BridgeInv, ETypeOK, Past
<1>2. PICK w : w = [from |-> self.from, to |-> self.to]
  OBVIOUS
<1>3. w \in Window /\ w.from = self.from /\ w.to = self.to
  BY <1>2 DEF Window, PollRecord
<1>4. /\ pollers' = [pollers EXCEPT ![p] = Resting] /\ UNCHANGED <<hour, source, copies>>
      /\ self.stage = "refetch"
      /\ windows' = IF ~ self.skipped THEN Wider(windows \cup {w}) ELSE windows
  BY <1>1, <1>2 DEF PollEnds, Counts
<1>5. \A v \in windows' : v \in windows \/ (v = w /\ ~ self.skipped)
  BY <1>4 DEF Wider
<1>6. /\ pollers' \in [Poller -> PollRecord]
      /\ \A k \in Poller : pollers'[k] = IF k = p THEN Resting ELSE pollers[k]
  BY <1>4, RestingOwes DEF BridgeInv, ETypeOK
<1>7. ETypeOK'
  BY <1>3, <1>4, <1>5, <1>6 DEF BridgeInv, ETypeOK
<1>8. Past'
  <2>1. Resting.to <= hour
    BY RestingOwes DEF BridgeInv, ETypeOK
  <2> QED  BY <1>1, <1>3, <1>4, <1>5, <1>6, <2>1 DEF BridgeInv, Past
<1>9. EndsTrue'
  BY <1>4, <1>6, RestingOwes DEF BridgeInv, EndsTrue
<1>10. PollOwes'
  <2> SUFFICES ASSUME NEW k \in Poller, NEW i \in Incident,
                      Owed(i, pollers'[k].from, pollers'[k].to), ~ pollers'[k].skipped
               PROVE  /\ pollers'[k].stage = "upsert" =>
                           copies[i].copied \/ \E r \in pollers'[k].todo : r.id = i
                      /\ pollers'[k].stage = "refetch" => copies[i].copied
    BY <1>4 DEF PollOwes, Owed, Started
  <2> QED  BY <1>6, RestingOwes DEF BridgeInv, PollOwes
<1>11. CoverageHonest'
  <2> SUFFICES ASSUME NEW v \in windows', NEW i \in Incident, Owed(i, v.from, v.to)
               PROVE  copies[i].copied
    BY <1>4 DEF CoverageHonest, Owed, Started
  <2>1. CASE v \in windows
    BY <2>1 DEF BridgeInv, CoverageHonest, Owed
  <2>2. CASE v = w /\ ~ self.skipped
    BY <1>1, <1>3, <1>4, <2>2 DEF BridgeInv, PollOwes
  <2> QED  BY <1>5, <2>1, <2>2
<1> QED  BY <1>7, <1>8, <1>9, <1>10, <1>11 DEF BridgeInv

\* Every step of the source, the clock, a poll or a report keeps BridgeInv.
LEMMA BridgeNext == BridgeInv /\ [ENext]_evars => BridgeInv'
<1> SUFFICES ASSUME BridgeInv, [ENext]_evars PROVE BridgeInv'
  OBVIOUS
<1>1. hour \in Nat /\ source \in [Incident -> SourceRow]
  BY DEF BridgeInv, ETypeOK
<1>2. CASE HourPasses
  <2>1. hour' = hour + 1 /\ source' = source /\ UNCHANGED <<copies, windows, pollers>>
    BY <1>2 DEF HourPasses, Same
  <2> QED  BY <1>1, <2>1, SourceInv
<1>3. ASSUME NEW i \in Incident, SourceOpens(i) \/ SourceResolves(i) \/ SourceForgets(i)
      PROVE  BridgeInv'
  <2>1. hour' = hour /\ UNCHANGED <<copies, windows, pollers>>
    BY <1>3 DEF SourceOpens, SourceResolves, SourceForgets
  <2>2. /\ source' \in [Incident -> SourceRow]
        /\ \A k \in Incident :
              /\ source[k].end # NotYet => source'[k].end = source[k].end
              /\ source[k].gone => source'[k].gone
              /\ source'[k].start = source[k].start \/ source'[k].start >= hour
    <3>1. CASE SourceOpens(i)
      BY <1>1, <3>1 DEF SourceOpens, SourceRow
    <3>2. CASE SourceResolves(i)
      BY <1>1, <3>2 DEF SourceResolves, SourceRow
    <3>3. CASE SourceForgets(i)
      BY <1>1, <3>3 DEF SourceForgets, SourceRow
    <3> QED  BY <1>3, <3>1, <3>2, <3>3
  <2> QED  BY <1>1, <2>1, <2>2, SourceInv
<1>4. ASSUME NEW p \in Poller, PollStep(p) PROVE BridgeInv'
  BY <1>4, ReadsInv, UpsertInv, EndsInv DEF PollStep
<1>5. CASE Reconnected \/ ReviewBegins \/ ReviewPolls \/ ReviewCopies \/ ReviewEnds
  <2>1. UNCHANGED <<hour, source, copies, windows, pollers>>
    BY <1>5 DEF Reconnected, ReviewBegins, ReviewPolls, ReviewCopies, ReviewEnds
  <2> QED  BY <1>1, <2>1, SourceInv
<1>6. CASE UNCHANGED evars
  <2>1. UNCHANGED <<hour, source, copies, windows, pollers>>
    BY <1>6 DEF evars
  <2> QED  BY <1>1, <2>1, SourceInv
<1> QED  BY <1>2, <1>3, <1>4, <1>5, <1>6 DEF ENext

\* Every reachable state of the bridge's evidence satisfies BridgeInv.
THEOREM BridgeInvariant == ESpec => []BridgeInv
<1>1. EInit => BridgeInv
  <2> SUFFICES ASSUME EInit PROVE BridgeInv
    OBVIOUS
  <2>1. /\ hour = 1 /\ windows = {} /\ copies = [i \in Incident |-> Absent]
        /\ pollers = [p \in Poller |-> Resting]
    BY DEF EInit, CreatedAt
  <2>5. source \in [Incident -> SourceRow]
    <3>1. [start : {NotYet, 0}, end : {NotYet}, parses : BOOLEAN, gone : {FALSE}] \subseteq SourceRow
      <4>1. NotYet \in Int /\ 0 \in Int /\ FALSE \in BOOLEAN
        BY DEF NotYet
      <4> QED  BY <4>1 DEF SourceRow
    <3> QED  BY <3>1 DEF EInit
  <2>2. Absent \in CopyRow /\ Absent.end = NotYet
    BY DEF Absent, CopyRow, NotYet
  <2>3. ETypeOK
    BY <2>1, <2>2, <2>5, RestingOwes DEF ETypeOK
  <2>4. Past /\ EndsTrue /\ PollOwes /\ CoverageHonest
    BY <2>1, <2>2, RestingOwes DEF Past, EndsTrue, PollOwes, CoverageHonest
  <2> QED  BY <2>3, <2>4 DEF BridgeInv
<1> QED  BY <1>1, BridgeNext, PTL DEF ESpec

\* However polls overlap, fail, die or leave rows out, an incident the source
\* still has that began inside a window recorded ok was copied.
THEOREM CoverageSafe == ESpec => []CoverageHonest
<1>1. BridgeInv => CoverageHonest
  BY DEF BridgeInv
<1> QED  BY <1>1, BridgeInvariant, PTL

\* Whichever of two polls writes last what it read first, a copy that was seen
\* resolved keeps its end.
THEOREM ResolutionStays == ESpec => ResolvedStays
<1>1. ASSUME BridgeInv, [ENext]_evars
      PROVE  \A i \in Incident : copies[i].end # NotYet => copies'[i].end = copies[i].end
  <2> SUFFICES ASSUME NEW i \in Incident, copies[i].end # NotYet
               PROVE  copies'[i].end = copies[i].end
    OBVIOUS
  <2>1. CASE copies' = copies
    BY <2>1
  <2>2. ASSUME NEW p \in Poller, Upsert(p) PROVE copies'[i].end = copies[i].end
    <3>1. PICK r \in pollers[p].todo :
            copies' = [copies EXCEPT ![r.id] = Upserted(copies[r.id], r)]
      BY <2>2 DEF Upsert
    <3>2. copies \in [Incident -> CopyRow]
      BY <1>1 DEF BridgeInv, ETypeOK
    <3>3. CASE r.id # i
      BY <3>1, <3>2, <3>3
    <3>4. CASE r.id = i
      <4>1. copies'[i].end = IF r.end # NotYet THEN r.end ELSE copies[i].end
        BY <3>1, <3>2, <3>4 DEF Upserted
      <4>2. copies[i].end = source[i].end /\ (r.end # NotYet => r.end = source[i].end)
        BY <1>1, <3>4 DEF BridgeInv, EndsTrue
      <4> QED  BY <4>1, <4>2
    <3> QED  BY <3>3, <3>4
  <2> QED
    BY <1>1, <2>1, <2>2
       DEF ENext, PollStep, HourPasses, Same, SourceOpens, SourceResolves, SourceForgets,
           PollBegins, ReadOpenIncidents, ReadIncidentsWindow, FindStale, ReadIncidentById,
           PollEnds, PollFails, PollLost, Reconnected, ReviewBegins, ReviewPolls, ReviewCopies,
           ReviewEnds, evars
<1> QED  BY <1>1, BridgeInvariant, PTL DEF ESpec, ResolvedStays

-----------------------------------------------------------------------------
(* The verdict *)

\* No poll that asks for what is stale finds more of it than it may ask for:
\* copies that are open and were in neither of the lists it read (FindStale).
RefetchesAll ==
    \A p \in Poller :
        pollers[p].stage = "upsert" /\ pollers[p].todo = {} =>
            Cardinality({i \in Incident : copies[i].copied /\ copies[i].end = NotYet} \ pollers[p].seen)
                <= RefetchCap

\* An outage the source still has, that began and ended under the bridge.
EndedBy(i, to) ==
    /\ source[i].parses /\ ~ source[i].gone
    /\ source[i].start >= CreatedAt
    /\ source[i].end # NotYet /\ source[i].end < to

\* The copy of it says when it ended.
Finished(c, i) == c[i].copied /\ c[i].end = source[i].end

InHand(q, i) == \E r \in q.todo : r.id = i /\ r.end = source[i].end

SourceSane ==
    \A i \in Incident :
        /\ source[i].start <= hour
        /\ source[i].end # NotYet => Started(i) /\ source[i].start <= source[i].end

Reached(ws, t) == \E v \in ws : v.from <= t /\ t < v.to

\* From the first poll on there is no gap between good polls, since each starts
\* to read where the last one ended, or before.
Unbroken ==
    /\ \A w \in windows : \A t \in CreatedAt .. w.to - 1 : Reached(windows, t)
    /\ \A p \in Poller : \A t \in CreatedAt .. pollers[p].from - 1 : Reached(windows, t)

Floors ==
    /\ \A w \in windows : w.from + Overlap >= 0
    /\ \A p \in Poller : pollers[p].from + Overlap >= 0

\* What a poll that began after the outage ended knows of it: it is not among
\* the open ones, and then copied, in hand, or to be asked for by its id.
Settling(q, i) ==
    EndedBy(i, q.to) =>
        /\ q.stage = "window" => \A r \in q.todo : r.id # i
        /\ q.stage = "upsert" =>
              IF i \in q.seen THEN Finished(copies, i) \/ InHand(q, i) ELSE source[i].start < q.from
        /\ q.stage = "refetch" => Finished(copies, i) \/ InHand(q, i) \/ i \in q.stale

\* Every outage that ended before a good poll began is copied with its end.
SettledFor(ws, c) == \A w \in ws : \A i \in Incident : EndedBy(i, w.to) => Finished(c, i)

ReviewRow ==
    [stage : {"none", "polls", "copies", "own"}, at : Nat, failures : Int, pair : {<<>>},
     windows : SUBSET Window, copies : {<<>>} \cup [Incident -> CopyRow], own : {<<>>}]

\* The report reads the polls before the copies.
ReviewOK(rv) ==
    /\ rv \in ReviewRow
    /\ rv.at <= hour
    /\ \A w \in rv.windows : w.to <= hour
    /\ rv.stage = "copies" => SettledFor(rv.windows, copies)
    /\ rv.stage = "own" => SettledFor(rv.windows, rv.copies)

\* The inductive invariant, on top of BridgeInv.
SettledInv ==
    /\ failures \in Int
    /\ SourceSane
    /\ Unbroken
    /\ Floors
    /\ \A p \in Poller : \A i \in Incident : Settling(pollers[p], i)
    /\ SettledFor(windows, copies)
    /\ ReviewOK(review)

-----------------------------------------------------------------------------
\* The clock and the source only move on, and nothing that ended begins again.
LEMMA SourceSettles ==
    ASSUME BridgeInv, SettledInv, SourceSane', source' \in [Incident -> SourceRow],
           hour' \in Nat, hour' >= hour,
           \A i \in Incident :
              /\ source'[i].parses = source[i].parses
              /\ source[i].gone => source'[i].gone
              /\ \/ source'[i].start = source[i].start /\ source'[i].end = source[i].end
                 \/ source[i].end = NotYet /\ (source'[i].end = NotYet \/ source'[i].end >= hour),
           UNCHANGED <<copies, windows, failures, pollers, review>>
    PROVE  SettledInv'
<1>1. ASSUME NEW i \in Incident, NEW to \in Nat, to <= hour, EndedBy(i, to)'
      PROVE  EndedBy(i, to) /\ source'[i].start = source[i].start /\ source'[i].end = source[i].end
  <2>1. /\ source'[i].parses /\ ~ source'[i].gone /\ source'[i].start >= CreatedAt
        /\ source'[i].end # NotYet /\ source'[i].end < to
    BY <1>1 DEF EndedBy
  <2>2. source'[i].end \in Int /\ source[i].gone \in BOOLEAN /\ hour \in Nat
    BY DEF BridgeInv, ETypeOK, SourceRow
  <2>3. source'[i].start = source[i].start /\ source'[i].end = source[i].end
    BY <1>1, <2>1, <2>2
  <2> QED  BY <2>1, <2>3 DEF EndedBy
<1>2. ASSUME NEW ws \in SUBSET Window, NEW c, \A w \in ws : w.to <= hour, SettledFor(ws, c)
      PROVE  SettledFor(ws, c)'
  <2> SUFFICES ASSUME NEW w \in ws, NEW i \in Incident, EndedBy(i, w.to)'
               PROVE  c[i].copied /\ c[i].end = source'[i].end
    BY DEF SettledFor, Finished
  <2>1. PICK to \in Nat : to = w.to /\ to <= hour
    BY <1>2 DEF Window
  <2>2. EndedBy(i, to)'
    BY <2>1 DEF EndedBy
  <2>3. EndedBy(i, w.to) /\ source'[i].end = source[i].end
    BY <1>1, <2>1, <2>2
  <2> QED  BY <1>2, <2>3 DEF SettledFor, Finished
<1>3. SettledFor(windows, copies)'
  <2>1. PICK ws, c : ws = windows /\ c = copies
    OBVIOUS
  <2>2. ws \in SUBSET Window /\ (\A w \in ws : w.to <= hour) /\ SettledFor(ws, c)
    BY <2>1 DEF SettledInv, BridgeInv, ETypeOK, Past
  <2>3. SettledFor(ws, c)'
    BY <1>2, <2>2
  <2> QED  BY <2>1, <2>3
<1>4. ReviewOK(review)'
  <2>1. PICK rv \in ReviewRow : rv = review
    BY DEF SettledInv, ReviewOK
  <2>2. ReviewOK(rv)
    BY <2>1 DEF SettledInv
  <2>3. rv.windows \in SUBSET Window /\ rv.at \in Nat /\ hour \in Nat
    BY DEF ReviewRow, BridgeInv, ETypeOK
  <2>4. \A w \in rv.windows : w.to \in Nat /\ w.to <= hour
    BY <2>2, <2>3 DEF Window, ReviewOK
  <2>5. rv.at <= hour' /\ \A w \in rv.windows : w.to <= hour'
    BY <2>2, <2>3, <2>4 DEF ReviewOK
  <2>6. PICK ws, c, d : ws = rv.windows /\ c = rv.copies /\ d = copies
    OBVIOUS
  <2>7. rv.stage = "copies" => SettledFor(rv.windows, copies)'
    <3>1. rv.stage = "copies" => SettledFor(ws, d)
      BY <2>2, <2>6 DEF ReviewOK
    <3>2. rv.stage = "copies" => SettledFor(ws, d)'
      BY <1>2, <2>3, <2>4, <2>6, <3>1
    <3> QED  BY <2>6, <3>2
  <2>8. rv.stage = "own" => SettledFor(rv.windows, rv.copies)'
    <3>1. rv.stage = "own" => SettledFor(ws, c)
      BY <2>2, <2>6 DEF ReviewOK
    <3>2. rv.stage = "own" => SettledFor(ws, c)'
      BY <1>2, <2>3, <2>4, <2>6, <3>1
    <3> QED  BY <2>6, <3>2
  <2>9. ReviewOK(rv)'
    BY <2>5, <2>6, <2>7, <2>8 DEF ReviewOK
  <2> QED  BY <2>1, <2>9
<1>5. ASSUME NEW p \in Poller, NEW i \in Incident PROVE Settling(pollers[p], i)'
  <2>1. PICK q \in PollRecord : q = pollers[p] /\ q.to \in Nat /\ q.to <= hour
    BY DEF BridgeInv, ETypeOK, Past, PollRecord
  <2>2. Settling(q, i)
    BY <2>1 DEF SettledInv
  <2>3. CASE EndedBy(i, q.to)'
    <3>1. EndedBy(i, q.to) /\ source'[i].start = source[i].start /\ source'[i].end = source[i].end
      <4>1. PICK to \in Nat : to = q.to
        BY <2>1
      <4>2. EndedBy(i, to)'
        BY <2>3, <4>1 DEF EndedBy
      <4> QED  BY <1>1, <2>1, <4>1, <4>2
    <3>2. (InHand(q, i) <=> InHand(q, i)') /\ (Finished(copies, i) <=> Finished(copies, i)')
      BY <3>1 DEF InHand, Finished
    <3>3. Settling(q, i)'
      BY <2>2, <3>1, <3>2 DEF Settling
    <3> QED  BY <2>1, <3>3 DEF Settling, EndedBy, Finished, InHand
  <2>4. CASE ~ EndedBy(i, q.to)'
    BY <2>1, <2>4 DEF Settling, EndedBy
  <2> QED  BY <2>3, <2>4
<1>6. failures' \in Int /\ Unbroken' /\ Floors'
  BY DEF SettledInv, Unbroken, Floors, Reached
<1> QED  BY <1>3, <1>4, <1>5, <1>6 DEF SettledInv

\* A step of one poll that writes no copy and records no window.
LEMMA PollSettles ==
    ASSUME BridgeInv, SettledInv, NEW p \in Poller, NEW q \in PollRecord,
           pollers' = [pollers EXCEPT ![p] = q], failures' \in Int,
           q.from + Overlap >= 0,
           \A t \in CreatedAt .. q.from - 1 : Reached(windows, t),
           \A i \in Incident : Settling(q, i),
           UNCHANGED <<hour, source, copies, windows, review>>
    PROVE  SettledInv'
<1>1. \A k \in Poller : pollers'[k] = IF k = p THEN q ELSE pollers[k]
  BY DEF BridgeInv, ETypeOK
<1>2. \A k \in Poller : \A i \in Incident : Settling(pollers'[k], i)
  BY <1>1 DEF SettledInv
<1>3. \A k \in Poller : \A i \in Incident : Settling(pollers[k], i)'
  BY <1>2 DEF Settling, EndedBy, Finished, InHand
<1>4. Unbroken' /\ Floors'
  BY <1>1 DEF SettledInv, Unbroken, Floors, Reached
<1>5. SourceSane' /\ SettledFor(windows, copies)' /\ ReviewOK(review)'
  BY DEF SettledInv, SourceSane, SettledFor, ReviewOK, EndedBy, Finished, Started
<1> QED  BY <1>3, <1>4, <1>5 DEF SettledInv

\* Where a poll starts to read: what is before it has been read.
LEMMA PollFromReaches ==
    ASSUME BridgeInv, SettledInv
    PROVE  /\ PollFrom \in Int /\ PollFrom + Overlap >= 0
           /\ \A t \in CreatedAt .. PollFrom - 1 : Reached(windows, t)
<1>1. hour \in Nat /\ windows \subseteq Window /\ \A w \in windows : w.to <= hour
  BY DEF BridgeInv, ETypeOK, Past
<1>2. CASE windows = {}
  BY <1>2, EvidenceConstants DEF PollFrom, CreatedAt
<1>3. CASE windows # {}
  <2>1. PICK v \in windows : PollFrom = v.to - Overlap
    BY <1>1, <1>3, LastPoll
  <2>2. v.to \in Nat
    BY <1>1 DEF Window
  <2>3. \A t \in CreatedAt .. v.to - 1 : Reached(windows, t)
    BY DEF SettledInv, Unbroken
  <2>4. CreatedAt .. PollFrom - 1 \subseteq CreatedAt .. v.to - 1
    BY <2>1, <2>2, EvidenceConstants DEF CreatedAt
  <2> QED  BY <2>1, <2>2, <2>3, <2>4, EvidenceConstants
<1> QED  BY <1>2, <1>3

\* A poll that is only begun, or given up, owes nothing yet.
LEMMA BeginsSettle ==
    ASSUME BridgeInv, SettledInv, NEW p \in Poller, PollBegins(p) \/ PollFails(p) \/ PollLost(p)
    PROVE  SettledInv'
<1>1. hour \in Nat
  BY DEF BridgeInv, ETypeOK
<1>2. CASE PollBegins(p)
  <2>1. PICK from \in Int : from = PollFrom
    BY PollFromReaches
  <2>2. PICK q : q = [Resting EXCEPT !.stage = "open", !.from = from, !.to = hour]
    OBVIOUS
  <2>3. q \in PollRecord /\ q.stage = "open" /\ q.from = from
    BY <1>1, <2>2, RestingOwes DEF PollRecord
  <2>4. /\ pollers' = [pollers EXCEPT ![p] = q]
        /\ UNCHANGED <<hour, source, copies, windows, failures, review>>
    BY <1>2, <2>1, <2>2 DEF PollBegins
  <2>5. \A i \in Incident : Settling(q, i)
    BY <2>3 DEF Settling
  <2>6. q.from + Overlap >= 0 /\ \A t \in CreatedAt .. q.from - 1 : Reached(windows, t)
    BY <2>1, <2>3, PollFromReaches
  <2>7. failures' \in Int
    BY <2>4 DEF SettledInv
  <2> QED  BY <2>3, <2>4, <2>5, <2>6, <2>7, PollSettles
<1>3. CASE PollFails(p) \/ PollLost(p)
  <2>1. /\ pollers' = [pollers EXCEPT ![p] = Resting]
        /\ UNCHANGED <<hour, source, copies, windows, review>>
        /\ failures' \in {failures, Min({failures + 1, MaxFailures})}
    BY <1>3 DEF PollFails, PollLost
  <2>2. Resting.from = 0
    BY DEF Resting
  <2>3. Resting.from + Overlap >= 0 /\ \A t \in CreatedAt .. Resting.from - 1 : Reached(windows, t)
    BY <2>2, EvidenceConstants DEF CreatedAt
  <2>4. \A i \in Incident : Settling(Resting, i)
    BY RestingOwes DEF Settling
  <2>5. failures' \in Int
    <3>1. failures \in Int /\ MaxFailures \in Int
      BY EvidenceConstants DEF SettledInv
    <3>2. \E x \in {failures + 1, MaxFailures} : \A y \in {failures + 1, MaxFailures} : x <= y
      BY <3>1
    <3>3. Min({failures + 1, MaxFailures}) \in {failures + 1, MaxFailures}
      BY <3>2 DEF Min
    <3> QED  BY <2>1, <3>1, <3>3
  <2> QED  BY <2>1, <2>3, <2>4, <2>5, RestingOwes, PollSettles
<1> QED  BY <1>2, <1>3

\* The lists a poll reads, and what it asks for by id.
LEMMA ReadsSettle ==
    ASSUME IsFiniteSet(Incident), RefetchesAll, BridgeInv, SettledInv, NEW p \in Poller,
           ReadOpenIncidents(p) \/ ReadIncidentsWindow(p) \/ FindStale(p) \/ ReadIncidentById(p)
    PROVE  SettledInv'
<1>1. PICK self \in PollRecord : self = pollers[p]
  BY DEF BridgeInv, ETypeOK
<1>2. /\ self.from + Overlap >= 0
      /\ \A t \in CreatedAt .. self.from - 1 : Reached(windows, t)
      /\ \A i \in Incident : Settling(self, i)
  BY <1>1 DEF SettledInv, Floors, Unbroken
<1>3. UNCHANGED <<hour, source, copies, windows, failures, review>> /\ failures' \in Int
  BY DEF ReadOpenIncidents, ReadIncidentsWindow, FindStale, ReadIncidentById, SettledInv
<1>4. ASSUME NEW q \in PollRecord, q.from = self.from, \A i \in Incident : Settling(q, i),
             pollers' = [pollers EXCEPT ![p] = q]
      PROVE  SettledInv'
  BY <1>2, <1>3, <1>4, PollSettles
<1>5. CASE ReadOpenIncidents(p)
  <2>1. PICK open \in SUBSET Incident :
          /\ open = {i \in Incident : Started(i) /\ source[i].end = NotYet /\ ~ source[i].gone}
          /\ pollers' = [pollers EXCEPT ![p] = [self EXCEPT !.stage = "window", !.todo = Parsed(open),
                         !.skipped = \E i \in open : ~ source[i].parses]]
    BY <1>1, <1>5 DEF ReadOpenIncidents
  <2>2. PICK b \in BOOLEAN : b = \E i \in open : ~ source[i].parses
    OBVIOUS
  <2>3. PICK todo \in SUBSET Found : todo = Parsed(open)
    BY ParsedTrue
  <2>4. PICK q : q = [self EXCEPT !.stage = "window", !.todo = todo, !.skipped = b]
    OBVIOUS
  <2>5. q \in PollRecord /\ q.stage = "window" /\ q.from = self.from /\ q.todo = todo
    BY <2>4 DEF PollRecord
  <2>6. pollers' = [pollers EXCEPT ![p] = q]
    BY <2>1, <2>2, <2>3, <2>4
  <2>7. \A r \in todo : r.id \in open
    BY <2>3 DEF Parsed
  <2>8. ASSUME NEW i \in Incident PROVE Settling(q, i)
    <3>1. EndedBy(i, q.to) => i \notin open
      BY <2>1 DEF EndedBy
    <3> QED  BY <2>5, <2>7, <3>1 DEF Settling
  <2> QED  BY <1>4, <2>5, <2>6, <2>8
<1>6. CASE ReadIncidentsWindow(p)
  <2>1. PICK listed \in SUBSET Incident :
          listed = {i \in Incident : Started(i) /\ source[i].start >= self.from /\ ~ source[i].gone}
    OBVIOUS
  <2>2. PICK fresh : fresh = {r \in Parsed(listed) : \A o \in self.todo : o.id # r.id}
    OBVIOUS
  <2>3. PICK todo : todo = self.todo \cup fresh
    OBVIOUS
  <2>4. PICK seen : seen = {r.id : r \in todo}
    OBVIOUS
  <2>5. PICK b : b = (self.skipped \/ \E i \in listed : ~ source[i].parses)
    OBVIOUS
  <2>6. self.todo \subseteq Found /\ self.skipped \in BOOLEAN /\ Parsed(listed) \subseteq Found
    BY ParsedTrue DEF PollRecord
  <2>7. todo \in SUBSET Found /\ seen \in SUBSET Incident /\ b \in BOOLEAN
    BY <2>2, <2>3, <2>4, <2>5, <2>6 DEF Found
  <2>8. PICK q : q = [self EXCEPT !.stage = "upsert", !.todo = todo, !.seen = seen, !.skipped = b]
    OBVIOUS
  <2>9. /\ q \in PollRecord /\ q.stage = "upsert" /\ q.to = self.to /\ q.from = self.from
        /\ q.todo = todo /\ q.seen = seen
    BY <2>7, <2>8 DEF PollRecord
  <2>10. pollers' = [pollers EXCEPT ![p] = q] /\ self.stage = "window"
    BY <1>1, <1>6, <2>1, <2>2, <2>3, <2>4, <2>5, <2>8 DEF ReadIncidentsWindow
  <2>11. ASSUME NEW i \in Incident PROVE Settling(q, i)
    <3> SUFFICES ASSUME EndedBy(i, q.to)
                 PROVE  IF i \in seen THEN InHand(q, i) ELSE source[i].start < q.from
      BY <2>9 DEF Settling
    <3>1. source[i].parses /\ ~ source[i].gone /\ Started(i)
      BY DEF EndedBy, SettledInv, SourceSane
    <3>2. \A o \in self.todo : o.id # i
      BY <1>2, <2>9, <2>10 DEF Settling
    <3>3. CASE source[i].start >= self.from
      <4>1. i \in listed
        BY <2>1, <3>1, <3>3
      <4>2. PICK r \in Parsed(listed) : r.id = i
        BY <3>1, <4>1, ParsedTrue
      <4>3. r.end = source[i].end
        BY <4>2, ParsedTrue
      <4>4. r \in todo
        BY <2>2, <2>3, <3>2, <4>2
      <4>5. i \in seen /\ InHand(q, i)
        BY <2>4, <2>9, <4>2, <4>3, <4>4 DEF InHand
      <4> QED  BY <4>5
    <3>4. CASE ~ (source[i].start >= self.from)
      <4>1. source[i].start < q.from
        BY <2>9, <3>4 DEF BridgeInv, ETypeOK, SourceRow, PollRecord
      <4>2. i \notin seen
        BY <2>1, <2>2, <2>3, <2>4, <3>2, <3>4 DEF Parsed
      <4> QED  BY <4>1, <4>2
    <3> QED  BY <3>3, <3>4
  <2> QED  BY <1>4, <2>9, <2>10, <2>11
<1>7. CASE FindStale(p)
  <2>1. PICK stale \in SUBSET Incident :
          stale = {i \in Incident : copies[i].copied /\ copies[i].end = NotYet} \ self.seen
    OBVIOUS
  <2>2. PICK some \in SUBSET stale :
          /\ Cardinality(some) = Min({Cardinality(stale), RefetchCap})
          /\ pollers' = [pollers EXCEPT ![p] = [self EXCEPT !.stage = "refetch", !.stale = some]]
    BY <1>1, <1>7, <2>1 DEF FindStale
  <2>3. some = stale
    <3>1. IsFiniteSet(stale)
      BY <2>1, FS_Subset
    <3>2. Cardinality(stale) \in Nat /\ RefetchCap \in Nat
      BY <3>1, FS_CardinalityType, EvidenceConstants
    <3>3. Cardinality(stale) <= RefetchCap
      BY <1>1, <1>7, <2>1 DEF RefetchesAll, FindStale
    <3>4. PICK n \in Nat : n = Cardinality(stale)
      BY <3>2
    <3>5. \E x \in {n, RefetchCap} : \A y \in {n, RefetchCap} : x <= y
      BY <3>2, <3>3, <3>4
    <3>6. /\ Min({n, RefetchCap}) \in {n, RefetchCap}
          /\ \A y \in {n, RefetchCap} : Min({n, RefetchCap}) <= y
      BY <3>5 DEF Min
    <3>7. Cardinality(some) = Cardinality(stale)
      BY <2>2, <3>2, <3>3, <3>4, <3>6
    <3> QED  BY <3>1, <3>7, FS_Subset
  <2>4. PICK q : q = [self EXCEPT !.stage = "refetch", !.stale = stale]
    OBVIOUS
  <2>5. /\ q \in PollRecord /\ q.stage = "refetch" /\ q.to = self.to /\ q.from = self.from
        /\ q.stale = stale
    BY <2>4 DEF PollRecord
  <2>6. pollers' = [pollers EXCEPT ![p] = q] /\ self.stage = "upsert" /\ self.todo = {}
    BY <1>1, <1>7, <2>2, <2>3, <2>4 DEF FindStale
  <2>7. ASSUME NEW i \in Incident PROVE Settling(q, i)
    <3> SUFFICES ASSUME EndedBy(i, q.to) PROVE Finished(copies, i) \/ i \in stale
      BY <2>5 DEF Settling
    <3>1. ~ InHand(self, i)
      BY <2>6 DEF InHand
    <3>2. IF i \in self.seen THEN Finished(copies, i) ELSE source[i].start < self.from
      BY <1>2, <2>5, <2>6, <3>1 DEF Settling
    <3>3. CASE i \notin self.seen
      <4>1. /\ source[i].start \in Int /\ self.from \in Int /\ source[i].start >= CreatedAt
            /\ ~ source[i].gone /\ Started(i)
        BY DEF BridgeInv, ETypeOK, SourceRow, PollRecord, EndedBy, SettledInv, SourceSane
      <4>2. source[i].start \in CreatedAt .. self.from - 1
        BY <3>2, <3>3, <4>1 DEF CreatedAt
      <4>3. PICK v \in windows : v.from <= source[i].start /\ source[i].start < v.to
        BY <1>2, <4>2 DEF Reached
      <4>4. v.from \in Int
        BY DEF BridgeInv, ETypeOK, Window
      <4>5. copies[i].copied
        BY <4>1, <4>3, <4>4 DEF BridgeInv, CoverageHonest
      <4> QED  BY <2>1, <3>3, <4>5 DEF BridgeInv, EndsTrue, Finished
    <3> QED  BY <3>2, <3>3
  <2> QED  BY <1>4, <2>5, <2>6, <2>7
<1>8. CASE ReadIncidentById(p)
  <2>1. PICK k \in self.stale :
          /\ pollers' = [pollers EXCEPT ![p] = [self EXCEPT !.stale = self.stale \ {k},
                            !.todo = IF source[k].gone THEN {} ELSE Parsed({k})]]
          /\ self.stage = "refetch" /\ self.todo = {}
    BY <1>1, <1>8 DEF ReadIncidentById
  <2>2. {k} \in SUBSET Incident /\ self.stale \ {k} \in SUBSET Incident
    BY <2>1 DEF PollRecord
  <2>3. PICK todo : todo = IF source[k].gone THEN {} ELSE Parsed({k})
    OBVIOUS
  <2>4. todo \in SUBSET Found
    BY <2>2, <2>3, ParsedTrue
  <2>5. PICK stale \in SUBSET Incident : stale = self.stale \ {k}
    BY <2>2
  <2>6. PICK q : q = [self EXCEPT !.stale = stale, !.todo = todo]
    OBVIOUS
  <2>7. /\ q \in PollRecord /\ q.stage = "refetch" /\ q.to = self.to /\ q.from = self.from
        /\ q.todo = todo /\ q.stale = stale
    BY <2>1, <2>4, <2>6 DEF PollRecord
  <2>8. pollers' = [pollers EXCEPT ![p] = q]
    BY <2>1, <2>3, <2>5, <2>6
  <2>9. ASSUME NEW i \in Incident PROVE Settling(q, i)
    <3> SUFFICES ASSUME EndedBy(i, q.to) PROVE Finished(copies, i) \/ InHand(q, i) \/ i \in stale
      BY <2>7 DEF Settling
    <3>1. Finished(copies, i) \/ i \in self.stale
      <4>1. ~ InHand(self, i)
        BY <2>1 DEF InHand
      <4> QED  BY <1>2, <2>1, <2>7, <4>1 DEF Settling
    <3>2. CASE i = k
      <4>1. todo = Parsed({k}) /\ source[k].parses
        BY <2>3, <3>2 DEF EndedBy
      <4>2. PICK r \in Parsed({k}) : r.id = k
        BY <2>2, <4>1, ParsedTrue
      <4>3. r.end = source[k].end
        BY <2>2, <4>2, ParsedTrue
      <4> QED  BY <2>7, <3>2, <4>1, <4>2, <4>3 DEF InHand
    <3> QED  BY <2>5, <3>1, <3>2
  <2> QED  BY <1>4, <2>7, <2>8, <2>9
<1> QED  BY <1>5, <1>6, <1>7, <1>8

\* A copy that is written, and says when it ended, says so from now on.
LEMMA UpsertSettles ==
    ASSUME BridgeInv, SettledInv, NEW p \in Poller, Upsert(p)
    PROVE  SettledInv'
<1>1. PICK self \in PollRecord : self = pollers[p]
  BY DEF BridgeInv, ETypeOK
<1>2. PICK r \in self.todo :
        /\ copies' = [copies EXCEPT ![r.id] = Upserted(copies[r.id], r)]
        /\ pollers' = [pollers EXCEPT ![p] = [self EXCEPT !.todo = self.todo \ {r}]]
  BY <1>1 DEF Upsert
<1>3. UNCHANGED <<hour, source, windows, failures, review>> /\ self.stage \in {"upsert", "refetch"}
  BY <1>1 DEF Upsert
<1>4. PICK i \in Incident : i = r.id /\ r.end \in Int
  BY DEF PollRecord, Found
<1>5. r.end # NotYet => r.end = source[i].end
  BY <1>1, <1>4 DEF BridgeInv, EndsTrue
<1>6. copies \in [Incident -> CopyRow]
  BY DEF BridgeInv, ETypeOK
<1>7. /\ \A k \in Incident : k # i => copies'[k] = copies[k]
      /\ copies'[i].copied /\ copies'[i].end = IF r.end # NotYet THEN r.end ELSE copies[i].end
  BY <1>2, <1>4, <1>6 DEF Upserted
<1>8. ASSUME NEW k \in Incident, source[k].end # NotYet, Finished(copies, k)
      PROVE  copies'[k].copied /\ copies'[k].end = source[k].end
  BY <1>5, <1>7, <1>8 DEF Finished
<1>9. PICK todo \in SUBSET Found : todo = self.todo \ {r}
  BY DEF PollRecord
<1>10. PICK q : q = [self EXCEPT !.todo = todo]
  OBVIOUS
<1>11. /\ q.todo = todo /\ q.stage = self.stage /\ q.from = self.from /\ q.to = self.to
       /\ q.seen = self.seen /\ q.stale = self.stale
  BY <1>10 DEF PollRecord
<1>12. \A k \in Poller : pollers'[k] = IF k = p THEN q ELSE pollers[k]
  BY <1>2, <1>9, <1>10 DEF BridgeInv, ETypeOK
<1>13. ASSUME NEW k \in Poller, NEW j \in Incident PROVE Settling(pollers[k], j)'
  <2>1. PICK o, n : o = pollers[k] /\ n = pollers'[k]
    OBVIOUS
  <2>2. /\ n.to = o.to /\ n.from = o.from /\ n.stage = o.stage /\ n.seen = o.seen
        /\ n.stale = o.stale /\ (n.todo = o.todo \/ (k = p /\ o.todo = self.todo /\ n.todo = todo))
    BY <1>1, <1>11, <1>12, <2>1
  <2>3. Settling(o, j)
    BY <2>1 DEF SettledInv
  <2>4. ASSUME EndedBy(j, n.to)
        PROVE  /\ Finished(copies, j) => Finished(copies, j)'
               /\ InHand(o, j) => InHand(n, j) \/ Finished(copies, j)'
    <3>1. source[j].end # NotYet
      BY <2>4 DEF EndedBy
    <3>2. Finished(copies, j) => Finished(copies, j)'
      BY <1>3, <1>8, <3>1 DEF Finished
    <3>3. ASSUME InHand(o, j) PROVE InHand(n, j) \/ Finished(copies, j)'
      <4>1. PICK x \in o.todo : x.id = j /\ x.end = source[j].end
        BY <3>3 DEF InHand
      <4>2. CASE x \in n.todo
        BY <4>1, <4>2 DEF InHand
      <4>3. CASE x \notin n.todo
        <5>1. x = r
          BY <1>9, <2>2, <4>1, <4>3
        <5>2. j = i /\ copies'[j].copied /\ copies'[j].end = source[j].end
          BY <1>4, <1>7, <3>1, <4>1, <5>1
        <5> QED  BY <1>3, <5>2 DEF Finished
      <4> QED  BY <4>2, <4>3
    <3> QED  BY <3>2, <3>3
  <2>5. ASSUME EndedBy(j, n.to)
        PROVE  /\ n.stage = "window" => \A x \in n.todo : x.id # j
               /\ n.stage = "upsert" => IF j \in n.seen THEN Finished(copies, j)' \/ InHand(n, j)
                                        ELSE source[j].start < n.from
               /\ n.stage = "refetch" => Finished(copies, j)' \/ InHand(n, j) \/ j \in n.stale
    <3>1. n.stage = "window" => n.todo = o.todo
      BY <1>1, <1>3, <2>1, <2>2
    <3> QED  BY <2>2, <2>3, <2>4, <2>5, <3>1 DEF Settling
  <2> QED  BY <1>3, <2>1, <2>5 DEF Settling, EndedBy, InHand, Finished
<1>14. ASSUME NEW ws, SettledFor(ws, copies)
       PROVE  \A w \in ws : \A j \in Incident :
                EndedBy(j, w.to) => copies'[j].copied /\ copies'[j].end = source[j].end
  BY <1>8, <1>14 DEF SettledFor, EndedBy
<1>15. SettledFor(windows, copies)'
  BY <1>3, <1>14 DEF SettledInv, SettledFor, EndedBy, Finished
<1>16. ReviewOK(review)'
  <2>1. PICK rv : rv = review /\ ReviewOK(rv)
    BY DEF SettledInv
  <2>2. rv.stage = "copies" => SettledFor(rv.windows, copies)'
    BY <1>3, <1>14, <2>1 DEF ReviewOK, SettledFor, EndedBy, Finished
  <2>3. rv.stage = "own" => SettledFor(rv.windows, rv.copies)'
    BY <1>3, <2>1 DEF ReviewOK, SettledFor, EndedBy, Finished
  <2>4. ReviewOK(rv)'
    BY <1>3, <2>1, <2>2, <2>3 DEF ReviewOK
  <2> QED  BY <1>3, <2>1, <2>4
<1>17. failures' \in Int /\ SourceSane' /\ Unbroken' /\ Floors'
  <2>1. \A k \in Poller : pollers'[k].from = pollers[k].from
    BY <1>1, <1>11, <1>12
  <2> QED  BY <1>3, <2>1 DEF SettledInv, SourceSane, Started, Unbroken, Floors, Reached
<1> QED  BY <1>13, <1>15, <1>16, <1>17 DEF SettledInv

\* Leaving out windows inside another leaves out no hour.
LEMMA WiderReaches ==
    ASSUME NEW ws \in SUBSET Window, NEW h \in Nat,
           \A w \in ws : w.to <= h /\ w.from + Overlap >= 0,
           NEW t \in Int, Reached(ws, t)
    PROVE  Reached(Wider(ws), t)
<1>1. PICK w \in ws : w.from <= t /\ t < w.to
  BY DEF Reached
<1>2. PICK In : In = {v \in ws : v.from <= w.from /\ v.to >= w.to}
  OBVIOUS
<1>3. \A v \in ws : v.from \in Int /\ v.to \in Nat /\ v = [from |-> v.from, to |-> v.to]
  BY DEF Window
<1>4. PICK T : T = {(v.from + Overlap) + (h - v.to) : v \in In}
  OBVIOUS
<1>5. T \subseteq Nat
  BY <1>2, <1>3, <1>4, EvidenceConstants
<1>6. w \in In
  BY <1>2, <1>3
<1>7. T # {}
  BY <1>4, <1>6
<1>8. PICK x \in T : \A y \in T : x <= y
  BY <1>5, <1>7, LeastElement
<1>9. PICK v \in In : x = (v.from + Overlap) + (h - v.to)
  BY <1>4
<1>10. v \in Wider(ws)
  <2> SUFFICES ASSUME NEW u \in ws \ {v}, ~ (u.from > v.from \/ u.to < v.to) PROVE FALSE
    BY <1>2 DEF Wider
  <2>1. u.from <= v.from /\ u.to >= v.to /\ v.from <= w.from /\ v.to >= w.to
    BY <1>2, <1>3
  <2>2. u \in In
    BY <1>2, <1>3, <2>1
  <2>3. x <= (u.from + Overlap) + (h - u.to)
    BY <1>4, <1>8, <2>2
  <2>4. u.from = v.from /\ u.to = v.to
    BY <1>2, <1>3, <1>9, <2>1, <2>3, EvidenceConstants
  <2> QED  BY <1>2, <1>3, <2>4
<1>11. v.from <= t /\ t < v.to
  BY <1>1, <1>2, <1>3
<1> QED  BY <1>10, <1>11 DEF Reached

\* What a poll that counts adds: it settled what ended before it began.
LEMMA EndsSettle ==
    ASSUME BridgeInv, SettledInv, NEW p \in Poller, PollEnds(p)
    PROVE  SettledInv'
<1>1. PICK self \in PollRecord : self = pollers[p] /\ self.to <= hour /\ hour \in Nat
  BY DEF BridgeInv, ETypeOK, Past
<1>2. PICK w : w = [from |-> self.from, to |-> self.to]
  OBVIOUS
<1>3. w \in Window /\ w.from = self.from /\ w.to = self.to /\ w.to \in Nat /\ w.from \in Int
  BY <1>2 DEF Window, PollRecord
<1>4. /\ pollers' = [pollers EXCEPT ![p] = Resting] /\ UNCHANGED <<hour, source, copies, review>>
      /\ self.stage = "refetch" /\ self.todo = {} /\ self.stale = {}
      /\ windows' = windows \/ windows' = Wider(windows \cup {w})
      /\ failures' = 0
  BY <1>1, <1>2 DEF PollEnds
<1>5. PICK ws \in SUBSET Window : ws = windows \cup {w}
  BY <1>3 DEF BridgeInv, ETypeOK
<1>6. windows' \subseteq ws
  BY <1>4, <1>5 DEF Wider
<1>7. \A k \in Poller : pollers'[k] = IF k = p THEN Resting ELSE pollers[k]
  BY <1>4 DEF BridgeInv, ETypeOK
<1>8. \A v \in ws : v.to <= hour /\ v.from + Overlap >= 0
  BY <1>1, <1>3, <1>5 DEF BridgeInv, Past, SettledInv, Floors
<1>9. ASSUME NEW t \in Int, Reached(windows, t) PROVE Reached(windows', t)
  <2>1. Reached(ws, t)
    BY <1>5, <1>9 DEF Reached
  <2> QED  BY <1>1, <1>4, <1>5, <1>8, <1>9, <2>1, WiderReaches
<1>10. Resting.from = 0
  BY DEF Resting
<1>11. ASSUME NEW v \in windows', NEW t \in CreatedAt .. v.to - 1 PROVE Reached(windows', t)
  <2>1. CASE v \in windows
    BY <1>9, <1>11, <2>1 DEF SettledInv, Unbroken
  <2>2. CASE v \notin windows
    <3>1. v = w /\ windows' = Wider(ws)
      BY <1>4, <1>5, <1>6, <2>2
    <3>2. CASE t < self.from
      <4>1. t \in CreatedAt .. self.from - 1
        BY <1>3, <1>11, <3>1, <3>2 DEF CreatedAt
      <4> QED  BY <1>1, <1>9, <4>1 DEF SettledInv, Unbroken
    <3>3. CASE ~ (t < self.from)
      <4>1. w.from <= t /\ t < w.to
        BY <1>3, <1>11, <3>1, <3>3 DEF CreatedAt
      <4>2. Reached(ws, t)
        BY <1>5, <4>1 DEF Reached
      <4>3. t \in Int /\ hour \in Nat /\ ws \in SUBSET Window
        BY <1>1, <1>11
      <4>4. Reached(Wider(ws), t)
        BY <1>8, <4>2, <4>3, WiderReaches
      <4> QED  BY <3>1, <4>4
    <3> QED  BY <3>2, <3>3
  <2> QED  BY <2>1, <2>2
<1>12. ASSUME NEW k \in Poller, NEW t \in CreatedAt .. pollers'[k].from - 1
       PROVE  Reached(windows', t)
  <2>1. k # p
    BY <1>7, <1>10, <1>12 DEF CreatedAt
  <2> QED  BY <1>7, <1>9, <1>12, <2>1 DEF SettledInv, Unbroken
<1>13. Unbroken'
  BY <1>11, <1>12 DEF Unbroken, Reached
<1>14. Floors'
  BY <1>6, <1>7, <1>8, <1>10, EvidenceConstants DEF SettledInv, Floors
<1>15. ASSUME NEW i \in Incident, EndedBy(i, w.to) PROVE Finished(copies, i)
  <2>1. Settling(self, i) /\ ~ InHand(self, i) /\ i \notin self.stale
    BY <1>1, <1>4 DEF SettledInv, InHand
  <2> QED  BY <1>3, <1>4, <1>15, <2>1 DEF Settling
<1>16. SettledFor(windows, copies)'
  <2>1. \A v \in ws : \A i \in Incident : EndedBy(i, v.to) => Finished(copies, i)
    BY <1>5, <1>15 DEF SettledInv, SettledFor
  <2> QED  BY <1>4, <1>6, <2>1 DEF SettledFor, EndedBy, Finished
<1>17. \A k \in Poller : \A i \in Incident : Settling(pollers[k], i)'
  <2>1. \A k \in Poller : \A i \in Incident : Settling(pollers'[k], i)
    BY <1>7, RestingOwes DEF SettledInv, Settling
  <2> QED  BY <1>4, <2>1 DEF Settling, EndedBy, Finished, InHand
<1>18. ReviewOK(review)' /\ SourceSane' /\ failures' \in Int
  BY <1>4 DEF SettledInv, SourceSane, Started, ReviewOK, SettledFor, EndedBy, Finished
<1> QED  BY <1>13, <1>14, <1>16, <1>17, <1>18 DEF SettledInv

\* The reads of a report: the polls first, and then the copies.
LEMMA ReviewSettles ==
    ASSUME BridgeInv, SettledInv,
           Reconnected \/ ReviewBegins \/ ReviewPolls \/ ReviewCopies \/ ReviewEnds
    PROVE  SettledInv'
<1>1. /\ UNCHANGED <<hour, source, copies, windows, pollers>> /\ failures' \in Int
  BY DEF Reconnected, ReviewBegins, ReviewPolls, ReviewCopies, ReviewEnds, SettledInv
<1>2. /\ SourceSane' /\ Unbroken' /\ Floors' /\ SettledFor(windows, copies)'
      /\ \A p \in Poller : \A i \in Incident : Settling(pollers[p], i)'
  BY <1>1 DEF SettledInv, SourceSane, Started, Unbroken, Floors, Reached, SettledFor, Settling,
              EndedBy, Finished, InHand
<1> SUFFICES ReviewOK(review)'
  BY <1>1, <1>2 DEF SettledInv
<1>3. /\ review \in ReviewRow /\ review.at <= hour /\ \A w \in review.windows : w.to <= hour
      /\ review.stage = "copies" => SettledFor(review.windows, copies)
      /\ failures \in Int /\ hour \in Nat
      /\ windows \in SUBSET Window /\ \A w \in windows : w.to <= hour
      /\ copies \in [Incident -> CopyRow]
  BY DEF SettledInv, ReviewOK, BridgeInv, ETypeOK, Past
<1>4. NoReview \in ReviewRow /\ NoReview.at = 0 /\ NoReview.windows = {} /\ NoReview.stage = "none"
  BY DEF NoReview, ReviewRow
<1>5. ASSUME NEW rv, review' = rv, ReviewOK(rv) PROVE ReviewOK(review)'
  <2>1. ReviewOK(rv)'
    BY <1>1, <1>5 DEF ReviewOK, SettledFor, EndedBy, Finished
  <2> QED  BY <1>5, <2>1
<1>6. CASE Reconnected
  <2>1. PICK rv : rv = review /\ ReviewOK(rv)
    BY DEF SettledInv
  <2> QED  BY <1>5, <1>6, <2>1 DEF Reconnected
<1>7. CASE ReviewBegins
  <2>1. PICK rv : rv = [NoReview EXCEPT !.stage = "polls", !.at = hour, !.failures = failures]
    OBVIOUS
  <2>2. review' = rv
    BY <1>7, <2>1 DEF ReviewBegins, NextRead
  <2>3. rv \in ReviewRow /\ rv.at = hour /\ rv.windows = {} /\ rv.stage = "polls"
    BY <1>3, <1>4, <2>1 DEF ReviewRow
  <2>4. ReviewOK(rv)
    BY <1>3, <2>2, <2>3 DEF ReviewOK, SettledInv
  <2> QED  BY <1>5, <2>2, <2>4
<1>8. CASE ReviewPolls
  <2>1. PICK rv : rv = [review EXCEPT !.stage = "copies", !.windows = windows]
    OBVIOUS
  <2>2. review' = rv
    BY <1>8, <2>1 DEF ReviewPolls, NextRead
  <2>3. rv \in ReviewRow /\ rv.at = review.at /\ rv.windows = windows /\ rv.stage = "copies"
    BY <1>3, <2>1 DEF ReviewRow
  <2>4. ReviewOK(rv)
    BY <1>3, <2>2, <2>3 DEF ReviewOK, SettledInv
  <2> QED  BY <1>5, <2>2, <2>4
<1>9. CASE ReviewCopies
  <2>1. PICK rv : rv = [review EXCEPT !.stage = "own", !.copies = copies]
    OBVIOUS
  <2>2. review' = rv /\ review.stage = "copies"
    BY <1>9, <2>1 DEF ReviewCopies, NextRead
  <2>3. /\ rv \in ReviewRow /\ rv.at = review.at /\ rv.windows = review.windows /\ rv.stage = "own"
        /\ rv.copies = copies
    BY <1>3, <2>1 DEF ReviewRow
  <2>4. ReviewOK(rv)
    BY <1>3, <2>2, <2>3 DEF ReviewOK, SettledInv
  <2> QED  BY <1>5, <2>2, <2>4
<1>10. CASE ReviewEnds
  <2>1. review' = NoReview /\ NoReview.at <= hour
    BY <1>3, <1>4, <1>10 DEF ReviewEnds
  <2>2. ReviewOK(NoReview)
    BY <1>4, <2>1 DEF ReviewOK
  <2> QED  BY <1>5, <2>1, <2>2
<1> QED  BY <1>6, <1>7, <1>8, <1>9, <1>10

\* Every step keeps it.
LEMMA SettledNext ==
    ASSUME IsFiniteSet(Incident), RefetchesAll, BridgeInv, SettledInv, [ENext]_evars
    PROVE  SettledInv'
<1>1. hour \in Nat /\ source \in [Incident -> SourceRow] /\ SourceSane
  BY DEF BridgeInv, ETypeOK, SettledInv
<1>2. CASE HourPasses \/ UNCHANGED evars
  <2>1. /\ hour' \in {hour, hour + 1} /\ source' = source
        /\ UNCHANGED <<copies, windows, failures, pollers, review>>
    BY <1>2 DEF HourPasses, Same, evars
  <2>2. SourceSane'
    <3>1. \A i \in Incident : source[i].start \in Int
      BY <1>1 DEF SourceRow
    <3> QED  BY <1>1, <2>1, <3>1 DEF SourceSane, Started
  <2> QED  BY <1>1, <2>1, <2>2, SourceSettles
<1>3. ASSUME NEW i \in Incident, SourceOpens(i) \/ SourceResolves(i) \/ SourceForgets(i)
      PROVE  SettledInv'
  <2>1. hour' = hour /\ UNCHANGED <<copies, windows, failures, pollers, review>>
    BY <1>3 DEF SourceOpens, SourceResolves, SourceForgets
  <2>2. /\ source' \in [Incident -> SourceRow]
        /\ SourceSane'
        /\ \A k \in Incident :
              /\ source'[k].parses = source[k].parses
              /\ source[k].gone => source'[k].gone
              /\ \/ source'[k].start = source[k].start /\ source'[k].end = source[k].end
                 \/ source[k].end = NotYet /\ (source'[k].end = NotYet \/ source'[k].end >= hour)
    <3>1. CASE SourceOpens(i)
      BY <1>1, <2>1, <3>1 DEF SourceOpens, SourceRow, SourceSane, Started, NotYet
    <3>2. CASE SourceResolves(i)
      BY <1>1, <2>1, <3>2 DEF SourceResolves, SourceRow, SourceSane, Started
    <3>3. CASE SourceForgets(i)
      BY <1>1, <2>1, <3>3 DEF SourceForgets, SourceRow, SourceSane, Started
    <3> QED  BY <1>3, <3>1, <3>2, <3>3
  <2> QED  BY <1>1, <2>1, <2>2, SourceSettles
<1>4. ASSUME NEW p \in Poller, PollStep(p) PROVE SettledInv'
  BY <1>4, BeginsSettle, ReadsSettle, UpsertSettles, EndsSettle DEF PollStep
<1>5. CASE Reconnected \/ ReviewBegins \/ ReviewPolls \/ ReviewCopies \/ ReviewEnds
  BY <1>5, ReviewSettles
<1> QED  BY <1>2, <1>3, <1>4, <1>5 DEF ENext

\* And it holds at the start.
LEMMA SettledInit == EInit => SettledInv
<1> SUFFICES ASSUME EInit PROVE SettledInv
  OBVIOUS
<1>1. /\ hour = 1 /\ windows = {} /\ failures = 0 /\ review = NoReview
      /\ pollers = [p \in Poller |-> Resting]
      /\ \A i \in Incident : source[i].start \in {NotYet, 0} /\ source[i].end = NotYet
  BY DEF EInit, CreatedAt
<1>2. Resting.from = 0 /\ Resting.stage = "idle"
  BY DEF Resting
<1>3. SourceSane
  BY <1>1 DEF SourceSane, NotYet
<1>4. Unbroken /\ Floors
  BY <1>1, <1>2, EvidenceConstants DEF Unbroken, Floors, CreatedAt
<1>5. /\ \A p \in Poller : \A i \in Incident : Settling(pollers[p], i)
      /\ SettledFor(windows, copies)
  BY <1>1, <1>2 DEF Settling, SettledFor
<1>6. ReviewOK(review)
  BY <1>1 DEF ReviewOK, ReviewRow, NoReview
<1> QED  BY <1>1, <1>3, <1>4, <1>5, <1>6 DEF SettledInv

-----------------------------------------------------------------------------
IsOrder(f, S) ==
    /\ f \in [1 .. Cardinality(S) -> S]
    /\ IsInjective(f) /\ \A j, k \in DOMAIN f : j < k => f[j].start <= f[k].start

\* Finitely many events can be put in order.
LEMMA OrderExists ==
    ASSUME NEW events, IsFiniteSet(events), NEW h \in Int,
           \A e \in events : e.start \in Int /\ e.start <= h
    PROVE  \E f : IsOrder(f, events)
<1>1. PICK T : T = {Cardinality(S) : S \in {R \in SUBSET events : ~ \E f : IsOrder(f, R)}}
  OBVIOUS
<1>2. SUFFICES ASSUME T # {} PROVE FALSE
  BY <1>1
<1>3. \A S \in SUBSET events : IsFiniteSet(S) /\ Cardinality(S) \in Nat
  BY FS_Subset, FS_CardinalityType
<1>4. T \subseteq Nat
  BY <1>1, <1>3
<1>5. PICK m \in T : \A y \in T : m <= y
  BY <1>2, <1>4, LeastElement
<1>6. PICK S \in SUBSET events : m = Cardinality(S) /\ ~ \E f : IsOrder(f, S)
  BY <1>1
<1>7. S # {}
  <2> SUFFICES ASSUME S = {} PROVE FALSE
    OBVIOUS
  <2>1. PICK f : f = [x \in 1 .. 0 |-> x]
    OBVIOUS
  <2>2. DOMAIN f = {} /\ f \in [1 .. 0 -> S]
    BY <2>1
  <2>3. IsOrder(f, S)
    BY <2>2, FS_EmptySet DEF IsOrder, IsInjective
  <2> QED  BY <1>6, <2>3
<1>8. PICK e \in S : \A x \in S : x.start <= e.start
  <2>1. PICK A : A = {h - x.start : x \in S}
    OBVIOUS
  <2>2. A \subseteq Nat /\ A # {}
    BY <1>7, <2>1
  <2>3. PICK a \in A : \A y \in A : a <= y
    BY <2>2, LeastElement
  <2>4. PICK e \in S : a = h - e.start
    BY <2>1
  <2>5. ASSUME NEW x \in S PROVE x.start <= e.start
    <3>1. h - e.start <= h - x.start
      BY <2>1, <2>3, <2>4
    <3> QED  BY <3>1
  <2> QED  BY <2>5
<1>9. PICK R \in SUBSET events : R = S \ {e}
  OBVIOUS
<1>10. Cardinality(R) = m - 1 /\ m \in Nat /\ m > 0
  <2>1. Cardinality(R) = Cardinality(S) - 1
    BY <1>3, <1>8, <1>9, FS_RemoveElement
  <2> QED  BY <1>3, <1>6, <2>1
<1>11. PICK g : IsOrder(g, R)
  <2>1. Cardinality(R) \notin T
    BY <1>4, <1>5, <1>10
  <2> QED  BY <1>1, <2>1
<1>12. PICK f : f = [x \in 1 .. m |-> IF x = m THEN e ELSE g[x]]
  OBVIOUS
<1>13. /\ \A x \in 1 .. m : x # m => x \in 1 .. m - 1
       /\ \A x \in 1 .. m - 1 : g[x] \in R
       /\ DOMAIN g = 1 .. m - 1
  BY <1>10, <1>11 DEF IsOrder
<1>14. f \in [1 .. m -> S] /\ DOMAIN f = 1 .. m
  BY <1>9, <1>12, <1>13
<1>15. IsInjective(f)
  <2> SUFFICES ASSUME NEW x \in 1 .. m, NEW y \in 1 .. m, f[x] = f[y] PROVE x = y
    BY <1>14 DEF IsInjective
  <2>1. CASE x # m /\ y # m
    BY <1>11, <1>12, <1>13, <2>1 DEF IsOrder, IsInjective
  <2>2. CASE x = m \/ y = m
    BY <1>9, <1>12, <1>13, <2>2
  <2> QED  BY <2>1, <2>2
<1>16. ASSUME NEW j \in 1 .. m, NEW k \in 1 .. m, j < k PROVE f[j].start <= f[k].start
  <2>1. j # m /\ f[j] = g[j] /\ j \in 1 .. m - 1
    BY <1>10, <1>12, <1>13, <1>16
  <2>2. CASE k = m
    BY <1>8, <1>9, <1>12, <1>13, <2>1, <2>2
  <2>3. CASE k # m
    BY <1>11, <1>12, <1>13, <1>16, <2>1, <2>3 DEF IsOrder
  <2> QED  BY <2>2, <2>3
<1>17. IsOrder(f, S)
  BY <1>6, <1>14, <1>15, <1>16 DEF IsOrder
<1> QED  BY <1>6, <1>17

\* Matching the events of the source one after the other.
Walks(w, n, rv, events) ==
    w = [d \in 0 .. n |-> IF d = 0 THEN [claimed |-> {}, matched |-> {}]
                          ELSE Absorb(rv, w[d - 1], events[d])]

\* There is such a walk, of any length.
LEMMA WalkExists ==
    ASSUME NEW rv, NEW events, NEW n \in Nat
    PROVE  \E w : Walks(w, n, rv, events)
<1> HIDE DEF Absorb
<1>1. PICK T : T = {m \in Nat : ~ \E w : Walks(w, m, rv, events)}
  OBVIOUS
<1>2. SUFFICES ASSUME T # {} PROVE FALSE
  BY <1>1
<1>3. PICK m \in T : \A y \in T : m <= y
  BY <1>1, <1>2, LeastElement
<1>4. m \in Nat /\ ~ \E w : Walks(w, m, rv, events)
  BY <1>1
<1>0. PICK first : first = [claimed |-> {}, matched |-> {}]
  OBVIOUS
<1>5. m # 0
  <2>1. PICK w : w = [d \in 0 .. 0 |-> first]
    OBVIOUS
  <2>2. Walks(w, 0, rv, events)
    BY <1>0, <2>1 DEF Walks
  <2> QED  BY <1>4, <2>2
<1>6. PICK k \in Nat : m = k + 1 /\ k \notin T
  <2>1. m - 1 \in Nat /\ m = (m - 1) + 1
    BY <1>4, <1>5
  <2>2. m - 1 \notin T
    BY <1>3, <1>4
  <2> QED  BY <2>1, <2>2
<1>7. PICK w : Walks(w, k, rv, events)
  BY <1>1, <1>6
<1>8. PICK v : v = [d \in 0 .. m |-> IF d = m THEN Absorb(rv, w[k], events[m]) ELSE w[d]]
  OBVIOUS
<1>9. \A d \in 0 .. m : v[d] = IF d = 0 THEN first ELSE Absorb(rv, v[d - 1], events[d])
  <2> SUFFICES ASSUME NEW d \in 0 .. m
               PROVE  v[d] = IF d = 0 THEN first ELSE Absorb(rv, v[d - 1], events[d])
    OBVIOUS
  <2>1. CASE d = m
    <3>1. v[d] = Absorb(rv, w[k], events[m]) /\ v[k] = w[k] /\ d - 1 = k
      BY <1>6, <1>8, <2>1
    <3> QED  BY <1>5, <2>1, <3>1
  <2>2. CASE d # m
    <3>1. d \in 0 .. k /\ v[d] = w[d]
      BY <1>6, <1>8, <2>2
    <3>2. w[d] = IF d = 0 THEN first ELSE Absorb(rv, w[d - 1], events[d])
      BY <1>0, <1>7, <3>1 DEF Walks
    <3>3. d # 0 => v[d - 1] = w[d - 1]
      BY <1>6, <1>8, <3>1
    <3> QED  BY <3>1, <3>2, <3>3
  <2> QED  BY <2>1, <2>2
<1>10. Walks(v, m, rv, events)
  BY <1>0, <1>8, <1>9 DEF Walks
<1> QED  BY <1>4, <1>10

\* An event some incident of Vigil is near to.
Near(rv, e) == \E n \in DOMAIN rv.own : OverlapsOrNear(e, rv.own[n], rv.at)

\* Only such an event is matched.
LEMMA MatchedIsNear ==
    ASSUME NEW rv, IsFiniteSet(SourceEvents(rv)), NEW h \in Int,
           \A e \in SourceEvents(rv) : e.start \in Int /\ e.start <= h
    PROVE  \A x \in Matched(rv).matched : \E e \in SourceEvents(rv) : e.id = x /\ Near(rv, e)
<1> HIDE DEF Absorb, OverlapsOrNear, SourceEvents
<1>1. PICK S, events, n : S = SourceEvents(rv) /\ events = InOrder(S) /\ n = Cardinality(S)
  OBVIOUS
<1>2. IsOrder(events, S)
  <2>1. \E f : IsOrder(f, S)
    BY <1>1, OrderExists
  <2> QED  BY <1>1, <2>1 DEF InOrder, IsOrder
<1>3. n \in Nat /\ events \in [1 .. n -> S]
  BY <1>1, <1>2, FS_CardinalityType DEF IsOrder
<1>4. Len(events) = n
  <2>1. events \in Seq(S)
    BY <1>3
  <2> QED  BY <1>3, <2>1
<1>5. PICK w : w = CHOOSE v : Walks(v, n, rv, events)
  OBVIOUS
<1>6. Walks(w, n, rv, events)
  BY <1>3, <1>5, WalkExists
<1>7. Matched(rv) = w[n]
  BY <1>1, <1>4, <1>5 DEF Matched, Walks
<1>8. PICK T : T = {d \in 0 .. n : ~ \A x \in w[d].matched : \E e \in S : e.id = x /\ Near(rv, e)}
  OBVIOUS
<1>9. T = {}
  <2> SUFFICES ASSUME T # {} PROVE FALSE
    OBVIOUS
  <2>1. T \subseteq Nat
    BY <1>8
  <2>2. PICK m \in T : \A y \in T : m <= y
    BY <2>1, LeastElement
  <2>3. m \in 0 .. n
    BY <1>8
  <2>4. PICK x \in w[m].matched : ~ \E e \in S : e.id = x /\ Near(rv, e)
    BY <1>8
  <2>5. w[m] = IF m = 0 THEN [claimed |-> {}, matched |-> {}] ELSE Absorb(rv, w[m - 1], events[m])
    BY <1>6, <2>3 DEF Walks
  <2>6. m # 0
    BY <2>4, <2>5
  <2>7. m - 1 \in 0 .. n /\ m - 1 \notin T
    BY <1>3, <2>1, <2>2, <2>3, <2>6
  <2>8. \A y \in w[m - 1].matched : \E e \in S : e.id = y /\ Near(rv, e)
    BY <1>8, <2>7
  <2>9. PICK acc, e : acc = w[m - 1] /\ e = events[m]
    OBVIOUS
  <2>10. e \in S
    BY <1>3, <2>3, <2>6, <2>9
  <2>11. x \in Absorb(rv, acc, e).matched
    BY <2>4, <2>5, <2>6, <2>9
  <2>12. x \in acc.matched \/ (x = e.id /\ Near(rv, e))
    <3>1. PICK near : near = {k \in DOMAIN rv.own : k \notin acc.claimed
                                                   /\ OverlapsOrNear(e, rv.own[k], rv.at)}
      OBVIOUS
    <3>2. CASE near = {}
      <4>1. Absorb(rv, acc, e) = acc
        BY <3>1, <3>2 DEF Absorb
      <4> QED  BY <2>11, <4>1
    <3>3. CASE near # {}
      <4>1. Absorb(rv, acc, e).matched = acc.matched \cup {e.id}
        BY <3>1, <3>3 DEF Absorb
      <4>2. Near(rv, e)
        BY <3>1, <3>3 DEF Near
      <4> QED  BY <2>11, <4>1, <4>2
    <3> QED  BY <3>2, <3>3
  <2> QED  BY <2>4, <2>8, <2>9, <2>10, <2>12
<1>10. n \in 0 .. n
  BY <1>3
<1> QED  BY <1>1, <1>7, <1>8, <1>9, <1>10

\* The events a report has of the source are finitely many, and past.
LEMMA EventsPast ==
    ASSUME IsFiniteSet(Incident), source \in [Incident -> SourceRow], SourceSane, NEW rv
    PROVE  /\ IsFiniteSet(SourceEvents(rv))
           /\ \A e \in SourceEvents(rv) :
                 /\ e.start \in Int /\ e.start <= hour
                 /\ e.id \in Incident /\ e = EventOf(rv, e.id)
<1>1. PICK D \in SUBSET Incident :
         D = {j \in Incident : rv.copies[j].copied /\ ObservedUntil(rv, j) >= CreatedAt}
  OBVIOUS
<1>2. PICK S, f : S = SourceEvents(rv) /\ f = [j \in D |-> EventOf(rv, j)]
  OBVIOUS
<1>3. S = {EventOf(rv, j) : j \in D}
  BY <1>1, <1>2 DEF SourceEvents
<1>4. f \in Surjection(D, S)
  BY <1>2, <1>3 DEF Surjection
<1>5. IsFiniteSet(S)
  <2>1. IsFiniteSet(D)
    BY FS_Subset
  <2> QED  BY <1>4, <2>1, FS_Surjection
<1>6. ASSUME NEW e \in S
      PROVE  /\ e.start \in Int /\ e.start <= hour
             /\ e.id \in Incident /\ e = EventOf(rv, e.id)
  <2>1. PICK j \in D : e = EventOf(rv, j)
    BY <1>3
  <2>2. e.id = j /\ e.start = source[j].start
    BY <2>1 DEF EventOf
  <2> QED  BY <2>1, <2>2 DEF SourceRow, SourceSane
<1> QED  BY <1>2, <1>5, <1>6

\* What was read of the polls and the copies, in that order, supports the verdict.
LEMMA VerdictEarned ==
    ASSUME IsFiniteSet(Incident), BridgeInv, SettledInv
    PROVE  SafeEarned
<1> SUFFICES ASSUME review.stage = "own", NEW own \in OwnIncidents, NEW i \in Incident,
                    Provable(i, review), ~ SeenHere(source[i], own), NEW pair \in Pairs
             PROVE  Verdict(Complete(review, pair, own)) = "not-safe"
  BY DEF SafeEarned
<1>1. /\ review \in ReviewRow /\ review.at \in Nat /\ review.at <= hour /\ hour \in Nat
      /\ review.windows \in SUBSET Window
      /\ SettledFor(review.windows, review.copies)
  BY DEF SettledInv, ReviewOK, ReviewRow, BridgeInv, ETypeOK
<1>2. PICK X : X = IF pair.present /\ pair.checked THEN [n \in Recent(own) |-> own[n]] ELSE <<>>
  OBVIOUS
<1>3. PICK rv : rv = [review EXCEPT !.own = X, !.pair = pair]
  OBVIOUS
<1>4. rv.pair = pair /\ rv.copies = review.copies /\ rv.at = review.at /\ rv.own = X
  BY <1>1, <1>3 DEF ReviewRow
<1>5. Complete(review, pair, own) = rv
  BY <1>2, <1>3 DEF Complete
<1>6. CASE ~ (pair.present /\ pair.compared /\ pair.checked)
  BY <1>4, <1>5, <1>6 DEF Verdict, Pairs
<1>7. CASE pair.present /\ pair.compared /\ pair.checked
  <2>1. /\ source[i].parses /\ ~ source[i].gone /\ source[i].end # NotYet
        /\ source[i].start - GraceHours >= CreatedAt
        /\ source[i].end - source[i].start >= FailureWindow
    BY DEF Provable
  <2>2. source[i].start \in Int /\ source[i].end \in Int /\ source[i].start <= source[i].end
    BY <2>1 DEF BridgeInv, ETypeOK, SourceRow, SettledInv, SourceSane
  <2>3. source[i].start >= CreatedAt /\ source[i].end >= CreatedAt
    BY <2>1, <2>2, EvidenceConstants DEF CreatedAt
  <2>4. PICK w \in review.windows : source[i].end < w.to
    BY DEF Provable
  <2>5. EndedBy(i, w.to)
    BY <2>1, <2>3, <2>4 DEF EndedBy
  <2>6. rv.copies[i].copied /\ rv.copies[i].end = source[i].end
    BY <1>1, <1>4, <2>5 DEF SettledFor, Finished
  <2>7. PICK e : e = EventOf(rv, i)
    OBVIOUS
  <2>8. /\ e.id = i /\ e.start = source[i].start /\ e.end = source[i].end /\ e.until = source[i].end
    BY <2>1, <2>6, <2>7 DEF EventOf, ObservedUntil
  <2>9. e \in SourceEvents(rv)
    BY <2>1, <2>3, <2>6, <2>7 DEF SourceEvents, ObservedUntil
  <2>10. /\ IsFiniteSet(SourceEvents(rv))
         /\ \A x \in SourceEvents(rv) :
               /\ x.start \in Int /\ x.start <= hour
               /\ x.id \in Incident /\ x = EventOf(rv, x.id)
    BY EventsPast DEF BridgeInv, ETypeOK, SettledInv
  <2>11. ~ Near(rv, e)
    <3> SUFFICES ASSUME NEW n \in DOMAIN rv.own, OverlapsOrNear(e, rv.own[n], rv.at) PROVE FALSE
      BY DEF Near
    <3>1. n \in DOMAIN own /\ rv.own[n] = own[n]
      BY <1>2, <1>4, <1>7 DEF Recent
    <3>2. own[n].start \in Int /\ own[n].end \in Int
      <4>1. \A k \in DOMAIN own : own[k] \in [start : 0 .. hour, end : {NotYet} \cup (0 .. hour)]
        BY DEF OwnIncidents
      <4>2. NotYet \in Int
        BY DEF NotYet
      <4> QED  BY <1>1, <3>1, <4>1, <4>2
    <3>3. OverlapsOrNear(e, own[n], rv.at)
      BY <3>1
    <3>4. OverlapsOrNear(source[i], own[n], hour)
      BY <1>1, <1>4, <2>1, <2>2, <2>8, <3>2, <3>3, EvidenceConstants DEF OverlapsOrNear, EndOr
    <3> QED  BY <3>1, <3>4 DEF SeenHere
  <2>12. i \notin Matched(rv).matched
    <3> SUFFICES ASSUME i \in Matched(rv).matched PROVE FALSE
      OBVIOUS
    <3>1. hour \in Int
      BY <1>1
    <3>2. PICK x \in SourceEvents(rv) : x.id = i /\ Near(rv, x)
      BY <2>10, <3>1, MatchedIsNear
    <3> QED  BY <2>7, <2>10, <2>11, <3>2
  <2>13. e \in MissedEvents(rv)
    BY <2>1, <2>2, <2>8, <2>9, <2>12, EvidenceConstants DEF MissedEvents, CreatedAt
  <2> HIDE DEF MissedEvents
  <2> QED  BY <1>4, <1>5, <1>7, <2>13 DEF Verdict
<1> QED  BY <1>6, <1>7

(* As long as no poll finds more stale incidents than it may refetch,        *)
(* however many incidents there are in all, the bridge's evidence is honest: *)
(* no hour counts as covered that was not, and no verdict is safe while the  *)
(* source had an outage in the covered hours that Vigil did not see,         *)
(* whatever polls ran while the report read its tables.                      *)
THEOREM EvidenceSafe ==
    ASSUME IsFiniteSet(Incident)
    PROVE  ESpec /\ []RefetchesAll => []EvidenceHonest
<1>1. BridgeInv /\ SettledInv => EvidenceHonest
  BY VerdictEarned DEF EvidenceHonest, BridgeInv
<1>2. BridgeInv /\ SettledInv /\ RefetchesAll /\ [ENext]_evars => SettledInv'
  BY SettledNext
<1> QED  BY <1>1, <1>2, SettledInit, BridgeInvariant, PTL DEF ESpec

-----------------------------------------------------------------------------
(* Imports *)

Stage == {"new", "reading", "loading", "checks", "linking", "linked", "closing", "done", "failed"}

\* The stages at which an import may have rows of its own.
Writing == {"checks", "linking", "linked", "closing"}

\* What is typed of a row, a page, a mapping row and an import; the fields that
\* are only passed on are whatever they are.
RowOf(m) ==
    [owner : Run \cup {NoOne}, src : Record \cup {"none"}, key : {m.key}, type : {m.type},
     parent : {m.parent}, shadow : Int, paused : {m.paused}]

PageOf(p) == [owner : Run \cup {NoOne}, members : {p.members}]

MapOf(m) == [monitor : {m.monitor}, outcome : {m.outcome}, compared : {m.compared}]

RunOf(s) ==
    [stage : Stage, mode : {"once", "preview", "bridge"}, bridge : Int, listing : Seq(Record),
     at : Nat, known : {s.known}, folders : {s.folders}, imported : {s.imported},
     paths : {s.paths}, made : {s.made}, entries : {s.entries}, groups : {s.groups},
     links : {s.links}]

\* An id tells the record: it was made for the record, or for a path or by hand.
OfRecord(x, r) == x[2] = "check" /\ x[3] = r

SrcOf(x) == IF x[2] = "check" THEN x[3] ELSE "none"

\* The import a row is of names it in what it reports, if it listed the record once.
Named(x) ==
    LET s == runs[x[1]]
    IN  \/ x[2] = "group" /\ x \in s.groups
        \/ /\ x[2] = "check"
           /\ \E i \in DOMAIN s.listing : s.listing[i] = x[3] /\ (s.stage = "checks" => i < s.at)
           /\ Once(s.listing, x[3]) => x[3] \in DOMAIN s.entries /\ s.entries[x[3]].monitor = x

\* Whose a row is: nobody's while its import writes, nobody else's before that.
Owned(x) ==
    /\ monitors[x].owner \in Run => x[1] = monitors[x].owner /\ runs[x[1]].stage \in Writing
    /\ monitors[x].owner = NoOne /\ x[1] \in Run => Over(x[1])

\* A row enters the shadow with its import, and under the bridge there is.
Shaded(x) ==
    /\ monitors[x].shadow # Never => x[1] \in Run /\ runs[x[1]].mode = "bridge"
    /\ monitors[x].shadow > 0 => monitors[x].shadow = bridge.id
    /\ /\ x[1] \in Run /\ runs[x[1]].mode = "bridge"
       /\ runs[x[1]].stage \in {"linked", "done"}
       /\ x[2] = "check" => Once(runs[x[1]].listing, x[3])
       => monitors[x].shadow # Never

RowOK(x) ==
    /\ monitors[x] \in RowOf(monitors[x])
    /\ monitors[x].src = SrcOf(x)
    /\ x[1] \in Run => Named(x)
    /\ Owned(x)
    /\ Shaded(x)

\* What an import remembers of a record is a row of that record.
Remembers(q) ==
    /\ \A r \in DOMAIN runs[q].imported : OfRecord(runs[q].imported[r], r)
    /\ \A r \in DOMAIN runs[q].made : OfRecord(runs[q].made[r], r)
    /\ \A r \in DOMAIN runs[q].entries : runs[q].entries[r].monitor \in {NoId, <<q, "check", r>>}
    /\ \A r \in DOMAIN runs[q].links : runs[q].links[r] = NoId \/ OfRecord(runs[q].links[r], r)
    /\ \A x \in runs[q].groups : x[1] = q /\ x[2] = "group"

\* How far an import is, and what it has by then.
Progress(q) ==
    LET s == runs[q]
    IN  /\ s.stage \in {"new", "reading", "loading"} => s.at = 1
        /\ s.at >= 1
        /\ \A i \in DOMAIN s.listing : i < s.at => s.listing[i] \in DOMAIN s.entries
        /\ s.stage \in {"linking", "linked", "closing"} => s.at > Len(s.listing)
        /\ s.stage \in {"linking", "linked"} => s.mode = "bridge"
        /\ s.stage = "closing" => s.mode # "bridge"
        /\ s.mode = "bridge" /\ s.stage \notin {"new", "done", "failed"} => s.bridge > 0
        /\ s.stage = "linked" => DOMAIN s.links = Listed(s)

RunOK(q) == runs[q] \in RunOf(runs[q]) /\ Remembers(q) /\ Progress(q)

PageOK(s) ==
    /\ pages[s] \in PageOf(pages[s])
    /\ \A x \in pages[s].members :
          /\ x \in DOMAIN monitors /\ x[2] = "check" /\ x[3] \in fleet.page
          /\ monitors[x].owner \in {NoOne, pages[s].owner}

MapOK(r) ==
    /\ mapping[r] \in MapOf(mapping[r])
    /\ mapping[r].monitor # NoId =>
          /\ mapping[r].monitor \in DOMAIN monitors /\ OfRecord(mapping[r].monitor, r)
          /\ monitors[mapping[r].monitor].owner = NoOne

BridgeOK == bridge \in [id : Int, connected : BOOLEAN] /\ (bridge.connected => bridge.id > 0)

\* No record has two rows, committed or not.
Unique ==
    \A x, y \in DOMAIN monitors :
        x # y /\ monitors[x].src # "none" => monitors[x].src # monitors[y].src

\* The inductive invariant.
ImportInv ==
    /\ BridgeOK
    /\ DOMAIN runs = Run
    /\ \A q \in Run : RunOK(q)
    /\ \A x \in DOMAIN monitors : RowOK(x)
    /\ Unique
    /\ \A s \in DOMAIN pages : PageOK(s)
    /\ \A r \in DOMAIN mapping : MapOK(r)

-----------------------------------------------------------------------------
\* A record that was listed once is at one place of the listing.
LEMMA OncePlace ==
    ASSUME NEW l \in Seq(Record), NEW r, Once(l, r),
           NEW i \in DOMAIN l, NEW j \in DOMAIN l, l[i] = r, l[j] = r
    PROVE  i = j
<1>1. PICK S : S = {n \in DOMAIN l : l[n] = r}
  OBVIOUS
<1>2. IsFiniteSet(DOMAIN l)
  BY FS_Interval
<1>3. IsFiniteSet(S)
  BY <1>1, <1>2, FS_Subset
<1>4. Cardinality(S) = 1
  BY <1>1 DEF Once
<1>5. PICK n : S = {n}
  BY <1>3, <1>4, FS_Singleton
<1> QED  BY <1>1, <1>5

\* The import run reports e on its next record r and becomes X; the groups G
\* and the rows C, at most the one of the record, are made on the way.
Told(run, r, X, e, G, C) ==
    /\ runs[run].stage = "checks" /\ runs[run].at <= Len(runs[run].listing)
    /\ r = runs[run].listing[runs[run].at]
    /\ X \in RunOf(X) /\ X.stage = "checks" /\ X.mode = runs[run].mode
    /\ X.bridge = runs[run].bridge /\ X.listing = runs[run].listing
    /\ X.at = runs[run].at + 1
    /\ X.imported = runs[run].imported /\ X.links = runs[run].links
    /\ \A q \in DOMAIN X.made : OfRecord(X.made[q], q)
    /\ e.monitor \in {NoId, <<run, "check", r>>}
    /\ X.entries = Put(runs[run].entries, r, e)
    /\ X.groups = runs[run].groups \cup G
    /\ \A x \in G : x[1] = run /\ x[2] = "group"
    /\ runs' = [runs EXCEPT ![run] = X]
    /\ C \subseteq {<<run, "check", r>>}
    /\ C # {} => /\ e.monitor = <<run, "check", r>>
                 /\ \A x \in DOMAIN monitors : monitors[x].src # r
    /\ DOMAIN monitors' = DOMAIN monitors \cup G \cup C
    /\ \A x \in DOMAIN monitors \ (G \cup C) : monitors'[x] = monitors[x]
    /\ \A x \in G \cup C : /\ monitors'[x] \in RowOf(monitors'[x])
                           /\ monitors'[x].src = SrcOf(x)
                           /\ monitors'[x].owner = run
                           /\ monitors'[x].shadow = Never
    /\ UNCHANGED <<fleet, pages, bridge, mapping>>

\* Whatever is reported, rows stay named, owned and of one record.
LEMMA Reporting ==
    ASSUME ImportInv, NEW run \in Run, NEW r, NEW X, NEW e, NEW G, NEW C,
           Told(run, r, X, e, G, C)
    PROVE  ImportInv'
<1> USE DEF Told
<1> DEFINE at == runs[run].at
           l == runs[run].listing
<1>0. /\ DOMAIN runs = Run /\ RunOK(run)
      /\ NoOne \notin Run
  BY MigrationConstants DEF ImportInv, NoOne
<1>1. /\ at \in Nat /\ l \in Seq(Record) /\ at >= 1
      /\ runs[run].mode \in {"once", "preview", "bridge"}
      /\ at \in DOMAIN l
  BY <1>0 DEF RunOK, RunOf, Progress
<1>2. /\ DOMAIN runs' = Run /\ runs'[run] = X
      /\ \A q \in Run \ {run} : runs'[q] = runs[q]
  BY <1>0
<1>3. \A q \in Run : runs'[q].stage = runs[q].stage /\ runs'[q].mode = runs[q].mode
                     /\ runs'[q].listing = runs[q].listing
  BY <1>2
<1>4. /\ DOMAIN X.entries = DOMAIN runs[run].entries \cup {r}
      /\ X.entries[r] = e
      /\ \A q \in DOMAIN runs[run].entries : q # r => X.entries[q] = runs[run].entries[q]
  BY DEF Put
<1>5. \A x \in DOMAIN monitors : x \notin C
  <2> SUFFICES ASSUME NEW x \in DOMAIN monitors, x \in C PROVE FALSE
    OBVIOUS
  <2>1. x = <<run, "check", r>> /\ monitors[x].src # r
    OBVIOUS
  <2>2. monitors[x].src = SrcOf(x)
    BY DEF ImportInv, RowOK
  <2> QED  BY <2>1, <2>2 DEF SrcOf
<1>6. \A q \in Run : RunOK(q)'
  <2> SUFFICES ASSUME NEW q \in Run PROVE RunOK(q)'
    OBVIOUS
  <2>1. CASE q # run
    <3>1. runs'[q] = runs[q] /\ RunOK(q)
      BY <1>2, <2>1 DEF ImportInv
    <3> QED  BY <3>1 DEF RunOK, Remembers, Progress
  <2>2. CASE q = run
    <3>1. Remembers(q)'
      BY <1>0, <1>2, <1>4, <2>2 DEF RunOK, Remembers
    <3>2. Progress(q)'
      <4>1. ASSUME NEW i \in DOMAIN l, i < X.at PROVE l[i] \in DOMAIN X.entries
        <5>1. i < at \/ i = at
          BY <1>1, <4>1
        <5> QED  BY <1>0, <1>4, <4>1, <5>1 DEF RunOK, Progress
      <4> QED  BY <1>0, <1>1, <1>2, <2>2, <4>1 DEF RunOK, Progress
    <3> QED  BY <1>2, <2>2, <3>1, <3>2 DEF RunOK
  <2> QED  BY <2>1, <2>2
<1>7. \A x \in DOMAIN monitors' : RowOK(x)'
  <2> SUFFICES ASSUME NEW x \in DOMAIN monitors' PROVE RowOK(x)'
    OBVIOUS
  <2>1. CASE x \in G \cup C
    <3>1. x[1] = run /\ monitors'[x].owner = run /\ monitors'[x].shadow = Never
      BY <2>1
    <3>2. Named(x)'
      <4>1. CASE x \in G
        BY <1>2, <3>1, <4>1 DEF Named
      <4>2. CASE x \in C
        <5>1. x[2] = "check" /\ x[3] = r /\ x = <<run, "check", r>>
          BY <4>2
        <5>2. X.entries[r].monitor = x /\ r \in DOMAIN X.entries
          BY <1>4, <4>2
        <5>3. at \in DOMAIN X.listing /\ X.listing[at] = r /\ at < X.at
          BY <1>1
        <5> QED  BY <1>2, <3>1, <5>1, <5>2, <5>3 DEF Named
      <4> QED  BY <2>1, <4>1, <4>2
    <3>3. Owned(x)'
      BY <1>0, <1>2, <3>1 DEF Owned, Writing
    <3>4. Shaded(x)'
      BY <1>2, <3>1 DEF Shaded, Never
    <3> QED  BY <2>1, <3>2, <3>3, <3>4 DEF RowOK
  <2>2. CASE x \notin G \cup C
    <3>1. x \in DOMAIN monitors /\ monitors'[x] = monitors[x] /\ RowOK(x)
      BY <2>2 DEF ImportInv
    <3>2. Owned(x)'
      BY <1>3, <3>1 DEF RowOK, Owned, Over
    <3>3. Shaded(x)'
      BY <1>3, <3>1 DEF RowOK, Shaded
    <3>4. x[1] \in Run => Named(x)'
      <4> SUFFICES ASSUME x[1] \in Run PROVE Named(x)'
        OBVIOUS
      <4>1. Named(x)
        BY <3>1 DEF RowOK
      <4>2. CASE x[1] # run
        BY <1>2, <4>1, <4>2 DEF Named
      <4>3. CASE x[1] = run /\ x[2] = "group"
        BY <1>2, <4>1, <4>3 DEF Named
      <4>4. CASE x[1] = run /\ x[2] # "group"
        <5>1. PICK i \in DOMAIN l : l[i] = x[3] /\ i < at
          BY <4>1, <4>4 DEF Named
        <5>2. x[2] = "check" /\ (Once(l, x[3]) => x[3] \in DOMAIN runs[run].entries
                                                /\ runs[run].entries[x[3]].monitor = x)
          BY <4>1, <4>4 DEF Named
        <5>3. i < X.at
          BY <1>1, <5>1
        <5>4. Once(l, x[3]) => x[3] # r
          BY <1>1, <5>1, OncePlace
        <5> QED  BY <1>2, <1>4, <4>4, <5>1, <5>2, <5>3, <5>4 DEF Named
      <4> QED  BY <4>2, <4>3, <4>4
    <3> QED  BY <3>1, <3>2, <3>3, <3>4 DEF RowOK
  <2> QED  BY <2>1, <2>2
<1>8. Unique'
  <2> SUFFICES ASSUME NEW x \in DOMAIN monitors', NEW y \in DOMAIN monitors', x # y,
                      monitors'[x].src # "none"
               PROVE  monitors'[x].src # monitors'[y].src
    BY DEF Unique
  <2>1. \A z \in G : monitors'[z].src = "none"
    BY DEF SrcOf
  <2>2. \A z \in C : z = <<run, "check", r>> /\ monitors'[z].src = r
    BY DEF SrcOf
  <2>3. x \notin G
    BY <2>1
  <2>4. CASE y \in G
    BY <2>1, <2>4
  <2>5. CASE x \in C /\ y \notin G
    BY <2>2, <2>5
  <2>6. CASE x \notin C /\ y \in C
    BY <2>2, <2>3, <2>6
  <2>7. CASE x \notin C /\ y \notin G \cup C
    BY <2>3, <2>7 DEF ImportInv, Unique
  <2> QED  BY <2>4, <2>5, <2>6, <2>7
<1>9. \A x \in DOMAIN monitors : x[2] = "check" => monitors'[x] = monitors[x] /\ x \in DOMAIN monitors'
  BY <1>5
<1>10. \A s \in DOMAIN pages' : PageOK(s)'
  BY <1>9 DEF ImportInv, PageOK
<1>11. \A q \in DOMAIN mapping' : MapOK(q)'
  BY <1>9 DEF ImportInv, MapOK, OfRecord
<1> QED  BY <1>2, <1>6, <1>7, <1>8, <1>10, <1>11 DEF ImportInv, BridgeOK

\* An import has no rows before it writes, and none that are committed until it is over.
LEMMA WhoseRows ==
    ASSUME ImportInv, NEW run \in Run, NEW x \in DOMAIN monitors, x[1] = run
    PROVE  /\ runs[run].stage \in Writing \cup {"done"}
           /\ runs[run].stage # "done" => monitors[x].owner = run
<1>1. monitors[x].owner \in Run \cup {NoOne} /\ Owned(x)
  BY DEF ImportInv, RowOK, RowOf
<1> QED  BY <1>1 DEF Owned, Over

\* The rows of the others are as they were to an import that only moves on.
LEMMA OtherRows ==
    ASSUME ImportInv, NEW run \in Run, NEW X, runs' = [runs EXCEPT ![run] = X],
           NEW x \in DOMAIN monitors, x[1] # run, x \in DOMAIN monitors',
           monitors'[x] = monitors[x], bridge' = bridge
    PROVE  RowOK(x)'
<1>1. x[1] \in Run => runs'[x[1]] = runs[x[1]]
  BY DEF ImportInv
<1>2. RowOK(x)
  BY DEF ImportInv
<1>3. Owned(x)'
  BY <1>1, <1>2 DEF RowOK, Owned, Over
<1> QED  BY <1>1, <1>2, <1>3 DEF RowOK, Named, Shaded

\* The other imports are as they were.
LEMMA OtherRuns ==
    ASSUME ImportInv, NEW run \in Run, NEW X, runs' = [runs EXCEPT ![run] = X], RunOK(run)'
    PROVE  DOMAIN runs' = Run /\ \A q \in Run : RunOK(q)'
<1>1. DOMAIN runs' = Run /\ \A q \in Run \ {run} : runs'[q] = runs[q] /\ RunOK(q)
  BY DEF ImportInv
<1>2. ASSUME NEW q \in Run \ {run} PROVE RunOK(q)'
  BY <1>1, <1>2 DEF RunOK, Remembers, Progress
<1> QED  BY <1>1, <1>2

\* An import that has not written yet may move on as it likes.
LEMMA Preparing ==
    ASSUME ImportInv, NEW run \in Run, runs[run].stage \in {"new", "reading", "loading"},
           NEW X, runs' = [runs EXCEPT ![run] = X], RunOK(run)',
           UNCHANGED <<fleet, monitors, pages, bridge, mapping>>
    PROVE  ImportInv'
<1>1. \A x \in DOMAIN monitors' : RowOK(x)'
  <2> SUFFICES ASSUME NEW x \in DOMAIN monitors PROVE RowOK(x)'
    OBVIOUS
  <2>1. x[1] # run
    BY WhoseRows DEF Writing
  <2> QED  BY <2>1, OtherRows
<1>2. Unique' /\ BridgeOK'
  BY DEF ImportInv, Unique, BridgeOK
<1>3. (\A s \in DOMAIN pages' : PageOK(s)') /\ (\A r \in DOMAIN mapping' : MapOK(r)')
  BY DEF ImportInv, PageOK, MapOK
<1> QED  BY <1>1, <1>2, <1>3, OtherRuns DEF ImportInv

\* Start: an import once, as a preview, or through the bridge there is.
LEMMA StartInv ==
    ASSUME ImportInv, NEW run \in Run, NEW mode \in {"once", "preview", "bridge"}, Start(run, mode)
    PROVE  ImportInv'
<1>1. PICK s : s = runs[run]
  OBVIOUS
<1>2. PICK b : b = IF mode = "bridge" THEN bridge.id ELSE 0
  OBVIOUS
<1>3. PICK X : X = [s EXCEPT !.stage = "reading", !.mode = mode, !.bridge = b]
  OBVIOUS
<1>4. s \in RunOf(s) /\ Remembers(run) /\ Progress(run)
  BY <1>1 DEF ImportInv, RunOK
<1>5. b \in Int /\ (mode = "bridge" => b > 0)
  BY <1>2 DEF Start, ImportInv, BridgeOK
<1>6. /\ X \in RunOf(X) /\ X.stage = "reading" /\ X.mode = mode /\ X.bridge = b
      /\ X.listing = s.listing /\ X.at = s.at /\ X.groups = s.groups
      /\ X.imported = s.imported /\ X.made = s.made /\ X.links = s.links
      /\ X.entries = s.entries
  BY <1>3, <1>4, <1>5 DEF RunOf, Stage
<1>7. runs' = [runs EXCEPT ![run] = X] /\ s.stage = "new"
  BY <1>1, <1>2, <1>3 DEF Start
<1>8. runs'[run] = X
  BY <1>7 DEF ImportInv
<1>9. Remembers(run)'
  BY <1>1, <1>4, <1>6, <1>8 DEF Remembers
<1>10. Progress(run)'
  BY <1>1, <1>4, <1>5, <1>6, <1>7, <1>8 DEF Progress
<1> QED  BY <1>1, <1>6, <1>7, <1>8, <1>9, <1>10, Preparing DEF Start, RunOK

\* The adapter's read gives the listing.
LEMMA ReadSourceInv ==
    ASSUME ImportInv, NEW run \in Run, ReadSource(run)
    PROVE  ImportInv'
<1>1. PICK s : s = runs[run]
  OBVIOUS
<1>2. PICK l \in Listings : runs' = [runs EXCEPT ![run] = [runs[run] EXCEPT !.stage = "loading", !.listing = l]]
  BY DEF ReadSource
<1>3. PICK X : X = [s EXCEPT !.stage = "loading", !.listing = l]
  OBVIOUS
<1>4. s \in RunOf(s) /\ Remembers(run) /\ Progress(run)
  BY <1>1 DEF ImportInv, RunOK
<1>5. l \in Seq(Record)
  BY MigrationConstants
<1>6. /\ X \in RunOf(X) /\ X.stage = "loading" /\ X.mode = s.mode /\ X.bridge = s.bridge
      /\ X.listing = l /\ X.at = s.at /\ X.groups = s.groups
      /\ X.imported = s.imported /\ X.made = s.made /\ X.links = s.links
      /\ X.entries = s.entries
  BY <1>3, <1>4, <1>5 DEF RunOf, Stage
<1>7. runs' = [runs EXCEPT ![run] = X] /\ s.stage = "reading"
  BY <1>1, <1>2, <1>3 DEF ReadSource
<1>8. runs'[run] = X
  BY <1>7 DEF ImportInv
<1>9. Remembers(run)'
  BY <1>1, <1>4, <1>6, <1>8 DEF Remembers
<1>10. Progress(run)'
  <2>1. s.at = 1 /\ (s.mode = "bridge" => s.bridge > 0)
    BY <1>1, <1>4, <1>7 DEF Progress
  <2>2. \A i \in DOMAIN l : ~ (i < 1)
    BY <1>5
  <2> QED  BY <1>6, <1>8, <2>1, <2>2 DEF Progress
<1> QED  BY <1>1, <1>6, <1>7, <1>8, <1>9, <1>10, Preparing DEF ReadSource, RunOK

\* What the provenance of the rows gives is rows of the records asked for.
LEMMA LoadsRows ==
    ASSUME ImportInv, NEW run \in Run, NEW r \in DOMAIN LoadImported(run)
    PROVE  OfRecord(LoadImported(run)[r], r)
<1>1. PICK ids : ids = {x \in Visible(monitors, run) : monitors[x].src # "none"}
  OBVIOUS
<1>2. LoadImported(run) =
        [q \in {monitors[x].src : x \in ids} |-> CHOOSE x \in ids : monitors[x].src = q]
  BY <1>1 DEF LoadImported
<1>3. PICK y \in ids : monitors[y].src = r
  BY <1>2
<1>4. PICK x : x = CHOOSE z \in ids : monitors[z].src = r
  OBVIOUS
<1>5. x \in ids /\ monitors[x].src = r
  BY <1>3, <1>4
<1>6. x \in DOMAIN monitors /\ r # "none"
  BY <1>1, <1>5 DEF Visible
<1>7. monitors[x].src = SrcOf(x)
  BY <1>6 DEF ImportInv, RowOK
<1>8. LoadImported(run)[r] = x
  BY <1>2, <1>4
<1> QED  BY <1>5, <1>6, <1>7, <1>8 DEF SrcOf, OfRecord

\* What was imported before is read at the start, as it is then.
LEMMA LoadInv ==
    ASSUME ImportInv, NEW run \in Run, Load(run)
    PROVE  ImportInv'
<1>1. PICK s : s = runs[run]
  OBVIOUS
<1>2. PICK I, K, F : I = LoadImported(run) /\ K = LoadExisting(run) /\ F = Folders(run)
  OBVIOUS
<1>3. PICK X : X = [s EXCEPT !.stage = "checks", !.imported = I, !.known = K, !.folders = F]
  OBVIOUS
<1>4. s \in RunOf(s) /\ Remembers(run) /\ Progress(run)
  BY <1>1 DEF ImportInv, RunOK
<1>6. /\ X \in RunOf(X) /\ X.stage = "checks" /\ X.mode = s.mode /\ X.bridge = s.bridge
      /\ X.listing = s.listing /\ X.at = s.at /\ X.groups = s.groups
      /\ X.imported = I /\ X.made = s.made /\ X.links = s.links
      /\ X.entries = s.entries
  BY <1>3, <1>4 DEF RunOf, Stage
<1>7. runs' = [runs EXCEPT ![run] = X] /\ s.stage = "loading"
  BY <1>1, <1>2, <1>3 DEF Load
<1>8. runs'[run] = X
  BY <1>7 DEF ImportInv
<1>9. Remembers(run)'
  BY <1>1, <1>2, <1>4, <1>6, <1>8, LoadsRows DEF Remembers
<1>10. Progress(run)'
  BY <1>1, <1>4, <1>6, <1>7, <1>8 DEF Progress
<1> QED  BY <1>1, <1>6, <1>7, <1>8, <1>9, <1>10, Preparing DEF Load, RunOK

\* The groups made on the way to a path are the import's own, and of no record.
LEMMA GroupsMade ==
    ASSUME NEW run \in Run, NEW path, NEW fault
    PROVE  LET g == Resolve(run, path, fault)
           IN  \A x \in DOMAIN g.made :
                  /\ x[1] = run /\ x[2] = "group"
                  /\ g.made[x] \in RowOf(g.made[x])
                  /\ g.made[x].owner = run /\ g.made[x].src = "none" /\ g.made[x].shadow = Never
<1>1. PICK w : w = Resolving(run, path, fault)
  OBVIOUS
<1>2. PICK g : g = Resolve(run, path, fault)
  OBVIOUS
<1>3. CASE ~ w.ok
  <2>1. g.made = Empty
    BY <1>1, <1>2, <1>3 DEF Resolve
  <2> QED  BY <1>2, <2>1 DEF Empty
<1>4. CASE w.ok
  <2>1. g.made = GroupRows(run, w.made)
    BY <1>1, <1>2, <1>4 DEF Resolve
  <2>2. PICK m : m = w.made
    OBVIOUS
  <2>3. ASSUME NEW x \in DOMAIN g.made
        PROVE  /\ x[1] = run /\ x[2] = "group"
               /\ g.made[x] = [owner |-> run, src |-> "none", key |-> Last(x[3]), type |-> "group",
                               parent |-> m[x[3]], shadow |-> Never, paused |-> FALSE]
    BY <2>1, <2>2, <2>3 DEF GroupRows, GroupId
  <2>4. ASSUME NEW x \in DOMAIN g.made
        PROVE  /\ g.made[x] \in RowOf(g.made[x])
               /\ g.made[x].owner = run /\ g.made[x].src = "none" /\ g.made[x].shadow = Never
    <3>1. PICK k, p, m0 : k = Last(x[3]) /\ p = m[x[3]] /\ m0 = g.made[x]
      OBVIOUS
    <3>2. m0 = [owner |-> run, src |-> "none", key |-> k, type |-> "group", parent |-> p,
                shadow |-> Never, paused |-> FALSE]
      BY <2>3, <2>4, <3>1
    <3> QED  BY <3>1, <3>2 DEF RowOf, Never
  <2> QED  BY <1>2, <2>3, <2>4
<1> QED  BY <1>3, <1>4

\* The import run, as s and with the groups in made, is about to report.
Readied(run, s, made) ==
    /\ runs[run].stage = "checks" /\ runs[run].at <= Len(runs[run].listing)
    /\ s \in RunOf(s) /\ s.stage = "checks" /\ s.mode = runs[run].mode
    /\ s.bridge = runs[run].bridge /\ s.listing = runs[run].listing /\ s.at = runs[run].at
    /\ s.imported = runs[run].imported /\ s.links = runs[run].links
    /\ s.entries = runs[run].entries
    /\ \A q \in DOMAIN s.made : OfRecord(s.made[q], q)
    /\ s.groups = runs[run].groups \cup DOMAIN made
    /\ \A x \in DOMAIN made :
          /\ x[1] = run /\ x[2] = "group"
          /\ made[x] \in RowOf(made[x])
          /\ made[x].owner = run /\ made[x].src = "none" /\ made[x].shadow = Never
    /\ UNCHANGED <<fleet, pages, bridge, mapping>>

\* A report on the next record that makes no row for it.
Refused(run, s, made, e) ==
    /\ Readied(run, s, made)
    /\ e.monitor = NoId
    /\ runs' = [runs EXCEPT ![run] =
                   [s EXCEPT !.entries = Put(s.entries, s.listing[s.at], e), !.at = s.at + 1]]
    /\ monitors' = Added(monitors, made) \/ (made = Empty /\ monitors' = monitors)

\* A record refused leaves at most the groups made for it.
LEMMA RefusedInv ==
    ASSUME ImportInv, NEW run \in Run, NEW s, NEW made, NEW e, Refused(run, s, made, e)
    PROVE  ImportInv'
<1> USE DEF Refused, Readied
<1>1. PICK r : r = runs[run].listing[runs[run].at]
  OBVIOUS
<1>2. PICK E : E = Put(s.entries, r, e)
  OBVIOUS
<1>3. PICK n \in Nat : n = s.at + 1
  BY DEF RunOf
<1>4. PICK X : X = [s EXCEPT !.entries = E, !.at = n]
  OBVIOUS
<1>5. /\ X \in RunOf(X)
      /\ X.stage = s.stage /\ X.mode = s.mode /\ X.bridge = s.bridge
      /\ X.listing = s.listing /\ X.at = n /\ X.groups = s.groups
      /\ X.imported = s.imported /\ X.made = s.made /\ X.links = s.links
      /\ X.entries = E
  BY <1>4 DEF RunOf
<1>6. runs' = [runs EXCEPT ![run] = X]
  BY <1>1, <1>2, <1>3, <1>4
<1>7. /\ DOMAIN monitors' = DOMAIN monitors \cup DOMAIN made
      /\ \A x \in DOMAIN monitors \ DOMAIN made : monitors'[x] = monitors[x]
      /\ \A x \in DOMAIN made : monitors'[x] = made[x]
  <2>1. CASE monitors' = Added(monitors, made)
    BY <2>1 DEF Added
  <2>2. CASE made = Empty /\ monitors' = monitors
    <3>1. DOMAIN made = {}
      BY <2>2 DEF Empty
    <3> QED  BY <2>2, <3>1
  <2> QED  BY <2>1, <2>2
<1>8. \A x \in DOMAIN made : /\ monitors'[x] \in RowOf(monitors'[x])
                             /\ monitors'[x].src = SrcOf(x)
                             /\ monitors'[x].owner = run
                             /\ monitors'[x].shadow = Never
  BY <1>7 DEF SrcOf
<1> HIDE DEF Put
<1>9. PICK G, C : G = DOMAIN made /\ C = {}
  OBVIOUS
<1>10. Told(run, r, X, e, G, C)
  BY <1>1, <1>2, <1>3, <1>5, <1>6, <1>7, <1>8, <1>9 DEF Told
<1> QED  BY <1>10, Reporting

\* createMonitor stored the row of the next record, which had none.
LEMMA StoredInv ==
    ASSUME ImportInv, NEW run \in Run, NEW s, NEW g, NEW outcome, NEW r,
           Readied(run, s, g.made), r = s.listing[s.at],
           Store(run, r, s, g, outcome),
           \A x \in DOMAIN monitors : monitors[x].src # r
    PROVE  ImportInv'
<1> USE DEF Readied
<1>1. PICK id, c, made, e :
         /\ id = <<run, "check", r>> /\ c = fleet.checks[r] /\ made = g.made
         /\ e = [outcome |-> outcome, monitor |-> id, lost |-> NoId]
  OBVIOUS
<1>2. PICK E, M, K : /\ E = Put(s.entries, r, e) /\ M = Put(s.made, r, id)
                     /\ K = s.known \cup {<<c.key, id>>}
  OBVIOUS
<1>3. PICK n \in Nat : n = s.at + 1
  BY DEF RunOf
<1>4. PICK t : t = [s EXCEPT !.known = K, !.made = M]
  OBVIOUS
<1>5. /\ t \in RunOf(t)
      /\ t.stage = s.stage /\ t.mode = s.mode /\ t.bridge = s.bridge
      /\ t.listing = s.listing /\ t.at = s.at /\ t.groups = s.groups
      /\ t.imported = s.imported /\ t.made = M /\ t.links = s.links
      /\ t.entries = s.entries
  BY <1>4 DEF RunOf
<1>6. PICK X : X = [t EXCEPT !.entries = E, !.at = n]
  OBVIOUS
<1>7. /\ X \in RunOf(X)
      /\ X.stage = s.stage /\ X.mode = s.mode /\ X.bridge = s.bridge
      /\ X.listing = s.listing /\ X.at = n /\ X.groups = s.groups
      /\ X.imported = s.imported /\ X.made = M /\ X.links = s.links
      /\ X.entries = E
  BY <1>5, <1>6 DEF RunOf
<1>8. runs' = [runs EXCEPT ![run] = X]
  BY <1>1, <1>2, <1>3, <1>4, <1>5, <1>6 DEF Store, Report
<1>9. PICK p, u, m0 : /\ p = g.parent /\ u = c.paused
                      /\ m0 = [owner |-> run, src |-> r, key |-> c.key, type |-> "check",
                               parent |-> p, shadow |-> Never, paused |-> u]
  OBVIOUS
<1>10. r \in Record
  BY DEF RunOf, ImportInv, RunOK, Progress
<1>11. m0 \in RowOf(m0) /\ m0.owner = run /\ m0.src = r /\ m0.shadow = Never
  BY <1>9, <1>10 DEF RowOf, Never
<1>12. monitors' = Put(Added(monitors, made), id, m0)
  BY <1>1, <1>9 DEF Store
<1>13. /\ DOMAIN monitors' = DOMAIN monitors \cup DOMAIN made \cup {id}
       /\ monitors'[id] = m0
       /\ \A x \in DOMAIN made \ {id} : monitors'[x] = made[x]
       /\ \A x \in DOMAIN monitors \ (DOMAIN made \cup {id}) : monitors'[x] = monitors[x]
  BY <1>12 DEF Put, Added
<1>14. id \notin DOMAIN made
  BY <1>1
<1>15. PICK G, C : G = DOMAIN made /\ C = {id}
  OBVIOUS
<1>16. \A x \in G \cup C : /\ monitors'[x] \in RowOf(monitors'[x])
                           /\ monitors'[x].src = SrcOf(x)
                           /\ monitors'[x].owner = run
                           /\ monitors'[x].shadow = Never
  <2>1. SrcOf(id) = r
    BY <1>1 DEF SrcOf
  <2>2. \A x \in DOMAIN made : SrcOf(x) = "none"
    BY <1>1 DEF SrcOf
  <2> QED  BY <1>1, <1>11, <1>13, <1>14, <1>15, <2>1, <2>2
<1>17. \A q \in DOMAIN X.made : OfRecord(X.made[q], q)
  <2>1. OfRecord(id, r)
    BY <1>1 DEF OfRecord
  <2> QED  BY <1>2, <1>7, <2>1 DEF Put
<1>18. /\ X.at = runs[run].at + 1 /\ X.entries = Put(runs[run].entries, r, e)
       /\ X.groups = runs[run].groups \cup G
       /\ e.monitor = <<run, "check", r>> /\ C = {<<run, "check", r>>}
  BY <1>1, <1>2, <1>3, <1>7, <1>15
<1>19. Told(run, r, X, e, G, C)
  BY <1>1, <1>7, <1>8, <1>13, <1>15, <1>16, <1>17, <1>18 DEF Told
<1> QED  BY <1>19, Reporting

\* An import whose groups do not matter to the record is ready as it is.
LEMMA ReadyAsIs ==
    ASSUME ImportInv, NEW run \in Run, runs[run].stage = "checks",
           runs[run].at <= Len(runs[run].listing), UNCHANGED <<fleet, pages, bridge, mapping>>
    PROVE  Readied(run, runs[run], Empty)
<1>1. RunOK(run) /\ DOMAIN Empty = {}
  BY DEF ImportInv, Empty
<1> QED  BY <1>1 DEF Readied, RunOK, Remembers

\* The victim of a deadlock is a refused record.
LEMMA VictimInv ==
    ASSUME ImportInv, NEW run \in Run, Victim(run)
    PROVE  ImportInv'
<1>1. PICK s, e : /\ s = runs[run]
                  /\ e = [outcome |-> "skipped", monitor |-> NoId, lost |-> NoId]
  OBVIOUS
<1>2. Readied(run, s, Empty)
  BY <1>1, ReadyAsIs DEF Victim
<1>3. Refused(run, s, Empty, e)
  BY <1>1, <1>2 DEF Victim, Report, Refused
<1> QED  BY <1>3, RefusedInv

\* importCheck, whichever way it ends.
LEMMA ImportCheckInv ==
    ASSUME ImportInv, NEW run \in Run, NEW fault, NEW stores, ImportCheck(run, fault, stores)
    PROVE  ImportInv'
<1>1. PICK self, r, c, t :
         /\ self = runs[run] /\ r = runs[run].listing[runs[run].at]
         /\ c = fleet.checks[r] /\ t = c.becomes
  OBVIOUS
<1>2. PICK g : g = Resolve(run, c.path, fault)
  OBVIOUS
<1>3. PICK P, GG : P = g.paths /\ GG = self.groups \cup DOMAIN g.made
  OBVIOUS
<1>4. PICK grouped : grouped = [self EXCEPT !.paths = P, !.groups = GG]
  OBVIOUS
<1>5. PICK e : e = [outcome |-> "skipped", monitor |-> NoId, lost |-> NoId]
  OBVIOUS
<1>6. self.stage = "checks" /\ self.at <= Len(self.listing)
      /\ UNCHANGED <<fleet, pages, bridge, mapping>>
  BY <1>1 DEF ImportCheck
<1>7. self \in RunOf(self) /\ Remembers(run) /\ Progress(run)
  BY <1>1 DEF ImportInv, RunOK
<1>8. Readied(run, self, Empty)
  BY <1>1, <1>6, ReadyAsIs
<1>9. Readied(run, grouped, g.made)
  <2>1. /\ grouped \in RunOf(grouped)
        /\ grouped.stage = self.stage /\ grouped.mode = self.mode /\ grouped.bridge = self.bridge
        /\ grouped.listing = self.listing /\ grouped.at = self.at /\ grouped.groups = GG
        /\ grouped.imported = self.imported /\ grouped.made = self.made
        /\ grouped.links = self.links /\ grouped.entries = self.entries
    BY <1>4, <1>7 DEF RunOf
  <2>2. \A x \in DOMAIN g.made :
           /\ x[1] = run /\ x[2] = "group"
           /\ g.made[x] \in RowOf(g.made[x])
           /\ g.made[x].owner = run /\ g.made[x].src = "none" /\ g.made[x].shadow = Never
    BY <1>2, GroupsMade
  <2> QED  BY <1>1, <1>3, <1>6, <1>7, <2>1, <2>2 DEF Readied, Remembers
<1>10. CASE r \in DOMAIN self.imported /\ AlreadyImported(run, r)
  <2>1. PICK M : M = Put(self.made, r, self.imported[r])
    OBVIOUS
  <2>2. PICK s : s = [self EXCEPT !.made = M]
    OBVIOUS
  <2>3. /\ s \in RunOf(s)
        /\ s.stage = self.stage /\ s.mode = self.mode /\ s.bridge = self.bridge
        /\ s.listing = self.listing /\ s.at = self.at /\ s.groups = self.groups
        /\ s.imported = self.imported /\ s.made = M
        /\ s.links = self.links /\ s.entries = self.entries
    BY <1>7, <2>2 DEF RunOf
  <2>4. \A q \in DOMAIN M : OfRecord(M[q], q)
    BY <1>1, <1>7, <1>10, <2>1 DEF Put, Remembers
  <2>5. Readied(run, s, Empty)
    BY <1>1, <1>8, <2>3, <2>4 DEF Readied
  <2>6. /\ runs' = [runs EXCEPT ![run] = Report(s, r, "skipped", NoId)]
        /\ monitors' = monitors
    BY <1>1, <1>10, <2>1, <2>2 DEF AlreadyImported
  <2>7. Refused(run, s, Empty, e)
    BY <1>1, <1>5, <2>3, <2>5, <2>6 DEF Refused, Report
  <2> QED  BY <2>7, RefusedInv
<1>11. CASE Skip(run, r, t)
  <2>1. PICK d : d = [outcome |-> t, monitor |-> NoId, lost |-> NoId]
    OBVIOUS
  <2>2. Refused(run, self, Empty, d)
    BY <1>1, <1>8, <1>11, <2>1 DEF Refused, Skip, Report
  <2> QED  BY <2>2, RefusedInv
<1>12. CASE /\ monitors' = Added(monitors, g.made)
            /\ \E o, p : runs' = [runs EXCEPT ![run] =
                  [grouped EXCEPT !.entries = Put(grouped.entries, r,
                                       [outcome |-> o, monitor |-> NoId, lost |-> p]),
                                  !.at = grouped.at + 1]]
  <2>1. PICK o, p : runs' = [runs EXCEPT ![run] =
                  [grouped EXCEPT !.entries = Put(grouped.entries, r,
                                       [outcome |-> o, monitor |-> NoId, lost |-> p]),
                                  !.at = grouped.at + 1]]
    BY <1>12
  <2>2. PICK d : d = [outcome |-> o, monitor |-> NoId, lost |-> p]
    OBVIOUS
  <2>3. d.monitor = NoId /\ r = grouped.listing[grouped.at]
    BY <1>1, <1>9, <2>2 DEF Readied
  <2>4. Refused(run, grouped, g.made, d)
    BY <1>9, <1>12, <2>1, <2>2, <2>3 DEF Refused
  <2> QED  BY <2>4, RefusedInv
<1>13. ASSUME NEW outcome, Store(run, r, grouped, g, outcome), ~ Waits(run, r), ~ Clashes(run, r)
       PROVE  ImportInv'
  <2>1. \A x \in DOMAIN monitors : monitors[x].src # r
    BY <1>13 DEF Waits, Clashes
  <2>2. r = grouped.listing[grouped.at]
    BY <1>1, <1>9 DEF Readied
  <2> QED  BY <1>9, <1>13, <2>1, <2>2, StoredInv
<1>14. PICK parented : parented = (g.parent = NoId \/ g.parent \in Visible(monitors, run) \cup DOMAIN g.made)
  OBVIOUS
<1>15. grouped = [self EXCEPT !.paths = g.paths, !.groups = self.groups \cup DOMAIN g.made]
  BY <1>3, <1>4
<1>16. \/ r \in DOMAIN self.imported /\ AlreadyImported(run, r)
       \/ Skip(run, r, t)
       \/ /\ monitors' = Added(monitors, g.made)
          /\ runs' = [runs EXCEPT ![run] = IF t = "skipped" THEN Report(grouped, r, t, NoId)
                                                           ELSE Duplicate(grouped, r, c.key)]
       \/ /\ monitors' = Added(monitors, g.made)
          /\ runs' = [runs EXCEPT ![run] = IF parented THEN Report(grouped, r, "skipped", NoId)
                                                       ELSE Orphaned(grouped, r, g.parent)]
       \/ /\ ~ Waits(run, r) /\ ~ Clashes(run, r)
          /\ Store(run, r, grouped, g, IF c.path = <<>> /\ ~ c.paused THEN t ELSE "transformed")
  BY <1>1, <1>2, <1>14, <1>15, Zenon DEF ImportCheck
<1> QED  BY <1>10, <1>11, <1>12, <1>13, <1>16 DEF Report, Duplicate, Orphaned

\* An import that goes on to the next stage.
LEMMA Advanced ==
    ASSUME ImportInv, NEW run \in Run, NEW stage \in Stage, Advance(run, stage)
    PROVE  /\ DOMAIN runs' = Run
           /\ \A q \in Run \ {run} : runs'[q] = runs[q]
           /\ runs'[run] \in RunOf(runs'[run])
           /\ runs'[run].stage = stage
           /\ runs'[run].mode = runs[run].mode /\ runs'[run].bridge = runs[run].bridge
           /\ runs'[run].listing = runs[run].listing /\ runs'[run].at = runs[run].at
           /\ runs'[run].groups = runs[run].groups /\ runs'[run].imported = runs[run].imported
           /\ runs'[run].made = runs[run].made /\ runs'[run].links = runs[run].links
           /\ runs'[run].entries = runs[run].entries
<1>1. PICK s : s = runs[run]
  OBVIOUS
<1>2. PICK X : X = [s EXCEPT !.stage = stage]
  OBVIOUS
<1>3. s \in RunOf(s) /\ DOMAIN runs = Run
  BY <1>1 DEF ImportInv, RunOK
<1>4. /\ X \in RunOf(X) /\ X.stage = stage /\ X.mode = s.mode /\ X.bridge = s.bridge
      /\ X.listing = s.listing /\ X.at = s.at /\ X.groups = s.groups
      /\ X.imported = s.imported /\ X.made = s.made /\ X.links = s.links
      /\ X.entries = s.entries
  BY <1>2, <1>3 DEF RunOf
<1>5. runs' = [runs EXCEPT ![run] = X]
  BY <1>1, <1>2 DEF Advance
<1>6. runs'[run] = X /\ DOMAIN runs' = Run /\ \A q \in Run \ {run} : runs'[q] = runs[q]
  BY <1>3, <1>5
<1> QED  BY <1>1, <1>4, <1>6

\* A page publishes what this import or an earlier one made of its records.
LEMMA ImportPagesInv ==
    ASSUME ImportInv, NEW run \in Run, NEW stores, ImportPages(run, stores)
    PROVE  ImportInv'
<1>1. PICK members, slug : /\ members = {runs[run].made[r] : r \in fleet.page \cap DOMAIN runs[run].made}
                           /\ slug = FreeSlug(run)
  OBVIOUS
<1>2. PICK stage : stage = IF runs[run].mode = "bridge" THEN "linking" ELSE "closing"
  OBVIOUS
<1>3. /\ runs[run].stage = "checks" /\ runs[run].at > Len(runs[run].listing)
      /\ Advance(run, stage) /\ UNCHANGED <<fleet, monitors, bridge, mapping>>
  BY <1>2 DEF ImportPages
<1>4. \/ pages' = pages
      \/ /\ pages' = Put(pages, slug, [owner |-> run, members |-> members])
         /\ Publishable(run, members)
  BY <1>1, Zenon DEF ImportPages
<1>5. stage \in Stage /\ stage \in {"linking", "closing"}
  BY <1>2 DEF Stage
<1>6. /\ DOMAIN runs' = Run
      /\ \A q \in Run \ {run} : runs'[q] = runs[q]
      /\ runs'[run] \in RunOf(runs'[run])
      /\ runs'[run].stage = stage
      /\ runs'[run].mode = runs[run].mode /\ runs'[run].bridge = runs[run].bridge
      /\ runs'[run].listing = runs[run].listing /\ runs'[run].at = runs[run].at
      /\ runs'[run].groups = runs[run].groups /\ runs'[run].imported = runs[run].imported
      /\ runs'[run].made = runs[run].made /\ runs'[run].links = runs[run].links
      /\ runs'[run].entries = runs[run].entries
  BY <1>3, <1>5, Advanced
<1>7. RunOK(run) /\ NoOne \notin Run
  BY MigrationConstants DEF ImportInv, NoOne
<1>8. RunOK(run)'
  <2>1. Remembers(run)'
    BY <1>6, <1>7 DEF RunOK, Remembers
  <2>2. Progress(run)'
    BY <1>2, <1>3, <1>5, <1>6, <1>7 DEF RunOK, Progress
  <2> QED  BY <1>6, <2>1, <2>2 DEF RunOK
<1>9. \A q \in Run : RunOK(q)'
  <2> SUFFICES ASSUME NEW q \in Run, q # run PROVE RunOK(q)'
    BY <1>8
  <2>1. RunOK(q) /\ runs'[q] = runs[q]
    BY <1>6 DEF ImportInv
  <2> QED  BY <2>1 DEF RunOK, Remembers, Progress
<1>10. \A x \in DOMAIN monitors' : RowOK(x)'
  <2> SUFFICES ASSUME NEW x \in DOMAIN monitors PROVE RowOK(x)'
    BY <1>3
  <2>1. RowOK(x) /\ monitors' = monitors /\ bridge' = bridge
    BY <1>3 DEF ImportInv
  <2>2. CASE x[1] # run
    <3>1. x[1] \in Run => runs'[x[1]] = runs[x[1]]
      BY <1>6, <2>2
    <3>2. Owned(x)'
      BY <2>1, <3>1 DEF RowOK, Owned, Over
    <3> QED  BY <2>1, <3>1, <3>2 DEF RowOK, Named, Shaded
  <2>3. CASE x[1] = run
    <3>1. monitors[x].owner = run
      BY <1>3, <2>3, WhoseRows
    <3>2. Owned(x)'
      BY <1>5, <1>6, <1>7, <2>1, <2>3, <3>1 DEF Owned, Writing
    <3>3. Named(x)'
      BY <1>5, <1>6, <2>1, <2>3 DEF RowOK, Named
    <3>4. Shaded(x)'
      BY <1>5, <1>6, <2>1, <2>3 DEF RowOK, Shaded
    <3> QED  BY <2>1, <3>2, <3>3, <3>4 DEF RowOK
  <2> QED  BY <2>2, <2>3
<1>11. Unique' /\ BridgeOK'
  BY <1>3 DEF ImportInv, Unique, BridgeOK
<1>12. \A r \in DOMAIN mapping' : MapOK(r)'
  BY <1>3 DEF ImportInv, MapOK
<1>13. \A s \in DOMAIN pages' : PageOK(s)'
  <2> SUFFICES ASSUME NEW s \in DOMAIN pages' PROVE PageOK(s)'
    OBVIOUS
  <2>1. CASE s \in DOMAIN pages /\ pages'[s] = pages[s]
    BY <1>3, <2>1 DEF ImportInv, PageOK
  <2>2. CASE /\ pages'[s] = [owner |-> run, members |-> members]
             /\ Publishable(run, members)
    <3>1. pages'[s] \in PageOf(pages'[s])
      BY <2>2 DEF PageOf
    <3>2. pages'[s].owner = run /\ pages'[s].members = members
      BY <2>2
    <3>3. \A x \in members : x[2] = "check" /\ x[3] \in fleet.page
      BY <1>1, <1>7 DEF RunOK, Remembers, OfRecord
    <3>4. \A x \in members : x \in DOMAIN monitors /\ monitors[x].owner \in {NoOne, run}
      BY <2>2 DEF Publishable, Visible
    <3> QED  BY <1>3, <3>1, <3>2, <3>3, <3>4 DEF PageOK
  <2> QED  BY <1>4, <2>1, <2>2 DEF Put
<1> QED  BY <1>6, <1>9, <1>10, <1>11, <1>12, <1>13 DEF ImportInv

\* An import that has not started is one.
LEMMA NewRunTyped ==
    /\ NewRun \in RunOf(NewRun) /\ NewRun.stage = "new" /\ NewRun.bridge = 0 /\ NewRun.at = 1
    /\ NewRun.imported = Empty /\ NewRun.made = Empty /\ NewRun.links = Empty
    /\ NewRun.entries = Empty /\ NewRun.groups = {} /\ NewRun.listing = <<>>
    /\ NewRun.mode = "once"
BY DEF NewRun, RunOf, Stage

\* What an import that is over leaves of itself.
LEMMA Remains ==
    ASSUME ImportInv, NEW run \in Run, NEW stage \in {"done", "failed"}, Ends(run, stage)
    PROVE  /\ DOMAIN runs' = Run
           /\ \A q \in Run \ {run} : runs'[q] = runs[q]
           /\ runs'[run].stage = stage /\ runs'[run].mode = runs[run].mode
           /\ runs'[run].listing = runs[run].listing /\ runs'[run].entries = runs[run].entries
           /\ runs'[run].groups = runs[run].groups
           /\ \A q \in Run : RunOK(q)'
<1>1. PICK s : s = runs[run]
  OBVIOUS
<1>2. PICK X : X = [NewRun EXCEPT !.stage = stage, !.mode = s.mode, !.listing = s.listing,
                                  !.entries = s.entries, !.groups = s.groups]
  OBVIOUS
<1>3. s \in RunOf(s) /\ DOMAIN runs = Run /\ Remembers(run)
  BY <1>1 DEF ImportInv, RunOK
<1>4. /\ X \in RunOf(X) /\ X.stage = stage /\ X.mode = s.mode /\ X.bridge = 0
      /\ X.listing = s.listing /\ X.at = 1 /\ X.groups = s.groups
      /\ X.imported = Empty /\ X.made = Empty /\ X.links = Empty
      /\ X.entries = s.entries
  <2>1. PICK m, l, E, G, n : /\ m = s.mode /\ l = s.listing /\ E = s.entries /\ G = s.groups
                             /\ n = NewRun
    OBVIOUS
  <2>2. m \in {"once", "preview", "bridge"} /\ l \in Seq(Record) /\ stage \in Stage
    BY <1>3, <2>1 DEF RunOf, Stage
  <2>3. /\ n \in RunOf(n) /\ n.bridge = 0 /\ n.at = 1
        /\ n.imported = Empty /\ n.made = Empty /\ n.links = Empty
    BY <2>1, NewRunTyped
  <2>4. X = [n EXCEPT !.stage = stage, !.mode = m, !.listing = l, !.entries = E, !.groups = G]
    BY <1>2, <2>1
  <2>5. /\ X \in RunOf(X) /\ X.stage = stage /\ X.mode = m /\ X.bridge = n.bridge
        /\ X.listing = l /\ X.at = n.at /\ X.groups = G
        /\ X.imported = n.imported /\ X.made = n.made /\ X.links = n.links
        /\ X.entries = E
    BY <2>2, <2>3, <2>4 DEF RunOf
  <2> QED  BY <2>1, <2>3, <2>5
<1>5. runs' = [runs EXCEPT ![run] = X]
  BY <1>1, <1>2 DEF Ends
<1>6. runs'[run] = X /\ DOMAIN runs' = Run /\ \A q \in Run \ {run} : runs'[q] = runs[q]
  BY <1>3, <1>5
<1>7. DOMAIN Empty = {}
  BY DEF Empty
<1>8. Remembers(run)'
  BY <1>1, <1>3, <1>4, <1>6, <1>7 DEF Remembers
<1>9. Progress(run)'
  <2>1. \A i \in DOMAIN s.listing : ~ (i < 1)
    BY <1>3 DEF RunOf
  <2> QED  BY <1>4, <1>6, <2>1 DEF Progress
<1>10. \A q \in Run : RunOK(q)'
  BY <1>4, <1>5, <1>6, <1>8, <1>9, OtherRuns DEF RunOK
<1> QED  BY <1>1, <1>4, <1>6, <1>10

\* An import that leaves nothing behind: it failed, or it was a preview.
LEMMA RolledBack ==
    ASSUME ImportInv, NEW run \in Run, NEW stage \in {"done", "failed"}, Ends(run, stage),
           runs[run].stage # "done",
           monitors' = Without(monitors, Own(monitors, run)),
           pages' = Without(pages, Own(pages, run)),
           UNCHANGED <<fleet, bridge, mapping>>
    PROVE  ImportInv'
<1>1. /\ DOMAIN runs' = Run
      /\ \A q \in Run \ {run} : runs'[q] = runs[q]
      /\ \A q \in Run : RunOK(q)'
  BY Remains
<1>2. /\ \A x \in DOMAIN monitors' : x \in DOMAIN monitors /\ monitors'[x] = monitors[x]
                                    /\ monitors[x].owner # run
      /\ \A x \in DOMAIN monitors : monitors[x].owner # run => x \in DOMAIN monitors'
  BY DEF Without, Own
<1>3. \A s \in DOMAIN pages' : s \in DOMAIN pages /\ pages'[s] = pages[s] /\ pages[s].owner # run
  BY DEF Without, Own
<1>4. NoOne \notin Run
  BY MigrationConstants DEF NoOne
<1>5. \A x \in DOMAIN monitors' : RowOK(x)'
  <2> SUFFICES ASSUME NEW x \in DOMAIN monitors' PROVE RowOK(x)'
    OBVIOUS
  <2>1. x[1] # run
    BY <1>2, WhoseRows
  <2>2. RowOK(x) /\ monitors'[x] = monitors[x] /\ (x[1] \in Run => runs'[x[1]] = runs[x[1]])
    BY <1>1, <1>2, <2>1 DEF ImportInv
  <2>3. Owned(x)'
    BY <2>2 DEF RowOK, Owned, Over
  <2> QED  BY <2>2, <2>3 DEF RowOK, Named, Shaded
<1>6. Unique' /\ BridgeOK'
  BY <1>2 DEF ImportInv, Unique, BridgeOK
<1>7. \A s \in DOMAIN pages' : PageOK(s)'
  BY <1>2, <1>3, <1>4 DEF ImportInv, PageOK
<1>8. \A r \in DOMAIN mapping' : MapOK(r)'
  BY <1>2, <1>4 DEF ImportInv, MapOK
<1> QED  BY <1>1, <1>5, <1>6, <1>7, <1>8 DEF ImportInv

\* What the commit of an import does to a row.
LEMMA KeptRow ==
    ASSUME ImportInv, NEW run \in Run, monitors' = Kept(monitors, run)
    PROVE  /\ DOMAIN monitors' = DOMAIN monitors
           /\ \A x \in DOMAIN monitors :
                 /\ monitors'[x] \in RowOf(monitors'[x])
                 /\ monitors'[x].owner = IF monitors[x].owner = run THEN NoOne ELSE monitors[x].owner
                 /\ monitors'[x].src = monitors[x].src /\ monitors'[x].shadow = monitors[x].shadow
<1>1. DOMAIN monitors' = DOMAIN monitors
  BY DEF Kept
<1>2. ASSUME NEW x \in DOMAIN monitors
      PROVE  /\ monitors'[x] \in RowOf(monitors'[x])
             /\ monitors'[x].owner = IF monitors[x].owner = run THEN NoOne ELSE monitors[x].owner
             /\ monitors'[x].src = monitors[x].src /\ monitors'[x].shadow = monitors[x].shadow
  <2>1. PICK m : m = monitors[x]
    OBVIOUS
  <2>2. m \in RowOf(m)
    BY <2>1 DEF ImportInv, RowOK
  <2>3. PICK n : n = monitors'[x]
    OBVIOUS
  <2>4. n = IF m.owner = run THEN [m EXCEPT !.owner = NoOne] ELSE m
    BY <2>1, <2>3 DEF Kept
  <2>5. /\ n \in RowOf(n) /\ n.owner = IF m.owner = run THEN NoOne ELSE m.owner
        /\ n.src = m.src /\ n.shadow = m.shadow
    BY <2>2, <2>4 DEF RowOf
  <2> QED  BY <2>1, <2>3, <2>5
<1> QED  BY <1>1, <1>2

\* An import that commits what it made.
LEMMA CommittedInv ==
    ASSUME ImportInv, NEW run \in Run, Ends(run, "done"),
           runs[run].stage \in {"closing", "linked"}, runs[run].mode # "preview",
           monitors' = Kept(monitors, run), pages' = Kept(pages, run),
           UNCHANGED <<fleet, bridge>>, \A r \in DOMAIN mapping' : MapOK(r)'
    PROVE  ImportInv'
<1>1. /\ DOMAIN runs' = Run
      /\ \A q \in Run \ {run} : runs'[q] = runs[q]
      /\ runs'[run].stage = "done" /\ runs'[run].mode = runs[run].mode
      /\ runs'[run].listing = runs[run].listing /\ runs'[run].entries = runs[run].entries
      /\ runs'[run].groups = runs[run].groups
      /\ \A q \in Run : RunOK(q)'
  BY Remains
<1>2. /\ DOMAIN monitors' = DOMAIN monitors
      /\ \A x \in DOMAIN monitors :
            /\ monitors'[x] \in RowOf(monitors'[x])
            /\ monitors'[x].owner = IF monitors[x].owner = run THEN NoOne ELSE monitors[x].owner
            /\ monitors'[x].src = monitors[x].src /\ monitors'[x].shadow = monitors[x].shadow
  BY KeptRow
<1>3. NoOne \notin Run
  BY MigrationConstants DEF NoOne
<1>4. \A x \in DOMAIN monitors' : RowOK(x)'
  <2> SUFFICES ASSUME NEW x \in DOMAIN monitors PROVE RowOK(x)'
    BY <1>2
  <2>1. RowOK(x) /\ RunOK(run)
    BY DEF ImportInv
  <2>2. CASE x[1] # run
    <3>1. x[1] \in Run => runs'[x[1]] = runs[x[1]]
      BY <1>1, <2>2
    <3>2. monitors[x].owner # run
      BY <2>1, <2>2 DEF RowOK, Owned
    <3>3. Owned(x)'
      BY <1>2, <2>1, <3>1, <3>2 DEF RowOK, Owned, Over
    <3>4. Shaded(x)'
      BY <1>2, <2>1, <3>1 DEF RowOK, Shaded
    <3> QED  BY <1>2, <2>1, <3>1, <3>3, <3>4 DEF RowOK, Named
  <2>3. CASE x[1] = run
    <3>1. monitors[x].owner = run
      BY <2>3, WhoseRows
    <3>2. Owned(x)'
      BY <1>1, <1>2, <1>3, <2>3, <3>1 DEF Owned, Over
    <3>3. Named(x)'
      BY <1>1, <2>1, <2>3 DEF RowOK, Named
    <3>4. Shaded(x)'
      <4>1. runs[run].stage = "closing" => runs[run].mode # "bridge"
        BY <2>1 DEF RunOK, Progress
      <4> QED  BY <1>1, <1>2, <2>1, <2>3, <4>1 DEF RowOK, Shaded
    <3> QED  BY <1>2, <2>1, <3>2, <3>3, <3>4 DEF RowOK
  <2> QED  BY <2>2, <2>3
<1>5. Unique'
  BY <1>2 DEF ImportInv, Unique
<1>6. \A s \in DOMAIN pages' : PageOK(s)'
  <2> SUFFICES ASSUME NEW s \in DOMAIN pages PROVE PageOK(s)'
    BY DEF Kept
  <2>1. PICK p, n : p = pages[s] /\ n = pages'[s]
    OBVIOUS
  <2>2. PageOK(s)
    BY DEF ImportInv
  <2>3. n = IF p.owner = run THEN [p EXCEPT !.owner = NoOne] ELSE p
    BY <2>1 DEF Kept
  <2>4. p \in PageOf(p)
    BY <2>1, <2>2 DEF PageOK
  <2>5. /\ n \in PageOf(n) /\ n.members = p.members
        /\ n.owner = IF p.owner = run THEN NoOne ELSE p.owner
    BY <2>3, <2>4 DEF PageOf
  <2> QED  BY <1>2, <2>1, <2>2, <2>5 DEF PageOK
<1> QED  BY <1>1, <1>4, <1>5, <1>6 DEF ImportInv, BridgeOK

\* The end of an import without a bridge: a rollback or a commit.
LEMMA CloseInv ==
    ASSUME ImportInv, NEW run \in Run, Close(run)
    PROVE  ImportInv'
<1>1. CASE runs[run].mode = "preview"
  BY <1>1, RolledBack DEF Close
<1>2. CASE runs[run].mode # "preview"
  <2>1. runs[run].stage = "closing" /\ monitors' = Kept(monitors, run) /\ pages' = Kept(pages, run)
        /\ Ends(run, "done") /\ UNCHANGED <<fleet, bridge, mapping>>
    BY <1>2 DEF Close
  <2>2. /\ DOMAIN monitors' = DOMAIN monitors
        /\ \A x \in DOMAIN monitors : monitors[x].owner = NoOne => monitors'[x].owner = NoOne
    BY <2>1, KeptRow
  <2>3. \A r \in DOMAIN mapping' : MapOK(r)'
    BY <2>1, <2>2 DEF ImportInv, MapOK
  <2> QED  BY <1>2, <2>1, <2>3, CommittedInv
<1> QED  BY <1>1, <1>2

\* A failure rolls everything back.
LEMMA FailsInv ==
    ASSUME ImportInv, NEW run \in Run, Fails(run) \/ LinkFails(run)
    PROVE  ImportInv'
BY RolledBack DEF Fails, LinkFails

\* The rows the report names go under the bridge, each with its record.
LEMMA LinkInv ==
    ASSUME ImportInv, NEW run \in Run, Link(run)
    PROVE  ImportInv'
<1>1. PICK s, L : s = runs[run] /\ L = [r \in Listed(runs[run]) |-> LinkOf(run, r)]
  OBVIOUS
<1>2. PICK X : X = [s EXCEPT !.stage = "linked", !.links = L]
  OBVIOUS
<1>3. s \in RunOf(s) /\ Remembers(run) /\ Progress(run) /\ DOMAIN runs = Run
  BY <1>1 DEF ImportInv, RunOK
<1>4. /\ X \in RunOf(X) /\ X.stage = "linked" /\ X.mode = s.mode /\ X.bridge = s.bridge
      /\ X.listing = s.listing /\ X.at = s.at /\ X.groups = s.groups
      /\ X.imported = s.imported /\ X.made = s.made /\ X.links = L
      /\ X.entries = s.entries
  BY <1>2, <1>3 DEF RunOf, Stage
<1>5. /\ runs' = [runs EXCEPT ![run] = X] /\ s.stage = "linking" /\ bridge.id = s.bridge
      /\ UNCHANGED <<fleet, pages, bridge, mapping>>
  BY <1>1, <1>2 DEF Link
<1>6. runs'[run] = X /\ DOMAIN runs' = Run /\ \A q \in Run \ {run} : runs'[q] = runs[q]
  BY <1>3, <1>5
<1>7. s.mode = "bridge" /\ bridge.id > 0 /\ bridge.id \in Int /\ bridge.id # Never
  BY <1>1, <1>3, <1>5 DEF Progress, Never, ImportInv, BridgeOK
<1>8. ASSUME NEW r \in Listed(s) PROVE LinkOf(run, r) = NoId \/ OfRecord(LinkOf(run, r), r)
  <2>1. PICK i \in DOMAIN s.listing : s.listing[i] = r
    BY DEF Listed
  <2>2. s.at > Len(s.listing) /\ s.listing \in Seq(Record) /\ s.at \in Nat
    BY <1>1, <1>3, <1>5 DEF Progress, RunOf
  <2>3. r \in DOMAIN s.entries
    <3>1. i < s.at
      BY <2>1, <2>2
    <3> QED  BY <1>1, <1>3, <2>1, <3>1 DEF Progress
  <2>4. s.entries[r].monitor \in {NoId, <<run, "check", r>>}
    BY <1>1, <1>3, <2>3 DEF Remembers
  <2>5. \/ LinkOf(run, r) = s.entries[r].monitor
        \/ LinkOf(run, r) = NoId
        \/ r \in DOMAIN LoadImported(run) /\ LinkOf(run, r) = LoadImported(run)[r]
    BY <1>1, Zenon DEF LinkOf
  <2>6. OfRecord(<<run, "check", r>>, r)
    BY DEF OfRecord
  <2> QED  BY <2>4, <2>5, <2>6, LoadsRows
<1>9. RunOK(run)'
  <2>1. DOMAIN L = Listed(s) /\ \A r \in DOMAIN L : L[r] = NoId \/ OfRecord(L[r], r)
    BY <1>1, <1>8
  <2>2. Remembers(run)'
    BY <1>1, <1>3, <1>4, <1>6, <2>1 DEF Remembers
  <2>3. Listed(X) = Listed(s)
    BY <1>4 DEF Listed
  <2>4. Progress(run)'
    BY <1>1, <1>3, <1>4, <1>5, <1>6, <1>7, <2>1, <2>3 DEF Progress
  <2> QED  BY <1>4, <1>6, <2>2, <2>4 DEF RunOK
<1>10. \A q \in Run : RunOK(q)'
  BY <1>5, <1>9, OtherRuns
<1>11. ASSUME NEW x \in DOMAIN monitors
       PROVE  /\ monitors'[x] \in RowOf(monitors'[x])
              /\ monitors'[x].owner = monitors[x].owner /\ monitors'[x].src = monitors[x].src
              /\ monitors'[x].shadow = IF x \in Created(run) THEN bridge.id ELSE monitors[x].shadow
  <2>1. PICK m, n, b : m = monitors[x] /\ n = monitors'[x] /\ b = bridge.id
    OBVIOUS
  <2>2. m \in RowOf(m) /\ b \in Int
    BY <1>7, <2>1 DEF ImportInv, RowOK
  <2>3. n = IF x \in Created(run) THEN [m EXCEPT !.shadow = b] ELSE m
    BY <2>1 DEF Link
  <2>4. /\ n \in RowOf(n) /\ n.owner = m.owner /\ n.src = m.src
        /\ n.shadow = IF x \in Created(run) THEN b ELSE m.shadow
    BY <2>2, <2>3 DEF RowOf
  <2> QED  BY <2>1, <2>4
<1>12. DOMAIN monitors' = DOMAIN monitors
  BY DEF Link
<1>13. \A x \in Created(run) : x[1] = run
  <2> SUFFICES ASSUME NEW x \in Created(run) PROVE x[1] = run
    OBVIOUS
  <2>1. CASE x \in s.groups
    BY <1>1, <1>3, <2>1 DEF Remembers
  <2>2. CASE x \notin s.groups
    <3>1. PICK r \in DOMAIN s.entries : x = s.entries[r].monitor /\ x # NoId
      BY <1>1, <2>2 DEF Created
    <3>2. x = <<run, "check", r>>
      BY <1>1, <1>3, <3>1 DEF Remembers
    <3> QED  BY <3>2
  <2> QED  BY <2>1, <2>2
<1>14. \A x \in DOMAIN monitors' : RowOK(x)'
  <2> SUFFICES ASSUME NEW x \in DOMAIN monitors PROVE RowOK(x)'
    BY <1>12
  <2>1. RowOK(x)
    BY DEF ImportInv
  <2>2. CASE x[1] # run
    <3>1. x[1] \in Run => runs'[x[1]] = runs[x[1]]
      BY <1>6, <2>2
    <3>2. x \notin Created(run)
      BY <1>13, <2>2
    <3>3. Owned(x)'
      BY <1>11, <2>1, <3>1 DEF RowOK, Owned, Over
    <3>4. Shaded(x)'
      BY <1>5, <1>11, <2>1, <3>1, <3>2 DEF RowOK, Shaded
    <3> QED  BY <1>11, <2>1, <3>1, <3>3, <3>4 DEF RowOK, Named
  <2>3. CASE x[1] = run
    <3>1. monitors[x].owner = run /\ NoOne \notin Run
      BY <1>1, <1>5, <2>3, WhoseRows, MigrationConstants DEF NoOne
    <3>2. Owned(x)'
      BY <1>4, <1>6, <1>11, <2>3, <3>1 DEF Owned, Writing
    <3>3. Named(x)'
      BY <1>1, <1>4, <1>6, <2>1, <2>3 DEF RowOK, Named
    <3>4. (x[2] = "check" => Once(s.listing, x[3])) => x \in Created(run)
      <4>1. Named(x)
        BY <2>1, <2>3 DEF RowOK
      <4>2. x[2] = "check" => x # NoId
        BY DEF NoId
      <4> QED  BY <1>1, <2>3, <4>1, <4>2 DEF Named, Created
    <3>5. Shaded(x)'
      BY <1>1, <1>4, <1>5, <1>6, <1>7, <1>11, <2>1, <2>3, <3>4 DEF RowOK, Shaded
    <3> QED  BY <1>11, <2>1, <3>2, <3>3, <3>5 DEF RowOK
  <2> QED  BY <2>2, <2>3
<1>15. Unique'
  BY <1>11, <1>12 DEF ImportInv, Unique
<1>16. \A p \in DOMAIN pages' : PageOK(p)'
  BY <1>5, <1>11, <1>12 DEF ImportInv, PageOK
<1>17. \A r \in DOMAIN mapping' : MapOK(r)'
  BY <1>5, <1>11, <1>12 DEF ImportInv, MapOK
<1> QED  BY <1>5, <1>6, <1>10, <1>14, <1>15, <1>16, <1>17 DEF ImportInv, BridgeOK

\* The mapping takes rows that are visible, and they are committed with it.
LEMMA LinkCommitsInv ==
    ASSUME ImportInv, NEW run \in Run, LinkCommits(run)
    PROVE  ImportInv'
<1>1. /\ runs[run].stage = "linked" /\ Ends(run, "done")
      /\ monitors' = Kept(monitors, run) /\ pages' = Kept(pages, run)
      /\ mapping' = Added(mapping, [r \in Listed(runs[run]) |-> Mapped(run, r)])
      /\ UNCHANGED <<fleet, bridge>>
  BY DEF LinkCommits
<1>2. /\ DOMAIN monitors' = DOMAIN monitors
      /\ \A x \in DOMAIN monitors :
            /\ monitors'[x].owner = IF monitors[x].owner = run THEN NoOne ELSE monitors[x].owner
  BY <1>1, KeptRow
<1>3. Remembers(run) /\ Progress(run) /\ NoOne \notin Run
  BY MigrationConstants DEF ImportInv, RunOK, NoOne
<1>4. ASSUME NEW r \in Listed(runs[run])
      PROVE  /\ Mapped(run, r) \in MapOf(Mapped(run, r))
             /\ Mapped(run, r).monitor # NoId =>
                   /\ Mapped(run, r).monitor \in DOMAIN monitors
                   /\ OfRecord(Mapped(run, r).monitor, r)
                   /\ monitors[Mapped(run, r).monitor].owner \in {NoOne, run}
  <2>1. PICK link, old :
          /\ link = IF runs[run].links[r] \in Visible(monitors, run) THEN runs[run].links[r] ELSE NoId
          /\ old = IF r \in DOMAIN mapping THEN mapping[r] ELSE [monitor |-> NoId, compared |-> FALSE]
    OBVIOUS
  <2>2. PICK o, k, m :
          /\ o = runs[run].entries[r].outcome
          /\ k = (old.compared \/ (link # NoId /\ fleet.checks[r].kind # "heartbeat"))
          /\ m = IF link # NoId THEN link ELSE old.monitor
    OBVIOUS
  <2>3. Mapped(run, r) = [monitor |-> m, outcome |-> o, compared |-> k]
    BY <2>1, <2>2, Zenon DEF Mapped
  <2>4. Mapped(run, r) \in MapOf(Mapped(run, r)) /\ Mapped(run, r).monitor = m
    BY <2>3 DEF MapOf
  <2>5. r \in DOMAIN runs[run].links
    BY <1>1, <1>3 DEF Progress
  <2>6. link # NoId => /\ link \in DOMAIN monitors /\ monitors[link].owner \in {NoOne, run}
                       /\ OfRecord(link, r)
    BY <1>3, <2>1, <2>5 DEF Visible, Remembers
  <2>7. old.monitor # NoId => /\ old.monitor \in DOMAIN monitors /\ OfRecord(old.monitor, r)
                              /\ monitors[old.monitor].owner = NoOne
    BY <2>1 DEF ImportInv, MapOK
  <2> QED  BY <2>2, <2>4, <2>6, <2>7
<1>5. \A r \in DOMAIN mapping' : MapOK(r)'
  <2> SUFFICES ASSUME NEW r \in DOMAIN mapping' PROVE MapOK(r)'
    OBVIOUS
  <2>1. CASE r \in Listed(runs[run])
    <3>1. mapping'[r] = Mapped(run, r)
      BY <1>1, <2>1 DEF Added
    <3> QED  BY <1>2, <1>4, <2>1, <3>1 DEF MapOK
  <2>2. CASE r \notin Listed(runs[run])
    <3>1. r \in DOMAIN mapping /\ mapping'[r] = mapping[r]
      BY <1>1, <2>2 DEF Added
    <3> QED  BY <1>2, <3>1 DEF ImportInv, MapOK
  <2> QED  BY <2>1, <2>2
<1>6. runs[run].mode # "preview"
  BY <1>1, <1>3 DEF Progress
<1> QED  BY <1>1, <1>5, <1>6, CommittedInv

\* What does not touch the rows, their mapping and the imports.
LEMMA BridgeOnly ==
    ASSUME ImportInv, UNCHANGED <<fleet, monitors, pages, runs>>, BridgeOK',
           mapping' = mapping \/ mapping' = Empty,
           \A x \in DOMAIN monitors : monitors[x].shadow > 0 => bridge'.id = bridge.id
    PROVE  ImportInv'
<1>1. \A q \in Run : RunOK(q)'
  BY DEF ImportInv, RunOK, Remembers, Progress
<1>2. \A x \in DOMAIN monitors' : RowOK(x)'
  <2> SUFFICES ASSUME NEW x \in DOMAIN monitors PROVE RowOK(x)'
    OBVIOUS
  <2>1. RowOK(x)
    BY DEF ImportInv
  <2>2. Shaded(x)'
    BY <2>1 DEF RowOK, Shaded
  <2>3. Owned(x)'
    BY <2>1 DEF RowOK, Owned, Over
  <2> QED  BY <2>1, <2>2, <2>3 DEF RowOK, Named
<1>3. \A r \in DOMAIN mapping' : MapOK(r)'
  BY DEF ImportInv, MapOK, Empty
<1> QED  BY <1>1, <1>2, <1>3 DEF ImportInv, Unique, PageOK

\* The bridge is connected, disconnected, deleted; nothing in shadow loses it.
LEMMA BridgeStepInv ==
    ASSUME ImportInv, ConnectBridge \/ DisconnectBridge \/ DeleteBridge
    PROVE  ImportInv'
<1>1. /\ bridge \in [id : Int, connected : BOOLEAN]
      /\ \A x \in DOMAIN monitors : monitors[x].shadow > 0 => monitors[x].shadow = bridge.id
  BY DEF ImportInv, BridgeOK, RowOK, Shaded
<1>2. CASE ConnectBridge
  <2>1. BridgeOK' /\ (bridge.id > 0 => bridge'.id = bridge.id)
    <3>1. CASE bridge.id > 0
      BY <1>1, <1>2, <3>1 DEF ConnectBridge, BridgeOK
    <3>2. CASE ~ (bridge.id > 0)
      <4>1. PICK n \in Int : n = 1 - bridge.id
        BY <1>1
      <4>2. bridge' = [id |-> n, connected |-> TRUE] /\ n > 0
        BY <1>1, <1>2, <3>2, <4>1 DEF ConnectBridge
      <4> QED  BY <3>2, <4>2 DEF BridgeOK
    <3> QED  BY <3>1, <3>2
  <2>2. \A x \in DOMAIN monitors : monitors[x].shadow > 0 => bridge'.id = bridge.id
    BY <1>1, <2>1
  <2> QED  BY <1>2, <2>1, <2>2, BridgeOnly DEF ConnectBridge
<1>3. CASE DisconnectBridge
  <2>1. BridgeOK' /\ bridge'.id = bridge.id
    BY <1>1, <1>3 DEF DisconnectBridge, BridgeOK
  <2> QED  BY <1>3, <2>1, BridgeOnly DEF DisconnectBridge
<1>4. CASE DeleteBridge
  <2>1. BridgeOK'
    BY <1>1, <1>4 DEF DeleteBridge, BridgeOK
  <2>2. \A x \in DOMAIN monitors : ~ (monitors[x].shadow > 0)
    BY <1>1, <1>4 DEF DeleteBridge, Deletable
  <2> QED  BY <1>4, <2>1, <2>2, BridgeOnly DEF DeleteBridge
<1> QED  BY <1>2, <1>3, <1>4

\* What keeps of every row whose it is and of what record.
LEMMA SameRows ==
    ASSUME ImportInv, UNCHANGED <<fleet, pages, bridge, mapping, runs>>,
           DOMAIN monitors' = DOMAIN monitors,
           \A x \in DOMAIN monitors :
              /\ monitors'[x] \in RowOf(monitors'[x])
              /\ monitors'[x].owner = monitors[x].owner /\ monitors'[x].src = monitors[x].src
              /\ monitors'[x].shadow = monitors[x].shadow
                 \/ (monitors[x].shadow > 0 /\ monitors'[x].shadow = Ended)
    PROVE  ImportInv'
<1>1. \A q \in Run : RunOK(q)'
  BY DEF ImportInv, RunOK, Remembers, Progress
<1>2. \A x \in DOMAIN monitors' : RowOK(x)'
  <2> SUFFICES ASSUME NEW x \in DOMAIN monitors PROVE RowOK(x)'
    OBVIOUS
  <2>1. RowOK(x)
    BY DEF ImportInv
  <2>2. Shaded(x)'
    <3>1. CASE monitors'[x].shadow = monitors[x].shadow
      BY <2>1, <3>1 DEF RowOK, Shaded
    <3>2. CASE monitors[x].shadow > 0 /\ monitors'[x].shadow = Ended
      BY <2>1, <3>2 DEF RowOK, Shaded, Ended, Never
    <3> QED  BY <3>1, <3>2
  <2>3. Owned(x)'
    BY <2>1 DEF RowOK, Owned, Over
  <2>4. x[1] \in Run => Named(x)'
    BY <2>1 DEF RowOK, Named
  <2> QED  BY <2>1, <2>2, <2>3, <2>4 DEF RowOK
<1>3. \A s \in DOMAIN pages' : PageOK(s)'
  BY DEF ImportInv, PageOK
<1>4. \A r \in DOMAIN mapping' : MapOK(r)'
  BY DEF ImportInv, MapOK
<1> QED  BY <1>1, <1>2, <1>3, <1>4 DEF ImportInv, Unique, BridgeOK

\* A cutover or an abandonment ends the shadow of committed rows.
LEMMA EndShadowInv ==
    ASSUME ImportInv, NEW abandon, EndShadow(abandon)
    PROVE  ImportInv'
<1>1. DOMAIN monitors' = DOMAIN monitors /\ bridge.id > 0
      /\ UNCHANGED <<fleet, pages, bridge, mapping, runs>>
  BY DEF EndShadow
<1>2. ASSUME NEW x \in DOMAIN monitors
      PROVE  /\ monitors'[x] \in RowOf(monitors'[x])
             /\ monitors'[x].owner = monitors[x].owner /\ monitors'[x].src = monitors[x].src
             /\ monitors'[x].shadow = monitors[x].shadow
                \/ (monitors[x].shadow > 0 /\ monitors'[x].shadow = Ended)
  <2>1. PICK m, n, u : m = monitors[x] /\ n = monitors'[x] /\ u = (monitors[x].paused \/ abandon)
    OBVIOUS
  <2>2. m \in RowOf(m)
    BY <2>1 DEF ImportInv, RowOK
  <2>3. \/ n = m
        \/ m.shadow = bridge.id /\ n = [m EXCEPT !.shadow = Ended, !.paused = u]
    BY <2>1, Zenon DEF EndShadow
  <2>4. CASE n = m
    BY <2>1, <2>2, <2>4
  <2>5. CASE m.shadow = bridge.id /\ n = [m EXCEPT !.shadow = Ended, !.paused = u]
    <3>1. PICK w \in Int : w = Ended
      BY DEF Ended
    <3>2. n = [m EXCEPT !.shadow = w, !.paused = u]
      BY <2>5, <3>1
    <3>3. n \in RowOf(n) /\ n.owner = m.owner /\ n.src = m.src /\ n.shadow = w
      BY <2>2, <3>2 DEF RowOf
    <3> QED  BY <1>1, <2>1, <2>5, <3>1, <3>3
  <2> QED  BY <2>3, <2>4, <2>5
<1> QED  BY <1>1, <1>2, SameRows

\* A rename leaves the provenance alone.
LEMMA RenameInv ==
    ASSUME ImportInv, NEW y \in DOMAIN monitors, Rename(y)
    PROVE  ImportInv'
<1>1. DOMAIN monitors' = DOMAIN monitors /\ UNCHANGED <<fleet, pages, bridge, mapping, runs>>
  BY DEF Rename
<1>2. ASSUME NEW x \in DOMAIN monitors
      PROVE  /\ monitors'[x] \in RowOf(monitors'[x])
             /\ monitors'[x].owner = monitors[x].owner /\ monitors'[x].src = monitors[x].src
             /\ monitors'[x].shadow = monitors[x].shadow
  <2>1. PICK m, n : m = monitors[x] /\ n = monitors'[x]
    OBVIOUS
  <2>2. m \in RowOf(m)
    BY <2>1 DEF ImportInv, RowOK
  <2>3. n = IF x = y THEN [m EXCEPT !.key = "renamed"] ELSE m
    BY <2>1 DEF Rename
  <2>4. n \in RowOf(n) /\ n.owner = m.owner /\ n.src = m.src /\ n.shadow = m.shadow
    BY <2>2, <2>3 DEF RowOf
  <2> QED  BY <2>1, <2>4
<1> QED  BY <1>1, <1>2, SameRows

\* A deleted monitor leaves pages and mapping too.
LEMMA DeleteMonitorInv ==
    ASSUME ImportInv, NEW y \in DOMAIN monitors, DeleteMonitor(y)
    PROVE  ImportInv'
<1>1. /\ DOMAIN monitors' = DOMAIN monitors \ {y} /\ UNCHANGED <<fleet, bridge, runs>>
      /\ DOMAIN pages' = DOMAIN pages /\ DOMAIN mapping' = DOMAIN mapping
  BY DEF DeleteMonitor
<1>2. ASSUME NEW x \in DOMAIN monitors'
      PROVE  /\ x \in DOMAIN monitors
             /\ monitors'[x] \in RowOf(monitors'[x])
             /\ monitors'[x].owner = monitors[x].owner /\ monitors'[x].src = monitors[x].src
             /\ monitors'[x].shadow = monitors[x].shadow
  <2>1. PICK m, n : m = monitors[x] /\ n = monitors'[x]
    OBVIOUS
  <2>2. m \in RowOf(m) /\ x \in DOMAIN monitors
    BY <1>1, <2>1 DEF ImportInv, RowOK
  <2>3. n = IF m.parent = y THEN [m EXCEPT !.parent = NoId] ELSE m
    BY <1>1, <2>1 DEF DeleteMonitor
  <2>4. n \in RowOf(n) /\ n.owner = m.owner /\ n.src = m.src /\ n.shadow = m.shadow
    BY <2>2, <2>3 DEF RowOf
  <2> QED  BY <2>1, <2>2, <2>4
<1>3. \A q \in Run : RunOK(q)'
  BY <1>1 DEF ImportInv, RunOK, Remembers, Progress
<1>4. \A x \in DOMAIN monitors' : RowOK(x)'
  <2> SUFFICES ASSUME NEW x \in DOMAIN monitors' PROVE RowOK(x)'
    OBVIOUS
  <2>1. RowOK(x)
    BY <1>2 DEF ImportInv
  <2>2. Shaded(x)'
    BY <1>1, <1>2, <2>1 DEF RowOK, Shaded
  <2>3. Owned(x)'
    BY <1>1, <1>2, <2>1 DEF RowOK, Owned, Over
  <2>4. x[1] \in Run => Named(x)'
    BY <1>1, <2>1 DEF RowOK, Named
  <2> QED  BY <1>2, <2>1, <2>2, <2>3, <2>4 DEF RowOK
<1>5. Unique'
  BY <1>2 DEF ImportInv, Unique
<1>6. \A s \in DOMAIN pages' : PageOK(s)'
  <2> SUFFICES ASSUME NEW s \in DOMAIN pages PROVE PageOK(s)'
    BY <1>1
  <2>1. PICK p, n, M : p = pages[s] /\ n = pages'[s] /\ M = pages[s].members \ {y}
    OBVIOUS
  <2>2. PageOK(s) /\ p \in PageOf(p)
    BY <2>1 DEF ImportInv, PageOK
  <2>3. n = [p EXCEPT !.members = M]
    BY <2>1 DEF DeleteMonitor
  <2>4. n \in PageOf(n) /\ n.owner = p.owner /\ n.members = M
    BY <2>2, <2>3 DEF PageOf
  <2> QED  BY <1>1, <1>2, <2>1, <2>2, <2>4 DEF PageOK
<1>7. \A r \in DOMAIN mapping' : MapOK(r)'
  <2> SUFFICES ASSUME NEW r \in DOMAIN mapping PROVE MapOK(r)'
    BY <1>1
  <2>1. PICK m, n : m = mapping[r] /\ n = mapping'[r]
    OBVIOUS
  <2>2. MapOK(r) /\ m \in MapOf(m)
    BY <2>1 DEF ImportInv, MapOK
  <2>3. n = IF m.monitor = y THEN [m EXCEPT !.monitor = NoId] ELSE m
    BY <2>1 DEF DeleteMonitor
  <2>4. n \in MapOf(n) /\ n.monitor = IF m.monitor = y THEN NoId ELSE m.monitor
    BY <2>2, <2>3 DEF MapOf
  <2> QED  BY <1>1, <1>2, <2>1, <2>2, <2>4 DEF MapOK
<1> QED  BY <1>1, <1>3, <1>4, <1>5, <1>6, <1>7 DEF ImportInv, BridgeOK

-----------------------------------------------------------------------------
\* Tables that are empty but for a monitor made by hand.
LEMMA ImportInit == MInit => ImportInv
<1> SUFFICES ASSUME MInit PROVE ImportInv
  OBVIOUS
<1>1. /\ pages = Empty /\ mapping = Empty /\ bridge = [id |-> 0, connected |-> FALSE]
      /\ runs = [r \in Run |-> NewRun]
  BY DEF MInit
<1>2. DOMAIN Empty = {}
  BY DEF Empty
<1>3. BridgeOK
  BY <1>1 DEF BridgeOK
<1>4. \A q \in Run : RunOK(q)
  <2> SUFFICES ASSUME NEW q \in Run PROVE RunOK(q)
    OBVIOUS
  <2>1. runs[q] = NewRun
    BY <1>1
  <2>2. Remembers(q)
    BY <1>2, <2>1, NewRunTyped DEF Remembers
  <2>3. Progress(q)
    BY <2>1, NewRunTyped DEF Progress
  <2> QED  BY <2>1, <2>2, <2>3, NewRunTyped DEF RunOK
<1>5. CASE monitors = Empty
  BY <1>1, <1>2, <1>3, <1>4, <1>5 DEF ImportInv, Unique
<1>6. CASE monitors # Empty
  <2>1. PICK k : monitors = [x \in {HandId} |-> ByHand(k)]
    BY <1>6 DEF MInit
  <2>2. PICK m : m = ByHand(k)
    OBVIOUS
  <2>3. m \in RowOf(m) /\ m.owner = NoOne /\ m.src = "none" /\ m.shadow = Never
    BY <2>2 DEF ByHand, RowOf, Never
  <2>4. DOMAIN monitors = {HandId} /\ monitors[HandId] = m
    BY <2>1, <2>2
  <2>5. HandId[1] = "hand" /\ HandId[2] = "none" /\ "hand" \notin Run /\ NoOne \notin Run
    BY MigrationConstants DEF HandId, NoOne
  <2>6. Owned(HandId) /\ Shaded(HandId)
    BY <2>3, <2>4, <2>5 DEF Owned, Shaded, Never
  <2>7. RowOK(HandId)
    BY <2>3, <2>4, <2>5, <2>6 DEF RowOK, SrcOf
  <2> QED  BY <1>1, <1>2, <1>3, <1>4, <2>4, <2>7 DEF ImportInv, Unique
<1> QED  BY <1>5, <1>6

\* Every step keeps the invariant.
LEMMA ImportNext == ImportInv /\ [MNext]_mvars => ImportInv'
<1> SUFFICES ASSUME ImportInv, [MNext]_mvars PROVE ImportInv'
  OBVIOUS
<1>1. ASSUME NEW run \in Run, RunStep(run) PROVE ImportInv'
  BY <1>1, StartInv, ReadSourceInv, LoadInv, ImportCheckInv, VictimInv, ImportPagesInv, CloseInv,
     LinkInv, LinkCommitsInv, FailsInv DEF RunStep
<1>2. CASE UNCHANGED mvars
  <2>1. \A q \in Run : RunOK(q)'
    BY <1>2 DEF ImportInv, RunOK, Remembers, Progress, mvars
  <2>2. \A x \in DOMAIN monitors' : RowOK(x)'
    BY <1>2 DEF ImportInv, RowOK, Named, Owned, Over, Shaded, mvars
  <2> QED  BY <1>2, <2>1, <2>2 DEF ImportInv, BridgeOK, Unique, PageOK, MapOK, mvars
<1> QED
  BY <1>1, <1>2, BridgeStepInv, EndShadowInv, RenameInv, DeleteMonitorInv DEF MNext

\* The inductive invariant of the imports.
THEOREM ImportInvariant == MSpec => []ImportInv
BY ImportInit, ImportNext, PTL DEF MSpec

\* However many imports run side by side, whatever they, the operators and the
\* failures do in between: no record has two monitors, the bridge compares a
\* record with its own monitor, and an imported page publishes the monitors of
\* the records the source published on it.
THEOREM ProvenanceSafe == MSpec => []ProvenanceTrue
<1>1. ImportInv => ProvenanceTrue
  <2> SUFFICES ASSUME ImportInv PROVE ProvenanceTrue
    OBVIOUS
  <2>1. OnePerRecord
    BY DEF ImportInv, Unique, OnePerRecord, Committed
  <2>2. \A x \in DOMAIN monitors : monitors[x].src = SrcOf(x)
    BY DEF ImportInv, RowOK
  <2>3. LinkTrue
    BY <2>2 DEF ImportInv, MapOK, LinkTrue, OfRecord, SrcOf
  <2>4. PagesFaithful
    BY <2>2 DEF ImportInv, PageOK, PagesFaithful, SrcOf
  <2> QED  BY <2>1, <2>3, <2>4 DEF ProvenanceTrue
<1> QED  BY <1>1, ImportInvariant, PTL

\* What a bridge import made of records listed once, and nothing else, is in shadow
\* until a cutover or an abandonment ends it; and a monitor in shadow always has its
\* bridge.
THEOREM ShadowSafe == MSpec => []ShadowSound
<1>1. ImportInv => ShadowSound
  <2> SUFFICES ASSUME ImportInv PROVE ShadowSound
    OBVIOUS
  <2>1. \A x \in DOMAIN monitors : Shaded(x) /\ Owned(x)
    BY DEF ImportInv, RowOK
  <2>2. ShadowExact
    BY <2>1 DEF ShadowExact, Committed, Shaded, Owned, Over
  <2>3. ShadowBacked
    BY <2>1 DEF ShadowBacked, Committed, Shaded
  <2> QED  BY <2>2, <2>3 DEF ShadowSound
<1> QED  BY <1>1, ImportInvariant, PTL

-----------------------------------------------------------------------------
(* Groups *)

\* The row a row is in is there, and committed or of the same import.
Housed(x) ==
    LET p == monitors[x].parent
    IN  p # NoId => p \in DOMAIN monitors /\ monitors[p].owner \in {NoOne, monitors[x].owner}

\* A group an import remembers having made is a row of its own; the others it
\* met were not its own, and may be gone by now.
Tree(q) ==
    /\ \A p \in DOMAIN runs[q].paths :
          runs[q].paths[p][1] = q => runs[q].paths[p] \in Own(monitors, q)
    /\ \A f \in runs[q].folders : f[3][1] # q
    /\ \A r \in DOMAIN runs[q].entries : runs[q].entries[r].lost[1] # q

\* The inductive invariant about groups, on top of ImportInv.
GroupInv ==
    /\ fleet \in Fleet
    /\ \A x \in DOMAIN monitors : Housed(x)
    /\ \A q \in Run : Tree(q)

-----------------------------------------------------------------------------
\* The climb of `resolve', step by step from acc.
Climbs(w, n, run, path, fault, first) ==
    w = [d \in 0 .. n |-> IF d = 0 THEN first ELSE ResolveStep(run, path, fault, w[d - 1], d)]

\* There is such a climb, of any length.
LEMMA ClimbExists ==
    ASSUME NEW run, NEW path, NEW fault, NEW first, NEW n \in Nat
    PROVE  \E w : Climbs(w, n, run, path, fault, first)
<1> HIDE DEF ResolveStep
<1>1. PICK T : T = {m \in Nat : ~ \E w : Climbs(w, m, run, path, fault, first)}
  OBVIOUS
<1>2. SUFFICES ASSUME T # {} PROVE FALSE
  BY <1>1
<1>3. PICK m \in T : \A y \in T : m <= y
  BY <1>1, <1>2, LeastElement
<1>4. m \in Nat /\ ~ \E w : Climbs(w, m, run, path, fault, first)
  BY <1>1
<1>5. m # 0
  <2>1. PICK w : w = [d \in 0 .. 0 |-> first]
    OBVIOUS
  <2>2. Climbs(w, 0, run, path, fault, first)
    BY <2>1 DEF Climbs
  <2> QED  BY <1>4, <2>2
<1>6. PICK k \in Nat : m = k + 1 /\ k \notin T
  <2>1. m - 1 \in Nat /\ m = (m - 1) + 1
    BY <1>4, <1>5
  <2>2. m - 1 \notin T
    BY <1>3, <1>4
  <2> QED  BY <2>1, <2>2
<1>7. PICK w : Climbs(w, k, run, path, fault, first)
  BY <1>1, <1>6
<1>8. PICK v : v = [d \in 0 .. m |-> IF d = m THEN ResolveStep(run, path, fault, w[k], m) ELSE w[d]]
  OBVIOUS
<1>9. \A d \in 0 .. m : v[d] = IF d = 0 THEN first ELSE ResolveStep(run, path, fault, v[d - 1], d)
  <2> SUFFICES ASSUME NEW d \in 0 .. m
               PROVE  v[d] = IF d = 0 THEN first ELSE ResolveStep(run, path, fault, v[d - 1], d)
    OBVIOUS
  <2>1. CASE d = m
    <3>1. v[d] = ResolveStep(run, path, fault, w[k], m) /\ v[k] = w[k] /\ d - 1 = k
      BY <1>6, <1>8, <2>1
    <3> QED  BY <1>5, <2>1, <3>1
  <2>2. CASE d # m
    <3>1. d \in 0 .. k /\ v[d] = w[d]
      BY <1>6, <1>8, <2>2
    <3>2. w[d] = IF d = 0 THEN first ELSE ResolveStep(run, path, fault, w[d - 1], d)
      BY <1>7, <3>1 DEF Climbs
    <3>3. d # 0 => v[d - 1] = w[d - 1]
      BY <1>6, <1>8, <3>1
    <3> QED  BY <3>1, <3>2, <3>3
  <2> QED  BY <2>1, <2>2
<1>10. Climbs(v, m, run, path, fault, first)
  BY <1>8, <1>9 DEF Climbs
<1> QED  BY <1>4, <1>10

\* What `resolve' returns is the end of such a climb.
LEMMA ResolvingClimbs ==
    ASSUME NEW run, NEW path \in Seq(STRING), NEW fault
    PROVE  \E w, first :
             /\ first = [ok |-> TRUE, parent |-> NoId, paths |-> runs[run].paths, made |-> Empty]
             /\ Climbs(w, Len(path), run, path, fault, first)
             /\ Resolving(run, path, fault) = w[Len(path)]
<1> HIDE DEF ResolveStep
<1>1. PICK first : first = [ok |-> TRUE, parent |-> NoId, paths |-> runs[run].paths, made |-> Empty]
  OBVIOUS
<1>2. PICK n \in Nat : n = Len(path)
  OBVIOUS
<1>3. PICK w : w = CHOOSE v : Climbs(v, n, run, path, fault, first)
  OBVIOUS
<1>4. Climbs(w, n, run, path, fault, first)
  BY <1>3, ClimbExists
<1>5. Resolving(run, path, fault) = w[n]
  BY <1>1, <1>2, <1>3 DEF Resolving, Climbs
<1> QED  BY <1>1, <1>2, <1>4, <1>5

\* A row the import has, or is about to make.
Stands(run, made, x) == x \in Own(monitors, run) \/ \E p \in DOMAIN made : x = GroupId(run, p)

AccOf(a) == [ok : BOOLEAN, parent : {a.parent}, paths : {a.paths}, made : {a.made}]

\* How far a climb has come: what it knows of its own import stands, and what
\* it makes is put into something that is there.
ClimbOK(run, a) ==
    /\ a \in AccOf(a)
    /\ a.ok =>
         /\ \A p \in DOMAIN a.paths : a.paths[p][1] = run => Stands(run, a.made, a.paths[p])
         /\ a.parent[1] = run => Stands(run, a.made, a.parent)
         /\ \A p \in DOMAIN a.made : \/ a.made[p] = NoId
                                     \/ a.made[p] \in Visible(monitors, run)
                                     \/ \E o \in DOMAIN a.made : a.made[p] = GroupId(run, o)

\* A step of the climb keeps it sound, whichever way it goes.
LEMMA ClimbStep ==
    ASSUME NEW run \in Run, Tree(run), NEW path, NEW fault, NEW d, NEW a, ClimbOK(run, a)
    PROVE  ClimbOK(run, ResolveStep(run, path, fault, a, d))
<1>1. PICK prefix, reused, b :
         /\ prefix = SubSeq(path, 1, d)
         /\ reused = {f \in runs[run].folders : f[1] = a.parent /\ f[2] = path[d]}
         /\ b = ResolveStep(run, path, fault, a, d)
  OBVIOUS
<1>2. PICK orphan : orphan = (/\ a.parent # NoId
                              /\ a.parent \notin Visible(monitors, run)
                              /\ \A p \in DOMAIN a.made : a.parent # GroupId(run, p))
  OBVIOUS
<1>3. a \in AccOf(a)
  BY DEF ClimbOK
<1>4. CASE ~ a.ok
  <2>1. b = a
    BY <1>1, <1>4 DEF ResolveStep
  <2> QED  BY <1>1, <2>1
<1>5. CASE a.ok /\ prefix \in DOMAIN a.paths
  <2>1. PICK y : y = a.paths[prefix]
    OBVIOUS
  <2>2. b = [a EXCEPT !.parent = y]
    BY <1>1, <1>5, <2>1 DEF ResolveStep
  <2>3. b \in AccOf(b) /\ b.parent = y /\ b.paths = a.paths /\ b.made = a.made /\ b.ok = a.ok
    BY <1>3, <2>2 DEF AccOf
  <2> QED  BY <1>1, <1>5, <2>1, <2>3 DEF ClimbOK
<1>6. CASE a.ok /\ prefix \notin DOMAIN a.paths /\ reused # {}
  <2>1. PICK f, y, P : f = (CHOOSE g \in reused : TRUE) /\ y = f[3] /\ P = Put(a.paths, prefix, y)
    OBVIOUS
  <2>2. f \in runs[run].folders
    BY <1>1, <1>6, <2>1
  <2>3. y[1] # run
    BY <2>1, <2>2 DEF Tree
  <2>4. b = [a EXCEPT !.parent = y, !.paths = P]
    BY <1>1, <1>6, <2>1 DEF ResolveStep
  <2>5. b \in AccOf(b) /\ b.parent = y /\ b.paths = P /\ b.made = a.made /\ b.ok = a.ok
    BY <1>3, <2>4 DEF AccOf
  <2>6. \A p \in DOMAIN P : P[p][1] = run => p \in DOMAIN a.paths /\ P[p] = a.paths[p]
    BY <2>1, <2>3 DEF Put
  <2> QED  BY <1>1, <1>6, <2>3, <2>5, <2>6 DEF ClimbOK
<1>7. CASE a.ok /\ prefix \notin DOMAIN a.paths /\ reused = {} /\ (d = fault \/ orphan)
  <2>1. b = [a EXCEPT !.ok = FALSE]
    BY <1>1, <1>2, <1>7 DEF ResolveStep
  <2>2. b \in AccOf(b) /\ b.ok = FALSE
    BY <1>3, <2>1 DEF AccOf
  <2> QED  BY <1>1, <2>2 DEF ClimbOK
<1>8. CASE a.ok /\ prefix \notin DOMAIN a.paths /\ reused = {} /\ d # fault /\ ~ orphan
  <2>1. PICK x, P, M : /\ x = GroupId(run, prefix) /\ P = Put(a.paths, prefix, x)
                       /\ M = Put(a.made, prefix, a.parent)
    OBVIOUS
  <2>2. b = [a EXCEPT !.parent = x, !.paths = P, !.made = M]
    BY <1>1, <1>2, <1>8, <2>1 DEF ResolveStep
  <2>3. b \in AccOf(b) /\ b.parent = x /\ b.paths = P /\ b.made = M /\ b.ok = a.ok
    BY <1>3, <2>2 DEF AccOf
  <2>4. DOMAIN M = DOMAIN a.made \cup {prefix} /\ M[prefix] = a.parent
        /\ \A p \in DOMAIN a.made \ {prefix} : M[p] = a.made[p]
    BY <2>1 DEF Put
  <2>5. DOMAIN P = DOMAIN a.paths \cup {prefix} /\ P[prefix] = x
        /\ \A p \in DOMAIN a.paths : P[p] = a.paths[p]
    BY <1>8, <2>1 DEF Put
  <2>6. Stands(run, M, x) /\ \A y : Stands(run, a.made, y) => Stands(run, M, y)
    BY <2>1, <2>4 DEF Stands
  <2>7. \A p \in DOMAIN P : P[p][1] = run => Stands(run, M, P[p])
    BY <1>8, <2>5, <2>6 DEF ClimbOK
  <2>8. \/ a.parent = NoId \/ a.parent \in Visible(monitors, run)
        \/ \E o \in DOMAIN M : a.parent = GroupId(run, o)
    BY <1>2, <1>8, <2>4
  <2>9. \A p \in DOMAIN M : \/ M[p] = NoId \/ M[p] \in Visible(monitors, run)
                            \/ \E o \in DOMAIN M : M[p] = GroupId(run, o)
    BY <1>8, <2>4, <2>8 DEF ClimbOK
  <2> QED  BY <1>1, <2>3, <2>6, <2>7, <2>9 DEF ClimbOK
<1> QED  BY <1>4, <1>5, <1>6, <1>7, <1>8

\* So the climb is sound at its end.
LEMMA ResolvingSound ==
    ASSUME NEW run \in Run, Tree(run), NEW path \in Seq(STRING), NEW fault
    PROVE  ClimbOK(run, Resolving(run, path, fault))
<1>1. PICK w, first :
             /\ first = [ok |-> TRUE, parent |-> NoId, paths |-> runs[run].paths, made |-> Empty]
             /\ Climbs(w, Len(path), run, path, fault, first)
             /\ Resolving(run, path, fault) = w[Len(path)]
  BY ResolvingClimbs
<1>2. PICK n \in Nat : n = Len(path)
  OBVIOUS
<1>3. ClimbOK(run, first)
  <2>1. first \in AccOf(first) /\ first.paths = runs[run].paths /\ first.made = Empty /\ first.parent = NoId
    BY <1>1 DEF AccOf
  <2>2. NoId[1] # run /\ DOMAIN Empty = {}
    BY MigrationConstants DEF NoId, Empty
  <2> QED  BY <2>1, <2>2 DEF ClimbOK, Tree, Stands
<1>4. PICK T : T = {d \in 0 .. n : ~ ClimbOK(run, w[d])}
  OBVIOUS
<1>5. T = {}
  <2> SUFFICES ASSUME T # {} PROVE FALSE
    OBVIOUS
  <2>1. T \subseteq Nat
    BY <1>4
  <2>2. PICK m \in T : \A y \in T : m <= y
    BY <2>1, LeastElement
  <2>3. m \in 0 .. n /\ ~ ClimbOK(run, w[m])
    BY <1>4
  <2> HIDE DEF ResolveStep, ClimbOK
  <2>4. w[m] = IF m = 0 THEN first ELSE ResolveStep(run, path, fault, w[m - 1], m)
    BY <1>1, <1>2, <2>3 DEF Climbs
  <2>5. m # 0
    BY <1>3, <2>3, <2>4
  <2>6. m - 1 \in 0 .. n /\ m - 1 \notin T
    BY <2>1, <2>2, <2>3, <2>5
  <2>7. ClimbOK(run, w[m - 1])
    BY <1>4, <2>6
  <2> QED  BY <2>3, <2>4, <2>5, <2>7, ClimbStep
<1> QED  BY <1>1, <1>2, <1>4, <1>5

\* What `resolve' gives back: where the check goes, what is remembered and what
\* is to be made stand, or will.
LEMMA ResolveSound ==
    ASSUME NEW run \in Run, Tree(run), NEW path \in Seq(STRING), NEW fault
    PROVE  LET g == Resolve(run, path, fault)
           IN  /\ g.parent[1] = run => g.parent \in Own(monitors, run) \cup DOMAIN g.made
               /\ \A p \in DOMAIN g.paths :
                     g.paths[p][1] = run => g.paths[p] \in Own(monitors, run) \cup DOMAIN g.made
               /\ \A x \in DOMAIN g.made :
                     g.made[x].parent \in {NoId} \cup Visible(monitors, run) \cup DOMAIN g.made
<1>1. PICK a, g : a = Resolving(run, path, fault) /\ g = Resolve(run, path, fault)
  OBVIOUS
<1>2. ClimbOK(run, a)
  BY <1>1, ResolvingSound
<1>3. CASE ~ a.ok
  <2>1. g.parent = NoId /\ g.paths = runs[run].paths /\ g.made = Empty
    BY <1>1, <1>3 DEF Resolve
  <2>2. NoId[1] # run /\ DOMAIN Empty = {}
    BY MigrationConstants DEF NoId, Empty
  <2> QED  BY <1>1, <2>1, <2>2 DEF Tree
<1>4. CASE a.ok
  <2>1. g.parent = a.parent /\ g.paths = a.paths /\ g.made = GroupRows(run, a.made)
    BY <1>1, <1>4 DEF Resolve
  <2>2. PICK m, G : m = a.made /\ G = g.made
    OBVIOUS
  <2>3. DOMAIN G = {GroupId(run, p) : p \in DOMAIN m}
    BY <2>1, <2>2 DEF GroupRows
  <2>4. \A x : Stands(run, m, x) => x \in Own(monitors, run) \cup DOMAIN G
    BY <2>3 DEF Stands
  <2>5. ASSUME NEW x \in DOMAIN G
        PROVE  G[x].parent \in {NoId} \cup Visible(monitors, run) \cup DOMAIN G
    <3>1. PICK p \in DOMAIN m : x = GroupId(run, p)
      BY <2>3, <2>5
    <3>2. x[3] = p
      BY <3>1 DEF GroupId
    <3>3. G[x].parent = m[x[3]]
      BY <2>1, <2>2, <2>5 DEF GroupRows
    <3> QED  BY <1>2, <1>4, <2>2, <2>3, <3>2, <3>3 DEF ClimbOK
  <2>6. a.parent[1] = run => a.parent \in Own(monitors, run) \cup DOMAIN G
    BY <1>2, <1>4, <2>2, <2>4 DEF ClimbOK
  <2>7. \A p \in DOMAIN a.paths : a.paths[p][1] = run => a.paths[p] \in Own(monitors, run) \cup DOMAIN G
    BY <1>2, <1>4, <2>2, <2>4 DEF ClimbOK
  <2> QED  BY <1>1, <2>1, <2>2, <2>5, <2>6, <2>7
<1> QED  BY <1>3, <1>4

-----------------------------------------------------------------------------
\* What the trees of the imports are made of is as it was.
SameTrees ==
    \A q \in Run : /\ runs'[q].paths = runs[q].paths /\ runs'[q].folders = runs[q].folders
                   /\ runs'[q].entries = runs[q].entries

\* No row changes hands or place.
SamePlaces ==
    /\ DOMAIN monitors' = DOMAIN monitors
    /\ \A x \in DOMAIN monitors : /\ monitors'[x].owner = monitors[x].owner
                                  /\ monitors'[x].parent = monitors[x].parent

\* A step that touches neither.
LEMMA Untouched ==
    ASSUME GroupInv, SameTrees, SamePlaces, fleet' = fleet
    PROVE  GroupInv'
<1>1. \A x \in DOMAIN monitors' : Housed(x)'
  BY DEF GroupInv, SamePlaces, Housed
<1>2. \A q \in Run : Own(monitors', q) = Own(monitors, q)
  BY DEF SamePlaces, Own
<1>3. \A q \in Run : Tree(q)'
  BY <1>2 DEF GroupInv, SameTrees, Tree
<1> QED  BY <1>1, <1>3 DEF GroupInv

\* An import that moves on without a word about groups.
LEMMA MovesOn ==
    ASSUME ImportInv, NEW run \in Run, NEW X, runs' = [runs EXCEPT ![run] = X],
           X.paths = runs[run].paths, X.folders = runs[run].folders, X.entries = runs[run].entries
    PROVE  SameTrees
<1>1. DOMAIN runs = Run
  BY DEF ImportInv
<1>2. runs'[run] = X /\ \A q \in Run \ {run} : runs'[q] = runs[q]
  BY <1>1
<1> QED  BY <1>2 DEF SameTrees

\* Before an import loads, while it links, and between its stages, nothing of it
\* touches the groups.
LEMMA EarlyGroups ==
    ASSUME ImportInv, GroupInv, NEW run \in Run,
           \/ \E mode \in {"once", "preview", "bridge"} : Start(run, mode)
           \/ ReadSource(run)
           \/ \E stores \in BOOLEAN : ImportPages(run, stores)
    PROVE  GroupInv'
<1>1. PICK s : s = runs[run]
  OBVIOUS
<1>2. s \in RunOf(s)
  BY <1>1 DEF ImportInv, RunOK
<1>3. SamePlaces /\ fleet' = fleet
  BY DEF Start, ReadSource, ImportPages, SamePlaces
<1>4. ASSUME NEW mode, Start(run, mode) PROVE SameTrees
  <2>1. PICK b : b = IF mode = "bridge" THEN bridge.id ELSE 0
    OBVIOUS
  <2>2. PICK X : X = [s EXCEPT !.stage = "reading", !.mode = mode, !.bridge = b]
    OBVIOUS
  <2>3. X.paths = s.paths /\ X.folders = s.folders /\ X.entries = s.entries
    BY <1>2, <2>2 DEF RunOf
  <2>4. runs' = [runs EXCEPT ![run] = X]
    BY <1>1, <1>4, <2>1, <2>2 DEF Start
  <2> QED  BY <1>1, <2>3, <2>4, MovesOn
<1>5. ASSUME ReadSource(run) PROVE SameTrees
  <2>1. PICK l \in Listings :
           runs' = [runs EXCEPT ![run] = [runs[run] EXCEPT !.stage = "loading", !.listing = l]]
    BY <1>5 DEF ReadSource
  <2>2. PICK X : X = [s EXCEPT !.stage = "loading", !.listing = l]
    OBVIOUS
  <2>3. X.paths = s.paths /\ X.folders = s.folders /\ X.entries = s.entries
    BY <1>2, <2>2 DEF RunOf
  <2> QED  BY <1>1, <2>1, <2>2, <2>3, MovesOn
<1>6. ASSUME NEW stores, ImportPages(run, stores) PROVE SameTrees
  <2>1. PICK stage : Advance(run, stage)
    BY <1>6 DEF ImportPages
  <2>2. PICK X : X = [s EXCEPT !.stage = stage]
    OBVIOUS
  <2>3. X.paths = s.paths /\ X.folders = s.folders /\ X.entries = s.entries
    BY <1>2, <2>2 DEF RunOf
  <2>4. runs' = [runs EXCEPT ![run] = X]
    BY <1>1, <2>1, <2>2 DEF Advance
  <2> QED  BY <1>1, <2>3, <2>4, MovesOn
<1> QED  BY <1>3, <1>4, <1>5, <1>6, Untouched

\* The folders an import reads at its start are not its own.
LEMMA LoadGroups ==
    ASSUME ImportInv, GroupInv, NEW run \in Run, Load(run)
    PROVE  GroupInv'
<1>1. PICK s : s = runs[run]
  OBVIOUS
<1>2. PICK I, K, F : I = LoadImported(run) /\ K = LoadExisting(run) /\ F = Folders(run)
  OBVIOUS
<1>3. PICK X : X = [s EXCEPT !.stage = "checks", !.imported = I, !.known = K, !.folders = F]
  OBVIOUS
<1>4. s \in RunOf(s) /\ DOMAIN runs = Run
  BY <1>1 DEF ImportInv, RunOK
<1>5. X.paths = s.paths /\ X.folders = F /\ X.entries = s.entries
  BY <1>3, <1>4 DEF RunOf
<1>6. runs' = [runs EXCEPT ![run] = X] /\ s.stage = "loading" /\ monitors' = monitors /\ fleet' = fleet
  BY <1>1, <1>2, <1>3 DEF Load
<1>7. runs'[run] = X /\ \A q \in Run \ {run} : runs'[q] = runs[q]
  BY <1>4, <1>6
<1>8. \A f \in F : f[3][1] # run
  <2> SUFFICES ASSUME NEW f \in F PROVE f[3][1] # run
    OBVIOUS
  <2>1. PICK x \in Visible(monitors, run) : f = <<monitors[x].parent, monitors[x].key, x>>
    BY <1>2 DEF Folders
  <2>2. x \in DOMAIN monitors /\ f[3] = x
    BY <2>1 DEF Visible
  <2>3. x[1] # run
    BY <1>1, <1>6, <2>2, WhoseRows DEF Writing
  <2> QED  BY <2>2, <2>3
<1>9. ASSUME NEW q \in Run PROVE Tree(q)'
  <2>1. Tree(q)
    BY DEF GroupInv
  <2>2. CASE q = run
    BY <1>1, <1>5, <1>6, <1>7, <1>8, <2>1, <2>2 DEF Tree
  <2>3. CASE q # run
    BY <1>6, <1>7, <2>1, <2>3 DEF Tree
  <2> QED  BY <2>2, <2>3
<1>10. \A x \in DOMAIN monitors' : Housed(x)'
  BY <1>6 DEF GroupInv, Housed
<1> QED  BY <1>6, <1>9, <1>10 DEF GroupInv

\* An import that reports on a record adds its groups, perhaps the record's row,
\* and what it now knows of the path.
Adds(run, X, N) ==
    /\ runs[run].stage = "checks"
    /\ fleet' = fleet
    /\ runs' = [runs EXCEPT ![run] = X]
    /\ X.folders = runs[run].folders
    /\ \A p \in DOMAIN X.paths : X.paths[p][1] = run => X.paths[p] \in Own(monitors, run) \cup DOMAIN N
    /\ \A r \in DOMAIN X.entries : X.entries[r].lost[1] # run
    /\ DOMAIN monitors' = DOMAIN monitors \cup DOMAIN N
    /\ \A x \in DOMAIN monitors \ DOMAIN N : monitors'[x] = monitors[x]
    /\ \A x \in DOMAIN N :
          /\ monitors'[x] = N[x] /\ x[1] = run /\ N[x].owner = run
          /\ N[x].parent \in {NoId} \cup Visible(monitors, run) \cup DOMAIN N

\* What is added stands where it is put, and nobody else's rows move.
LEMMA AddsGroups ==
    ASSUME ImportInv, GroupInv, NEW run \in Run, NEW X, NEW N, Adds(run, X, N)
    PROVE  GroupInv'
<1> USE DEF Adds
<1>1. DOMAIN runs = Run
  BY DEF ImportInv
<1>2. runs'[run] = X /\ \A q \in Run \ {run} : runs'[q] = runs[q]
  BY <1>1
<1>3. NoOne \notin Run
  BY MigrationConstants DEF NoOne
<1>4. \A x \in DOMAIN monitors \cap DOMAIN N : monitors[x].owner = run
  BY WhoseRows
<1>5. \A x \in DOMAIN monitors : monitors'[x].owner = monitors[x].owner
  BY <1>4
<1>6. ASSUME NEW x \in DOMAIN monitors' PROVE Housed(x)'
  <2>1. CASE x \in DOMAIN N
    <3>1. monitors'[x].owner = run
          /\ monitors'[x].parent \in {NoId} \cup Visible(monitors, run) \cup DOMAIN N
      BY <2>1
    <3>2. \A y \in Visible(monitors, run) : y \in DOMAIN monitors' /\ monitors'[y].owner \in {NoOne, run}
      BY <1>5 DEF Visible
    <3>3. \A y \in DOMAIN N : y \in DOMAIN monitors' /\ monitors'[y].owner = run
      OBVIOUS
    <3> QED  BY <3>1, <3>2, <3>3 DEF Housed
  <2>2. CASE x \notin DOMAIN N
    <3>1. x \in DOMAIN monitors /\ monitors'[x] = monitors[x] /\ Housed(x)
      BY <2>2 DEF GroupInv
    <3> QED  BY <1>5, <3>1 DEF Housed
  <2> QED  BY <2>1, <2>2
<1>7. \A q \in Run : Own(monitors, q) \subseteq Own(monitors', q)
  BY <1>5 DEF Own
<1>8. DOMAIN N \subseteq Own(monitors', run)
  BY DEF Own
<1>9. ASSUME NEW q \in Run PROVE Tree(q)'
  <2>1. Tree(q)
    BY DEF GroupInv
  <2>2. CASE q = run
    <3>1. \A p \in DOMAIN X.paths : X.paths[p][1] = run => X.paths[p] \in Own(monitors', run)
      BY <1>7, <1>8
    <3>2. \A f \in X.folders : f[3][1] # run
      BY <2>1, <2>2 DEF Tree
    <3> QED  BY <1>2, <2>2, <3>1, <3>2 DEF Tree
  <2>3. CASE q # run
    BY <1>2, <1>7, <2>1, <2>3 DEF Tree
  <2> QED  BY <2>2, <2>3
<1> QED  BY <1>6, <1>9 DEF GroupInv

\* An import with one more line in its report.
WithLine(s, r, e) == [s EXCEPT !.entries = Put(s.entries, r, e), !.at = s.at + 1]

\* It knows its groups as before.
LEMMA LineAdded ==
    ASSUME NEW s, s \in RunOf(s), NEW r, NEW e, NEW X, X = WithLine(s, r, e)
    PROVE  /\ X.paths = s.paths /\ X.folders = s.folders
           /\ \A q \in DOMAIN X.entries : X.entries[q] = e \/ (q \in DOMAIN s.entries /\ X.entries[q] = s.entries[q])
<1>1. PICK E, n : E = Put(s.entries, r, e) /\ n = s.at + 1
  OBVIOUS
<1>2. X = [s EXCEPT !.entries = E, !.at = n]
  BY <1>1 DEF WithLine
<1>3. X.paths = s.paths /\ X.folders = s.folders /\ X.entries = E
  BY <1>2 DEF RunOf
<1> QED  BY <1>1, <1>3 DEF Put

\* A record whose groups do not come into it.
LEMMA PassedOver ==
    ASSUME ImportInv, GroupInv, NEW run \in Run, NEW s, s \in RunOf(s), NEW r, NEW e,
           runs[run].stage = "checks", fleet' = fleet, monitors' = monitors,
           s.paths = runs[run].paths, s.folders = runs[run].folders, s.entries = runs[run].entries,
           runs' = [runs EXCEPT ![run] =
                       [s EXCEPT !.entries = Put(s.entries, r, e), !.at = s.at + 1]],
           e.lost[1] # run
    PROVE  GroupInv'
<1>1. PICK X : X = WithLine(s, r, e)
  OBVIOUS
<1>2. /\ X.paths = s.paths /\ X.folders = s.folders
      /\ \A q \in DOMAIN X.entries : X.entries[q] = e \/ (q \in DOMAIN s.entries /\ X.entries[q] = s.entries[q])
  BY <1>1, LineAdded
<1>3. Tree(run)
  BY DEF GroupInv
<1>4. DOMAIN Empty = {}
  BY DEF Empty
<1>5. Adds(run, X, Empty)
  BY <1>1, <1>2, <1>3, <1>4 DEF Adds, Tree, WithLine
<1> QED  BY <1>5, AddsGroups

\* importCheck, whichever way it ends.
LEMMA ImportCheckGroups ==
    ASSUME ImportInv, GroupInv, NEW run \in Run, NEW fault, NEW stores, ImportCheck(run, fault, stores)
    PROVE  GroupInv'
<1>1. PICK self, r, c, t :
         /\ self = runs[run] /\ r = runs[run].listing[runs[run].at]
         /\ c = fleet.checks[r] /\ t = c.becomes
  OBVIOUS
<1>2. PICK g : g = Resolve(run, c.path, fault)
  OBVIOUS
<1>3. PICK P, GG : P = g.paths /\ GG = self.groups \cup DOMAIN g.made
  OBVIOUS
<1>4. PICK grouped : grouped = [self EXCEPT !.paths = P, !.groups = GG]
  OBVIOUS
<1>5. self.stage = "checks" /\ self.at <= Len(self.listing) /\ fleet' = fleet
  BY <1>1 DEF ImportCheck
<1>6. self \in RunOf(self) /\ Progress(run) /\ Tree(run)
  BY <1>1 DEF ImportInv, RunOK, GroupInv
<1>7. c.path \in Seq(STRING)
  <2>1. r \in Record
    BY <1>1, <1>5, <1>6 DEF RunOf, Progress
  <2> QED  BY <1>1, <2>1, MigrationConstants DEF GroupInv
<1>8. grouped \in RunOf(grouped) /\ grouped.paths = P /\ grouped.folders = self.folders
      /\ grouped.entries = self.entries
  BY <1>4, <1>6 DEF RunOf
<1>9. PICK N : N = g.made
  OBVIOUS
<1>10. /\ g.parent[1] = run => g.parent \in Own(monitors, run) \cup DOMAIN N
       /\ \A p \in DOMAIN P : P[p][1] = run => P[p] \in Own(monitors, run) \cup DOMAIN N
       /\ \A x \in DOMAIN N : N[x].parent \in {NoId} \cup Visible(monitors, run) \cup DOMAIN N
  BY <1>2, <1>3, <1>6, <1>7, <1>9, ResolveSound
<1>11. \A x \in DOMAIN N : x[1] = run /\ N[x].owner = run
  BY <1>2, <1>9, GroupsMade
<1>12. NoId[1] # run
  BY MigrationConstants DEF NoId
<1>13. ASSUME monitors' = monitors, NEW s, s \in RunOf(s), NEW e, e.lost = NoId,
              s.paths = self.paths, s.folders = self.folders, s.entries = self.entries,
              runs' = [runs EXCEPT ![run] =
                          [s EXCEPT !.entries = Put(s.entries, r, e), !.at = s.at + 1]]
       PROVE  GroupInv'
  BY <1>1, <1>5, <1>12, <1>13, PassedOver
<1>14. ASSUME AlreadyImported(run, r) PROVE GroupInv'
  <2>1. PICK M : M = Put(self.made, r, self.imported[r])
    OBVIOUS
  <2>2. PICK s, e : /\ s = [self EXCEPT !.made = M]
                    /\ e = [outcome |-> "skipped", monitor |-> NoId, lost |-> NoId]
    OBVIOUS
  <2>3. s \in RunOf(s) /\ s.paths = self.paths /\ s.folders = self.folders /\ s.entries = self.entries
    BY <1>6, <2>2 DEF RunOf
  <2>4. monitors' = monitors /\ runs' = [runs EXCEPT ![run] = Report(s, r, "skipped", NoId)]
    BY <1>1, <1>14, <2>1, <2>2 DEF AlreadyImported
  <2>5. e.lost = NoId
    BY <2>2
  <2> QED  BY <1>13, <2>2, <2>3, <2>4, <2>5 DEF Report
<1>15. ASSUME Skip(run, r, t) PROVE GroupInv'
  <2>1. PICK e : e = [outcome |-> t, monitor |-> NoId, lost |-> NoId]
    OBVIOUS
  <2>2. e.lost = NoId
    BY <2>1
  <2> QED  BY <1>1, <1>6, <1>13, <1>15, <2>1, <2>2 DEF Skip, Report
<1>16. ASSUME monitors' = Added(monitors, N), NEW e, e.lost[1] # run,
              runs' = [runs EXCEPT ![run] =
                  [grouped EXCEPT !.entries = Put(grouped.entries, r, e), !.at = grouped.at + 1]]
       PROVE  GroupInv'
  <2>1. PICK X : X = WithLine(grouped, r, e)
    OBVIOUS
  <2>2. /\ X.paths = grouped.paths /\ X.folders = grouped.folders
        /\ \A q \in DOMAIN X.entries :
              X.entries[q] = e \/ (q \in DOMAIN grouped.entries /\ X.entries[q] = grouped.entries[q])
    BY <1>8, <2>1, LineAdded
  <2>3. /\ DOMAIN monitors' = DOMAIN monitors \cup DOMAIN N
        /\ \A x \in DOMAIN monitors \ DOMAIN N : monitors'[x] = monitors[x]
        /\ \A x \in DOMAIN N : monitors'[x] = N[x]
    BY <1>16 DEF Added
  <2>4. \A q \in DOMAIN X.entries : X.entries[q].lost[1] # run
    BY <1>1, <1>6, <1>8, <1>16, <2>2 DEF Tree
  <2>5. Adds(run, X, N)
    BY <1>1, <1>5, <1>8, <1>10, <1>11, <1>16, <2>1, <2>2, <2>3, <2>4 DEF Adds, WithLine
  <2> QED  BY <2>5, AddsGroups
<1>17. PICK parented : parented = (g.parent = NoId \/ g.parent \in Visible(monitors, run) \cup DOMAIN N)
  OBVIOUS
<1>18. ~ parented => g.parent[1] # run
  <2>1. Own(monitors, run) \subseteq Visible(monitors, run)
    BY DEF Own, Visible
  <2> QED  BY <1>10, <1>17, <2>1
<1>19. ASSUME NEW outcome, Store(run, r, grouped, g, outcome), parented PROVE GroupInv'
  <2>1. PICK id, e, m :
           /\ id = <<run, "check", r>> /\ e = [outcome |-> outcome, monitor |-> id, lost |-> NoId]
           /\ m = [owner |-> run, src |-> r, key |-> c.key, type |-> "check",
                     parent |-> g.parent, shadow |-> Never, paused |-> c.paused]
    OBVIOUS
  <2>2. PICK K, M : K = grouped.known \cup {<<c.key, id>>} /\ M = Put(grouped.made, r, id)
    OBVIOUS
  <2>3. PICK s : s = [grouped EXCEPT !.known = K, !.made = M]
    OBVIOUS
  <2>4. s \in RunOf(s) /\ s.paths = P /\ s.folders = self.folders /\ s.entries = self.entries
    BY <1>8, <2>3 DEF RunOf
  <2>5. PICK X : X = WithLine(s, r, e)
    OBVIOUS
  <2>6. runs' = [runs EXCEPT ![run] = X] /\ monitors' = Put(Added(monitors, N), id, m)
    BY <1>1, <1>9, <1>19, <2>1, <2>2, <2>3, <2>5 DEF Store, Report, WithLine
  <2>7. /\ X.paths = s.paths /\ X.folders = s.folders
        /\ \A q \in DOMAIN X.entries :
              X.entries[q] = e \/ (q \in DOMAIN s.entries /\ X.entries[q] = s.entries[q])
    BY <2>4, <2>5, LineAdded
  <2>8. e.lost = NoId /\ m.owner = run /\ m.parent = g.parent /\ id[1] = run
    BY <2>1
  <2>9. PICK N2 : N2 = Put(N, id, m)
    OBVIOUS
  <2>10. /\ DOMAIN N2 = DOMAIN N \cup {id} /\ N2[id] = m
         /\ \A x \in DOMAIN N \ {id} : N2[x] = N[x]
    BY <2>9 DEF Put
  <2>11. /\ DOMAIN monitors' = DOMAIN monitors \cup DOMAIN N2
         /\ \A x \in DOMAIN monitors \ DOMAIN N2 : monitors'[x] = monitors[x]
         /\ \A x \in DOMAIN N2 : monitors'[x] = N2[x]
    BY <2>6, <2>10 DEF Put, Added
  <2>12. \A x \in DOMAIN N2 :
            /\ x[1] = run /\ N2[x].owner = run
            /\ N2[x].parent \in {NoId} \cup Visible(monitors, run) \cup DOMAIN N2
    BY <1>10, <1>11, <1>17, <1>19, <2>8, <2>10
  <2>13. \A q \in DOMAIN X.entries : X.entries[q].lost[1] # run
    BY <1>1, <1>6, <1>12, <2>4, <2>7, <2>8 DEF Tree
  <2>14. Adds(run, X, N2)
    BY <1>1, <1>5, <1>10, <2>4, <2>6, <2>7, <2>10, <2>11, <2>12, <2>13 DEF Adds
  <2> QED  BY <2>14, AddsGroups
<1>20. ASSUME monitors' = Added(monitors, N), NEW outcome, NEW x, x[1] # run,
              runs' = [runs EXCEPT ![run] =
                  [grouped EXCEPT !.entries = Put(grouped.entries, r,
                                      [outcome |-> outcome, monitor |-> NoId, lost |-> x]),
                                  !.at = grouped.at + 1]]
       PROVE  GroupInv'
  <2>1. PICK e : e = [outcome |-> outcome, monitor |-> NoId, lost |-> x]
    OBVIOUS
  <2>2. e.lost = x
    BY <2>1
  <2> QED  BY <1>16, <1>20, <2>1, <2>2
<1>21. grouped = [self EXCEPT !.paths = g.paths, !.groups = self.groups \cup DOMAIN g.made]
  BY <1>3, <1>4
<1>22. \/ AlreadyImported(run, r)
       \/ Skip(run, r, t)
       \/ /\ monitors' = Added(monitors, N)
          /\ runs' = [runs EXCEPT ![run] = IF t = "skipped" THEN Report(grouped, r, t, NoId)
                                                           ELSE Duplicate(grouped, r, c.key)]
       \/ /\ monitors' = Added(monitors, N)
          /\ runs' = [runs EXCEPT ![run] = IF parented THEN Report(grouped, r, "skipped", NoId)
                                                       ELSE Orphaned(grouped, r, g.parent)]
       \/ /\ parented
          /\ Store(run, r, grouped, g, IF c.path = <<>> /\ ~ c.paused THEN t ELSE "transformed")
  BY <1>1, <1>2, <1>9, <1>17, <1>21, Zenon DEF ImportCheck
<1> QED  BY <1>12, <1>14, <1>15, <1>18, <1>19, <1>20, <1>22 DEF Report, Duplicate, Orphaned

\* The victim of a deadlock.
LEMMA VictimGroups ==
    ASSUME ImportInv, GroupInv, NEW run \in Run, Victim(run)
    PROVE  GroupInv'
<1>1. PICK self, r, e : /\ self = runs[run] /\ r = runs[run].listing[runs[run].at]
                        /\ e = [outcome |-> "skipped", monitor |-> NoId, lost |-> NoId]
  OBVIOUS
<1>2. self \in RunOf(self)
  BY <1>1 DEF ImportInv, RunOK
<1>3. e.lost[1] # run
  BY <1>1, MigrationConstants DEF NoId
<1>4. self.stage = "checks" /\ fleet' = fleet /\ monitors' = monitors
      /\ runs' = [runs EXCEPT ![run] =
                    [self EXCEPT !.entries = Put(self.entries, r, e), !.at = self.at + 1]]
  BY <1>1 DEF Victim, Report
<1> QED  BY <1>1, <1>2, <1>3, <1>4, PassedOver

\* An import that is over has forgotten its groups, and kept its report.
LEMMA OverForgets ==
    ASSUME ImportInv, GroupInv, NEW run \in Run, NEW stage \in {"done", "failed"}, Ends(run, stage),
           \A q \in Run \ {run} : Own(monitors, q) \subseteq Own(monitors', q)
    PROVE  \A q \in Run : Tree(q)'
<1>1. PICK s : s = runs[run]
  OBVIOUS
<1>2. PICK m, l, E, G, n : /\ m = s.mode /\ l = s.listing /\ E = s.entries /\ G = s.groups
                           /\ n = NewRun
  OBVIOUS
<1>3. PICK X : X = [n EXCEPT !.stage = stage, !.mode = m, !.listing = l, !.entries = E, !.groups = G]
  OBVIOUS
<1>4. n \in RunOf(n) /\ n.paths = Empty /\ n.folders = {}
  BY <1>2, NewRunTyped DEF NewRun
<1>5. X.paths = Empty /\ X.folders = {} /\ X.entries = E
  BY <1>3, <1>4 DEF RunOf
<1>6. runs' = [runs EXCEPT ![run] = X] /\ DOMAIN runs = Run
  BY <1>1, <1>2, <1>3 DEF Ends, ImportInv
<1>7. runs'[run] = X /\ \A q \in Run \ {run} : runs'[q] = runs[q]
  BY <1>6
<1>8. DOMAIN Empty = {}
  BY DEF Empty
<1>9. ASSUME NEW q \in Run PROVE Tree(q)'
  <2>1. Tree(q)
    BY DEF GroupInv
  <2>2. CASE q = run
    BY <1>1, <1>2, <1>5, <1>7, <1>8, <2>1, <2>2 DEF Tree
  <2>3. CASE q # run
    BY <1>7, <2>1, <2>3 DEF Tree
  <2> QED  BY <2>2, <2>3
<1> QED  BY <1>9

\* A rollback takes rows that only rows of the same import are in.
LEMMA RolledBackGroups ==
    ASSUME ImportInv, GroupInv, NEW run \in Run, NEW stage \in {"done", "failed"}, Ends(run, stage),
           monitors' = Without(monitors, Own(monitors, run)), fleet' = fleet
    PROVE  GroupInv'
<1>1. /\ \A x \in DOMAIN monitors' : x \in DOMAIN monitors /\ monitors'[x] = monitors[x]
                                    /\ monitors[x].owner # run
      /\ \A x \in DOMAIN monitors : monitors[x].owner # run => x \in DOMAIN monitors'
  BY DEF Without, Own
<1>2. NoOne \notin Run
  BY MigrationConstants DEF NoOne
<1>3. ASSUME NEW x \in DOMAIN monitors' PROVE Housed(x)'
  <2>1. x \in DOMAIN monitors /\ monitors'[x] = monitors[x] /\ monitors[x].owner # run /\ Housed(x)
    BY <1>1 DEF GroupInv
  <2>2. PICK p : p = monitors[x].parent
    OBVIOUS
  <2>3. p # NoId => p \in DOMAIN monitors /\ monitors[p].owner \in {NoOne, monitors[x].owner}
    BY <2>1, <2>2 DEF Housed
  <2>4. p # NoId => p \in DOMAIN monitors' /\ monitors'[p] = monitors[p]
    BY <1>1, <1>2, <2>1, <2>3
  <2> QED  BY <2>1, <2>2, <2>3, <2>4 DEF Housed
<1>4. \A q \in Run \ {run} : Own(monitors, q) \subseteq Own(monitors', q)
  BY <1>1 DEF Own
<1>5. \A q \in Run : Tree(q)'
  BY <1>4, OverForgets
<1> QED  BY <1>3, <1>5 DEF GroupInv

\* A commit makes rows and what they are in everybody's at once.
LEMMA CommittedGroups ==
    ASSUME ImportInv, GroupInv, NEW run \in Run, Ends(run, "done"),
           monitors' = Kept(monitors, run), fleet' = fleet
    PROVE  GroupInv'
<1>1. /\ DOMAIN monitors' = DOMAIN monitors
      /\ \A x \in DOMAIN monitors :
            /\ monitors'[x].owner = IF monitors[x].owner = run THEN NoOne ELSE monitors[x].owner
            /\ monitors'[x].parent = monitors[x].parent
  <2>1. DOMAIN monitors' = DOMAIN monitors
    BY DEF Kept
  <2>2. ASSUME NEW x \in DOMAIN monitors
        PROVE  /\ monitors'[x].owner = IF monitors[x].owner = run THEN NoOne ELSE monitors[x].owner
               /\ monitors'[x].parent = monitors[x].parent
    <3>1. PICK m, n : m = monitors[x] /\ n = monitors'[x]
      OBVIOUS
    <3>2. m \in RowOf(m)
      BY <3>1 DEF ImportInv, RowOK
    <3>3. n = IF m.owner = run THEN [m EXCEPT !.owner = NoOne] ELSE m
      BY <3>1 DEF Kept
    <3>4. n.owner = (IF m.owner = run THEN NoOne ELSE m.owner) /\ n.parent = m.parent
      BY <3>2, <3>3 DEF RowOf
    <3> QED  BY <3>1, <3>4
  <2> QED  BY <2>1, <2>2
<1>2. \A x \in DOMAIN monitors' : Housed(x)'
  BY <1>1 DEF GroupInv, Housed
<1>3. \A q \in Run \ {run} : Own(monitors, q) \subseteq Own(monitors', q)
  BY <1>1 DEF Own
<1>4. \A q \in Run : Tree(q)'
  BY <1>3, OverForgets
<1> QED  BY <1>2, <1>4 DEF GroupInv

\* An import that ends, one way or the other.
LEMMA EndGroups ==
    ASSUME ImportInv, GroupInv, NEW run \in Run,
           Close(run) \/ Fails(run) \/ LinkFails(run) \/ LinkCommits(run)
    PROVE  GroupInv'
<1>1. CASE Close(run)
  <2>1. CASE runs[run].mode = "preview"
    BY <1>1, <2>1, RolledBackGroups DEF Close
  <2>2. CASE runs[run].mode # "preview"
    BY <1>1, <2>2, CommittedGroups DEF Close
  <2> QED  BY <2>1, <2>2
<1>2. CASE Fails(run) \/ LinkFails(run)
  BY <1>2, RolledBackGroups DEF Fails, LinkFails
<1>3. CASE LinkCommits(run)
  BY <1>3, CommittedGroups DEF LinkCommits
<1> QED  BY <1>1, <1>2, <1>3

\* The shadow moves no row.
LEMMA LinkGroups ==
    ASSUME ImportInv, GroupInv, NEW run \in Run, Link(run)
    PROVE  GroupInv'
<1>1. PICK s, L : s = runs[run] /\ L = [r \in Listed(runs[run]) |-> LinkOf(run, r)]
  OBVIOUS
<1>2. PICK X : X = [s EXCEPT !.stage = "linked", !.links = L]
  OBVIOUS
<1>3. s \in RunOf(s)
  BY <1>1 DEF ImportInv, RunOK
<1>4. X.paths = s.paths /\ X.folders = s.folders /\ X.entries = s.entries
  BY <1>2, <1>3 DEF RunOf
<1>5. runs' = [runs EXCEPT ![run] = X] /\ fleet' = fleet
  BY <1>1, <1>2 DEF Link
<1>6. PICK b : b = bridge.id
  OBVIOUS
<1>7. /\ DOMAIN monitors' = DOMAIN monitors
      /\ \A x \in DOMAIN monitors :
            monitors'[x] = monitors[x] \/ monitors'[x] = [monitors[x] EXCEPT !.shadow = b]
  BY <1>6 DEF Link
<1>8. SamePlaces
  <2>1. ASSUME NEW x \in DOMAIN monitors
        PROVE  monitors'[x].owner = monitors[x].owner /\ monitors'[x].parent = monitors[x].parent
    <3>1. PICK m : m = monitors[x]
      OBVIOUS
    <3>2. m \in RowOf(m)
      BY <3>1 DEF ImportInv, RowOK
    <3>3. PICK n : n = [m EXCEPT !.shadow = b]
      OBVIOUS
    <3>4. n.owner = m.owner /\ n.parent = m.parent
      BY <3>2, <3>3 DEF RowOf
    <3> QED  BY <1>7, <3>1, <3>3, <3>4
  <2> QED  BY <1>7, <2>1 DEF SamePlaces
<1> QED  BY <1>1, <1>4, <1>5, <1>8, MovesOn, Untouched

\* The bridge, the end of the shadow and a new name leave every row where it is.
LEMMA OperatorGroups ==
    ASSUME ImportInv, GroupInv,
           \/ ConnectBridge \/ DisconnectBridge \/ DeleteBridge
           \/ \E abandon \in BOOLEAN : EndShadow(abandon)
           \/ \E x \in DOMAIN monitors : Rename(x)
    PROVE  GroupInv'
<1>1. SameTrees /\ fleet' = fleet
  BY DEF ConnectBridge, DisconnectBridge, DeleteBridge, EndShadow, Rename, SameTrees
<1>2. CASE ConnectBridge \/ DisconnectBridge \/ DeleteBridge
  BY <1>1, <1>2, Untouched DEF ConnectBridge, DisconnectBridge, DeleteBridge, SamePlaces
<1>3. ASSUME NEW abandon \in BOOLEAN, EndShadow(abandon) PROVE GroupInv'
  <2>1. DOMAIN monitors' = DOMAIN monitors
    BY <1>3 DEF EndShadow
  <2>2. ASSUME NEW x \in DOMAIN monitors
        PROVE  monitors'[x].owner = monitors[x].owner /\ monitors'[x].parent = monitors[x].parent
    <3>1. PICK m, u : m = monitors[x] /\ u = (monitors[x].paused \/ abandon)
      OBVIOUS
    <3>2. m \in RowOf(m)
      BY <3>1 DEF ImportInv, RowOK
    <3>3. PICK n : n = [m EXCEPT !.shadow = Ended, !.paused = u]
      OBVIOUS
    <3>4. n.owner = m.owner /\ n.parent = m.parent
      BY <3>2, <3>3 DEF RowOf
    <3>5. monitors'[x] = m \/ monitors'[x] = n
      BY <1>3, <3>1, <3>3 DEF EndShadow
    <3> QED  BY <3>1, <3>4, <3>5
  <2>3. SamePlaces
    BY <2>1, <2>2 DEF SamePlaces
  <2> QED  BY <1>1, <2>3, Untouched
<1>4. ASSUME NEW x \in DOMAIN monitors, Rename(x) PROVE GroupInv'
  <2>1. PICK m : m = monitors[x]
    OBVIOUS
  <2>2. PICK n : n = [m EXCEPT !.key = "renamed"]
    OBVIOUS
  <2>3. m \in RowOf(m)
    BY <2>1 DEF ImportInv, RowOK
  <2>4. n.owner = m.owner /\ n.parent = m.parent
    BY <2>2, <2>3 DEF RowOf
  <2>5. monitors' = [monitors EXCEPT ![x] = n]
    BY <1>4, <2>1, <2>2 DEF Rename
  <2>6. SamePlaces
    BY <2>1, <2>4, <2>5 DEF SamePlaces
  <2> QED  BY <1>1, <2>6, Untouched
<1> QED  BY <1>2, <1>3, <1>4

\* A group that is deleted lets its members go; no import has just put one in it.
LEMMA DeleteGroups ==
    ASSUME ImportInv, GroupInv, NEW x \in DOMAIN monitors, DeleteMonitor(x)
    PROVE  GroupInv'
<1>1. /\ monitors[x].owner = NoOne /\ fleet' = fleet /\ runs' = runs
      /\ DOMAIN monitors' = DOMAIN monitors \ {x}
  BY DEF DeleteMonitor
<1>2. ASSUME NEW y \in DOMAIN monitors \ {x}
      PROVE  /\ monitors'[y].owner = monitors[y].owner
             /\ monitors'[y].parent = IF monitors[y].parent = x THEN NoId ELSE monitors[y].parent
  <2>1. PICK m, n : m = monitors[y] /\ n = [m EXCEPT !.parent = NoId]
    OBVIOUS
  <2>2. m \in RowOf(m)
    BY <2>1 DEF ImportInv, RowOK
  <2>3. n.owner = m.owner /\ n.parent = NoId
    BY <2>1, <2>2 DEF RowOf
  <2>4. monitors'[y] = IF m.parent = x THEN n ELSE m
    BY <2>1 DEF DeleteMonitor
  <2> QED  BY <2>1, <2>3, <2>4
<1>3. \A y \in DOMAIN monitors' : Housed(y)'
  BY <1>1, <1>2 DEF GroupInv, Housed
<1>4. NoOne \notin Run
  BY MigrationConstants DEF NoOne
<1>5. \A q \in Run : Own(monitors, q) \subseteq Own(monitors', q)
  BY <1>1, <1>2, <1>4 DEF Own
<1>6. \A q \in Run : Tree(q)'
  BY <1>1, <1>5 DEF GroupInv, Tree
<1> QED  BY <1>1, <1>3, <1>6 DEF GroupInv

\* At the start there is nothing that could be anywhere.
LEMMA GroupInit == MInit => GroupInv
<1> SUFFICES ASSUME MInit PROVE GroupInv
  OBVIOUS
<1>1. \A q \in Run : runs[q].paths = Empty /\ runs[q].folders = {} /\ runs[q].entries = Empty
  BY DEF MInit, NewRun
<1>2. DOMAIN Empty = {}
  BY DEF Empty
<1>3. \A x \in DOMAIN monitors : monitors[x].parent = NoId
  BY <1>2 DEF MInit, ByHand
<1> QED  BY <1>1, <1>2, <1>3 DEF GroupInv, Housed, Tree, MInit

\* Every step keeps the invariant.
LEMMA GroupNext == ImportInv /\ GroupInv /\ [MNext]_mvars => GroupInv'
<1> SUFFICES ASSUME ImportInv, GroupInv, [MNext]_mvars PROVE GroupInv'
  OBVIOUS
<1>1. CASE UNCHANGED mvars
  <2>1. SameTrees /\ SamePlaces /\ fleet' = fleet
    BY <1>1 DEF mvars, SameTrees, SamePlaces
  <2> QED  BY <2>1, Untouched
<1>2. ASSUME NEW run \in Run, RunStep(run) PROVE GroupInv'
  BY <1>2, EarlyGroups, LoadGroups, ImportCheckGroups, VictimGroups, EndGroups, LinkGroups DEF RunStep
<1> QED
  BY <1>1, <1>2, OperatorGroups, DeleteGroups DEF MNext

\* What an import reports is what the tables hold: every row it left behind is
\* named, every row is in a group that exists, and no record is lost to a group
\* the import thought it had made.
THEOREM ReportSafe == MSpec => []ReportTrue
<1>1. ImportInv => RowsReported
  <2>1. ImportInv => \A x \in DOMAIN monitors : Owned(x) /\ (x[1] \in Run => Named(x))
    BY DEF ImportInv, RowOK
  <2> QED  BY <2>1 DEF RowsReported, Committed, Owned, Named
<1>2. GroupInv => GroupsHold
  BY DEF GroupInv, GroupsHold, Housed, Tree
<1> QED  BY <1>1, <1>2, GroupInit, GroupNext, ImportInvariant, PTL DEF MSpec, ReportTrue
-----------------------------------------------------------------------------
(* The order of creation *)

\* Step by step from `first', as f says.
Iterates(w, n, f, first) == w = [d \in 0 .. n |-> IF d = 0 THEN first ELSE f[d][w[d - 1]]]

\* There is such a walk, of any length.
LEMMA IterationExists ==
    ASSUME NEW f, NEW first, NEW n \in Nat
    PROVE  \E w : Iterates(w, n, f, first)
<1>1. PICK T : T = {m \in Nat : ~ \E w : Iterates(w, m, f, first)}
  OBVIOUS
<1>2. SUFFICES ASSUME T # {} PROVE FALSE
  BY <1>1
<1>3. PICK m \in T : \A y \in T : m <= y
  BY <1>1, <1>2, LeastElement
<1>4. m \in Nat /\ ~ \E w : Iterates(w, m, f, first)
  BY <1>1
<1>5. m # 0
  <2>1. PICK w : w = [d \in 0 .. 0 |-> first]
    OBVIOUS
  <2>2. Iterates(w, 0, f, first)
    BY <2>1 DEF Iterates
  <2> QED  BY <1>4, <2>2
<1>6. PICK k \in Nat : m = k + 1 /\ k \notin T
  <2>1. m - 1 \in Nat /\ m = (m - 1) + 1
    BY <1>4, <1>5
  <2>2. m - 1 \notin T
    BY <1>3, <1>4
  <2> QED  BY <2>1, <2>2
<1>7. PICK w : Iterates(w, k, f, first)
  BY <1>1, <1>6
<1>8. PICK v : v = [d \in 0 .. m |-> IF d = m THEN f[m][w[k]] ELSE w[d]]
  OBVIOUS
<1>9. \A d \in 0 .. m : v[d] = IF d = 0 THEN first ELSE f[d][v[d - 1]]
  <2> SUFFICES ASSUME NEW d \in 0 .. m
               PROVE  v[d] = IF d = 0 THEN first ELSE f[d][v[d - 1]]
    OBVIOUS
  <2>1. CASE d = m
    <3>1. v[d] = f[m][w[k]] /\ v[k] = w[k] /\ d - 1 = k
      BY <1>6, <1>8, <2>1
    <3> QED  BY <1>5, <2>1, <3>1
  <2>2. CASE d # m
    <3>1. d \in 0 .. k /\ v[d] = w[d]
      BY <1>6, <1>8, <2>2
    <3>2. w[d] = IF d = 0 THEN first ELSE f[d][w[d - 1]]
      BY <1>7, <3>1 DEF Iterates
    <3>3. d # 0 => v[d - 1] = w[d - 1]
      BY <1>6, <1>8, <3>1
    <3> QED  BY <3>1, <3>2, <3>3
  <2> QED  BY <2>1, <2>2
<1>10. Iterates(v, m, f, first)
  BY <1>8, <1>9 DEF Iterates
<1> QED  BY <1>4, <1>10

\* Induction over an interval: what holds at first, and at every step of the step
\* before, holds throughout.
LEMMA StepByStep ==
    ASSUME NEW n \in Nat, NEW G, 0 \in G, \A d \in 1 .. n : d - 1 \in G => d \in G
    PROVE  \A d \in 0 .. n : d \in G
<1>1. PICK T : T = {d \in 0 .. n : d \notin G}
  OBVIOUS
<1>2. SUFFICES ASSUME T # {} PROVE FALSE
  BY <1>1
<1>3. T \subseteq Nat
  BY <1>1
<1>4. PICK m \in T : \A y \in T : m <= y
  BY <1>2, <1>3, LeastElement
<1>5. m \in 0 .. n /\ m \notin G /\ m # 0
  BY <1>1
<1>6. m \in 1 .. n /\ m - 1 \in 0 .. n /\ m - 1 \notin T
  BY <1>3, <1>4, <1>5
<1> QED  BY <1>1, <1>5, <1>6

-----------------------------------------------------------------------------
RowsOf(db) == DOMAIN db.rows
ParentOf(db, r) == db.rows[r].parent

\* A sequence of rows, none of them twice.
Distinct(db, s) ==
    /\ s \in Seq(RowsOf(db))
    /\ \A i, j \in 1 .. Len(s) : s[i] = s[j] => i = j

\* What a visit has in hand: rows not placed yet, each the group of the next,
\* down to the one it started from.
UpOK(db, ordered, r, up) ==
    /\ Distinct(db, up)
    /\ Len(up) >= 1 /\ up[Len(up)] = r
    /\ \A i \in 1 .. Len(up) : up[i] \notin ToSet(ordered)
    /\ \A i \in 1 .. Len(up) - 1 : up[i] = ParentOf(db, up[i + 1])

\* What is put in front of a sequence.
LEMMA Prepended ==
    ASSUME NEW R, NEW p \in R, NEW up \in Seq(R)
    PROVE  /\ <<p>> \o up \in Seq(R)
           /\ Len(<<p>> \o up) = Len(up) + 1
           /\ (<<p>> \o up)[1] = p
           /\ \A i \in 1 .. Len(up) : (<<p>> \o up)[i + 1] = up[i]
<1>1. PICK s \in Seq(R) : s = <<p>>
  <2>1. <<p>> \in Seq(R)
    BY SMT
  <2> QED  BY <2>1
<1>2. Len(s) = 1 /\ s[1] = p
  BY <1>1
<1>3. /\ s \o up \in Seq(R) /\ Len(s \o up) = Len(s) + Len(up)
      /\ \A i \in 1 .. Len(s) + Len(up) : (s \o up)[i] = IF i <= Len(s) THEN s[i] ELSE up[i - Len(s)]
  BY ConcatProperties, <1>1
<1>4. Len(up) \in Nat
  OBVIOUS
<1>5. (s \o up)[1] = p
  BY <1>2, <1>3, <1>4
<1>6. \A i \in 1 .. Len(up) : (s \o up)[i + 1] = up[i]
  <2> SUFFICES ASSUME NEW i \in 1 .. Len(up) PROVE (s \o up)[i + 1] = up[i]
    OBVIOUS
  <2>1. i + 1 \in 1 .. Len(s) + Len(up) /\ ~ (i + 1 <= Len(s)) /\ (i + 1) - Len(s) = i
    BY <1>2, <1>4
  <2> QED  BY <1>3, <2>1
<1> QED  BY <1>1, <1>2, <1>3, <1>4, <1>5, <1>6

\* A step of the climb has one group more in hand, or none.
LEMMA VisitParentOK ==
    ASSUME NEW db, NEW ordered, NEW r, NEW up, UpOK(db, ordered, r, up)
    PROVE  /\ UpOK(db, ordered, r, VisitParent(db, ordered, up))
           /\ \/ VisitParent(db, ordered, up) = up
              \/ Len(VisitParent(db, ordered, up)) = Len(up) + 1
<1>1. PICK p, R : p = ParentOf(db, up[1]) /\ R = RowsOf(db)
  OBVIOUS
<1>2. up \in Seq(R) /\ Len(up) \in Nat /\ Len(up) >= 1
  BY <1>1 DEF UpOK, Distinct
<1>3. CASE p \notin R \ (ToSet(ordered) \cup ToSet(up))
  <2>1. VisitParent(db, ordered, up) = up
    BY <1>1, <1>3 DEF VisitParent, RowsOf, ParentOf
  <2> QED  BY <2>1
<1>4. CASE p \in R \ (ToSet(ordered) \cup ToSet(up))
  <2>1. PICK v : v = <<p>> \o up
    OBVIOUS
  <2>2. VisitParent(db, ordered, up) = v
    BY <1>1, <1>4, <2>1 DEF VisitParent, RowsOf, ParentOf
  <2>3. /\ v \in Seq(R) /\ Len(v) = Len(up) + 1 /\ v[1] = p
        /\ \A i \in 1 .. Len(up) : v[i + 1] = up[i]
    BY <1>2, <1>4, <2>1, Prepended
  <2>4. \A i \in 1 .. Len(v) : i = 1 \/ (i - 1 \in 1 .. Len(up) /\ v[i] = up[i - 1])
    <3> SUFFICES ASSUME NEW i \in 1 .. Len(v), i # 1
                 PROVE  i - 1 \in 1 .. Len(up) /\ v[i] = up[i - 1]
      OBVIOUS
    <3>1. i - 1 \in 1 .. Len(up) /\ (i - 1) + 1 = i
      BY <1>2, <2>3
    <3> QED  BY <2>3, <3>1
  <2>5. \A i \in 1 .. Len(up) : p # up[i]
    BY <1>2, <1>4 DEF ToSet
  <2>6. Distinct(db, v)
    <3> SUFFICES ASSUME NEW i \in 1 .. Len(v), NEW j \in 1 .. Len(v), v[i] = v[j] PROVE i = j
      BY <1>1, <2>3 DEF Distinct
    <3>1. \A a, b \in 1 .. Len(up) : up[a] = up[b] => a = b
      BY DEF UpOK, Distinct
    <3>2. CASE i = 1 /\ j = 1
      BY <3>2
    <3>3. CASE i = 1 /\ j # 1
      BY <2>3, <2>4, <2>5, <3>3
    <3>4. CASE i # 1 /\ j = 1
      BY <2>3, <2>4, <2>5, <3>4
    <3>5. CASE i # 1 /\ j # 1
      <4>1. i - 1 = j - 1
        BY <2>4, <3>1, <3>5
      <4> QED  BY <4>1
    <3> QED  BY <3>2, <3>3, <3>4, <3>5
  <2>7. v[Len(v)] = r
    BY <1>2, <2>3 DEF UpOK
  <2>8. \A i \in 1 .. Len(v) : v[i] \notin ToSet(ordered)
    BY <1>4, <2>3, <2>4 DEF UpOK
  <2>9. \A i \in 1 .. Len(v) - 1 : v[i] = ParentOf(db, v[i + 1])
    <3> SUFFICES ASSUME NEW i \in 1 .. Len(v) - 1 PROVE v[i] = ParentOf(db, v[i + 1])
      OBVIOUS
    <3>1. i \in 1 .. Len(up) /\ v[i + 1] = up[i]
      BY <1>2, <2>3
    <3>2. CASE i = 1
      BY <1>1, <2>3, <3>1, <3>2
    <3>3. CASE i # 1
      <4>1. i - 1 \in 1 .. Len(up) - 1 /\ (i - 1) + 1 = i /\ i \in 1 .. Len(v)
        BY <1>2, <2>3, <3>3
      <4>2. up[i - 1] = ParentOf(db, up[i])
        BY <4>1 DEF UpOK
      <4> QED  BY <2>4, <3>1, <3>3, <4>1, <4>2
    <3> QED  BY <3>2, <3>3
  <2> QED  BY <1>2, <2>2, <2>3, <2>6, <2>7, <2>8, <2>9 DEF UpOK
<1> QED  BY <1>3, <1>4

\* A visit comes to an end: the rows there are suffice, and what it has in hand
\* then goes no further up.
LEMMA VisitClimbs ==
    ASSUME NEW db, IsFiniteSet(RowsOf(db)), NEW ordered, NEW r \in RowsOf(db), r \notin ToSet(ordered)
    PROVE  \E up : /\ UpOK(db, ordered, r, up)
                   /\ VisitParent(db, ordered, up) = up
                   /\ Visit(db, ordered, r) = ordered \o up
<1>1. PICK n \in Nat : n = Cardinality(RowsOf(db))
  BY FS_CardinalityType
<1> DEFINE Good(w) == w = [d \in 0 .. n |-> IF d = 0 THEN <<r>> ELSE VisitParent(db, ordered, w[d - 1])]
<1>2. \E w : Good(w)
  <2>1. PICK A : A = {up \in Seq(RowsOf(db)) : TRUE}
    OBVIOUS
  <2>2. PICK f : f = [d \in 1 .. n |-> [up \in A |-> VisitParent(db, ordered, up)]]
    OBVIOUS
  <2>3. PICK w : Iterates(w, n, f, <<r>>)
    BY IterationExists
  <2>4. \A up \in A : VisitParent(db, ordered, up) \in A
    BY <2>1, Prepended DEF VisitParent, RowsOf
  <2>5. PICK G : G = {d \in 0 .. n : w[d] \in A}
    OBVIOUS
  <2>6. 0 \in G
    BY <2>1, <2>3, <2>5 DEF Iterates
  <2>7. ASSUME NEW d \in 1 .. n, d - 1 \in G PROVE d \in G /\ w[d] = VisitParent(db, ordered, w[d - 1])
    <3>1. w[d] = f[d][w[d - 1]]
      BY <2>3 DEF Iterates
    <3>2. w[d - 1] \in A
      BY <2>5, <2>7
    <3> QED  BY <2>2, <2>4, <2>5, <3>1, <3>2
  <2>8. \A d \in 0 .. n : d \in G
    BY <2>6, <2>7, StepByStep
  <2>9. \A d \in 0 .. n : w[d] = IF d = 0 THEN <<r>> ELSE VisitParent(db, ordered, w[d - 1])
    <3> SUFFICES ASSUME NEW d \in 0 .. n
                 PROVE  w[d] = IF d = 0 THEN <<r>> ELSE VisitParent(db, ordered, w[d - 1])
      OBVIOUS
    <3>1. CASE d = 0
      BY <2>3, <3>1 DEF Iterates
    <3>2. CASE d # 0
      <4>1. d \in 1 .. n /\ d - 1 \in 0 .. n
        BY <3>2
      <4> QED  BY <2>7, <2>8, <3>2, <4>1
    <3> QED  BY <3>1, <3>2
  <2>10. w = [d \in 0 .. n |-> w[d]]
    BY <2>3 DEF Iterates
  <2> QED  BY <2>9, <2>10
<1>3. PICK w : w = CHOOSE v : Good(v)
  OBVIOUS
<1>4. Good(w)
  BY <1>2, <1>3
<1>5. Visit(db, ordered, r) = ordered \o w[n]
  BY <1>1, <1>3 DEF Visit, RowsOf
<1>6. /\ w[0] = <<r>>
      /\ \A d \in 1 .. n : w[d] = VisitParent(db, ordered, w[d - 1])
  BY <1>4
<1> HIDE DEF Good
<1>7. PICK G : G = {d \in 0 .. n : /\ UpOK(db, ordered, r, w[d])
                                   /\ Len(w[d]) = d + 1 \/ VisitParent(db, ordered, w[d]) = w[d]}
  OBVIOUS
<1>8. 0 \in G
  <2>1. UpOK(db, ordered, r, <<r>>)
    BY DEF UpOK, Distinct
  <2> QED  BY <1>6, <1>7, <2>1
<1>9. ASSUME NEW d \in 1 .. n, d - 1 \in G PROVE d \in G
  <2>1. PICK up, v : up = w[d - 1] /\ v = w[d]
    OBVIOUS
  <2>2. UpOK(db, ordered, r, up) /\ (Len(up) = d \/ VisitParent(db, ordered, up) = up)
    BY <1>7, <1>9, <2>1
  <2>3. v = VisitParent(db, ordered, up)
    BY <1>6, <2>1
  <2>4. UpOK(db, ordered, r, v) /\ (v = up \/ Len(v) = Len(up) + 1)
    BY <2>2, <2>3, VisitParentOK
  <2>5. Len(v) = d + 1 \/ VisitParent(db, ordered, v) = v
    BY <2>2, <2>3, <2>4
  <2> QED  BY <1>7, <2>1, <2>4, <2>5
<1>10. n \in G
  BY <1>8, <1>9, StepByStep
<1>11. PICK up : up = w[n]
  OBVIOUS
<1>12. UpOK(db, ordered, r, up)
  BY <1>7, <1>10, <1>11
<1>13. Len(up) # n + 1
  <2> SUFFICES ASSUME Len(up) = n + 1 PROVE FALSE
    OBVIOUS
  <2>1. up \in [1 .. n + 1 -> RowsOf(db)]
    BY <1>12 DEF UpOK, Distinct
  <2>2. IsFiniteSet(1 .. n + 1) /\ Cardinality(1 .. n + 1) = n + 1
    BY FS_Interval
  <2>3. Cardinality(RowsOf(db)) < Cardinality(1 .. n + 1)
    BY <1>1, <2>2
  <2>4. \E x, y \in 1 .. n + 1 : x # y /\ up[x] = up[y]
    BY <2>1, <2>2, <2>3, FS_PigeonHole
  <2> QED  BY <1>12, <2>4 DEF UpOK, Distinct
<1>14. VisitParent(db, ordered, up) = up
  BY <1>7, <1>10, <1>11, <1>13
<1> QED  BY <1>5, <1>11, <1>12, <1>14

\* Kuma's groups form a forest, and only a group has members: what Kuma's own
\* forms let a user make.  The importer does not rely on it to come to an end.
Forest(db) ==
    /\ \A r \in RowsOf(db) : ParentOf(db, r) \in RowsOf(db) => db.rows[ParentOf(db, r)].type = "group"
    /\ \E rank \in [RowsOf(db) -> Nat] :
          \A r \in RowsOf(db) : ParentOf(db, r) \in RowsOf(db) => rank[ParentOf(db, r)] < rank[r]

\* A group comes before its members.
ParentsFirst(db, o) ==
    \A i \in 1 .. Len(o) :
        ParentOf(db, o[i]) \in RowsOf(db) => \E j \in 1 .. Len(o) : j < i /\ o[j] = ParentOf(db, o[i])

\* In a forest a climb never comes back to where it was.
LEMMA OutermostIsNew ==
    ASSUME NEW db, Forest(db), NEW ordered, NEW r, NEW up, UpOK(db, ordered, r, up),
           NEW p \in RowsOf(db), p = ParentOf(db, up[1])
    PROVE  p \notin ToSet(up)
<1>1. PICK rank \in [RowsOf(db) -> Nat] :
         \A q \in RowsOf(db) : ParentOf(db, q) \in RowsOf(db) => rank[ParentOf(db, q)] < rank[q]
  BY DEF Forest
<1>2. up \in [1 .. Len(up) -> RowsOf(db)] /\ Len(up) \in Nat /\ Len(up) >= 1
  BY DEF UpOK, Distinct
<1>3. PICK n \in Nat : n = Len(up) - 1
  <2>1. Len(up) - 1 \in Nat
    BY <1>2
  <2> QED  BY <2>1
<1>4. PICK G : G = {d \in 0 .. n : rank[up[1]] <= rank[up[d + 1]]}
  OBVIOUS
<1>5. \A d \in 0 .. n : d + 1 \in 1 .. Len(up) /\ up[d + 1] \in RowsOf(db) /\ rank[up[d + 1]] \in Nat
  BY <1>2, <1>3
<1>6. 0 \in G
  <2>1. 0 \in 0 .. n /\ 0 + 1 = 1
    OBVIOUS
  <2>2. rank[up[1]] \in Nat
    BY <1>5, <2>1
  <2> QED  BY <1>4, <2>1, <2>2
<1>7. ASSUME NEW d \in 1 .. n, d - 1 \in G PROVE d \in G
  <2>1. rank[up[1]] <= rank[up[d]]
    BY <1>4, <1>7
  <2>2. d \in 1 .. Len(up) - 1
    BY <1>3
  <2>3. up[d] = ParentOf(db, up[d + 1])
    BY <2>2 DEF UpOK
  <2>4. up[d + 1] \in RowsOf(db) /\ up[d] \in RowsOf(db) /\ up[1] \in RowsOf(db)
    BY <1>2, <2>2
  <2>5. rank[up[d]] < rank[up[d + 1]]
    BY <1>1, <2>3, <2>4
  <2>6. rank[up[d]] \in Nat /\ rank[up[d + 1]] \in Nat /\ rank[up[1]] \in Nat
    BY <2>4
  <2> QED  BY <1>4, <2>1, <2>5, <2>6
<1>8. \A d \in 0 .. n : d \in G
  BY <1>6, <1>7, StepByStep
<1>9. \A i \in 1 .. Len(up) : rank[up[1]] <= rank[up[i]]
  <2> SUFFICES ASSUME NEW i \in 1 .. Len(up) PROVE rank[up[1]] <= rank[up[i]]
    OBVIOUS
  <2>1. i - 1 \in 0 .. n /\ (i - 1) + 1 = i
    BY <1>2, <1>3
  <2> QED  BY <1>4, <1>8, <2>1
<1>10. up[1] \in RowsOf(db) /\ rank[up[1]] \in Nat /\ rank[p] \in Nat
  BY <1>2
<1>11. rank[p] < rank[up[1]]
  BY <1>1, <1>10
<1>12. \A i \in 1 .. Len(up) : up[i] # p
  BY <1>9, <1>10, <1>11
<1> QED  BY <1>2, <1>12 DEF ToSet

\* A visit places the row, after its groups.
LEMMA VisitOK ==
    ASSUME NEW db, IsFiniteSet(RowsOf(db)), NEW ordered \in Seq(RowsOf(db)), NEW r \in RowsOf(db),
           NEW o, o = Visit(db, ordered, r)
    PROVE  /\ o \in Seq(RowsOf(db))
           /\ r \in ToSet(o) /\ ToSet(ordered) \subseteq ToSet(o)
           /\ Distinct(db, ordered) => Distinct(db, o)
           /\ Forest(db) /\ ParentsFirst(db, ordered) => ParentsFirst(db, o)
<1>1. CASE r \in ToSet(ordered)
  <2>1. o = ordered
    BY <1>1 DEF Visit
  <2> QED  BY <1>1, <2>1
<1>2. CASE r \notin ToSet(ordered)
  <2>1. PICK up : /\ UpOK(db, ordered, r, up) /\ VisitParent(db, ordered, up) = up
                  /\ o = ordered \o up
    BY <1>2, VisitClimbs
  <2>2. PICK R, n, k : R = RowsOf(db) /\ n = Len(ordered) /\ k = Len(up)
    OBVIOUS
  <2>3. /\ up \in Seq(R) /\ k \in Nat /\ k >= 1 /\ n \in Nat /\ up[k] = r
        /\ \A i, j \in 1 .. k : up[i] = up[j] => i = j
        /\ \A i \in 1 .. k : up[i] \notin ToSet(ordered)
        /\ \A i \in 1 .. k - 1 : up[i] = ParentOf(db, up[i + 1])
    BY <2>1, <2>2 DEF UpOK, Distinct
  <2>4. /\ o \in Seq(R) /\ Len(o) = n + k
        /\ \A i \in 1 .. n + k : o[i] = IF i <= n THEN ordered[i] ELSE up[i - n]
    BY <2>1, <2>2, <2>3, ConcatProperties
  <2>5. \A i \in 1 .. n : i \in 1 .. n + k /\ o[i] = ordered[i]
    BY <2>3, <2>4
  <2>6. \A i \in 1 .. k : n + i \in 1 .. n + k /\ o[n + i] = up[i]
    <3> SUFFICES ASSUME NEW i \in 1 .. k PROVE n + i \in 1 .. n + k /\ o[n + i] = up[i]
      OBVIOUS
    <3>1. n + i \in 1 .. n + k /\ ~ (n + i <= n) /\ (n + i) - n = i
      BY <2>3
    <3> QED  BY <2>4, <3>1
  <2>7. \A i \in 1 .. n + k : i \in 1 .. n \/ (i - n \in 1 .. k /\ n + (i - n) = i)
    BY <2>3
  <2>8. \A x : x \in ToSet(ordered) <=> \E i \in 1 .. n : ordered[i] = x
    BY <2>2, <2>3 DEF ToSet
  <2>9. \A x : x \in ToSet(o) <=> \E i \in 1 .. n + k : o[i] = x
    BY <2>4 DEF ToSet
  <2>10. r \in ToSet(o)
    <3>1. k \in 1 .. k
      BY <2>3
    <3> QED  BY <2>3, <2>6, <2>9, <3>1
  <2>11. ToSet(ordered) \subseteq ToSet(o)
    BY <2>5, <2>8, <2>9
  <2>12. ASSUME Distinct(db, ordered) PROVE Distinct(db, o)
    <3>1. \A i, j \in 1 .. n : ordered[i] = ordered[j] => i = j
      BY <2>2, <2>12 DEF Distinct
    <3>2. SUFFICES ASSUME NEW i \in 1 .. n + k, NEW j \in 1 .. n + k, o[i] = o[j] PROVE i = j
      BY <2>2, <2>4 DEF Distinct
    <3>3. CASE i \in 1 .. n /\ j \in 1 .. n
      BY <2>5, <3>1, <3>2, <3>3
    <3>4. CASE i \in 1 .. n /\ j \notin 1 .. n
      <4>1. o[i] \in ToSet(ordered)
        BY <2>5, <2>8, <3>4
      <4>2. j - n \in 1 .. k /\ o[j] = up[j - n]
        BY <2>6, <2>7, <3>4
      <4> QED  BY <2>3, <3>2, <4>1, <4>2
    <3>5. CASE i \notin 1 .. n /\ j \in 1 .. n
      <4>1. o[j] \in ToSet(ordered)
        BY <2>5, <2>8, <3>5
      <4>2. i - n \in 1 .. k /\ o[i] = up[i - n]
        BY <2>6, <2>7, <3>5
      <4> QED  BY <2>3, <3>2, <4>1, <4>2
    <3>6. CASE i \notin 1 .. n /\ j \notin 1 .. n
      <4>1. i - n \in 1 .. k /\ j - n \in 1 .. k /\ o[i] = up[i - n] /\ o[j] = up[j - n]
        BY <2>6, <2>7, <3>6
      <4>2. i - n = j - n
        BY <2>3, <3>2, <4>1
      <4> QED  BY <2>3, <4>2
    <3> QED  BY <3>3, <3>4, <3>5, <3>6
  <2>13. ASSUME Forest(db), ParentsFirst(db, ordered) PROVE ParentsFirst(db, o)
    <3>1. SUFFICES ASSUME NEW i \in 1 .. n + k, NEW p \in R, p = ParentOf(db, o[i])
                   PROVE  \E j \in 1 .. n + k : j < i /\ o[j] = p
      BY <2>2, <2>4 DEF ParentsFirst
    <3>2. CASE i \in 1 .. n
      <4>1. PICK j \in 1 .. n : j < i /\ ordered[j] = p
        BY <2>2, <2>5, <2>13, <3>1, <3>2 DEF ParentsFirst
      <4> QED  BY <2>5, <4>1
    <3>3. CASE i \notin 1 .. n
      <4>1. PICK h \in 1 .. k : h = i - n /\ n + h = i /\ o[i] = up[h]
        BY <2>6, <2>7, <3>3
      <4>2. CASE h = 1
        <5>1. p \notin ToSet(up)
          BY <2>1, <2>2, <2>13, <3>1, <4>1, <4>2, OutermostIsNew
        <5>2. p \in ToSet(ordered)
          <6> SUFFICES ASSUME p \notin ToSet(ordered) PROVE FALSE
            OBVIOUS
          <6>1. p \in RowsOf(db) \ (ToSet(ordered) \cup ToSet(up)) /\ p = db.rows[up[1]].parent
            BY <2>2, <3>1, <4>1, <4>2, <5>1 DEF ParentOf
          <6>2. VisitParent(db, ordered, up) = <<p>> \o up
            BY <6>1 DEF VisitParent, RowsOf
          <6>3. Len(<<p>> \o up) = k + 1
            BY <2>2, <2>3, Prepended
          <6> QED  BY <2>1, <2>2, <2>3, <6>2, <6>3
        <5>3. PICK j \in 1 .. n : ordered[j] = p
          BY <2>8, <5>2
        <5>4. j \in 1 .. n + k /\ o[j] = p /\ j < i
          BY <2>3, <2>5, <4>1, <4>2, <5>3
        <5> QED  BY <5>4
      <4>3. CASE h # 1
        <5>1. h - 1 \in 1 .. k - 1 /\ (h - 1) + 1 = h /\ h - 1 \in 1 .. k
          BY <2>3, <4>3
        <5>2. up[h - 1] = p
          BY <2>3, <3>1, <4>1, <5>1
        <5>3. n + (h - 1) \in 1 .. n + k /\ n + (h - 1) < i /\ o[n + (h - 1)] = p
          BY <2>3, <2>6, <4>1, <5>1, <5>2
        <5> QED  BY <5>3
      <4> QED  BY <4>2, <4>3
    <3> QED  BY <3>2, <3>3
  <2> QED  BY <2>2, <2>4, <2>10, <2>11, <2>12, <2>13
<1> QED  BY <1>1, <1>2

\* creationOrder has every row of the database once, whatever its groups look
\* like, and in a forest every row after its group.
THEOREM CreationOrderOK ==
    ASSUME NEW db \in Kumas, NEW o, o = CreationOrder(db)
    PROVE  /\ Distinct(db, o) /\ ToSet(o) = RowsOf(db)
           /\ Forest(db) => ParentsFirst(db, o)
<1>1. PICK l, n, R : l = db.listing /\ n = Len(l) /\ R = RowsOf(db)
  OBVIOUS
<1>2. IsFiniteSet(R) /\ l \in Seq(R) /\ ToSet(l) = R /\ n \in Nat
  BY <1>1, KumaConstants DEF RowsOf
<1>3. \A i \in 1 .. n : l[i] \in R
  BY <1>1, <1>2
<1> DEFINE Good(w) == w = [d \in 0 .. n |-> IF d = 0 THEN <<>> ELSE Visit(db, w[d - 1], l[d])]
<1>4. \E w : Good(w)
  <2>1. PICK A : A = Seq(R)
    OBVIOUS
  <2>2. PICK f : f = [d \in 1 .. n |-> [a \in A |-> Visit(db, a, l[d])]]
    OBVIOUS
  <2>3. PICK w : Iterates(w, n, f, <<>>)
    BY <1>2, IterationExists
  <2>4. \A d \in 1 .. n : \A a \in A : Visit(db, a, l[d]) \in A
    <3> SUFFICES ASSUME NEW d \in 1 .. n, NEW a \in A PROVE Visit(db, a, l[d]) \in A
      OBVIOUS
    <3>1. /\ IsFiniteSet(RowsOf(db)) /\ a \in Seq(RowsOf(db)) /\ l[d] \in RowsOf(db)
          /\ A = Seq(RowsOf(db))
      BY <1>1, <1>2, <1>3, <2>1
    <3>2. PICK b : b = Visit(db, a, l[d])
      OBVIOUS
    <3>3. b \in Seq(RowsOf(db))
      BY <3>1, <3>2, VisitOK
    <3> QED  BY <3>1, <3>2, <3>3
  <2>5. PICK G : G = {d \in 0 .. n : w[d] \in A}
    OBVIOUS
  <2>6. 0 \in G
    BY <1>2, <2>1, <2>3, <2>5 DEF Iterates
  <2>7. ASSUME NEW d \in 1 .. n, d - 1 \in G PROVE d \in G /\ w[d] = Visit(db, w[d - 1], l[d])
    <3>1. w[d] = f[d][w[d - 1]]
      BY <1>2, <2>3 DEF Iterates
    <3>2. w[d - 1] \in A
      BY <2>5, <2>7
    <3>3. w[d] = Visit(db, w[d - 1], l[d])
      BY <2>2, <3>1, <3>2
    <3> QED  BY <1>2, <2>4, <2>5, <3>2, <3>3
  <2>8. \A d \in 0 .. n : d \in G
    BY <1>2, <2>6, <2>7, StepByStep
  <2>9. \A d \in 0 .. n : w[d] = IF d = 0 THEN <<>> ELSE Visit(db, w[d - 1], l[d])
    <3> SUFFICES ASSUME NEW d \in 0 .. n
                 PROVE  w[d] = IF d = 0 THEN <<>> ELSE Visit(db, w[d - 1], l[d])
      OBVIOUS
    <3>1. CASE d = 0
      BY <2>3, <3>1 DEF Iterates
    <3>2. CASE d # 0
      <4>1. d \in 1 .. n /\ d - 1 \in 0 .. n
        BY <1>2, <3>2
      <4> QED  BY <2>7, <2>8, <3>2, <4>1
    <3> QED  BY <3>1, <3>2
  <2>10. w = [d \in 0 .. n |-> w[d]]
    BY <2>3 DEF Iterates
  <2> QED  BY <2>9, <2>10
<1>5. PICK w : w = CHOOSE v : Good(v)
  OBVIOUS
<1>6. Good(w)
  BY <1>4, <1>5
<1>7. o = w[n]
  BY <1>1, <1>5 DEF CreationOrder
<1>8. /\ w[0] = <<>>
      /\ \A d \in 1 .. n : w[d] = Visit(db, w[d - 1], l[d])
  BY <1>2, <1>6
<1> HIDE DEF Good
<1>9. PICK G : G = {d \in 0 .. n : /\ Distinct(db, w[d])
                                   /\ Forest(db) => ParentsFirst(db, w[d])
                                   /\ \A i \in 1 .. n : i <= d => l[i] \in ToSet(w[d])}
  OBVIOUS
<1>10. 0 \in G
  <2>1. Distinct(db, <<>>) /\ ParentsFirst(db, <<>>)
    BY DEF Distinct, ParentsFirst
  <2> QED  BY <1>2, <1>8, <1>9, <2>1
<1>11. ASSUME NEW d \in 1 .. n, d - 1 \in G PROVE d \in G
  <2>1. PICK a, b : a = w[d - 1] /\ b = w[d]
    OBVIOUS
  <2>2. /\ Distinct(db, a) /\ (Forest(db) => ParentsFirst(db, a))
        /\ \A i \in 1 .. n : i <= d - 1 => l[i] \in ToSet(a)
    BY <1>9, <1>11, <2>1
  <2>3. a \in Seq(RowsOf(db))
    BY <2>2 DEF Distinct
  <2>4. b = Visit(db, a, l[d]) /\ l[d] \in RowsOf(db)
    BY <1>1, <1>3, <1>8, <2>1
  <2>5. /\ l[d] \in ToSet(b) /\ ToSet(a) \subseteq ToSet(b)
        /\ Distinct(db, a) => Distinct(db, b)
        /\ Forest(db) /\ ParentsFirst(db, a) => ParentsFirst(db, b)
    <3>1. IsFiniteSet(RowsOf(db))
      BY <1>1, <1>2
    <3> QED  BY <2>3, <2>4, <3>1, VisitOK
  <2>6. \A i \in 1 .. n : i <= d => l[i] \in ToSet(b)
    <3> SUFFICES ASSUME NEW i \in 1 .. n, i <= d PROVE l[i] \in ToSet(b)
      OBVIOUS
    <3>1. i = d \/ i <= d - 1
      BY <1>2
    <3> QED  BY <2>2, <2>5, <3>1
  <2> QED  BY <1>2, <1>9, <2>1, <2>2, <2>5, <2>6
<1>12. n \in G
  <2>1. \A d \in 0 .. n : d \in G
    BY <1>2, <1>10, <1>11, StepByStep
  <2> QED  BY <1>2, <2>1
<1>13. /\ Distinct(db, o) /\ (Forest(db) => ParentsFirst(db, o))
       /\ \A i \in 1 .. n : l[i] \in ToSet(o)
  BY <1>2, <1>7, <1>9, <1>12
<1>14. R \subseteq ToSet(o)
  BY <1>1, <1>2, <1>13 DEF ToSet
<1>15. ToSet(o) \subseteq R
  BY <1>1, <1>13 DEF ToSet, Distinct
<1> QED  BY <1>1, <1>13, <1>14, <1>15
-----------------------------------------------------------------------------
(* Kuma's imports *)

KRows == DOMAIN kuma.rows

KRowOf(m) ==
    [owner : Take \cup {NoOne}, src : {m.src}, key : {m.key}, type : {m.type}, parent : {m.parent},
     shadow : {m.shadow}, paused : {m.paused}, beat : {m.beat}, token : {m.token}]

TakeOf(s) ==
    [stage : {"new", "rows", "done", "refused", "failed"}, dry : BOOLEAN, queue : {s.queue},
     imported : {s.imported}, token : {s.token}, resolved : {s.resolved}, used : {s.used},
     carried : {s.carried}, entries : {s.entries}, page : Nat, placed : {s.placed}]

RowId(t, r) == <<t, "row", r>>

\* A row is somebody's by hand, or an import's, which names it; it is committed
\* when the import is over.
MadeBy(t, x) ==
    LET e == takes[t].entries
    IN  /\ t \in Take /\ x = RowId(t, x[3]) /\ x[3] \in DOMAIN e /\ e[x[3]].monitor = x
        /\ monitors[x].owner \in {NoOne, t}
        /\ monitors[x].owner = t => takes[t].stage = "rows"
        /\ monitors[x].owner = NoOne => takes[t].stage = "done" /\ ~ takes[t].dry
        /\ monitors[x].type = kuma.rows[x[3]].type
        /\ e[x[3]].outcome = "imported" => monitors[x].token = kuma.rows[x[3]].token
        /\ monitors[x].beat = (kuma.rows[x[3]].beat = "said")

KRowOK(x) ==
    /\ monitors[x] \in KRowOf(monitors[x])
    /\ \/ x = HandId /\ monitors[x].owner = NoOne /\ monitors[x].src = "none"
       \/ MadeBy(x[1], x)

\* A row of another import, which is over.
Elsewhere(t, y) == y[1] \in Take \ {t} /\ takes[y[1]].stage = "done"

\* What an import remembers: a row it made is there as long as it works, and
\* what it speaks of as carried is a row's that it made.
KRemembers(t) ==
    LET self == takes[t]
    IN  /\ DOMAIN self.resolved \subseteq DOMAIN self.entries
        /\ DOMAIN self.entries \subseteq KRows
        /\ \A r \in DOMAIN self.imported : Elsewhere(t, self.imported[r])
        /\ \A r \in DOMAIN self.resolved :
              \/ Elsewhere(t, self.resolved[r])
              \/ /\ self.resolved[r] = RowId(t, r)
                 /\ self.stage = "rows" => RowId(t, r) \in Own(monitors, t)
        /\ \A r \in DOMAIN self.entries : self.entries[r].monitor \in {NoId, RowId(t, r)}
        /\ \A host \in self.used :
              \E r \in DOMAIN self.entries : self.entries[r].monitor # NoId /\ host = kuma.rows[r].host
        /\ \A r \in self.carried :
              r \in DOMAIN self.entries /\ self.entries[r].monitor # NoId /\ kuma.rows[r].beat # "none"

\* A row of which a page was made is on one, or gone.
OnPages(t) ==
    LET self == takes[t]
    IN  /\ self.placed \subseteq DOMAIN self.resolved
        /\ self.stage = "rows" \/ Reported(t) =>
              \A r \in self.placed :
                  self.resolved[r] \in DOMAIN monitors =>
                      \E s \in DOMAIN pages :
                          pages[s].owner \in {NoOne, t} /\ self.resolved[r] \in pages[s].members

\* How far an import is: a row is in the queue or has its line.
KProgress(t) ==
    LET self == takes[t]
    IN  /\ self.stage = "new" => self = NewTake
        /\ self.stage = "failed" => DOMAIN self.entries = {}
        /\ self.stage \in {"done", "refused"} => DOMAIN self.entries = KRows
        /\ self.stage = "rows" =>
              /\ Distinct(kuma, self.queue)
              /\ ToSet(self.queue) = KRows \ DOMAIN self.entries
              /\ self.queue # <<>> => self.token \in {"unread", "fresh", kuma.rows[Head(self.queue)].token}

TakeOK(t) == takes[t] \in TakeOf(takes[t]) /\ KRemembers(t) /\ OnPages(t) /\ KProgress(t)

KPageOK(s) == pages[s] \in [owner : Take \cup {NoOne}, members : {pages[s].members}]

\* The inductive invariant.
KumaInv ==
    /\ kuma \in Kumas /\ DOMAIN takes = Take
    /\ \A t \in Take : TakeOK(t)
    /\ \A x \in DOMAIN monitors : KRowOK(x)
    /\ \A s \in DOMAIN pages : KPageOK(s)

\* Of a database that is a forest: the group of a row that is still to come has
\* its line or comes before it, no row was lost to a row of this import, and a
\* row is in its group.
GroupsFirst(t) ==
    LET self == takes[t]
    IN  /\ self.stage = "rows" =>
              \A i \in 1 .. Len(self.queue) :
                  LET p == ParentOf(kuma, self.queue[i])
                  IN  p \in KRows => \/ p \in DOMAIN self.entries
                                     \/ \E j \in 1 .. Len(self.queue) : j < i /\ self.queue[j] = p
        /\ \A r \in DOMAIN self.entries : self.entries[r].lost[1] # t

InGroup(x) ==
    x[1] \in Take =>
        LET self == takes[x[1]]
            p == ParentOf(kuma, x[3])
        IN  /\ p \in KRows => p \in DOMAIN self.entries
            /\ p \in DOMAIN self.resolved /\ self.resolved[p] \in DOMAIN monitors =>
                   monitors[x].parent = self.resolved[p]

TreeInv ==
    /\ Forest(kuma)
    /\ \A t \in Take : GroupsFirst(t)
    /\ \A x \in DOMAIN monitors : InGroup(x)
-----------------------------------------------------------------------------
\* An import that is under way takes a step: it becomes X, rows and pages that
\* are not its own stay as they are, and none comes that is not its own.
Moves(t, X) ==
    /\ t \in Take /\ takes[t].stage # "done"
    /\ takes' = [takes EXCEPT ![t] = X] /\ kuma' = kuma
    /\ \A x \in DOMAIN monitors : x[1] # t => x \in DOMAIN monitors' /\ monitors'[x] = monitors[x]
    /\ \A x \in DOMAIN monitors' : x[1] # t => x \in DOMAIN monitors
    /\ \A s \in DOMAIN pages : pages[s].owner # t => s \in DOMAIN pages' /\ pages'[s] = pages[s]

\* Then nothing about the others changes.
LEMMA Bystanders ==
    ASSUME KumaInv, NEW t, NEW X, Moves(t, X)
    PROVE  /\ DOMAIN takes' = Take /\ takes'[t] = X /\ kuma' = kuma
           /\ \A q \in Take \ {t} : takes'[q] = takes[q]
           /\ \A y : Elsewhere(t, y) => Elsewhere(t, y)'
           /\ \A q \in Take \ {t} : TakeOK(q)'
           /\ \A x \in DOMAIN monitors' : x[1] # t => KRowOK(x)'
<1> USE DEF Moves
<1>1. /\ DOMAIN takes' = Take /\ takes'[t] = X /\ kuma' = kuma
      /\ \A q \in Take \ {t} : takes'[q] = takes[q]
  BY DEF KumaInv
<1>2. \A q \in Take : \A y : Elsewhere(q, y) => Elsewhere(q, y)' /\ y[1] # t
  BY <1>1 DEF Elsewhere
<1>3. ASSUME NEW q \in Take \ {t} PROVE TakeOK(q)'
  <2>1. TakeOK(q) /\ takes'[q] = takes[q] /\ KRows' = KRows
    BY <1>1 DEF KumaInv, KRows
  <2>2. \A r \in DOMAIN takes[q].resolved :
            \/ Elsewhere(q, takes[q].resolved[r])
            \/ takes[q].resolved[r] = RowId(q, r)
    BY <2>1 DEF TakeOK, KRemembers
  <2>3. \A r \in DOMAIN takes[q].resolved : takes[q].resolved[r][1] # t
    BY <1>2, <2>2 DEF RowId
  <2>4. \A r : RowId(q, r) \in Own(monitors, q) => RowId(q, r) \in Own(monitors', q)
    BY DEF Own, RowId
  <2>5. KRemembers(q)'
    BY <1>1, <1>2, <2>1, <2>4 DEF TakeOK, KRemembers
  <2>6. OnPages(q)'
    <3>1. takes[q].placed \subseteq DOMAIN takes[q].resolved
      BY <2>1 DEF TakeOK, OnPages
    <3>2. SUFFICES ASSUME takes[q].stage = "rows" \/ Reported(q), NEW r \in takes[q].placed,
                          takes[q].resolved[r] \in DOMAIN monitors'
                   PROVE  \E s \in DOMAIN pages' :
                              /\ pages'[s].owner \in {NoOne, q}
                              /\ takes[q].resolved[r] \in pages'[s].members
      BY <2>1, <3>1 DEF OnPages, Reported
    <3>3. takes[q].resolved[r] \in DOMAIN monitors
      BY <2>3, <3>1, <3>2
    <3>4. PICK s \in DOMAIN pages : /\ pages[s].owner \in {NoOne, q}
                                    /\ takes[q].resolved[r] \in pages[s].members
      BY <2>1, <3>2, <3>3 DEF TakeOK, OnPages
    <3>5. NoOne # t
      BY KumaConstants DEF NoOne
    <3> QED  BY <3>4, <3>5
  <2>7. KProgress(q)'
    BY <1>1, <2>1 DEF TakeOK, KProgress, Distinct, RowsOf
  <2> QED  BY <2>1, <2>5, <2>6, <2>7 DEF TakeOK, TakeOf
<1>4. ASSUME NEW x \in DOMAIN monitors', x[1] # t PROVE KRowOK(x)'
  <2>1. x \in DOMAIN monitors /\ monitors'[x] = monitors[x] /\ KRowOK(x)
    BY <1>4 DEF KumaInv
  <2>2. x[1] \in Take => takes'[x[1]] = takes[x[1]]
    BY <1>1, <1>4
  <2> QED  BY <1>1, <2>1, <2>2 DEF KRowOK, MadeBy, KRowOf
<1> QED  BY <1>1, <1>2, <1>3, <1>4

\* It is for the import itself, its rows and the pages to be shown.
LEMMA MovesOK ==
    ASSUME KumaInv, NEW t, NEW X, Moves(t, X), TakeOK(t)',
           \A x \in DOMAIN monitors' : x[1] = t => KRowOK(x)',
           \A s \in DOMAIN pages' : KPageOK(s)'
    PROVE  KumaInv'
  BY Bystanders DEF KumaInv

-----------------------------------------------------------------------------
\* An id of an import's tells which; the markers are no import's.
LEMMA KMarkers ==
    /\ NoOne \notin Take /\ NoId[1] \notin Take /\ HandId[1] \notin Take
    /\ \A t, r : RowId(t, r)[1] = t /\ RowId(t, r)[2] = "row" /\ RowId(t, r)[3] = r
    /\ \A t \in Take : \A r : RowId(t, r) # NoId /\ RowId(t, r) # HandId
  BY KumaConstants DEF NoOne, NoId, HandId, RowId

\* What an import that begins finds is of imports that are over.
LEMMA LoadsElsewhere ==
    ASSUME KumaInv, NEW t \in Take, takes[t].stage = "new", NEW r \in DOMAIN LoadImported(t)
    PROVE  Elsewhere(t, LoadImported(t)[r])
<1>1. PICK ids : ids = {x \in Visible(monitors, t) : monitors[x].src # "none"}
  OBVIOUS
<1>2. LoadImported(t) = [q \in {monitors[x].src : x \in ids} |-> CHOOSE x \in ids : monitors[x].src = q]
  BY <1>1 DEF LoadImported
<1>3. PICK y : y = LoadImported(t)[r]
  OBVIOUS
<1>4. y \in ids
  BY <1>2, <1>3
<1>5. y \in DOMAIN monitors /\ monitors[y].owner \in {NoOne, t} /\ monitors[y].src # "none"
  BY <1>1, <1>4 DEF Visible
<1>6. MadeBy(y[1], y)
  BY <1>5 DEF KumaInv, KRowOK
<1>7. y[1] \in Take /\ (monitors[y].owner = y[1] => takes[y[1]].stage = "rows")
      /\ (monitors[y].owner = NoOne => takes[y[1]].stage = "done")
      /\ monitors[y].owner \in {NoOne, y[1]}
  BY <1>6 DEF MadeBy
<1> QED  BY <1>3, <1>5, <1>7 DEF Elsewhere

\* An import that has not begun has nothing.
LEMMA NewTakeTyped ==
    /\ NewTake \in TakeOf(NewTake)
    /\ NewTake.stage = "new" /\ NewTake.entries = Empty /\ NewTake.resolved = Empty
    /\ NewTake.imported = Empty /\ NewTake.used = {} /\ NewTake.carried = {} /\ NewTake.placed = {}
    /\ NewTake.page = 1 /\ NewTake.token = "unread" /\ NewTake.dry = FALSE /\ NewTake.queue = <<>>
    /\ DOMAIN Empty = {}
  BY DEF NewTake, TakeOf, Empty

\* The next row is one without a line, and after it the others are left.
LEMMA Popped ==
    ASSUME NEW db, NEW q, Distinct(db, q), q # <<>>, NEW r, r = Head(q)
    PROVE  /\ r \in ToSet(q) /\ r \in RowsOf(db)
           /\ Distinct(db, Tail(q)) /\ ToSet(Tail(q)) = ToSet(q) \ {r}
           /\ Len(q) \in Nat /\ Len(Tail(q)) = Len(q) - 1 /\ q[1] = r /\ Len(q) >= 1
           /\ \A i \in 1 .. Len(Tail(q)) : i + 1 \in 1 .. Len(q) /\ Tail(q)[i] = q[i + 1]
<1>1. PICK R, n, l : R = RowsOf(db) /\ n = Len(q) /\ l = Tail(q)
  OBVIOUS
<1>2. q \in Seq(R) /\ n \in Nat /\ n >= 1 /\ q[1] = r /\ r \in R
  BY <1>1 DEF Distinct
<1>3. l \in Seq(R) /\ Len(l) = n - 1 /\ \A i \in 1 .. n - 1 : i + 1 \in 1 .. n /\ l[i] = q[i + 1]
  BY <1>1, <1>2
<1>4. \A i, j \in 1 .. n : q[i] = q[j] => i = j
  BY <1>1 DEF Distinct
<1>5. Distinct(db, l)
  <2> SUFFICES ASSUME NEW i \in 1 .. n - 1, NEW j \in 1 .. n - 1, l[i] = l[j] PROVE i = j
    BY <1>1, <1>3 DEF Distinct
  <2>1. i + 1 = j + 1
    BY <1>3, <1>4
  <2> QED  BY <2>1
<1>6. \A x : x \in ToSet(q) <=> \E i \in 1 .. n : q[i] = x
  BY <1>1, <1>2 DEF ToSet
<1>7. \A x : x \in ToSet(l) <=> \E i \in 1 .. n - 1 : l[i] = x
  BY <1>3 DEF ToSet
<1>8. ToSet(l) \subseteq ToSet(q) \ {r}
  <2> SUFFICES ASSUME NEW i \in 1 .. n - 1 PROVE l[i] \in ToSet(q) /\ l[i] # r
    BY <1>7
  <2>1. i + 1 \in 1 .. n /\ 1 \in 1 .. n /\ i + 1 # 1
    BY <1>2
  <2> QED  BY <1>2, <1>3, <1>4, <1>6, <2>1
<1>9. ToSet(q) \ {r} \subseteq ToSet(l)
  <2> SUFFICES ASSUME NEW i \in 1 .. n, q[i] # r PROVE q[i] \in ToSet(l)
    BY <1>6
  <2>1. i - 1 \in 1 .. n - 1 /\ (i - 1) + 1 = i
    BY <1>2
  <2> QED  BY <1>3, <1>7, <2>1
<1>10. r \in ToSet(q)
  BY <1>2, <1>6
<1> QED  BY <1>1, <1>2, <1>3, <1>5, <1>8, <1>9, <1>10

\* The import t is done with its next row r, writes the line e and becomes X; it
\* made the row m for it, or none.
RowDone(t, r, X, e, m) ==
    LET self == takes[t]
    IN  /\ t \in Take /\ self.stage = "rows" /\ self.queue # <<>> /\ r = Head(self.queue)
        /\ X \in TakeOf(X) /\ X.stage = "rows" /\ X.dry = self.dry /\ X.queue = Tail(self.queue)
        /\ X.token = "unread" /\ X.imported = self.imported /\ X.placed = self.placed
        /\ X.entries = Put(self.entries, r, e)
        /\ takes' = [takes EXCEPT ![t] = X] /\ UNCHANGED <<kuma, pages>>

\* No row was made: the record may be of an earlier import.
Passes(t, r, X, e) ==
    /\ monitors' = monitors /\ e.monitor = NoId
    /\ X.used = takes[t].used /\ X.carried = takes[t].carried
    /\ \/ X.resolved = takes[t].resolved
       \/ \E y : Elsewhere(t, y) /\ X.resolved = Put(takes[t].resolved, r, y)

Makes(t, r, X, e, m) ==
    /\ monitors' = Put(monitors, RowId(t, r), m) /\ e.monitor = RowId(t, r)
    /\ m \in KRowOf(m) /\ m.owner = t /\ m.type = kuma.rows[r].type
    /\ e.outcome = "imported" => m.token = kuma.rows[r].token
    /\ m.beat = (kuma.rows[r].beat = "said")
    /\ X.used \subseteq takes[t].used \cup {kuma.rows[r].host}
    /\ X.carried \subseteq takes[t].carried \cup (IF kuma.rows[r].beat = "none" THEN {} ELSE {r})
    /\ X.resolved = Put(takes[t].resolved, r, RowId(t, r))

\* The group a row goes into.
ParentFor(t, r) ==
    LET p == kuma.rows[r].parent
    IN  IF p \in DOMAIN takes[t].resolved THEN takes[t].resolved[p] ELSE NoId

\* A group that the row was not put into, and why.
LostTo(t, r, y) ==
    \/ y = NoId
    \/ /\ y = ParentFor(t, r)
       /\ ~ (y \in Visible(monitors, t) /\ monitors[y].type = "group")

\* The turn of a row, whatever becomes of it.
RowTurn(t, r, X, e, m) ==
    /\ RowDone(t, r, X, e, m) /\ LostTo(t, r, e.lost)
    /\ Passes(t, r, X, e) \/ (Makes(t, r, X, e, m) /\ m.parent = ParentFor(t, r))

\* A step of an import that leaves its rows and its lines alone.
IdleTurn(t, X) ==
    /\ Moves(t, X) /\ monitors' = monitors /\ X.stage = takes[t].stage /\ X.queue = takes[t].queue
    /\ X.entries = takes[t].entries /\ X.resolved = takes[t].resolved

\* The first step of an import: it is refused, or has all its rows before it.
FirstTurn(t, X) ==
    /\ Moves(t, X) /\ monitors' = monitors /\ \A x \in DOMAIN monitors : x[1] # t
    /\ \A r \in DOMAIN X.entries : X.entries[r].lost = NoId
    /\ X.stage = "refused" \/ (X.stage = "rows" /\ X.queue = CreationOrder(kuma))

\* What it is to be the next row.
LEMMA NextIsNew ==
    ASSUME KumaInv, NEW t, NEW r, NEW X, NEW e, NEW m, RowDone(t, r, X, e, m)
    PROVE  /\ r \in KRows /\ r \notin DOMAIN takes[t].entries /\ r \notin DOMAIN takes[t].resolved
           /\ r \notin takes[t].placed
           /\ DOMAIN X.entries = DOMAIN takes[t].entries \cup {r} /\ X.entries[r] = e
           /\ \A q \in DOMAIN takes[t].entries : X.entries[q] = takes[t].entries[q]
           /\ Distinct(kuma, X.queue) /\ ToSet(X.queue) = KRows \ DOMAIN X.entries
           /\ RowId(t, r) \notin DOMAIN monitors
<1> USE DEF RowDone
<1>1. TakeOK(t)
  BY DEF KumaInv
<1>2. Distinct(kuma, takes[t].queue) /\ ToSet(takes[t].queue) = KRows \ DOMAIN takes[t].entries
  BY <1>1 DEF TakeOK, KProgress
<1>3. /\ r \in ToSet(takes[t].queue) /\ r \in RowsOf(kuma)
      /\ Distinct(kuma, X.queue) /\ ToSet(X.queue) = ToSet(takes[t].queue) \ {r}
  <2>1. PICK q : q = takes[t].queue
    OBVIOUS
  <2>2. Distinct(kuma, q) /\ q # <<>> /\ r = Head(q) /\ X.queue = Tail(q)
    BY <1>2, <2>1
  <2>3. /\ r \in ToSet(q) /\ r \in RowsOf(kuma)
        /\ Distinct(kuma, Tail(q)) /\ ToSet(Tail(q)) = ToSet(q) \ {r}
    <3> HIDE DEF RowDone
    <3> QED  BY <2>2, Popped
  <2> QED  BY <2>1, <2>2, <2>3
<1>4. r \in KRows /\ r \notin DOMAIN takes[t].entries
  BY <1>2, <1>3
<1>5. r \notin DOMAIN takes[t].resolved /\ r \notin takes[t].placed
  BY <1>1, <1>4 DEF TakeOK, KRemembers, OnPages
<1>6. DOMAIN X.entries = DOMAIN takes[t].entries \cup {r} /\ X.entries[r] = e
      /\ \A q \in DOMAIN takes[t].entries : X.entries[q] = takes[t].entries[q]
  BY <1>4 DEF Put
<1>7. RowId(t, r) \notin DOMAIN monitors
  <2> SUFFICES ASSUME RowId(t, r) \in DOMAIN monitors PROVE FALSE
    OBVIOUS
  <2> HIDE DEF RowDone
  <2>1. RowId(t, r)[1] = t /\ RowId(t, r)[3] = r
    BY DEF RowId
  <2>2. MadeBy(t, RowId(t, r))
    BY <2>1, KMarkers, t \in Take DEF KumaInv, KRowOK, RowDone
  <2>3. r \in DOMAIN takes[t].entries
    BY <2>1, <2>2 DEF MadeBy
  <2> QED  BY <1>4, <2>3
<1> QED  BY <1>2, <1>3, <1>4, <1>5, <1>6, <1>7

\* A row that is done with, made or not, leaves the invariant.
LEMMA RowDoneInv ==
    ASSUME KumaInv, NEW t, NEW r, NEW X, NEW e, NEW m, RowDone(t, r, X, e, m),
           Passes(t, r, X, e) \/ Makes(t, r, X, e, m)
    PROVE  KumaInv'
<1>1. /\ r \in KRows /\ r \notin DOMAIN takes[t].entries /\ r \notin DOMAIN takes[t].resolved
      /\ r \notin takes[t].placed
      /\ DOMAIN X.entries = DOMAIN takes[t].entries \cup {r} /\ X.entries[r] = e
      /\ \A q \in DOMAIN takes[t].entries : X.entries[q] = takes[t].entries[q]
      /\ Distinct(kuma, X.queue) /\ ToSet(X.queue) = KRows \ DOMAIN X.entries
      /\ RowId(t, r) \notin DOMAIN monitors
  BY NextIsNew
<1> USE DEF RowDone
<1>2. TakeOK(t) /\ t \in Take
  BY DEF KumaInv
<1>3. /\ \A x \in DOMAIN monitors : x \in DOMAIN monitors' /\ monitors'[x] = monitors[x]
      /\ \A x \in DOMAIN monitors' : x \in DOMAIN monitors \/ (x = RowId(t, r) /\ Makes(t, r, X, e, m))
      /\ Makes(t, r, X, e, m) => RowId(t, r) \in DOMAIN monitors' /\ monitors'[RowId(t, r)] = m
  BY <1>1, Zenon DEF Passes, Makes, Put
<1>4. Moves(t, X)
  BY <1>2, <1>3, KMarkers DEF Moves
<1>5. /\ takes'[t] = X /\ KRows' = KRows /\ kuma' = kuma
      /\ \A y : Elsewhere(t, y) => Elsewhere(t, y)'
  BY <1>4, Bystanders DEF KRows
<1>6. /\ DOMAIN X.resolved \subseteq DOMAIN takes[t].resolved \cup {r}
      /\ DOMAIN takes[t].resolved \subseteq DOMAIN X.resolved
      /\ \A q \in DOMAIN takes[t].resolved : X.resolved[q] = takes[t].resolved[q]
      /\ r \in DOMAIN X.resolved =>
            \/ Elsewhere(t, X.resolved[r])
            \/ X.resolved[r] = RowId(t, r) /\ Makes(t, r, X, e, m)
  BY <1>1, Zenon DEF Passes, Makes, Put
<1>7. /\ Own(monitors, t) \subseteq Own(monitors', t)
      /\ Makes(t, r, X, e, m) => RowId(t, r) \in Own(monitors', t)
  BY <1>3, Zenon DEF Own, Makes
<1>8. KRemembers(t)'
  <2>1. DOMAIN X.resolved \subseteq DOMAIN X.entries /\ DOMAIN X.entries \subseteq KRows
    BY <1>1, <1>2, <1>6 DEF TakeOK, KRemembers
  <2>2. \A q \in DOMAIN X.imported : Elsewhere(t, X.imported[q])'
    BY <1>2, <1>5 DEF TakeOK, KRemembers
  <2>3. ASSUME NEW q \in DOMAIN X.resolved
        PROVE  \/ Elsewhere(t, X.resolved[q])'
               \/ X.resolved[q] = RowId(t, q) /\ RowId(t, q) \in Own(monitors', t)
    <3>1. CASE q = r
      BY <1>5, <1>6, <1>7, <2>3, <3>1
    <3>2. CASE q # r
      <4>1. q \in DOMAIN takes[t].resolved /\ X.resolved[q] = takes[t].resolved[q]
        BY <1>6, <2>3, <3>2
      <4>2. \/ Elsewhere(t, takes[t].resolved[q])
            \/ takes[t].resolved[q] = RowId(t, q) /\ RowId(t, q) \in Own(monitors, t)
        BY <1>2, <4>1 DEF TakeOK, KRemembers
      <4> QED  BY <1>5, <1>7, <4>1, <4>2
    <3> QED  BY <3>1, <3>2
  <2>4. \A q \in DOMAIN X.entries : X.entries[q].monitor \in {NoId, RowId(t, q)}
    BY <1>1, <1>2 DEF TakeOK, KRemembers, Passes, Makes
  <2>5. ASSUME NEW host \in X.used
        PROVE  \E q \in DOMAIN X.entries : X.entries[q].monitor # NoId /\ host = kuma.rows[q].host
    <3>1. CASE host \in takes[t].used
      <4>1. PICK q \in DOMAIN takes[t].entries :
               takes[t].entries[q].monitor # NoId /\ host = kuma.rows[q].host
        BY <1>2, <3>1 DEF TakeOK, KRemembers
      <4> QED  BY <1>1, <4>1
    <3>2. CASE host \notin takes[t].used
      <4>1. host = kuma.rows[r].host /\ e.monitor = RowId(t, r)
        BY <2>5, <3>2 DEF Passes, Makes
      <4> QED  BY <1>1, <1>2, <4>1, KMarkers
    <3> QED  BY <3>1, <3>2
  <2>6. ASSUME NEW q \in X.carried
        PROVE  q \in DOMAIN X.entries /\ X.entries[q].monitor # NoId /\ kuma.rows[q].beat # "none"
    <3>1. CASE q \in takes[t].carried
      <4>1. /\ q \in DOMAIN takes[t].entries /\ takes[t].entries[q].monitor # NoId
            /\ kuma.rows[q].beat # "none"
        BY <1>2, <3>1 DEF TakeOK, KRemembers
      <4> QED  BY <1>1, <4>1
    <3>2. CASE q \notin takes[t].carried
      <4>1. q = r /\ e.monitor = RowId(t, r) /\ kuma.rows[r].beat # "none"
        BY <2>6, <3>2 DEF Passes, Makes
      <4> QED  BY <1>1, <1>2, <4>1, KMarkers
    <3> QED  BY <3>1, <3>2
  <2> QED  BY <1>5, <2>1, <2>2, <2>3, <2>4, <2>5, <2>6 DEF KRemembers
<1>9. OnPages(t)'
  <2>1. takes[t].placed \subseteq DOMAIN takes[t].resolved
    BY <1>2 DEF TakeOK, OnPages
  <2>2. SUFFICES ASSUME NEW q \in takes[t].placed, X.resolved[q] \in DOMAIN monitors'
                 PROVE  \E s \in DOMAIN pages : /\ pages[s].owner \in {NoOne, t}
                                                /\ X.resolved[q] \in pages[s].members
    BY <1>5, <1>6, <2>1 DEF OnPages
  <2>3. X.resolved[q] = takes[t].resolved[q] /\ q \in DOMAIN takes[t].resolved /\ q # r
    BY <1>1, <1>6, <2>1
  <2>4. \/ takes[t].resolved[q][1] # t
        \/ takes[t].resolved[q] = RowId(t, q)
    BY <1>2, <2>3 DEF TakeOK, KRemembers, Elsewhere
  <2>5. takes[t].resolved[q] # RowId(t, r)
    BY <2>3, <2>4, KMarkers
  <2>6. takes[t].resolved[q] \in DOMAIN monitors
    BY <1>3, <2>2, <2>3, <2>5
  <2> QED  BY <1>2, <2>3, <2>6 DEF TakeOK, OnPages
<1>10. KProgress(t)'
  <2>1. Distinct(kuma, takes[t].queue)'
    BY <1>1, <1>5, Zenon DEF Distinct, RowsOf
  <2>2. takes'[t].stage = "rows" /\ takes'[t].token = "unread"
        /\ ToSet(takes'[t].queue) = KRows' \ DOMAIN takes'[t].entries
    BY <1>1, <1>5
  <2> QED  BY <2>1, <2>2 DEF KProgress
<1>11. TakeOK(t)'
  BY <1>5, <1>8, <1>9, <1>10 DEF TakeOK, TakeOf
<1>12. ASSUME NEW x \in DOMAIN monitors', x[1] = t PROVE KRowOK(x)'
  <2>1. CASE x \in DOMAIN monitors
    <3>1. MadeBy(t, x) /\ monitors'[x] = monitors[x] /\ monitors[x] \in KRowOf(monitors[x])
      BY <1>2, <1>3, <1>12, <2>1, KMarkers DEF KumaInv, KRowOK
    <3>2. X.entries[x[3]] = takes[t].entries[x[3]] /\ x[3] \in DOMAIN X.entries
      BY <1>1, <3>1 DEF MadeBy
    <3>3. MadeBy(t, x)'
      BY <1>5, <3>1, <3>2 DEF MadeBy
    <3> QED  BY <1>12, <3>1, <3>3 DEF KRowOK, KRowOf
  <2>2. CASE x = RowId(t, r) /\ Makes(t, r, X, e, m)
    <3>1. monitors'[x] = m /\ x[3] = r /\ x = RowId(t, x[3])
      BY <1>3, <2>2, KMarkers
    <3>2. MadeBy(t, x)'
      <4>1. /\ takes'[t].entries = X.entries /\ takes'[t].stage = "rows" /\ X.entries[x[3]] = e
            /\ x[3] \in DOMAIN X.entries /\ kuma' = kuma /\ t \in Take
        BY <1>1, <1>2, <1>5, <3>1
      <4>2. /\ e.monitor = x /\ m.owner = t /\ t # NoOne /\ m.type = kuma.rows[x[3]].type
            /\ e.outcome = "imported" => m.token = kuma.rows[x[3]].token
            /\ m.beat = (kuma.rows[x[3]].beat = "said")
        BY <1>2, <2>2, <3>1, KMarkers DEF Makes
      <4> QED  BY <3>1, <4>1, <4>2 DEF MadeBy
    <3>3. monitors'[x] \in KRowOf(monitors'[x])
      BY <2>2, <3>1 DEF Makes
    <3> QED  BY <1>12, <3>2, <3>3 DEF KRowOK, KRowOf
  <2> QED  BY <1>3, <1>12, <2>1, <2>2
<1>13. \A s \in DOMAIN pages' : KPageOK(s)'
  BY DEF KumaInv, KPageOK
<1> QED  BY <1>4, <1>11, <1>12, <1>13, MovesOK

\* An import begins, or is refused.
LEMMA KumaBeginInv ==
    ASSUME KumaInv, NEW t \in Take, NEW dry \in BOOLEAN, NEW allowDrift \in BOOLEAN,
           KumaBegin(t, dry, allowDrift)
    PROVE  KumaInv' /\ \E X : FirstTurn(t, X)
<1>1. takes[t] = NewTake /\ takes[t].stage = "new" /\ UNCHANGED <<kuma, monitors, pages>> /\ kuma \in Kumas
  BY DEF KumaBegin, KumaInv, TakeOK, KProgress, mvars
<1>2. \A x \in DOMAIN monitors : x[1] # t
  <2> SUFFICES ASSUME NEW x \in DOMAIN monitors, x[1] = t PROVE FALSE
    OBVIOUS
  <2>1. KRowOK(x) /\ x # HandId
    BY KMarkers DEF KumaInv
  <2> QED  BY <1>1, <2>1 DEF KRowOK, MadeBy
<1>3. CASE kuma.drift /\ ~ allowDrift
  <2>1. PICK e, X : /\ e = [r \in KRows |-> Line("skipped", NoId, NoId)]
                    /\ X = [NewTake EXCEPT !.stage = "refused", !.entries = e]
    BY Zenon
  <2>2. takes' = [takes EXCEPT ![t] = X]
    BY <1>1, <1>3, <2>1 DEF KumaBegin, KRows
  <2>3. /\ X \in TakeOf(X) /\ X.stage = "refused" /\ X.entries = e /\ X.resolved = Empty
        /\ X.imported = Empty /\ X.used = {} /\ X.carried = {} /\ X.placed = {}
    BY <2>1, NewTakeTyped DEF TakeOf
  <2>4. Moves(t, X)
    BY <1>1, <2>2 DEF Moves
  <2>5. takes'[t] = X /\ KRows' = KRows
    BY <1>1, <2>4, Bystanders DEF KRows
  <2>6. \A r \in KRows : e[r].monitor = NoId
    BY <2>1 DEF Line
  <2>7. KRemembers(t)'
    BY <2>1, <2>3, <2>5, <2>6, NewTakeTyped DEF KRemembers
  <2>8. OnPages(t)' /\ KProgress(t)'
    BY <2>1, <2>3, <2>5 DEF OnPages, KProgress
  <2>9. TakeOK(t)'
    BY <2>3, <2>5, <2>7, <2>8 DEF TakeOK, TakeOf
  <2>10. FirstTurn(t, X)
    BY <1>1, <1>2, <2>1, <2>3, <2>4 DEF FirstTurn, Line
  <2> QED  BY <1>1, <1>2, <2>4, <2>9, <2>10, MovesOK DEF KumaInv, KPageOK
<1>4. CASE ~ (kuma.drift /\ ~ allowDrift)
  <2>1. PICK o, l, X : /\ o = CreationOrder(kuma) /\ l = LoadImported(t)
                       /\ X = [NewTake EXCEPT !.stage = "rows", !.dry = dry, !.queue = o, !.imported = l]
    BY Zenon
  <2>2. takes' = [takes EXCEPT ![t] = X]
    BY <1>1, <1>4, <2>1 DEF KumaBegin
  <2>3. /\ X \in TakeOf(X) /\ X.stage = "rows" /\ X.entries = Empty /\ X.resolved = Empty
        /\ X.imported = l /\ X.used = {} /\ X.carried = {} /\ X.placed = {} /\ X.queue = o
        /\ X.token = "unread"
    BY <2>1, NewTakeTyped DEF TakeOf
  <2>4. Moves(t, X)
    BY <1>1, <2>2 DEF Moves
  <2>5. takes'[t] = X /\ KRows' = KRows /\ \A y : Elsewhere(t, y) => Elsewhere(t, y)'
    BY <1>1, <2>4, Bystanders DEF KRows
  <2>6. Distinct(kuma, o) /\ ToSet(o) = KRows
    BY <1>1, <2>1, CreationOrderOK DEF RowsOf, KRows
  <2>7. \A r \in DOMAIN l : Elsewhere(t, l[r])
    BY <1>1, <2>1, LoadsElsewhere
  <2>8. KRemembers(t)'
    BY <2>3, <2>5, <2>7, NewTakeTyped DEF KRemembers
  <2>9. OnPages(t)'
    BY <2>3, <2>5 DEF OnPages
  <2>10. KProgress(t)'
    BY <1>1, <2>3, <2>5, <2>6, NewTakeTyped DEF KProgress, Distinct, RowsOf
  <2>11. TakeOK(t)'
    BY <2>3, <2>5, <2>8, <2>9, <2>10 DEF TakeOK, TakeOf
  <2>12. FirstTurn(t, X)
    BY <1>1, <1>2, <2>1, <2>3, <2>4, NewTakeTyped DEF FirstTurn
  <2> QED  BY <1>1, <1>2, <2>4, <2>11, <2>12, MovesOK DEF KumaInv, KPageOK
<1> QED  BY <1>3, <1>4
\* A row of an earlier import.
LEMMA KumaAlreadyInv ==
    ASSUME KumaInv, NEW t \in Take, KumaAlready(t)
    PROVE  KumaInv' /\ \E r, X, e, m : RowTurn(t, r, X, e, m)
<1>1. PICK self, r, y, e, X :
         /\ self = takes[t] /\ r = Head(self.queue) /\ y = self.imported[r]
         /\ e = Line("skipped", NoId, NoId)
         /\ X = NextRow([self EXCEPT !.resolved = Put(self.resolved, r, y)], r, e)
  OBVIOUS
<1>2. /\ self.stage = "rows" /\ self.queue # <<>> /\ r \in DOMAIN self.imported
      /\ takes' = [takes EXCEPT ![t] = X] /\ UNCHANGED <<kuma, monitors, pages>>
  BY <1>1 DEF KumaAlready, mvars
<1>3. self \in TakeOf(self) /\ KRemembers(t)
  BY <1>1 DEF KumaInv, TakeOK
<1>4. /\ X \in TakeOf(X) /\ X.stage = "rows" /\ X.dry = self.dry /\ X.queue = Tail(self.queue)
      /\ X.token = "unread" /\ X.imported = self.imported /\ X.placed = self.placed
      /\ X.entries = Put(self.entries, r, e) /\ X.used = self.used /\ X.carried = self.carried
      /\ X.resolved = Put(self.resolved, r, y)
  BY <1>1, <1>2, <1>3, Zenon DEF NextRow, TakeOf
<1>5. RowDone(t, r, X, e, e)
  BY <1>1, <1>2, <1>4 DEF RowDone
<1>6. Elsewhere(t, y) /\ e.monitor = NoId
  BY <1>1, <1>2, <1>3 DEF KRemembers, Line
<1>7. Passes(t, r, X, e)
  BY <1>1, <1>2, <1>4, <1>6, Zenon DEF Passes
<1>8. RowTurn(t, r, X, e, e)
  BY <1>1, <1>5, <1>7 DEF RowTurn, LostTo, Line
<1> QED  BY <1>5, <1>7, <1>8, RowDoneInv

\* A row without an equivalent.
LEMMA KumaRefusedInv ==
    ASSUME KumaInv, NEW t \in Take, KumaRefused(t)
    PROVE  KumaInv' /\ \E r, X, e, m : RowTurn(t, r, X, e, m)
<1>1. PICK self, r, e, X :
         /\ self = takes[t] /\ r = Head(self.queue)
         /\ e = Line(kuma.rows[r].becomes, NoId, NoId) /\ X = NextRow(self, r, e)
  OBVIOUS
<1>2. /\ self.stage = "rows" /\ self.queue # <<>>
      /\ takes' = [takes EXCEPT ![t] = X] /\ UNCHANGED <<kuma, monitors, pages>>
  BY <1>1 DEF KumaRefused, mvars
<1>3. self \in TakeOf(self)
  BY <1>1 DEF KumaInv, TakeOK
<1>4. /\ X \in TakeOf(X) /\ X.stage = "rows" /\ X.dry = self.dry /\ X.queue = Tail(self.queue)
      /\ X.token = "unread" /\ X.imported = self.imported /\ X.placed = self.placed
      /\ X.entries = Put(self.entries, r, e) /\ X.used = self.used /\ X.carried = self.carried
      /\ X.resolved = self.resolved
  BY <1>1, <1>2, <1>3, Zenon DEF NextRow, TakeOf
<1>5. RowDone(t, r, X, e, e)
  BY <1>1, <1>2, <1>4, Zenon DEF RowDone
<1>6. Passes(t, r, X, e)
  BY <1>1, <1>2, <1>4, Zenon DEF Passes, Line
<1>7. RowTurn(t, r, X, e, e)
  BY <1>1, <1>5, <1>6, Zenon DEF RowTurn, LostTo, Line
<1> QED  BY <1>5, <1>6, <1>7, RowDoneInv

\* What an import remembers stays true when it changes neither that nor a row.
LEMMA SameMemory ==
    ASSUME NEW t \in Take, NEW X, KRemembers(t), takes'[t] = X, kuma' = kuma, monitors' = monitors,
           \A y : Elsewhere(t, y) => Elsewhere(t, y)',
           X.stage = takes[t].stage, X.resolved = takes[t].resolved, X.imported = takes[t].imported,
           X.entries = takes[t].entries, X.used = takes[t].used, X.carried = takes[t].carried
    PROVE  KRemembers(t)'
<1>1. /\ DOMAIN X.resolved \subseteq DOMAIN X.entries /\ DOMAIN X.entries \subseteq KRows'
      /\ \A r \in DOMAIN X.imported : Elsewhere(t, X.imported[r])'
  BY DEF KRemembers, KRows
<1>2. \A r \in DOMAIN X.resolved :
          \/ Elsewhere(t, X.resolved[r])'
          \/ /\ X.resolved[r] = RowId(t, r)
             /\ X.stage = "rows" => RowId(t, r) \in Own(monitors', t)
  BY DEF KRemembers
<1>3. /\ \A r \in DOMAIN X.entries : X.entries[r].monitor \in {NoId, RowId(t, r)}
      /\ \A host \in X.used :
            \E r \in DOMAIN X.entries : X.entries[r].monitor # NoId /\ host = kuma'.rows[r].host
      /\ \A r \in X.carried :
            r \in DOMAIN X.entries /\ X.entries[r].monitor # NoId /\ kuma'.rows[r].beat # "none"
  BY DEF KRemembers
<1> QED  BY <1>1, <1>2, <1>3 DEF KRemembers

\* The read of the tokens that are taken.
LEMMA PushTokenInv ==
    ASSUME KumaInv, NEW t \in Take, PushTokenTaken(t)
    PROVE  KumaInv' /\ \E X : IdleTurn(t, X)
<1>1. PICK self, r, k, X :
         /\ self = takes[t] /\ r = Head(self.queue) /\ k \in {"fresh", kuma.rows[r].token}
         /\ X = [self EXCEPT !.token = k] /\ takes' = [takes EXCEPT ![t] = X]
  BY DEF PushTokenTaken
<1>2. self.stage = "rows" /\ self.queue # <<>> /\ UNCHANGED <<kuma, monitors, pages>>
  BY <1>1 DEF PushTokenTaken, Becoming, mvars
<1>3. TakeOK(t) /\ self \in TakeOf(self)
  BY <1>1 DEF KumaInv, TakeOK
<1>4. /\ X \in TakeOf(X) /\ X.stage = "rows" /\ X.dry = self.dry /\ X.queue = self.queue
      /\ X.token = k /\ X.imported = self.imported /\ X.placed = self.placed
      /\ X.entries = self.entries /\ X.used = self.used /\ X.carried = self.carried
      /\ X.resolved = self.resolved
  BY <1>1, <1>2, <1>3 DEF TakeOf
<1>5. Moves(t, X)
  BY <1>1, <1>2 DEF Moves
<1>6. /\ takes'[t] = X /\ KRows' = KRows /\ kuma' = kuma
      /\ \A y : Elsewhere(t, y) => Elsewhere(t, y)'
  BY <1>5, Bystanders DEF KRows
<1>d. self = takes[t] /\ r = Head(self.queue) /\ k \in {"fresh", kuma.rows[r].token}
  BY <1>1
<1>7. KRemembers(t)'
  <2>1. KRemembers(t)
    BY <1>3 DEF TakeOK
  <2> QED  BY <1>d, <1>2, <1>4, <1>6, <2>1, SameMemory
<1>8. OnPages(t)'
  BY <1>d, <1>2, <1>3, <1>4, <1>6 DEF TakeOK, OnPages
<1>9. KProgress(t)'
  <2>1. Distinct(kuma, takes[t].queue)'
    BY <1>d, <1>2, <1>3, <1>4, <1>6 DEF TakeOK, KProgress, Distinct, RowsOf
  <2>2. /\ takes'[t].stage = "rows" /\ ToSet(takes'[t].queue) = KRows' \ DOMAIN takes'[t].entries
        /\ takes'[t].token \in {"unread", "fresh", kuma'.rows[Head(takes'[t].queue)].token}
    BY <1>d, <1>2, <1>3, <1>4, <1>6 DEF TakeOK, KProgress
  <2> QED  BY <2>1, <2>2 DEF KProgress
<1>10. TakeOK(t)'
  BY <1>4, <1>6, <1>7, <1>8, <1>9 DEF TakeOK, TakeOf
<1>11. ASSUME NEW x \in DOMAIN monitors', x[1] = t PROVE KRowOK(x)'
  BY <1>d, <1>2, <1>4, <1>6, <1>11 DEF KumaInv, KRowOK, MadeBy, KRowOf
<1>12. IdleTurn(t, X)
  BY <1>d, <1>2, <1>4, <1>5 DEF IdleTurn
<1> QED  BY <1>2, <1>5, <1>10, <1>11, <1>12, MovesOK DEF KumaInv, KPageOK

\* Moving on to the next row leaves everything else of the import.
LEMMA NextRowIs ==
    ASSUME NEW Y, Y \in TakeOf(Y), NEW r, NEW e, NEW X, X = NextRow(Y, r, e)
    PROVE  /\ X \in TakeOf(X) /\ X.stage = Y.stage /\ X.dry = Y.dry /\ X.queue = Tail(Y.queue)
           /\ X.token = "unread" /\ X.imported = Y.imported /\ X.placed = Y.placed
           /\ X.entries = Put(Y.entries, r, e) /\ X.used = Y.used /\ X.carried = Y.carried
           /\ X.resolved = Y.resolved
<1>1. PICK E, Q : E = Put(Y.entries, r, e) /\ Q = Tail(Y.queue)
  OBVIOUS
<1>2. X = [Y EXCEPT !.entries = E, !.queue = Q, !.token = "unread"]
  BY <1>1 DEF NextRow
<1>3. /\ X \in TakeOf(X) /\ X.stage = Y.stage /\ X.dry = Y.dry /\ X.queue = Q
      /\ X.token = "unread" /\ X.imported = Y.imported /\ X.placed = Y.placed
      /\ X.entries = E /\ X.used = Y.used /\ X.carried = Y.carried
      /\ X.resolved = Y.resolved
  BY <1>2 DEF TakeOf
<1> QED  BY <1>1, <1>3

\* The savepoint of a row, whatever becomes of it, is a turn of the row.
LEMMA KumaStoreDoes ==
    ASSUME KumaInv, NEW t \in Take, NEW stores \in BOOLEAN, KumaStore(t, stores)
    PROVE  \E r, X, e, m : RowTurn(t, r, X, e, m)
<1>1. PICK self, r, k, parent, m, id, parented, written, noted, e, X :
         /\ self = takes[t] /\ r = Head(self.queue) /\ k = kuma.rows[r]
         /\ parent = IF k.parent \in DOMAIN self.resolved THEN self.resolved[k.parent] ELSE NoId
         /\ m = NewMonitor(t, r, parent)
         /\ id = RowId(t, r)
         /\ parented = (parent = NoId \/ (parent \in Visible(monitors, t) /\ monitors[parent].type = "group"))
         /\ written = (stores /\ parented /\ ~ \E x \in Visible(monitors, t) : SameKey(x, m))
         /\ noted = (k.becomes = "transformed" \/ k.parent # "none" \/ m.token = "fresh" \/ k.beat # "none")
         /\ e = IF written THEN Line(IF noted THEN "transformed" ELSE "imported", id, NoId)
                           ELSE Line("skipped", NoId, IF parented THEN NoId ELSE parent)
         /\ X = NextRow(Recorded(self, r, id, written, k), r, e)
  OBVIOUS
<1>2. /\ self.stage = "rows" /\ self.queue # <<>> /\ (k.token = "none" \/ self.token # "unread")
      /\ monitors' = IF written THEN Put(monitors, id, m) ELSE monitors
      /\ takes' = [takes EXCEPT ![t] = X] /\ UNCHANGED <<kuma, pages>>
  BY <1>1, Zenon DEF KumaStore, Becoming, RowId
<1>3. TakeOK(t) /\ self \in TakeOf(self)
  BY <1>1, Zenon DEF KumaInv, TakeOK
<1>4. self.token \in {"unread", "fresh", k.token}
  BY <1>1, <1>2, <1>3, Zenon DEF TakeOK, KProgress
<1>5. /\ m \in KRowOf(m) /\ m.owner = t /\ m.type = k.type /\ m.parent = parent
      /\ m.beat = (k.beat = "said")
      /\ m.token = IF k.token = "none" THEN "none" ELSE self.token
  BY <1>1, Zenon DEF NewMonitor, KRowOf
<1>6. self = takes[t] /\ r = Head(self.queue) /\ k = kuma.rows[r]
  BY <1>1, Zenon
<1>7. parent = ParentFor(t, r)
  BY <1>1, Zenon DEF ParentFor
<1>8. CASE written
  <2>1. PICK R, U, C : /\ R = Put(self.resolved, r, id) /\ U = self.used \cup ({k.host} \ {"none"})
                       /\ C = self.carried \cup (IF k.beat = "none" THEN {} ELSE {r})
    OBVIOUS
  <2>2. Recorded(self, r, id, written, k) = [self EXCEPT !.resolved = R, !.used = U, !.carried = C]
    BY <1>8, <2>1 DEF Recorded, Recorded_Early
  <2>3. /\ X \in TakeOf(X) /\ X.stage = "rows" /\ X.dry = self.dry /\ X.queue = Tail(self.queue)
        /\ X.token = "unread" /\ X.imported = self.imported /\ X.placed = self.placed
        /\ X.entries = Put(self.entries, r, e) /\ X.used = U /\ X.carried = C /\ X.resolved = R
    <3>1. PICK Y : Y = [self EXCEPT !.resolved = R, !.used = U, !.carried = C]
      OBVIOUS
    <3>2. /\ Y \in TakeOf(Y) /\ Y.stage = self.stage /\ Y.dry = self.dry /\ Y.queue = self.queue
          /\ Y.imported = self.imported /\ Y.placed = self.placed /\ Y.entries = self.entries
          /\ Y.used = U /\ Y.carried = C /\ Y.resolved = R
      BY <1>3, <3>1, Zenon DEF TakeOf
    <3>3. X = NextRow(Y, r, e)
      BY <1>1, <2>2, <3>1, Zenon
    <3>4. /\ X \in TakeOf(X) /\ X.stage = Y.stage /\ X.dry = Y.dry /\ X.queue = Tail(Y.queue)
          /\ X.token = "unread" /\ X.imported = Y.imported /\ X.placed = Y.placed
          /\ X.entries = Put(Y.entries, r, e) /\ X.used = Y.used /\ X.carried = Y.carried
          /\ X.resolved = Y.resolved
      BY <3>2, <3>3, NextRowIs
    <3> QED  BY <1>2, <3>2, <3>4
  <2>4. RowDone(t, r, X, e, m)
    BY <1>6, <1>2, <2>3 DEF RowDone
  <2>5. /\ e.monitor = id /\ e.lost = NoId
        /\ e.outcome = "imported" => m.token # "fresh"
    BY <1>1, <1>8, Zenon DEF Line
  <2>6. e.outcome = "imported" => m.token = k.token
    BY <1>2, <1>4, <1>5, <2>5
  <2>7. /\ U \subseteq self.used \cup {k.host}
        /\ C \subseteq self.carried \cup (IF k.beat = "none" THEN {} ELSE {r})
    BY <2>1
  <2>8. Makes(t, r, X, e, m)
    <3>1. monitors' = Put(monitors, RowId(t, r), m) /\ e.monitor = RowId(t, r)
      BY <1>1, <1>2, <1>8, <2>5, Zenon
    <3>2. /\ X.used \subseteq takes[t].used \cup {kuma.rows[r].host}
          /\ X.carried \subseteq takes[t].carried \cup (IF kuma.rows[r].beat = "none" THEN {} ELSE {r})
      BY <1>6, <2>3, <2>7
    <3>3. X.resolved = Put(takes[t].resolved, r, RowId(t, r))
      BY <1>1, <2>1, <2>3, Zenon
    <3>4. /\ m \in KRowOf(m) /\ m.owner = t /\ m.type = kuma.rows[r].type
          /\ m.beat = (kuma.rows[r].beat = "said")
      BY <1>1, <1>5, Zenon
    <3>5. e.outcome = "imported" => m.token = kuma.rows[r].token
      BY <1>1, <2>6, Zenon
    <3> QED  BY <3>1, <3>2, <3>3, <3>4, <3>5 DEF Makes
  <2> QED  BY <1>7, <1>5, <2>4, <2>5, <2>8 DEF RowTurn, LostTo
<1>9. CASE ~ written
  <2>1. Recorded(self, r, id, written, k) = self
    BY <1>9 DEF Recorded
  <2>2. /\ X \in TakeOf(X) /\ X.stage = "rows" /\ X.dry = self.dry /\ X.queue = Tail(self.queue)
        /\ X.token = "unread" /\ X.imported = self.imported /\ X.placed = self.placed
        /\ X.entries = Put(self.entries, r, e) /\ X.used = self.used /\ X.carried = self.carried
        /\ X.resolved = self.resolved
    <3>1. X = NextRow(self, r, e)
      BY <1>1, <2>1, Zenon
    <3>2. /\ X \in TakeOf(X) /\ X.stage = self.stage /\ X.dry = self.dry /\ X.queue = Tail(self.queue)
          /\ X.token = "unread" /\ X.imported = self.imported /\ X.placed = self.placed
          /\ X.entries = Put(self.entries, r, e) /\ X.used = self.used /\ X.carried = self.carried
          /\ X.resolved = self.resolved
      BY <1>3, <3>1, NextRowIs
    <3> QED  BY <1>2, <3>2
  <2>3. RowDone(t, r, X, e, m)
    BY <1>6, <1>2, <2>2 DEF RowDone
  <2>4. /\ e.monitor = NoId
        /\ e.lost = IF parented THEN NoId ELSE parent
    BY <1>1, <1>9, Zenon DEF Line
  <2>5. Passes(t, r, X, e)
    BY <1>6, <1>2, <1>9, <2>2, <2>4 DEF Passes
  <2>6. LostTo(t, r, e.lost)
    <3>1. CASE parented
      BY <2>4, <3>1 DEF LostTo
    <3>2. CASE ~ parented
      <4>1. /\ parent # NoId
            /\ ~ (parent \in Visible(monitors, t) /\ monitors[parent].type = "group")
        BY <1>1, <3>2, Zenon
      <4> QED  BY <1>7, <2>4, <3>2, <4>1 DEF LostTo
    <3> QED  BY <3>1, <3>2
  <2> QED  BY <2>3, <2>5, <2>6 DEF RowTurn
<1> QED  BY <1>8, <1>9

\* A row is written, or not.
LEMMA KumaStoreInv ==
    ASSUME KumaInv, NEW t \in Take, NEW stores \in BOOLEAN, KumaStore(t, stores)
    PROVE  KumaInv' /\ \E r, X, e, m : RowTurn(t, r, X, e, m)
<1>1. PICK r, X, e, m : RowTurn(t, r, X, e, m)
  BY KumaStoreDoes
<1> QED  BY <1>1, RowDoneInv DEF RowTurn

\* A status page is written, or not.
LEMMA KumaPageInv ==
    ASSUME KumaInv, NEW t \in Take, NEW stores \in BOOLEAN, KumaPage(t, stores)
    PROVE  KumaInv' /\ \E X : IdleTurn(t, X)
<1> DEFINE Self == takes[t]
           Page == kuma.pages[Self.page]
           Slug == FreeSlug(t)
           Rows == Members(Self, Page)
           Shown == {Self.resolved[r] : r \in Rows}
           Written == Page.slug /\ Slug # 0 /\ stores /\ Publishable(t, Shown)
           Placed == IF Written THEN Self.placed \cup Rows ELSE Self.placed
           After == [Self EXCEPT !.page = Self.page + 1, !.placed = Placed]
<1>a. /\ Self.stage = "rows" /\ Self.queue = <<>>
      /\ Page.slug /\ Slug # 0 => Slug \notin DOMAIN pages
      /\ pages' = IF Written THEN Put(pages, Slug, [owner |-> t, members |-> Shown]) ELSE pages
      /\ takes' = [takes EXCEPT ![t] = After] /\ kuma' = kuma /\ monitors' = monitors
  BY Zenon DEF KumaPage
<1>b. /\ Written => Page.slug /\ Slug # 0
      /\ Rows \subseteq DOMAIN Self.resolved
  BY Zenon DEF Members
<1>1. PICK self, slug, rows, members, n, P, X :
         /\ self = takes[t] /\ slug = Slug /\ rows = Rows /\ members = Shown
         /\ members = {self.resolved[r] : r \in rows} /\ rows \subseteq DOMAIN self.resolved
         /\ n = self.page + 1 /\ P = Placed /\ X = [self EXCEPT !.page = n, !.placed = P] /\ X = After
  BY <1>b, Zenon
<1>c. PICK written \in BOOLEAN : written = Written
  BY Zenon
<1>2. /\ self.stage = "rows" /\ self.queue = <<>>
      /\ P = IF written THEN self.placed \cup rows ELSE self.placed
      /\ written => slug \notin DOMAIN pages
      /\ pages' = IF written THEN Put(pages, slug, [owner |-> t, members |-> members]) ELSE pages
      /\ takes' = [takes EXCEPT ![t] = X] /\ UNCHANGED <<kuma, monitors>>
  BY <1>a, <1>b, <1>c, <1>1, Zenon
<1> HIDE DEF Self, Page, Slug, Rows, Shown, Written, Placed, After
<1>d. self = takes[t]
  BY <1>1
<1>3. TakeOK(t) /\ self \in TakeOf(self)
  BY <1>1 DEF KumaInv, TakeOK
<1>4. /\ X \in TakeOf(X) /\ X.stage = "rows" /\ X.dry = self.dry /\ X.queue = self.queue
      /\ X.token = self.token /\ X.imported = self.imported /\ X.placed = P
      /\ X.entries = self.entries /\ X.used = self.used /\ X.carried = self.carried
      /\ X.resolved = self.resolved
  <2>1. n \in Nat
    BY <1>1, <1>3 DEF TakeOf
  <2> QED  BY <1>1, <1>2, <1>3, <2>1 DEF TakeOf
<1>5. rows \subseteq DOMAIN self.resolved
  BY <1>1
<1>6. /\ \A s \in DOMAIN pages : s \in DOMAIN pages' /\ pages'[s] = pages[s]
      /\ \A s \in DOMAIN pages' : s \in DOMAIN pages \/ (s = slug /\ written)
      /\ written => slug \in DOMAIN pages' /\ pages'[slug] = [owner |-> t, members |-> members]
  BY <1>d, <1>2 DEF Put
<1>7. Moves(t, X)
  BY <1>d, <1>2, <1>6 DEF Moves
<1>8. /\ takes'[t] = X /\ KRows' = KRows /\ kuma' = kuma
      /\ \A y : Elsewhere(t, y) => Elsewhere(t, y)'
  BY <1>7, Bystanders DEF KRows
<1>9. KRemembers(t)'
  <2>1. KRemembers(t)
    BY <1>3 DEF TakeOK
  <2> QED  BY <1>d, <1>2, <1>4, <1>8, <2>1, SameMemory
<1>10. OnPages(t)'
  <2>1. P \subseteq DOMAIN self.resolved
    BY <1>d, <1>2, <1>3, <1>5 DEF TakeOK, OnPages
  <2>2. SUFFICES ASSUME NEW q \in P, self.resolved[q] \in DOMAIN monitors
                 PROVE  \E s \in DOMAIN pages' : /\ pages'[s].owner \in {NoOne, t}
                                                 /\ self.resolved[q] \in pages'[s].members
    BY <1>2, <1>4, <1>8, <2>1 DEF OnPages
  <2>3. CASE q \in self.placed
    <3>1. PICK s \in DOMAIN pages : pages[s].owner \in {NoOne, t} /\ self.resolved[q] \in pages[s].members
      BY <1>d, <1>2, <1>3, <2>2, <2>3 DEF TakeOK, OnPages
    <3> QED  BY <1>6, <3>1
  <2>4. CASE q \notin self.placed
    <3>1. written /\ q \in rows
      BY <1>2, <2>2, <2>4
    <3>2. self.resolved[q] \in members
      BY <1>1, <3>1
    <3> QED  BY <1>6, <3>1, <3>2
  <2> QED  BY <2>3, <2>4
<1>11. KProgress(t)'
  <2>1. Distinct(kuma, takes[t].queue)'
    <3>1. Distinct(kuma, self.queue)
      BY <1>d, <1>2, <1>3 DEF TakeOK, KProgress
    <3> QED  BY <1>4, <1>8, <3>1 DEF Distinct, RowsOf
  <2>2. /\ takes'[t].stage = "rows" /\ ToSet(takes'[t].queue) = KRows' \ DOMAIN takes'[t].entries
        /\ takes'[t].queue = <<>>
    BY <1>d, <1>2, <1>3, <1>4, <1>8 DEF TakeOK, KProgress
  <2> QED  BY <2>1, <2>2 DEF KProgress
<1>12. TakeOK(t)'
  BY <1>4, <1>8, <1>9, <1>10, <1>11 DEF TakeOK, TakeOf
<1>13. ASSUME NEW x \in DOMAIN monitors', x[1] = t PROVE KRowOK(x)'
  <2>1. x \in DOMAIN monitors /\ monitors'[x] = monitors[x]
    BY <1>2, <1>13
  <2>2. MadeBy(t, x) /\ monitors[x] \in KRowOf(monitors[x])
    BY <1>13, <2>1, KMarkers DEF KumaInv, KRowOK
  <2>3. MadeBy(t, x)'
    BY <1>d, <1>2, <1>4, <1>8, <2>1, <2>2 DEF MadeBy
  <2> QED  BY <1>13, <2>1, <2>2, <2>3 DEF KRowOK, KRowOf
<1>14. ASSUME NEW s \in DOMAIN pages' PROVE KPageOK(s)'
  <2>1. CASE s \in DOMAIN pages
    BY <1>6, <2>1 DEF KumaInv, KPageOK
  <2>2. CASE s = slug /\ written
    BY <1>6, <2>2 DEF KPageOK
  <2> QED  BY <1>6, <2>1, <2>2
<1>15. IdleTurn(t, X)
  BY <1>d, <1>2, <1>4, <1>7 DEF IdleTurn
<1> QED  BY <1>7, <1>12, <1>13, <1>14, <1>15, MovesOK

\* The last step of an import, or its failure: the rows it made are there for good
\* or gone, and its lines are as they were or gone.
LastTurn(t, X) ==
    /\ Moves(t, X) /\ X.stage # "rows"
    /\ \/ DOMAIN X.entries = {}
       \/ X.entries = takes[t].entries /\ X.resolved = takes[t].resolved
    /\ \A x \in DOMAIN monitors' :
          x[1] = t => /\ X.entries = takes[t].entries /\ X.resolved = takes[t].resolved
                      /\ DOMAIN monitors' = DOMAIN monitors /\ monitors'[x].parent = monitors[x].parent

\* A row of an import under way is not committed, and only its own.
LEMMA UnderWay ==
    ASSUME KumaInv, NEW t \in Take, takes[t].stage # "done", NEW x \in DOMAIN monitors
    PROVE  /\ x[1] = t => monitors[x].owner = t
           /\ x[1] # t => monitors[x].owner # t
  BY KMarkers DEF KumaInv, KRowOK, MadeBy

\* What an import that goes back leaves behind.
LEMMA KRolledBack ==
    ASSUME KumaInv, NEW t \in Take, takes[t].stage # "done", NEW X, TakeOK(t)',
           takes' = [takes EXCEPT ![t] = X], kuma' = kuma,
           monitors' = Without(monitors, Own(monitors, t)), pages' = Without(pages, Own(pages, t))
    PROVE  KumaInv' /\ Moves(t, X) /\ \A x \in DOMAIN monitors' : x[1] # t
<1>1. /\ \A x \in DOMAIN monitors : x[1] # t => x \in DOMAIN monitors' /\ monitors'[x] = monitors[x]
      /\ \A x \in DOMAIN monitors' : x[1] # t /\ x \in DOMAIN monitors
  BY UnderWay DEF Without, Own
<1>2. /\ \A s \in DOMAIN pages : pages[s].owner # t => s \in DOMAIN pages' /\ pages'[s] = pages[s]
      /\ \A s \in DOMAIN pages' : s \in DOMAIN pages /\ pages'[s] = pages[s]
  BY DEF Without, Own
<1>3. Moves(t, X)
  BY <1>1, <1>2 DEF Moves
<1>4. \A s \in DOMAIN pages' : KPageOK(s)'
  BY <1>2 DEF KumaInv, KPageOK
<1> QED  BY <1>1, <1>3, <1>4, MovesOK

\* The end of an import, or of a preview.
LEMMA KumaCloseInv ==
    ASSUME KumaInv, NEW t \in Take, KumaClose(t)
    PROVE  KumaInv' /\ \E X : LastTurn(t, X)
<1>1. PICK self, X : self = takes[t] /\ X = [self EXCEPT !.stage = "done"]
  OBVIOUS
<1>2. /\ self.stage = "rows" /\ self.queue = <<>>
      /\ takes' = [takes EXCEPT ![t] = X] /\ UNCHANGED kuma
  BY <1>1 DEF KumaClose
<1>3. TakeOK(t) /\ self \in TakeOf(self)
  BY <1>1 DEF KumaInv, TakeOK
<1>4. /\ X \in TakeOf(X) /\ X.stage = "done" /\ X.dry = self.dry /\ X.queue = self.queue
      /\ X.token = self.token /\ X.imported = self.imported /\ X.placed = self.placed
      /\ X.entries = self.entries /\ X.used = self.used /\ X.carried = self.carried
      /\ X.resolved = self.resolved
  BY <1>1, <1>2, <1>3 DEF TakeOf
<1>5. /\ takes'[t] = X /\ KRows' = KRows /\ kuma' = kuma
      /\ \A q \in Take \ {t} : takes'[q] = takes[q]
  BY <1>2 DEF KumaInv, KRows
<1>6. \A y : Elsewhere(t, y) => Elsewhere(t, y)'
  BY <1>5 DEF Elsewhere
<1>7. KRemembers(t)'
  <2>1. KRemembers(t)
    BY <1>3 DEF TakeOK
  <2>2. /\ DOMAIN X.resolved \subseteq DOMAIN X.entries /\ DOMAIN X.entries \subseteq KRows
        /\ \A r \in DOMAIN X.imported : Elsewhere(t, X.imported[r])'
        /\ \A r \in DOMAIN X.resolved : Elsewhere(t, X.resolved[r])' \/ X.resolved[r] = RowId(t, r)
    BY <1>1, <1>4, <1>6, <2>1 DEF KRemembers
  <2>3. /\ \A r \in DOMAIN X.entries : X.entries[r].monitor \in {NoId, RowId(t, r)}
        /\ \A host \in X.used :
              \E r \in DOMAIN X.entries : X.entries[r].monitor # NoId /\ host = kuma.rows[r].host
        /\ \A r \in X.carried :
              r \in DOMAIN X.entries /\ X.entries[r].monitor # NoId /\ kuma.rows[r].beat # "none"
    BY <1>1, <1>4, <2>1 DEF KRemembers
  <2> QED  BY <1>4, <1>5, <2>2, <2>3 DEF KRemembers
<1>8. KProgress(t)'
  <2>1. ToSet(<<>>) = {}
    BY DEF ToSet
  <2>2. DOMAIN self.entries = KRows
    BY <1>1, <1>2, <1>3, <2>1 DEF TakeOK, KProgress, KRemembers
  <2> QED  BY <1>4, <1>5, <2>2 DEF KProgress
<1>9. CASE self.dry
  <2>1. OnPages(t)'
    BY <1>1, <1>3, <1>4, <1>5, <1>9 DEF TakeOK, OnPages, Reported
  <2>2. TakeOK(t)'
    BY <1>4, <1>5, <1>7, <1>8, <2>1 DEF TakeOK, TakeOf
  <2>3. monitors' = Without(monitors, Own(monitors, t)) /\ pages' = Without(pages, Own(pages, t))
    BY <1>1, <1>9 DEF KumaClose
  <2>4. KumaInv' /\ Moves(t, X) /\ \A x \in DOMAIN monitors' : x[1] # t
    BY <1>1, <1>2, <1>5, <2>2, <2>3, KRolledBack
  <2> QED  BY <1>1, <1>4, <2>4 DEF LastTurn
<1>10. CASE ~ self.dry
  <2>1. monitors' = Kept(monitors, t) /\ pages' = Kept(pages, t)
    BY <1>1, <1>10 DEF KumaClose
  <2>2. /\ DOMAIN monitors' = DOMAIN monitors
        /\ \A x \in DOMAIN monitors :
              monitors'[x] = IF x[1] = t THEN [monitors[x] EXCEPT !.owner = NoOne] ELSE monitors[x]
    BY <1>1, <1>2, <2>1, UnderWay DEF Kept
  <2>3. /\ DOMAIN pages' = DOMAIN pages
        /\ \A s \in DOMAIN pages :
              pages'[s] = IF pages[s].owner = t THEN [pages[s] EXCEPT !.owner = NoOne] ELSE pages[s]
    BY <2>1 DEF Kept
  <2>4. \A s \in DOMAIN pages : /\ KPageOK(s)' /\ pages'[s].members = pages[s].members
                                /\ pages'[s].owner \in {pages[s].owner, NoOne}
    BY <2>3 DEF KumaInv, KPageOK
  <2>5. Moves(t, X)
    BY <1>1, <1>2, <2>2, <2>3 DEF Moves
  <2>6. OnPages(t)'
    <3>1. self.placed \subseteq DOMAIN self.resolved
      BY <1>1, <1>3 DEF TakeOK, OnPages
    <3>2. SUFFICES ASSUME NEW q \in self.placed, self.resolved[q] \in DOMAIN monitors
                   PROVE  \E s \in DOMAIN pages' : /\ pages'[s].owner \in {NoOne, t}
                                                   /\ self.resolved[q] \in pages'[s].members
      BY <1>4, <1>5, <2>2, <3>1 DEF OnPages
    <3>3. PICK s \in DOMAIN pages : pages[s].owner \in {NoOne, t} /\ self.resolved[q] \in pages[s].members
      BY <1>1, <1>2, <1>3, <3>2 DEF TakeOK, OnPages
    <3> QED  BY <2>3, <2>4, <3>3
  <2>7. TakeOK(t)'
    BY <1>4, <1>5, <1>7, <1>8, <2>6 DEF TakeOK, TakeOf
  <2>8. ASSUME NEW x \in DOMAIN monitors', x[1] = t PROVE KRowOK(x)'
    <3>1. x \in DOMAIN monitors /\ MadeBy(t, x) /\ monitors[x] \in KRowOf(monitors[x])
      BY <2>2, <2>8, KMarkers DEF KumaInv, KRowOK
    <3>2. PICK m : m = monitors[x] /\ monitors'[x] = [m EXCEPT !.owner = NoOne]
      BY <2>2, <2>8, <3>1
    <3>3. /\ monitors'[x] \in KRowOf(monitors'[x]) /\ monitors'[x].owner = NoOne
          /\ monitors'[x].type = m.type /\ monitors'[x].token = m.token
      BY <3>1, <3>2 DEF KRowOf
    <3>4. NoOne # t
      BY KMarkers
    <3>5. MadeBy(t, x)'
      BY <1>1, <1>4, <1>5, <1>10, <3>1, <3>2, <3>3, <3>4 DEF MadeBy
    <3> QED  BY <2>8, <3>3, <3>5 DEF KRowOK, KRowOf
  <2>9. \A s \in DOMAIN pages' : KPageOK(s)'
    BY <2>3, <2>4
  <2>10. ASSUME NEW x \in DOMAIN monitors', x[1] = t PROVE monitors'[x].parent = monitors[x].parent
    <3>1. PICK m : m = monitors[x] /\ m \in KRowOf(m) /\ monitors'[x] = [m EXCEPT !.owner = NoOne]
      BY <2>2, <2>10 DEF KumaInv, KRowOK
    <3> QED  BY <3>1 DEF KRowOf
  <2>11. LastTurn(t, X)
    BY <1>1, <1>4, <2>2, <2>5, <2>10 DEF LastTurn
  <2> QED  BY <2>5, <2>7, <2>8, <2>9, <2>11, MovesOK
<1>11. self.dry \in BOOLEAN
  BY <1>3 DEF TakeOf
<1> QED  BY <1>9, <1>10

\* An import that fails as a whole.
LEMMA KumaFailsInv ==
    ASSUME KumaInv, NEW t \in Take, KumaFails(t)
    PROVE  KumaInv' /\ \E X : LastTurn(t, X)
<1>1. PICK X : X = [NewTake EXCEPT !.stage = "failed"]
  OBVIOUS
<1>2. /\ takes[t].stage = "rows" /\ takes' = [takes EXCEPT ![t] = X] /\ kuma' = kuma
      /\ monitors' = Without(monitors, Own(monitors, t)) /\ pages' = Without(pages, Own(pages, t))
  BY <1>1 DEF KumaFails
<1>3. /\ X \in TakeOf(X) /\ X.stage = "failed" /\ X.entries = Empty /\ X.resolved = Empty
      /\ X.imported = Empty /\ X.used = {} /\ X.carried = {} /\ X.placed = {}
  BY <1>1, NewTakeTyped DEF TakeOf
<1>4. takes'[t] = X /\ KRows' = KRows
  BY <1>2 DEF KumaInv, KRows
<1>5. KRemembers(t)' /\ OnPages(t)' /\ KProgress(t)'
  BY <1>3, <1>4, NewTakeTyped DEF KRemembers, OnPages, KProgress
<1>6. TakeOK(t)'
  BY <1>3, <1>4, <1>5 DEF TakeOK, TakeOf
<1>7. KumaInv' /\ Moves(t, X) /\ \A x \in DOMAIN monitors' : x[1] # t
  BY <1>2, <1>6, KRolledBack
<1>8. LastTurn(t, X)
  BY <1>3, <1>7, NewTakeTyped DEF LastTurn
<1> QED  BY <1>7, <1>8

\* What a deletion does to the rows and the pages that are left.
LEMMA Deletes ==
    ASSUME KumaInv, NEW x \in DOMAIN monitors, DeleteMonitor(x)
    PROVE  /\ monitors[x].owner = NoOne /\ DOMAIN monitors' = DOMAIN monitors \ {x}
           /\ \A y \in DOMAIN monitors' :
                 /\ monitors'[y] \in KRowOf(monitors'[y])
                 /\ monitors'[y].parent = IF monitors[y].parent = x THEN NoId ELSE monitors[y].parent
                 /\ monitors'[y].owner = monitors[y].owner /\ monitors'[y].src = monitors[y].src
                 /\ monitors'[y].type = monitors[y].type /\ monitors'[y].token = monitors[y].token
                 /\ monitors'[y].beat = monitors[y].beat
           /\ DOMAIN pages' = DOMAIN pages
           /\ \A s \in DOMAIN pages : /\ KPageOK(s)' /\ pages'[s].owner = pages[s].owner
                                      /\ pages'[s].members = pages[s].members \ {x}
<1>1. /\ monitors[x].owner = NoOne
      /\ monitors' = [y \in DOMAIN monitors \ {x} |->
              IF monitors[y].parent = x THEN [monitors[y] EXCEPT !.parent = NoId] ELSE monitors[y]]
      /\ pages' = [s \in DOMAIN pages |-> [pages[s] EXCEPT !.members = pages[s].members \ {x}]]
  BY DEF DeleteMonitor
<1>2. ASSUME NEW y \in DOMAIN monitors \ {x}
      PROVE  /\ monitors'[y] \in KRowOf(monitors'[y])
             /\ monitors'[y].parent = IF monitors[y].parent = x THEN NoId ELSE monitors[y].parent
             /\ monitors'[y].owner = monitors[y].owner /\ monitors'[y].src = monitors[y].src
             /\ monitors'[y].type = monitors[y].type /\ monitors'[y].token = monitors[y].token
             /\ monitors'[y].beat = monitors[y].beat
  <2>1. PICK m : m = monitors[y] /\ m \in KRowOf(m)
    BY DEF KumaInv, KRowOK
  <2>2. monitors'[y] = IF m.parent = x THEN [m EXCEPT !.parent = NoId] ELSE m
    BY <1>1, <2>1
  <2>3. CASE m.parent = x
    BY <2>1, <2>2, <2>3 DEF KRowOf
  <2>4. CASE m.parent # x
    BY <2>1, <2>2, <2>4
  <2> QED  BY <2>3, <2>4
<1>3. ASSUME NEW s \in DOMAIN pages
      PROVE  /\ KPageOK(s)' /\ pages'[s].owner = pages[s].owner
             /\ pages'[s].members = pages[s].members \ {x}
  <2>1. PICK p, M : /\ p = pages[s] /\ p \in [owner : Take \cup {NoOne}, members : {p.members}]
                    /\ M = p.members \ {x}
    BY DEF KumaInv, KPageOK
  <2>2. pages'[s] = [p EXCEPT !.members = M]
    BY <1>1, <2>1
  <2>3. /\ pages'[s] \in [owner : Take \cup {NoOne}, members : {M}]
        /\ pages'[s].members = M /\ pages'[s].owner = p.owner
    BY <2>1, <2>2
  <2> QED  BY <2>1, <2>3 DEF KPageOK
<1> QED  BY <1>1, <1>2, <1>3

\* An operator deletes a monitor.
LEMMA KumaDeleteInv ==
    ASSUME KumaInv, NEW x \in DOMAIN monitors, DeleteMonitor(x), UNCHANGED kvars
    PROVE  KumaInv'
<1>1. kuma' = kuma /\ takes' = takes /\ KRows' = KRows
  BY DEF kvars, KRows
<1> HIDE DEF DeleteMonitor
<1>2. /\ monitors[x].owner = NoOne /\ DOMAIN monitors' = DOMAIN monitors \ {x}
      /\ \A y \in DOMAIN monitors' :
            /\ monitors'[y] \in KRowOf(monitors'[y])
            /\ monitors'[y].owner = monitors[y].owner /\ monitors'[y].src = monitors[y].src
            /\ monitors'[y].type = monitors[y].type /\ monitors'[y].token = monitors[y].token
            /\ monitors'[y].beat = monitors[y].beat
      /\ DOMAIN pages' = DOMAIN pages
      /\ \A s \in DOMAIN pages : /\ KPageOK(s)' /\ pages'[s].owner = pages[s].owner
                                 /\ pages'[s].members = pages[s].members \ {x}
  BY Deletes
<1>3. ASSUME NEW y \in DOMAIN monitors' PROVE KRowOK(y)'
  <2>1. KRowOK(y) /\ y \in DOMAIN monitors
    BY <1>2 DEF KumaInv
  <2>2. MadeBy(y[1], y) => MadeBy(y[1], y)'
    BY <1>1, <1>2 DEF MadeBy
  <2> QED  BY <1>2, <2>1, <2>2 DEF KRowOK, KRowOf
<1>4. ASSUME NEW t \in Take PROVE TakeOK(t)'
  <2>1. TakeOK(t)
    BY DEF KumaInv
  <2>2. Own(monitors, t) \subseteq Own(monitors', t)
    BY <1>2, KMarkers DEF Own
  <2>3. \A y : Elsewhere(t, y) => Elsewhere(t, y)'
    BY <1>1 DEF Elsewhere
  <2>4. KRemembers(t)'
    BY <1>1, <2>1, <2>2, <2>3 DEF TakeOK, KRemembers
  <2>5. OnPages(t)'
    <3>1. takes[t].placed \subseteq DOMAIN takes[t].resolved
      BY <2>1 DEF TakeOK, OnPages
    <3>2. SUFFICES ASSUME takes[t].stage = "rows" \/ Reported(t), NEW q \in takes[t].placed,
                          takes[t].resolved[q] \in DOMAIN monitors'
                   PROVE  \E s \in DOMAIN pages' : /\ pages'[s].owner \in {NoOne, t}
                                                   /\ takes[t].resolved[q] \in pages'[s].members
      BY <1>1, <3>1 DEF OnPages, Reported
    <3>3. PICK s \in DOMAIN pages : /\ pages[s].owner \in {NoOne, t}
                                    /\ takes[t].resolved[q] \in pages[s].members
      BY <1>2, <2>1, <3>2 DEF TakeOK, OnPages
    <3> QED  BY <1>2, <3>2, <3>3
  <2>6. KProgress(t)'
    BY <1>1, <2>1 DEF TakeOK, KProgress, Distinct, RowsOf
  <2> QED  BY <1>1, <2>1, <2>4, <2>5, <2>6 DEF TakeOK, TakeOf
<1> QED  BY <1>1, <1>2, <1>3, <1>4 DEF KumaInv

-----------------------------------------------------------------------------
\* The invariant holds at first.
LEMMA KumaInitInv ==
    ASSUME KumaInit
    PROVE  KumaInv
<1>1. kuma \in Kumas /\ takes = [t \in Take |-> NewTake] /\ pages = Empty
  BY DEF KumaInit
<1>2. ASSUME NEW t \in Take PROVE TakeOK(t)
  <2>1. takes[t] = NewTake
    BY <1>1
  <2>2. KRemembers(t) /\ OnPages(t)
    BY <2>1, NewTakeTyped DEF KRemembers, OnPages, Reported
  <2>3. KProgress(t)
    BY <2>1, NewTakeTyped DEF KProgress
  <2> QED  BY <2>1, <2>2, <2>3, NewTakeTyped DEF TakeOK
<1>3. ASSUME NEW x \in DOMAIN monitors PROVE KRowOK(x)
  <2>1. CASE monitors = Empty
    BY <1>3, <2>1 DEF Empty
  <2>2. CASE monitors # Empty
    <3>1. PICK token : monitors = [y \in {HandId} |-> PushByHand(token)]
      BY <2>2 DEF KumaInit
    <3>2. x = HandId /\ monitors[x] = PushByHand(token)
      BY <1>3, <3>1
    <3>3. /\ monitors[x] \in KRowOf(monitors[x]) /\ monitors[x].owner = NoOne /\ monitors[x].src = "none"
      BY <3>2 DEF PushByHand, KRowOf
    <3> QED  BY <3>2, <3>3 DEF KRowOK
  <2> QED  BY <2>1, <2>2
<1>4. DOMAIN pages = {}
  BY <1>1, NewTakeTyped
<1> QED  BY <1>1, <1>2, <1>3, <1>4 DEF KumaInv

\* Every step keeps the invariant.
LEMMA KumaNextInv ==
    ASSUME KumaInv, [KumaNext]_<<kvars, mvars>>
    PROVE  KumaInv'
<1>1. ASSUME NEW t \in Take, TakeStep(t) PROVE KumaInv'
  <2>1. ASSUME NEW dry \in BOOLEAN, NEW allowDrift \in BOOLEAN, KumaBegin(t, dry, allowDrift)
        PROVE  KumaInv'
    BY <2>1, KumaBeginInv
  <2>2. CASE KumaAlready(t)
    BY <2>2, KumaAlreadyInv
  <2>3. CASE KumaRefused(t)
    BY <2>3, KumaRefusedInv
  <2>4. CASE PushTokenTaken(t)
    BY <2>4, PushTokenInv
  <2>5. ASSUME NEW stores \in BOOLEAN, KumaStore(t, stores) PROVE KumaInv'
    BY <2>5, KumaStoreInv
  <2>6. ASSUME NEW stores \in BOOLEAN, KumaPage(t, stores) PROVE KumaInv'
    BY <2>6, KumaPageInv
  <2>7. CASE KumaClose(t)
    BY <2>7, KumaCloseInv
  <2>8. CASE KumaFails(t)
    BY <2>8, KumaFailsInv
  <2> QED  BY <1>1, <2>1, <2>2, <2>3, <2>4, <2>5, <2>6, <2>7, <2>8 DEF TakeStep
<1>2. ASSUME NEW x \in DOMAIN monitors, DeleteMonitor(x), UNCHANGED kvars PROVE KumaInv'
  BY <1>2, KumaDeleteInv
<1>3. CASE UNCHANGED <<kvars, mvars>>
  <2>1. UNCHANGED <<kuma, takes, monitors, pages>>
    BY <1>3 DEF kvars, mvars
  <2>2. ASSUME NEW t \in Take PROVE TakeOK(t)'
    BY <2>1 DEF KumaInv, TakeOK, KRemembers, OnPages, KProgress, TakeOf, KRows, Elsewhere, Reported,
                Distinct, RowsOf
  <2>3. ASSUME NEW x \in DOMAIN monitors' PROVE KRowOK(x)'
    BY <2>1 DEF KumaInv, KRowOK, MadeBy, KRowOf
  <2> QED  BY <2>1, <2>2, <2>3 DEF KumaInv, KPageOK
<1> QED  BY <1>1, <1>2, <1>3 DEF KumaNext

\* The inductive invariant of the imports of Kuma's database: what an import
\* remembers of the rows it made, the lines it has written and the rows that are
\* left agree with the tables after every step of any of them.
THEOREM KumaInvariant == KumaSpec => []KumaInv
<1>1. KumaInit => KumaInv
  BY KumaInitInv
<1>2. KumaInv /\ [KumaNext]_<<kvars, mvars>> => KumaInv'
  BY KumaNextInv
<1> QED  BY <1>1, <1>2, PTL DEF KumaSpec

\* The lines are true of the tables.
LEMMA LinesFollow ==
    ASSUME KumaInv
    PROVE  LinesTrue
<1>1. ASSUME NEW x \in Committed(monitors), x[1] \in Take
      PROVE  Reported(x[1]) /\ takes[x[1]].entries[x[3]].monitor = x
  <2>1. x \in DOMAIN monitors /\ monitors[x].owner = NoOne /\ x # HandId
    BY <1>1, KMarkers DEF Committed
  <2>2. MadeBy(x[1], x)
    BY <2>1 DEF KumaInv, KRowOK
  <2> QED  BY <2>1, <2>2 DEF MadeBy, Reported
<1>2. ASSUME NEW t \in Take
      PROVE  takes[t].stage \in {"done", "refused"} => DOMAIN takes[t].entries = DOMAIN kuma.rows
  BY DEF KumaInv, TakeOK, KProgress, KRows
<1>3. ASSUME NEW t \in Take, NEW host, HostLine(takes[t], host) = "transformed"
      PROVE  \E r \in DOMAIN takes[t].entries :
                 takes[t].entries[r].monitor # NoId /\ kuma.rows[r].host = host
  <2>1. host \in takes[t].used
    BY <1>3 DEF HostLine
  <2> QED  BY <2>1 DEF KumaInv, TakeOK, KRemembers
<1>4. ASSUME NEW t \in Take, Reported(t), NEW r \in DOMAIN takes[t].resolved,
             PageLine(takes[t], r) # "unsupported", takes[t].resolved[r] \in DOMAIN monitors
      PROVE  \E s \in DOMAIN pages : takes[t].resolved[r] \in pages[s].members
  <2>1. r \in takes[t].placed
    BY <1>4 DEF PageLine
  <2> QED  BY <1>4, <2>1 DEF KumaInv, TakeOK, OnPages
<1>5. ASSUME NEW t \in Take, NEW r \in DOMAIN takes[t].entries, NEW x, x = takes[t].entries[r].monitor,
             takes[t].entries[r].outcome = "imported", x \in DOMAIN monitors
      PROVE  monitors[x].token = kuma.rows[r].token
  <2>1. x \in {NoId, RowId(t, r)}
    BY <1>5 DEF KumaInv, TakeOK, KRemembers
  <2>2. x # HandId => MadeBy(x[1], x)
    BY <1>5 DEF KumaInv, KRowOK
  <2>3. NoId # HandId
    BY DEF NoId, HandId
  <2>4. x = RowId(t, r) /\ x # HandId /\ x[1] = t /\ x[3] = r
    BY <2>1, <2>2, <2>3, KMarkers DEF MadeBy
  <2> QED  BY <1>5, <2>2, <2>4 DEF MadeBy
<1>6. ASSUME NEW t \in Take, NEW r \in DOMAIN kuma.rows, HistoryLine(takes[t], r) = "transformed"
      PROVE  /\ r \in DOMAIN takes[t].entries /\ takes[t].entries[r].monitor # NoId
             /\ takes[t].entries[r].monitor \in DOMAIN monitors =>
                   monitors[takes[t].entries[r].monitor].beat \/ kuma.rows[r].beat = "silent"
  <2>1. r \in takes[t].carried
    BY <1>6 DEF HistoryLine
  <2>2. /\ r \in DOMAIN takes[t].entries /\ takes[t].entries[r].monitor # NoId
        /\ kuma.rows[r].beat # "none"
    BY <2>1 DEF KumaInv, TakeOK, KRemembers
  <2>3. takes[t].entries[r].monitor = RowId(t, r)
    BY <2>2 DEF KumaInv, TakeOK, KRemembers
  <2>4. kuma.rows[r].beat \in {"said", "silent"}
    BY <1>6, <2>2, KumaConstants DEF KumaInv, Beat
  <2>5. ASSUME RowId(t, r) \in DOMAIN monitors
        PROVE  monitors[RowId(t, r)].beat = (kuma.rows[r].beat = "said")
    <3>1. MadeBy(RowId(t, r)[1], RowId(t, r))
      BY <2>5, KMarkers DEF KumaInv, KRowOK
    <3> QED  BY <3>1, KMarkers DEF MadeBy
  <2> QED  BY <2>2, <2>3, <2>4, <2>5
<1> QED  BY <1>1, <1>2, <1>3, <1>4, <1>5, <1>6 DEF LinesTrue

\* Of any database, of any number of imports side by side: what is there is
\* reported, and what the report of importKumaDatabase says is there, kept or
\* carried was written and is there unless somebody deleted it; of a history it
\* calls carried the last beat is with the monitor, unless that beat was silent.
THEOREM LinesSafe == KumaSpec => []LinesTrue
<1>1. KumaInv => LinesTrue
  BY LinesFollow
<1> QED  BY <1>1, KumaInvariant, PTL
-----------------------------------------------------------------------------
\* A step of one import moves no row of another to another group.
LEMMA TreeMoves ==
    ASSUME KumaInv, TreeInv, NEW t, NEW X, Moves(t, X), GroupsFirst(t)',
           \A x \in DOMAIN monitors' : x[1] = t => InGroup(x)'
    PROVE  TreeInv'
<1>1. /\ takes'[t] = X /\ kuma' = kuma /\ KRows' = KRows
      /\ \A q \in Take \ {t} : takes'[q] = takes[q]
  BY Bystanders DEF KRows
<1>2. ASSUME NEW q \in Take \ {t} PROVE GroupsFirst(q)'
  BY <1>1 DEF TreeInv, GroupsFirst, ParentOf
<1>3. ASSUME NEW x \in DOMAIN monitors', x[1] # t PROVE InGroup(x)'
  <2>1. SUFFICES ASSUME x[1] \in Take PROVE InGroup(x)'
    BY DEF InGroup
  <2>2. PICK q, p, self : q = x[1] /\ p = ParentOf(kuma, x[3]) /\ self = takes[q]
    OBVIOUS
  <2>3. x \in DOMAIN monitors /\ monitors'[x] = monitors[x] /\ InGroup(x) /\ takes'[q] = self
    BY <1>1, <1>3, <2>1, <2>2 DEF Moves, TreeInv
  <2>4. p \in KRows => p \in DOMAIN self.entries
    BY <2>1, <2>2, <2>3 DEF InGroup
  <2>5. ASSUME p \in DOMAIN self.resolved, self.resolved[p] \in DOMAIN monitors'
        PROVE  monitors'[x].parent = self.resolved[p]
    <3>1. Elsewhere(q, self.resolved[p]) \/ self.resolved[p] = RowId(q, p)
      BY <2>1, <2>2, <2>5 DEF KumaInv, TakeOK, KRemembers
    <3>2. self.resolved[p][1] # t
      BY <1>3, <2>2, <3>1, KMarkers DEF Elsewhere, Moves
    <3>3. self.resolved[p] \in DOMAIN monitors
      BY <2>5, <3>2 DEF Moves
    <3> QED  BY <2>1, <2>2, <2>3, <2>5, <3>3 DEF InGroup
  <2>6. p = ParentOf(kuma, x[3])'
    BY <1>1, <2>2 DEF ParentOf
  <2> QED  BY <1>1, <2>2, <2>3, <2>4, <2>5, <2>6 DEF InGroup
<1>4. Forest(kuma)'
  BY <1>1 DEF TreeInv, Forest, RowsOf, ParentOf
<1>5. t \in Take
  BY DEF Moves
<1> QED  BY <1>1, <1>2, <1>3, <1>4, <1>5 DEF TreeInv

\* No row is lost to a group of this very import: the group is there, and is one.
LEMMA NotLostToItself ==
    ASSUME KumaInv, TreeInv, NEW t \in Take, NEW r \in KRows, NEW y, LostTo(t, r, y),
           takes[t].stage = "rows"
    PROVE  y[1] # t
<1>1. SUFFICES ASSUME y # NoId, y[1] = t PROVE FALSE
  BY KMarkers
<1>2. /\ y = ParentFor(t, r) /\ ~ (y \in Visible(monitors, t) /\ monitors[y].type = "group")
  BY <1>1 DEF LostTo
<1>3. PICK p : p = kuma.rows[r].parent
  OBVIOUS
<1>4. p \in DOMAIN takes[t].resolved /\ y = takes[t].resolved[p]
  BY <1>1, <1>2, <1>3 DEF ParentFor
<1>5. p \in KRows
  BY <1>4 DEF KumaInv, TakeOK, KRemembers
<1>6. y = RowId(t, p) /\ y \in Own(monitors, t)
  BY <1>1, <1>4 DEF KumaInv, TakeOK, KRemembers, Elsewhere
<1>7. y \in DOMAIN monitors /\ monitors[y].owner = t
  BY <1>6 DEF Own
<1>8. MadeBy(t, y) /\ y[3] = p
  BY <1>1, <1>6, <1>7, KMarkers DEF KumaInv, KRowOK
<1>9. monitors[y].type = kuma.rows[p].type
  BY <1>8 DEF MadeBy
<1>10. kuma.rows[p].type = "group"
  BY <1>3, <1>5 DEF TreeInv, Forest, RowsOf, ParentOf, KRows
<1> QED  BY <1>2, <1>7, <1>9, <1>10 DEF Visible

\* The turn of a row keeps the tree: its group had its turn before it.
LEMMA RowTurnTree ==
    ASSUME KumaInv, TreeInv, NEW t, NEW r, NEW X, NEW e, NEW m, RowTurn(t, r, X, e, m)
    PROVE  TreeInv'
<1>1. RowDone(t, r, X, e, m) /\ LostTo(t, r, e.lost) /\ t \in Take /\ takes[t].stage = "rows"
  BY DEF RowTurn, RowDone
<1>2. /\ r \in KRows /\ r \notin DOMAIN takes[t].entries /\ r \notin DOMAIN takes[t].resolved
      /\ DOMAIN X.entries = DOMAIN takes[t].entries \cup {r} /\ X.entries[r] = e
      /\ \A q \in DOMAIN takes[t].entries : X.entries[q] = takes[t].entries[q]
      /\ RowId(t, r) \notin DOMAIN monitors
  BY <1>1, NextIsNew
<1>3. /\ \A x \in DOMAIN monitors : x \in DOMAIN monitors' /\ monitors'[x] = monitors[x]
      /\ \A x \in DOMAIN monitors' : x \in DOMAIN monitors \/ (x = RowId(t, r) /\ Makes(t, r, X, e, m))
      /\ Makes(t, r, X, e, m) => monitors'[RowId(t, r)] = m
  BY <1>2 DEF RowTurn, Passes, Makes, Put
<1>4. Moves(t, X)
  BY <1>1, <1>3, KMarkers DEF Moves, RowDone
<1>5. takes'[t] = X /\ KRows' = KRows /\ kuma' = kuma
  BY <1>4, Bystanders DEF KRows
<1>6. /\ DOMAIN X.resolved \subseteq DOMAIN takes[t].resolved \cup {r}
      /\ \A q \in DOMAIN takes[t].resolved : X.resolved[q] = takes[t].resolved[q]
  BY <1>2 DEF RowTurn, Passes, Makes, Put
<1>7. GroupsFirst(t) /\ TakeOK(t)
  BY <1>1 DEF TreeInv, KumaInv
<1>8. PICK q : q = takes[t].queue
  OBVIOUS
<1>9. /\ Len(q) \in Nat /\ Len(X.queue) = Len(q) - 1 /\ q[1] = r /\ Len(q) >= 1
      /\ \A i \in 1 .. Len(X.queue) : i + 1 \in 1 .. Len(q) /\ X.queue[i] = q[i + 1]
  <2>1. Distinct(kuma, q) /\ q # <<>> /\ r = Head(q) /\ X.queue = Tail(q)
    BY <1>1, <1>7, <1>8 DEF RowDone, TakeOK, KProgress
  <2>2. PICK l : l = Tail(q)
    OBVIOUS
  <2>3. /\ Len(q) \in Nat /\ Len(Tail(q)) = Len(q) - 1 /\ q[1] = r /\ Len(q) >= 1
        /\ \A i \in 1 .. Len(Tail(q)) : i + 1 \in 1 .. Len(q) /\ Tail(q)[i] = q[i + 1]
    BY <2>1, Popped
  <2> QED  BY <2>1, <2>3
<1>10. \A i \in 1 .. Len(q) :
          LET p == ParentOf(kuma, q[i])
          IN  p \in KRows => \/ p \in DOMAIN takes[t].entries
                             \/ \E j \in 1 .. Len(q) : j < i /\ q[j] = p
  BY <1>1, <1>7, <1>8 DEF GroupsFirst
<1>11. GroupsFirst(t)'
  <2>1. ASSUME NEW i \in 1 .. Len(X.queue), NEW p \in KRows, p = ParentOf(kuma, X.queue[i])
        PROVE  p \in DOMAIN X.entries \/ \E j \in 1 .. Len(X.queue) : j < i /\ X.queue[j] = p
    <3>1. SUFFICES ASSUME p \notin DOMAIN X.entries
                   PROVE  \E j \in 1 .. Len(X.queue) : j < i /\ X.queue[j] = p
      OBVIOUS
    <3>2. i + 1 \in 1 .. Len(q) /\ p = ParentOf(kuma, q[i + 1]) /\ p # r /\ p \notin DOMAIN takes[t].entries
      BY <1>2, <1>9, <2>1, <3>1
    <3>3. PICK j \in 1 .. Len(q) : j < i + 1 /\ q[j] = p
      BY <1>10, <3>2
    <3>4. j # 1
      BY <1>9, <3>2, <3>3
    <3>5. j - 1 \in 1 .. Len(X.queue) /\ j - 1 < i /\ (j - 1) + 1 = j
      BY <1>9, <3>3, <3>4
    <3>6. X.queue[j - 1] = p
      BY <1>9, <3>3, <3>5
    <3> QED  BY <3>5, <3>6
  <2>2. e.lost[1] # t
    BY <1>1, <1>2, NotLostToItself
  <2>3. \A s \in DOMAIN X.entries : X.entries[s].lost[1] # t
    BY <1>2, <1>7, <2>2 DEF GroupsFirst
  <2>4. \A s : ParentOf(kuma, s)' = ParentOf(kuma, s)
    BY <1>5 DEF ParentOf
  <2> QED  BY <1>5, <2>1, <2>3, <2>4 DEF GroupsFirst, ParentOf
<1>12. ASSUME NEW x \in DOMAIN monitors', x[1] = t PROVE InGroup(x)'
  <2>1. PICK p : p = ParentOf(kuma, x[3])
    OBVIOUS
  <2>2. DOMAIN takes[t].resolved \subseteq KRows /\ DOMAIN X.resolved \subseteq KRows
    BY <1>2, <1>6, <1>7 DEF TakeOK, KRemembers
  <2>3. /\ p \in KRows => p \in DOMAIN takes[t].entries
        /\ p \in DOMAIN takes[t].resolved /\ takes[t].resolved[p] \in DOMAIN monitors' =>
              monitors'[x].parent = takes[t].resolved[p]
    <3>1. CASE x \in DOMAIN monitors
      <4>1. InGroup(x) /\ monitors'[x] = monitors[x]
        BY <1>3, <3>1 DEF TreeInv
      <4>2. p \in KRows => p \in DOMAIN takes[t].entries
        BY <1>1, <1>12, <2>1, <4>1 DEF InGroup
      <4>3. ASSUME p \in DOMAIN takes[t].resolved, takes[t].resolved[p] \in DOMAIN monitors'
            PROVE  monitors'[x].parent = takes[t].resolved[p]
        <5>1. Elsewhere(t, takes[t].resolved[p]) \/ takes[t].resolved[p] = RowId(t, p)
          BY <1>7, <4>3 DEF TakeOK, KRemembers
        <5>2. p # r
          BY <1>2, <4>3
        <5>3. takes[t].resolved[p] # RowId(t, r)
          BY <5>1, <5>2, KMarkers DEF Elsewhere
        <5>4. takes[t].resolved[p] \in DOMAIN monitors
          BY <1>3, <4>3, <5>3
        <5> QED  BY <1>1, <1>12, <2>1, <4>1, <4>3, <5>4 DEF InGroup
      <4> QED  BY <4>2, <4>3
    <3>2. CASE x = RowId(t, r) /\ Makes(t, r, X, e, m)
      <4>1. x[3] = r /\ monitors'[x] = m /\ m.parent = ParentFor(t, r)
        <5>1. ~ Passes(t, r, X, e)
          BY <1>1, <3>2, KMarkers DEF Passes, Makes
        <5> QED  BY <1>3, <3>2, <5>1, KMarkers DEF RowTurn
      <4>2. p = ParentOf(kuma, q[1]) /\ 1 \in 1 .. Len(q) /\ ~ \E j \in 1 .. Len(q) : j < 1
        BY <1>9, <2>1, <4>1
      <4>3. p \in KRows => p \in DOMAIN takes[t].entries
        BY <1>10, <4>2
      <4>4. p \in DOMAIN takes[t].resolved => m.parent = takes[t].resolved[p]
        BY <2>1, <4>1 DEF ParentFor, ParentOf
      <4> QED  BY <4>1, <4>3, <4>4
    <3> QED  BY <1>3, <1>12, <3>1, <3>2
  <2>4. p \in DOMAIN X.resolved =>
            p # r /\ p \in DOMAIN takes[t].resolved /\ X.resolved[p] = takes[t].resolved[p]
    BY <1>2, <1>6, <2>2, <2>3
  <2>5. p = ParentOf(kuma, x[3])'
    BY <1>5, <2>1 DEF ParentOf
  <2> QED  BY <1>2, <1>5, <1>12, <2>3, <2>4, <2>5 DEF InGroup
<1> QED  BY <1>4, <1>11, <1>12, TreeMoves

\* A step that touches no row keeps the tree.
LEMMA IdleTurnTree ==
    ASSUME KumaInv, TreeInv, NEW t, NEW X, IdleTurn(t, X)
    PROVE  TreeInv'
<1>1. /\ Moves(t, X) /\ monitors' = monitors /\ X.stage = takes[t].stage /\ X.queue = takes[t].queue
      /\ X.entries = takes[t].entries /\ X.resolved = takes[t].resolved /\ t \in Take
  BY DEF IdleTurn, Moves
<1>2. takes'[t] = X /\ KRows' = KRows /\ kuma' = kuma
  BY <1>1, Bystanders DEF KRows
<1>3. GroupsFirst(t)'
  BY <1>1, <1>2 DEF TreeInv, GroupsFirst, ParentOf
<1>4. ASSUME NEW x \in DOMAIN monitors', x[1] = t PROVE InGroup(x)'
  BY <1>1, <1>2, <1>4 DEF TreeInv, InGroup, ParentOf
<1> QED  BY <1>1, <1>3, <1>4, TreeMoves

\* So does the end of an import.
LEMMA LastTurnTree ==
    ASSUME KumaInv, TreeInv, NEW t, NEW X, LastTurn(t, X)
    PROVE  TreeInv'
<1>1. Moves(t, X) /\ t \in Take /\ X.stage # "rows"
  BY DEF LastTurn, Moves
<1>2. takes'[t] = X /\ KRows' = KRows /\ kuma' = kuma
  BY <1>1, Bystanders DEF KRows
<1>3. GroupsFirst(t)'
  <2>1. \A r \in DOMAIN X.entries : X.entries[r].lost[1] # t
    BY <1>1 DEF LastTurn, TreeInv, GroupsFirst
  <2> QED  BY <1>1, <1>2, <2>1 DEF GroupsFirst
<1>4. ASSUME NEW x \in DOMAIN monitors', x[1] = t PROVE InGroup(x)'
  <2>1. /\ X.entries = takes[t].entries /\ X.resolved = takes[t].resolved
        /\ DOMAIN monitors' = DOMAIN monitors /\ monitors'[x].parent = monitors[x].parent
    BY <1>4 DEF LastTurn
  <2>2. InGroup(x)
    BY <1>4, <2>1 DEF TreeInv
  <2> QED  BY <1>1, <1>2, <1>4, <2>1, <2>2 DEF InGroup, ParentOf
<1> QED  BY <1>1, <1>3, <1>4, TreeMoves

\* So does its beginning: groups are first in the queue.
LEMMA FirstTurnTree ==
    ASSUME KumaInv, TreeInv, NEW t, NEW X, FirstTurn(t, X)
    PROVE  TreeInv'
<1>1. /\ Moves(t, X) /\ t \in Take /\ monitors' = monitors /\ kuma \in Kumas
      /\ \A x \in DOMAIN monitors : x[1] # t
  BY DEF FirstTurn, Moves, KumaInv
<1>2. takes'[t] = X /\ KRows' = KRows /\ kuma' = kuma
  BY <1>1, Bystanders DEF KRows
<1>3. GroupsFirst(t)'
  <2>1. \A r \in DOMAIN X.entries : X.entries[r].lost[1] # t
    BY <1>1, KMarkers DEF FirstTurn
  <2>2. CASE X.stage = "refused"
    BY <1>2, <2>1, <2>2 DEF GroupsFirst
  <2>3. CASE X.stage = "rows" /\ X.queue = CreationOrder(kuma)
    <3>1. PICK o : o = CreationOrder(kuma) /\ X.queue = o
      BY <2>3
    <3>2. ParentsFirst(kuma, o)
      BY <1>1, <3>1, CreationOrderOK DEF TreeInv
    <3> QED  BY <1>2, <2>1, <3>1, <3>2 DEF GroupsFirst, ParentsFirst, RowsOf, KRows, ParentOf
  <2> QED  BY <2>2, <2>3 DEF FirstTurn
<1> QED  BY <1>1, <1>3, TreeMoves

\* A deletion takes the members of a group out of it.
LEMMA DeleteTree ==
    ASSUME KumaInv, TreeInv, NEW x \in DOMAIN monitors, DeleteMonitor(x), UNCHANGED kvars
    PROVE  TreeInv'
<1>1. kuma' = kuma /\ takes' = takes /\ KRows' = KRows
  BY DEF kvars, KRows
<1>2. /\ DOMAIN monitors' = DOMAIN monitors \ {x}
      /\ \A y \in DOMAIN monitors' :
            monitors'[y].parent = IF monitors[y].parent = x THEN NoId ELSE monitors[y].parent
  BY Deletes
<1>3. ASSUME NEW y \in DOMAIN monitors' PROVE InGroup(y)'
  <2>1. y \in DOMAIN monitors /\ InGroup(y)
    BY <1>2, <1>3 DEF TreeInv
  <2> QED  BY <1>1, <1>2, <1>3, <2>1 DEF InGroup, ParentOf
<1>4. ASSUME NEW t \in Take PROVE GroupsFirst(t)'
  BY <1>1 DEF TreeInv, GroupsFirst, ParentOf
<1>5. Forest(kuma)'
  BY <1>1 DEF TreeInv, Forest, RowsOf, ParentOf
<1> QED  BY <1>3, <1>4, <1>5 DEF TreeInv

\* Every step keeps the tree.
LEMMA TreeNext ==
    ASSUME KumaInv, TreeInv, [KumaNext]_<<kvars, mvars>>
    PROVE  TreeInv'
<1>1. ASSUME NEW t \in Take, TakeStep(t) PROVE TreeInv'
  <2>1. ASSUME NEW dry \in BOOLEAN, NEW allowDrift \in BOOLEAN, KumaBegin(t, dry, allowDrift)
        PROVE  TreeInv'
    BY <2>1, KumaBeginInv, FirstTurnTree
  <2>2. CASE KumaAlready(t)
    BY <2>2, KumaAlreadyInv, RowTurnTree
  <2>3. CASE KumaRefused(t)
    BY <2>3, KumaRefusedInv, RowTurnTree
  <2>4. CASE PushTokenTaken(t)
    BY <2>4, PushTokenInv, IdleTurnTree
  <2>5. ASSUME NEW stores \in BOOLEAN, KumaStore(t, stores) PROVE TreeInv'
    BY <2>5, KumaStoreInv, RowTurnTree
  <2>6. ASSUME NEW stores \in BOOLEAN, KumaPage(t, stores) PROVE TreeInv'
    BY <2>6, KumaPageInv, IdleTurnTree
  <2>7. CASE KumaClose(t)
    BY <2>7, KumaCloseInv, LastTurnTree
  <2>8. CASE KumaFails(t)
    BY <2>8, KumaFailsInv, LastTurnTree
  <2> QED  BY <1>1, <2>1, <2>2, <2>3, <2>4, <2>5, <2>6, <2>7, <2>8 DEF TakeStep
<1>2. ASSUME NEW x \in DOMAIN monitors, DeleteMonitor(x), UNCHANGED kvars PROVE TreeInv'
  BY <1>2, DeleteTree
<1>3. CASE UNCHANGED <<kvars, mvars>>
  <2>1. UNCHANGED <<kuma, takes, monitors>>
    BY <1>3 DEF kvars, mvars
  <2> QED  BY <2>1 DEF TreeInv, Forest, GroupsFirst, InGroup, RowsOf, ParentOf, KRows
<1> QED  BY <1>1, <1>2, <1>3 DEF KumaNext

\* There is no tree at first.
LEMMA TreeInit ==
    ASSUME KumaInit, Forest(kuma)
    PROVE  TreeInv
<1>1. ASSUME NEW t \in Take PROVE GroupsFirst(t)
  <2>1. takes[t] = NewTake
    BY DEF KumaInit
  <2> QED  BY <2>1, NewTakeTyped DEF GroupsFirst
<1>2. ASSUME NEW x \in DOMAIN monitors PROVE x = HandId
  BY <1>2 DEF KumaInit, Empty
<1> QED  BY <1>1, <1>2, KMarkers DEF TreeInv, InGroup

\* The tree that is kept is what the run checks.
LEMMA TreeFollows ==
    ASSUME KumaInv, TreeInv
    PROVE  TreeKept
<1>1. ASSUME NEW x \in Committed(monitors), x[1] \in Take,
             kuma.rows[x[3]].parent \in DOMAIN takes[x[1]].resolved,
             takes[x[1]].resolved[kuma.rows[x[3]].parent] \in DOMAIN monitors
      PROVE  monitors[x].parent = takes[x[1]].resolved[kuma.rows[x[3]].parent]
  <2>1. InGroup(x)
    BY <1>1 DEF Committed, TreeInv
  <2> QED  BY <1>1, <2>1 DEF InGroup, ParentOf
<1>2. \A t \in Take : \A r \in DOMAIN takes[t].entries : takes[t].entries[r].lost[1] # t
  BY DEF TreeInv, GroupsFirst
<1> QED  BY <1>1, <1>2 DEF TreeKept

\* A Kuma database whose groups form a forest, of any size, arrives as the same
\* forest, and no row is lost to a group this import made; with LinesSafe, and its
\* exception of a silent last beat, what the run checks of importKumaDatabase,
\* creationOrder and importStatusPages.
THEOREM KumaSafe ==
    ASSUME \A db \in Kumas : Forest(db)
    PROVE  KumaSpec => []KumaFaithful
<1>1. KumaInit => KumaInv /\ TreeInv
  <2>1. KumaInit => Forest(kuma)
    BY DEF KumaInit
  <2> QED  BY <2>1, KumaInitInv, TreeInit
<1>2. KumaInv /\ TreeInv /\ [KumaNext]_<<kvars, mvars>> => (KumaInv /\ TreeInv)'
  BY KumaNextInv, TreeNext
<1>3. KumaInv /\ TreeInv => KumaFaithful
  BY LinesFollow, TreeFollows DEF KumaFaithful
<1> QED  BY <1>1, <1>2, <1>3, PTL DEF KumaSpec

-----------------------------------------------------------------------------
(* What a record becomes *)

\* What a check may state of a setting: any number, where the run has a few.
Sort(s) == IF s \in NumberSettings THEN {n \in Int : n >= Unset} ELSE Values(s)

\* Any check that states as many settings as it likes, whether its kind reads
\* them or not.
Stated(check) == check.kind \in Kind /\ \A s \in Setting : check.want[s] \in Sort(s)

\* Any row that states as much as it likes of what its type may.
StatedRow(r) ==
    /\ r.type \in DOMAIN TypeMatrix
    /\ \A c \in DOMAIN r.states : \E p \in Statable(r.type) : c = p[1] /\ r.states[c] = p[2]

\* A number is changed with a note, or the same thing, or one of those the code
\* changes without a word.
LEMMA NumberQuiet ==
    ASSUME NEW check, NEW s \in NumberSettings \ Silent(check), check.want[s] \in Sort(s)
    PROVE  Translated(check, s).note \/ SameThing(s, check.want[s], Translated(check, s).value)
<1>1. PICK v : v = check.want[s]
  OBVIOUS
<1>2. v \in Int /\ v >= -1
  BY <1>1 DEF Sort, Unset
<1>3. CASE s = "interval"
  <2>1. Translated(check, s) = IntervalFor(v)
    BY <1>1, <1>3 DEF Translated, Interval, Silent
  <2>2. IntervalFor(v).note \/ SameThing(s, v, IntervalFor(v).value)
    BY <1>2, <1>3 DEF IntervalFor, Carried, Noted, SameThing, Nothing, NumberSettings
  <2> QED  BY <1>1, <2>1, <2>2
<1>4. CASE s = "timeout"
  <2>1. Translated(check, s) = TimeoutFor(v)
    BY <1>1, <1>4 DEF Translated
  <2>2. v <= 0 => v = Unset \/ v = 0
    BY <1>2 DEF Unset
  <2>3. TimeoutFor(v).note \/ SameThing(s, v, TimeoutFor(v).value)
    BY <1>2, <1>4, <2>2 DEF TimeoutFor, Carried, Noted, SameThing, Nothing, NumberSettings
  <2> QED  BY <1>1, <2>1, <2>3
<1>5. CASE s = "warnDays"
  <2>1. Translated(check, s) = WarnDaysFor(v)
    BY <1>1, <1>5 DEF Translated
  <2>2. WarnDaysFor(v).note \/ WarnDaysFor(v).value = v
    BY DEF WarnDaysFor, Carried, Noted
  <2> QED  BY <1>1, <2>1, <2>2 DEF SameThing
<1>6. CASE s = "period"
  <2>1. Translated(check, s) = Period(v)
    BY <1>1, <1>6 DEF Translated
  <2>2. Period(v).note \/ Period(v).value = v
    BY DEF Period, Carried, Noted
  <2> QED  BY <1>1, <2>1, <2>2 DEF SameThing
<1>7. CASE s \in {"window", "grace"}
  <2>1. Clamp(v, s) = v
    BY <1>1, <1>7 DEF Silent
  <2>2. Translated(check, s) = Carried(IF v = Unset THEN v ELSE Clamp(v, s))
    BY <1>1, <1>7 DEF Translated, FailureWindowFor, GraceFor
  <2>3. Translated(check, s).value = v
    BY <2>1, <2>2 DEF Carried
  <2> QED  BY <1>1, <2>3 DEF SameThing
<1> QED  BY <1>3, <1>4, <1>5, <1>6, <1>7 DEF NumberSettings

\* So is a text.
LEMMA TextQuiet ==
    ASSUME NEW check, NEW s \in Setting \ NumberSettings, check.want[s] \in Sort(s)
    PROVE  \/ Translated(check, s).note \/ Translated(check, s).refused
           \/ SameThing(s, check.want[s], Translated(check, s).value)
<1>1. PICK v : v = check.want[s]
  OBVIOUS
<1>2. Nothing(s) = "none" /\ v \in Values(s)
  BY <1>1 DEF Nothing, Sort
<1> DEFINE Quiet(t) == t.note \/ t.refused \/ t.value = v \/ v = "none"
<1>3. Quiet(Carried(v)) /\ \A u : Quiet(Noted(u)) /\ Quiet(Refusal(u))
  BY DEF Carried, Noted, Refusal
<1>4. SUFFICES Quiet(Translated(check, s))
  BY <1>1, <1>2 DEF SameThing
<1>5. v = "none" => Quiet(Translated(check, s))
  OBVIOUS
<1>6. Quiet(NameFor(v)) /\ Quiet(ExpectedStatusFrom(v)) /\ Quiet(UrlFor(v)) /\ Quiet(HostFor(v))
  BY <1>3 DEF NameFor, ExpectedStatusFrom, UrlFor, HostFor
<1>7. Quiet(DomainFor(v)) /\ Quiet(JsonOperator(v)) /\ Quiet(JsonPath(v)) /\ Quiet(DnsRecord(v))
  BY <1>3 DEF DomainFor, JsonOperator, JsonPath, DnsRecord
<1>8. Quiet(DnsExpected(v)) /\ Quiet(DnsResolver(v)) /\ Quiet(Cron(v)) /\ Quiet(Losses(v))
  BY <1>3 DEF DnsExpected, DnsResolver, Cron, Losses
<1>9. Quiet(Keyword(v, check.want["method"])) /\ Quiet(Port(v, check.kind))
  BY <1>3 DEF Keyword, Port
<1>10. CASE s = "method"
  <2>1. Quiet(Method(v))
    BY <1>3 DEF Method
  <2> QED  BY <1>1, <1>10, <2>1 DEF Translated
<1>11. CASE s = "requestExtras"
  <2>1. v \in {"none", "stated"}
    BY <1>2, <1>11 DEF Values, NumberSettings
  <2>2. Quiet(NoteHttpLosses(v))
    BY <1>3, <2>1 DEF NoteHttpLosses
  <2> QED  BY <1>1, <1>11, <2>2 DEF Translated
<1> HIDE DEF Quiet
<1>12. CASE s \in {"name", "status", "url", "host", "domain", "operator"}
  BY <1>1, <1>6, <1>7, <1>12 DEF Translated
<1>13. CASE s \in {"path", "record", "expected", "resolver", "cron", "losses"}
  BY <1>1, <1>7, <1>8, <1>13 DEF Translated
<1>14. CASE s \in {"keyword", "port"}
  BY <1>1, <1>9, <1>14 DEF Translated
<1> QED  BY <1>10, <1>11, <1>12, <1>13, <1>14 DEF Setting

\* Whatever its kind and however much it states, a check that is imported or
\* transformed watches what the source watched, or the report says where not,
\* but for the settings the code loses without a word.
LEMMA CheckSpoken ==
    ASSUME offered # NoOffer => Stated(offered)
    PROVE  RecordSpoken
<1>1. PICK t : t = TranslateCheck(offered)
  OBVIOUS
<1>2. SUFFICES ASSUME Stated(offered), t.outcome \in {"imported", "transformed"},
                      NEW s \in Setting \ Silent(offered)
               PROVE  /\ s \in DOMAIN t.build
                      /\ t.build[s].note \/ SameThing(s, offered.want[s], t.build[s].value)
  BY <1>1 DEF RecordSpoken, Arrives, Spoken
<1>3. PICK build : build = [x \in Reads(offered.kind) |-> Translated(offered, x)]
  OBVIOUS
<1>4. t = IF CheckType(offered.kind) = "none" THEN [outcome |-> "unsupported", build |-> <<>>]
          ELSE IF \E x \in DOMAIN build : build[x].refused THEN [outcome |-> "skipped", build |-> build]
          ELSE IF \E x \in DOMAIN build : build[x].note THEN [outcome |-> "transformed", build |-> build]
          ELSE [outcome |-> "imported", build |-> build]
  BY <1>1, <1>3, Zenon DEF TranslateCheck
<1>5. t.build = build /\ ~ \E x \in DOMAIN build : build[x].refused
  BY <1>2, <1>4
<1>6. s \in Reads(offered.kind)
  BY <1>2 DEF Silent
<1>7. s \in DOMAIN t.build /\ t.build[s] = Translated(offered, s) /\ ~ Translated(offered, s).refused
  BY <1>3, <1>5, <1>6
<1>8. offered.want[s] \in Sort(s)
  BY <1>2 DEF Stated
<1>9. Translated(offered, s).note \/ SameThing(s, offered.want[s], Translated(offered, s).value)
  BY <1>2, <1>7, <1>8, NumberQuiet, TextQuiet
<1> QED  BY <1>7, <1>9

\* Whatever its type and however much it states, a row that imports loses without
\* a word what Unspoken names and nothing else: what happens to a column depends
\* on that column alone.
LEMMA AnyRowSpoken ==
    ASSUME NEW r, StatedRow(r)
    PROVE  SpokenRow(r, Unspoken(r.type)) /\ PageTrue(r)
<1>1. PICK b : b = CaseOf(r.type)
  OBVIOUS
<1>2. PICK lands, drops :
         /\ lands = b.lands \cup BaseLands
         /\ drops = b.drops \cup NotableDrops(r.type) \cup ConditionDrops(b)
  OBVIOUS
<1> DEFINE Built(states) ==
             [refused |-> ({c \in DOMAIN states : states[c] = "odd"} \cap (lands \cup b.accepts)) \cup
                          ({c \in DOMAIN states : states[c] = "null"} \cap b.needs),
              noted |-> (DOMAIN states \cap drops) \cup
                        ({c \in DOMAIN states : states[c] = "bent"} \cap (b.bends \cup BaseBends)),
              landed |-> {c \in DOMAIN states : states[c] = "fine"} \cap (lands \cup b.accepts),
              always |-> b.always]
<1>3. \A q : q.type = r.type => BuildMonitorInput(q) = Built(q.states)
  BY <1>1, <1>2 DEF BuildMonitorInput
<1>4. PICK mine : mine = Built(r.states)
  OBVIOUS
<1>5. ASSUME NEW c \in DOMAIN r.states
      PROVE  /\ mine.refused = {} =>
                   \/ c \in mine.landed \cup mine.noted \cup Unspoken(r.type)
                   \/ mine.always /\ r.states[c] = "bent"
             /\ c \in mine.landed \ b.accepts => c \notin Unsupported
  <2>0. PICK p \in Statable(r.type) : c = p[1] /\ r.states[c] = p[2]
    BY DEF StatedRow
  <2>1. PICK q : q = Alone(r.type, p)
    OBVIOUS
  <2>2. q.type = r.type /\ q.states = [x \in {c} |-> r.states[c]]
    BY <2>0, <2>1 DEF Alone
  <2>3. DOMAIN q.states = {c} /\ q.states[c] = r.states[c]
    BY <2>2
  <2>4. SpokenRow(q, Unspoken(r.type)) /\ PageTrue(q)
    BY <2>0, <2>1, RowTables DEF StatedRow
  <2>5. PICK one : one = Built(q.states)
    OBVIOUS
  <2>6. /\ one.refused = {} =>
             {c} \subseteq one.landed \cup one.noted \cup Unspoken(r.type) \cup
                (IF one.always THEN {x \in {c} : q.states[x] = "bent"} ELSE {})
        /\ \A x \in one.landed \ b.accepts : x \notin Unsupported
    BY <1>1, <1>3, <2>2, <2>3, <2>4, <2>5 DEF SpokenRow, PageTrue
  <2>7. /\ one.refused \subseteq mine.refused /\ one.noted \subseteq mine.noted
        /\ one.landed \subseteq mine.landed /\ one.always = mine.always
        /\ c \in mine.landed => c \in one.landed
    BY <1>4, <2>3, <2>5
  <2> QED  BY <2>3, <2>6, <2>7
<1>6. mine.landed \subseteq DOMAIN r.states
  BY <1>4
<1>7. BuildMonitorInput(r) = mine
  BY <1>3, <1>4
<1> HIDE DEF Built
<1> QED  BY <1>1, <1>5, <1>6, <1>7 DEF SpokenRow, PageTrue

\* The checks and rows of the run are among them.
LEMMA RunStated == (TInit => Stated(offered)) /\ (RowInit => StatedRow(row))
<1>1. ASSUME TInit PROVE Stated(offered)
  <2>1. PICK kind \in Kind :
           \E s \in Setting, t \in {"method", "period"} : \E v \in Values(s), w \in Values(t) :
              offered = [Plain(kind) EXCEPT !.want[s] = v, !.want[t] = w]
    BY <1>1, Zenon DEF TInit
  <2>2. PICK s \in Setting, t \in {"method", "period"} :
           \E v \in Values(s), w \in Values(t) :
              offered = [Plain(kind) EXCEPT !.want[s] = v, !.want[t] = w]
    BY <2>1, Zenon
  <2>3. PICK v \in Values(s), w \in Values(t) :
           offered = [Plain(kind) EXCEPT !.want[s] = v, !.want[t] = w]
    BY <2>2, Zenon
  <2>4. PICK want, target :
           /\ target = {"url", "host", "domain", "port"} \cap Reads(kind)
           /\ want = [x \in Setting |-> IF x \in target THEN "plain" ELSE Nothing(x)]
    OBVIOUS
  <2>5. Plain(kind) = [kind |-> kind, want |-> want]
    BY <2>4, Zenon DEF Plain
  <2>6. offered.kind = kind /\ offered.want = [[want EXCEPT ![s] = v] EXCEPT ![t] = w]
    BY <2>3, <2>5
  <2>7. DOMAIN want = Setting /\ t \in Setting
    BY <2>2, <2>4 DEF Setting, NumberSettings
  <2>8. \A x \in Setting : want[x] \in Sort(x)
    <3> SUFFICES ASSUME NEW x \in Setting PROVE want[x] \in Sort(x)
      OBVIOUS
    <3>1. CASE x \in target
      <4>1. x \in {"url", "host", "domain", "port"} /\ want[x] = "plain"
        BY <2>4, <3>1
      <4> QED  BY <4>1 DEF Sort, Values, NumberSettings
    <3>2. CASE x \notin target /\ x \in NumberSettings
      BY <2>4, <3>2 DEF Sort, NumberSettings, Nothing, Unset
    <3>3. CASE x \notin target /\ x \notin NumberSettings
      <4>1. want[x] = "none"
        BY <2>4, <3>3 DEF Nothing
      <4>2. "none" \in Values(x)
        BY <3>3 DEF Setting, NumberSettings, Values
      <4> QED  BY <3>3, <4>1, <4>2 DEF Sort
    <3> QED  BY <3>1, <3>2, <3>3
  <2>9. ASSUME NEW x \in Setting PROVE Values(x) \subseteq Sort(x)
    <3>1. CASE x \in NumberSettings
      <4>1. Values(x) = -1 .. 5
        BY <3>1 DEF NumberSettings, Values
      <4> QED  BY <3>1, <4>1 DEF Sort, Unset
    <3>2. CASE x \notin NumberSettings
      BY <3>2 DEF Sort
    <3> QED  BY <3>1, <3>2
  <2>10. \A x \in Setting : offered.want[x] \in Sort(x)
    BY <2>6, <2>7, <2>8, <2>9, <2>2, <2>3
  <2> QED  BY <2>6, <2>10 DEF Stated
<1>2. ASSUME RowInit PROVE StatedRow(row)
  <2> DEFINE States(type, p, q) ==
               [c \in {p[1], q[1]} \cup DOMAIN Given(type) |->
                   IF c = p[1] THEN p[2] ELSE IF c = q[1] THEN q[2] ELSE Given(type)[c]]
  <2>1. PICK type \in DOMAIN TypeMatrix :
           \E p \in Offers(type) \cup BaseOffers, q \in BaseOffers :
              row = [type |-> type, states |-> States(type, p, q)]
    BY <1>2, Zenon DEF RowInit
  <2>2. PICK p \in Offers(type) \cup BaseOffers, q \in BaseOffers :
           row = [type |-> type, states |-> States(type, p, q)]
    BY <2>1, Zenon
  <2>3. row.type = type /\ row.states = States(type, p, q)
    BY <2>2
  <2>4. ASSUME NEW c \in DOMAIN row.states
        PROVE  \E e \in Statable(type) : c = e[1] /\ row.states[c] = e[2]
    <3>1. CASE c = p[1]
      <4>1. row.states[c] = p[2]
        BY <2>3, <3>1
      <4> QED  BY <3>1, <4>1 DEF Statable
    <3>2. CASE c # p[1] /\ c = q[1]
      <4>1. row.states[c] = q[2]
        BY <2>3, <3>2
      <4> QED  BY <3>2, <4>1 DEF Statable
    <3>3. CASE c # p[1] /\ c # q[1]
      <4>1. c \in CaseOf(type).needs /\ row.states[c] = "fine"
        BY <2>3, <2>4, <3>3 DEF Given
      <4>2. <<c, "fine">> \in Statable(type)
        BY <4>1 DEF Statable, Fine
      <4> QED  BY <4>1, <4>2
    <3> QED  BY <3>1, <3>2, <3>3
  <2> QED  BY <2>3, <2>4 DEF StatedRow
<1> QED  BY <1>1, <1>2

\* Whatever is translated, of whichever system and however much it states, the
\* report speaks of everything that is lost but the settings and columns that
\* Silent and Unspoken name: translateCheck and buildMonitorInput lose those
\* without a word.
THEOREM SpokenSafe ==
    ASSUME offered # NoOffer => Stated(offered), row # NoRow => StatedRow(row)
    PROVE  SpokenFor
<1>1. RecordSpoken
  BY CheckSpoken
<1>2. RowSpoken
  BY AnyRowSpoken DEF RowSpoken
<1> QED  BY <1>1, <1>2 DEF SpokenFor
=============================================================================
