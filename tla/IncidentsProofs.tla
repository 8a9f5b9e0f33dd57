-------------------------- MODULE IncidentsProofs ---------------------------
(***************************************************************************)
(* Proofs about Incidents, for any number of concurrent checks, incidents, *)
(* operators' acts and crashes.                                            *)
(***************************************************************************)
EXTENDS Incidents, TLAPS

\* A check that writes to an incident writes to one a monitor opened.
Grounded ==
    \A w \in Checker : check[w].stage \in {"lines", "handle", "capture"} =>
        /\ check[w].incident \in Incident
        /\ incident[check[w].incident].status # "absent"
        /\ incident[check[w].incident].source = "monitor"

\* Nothing refers to an incident that does not exist yet.
Blank ==
    \A i \in Incident : incident[i].status = "absent" =>
        /\ claims[i] = 0 /\ ~ incident[i].notified /\ ~ incident[i].shadow
        /\ \A n \in intents : n.incident # i
        /\ \A e \in evidence : e.incident # i

\* The inductive invariant.
IncidentInv ==
    /\ TypeOK
    /\ Grounded
    /\ Blank
    /\ slateAt <= now
    /\ OneActive
    /\ PageOnce
    /\ AllClear
    /\ DownEarned
    /\ ShadowUnclaimed

-----------------------------------------------------------------------------
\* A job at any stage, of any incident, is well typed.
LEMMA IdleTyped == ASSUME NEW stage \in Stage, NEW i \in Incident \cup {NoIncident}
                   PROVE  At(stage, i) \in Job
  BY DEF At, Job, Seen, NoRow, Time, MonitorStatus

\* The invariant holds before the first check.
LEMMA InitInv == Init => IncidentInv
  <1> SUFFICES ASSUME Init PROVE IncidentInv
    OBVIOUS
  <1> USE IncidentConstants
  <1>1. monitor \in MonitorRow
    BY DEF Init, MonitorRow, MonitorStatus, Time
  <1>2. Absent \in IncidentRow
    BY DEF Absent, IncidentRow, IncidentStatus, ActiveStatus
  <1>3. Idle \in Job
    BY IdleTyped DEF Idle, Stage
  <1>4. TypeOK
    BY <1>1, <1>2, <1>3 DEF Init, TypeOK, NoDeletion
  <1>5. Grounded
    BY DEF Init, Grounded, Idle, At
  <1>6. Blank /\ slateAt <= now /\ OneActive
    BY DEF Init, Blank, Absent, OneActive, AutoActive, Active, ActiveStatus
  <1>7. PageOnce /\ AllClear /\ ShadowUnclaimed
    BY DEF Init, Absent, PageOnce, AllClear, ShadowUnclaimed
  <1>8. DownEarned
    BY DEF Init, DownEarned
  <1> QED
    BY <1>4, <1>5, <1>6, <1>7, <1>8 DEF IncidentInv

-----------------------------------------------------------------------------
\* A step that only moves a check.
LEMMA CheckOnly ==
    ASSUME IncidentInv, check' \in [Checker -> Job], Grounded',
           UNCHANGED <<monitor, incident, intents, evidence, deletion, now,
                       claims, late, slateAt, edits>>,
           crashes' \in Nat
    PROVE  IncidentInv'
  <1> USE DEF IncidentInv
  <1>1. TypeOK'
    BY DEF TypeOK
  <1>2. Blank' /\ (slateAt <= now)' /\ OneActive'
    BY DEF Blank, OneActive, AutoActive, Active
  <1>3. PageOnce' /\ AllClear' /\ ShadowUnclaimed'
    BY DEF PageOnce, AllClear, ShadowUnclaimed, Records
  <1>4. DownEarned'
    BY DEF DownEarned
  <1> QED
    BY <1>1, <1>2, <1>3, <1>4

\* A check that goes idle, or on without an incident, stays grounded.
LEMMA Moves ==
    ASSUME IncidentInv, NEW w \in Checker, NEW j \in Job,
           j.stage \in {"lines", "handle", "capture"} =>
               /\ j.incident \in Incident
               /\ incident[j.incident].status # "absent"
               /\ incident[j.incident].source = "monitor",
           check' = [check EXCEPT ![w] = j],
           UNCHANGED <<monitor, incident, intents, evidence, deletion, now,
                       claims, late, slateAt, edits>>,
           crashes' \in Nat
    PROVE  IncidentInv'
  <1>1. check' \in [Checker -> Job]
    BY DEF IncidentInv, TypeOK
  <1>2. Grounded'
    BY DEF IncidentInv, TypeOK, Grounded
  <1> QED
    BY <1>1, <1>2, CheckOnly

\* A check that starts remembers the monitor's row, and touches nothing.
LEMMA StartCheckInv ==
    ASSUME IncidentInv, NEW w \in Checker, StartCheck(w) PROVE IncidentInv'
  <1> USE IncidentConstants
  <1> DEFINE s == [status |-> monitor.status, window |-> monitor.window,
                   firstFailureAt |-> monitor.firstFailureAt]
             j == [At("probing", NoIncident) EXCEPT !.seen = s]
  <1>1. s \in Seen
    BY DEF IncidentInv, TypeOK, MonitorRow, Seen
  <1>2. j \in Job /\ j.stage = "probing"
    BY <1>1, IdleTyped DEF Job, At, Stage
  <1>3. check' = [check EXCEPT ![w] = j] /\ crashes' \in Nat
    BY DEF StartCheck, IncidentInv, TypeOK
  <1> HIDE DEF j
  <1> QED
    BY <1>2, <1>3, Moves DEF StartCheck

\* A check that gives up, is refused or lost, or dies with its worker.
LEMMA IdleInv ==
    ASSUME IncidentInv, NEW w \in Checker,
           RecordNothing(w) \/ OpenRefused(w) \/ ClaimLost(w) \/ Crash(w)
    PROVE  IncidentInv'
  <1> USE IncidentConstants
  <1>1. CASE RecordNothing(w)
    <2>1. Idle \in Job /\ Idle.stage = "idle" /\ crashes' \in Nat
      BY <1>1, IdleTyped DEF Idle, At, Stage, RecordNothing, IncidentInv, TypeOK
    <2> QED
      BY <1>1, <2>1, Moves DEF RecordNothing
  <1>2. CASE OpenRefused(w)
    <2> DEFINE j == At("find", NoIncident)
    <2>1. j \in Job /\ j.stage = "find" /\ crashes' \in Nat
      BY <1>2, IdleTyped DEF At, Stage, OpenRefused, IncidentInv, TypeOK
    <2>2. check' = [check EXCEPT ![w] = j]
      BY <1>2 DEF OpenRefused
    <2> HIDE DEF j
    <2> QED
      BY <1>2, <2>1, <2>2, Moves DEF OpenRefused
  <1>3. CASE ClaimLost(w)
    <2> DEFINE j == [check[w] EXCEPT !.stage = "capture"]
    <2>1. check[w] \in Job
      BY DEF IncidentInv, TypeOK
    <2>2. j \in Job /\ j.incident = check[w].incident
      BY <2>1 DEF Job, Stage
    <2>3. check' = [check EXCEPT ![w] = j] /\ crashes' \in Nat
      BY <1>3 DEF ClaimLost, IncidentInv, TypeOK
    <2>4. /\ j.incident \in Incident
          /\ incident[j.incident].status # "absent"
          /\ incident[j.incident].source = "monitor"
      BY <1>3, <2>2 DEF ClaimLost, IncidentInv, Grounded
    <2> HIDE DEF j
    <2> QED
      BY <1>3, <2>2, <2>3, <2>4, Moves DEF ClaimLost
  <1>4. CASE Crash(w)
    <2>1. Idle \in Job /\ Idle.stage = "idle" /\ crashes' \in Nat
      BY <1>4, IdleTyped DEF Idle, At, Stage, Crash, IncidentInv, TypeOK
    <2> QED
      BY <1>4, <2>1, Moves DEF Crash
  <1> QED
    BY <1>1, <1>2, <1>3, <1>4

\* The repair of an unhandled incident takes one that exists, or none.
LEMMA FindInv ==
    ASSUME IncidentInv, NEW w \in Checker, FindUnhandledAutoIncident(w)
    PROVE  IncidentInv'
  <1> USE IncidentConstants
  <1>0. crashes' \in Nat
    BY DEF FindUnhandledAutoIncident, IncidentInv, TypeOK
  <1>1. CASE check' = [check EXCEPT ![w] = Idle]
    <2>1. Idle \in Job /\ Idle.stage = "idle"
      BY IdleTyped DEF Idle, At, Stage
    <2> QED
      BY <1>0, <1>1, <2>1, Moves DEF FindUnhandledAutoIncident
  <1>2. ASSUME NEW i \in Incident, Unhandled(i),
               check' = [check EXCEPT ![w] = At("handle", i)]
        PROVE  IncidentInv'
    <2> DEFINE j == At("handle", i)
    <2>1. j \in Job /\ j.incident = i
      BY IdleTyped DEF At, Stage
    <2>2. incident[i].status # "absent" /\ incident[i].source = "monitor"
      BY <1>2 DEF Unhandled, AutoActive, Active, ActiveStatus
    <2>3. check' = [check EXCEPT ![w] = j]
      BY <1>2
    <2> HIDE DEF j
    <2> QED
      BY <1>0, <2>1, <2>2, <2>3, Moves DEF FindUnhandledAutoIncident
  <1> QED
    BY <1>1, <1>2 DEF FindUnhandledAutoIncident

-----------------------------------------------------------------------------
\* The observation: a failure run starts now or goes on from the row's own.
LEMMA RunEarned ==
    ASSUME IncidentInv, NEW o \in Outcome, NEW seen \in Seen,
           seen.firstFailureAt = monitor.firstFailureAt,
           NEW first, first = AdvanceFailureRun(seen.firstFailureAt, o.verdict, now),
           NEW status, status = DeriveStatus(o.verdict, seen.window, first, seen.status, now)
    PROVE  /\ first \in Time
           /\ first # Never => first >= slateAt
           /\ status \in MonitorStatus
           /\ status = "down" => first # Never
  <1> USE IncidentConstants
  <1>1. /\ now \in Nat /\ slateAt \in Nat /\ slateAt <= now
        /\ monitor.firstFailureAt \in Nat \cup {Never}
        /\ monitor.firstFailureAt # Never => monitor.firstFailureAt >= slateAt
    BY DEF IncidentInv, TypeOK, MonitorRow, Time, DownEarned
  <1>2. o.verdict \in {"up", "down", "degraded", "indeterminate"}
    BY DEF Outcome, Verdict
  <1>3. seen.status \in MonitorStatus
    BY DEF Seen
  <1>4. CASE o.verdict = "down"
    <2>1. first = IF monitor.firstFailureAt = Never THEN now ELSE monitor.firstFailureAt
      BY <1>4 DEF AdvanceFailureRun
    <2>2. status = "down" \/ status = seen.status
      BY <1>4 DEF DeriveStatus
    <2> QED
      BY <1>1, <1>3, <2>1, <2>2 DEF Time, MonitorStatus
  <1>5. CASE o.verdict = "indeterminate"
    <2>1. first = monitor.firstFailureAt
      BY <1>5 DEF AdvanceFailureRun
    <2>2. status = "unknown"
      BY <1>5 DEF DeriveStatus
    <2> QED
      BY <1>1, <2>1, <2>2 DEF Time, MonitorStatus
  <1>6. CASE o.verdict \in {"up", "degraded"}
    <2>1. first = Never
      BY <1>6 DEF AdvanceFailureRun
    <2>2. status = o.verdict
      BY <1>6 DEF DeriveStatus
    <2> QED
      BY <1>6, <2>1, <2>2 DEF Time, MonitorStatus
  <1> QED
    BY <1>2, <1>4, <1>5, <1>6

\* An outcome that is recorded: the run of failures, the status, what follows.
LEMMA RecordInv ==
    ASSUME IncidentInv, NEW w \in Checker, NEW o \in Outcomes, RecordCheckOutcome(w, o)
    PROVE  IncidentInv'
  <1> USE IncidentConstants
  <1> DEFINE seen == check[w].seen
             first == AdvanceFailureRun(seen.firstFailureAt, o.verdict, now)
             status == DeriveStatus(o.verdict, seen.window, first, seen.status, now)
             j == Consequence(status, o)
  <1>1. seen \in Seen /\ o \in Outcome
    BY DEF IncidentInv, TypeOK, Job
  <1>2. seen.firstFailureAt = monitor.firstFailureAt
    BY DEF RecordCheckOutcome, StillTrue
  <1>3. /\ first \in Time
        /\ first # Never => first >= slateAt
        /\ status \in MonitorStatus
        /\ status = "down" => first # Never
    BY <1>1, <1>2, RunEarned
  <1>4. /\ monitor' = [monitor EXCEPT !.status = status, !.firstFailureAt = first]
        /\ check' = [check EXCEPT ![w] = j]
    BY DEF RecordCheckOutcome
  <1>5. j \in Job /\ j.stage \in {"open", "resolve", "idle"}
    <2>1. o.lines \in BOOLEAN
      BY <1>1 DEF Outcome
    <2>2. [At("open", NoIncident) EXCEPT !.lines = o.lines] \in Job
      BY <2>1, IdleTyped DEF Job, Stage, At
    <2>3. At("resolve", NoIncident) \in Job /\ Idle \in Job
      BY IdleTyped DEF Stage, Idle
    <2> QED
      BY <2>2, <2>3 DEF Consequence, At, Idle
  <1> HIDE DEF first, status, j
  <1>6. monitor \in MonitorRow
    BY DEF IncidentInv, TypeOK
  <1>7. /\ monitor' \in MonitorRow
        /\ monitor'.status = status /\ monitor'.firstFailureAt = first
    BY <1>3, <1>4, <1>6 DEF MonitorRow
  <1>8. UNCHANGED <<incident, intents, evidence, deletion, now, claims, late, slateAt,
                    edits, crashes>>
    BY DEF RecordCheckOutcome
  <1>9. TypeOK'
    BY <1>4, <1>5, <1>7, <1>8 DEF IncidentInv, TypeOK
  <1>10. Grounded'
    BY <1>4, <1>5, <1>8 DEF IncidentInv, TypeOK, Grounded
  <1>11. DownEarned'
    BY <1>3, <1>7, <1>8 DEF DownEarned
  <1>12. Blank' /\ (slateAt <= now)' /\ OneActive'
    BY <1>8 DEF IncidentInv, Blank, OneActive, AutoActive, Active
  <1>13. PageOnce' /\ AllClear' /\ ShadowUnclaimed'
    BY <1>8 DEF IncidentInv, PageOnce, AllClear, ShadowUnclaimed, Records
  <1> QED
    BY <1>9, <1>10, <1>11, <1>12, <1>13 DEF IncidentInv

-----------------------------------------------------------------------------
\* What the incidents of the invariant ask of a step that opens none and
\* claims none.
Settled ==
    /\ Grounded /\ Blank /\ OneActive /\ PageOnce /\ AllClear /\ ShadowUnclaimed

\* Rows that evolve without one opening or being claimed keep Settled.
LEMMA Evolves ==
    ASSUME IncidentInv,
           incident' \in [Incident -> IncidentRow],
           \A i \in Incident :
               /\ incident'[i].source = incident[i].source
               /\ incident'[i].shadow = incident[i].shadow
               /\ incident'[i].notified = incident[i].notified
               /\ incident'[i].linked => incident[i].linked
               /\ incident'[i].status = "absent" => incident[i].status = "absent"
               /\ incident'[i].status \in ActiveStatus => incident[i].status \in ActiveStatus
               /\ incident'[i].status = "resolved" /\ incident[i].notified
                    => \/ incident[i].status = "resolved"
                       \/ Records(i, "resolved") \in intents',
           intents \subseteq intents',
           \A n \in intents' : n \in intents \/
               (n.event # "opened" /\ incident[n.incident].status # "absent"),
           UNCHANGED <<claims, late, evidence>>,
           \A w \in Checker : check'[w].stage \in {"lines", "handle", "capture"} =>
               /\ check[w].stage \in {"lines", "handle", "capture"}
               /\ check'[w].incident = check[w].incident
    PROVE  Settled'
  <1>1. Grounded'
    BY DEF IncidentInv, Grounded
  <1>2. Blank'
    BY DEF IncidentInv, Blank
  <1>3. OneActive'
    BY DEF IncidentInv, OneActive, AutoActive, Active
  <1>4. \A i \in Incident : Records(i, "opened") \in intents' <=> Records(i, "opened") \in intents
    BY DEF Records
  <1>5. PageOnce'
    BY <1>4 DEF IncidentInv, PageOnce, Records
  <1>6. AllClear'
    BY DEF IncidentInv, AllClear, Records
  <1>7. ShadowUnclaimed'
    BY <1>4 DEF IncidentInv, ShadowUnclaimed, Records
  <1> QED
    BY <1>1, <1>2, <1>3, <1>5, <1>6, <1>7 DEF Settled

\* What is left to show of a step once Settled is shown.
LEMMA FromSettled ==
    ASSUME TypeOK', Settled', (slateAt <= now)', DownEarned' PROVE IncidentInv'
  BY DEF Settled, IncidentInv

\* The monitor's part, when the step leaves it alone.
LEMMA MonitorKept ==
    ASSUME IncidentInv, UNCHANGED <<monitor, now, slateAt>>
    PROVE  (slateAt <= now)' /\ DownEarned'
  BY DEF IncidentInv, DownEarned

\* A check that moves a stage on stays typed, with its incident.
LEMMA ShortStages ==
    ASSUME TypeOK, NEW w \in Checker, NEW s \in Stage,
           check' = [check EXCEPT ![w].stage = s]
    PROVE  /\ check' \in [Checker -> Job]
           /\ \A v \in Checker : /\ check'[v].incident = check[v].incident
                                 /\ v # w => check'[v] = check[v]
  <1>1. check[w] \in Job
    BY DEF TypeOK
  <1>2. [check[w] EXCEPT !.stage = s] \in Job
    BY <1>1 DEF Job
  <1>3. check' = [check EXCEPT ![w] = [check[w] EXCEPT !.stage = s]]
    BY DEF TypeOK
  <1> QED
    BY <1>1, <1>2, <1>3 DEF TypeOK, Job

\* A line in an incident's timeline, and the check moves on.
LEMMA MarkInv ==
    ASSUME IncidentInv, NEW w \in Checker, NEW s \in {"handle", "capture"},
           check[w].stage \in {"lines", "handle"},
           NEW k, k = check[w].incident,
           incident' = [incident EXCEPT ![k].system = TRUE],
           check' = [check EXCEPT ![w].stage = s],
           UNCHANGED <<monitor, intents, evidence, deletion, now,
                       claims, late, slateAt, edits, crashes>>
    PROVE  IncidentInv'
  <1>0. TypeOK /\ k \in Incident /\ incident[k] \in IncidentRow
    BY DEF IncidentInv, TypeOK, Grounded
  <1>1. [incident[k] EXCEPT !.system = TRUE] \in IncidentRow
    BY <1>0 DEF IncidentRow
  <1>2. incident' = [incident EXCEPT ![k] = [incident[k] EXCEPT !.system = TRUE]]
    BY <1>0 DEF TypeOK
  <1>3. incident' \in [Incident -> IncidentRow]
    BY <1>0, <1>1, <1>2 DEF TypeOK
  <1>4. /\ check' \in [Checker -> Job]
        /\ \A v \in Checker : /\ check'[v].incident = check[v].incident
                              /\ v # w => check'[v] = check[v]
    BY <1>0, ShortStages DEF Stage
  <1>5. Settled'
    <2>1. \A i \in Incident :
               /\ incident'[i].source = incident[i].source
               /\ incident'[i].shadow = incident[i].shadow
               /\ incident'[i].notified = incident[i].notified
               /\ incident'[i].linked = incident[i].linked
               /\ incident'[i].status = incident[i].status
      BY <1>0, <1>2 DEF TypeOK, IncidentRow
    <2> QED
      BY <1>3, <1>4, <2>1, Evolves
  <1>6. TypeOK'
    BY <1>0, <1>3, <1>4 DEF TypeOK
  <1> QED
    BY <1>5, <1>6, MonitorKept, FromSettled

\* The steps that only add such a line.
LEMMA MarksInv ==
    ASSUME IncidentInv, NEW w \in Checker,
           RecordDockerLines(w) \/ HandleShadow(w) \/ HoldAlert(w)
    PROVE  IncidentInv'
  <1>1. CASE RecordDockerLines(w)
    BY <1>1, MarkInv DEF RecordDockerLines
  <1>2. CASE HandleShadow(w) \/ HoldAlert(w)
    BY <1>2, MarkInv DEF HandleShadow, HoldAlert, Mark
  <1> QED
    BY <1>1, <1>2

-----------------------------------------------------------------------------
\* The claim: of an incident a monitor opened, live, and claimed by nobody.
LEMMA ClaimInv ==
    ASSUME IncidentInv, NEW k \in Incident, Claim(k),
           incident[k].status # "absent", incident[k].source = "monitor",
           ~ incident[k].shadow,
           check' \in [Checker -> Job],
           \A w \in Checker : check'[w].stage \in {"lines", "handle", "capture"} =>
               /\ check[w].stage \in {"lines", "handle", "capture"}
               /\ check'[w].incident = check[w].incident,
           UNCHANGED <<monitor, evidence, deletion, now, slateAt, edits, crashes>>
    PROVE  IncidentInv'
  <1> DEFINE row == [incident[k] EXCEPT !.notified = TRUE]
  <1>1. incident[k] \in IncidentRow /\ ~ incident[k].notified
    BY DEF IncidentInv, TypeOK, Claim, Claimable
  <1>2. /\ row \in IncidentRow
        /\ row.notified = TRUE /\ row.status = incident[k].status
        /\ row.source = incident[k].source /\ row.linked = incident[k].linked
        /\ row.shadow = incident[k].shadow
    BY <1>1 DEF IncidentRow
  <1>3. incident' = [incident EXCEPT ![k] = row]
    BY DEF Claim, IncidentInv, TypeOK
  <1> HIDE DEF row
  <1>4. claims[k] = 0 /\ claims' = [claims EXCEPT ![k] = 1] /\ claims \in [Incident -> Nat]
    <2>1. claims[k] \in Nat /\ claims[k] <= 1 /\ claims[k] # 1
      BY <1>1 DEF IncidentInv, TypeOK, PageOnce
    <2>2. claims[k] = 0
      BY <2>1
    <2>3. claims' = [claims EXCEPT ![k] = claims[k] + 1] /\ claims \in [Incident -> Nat]
      BY DEF Claim, IncidentInv, TypeOK
    <2> QED
      BY <2>2, <2>3
  <1>5. /\ intents' = intents \cup {Records(k, "opened")}
        /\ intents \subseteq intents'
        /\ Records(k, "opened") \in Intent
    BY DEF Claim, Records, Intent, Event
  <1>6. late \subseteq late' /\ late' \subseteq Incident
        /\ (incident[k].status = "resolved" => k \in late')
    BY DEF Claim, Active, ActiveStatus, IncidentInv, TypeOK
  <1>7. TypeOK'
    <2>1. incident' \in [Incident -> IncidentRow]
      BY <1>2, <1>3 DEF IncidentInv, TypeOK
    <2>2. intents' \subseteq Intent
      BY <1>5 DEF IncidentInv, TypeOK
    <2>3. claims' \in [Incident -> Nat]
      BY <1>4
    <2> QED
      BY <1>6, <2>1, <2>2, <2>3 DEF IncidentInv, TypeOK
  <1>8. Grounded'
    BY <1>2, <1>3 DEF IncidentInv, TypeOK, Grounded
  <1>9. Blank'
    <2> SUFFICES ASSUME NEW i \in Incident, incident'[i].status = "absent"
                 PROVE  /\ claims'[i] = 0 /\ ~ incident'[i].notified /\ ~ incident'[i].shadow
                        /\ \A n \in intents' : n.incident # i
                        /\ \A e \in evidence' : e.incident # i
      BY DEF Blank
    <2>1. i # k
      BY <1>2, <1>3 DEF IncidentInv, TypeOK
    <2>2. incident'[i] = incident[i] /\ claims'[i] = claims[i]
      BY <2>1, <1>3, <1>4 DEF IncidentInv, TypeOK
    <2>3. \A n \in intents' : n \in intents \/ n.incident = k
      BY <1>5 DEF Records
    <2> QED
      BY <2>1, <2>2, <2>3 DEF IncidentInv, Blank
  <1>10. OneActive'
    BY <1>2, <1>3 DEF IncidentInv, TypeOK, OneActive, AutoActive, Active
  <1>11. \A i \in Incident : i # k =>
            /\ incident'[i] = incident[i] /\ claims'[i] = claims[i]
            /\ \A e \in Event : Records(i, e) \in intents' <=> Records(i, e) \in intents
    BY <1>3, <1>4, <1>5 DEF IncidentInv, TypeOK, Records
  <1>12. PageOnce'
    <2> SUFFICES ASSUME NEW i \in Incident, incident'[i].source = "monitor"
                 PROVE  /\ claims'[i] <= 1
                        /\ incident'[i].notified <=> claims'[i] = 1
                        /\ incident'[i].notified <=> Records(i, "opened") \in intents'
      BY DEF PageOnce, Records
    <2>1. CASE i = k
      BY <2>1, <1>2, <1>3, <1>4, <1>5 DEF IncidentInv, TypeOK
    <2>2. CASE i # k
      BY <2>2, <1>11 DEF IncidentInv, PageOnce, Event
    <2> QED
      BY <2>1, <2>2
  <1>13. AllClear'
    <2> SUFFICES ASSUME NEW i \in Incident, incident'[i].notified,
                        incident'[i].status = "resolved", i \notin late'
                 PROVE  Records(i, "resolved") \in intents'
      BY DEF AllClear, Records
    <2>1. i # k
      BY <1>2, <1>3, <1>6 DEF IncidentInv, TypeOK
    <2> QED
      BY <2>1, <1>5, <1>6, <1>11 DEF IncidentInv, AllClear
  <1>14. ShadowUnclaimed'
    <2> SUFFICES ASSUME NEW i \in Incident, incident'[i].shadow
                 PROVE  /\ ~ incident'[i].notified
                        /\ Records(i, "opened") \notin intents'
                        /\ [incident |-> i, dialled |-> TRUE] \notin evidence
      BY DEF ShadowUnclaimed, Records
    <2>1. i # k
      BY <1>2, <1>3 DEF IncidentInv, TypeOK
    <2> QED
      BY <2>1, <1>11 DEF IncidentInv, ShadowUnclaimed, Event
  <1>15. Settled'
    BY <1>8, <1>9, <1>10, <1>12, <1>13, <1>14 DEF Settled
  <1> QED
    BY <1>7, <1>15, MonitorKept, FromSettled

\* The page, claimed by the check or when a hold is released.
LEMMA ClaimsInv ==
    ASSUME IncidentInv,
           \/ \E w \in Checker : ClaimOpenedNotifications(w)
           \/ \E i \in Incident : ReleaseHold(i)
    PROVE  IncidentInv'
  <1>1. ASSUME NEW w \in Checker, ClaimOpenedNotifications(w) PROVE IncidentInv'
    <2> DEFINE k == check[w].incident
    <2>1. /\ k \in Incident /\ incident[k].status # "absent"
          /\ incident[k].source = "monitor" /\ ~ incident[k].shadow
      BY <1>1 DEF ClaimOpenedNotifications, IncidentInv, Grounded, Silent
    <2>2. /\ check' \in [Checker -> Job]
          /\ \A v \in Checker : /\ check'[v].incident = check[v].incident
                                /\ v # w => check'[v] = check[v]
      BY <1>1, ShortStages DEF ClaimOpenedNotifications, IncidentInv, Stage
    <2>3. check[w].stage = "handle" /\ Claim(k)
      BY <1>1 DEF ClaimOpenedNotifications
    <2>4. UNCHANGED <<monitor, evidence, deletion, now, slateAt, edits, crashes>>
      BY <1>1 DEF ClaimOpenedNotifications
    <2> HIDE DEF k
    <2> QED
      BY <2>1, <2>2, <2>3, <2>4, ClaimInv
  <1>2. ASSUME NEW i \in Incident, ReleaseHold(i) PROVE IncidentInv'
    BY <1>2, ClaimInv DEF ReleaseHold, IncidentInv, TypeOK
  <1> QED
    BY <1>1, <1>2

-----------------------------------------------------------------------------
\* A new incident.
LEMMA NewInv ==
    ASSUME IncidentInv, NEW k \in Incident, incident[k].status = "absent",
           NEW row \in IncidentRow, row.status = "investigating", ~ row.notified,
           incident' = [incident EXCEPT ![k] = row],
           \/ /\ row.source = "monitor" /\ intents' = intents /\ NoneActive
           \/ /\ row.source = "manual" /\ ~ row.shadow
              /\ intents' = intents \cup {Records(k, "opened")},
           check' \in [Checker -> Job],
           \A w \in Checker : check'[w].stage \in {"lines", "handle", "capture"} =>
               \/ /\ check[w].stage \in {"lines", "handle", "capture"}
                  /\ check'[w].incident = check[w].incident
               \/ row.source = "monitor" /\ check'[w].incident = k,
           edits' \in Nat,
           UNCHANGED <<monitor, evidence, deletion, now, claims, late, slateAt, crashes>>
    PROVE  IncidentInv'
  <1>1. /\ claims[k] = 0
        /\ \A n \in intents : n.incident # k
        /\ \A e \in evidence : e.incident # k
    BY DEF IncidentInv, Blank
  <1>2. \A i \in Incident : i # k =>
            /\ incident'[i] = incident[i]
            /\ \A e \in Event : Records(i, e) \in intents' <=> Records(i, e) \in intents
    BY DEF IncidentInv, TypeOK, Records
  <1>3. incident'[k] = row
    BY DEF IncidentInv, TypeOK
  <1>4. TypeOK'
    <2>1. Records(k, "opened") \in Intent
      BY DEF Records, Intent, Event
    <2> QED
      BY <2>1 DEF IncidentInv, TypeOK
  <1>5. Grounded'
    BY <1>2, <1>3 DEF IncidentInv, Grounded
  <1>6. Blank'
    BY <1>2, <1>3 DEF IncidentInv, Blank, Records
  <1>7. OneActive'
    BY <1>2, <1>3 DEF IncidentInv, OneActive, NoneActive, AutoActive, Active
  <1>8. PageOnce'
    <2> SUFFICES ASSUME NEW i \in Incident, incident'[i].source = "monitor"
                 PROVE  /\ claims[i] <= 1
                        /\ incident'[i].notified <=> claims[i] = 1
                        /\ incident'[i].notified <=> Records(i, "opened") \in intents'
      BY DEF PageOnce, Records
    <2>1. CASE i = k
      BY <2>1, <1>1, <1>3 DEF Records
    <2>2. CASE i # k
      BY <2>2, <1>2 DEF IncidentInv, PageOnce, Event
    <2> QED
      BY <2>1, <2>2
  <1>9. AllClear'
    <2> SUFFICES ASSUME NEW i \in Incident, incident'[i].notified,
                        incident'[i].status = "resolved", i \notin late
                 PROVE  Records(i, "resolved") \in intents'
      BY DEF AllClear, Records
    <2>1. i # k
      BY <1>3
    <2> QED
      BY <2>1, <1>2 DEF IncidentInv, AllClear, Event
  <1>10. ShadowUnclaimed'
    <2> SUFFICES ASSUME NEW i \in Incident, incident'[i].shadow
                 PROVE  /\ ~ incident'[i].notified
                        /\ Records(i, "opened") \notin intents'
                        /\ [incident |-> i, dialled |-> TRUE] \notin evidence
      BY DEF ShadowUnclaimed, Records
    <2>1. CASE i = k
      BY <2>1, <1>1, <1>3 DEF Records
    <2>2. CASE i # k
      BY <2>2, <1>2 DEF IncidentInv, ShadowUnclaimed, Event
    <2> QED
      BY <2>1, <2>2
  <1>11. Settled'
    BY <1>5, <1>6, <1>7, <1>8, <1>9, <1>10 DEF Settled
  <1> QED
    BY <1>4, <1>11, MonitorKept, FromSettled

\* openMonitorIncident opens one only while none is active.
LEMMA OpenInv ==
    ASSUME IncidentInv, NEW w \in Checker, NEW k \in Incident, OpenMonitorIncident(w, k)
    PROVE  IncidentInv'
  <1> DEFINE j == At(IF check[w].lines THEN "lines" ELSE "handle", k)
             row == Opened
  <1>1. j \in Job /\ j.incident = k
    BY IdleTyped DEF At, Stage
  <1>2. monitor.shadow \in BOOLEAN
    BY DEF IncidentInv, TypeOK, MonitorRow
  <1>3. /\ row \in IncidentRow /\ row.status = "investigating"
        /\ ~ row.notified /\ row.source = "monitor"
    BY <1>2 DEF Opened, Absent, IncidentRow, IncidentStatus, ActiveStatus
  <1>4. check' = [check EXCEPT ![w] = j] /\ incident' = [incident EXCEPT ![k] = row]
    BY DEF OpenMonitorIncident
  <1>5. /\ NoneActive /\ incident[k].status = "absent"
        /\ UNCHANGED <<monitor, intents, evidence, deletion, now, claims, late, slateAt,
                       edits, crashes>>
    BY DEF OpenMonitorIncident
  <1> HIDE DEF j, row
  <1>6. check' \in [Checker -> Job] /\ edits' \in Nat
    BY <1>1, <1>4, <1>5 DEF IncidentInv, TypeOK
  <1>7. \A v \in Checker :
            \/ check'[v] = check[v]
            \/ check'[v].incident = k
    BY <1>1, <1>4 DEF IncidentInv, TypeOK
  <1> QED
    BY <1>3, <1>4, <1>5, <1>6, <1>7, NewInv

\* An incident an operator creates is paged in the same transaction.
LEMMA CreateInv ==
    ASSUME IncidentInv, NEW k \in Incident, CreateIncident(k) PROVE IncidentInv'
  <1> DEFINE row == [Absent EXCEPT !.status = "investigating", !.source = "manual"]
  <1>1. /\ row \in IncidentRow /\ row.status = "investigating"
        /\ ~ row.notified /\ row.source = "manual" /\ ~ row.shadow
    BY DEF Absent, IncidentRow, IncidentStatus, ActiveStatus
  <1>2. /\ incident' = [incident EXCEPT ![k] = row] /\ incident[k].status = "absent"
        /\ intents' = intents \cup {Records(k, "opened")}
        /\ UNCHANGED <<monitor, evidence, check, deletion, now, claims, late, slateAt, crashes>>
    BY DEF CreateIncident
  <1>3. check' \in [Checker -> Job] /\ edits' \in Nat
    BY <1>2 DEF CreateIncident, Edit, IncidentInv, TypeOK
  <1> HIDE DEF row
  <1> QED
    BY <1>1, <1>2, <1>3, NewInv

\* A capture after the page; in shadow it dials nothing.
LEMMA CaptureInv ==
    ASSUME IncidentInv, NEW w \in Checker, CaptureIncidentEvidence(w)
    PROVE  IncidentInv'
  <1> USE IncidentConstants
  <1> DEFINE k == check[w].incident
  <1>1. k \in Incident /\ incident[k].status # "absent"
    BY DEF CaptureIncidentEvidence, IncidentInv, Grounded
  <1>2. \A e \in evidence' : e \in evidence \/
            /\ e \in [incident : Incident, dialled : BOOLEAN]
            /\ e.incident = k /\ (incident[k].shadow => ~ e.dialled)
    BY <1>1 DEF CaptureIncidentEvidence
  <1>3. Idle \in Job /\ Idle.stage = "idle"
    BY IdleTyped DEF Idle, At, Stage
  <1>4. /\ check' = [check EXCEPT ![w] = Idle]
        /\ UNCHANGED <<monitor, incident, intents, deletion, now,
                       claims, late, slateAt, edits, crashes>>
    BY DEF CaptureIncidentEvidence
  <1> HIDE DEF k
  <1>5. TypeOK'
    BY <1>2, <1>3, <1>4 DEF IncidentInv, TypeOK
  <1>6. Grounded'
    BY <1>3, <1>4 DEF IncidentInv, TypeOK, Grounded
  <1>7. Blank'
    BY <1>1, <1>2, <1>4 DEF IncidentInv, Blank
  <1>8. OneActive' /\ PageOnce' /\ AllClear'
    BY <1>4 DEF IncidentInv, OneActive, AutoActive, Active, PageOnce, AllClear, Records
  <1>9. ShadowUnclaimed'
    BY <1>2, <1>4 DEF IncidentInv, ShadowUnclaimed, Records
  <1>10. Settled'
    BY <1>6, <1>7, <1>8, <1>9 DEF Settled
  <1> QED
    BY <1>4, <1>5, <1>10, MonitorKept, FromSettled

-----------------------------------------------------------------------------
\* Resolutions and operators' edits: instances of Evolves.
LEMMA ResolvedRow ==
    ASSUME NEW r \in IncidentRow, NEW q, q = [r EXCEPT !.status = "resolved"]
    PROVE  /\ q \in IncidentRow /\ q.source = r.source /\ q.shadow = r.shadow
           /\ q.notified = r.notified /\ q.linked = r.linked /\ q.status = "resolved"
  BY DEF IncidentRow, IncidentStatus

\* An incident that loses its monitor.
LEMMA UnlinkedRow ==
    ASSUME NEW r \in IncidentRow, NEW q, q = [r EXCEPT !.linked = FALSE]
    PROVE  /\ q \in IncidentRow /\ q.source = r.source /\ q.shadow = r.shadow
           /\ q.notified = r.notified /\ ~ q.linked /\ q.status = r.status
  BY DEF IncidentRow

\* An incident closed with its monitor.
LEMMA DeletedRow ==
    ASSUME NEW r \in IncidentRow, NEW q,
           q = [r EXCEPT !.status = "resolved", !.system = TRUE, !.linked = FALSE]
    PROVE  /\ q \in IncidentRow /\ q.source = r.source /\ q.shadow = r.shadow
           /\ q.notified = r.notified /\ ~ q.linked /\ q.status = "resolved"
  BY DEF IncidentRow, IncidentStatus

\* An incident whose timeline gains a line.
LEMMA MarkedRow ==
    ASSUME NEW r \in IncidentRow, NEW b \in BOOLEAN, NEW q, q = [r EXCEPT !.system = b]
    PROVE  /\ q \in IncidentRow /\ q.source = r.source /\ q.shadow = r.shadow
           /\ q.notified = r.notified /\ q.linked = r.linked /\ q.status = r.status
  BY DEF IncidentRow

\* Closing incidents owes an all-clear for each that was paged, and no page.
LEMMA AllClearsOf ==
    ASSUME IncidentInv, NEW closed \in SUBSET Incident,
           intents' = intents \cup AllClears(closed)
    PROVE  /\ intents' \subseteq Intent /\ intents \subseteq intents'
           /\ \A i \in closed : incident[i].notified => Records(i, "resolved") \in intents'
           /\ \A n \in intents' : n \in intents \/
                 (n.event # "opened" /\ incident[n.incident].status # "absent")
  <1>1. \A i \in closed : Records(i, "resolved") \in Intent
    BY DEF Records, Intent, Event
  <1>2. \A i \in closed : incident[i].notified => incident[i].status # "absent"
    BY DEF IncidentInv, Blank
  <1>3. intents' \subseteq Intent
    BY <1>1 DEF AllClears, IncidentInv, TypeOK
  <1>4. \A i \in closed : incident[i].notified => Records(i, "resolved") \in intents'
    BY DEF AllClears
  <1>5. \A n \in intents' : n \in intents \/
                 (n.event # "opened" /\ incident[n.incident].status # "absent")
    BY <1>2 DEF AllClears, Records
  <1> QED
    BY <1>3, <1>4, <1>5

\* A recovery closes every automatic incident with its all-clear.
LEMMA ResolveInv ==
    ASSUME IncidentInv, NEW w \in Checker, ResolveMonitorIncidents(w)
    PROVE  IncidentInv'
  <1> USE IncidentConstants
  <1> DEFINE open == {i \in Incident : AutoActive(i)}
  <1>1. /\ open \in SUBSET Incident
        /\ \A i \in open : incident[i].status \in ActiveStatus
        /\ incident' = Close(open)
        /\ intents' = intents \cup AllClears(open)
        /\ check' = [check EXCEPT ![w] = Idle]
        /\ UNCHANGED <<monitor, evidence, deletion, now, claims, late, slateAt, edits, crashes>>
    BY DEF ResolveMonitorIncidents, AutoActive, Active
  <1> HIDE DEF open
  <1>2. incident \in [Incident -> IncidentRow]
    BY DEF IncidentInv, TypeOK
  <1>3. \A i \in open : [incident[i] EXCEPT !.status = "resolved"] \in IncidentRow
    BY <1>1, <1>2 DEF IncidentRow, IncidentStatus
  <1>4. incident' \in [Incident -> IncidentRow]
    BY <1>1, <1>2, <1>3 DEF Close
  <1>5. \A i \in Incident :
            /\ i \in open => incident'[i] = [incident[i] EXCEPT !.status = "resolved"]
            /\ i \notin open => incident'[i] = incident[i]
    BY <1>1 DEF Close
  <1>6. \A i \in Incident :
            /\ incident'[i].source = incident[i].source
            /\ incident'[i].shadow = incident[i].shadow
            /\ incident'[i].notified = incident[i].notified
            /\ incident'[i].linked = incident[i].linked
            /\ incident'[i].status = IF i \in open THEN "resolved" ELSE incident[i].status
    <2> TAKE i \in Incident
    <2>1. CASE i \in open
      BY <2>1, <1>2, <1>5, ResolvedRow
    <2>2. CASE i \notin open
      BY <2>2, <1>5
    <2> QED
      BY <2>1, <2>2
  <1>7. Idle \in Job /\ Idle.stage = "idle"
    BY IdleTyped DEF Idle, At, Stage
  <1>8. check' \in [Checker -> Job]
        /\ \A v \in Checker : check'[v] = check[v] \/ check'[v].stage = "idle"
    BY <1>1, <1>7 DEF IncidentInv, TypeOK
  <1>9. /\ intents' \subseteq Intent /\ intents \subseteq intents'
        /\ \A i \in open : incident[i].notified => Records(i, "resolved") \in intents'
        /\ \A n \in intents' : n \in intents \/
              (n.event # "opened" /\ incident[n.incident].status # "absent")
    BY <1>1, AllClearsOf
  <1>10. Settled'
    BY <1>1, <1>4, <1>6, <1>8, <1>9, Evolves DEF ActiveStatus
  <1>11. TypeOK'
    BY <1>1, <1>4, <1>8, <1>9 DEF IncidentInv, TypeOK
  <1> QED
    BY <1>1, <1>10, <1>11, MonitorKept, FromSettled

\* An acknowledgement changes neither status nor page.
LEMMA AcknowledgeInv ==
    ASSUME IncidentInv, NEW k \in Incident, AcknowledgeIncident(k) PROVE IncidentInv'
  <1> DEFINE row == [incident[k] EXCEPT !.acked = TRUE, !.system = TRUE]
  <1>1. incident \in [Incident -> IncidentRow] /\ edits' \in Nat
    BY DEF IncidentInv, TypeOK, AcknowledgeIncident, Edit
  <1>2. /\ row \in IncidentRow
        /\ row.source = incident[k].source /\ row.shadow = incident[k].shadow
        /\ row.notified = incident[k].notified /\ row.linked = incident[k].linked
        /\ row.status = incident[k].status
    BY <1>1 DEF IncidentRow
  <1>3. /\ incident' = [incident EXCEPT ![k] = row]
        /\ UNCHANGED <<monitor, intents, evidence, check, deletion, now,
                       claims, late, slateAt, crashes>>
    BY <1>1 DEF AcknowledgeIncident
  <1> HIDE DEF row
  <1>4. incident' \in [Incident -> IncidentRow]
    BY <1>1, <1>2, <1>3
  <1>5. \A i \in Incident :
            /\ incident'[i].source = incident[i].source
            /\ incident'[i].shadow = incident[i].shadow
            /\ incident'[i].notified = incident[i].notified
            /\ incident'[i].linked = incident[i].linked
            /\ incident'[i].status = incident[i].status
    BY <1>1, <1>2, <1>3
  <1>6. Settled'
    BY <1>3, <1>4, <1>5, Evolves
  <1>7. TypeOK'
    BY <1>1, <1>3, <1>4 DEF IncidentInv, TypeOK
  <1> QED
    BY <1>3, <1>6, <1>7, MonitorKept, FromSettled

\* An operator moves an active incident on, or resolves it.
LEMMA ChangeStatusInv ==
    ASSUME IncidentInv, NEW k \in Incident, NEW from \in ActiveStatus,
           NEW to \in OperatorStatus, ChangeIncidentStatus(k, from, to)
    PROVE  IncidentInv'
  <1> USE IncidentConstants
  <1> DEFINE row == [incident[k] EXCEPT !.status = to]
             n == Records(k, IF to = "resolved" THEN "resolved" ELSE "updated")
  <1>1. incident \in [Incident -> IncidentRow] /\ edits' \in Nat
    BY DEF IncidentInv, TypeOK, ChangeIncidentStatus, Edit
  <1>2. to \in IncidentStatus /\ incident[k].status \in ActiveStatus
    BY DEF ChangeIncidentStatus, StillAt, IncidentStatus, ActiveStatus
  <1>3. /\ row \in IncidentRow
        /\ row.source = incident[k].source /\ row.shadow = incident[k].shadow
        /\ row.notified = incident[k].notified /\ row.linked = incident[k].linked
        /\ row.status = to
    BY <1>1, <1>2 DEF IncidentRow
  <1>4. /\ n \in Intent /\ n.incident = k /\ n.event # "opened"
        /\ to = "resolved" => n = Records(k, "resolved")
    BY DEF Records, Intent, Event
  <1>5. /\ incident' = [incident EXCEPT ![k] = row]
        /\ intents' = intents \cup {n}
        /\ UNCHANGED <<monitor, evidence, check, deletion, now, claims, late, slateAt, crashes>>
    BY <1>1 DEF ChangeIncidentStatus
  <1> HIDE DEF row, n
  <1>6. incident' \in [Incident -> IncidentRow]
    BY <1>1, <1>3, <1>5
  <1>7. \A i \in Incident :
            /\ incident'[i].source = incident[i].source
            /\ incident'[i].shadow = incident[i].shadow
            /\ incident'[i].notified = incident[i].notified
            /\ incident'[i].linked = incident[i].linked
            /\ incident'[i].status = IF i = k THEN to ELSE incident[i].status
    BY <1>1, <1>3, <1>5
  <1>8. Settled'
    BY <1>2, <1>4, <1>5, <1>6, <1>7, Evolves DEF IncidentStatus, ActiveStatus
  <1>9. TypeOK'
    BY <1>1, <1>4, <1>5, <1>6 DEF IncidentInv, TypeOK
  <1> QED
    BY <1>5, <1>8, <1>9, MonitorKept, FromSettled

\* An operator's update owes a message of its own.
LEMMA UpdateIncidentInv ==
    ASSUME IncidentInv, NEW k \in Incident, UpdateIncident(k) PROVE IncidentInv'
  <1> DEFINE n == Records(k, "updated")
  <1>1. n \in Intent /\ n.incident = k /\ n.event # "opened"
    BY DEF Records, Intent, Event
  <1>2. /\ intents' = intents \cup {n} /\ incident[k].status # "absent"
        /\ UNCHANGED <<monitor, incident, evidence, check, deletion, now,
                       claims, late, slateAt, crashes>>
    BY DEF UpdateIncident, Active, ActiveStatus
  <1>3. edits' \in Nat
    BY DEF UpdateIncident, Edit, IncidentInv, TypeOK
  <1> HIDE DEF n
  <1>4. incident' \in [Incident -> IncidentRow]
    BY <1>2 DEF IncidentInv, TypeOK
  <1>5. Settled'
    BY <1>1, <1>2, <1>4, Evolves
  <1>6. TypeOK'
    BY <1>1, <1>2, <1>3 DEF IncidentInv, TypeOK
  <1> QED
    BY <1>2, <1>5, <1>6, MonitorKept, FromSettled

-----------------------------------------------------------------------------
\* Steps that leave the incidents alone.
LEMMA SameIncidents ==
    ASSUME IncidentInv, UNCHANGED <<incident, intents, evidence, check, claims, late>>
    PROVE  Settled'
  <1>1. Grounded' /\ Blank' /\ OneActive'
    BY DEF IncidentInv, Grounded, Blank, OneActive, AutoActive, Active
  <1>2. PageOnce' /\ AllClear' /\ ShadowUnclaimed'
    BY DEF IncidentInv, PageOnce, AllClear, ShadowUnclaimed, Records
  <1> QED
    BY <1>1, <1>2 DEF Settled

\* A clean slate forgets the run of failures and the status.
LEMMA SlateTyped ==
    ASSUME NEW row \in MonitorRow, NEW paused \in BOOLEAN
    PROVE  /\ CleanSlate(row, paused) \in MonitorRow
           /\ CleanSlate(row, paused).firstFailureAt = Never
           /\ CleanSlate(row, paused).status = "unknown"
  BY DEF CleanSlate, MonitorRow, MonitorStatus, Time

\* Pausing, editing, the start of a deletion, and time.
LEMMA MonitorEditsInv ==
    ASSUME IncidentInv,
           \/ \E paused \in BOOLEAN : SetMonitorPaused(paused)
           \/ \E window \in Windows : UpdateMonitor(window)
           \/ DeleteMonitorBegin
           \/ Tick
    PROVE  IncidentInv'
  <1> USE IncidentConstants
  <1>0. /\ monitor \in MonitorRow /\ now \in Nat /\ slateAt \in Nat /\ edits \in Nat
        /\ slateAt <= now
    BY DEF IncidentInv, TypeOK
  <1>1. ASSUME NEW paused \in BOOLEAN, SetMonitorPaused(paused) PROVE IncidentInv'
    <2>1. /\ monitor' = CleanSlate(monitor, paused) /\ slateAt' = now
          /\ UNCHANGED <<incident, intents, evidence, check, deletion, now, claims, late, crashes>>
          /\ edits' \in Nat
      BY <1>0, <1>1 DEF SetMonitorPaused, Edit
    <2>2. /\ monitor' \in MonitorRow /\ monitor'.firstFailureAt = Never
          /\ monitor'.status = "unknown"
      BY <1>0, <2>1, SlateTyped
    <2>3. TypeOK'
      BY <1>0, <2>1, <2>2 DEF IncidentInv, TypeOK
    <2>4. DownEarned' /\ (slateAt <= now)'
      BY <1>0, <2>1, <2>2 DEF DownEarned
    <2> QED
      BY <2>1, <2>3, <2>4, SameIncidents, FromSettled
  <1>2. ASSUME NEW window \in Windows, UpdateMonitor(window) PROVE IncidentInv'
    <2>1. /\ monitor' = [monitor EXCEPT !.window = window]
          /\ UNCHANGED <<incident, intents, evidence, check, deletion, now, claims, late,
                         slateAt, crashes>>
          /\ edits' \in Nat
      BY <1>0, <1>2 DEF UpdateMonitor, Edit
    <2>2. /\ monitor' \in MonitorRow /\ monitor'.firstFailureAt = monitor.firstFailureAt
          /\ monitor'.status = monitor.status
      BY <1>0, <2>1 DEF MonitorRow
    <2>3. TypeOK'
      BY <2>1, <2>2 DEF IncidentInv, TypeOK
    <2>4. DownEarned' /\ (slateAt <= now)'
      BY <2>1, <2>2 DEF IncidentInv, DownEarned
    <2> QED
      BY <2>1, <2>3, <2>4, SameIncidents, FromSettled
  <1>3. CASE DeleteMonitorBegin
    <2>1. /\ deletion' \in [begun : BOOLEAN, found : SUBSET Incident]
          /\ UNCHANGED <<monitor, incident, intents, evidence, check, now, claims, late,
                         slateAt, crashes>>
          /\ edits' \in Nat
      BY <1>0, <1>3 DEF DeleteMonitorBegin, Edit
    <2>2. TypeOK'
      BY <2>1 DEF IncidentInv, TypeOK
    <2> QED
      BY <2>1, <2>2, MonitorKept, SameIncidents, FromSettled
  <1>4. CASE Tick
    <2>1. /\ now' = now + 1
          /\ UNCHANGED <<monitor, incident, intents, evidence, check, deletion,
                         claims, late, slateAt, edits, crashes>>
      BY <1>4 DEF Tick
    <2>2. TypeOK'
      BY <1>0, <2>1 DEF IncidentInv, TypeOK
    <2>3. DownEarned' /\ (slateAt <= now)'
      BY <1>0, <2>1 DEF IncidentInv, DownEarned
    <2> QED
      BY <2>1, <2>2, <2>3, SameIncidents, FromSettled
  <1> QED
    BY <1>1, <1>2, <1>3, <1>4

-----------------------------------------------------------------------------
\* A deletion closes the incidents it found, and unlinks the rest.
LEMMA DeleteInv ==
    ASSUME IncidentInv, DeleteMonitorCommit PROVE IncidentInv'
  <1> DEFINE found == deletion.found
  <1>1. /\ incident \in [Incident -> IncidentRow] /\ monitor \in MonitorRow
        /\ found \in SUBSET Incident
    BY DEF IncidentInv, TypeOK
  <1>2. /\ \A i \in Incident : incident'[i] =
              IF i \in found
              THEN [incident[i] EXCEPT !.status = "resolved", !.system = TRUE, !.linked = FALSE]
              ELSE [incident[i] EXCEPT !.linked = FALSE]
        /\ DOMAIN incident' = Incident
        /\ incident' = [i \in Incident |-> incident'[i]]
    BY DEF DeleteMonitorCommit
  <1>3. /\ monitor' = [monitor EXCEPT !.gone = TRUE]
        /\ intents' = intents \cup AllClears(found)
        /\ deletion' = NoDeletion
        /\ UNCHANGED <<evidence, check, now, claims, late, slateAt, edits, crashes>>
    BY DEF DeleteMonitorCommit
  <1> HIDE DEF found
  <1>4. \A i \in Incident :
            /\ incident'[i] \in IncidentRow
            /\ incident'[i].source = incident[i].source
            /\ incident'[i].shadow = incident[i].shadow
            /\ incident'[i].notified = incident[i].notified
            /\ ~ incident'[i].linked
            /\ incident'[i].status = IF i \in found THEN "resolved" ELSE incident[i].status
    <2> TAKE i \in Incident
    <2>0. incident[i] \in IncidentRow
      BY <1>1
    <2>1. CASE i \in found
      BY <2>0, <2>1, <1>2, DeletedRow
    <2>2. CASE i \notin found
      BY <2>0, <2>2, <1>2, UnlinkedRow
    <2> QED
      BY <2>1, <2>2
  <1>5. incident' \in [Incident -> IncidentRow]
    BY <1>2, <1>4
  <1>6. /\ monitor' \in MonitorRow /\ monitor'.firstFailureAt = monitor.firstFailureAt
        /\ monitor'.status = monitor.status
    BY <1>1, <1>3 DEF MonitorRow
  <1>7. /\ intents' \subseteq Intent /\ intents \subseteq intents'
        /\ \A i \in found : incident[i].notified => Records(i, "resolved") \in intents'
        /\ \A n \in intents' : n \in intents \/
              (n.event # "opened" /\ incident[n.incident].status # "absent")
    BY <1>1, <1>3, AllClearsOf
  <1>8. Settled'
    BY <1>3, <1>4, <1>5, <1>7, Evolves DEF ActiveStatus
  <1>9. TypeOK'
    BY <1>3, <1>5, <1>6, <1>7 DEF IncidentInv, TypeOK, NoDeletion
  <1>10. DownEarned' /\ (slateAt <= now)'
    BY <1>3, <1>6 DEF IncidentInv, DownEarned
  <1> QED
    BY <1>8, <1>9, <1>10, FromSettled

\* The end of shadow mode tells nobody, and owes nobody: no shadow incident
\* was ever claimed.
LEMMA EndShadowInv ==
    ASSUME IncidentInv, NEW abandon \in BOOLEAN, EndShadow(abandon) PROVE IncidentInv'
  <1> USE IncidentConstants
  <1> DEFINE open == {i \in Incident : AutoActive(i) /\ incident[i].shadow}
             live == [monitor EXCEPT !.shadow = FALSE]
  <1>1. /\ incident \in [Incident -> IncidentRow] /\ monitor \in MonitorRow
        /\ now \in Nat /\ slateAt \in Nat /\ slateAt <= now /\ edits' \in Nat
    BY DEF IncidentInv, TypeOK, EndShadow, Edit
  <1>2. \A i \in open : ~ incident[i].notified
    BY DEF IncidentInv, ShadowUnclaimed
  <1>3. /\ incident' = [i \in Incident |->
              [Close(open)[i] EXCEPT !.system = Close(open)[i].system \/ i \in open]]
        /\ monitor' = IF abandon THEN CleanSlate(live, TRUE) ELSE live
        /\ slateAt' = IF abandon THEN now ELSE slateAt
        /\ UNCHANGED <<intents, evidence, check, deletion, now, claims, late, crashes>>
    BY DEF EndShadow
  <1>4. /\ live \in MonitorRow /\ live.firstFailureAt = monitor.firstFailureAt
        /\ live.status = monitor.status
    BY <1>1 DEF MonitorRow
  <1> HIDE DEF open, live
  <1>5. \A i \in Incident :
            /\ Close(open)[i] \in IncidentRow
            /\ Close(open)[i].source = incident[i].source
            /\ Close(open)[i].shadow = incident[i].shadow
            /\ Close(open)[i].notified = incident[i].notified
            /\ Close(open)[i].linked = incident[i].linked
            /\ Close(open)[i].status = IF i \in open THEN "resolved" ELSE incident[i].status
    <2> TAKE i \in Incident
    <2>0. incident[i] \in IncidentRow
      BY <1>1
    <2>1. CASE i \in open
      BY <2>0, <2>1 DEF Close, IncidentRow, IncidentStatus
    <2>2. CASE i \notin open
      BY <2>0, <2>2 DEF Close
    <2> QED
      BY <2>1, <2>2
  <1>6. \A i \in Incident :
            /\ incident'[i] \in IncidentRow
            /\ incident'[i].source = incident[i].source
            /\ incident'[i].shadow = incident[i].shadow
            /\ incident'[i].notified = incident[i].notified
            /\ incident'[i].linked = incident[i].linked
            /\ incident'[i].status = IF i \in open THEN "resolved" ELSE incident[i].status
    <2> TAKE i \in Incident
    <2> DEFINE r == Close(open)[i]
    <2>0. r \in IncidentRow
      BY <1>5
    <2>1. incident'[i] = [r EXCEPT !.system = r.system \/ i \in open]
      BY <1>3
    <2>2. /\ r.source = incident[i].source /\ r.shadow = incident[i].shadow
          /\ r.notified = incident[i].notified /\ r.linked = incident[i].linked
          /\ r.status = IF i \in open THEN "resolved" ELSE incident[i].status
      BY <1>5
    <2> HIDE DEF r
    <2>3. (r.system \/ i \in open) \in BOOLEAN
      OBVIOUS
    <2>4. /\ incident'[i] \in IncidentRow /\ incident'[i].source = r.source
          /\ incident'[i].shadow = r.shadow /\ incident'[i].notified = r.notified
          /\ incident'[i].linked = r.linked /\ incident'[i].status = r.status
      BY <2>0, <2>1, <2>3, MarkedRow
    <2> QED
      BY <2>2, <2>4
  <1>7. incident' \in [Incident -> IncidentRow]
    BY <1>3, <1>6
  <1>8. Settled'
    BY <1>2, <1>3, <1>6, <1>7, Evolves DEF ActiveStatus
  <1>9. /\ monitor' \in MonitorRow /\ slateAt' \in Nat
        /\ DownEarned' /\ (slateAt <= now)'
    <2>1. CASE abandon
      <3>1. monitor' = CleanSlate(live, TRUE) /\ slateAt' = now /\ now' = now
        BY <2>1, <1>3
      <3>2. /\ monitor' \in MonitorRow /\ monitor'.firstFailureAt = Never
            /\ monitor'.status = "unknown"
        BY <3>1, <1>4, SlateTyped
      <3>3. DownEarned'
        BY <3>2 DEF DownEarned
      <3>4. slateAt' \in Nat /\ (slateAt <= now)'
        BY <3>1, <1>1
      <3> QED
        BY <3>2, <3>3, <3>4
    <2>2. CASE ~ abandon
      BY <2>2, <1>1, <1>3, <1>4 DEF IncidentInv, DownEarned
    <2> QED
      BY <2>1, <2>2
  <1>10. TypeOK'
    BY <1>1, <1>3, <1>7, <1>9 DEF IncidentInv, TypeOK
  <1> QED
    BY <1>8, <1>9, <1>10, FromSettled

-----------------------------------------------------------------------------
\* Every step keeps the invariant.
LEMMA NextInv == IncidentInv /\ [Next]_vars => IncidentInv'
  <1> SUFFICES ASSUME IncidentInv, [Next]_vars PROVE IncidentInv'
    OBVIOUS
  <1>1. ASSUME NEW w \in Checker, CheckStep(w) \/ Crash(w) PROVE IncidentInv'
    BY <1>1, StartCheckInv, RecordInv, IdleInv, OpenInv, MarksInv, FindInv, ClaimsInv,
       CaptureInv, ResolveInv DEF CheckStep
  <1>2. CASE OperatorStep
    BY <1>2, CreateInv, AcknowledgeInv, ChangeStatusInv, UpdateIncidentInv,
       MonitorEditsInv, EndShadowInv DEF OperatorStep
  <1>3. CASE DeleteMonitorCommit
    BY <1>3, DeleteInv
  <1>4. CASE \E i \in Incident : ReleaseHold(i)
    BY <1>4, ClaimsInv
  <1>5. CASE Tick
    BY <1>5, MonitorEditsInv
  <1>6. CASE UNCHANGED vars
    <2>1. UNCHANGED <<monitor, incident, intents, evidence, check, deletion, now,
                      claims, late, slateAt, edits, crashes>>
      BY <1>6 DEF vars
    <2>2. TypeOK'
      BY <2>1 DEF IncidentInv, TypeOK
    <2> QED
      BY <2>1, <2>2, SameIncidents, MonitorKept, FromSettled
  <1> QED
    BY <1>1, <1>2, <1>3, <1>4, <1>5, <1>6 DEF Next

\* The inductive invariant holds in every reachable state.
THEOREM IncidentInvariant == Spec => []IncidentInv
  BY InitInv, NextInv, PTL DEF Spec

\* Types are kept by every check, operator and crash.
THEOREM IncidentTypeCorrect == Spec => []TypeOK
  BY IncidentInvariant, PTL DEF IncidentInv

\* openMonitorIncident never leaves a monitor with two active incidents.
THEOREM OneActiveSafe == Spec => []OneActive
  BY IncidentInvariant, PTL DEF IncidentInv

\* The notification claim is won at most once, always with its intent.
THEOREM PageSafe == Spec => []PageOnce
  BY IncidentInvariant, PTL DEF IncidentInv

\* A claimed incident that is resolved has its all-clear, unless it was
\* claimed after the resolution.
THEOREM AllClearSafe == Spec => []AllClear
  BY IncidentInvariant, PTL DEF IncidentInv

\* recordCheckOutcome never carries a failure run across a pause or a resume.
THEOREM DownSafe == Spec => []DownEarned
  BY IncidentInvariant, PTL DEF IncidentInv

\* No check, hold or cutover claims or dials for a shadow incident.
THEOREM ShadowSafe == Spec => []ShadowUnclaimed
  BY IncidentInvariant, PTL DEF IncidentInv

\* A resolved incident is out of every writer's reach: a late check, a second
\* operator, a deletion and a cutover all leave its status and its
\* acknowledgement alone.
THEOREM ResolutionSafe == Spec => ResolvedIsFinal
  <1> DEFINE Final == \A i \in Incident : incident[i].status = "resolved" =>
                         /\ incident'[i].status = "resolved"
                         /\ incident'[i].acked = incident[i].acked
  <1>1. IncidentInv /\ [Next]_vars => [Final]_vars
    <2> SUFFICES ASSUME IncidentInv, Next, NEW i \in Incident,
                        incident[i].status = "resolved"
                 PROVE  /\ incident'[i].status = "resolved"
                        /\ incident'[i].acked = incident[i].acked
      OBVIOUS
    <2>1. /\ incident \in [Incident -> IncidentRow]
          /\ incident[i] \in IncidentRow
          /\ \A w \in Checker : check[w].stage \in {"lines", "handle", "capture"} =>
                check[w].incident \in Incident
      BY DEF IncidentInv, TypeOK, Grounded
    <2>2. ~ Active(i) /\ ~ AutoActive(i)
      BY DEF AutoActive, Active, ActiveStatus
    <2>3. ASSUME NEW k \in Incident, Claim(k) \/ incident' = [incident EXCEPT ![k].system = TRUE]
          PROVE  /\ incident'[i].status = "resolved"
                 /\ incident'[i].acked = incident[i].acked
      BY <2>1, <2>3 DEF Claim, IncidentRow
    <2>4. ASSUME NEW w \in Checker, CheckStep(w)
          PROVE  /\ incident'[i].status = "resolved"
                 /\ incident'[i].acked = incident[i].acked
      <3>1. CASE \E k \in Incident : OpenMonitorIncident(w, k)
        BY <2>1, <3>1 DEF OpenMonitorIncident
      <3>2. CASE RecordDockerLines(w) \/ HandleShadow(w) \/ HoldAlert(w)
        BY <2>1, <2>3, <3>2 DEF RecordDockerLines, HandleShadow, HoldAlert, Mark
      <3>3. CASE ClaimOpenedNotifications(w)
        BY <2>1, <2>3, <3>3 DEF ClaimOpenedNotifications
      <3>4. CASE ResolveMonitorIncidents(w)
        BY <2>2, <3>4 DEF ResolveMonitorIncidents, Close
      <3> QED
        BY <2>4, <3>1, <3>2, <3>3, <3>4
           DEF CheckStep, StartCheck, RecordCheckOutcome, RecordNothing, OpenRefused,
               FindUnhandledAutoIncident, ClaimLost, CaptureIncidentEvidence
    <2>5. CASE OperatorStep
      <3>1. ASSUME NEW k \in Incident, CreateIncident(k)
            PROVE  incident'[i] = incident[i]
        BY <2>1, <3>1 DEF CreateIncident
      <3>2. ASSUME NEW k \in Incident, AcknowledgeIncident(k)
            PROVE  incident'[i] = incident[i]
        BY <2>1, <2>2, <3>2 DEF AcknowledgeIncident
      <3>3. ASSUME NEW k \in Incident, NEW from \in ActiveStatus, NEW to \in OperatorStatus,
                   ChangeIncidentStatus(k, from, to)
            PROVE  incident'[i] = incident[i]
        BY <2>1, <2>2, <3>3 DEF ChangeIncidentStatus, StillAt, Active
      <3>4. ASSUME NEW abandon \in BOOLEAN, EndShadow(abandon)
            PROVE  /\ incident'[i].status = "resolved"
                   /\ incident'[i].acked = incident[i].acked
        <4>1. PICK open \in SUBSET Incident :
                /\ i \notin open
                /\ incident' = [k \in Incident |->
                      [Close(open)[k] EXCEPT !.system = @ \/ k \in open]]
          BY <2>2, <3>4 DEF EndShadow
        <4>2. Close(open)[i] = incident[i]
          BY <4>1 DEF Close
        <4> QED  BY <2>1, <4>1, <4>2 DEF IncidentRow
      <3> QED
        BY <2>5, <3>1, <3>2, <3>3, <3>4
           DEF OperatorStep, UpdateIncident, SetMonitorPaused, UpdateMonitor,
               DeleteMonitorBegin
    <2>6. CASE DeleteMonitorCommit
      BY <2>1, <2>6 DEF DeleteMonitorCommit, IncidentRow
    <2>7. ASSUME NEW k \in Incident, ReleaseHold(k)
          PROVE  /\ incident'[i].status = "resolved"
                 /\ incident'[i].acked = incident[i].acked
      BY <2>3, <2>7 DEF ReleaseHold
    <2> QED
      BY <2>4, <2>5, <2>6, <2>7 DEF Next, Crash, Tick
  <1>2. ResolvedIsFinal <=> [][Final]_vars
    BY DEF ResolvedIsFinal
  <1> QED
    BY <1>1, <1>2, IncidentInvariant, PTL DEF Spec
=============================================================================
