----------------------------- MODULE Incidents ------------------------------
(***************************************************************************)
(* From an observation to a page: one monitor, the checks of it that run   *)
(* at the same time (scheduled, manual, derived from a group's members),   *)
(* the incidents they open, page for and resolve, and the operators who    *)
(* edit both (modules/monitors/outcome.ts and service.ts,                  *)
(* modules/incidents/service.ts, the end of shadow mode in                 *)
(* modules/importers/bridge/service.ts).                                   *)
(*                                                                         *)
(* Every transaction is one step, deleteMonitor excepted: its two          *)
(* statements read the world at two moments.  `claims', `late', `slateAt'  *)
(* and `edits' are history.                                                *)
(*                                                                         *)
(* A definition named X_Y is X with a plausible mistake Y in it.           *)
(***************************************************************************)
EXTENDS StatusController, FiniteSets

CONSTANTS
    Checker,         \* concurrent callers of applyOutcome for this monitor
    Incident,        \* incident ids
    NoIncident,
    Outcomes,        \* what probes may report
    Windows,         \* values of failure_window_seconds
    OperatorStatus,  \* statuses operators choose
    CanHold,         \* whether an incident handler may hold a page
    MaxTime,         \* bound on the clock
    MaxEdits,        \* bound on the operators' acts
    MaxCrashes       \* bound on the checks that die

ASSUME IncidentConstants ==
    /\ NoIncident \notin Incident
    /\ Never \notin Nat
    /\ Outcomes \subseteq Outcome
    /\ Windows \subseteq Nat
    /\ OperatorStatus \subseteq {"investigating", "identified", "monitoring", "resolved"}
    /\ CanHold \in BOOLEAN
    /\ MaxTime \in Nat /\ MaxEdits \in Nat /\ MaxCrashes \in Nat

VARIABLES
    monitor,    \* the monitors row
    incident,   \* incidents and what their timelines show
    intents,    \* dispatch intents recorded, by incident and event
    evidence,   \* incident_evidence: incidents with a snapshot, and whether it dialled
    check,      \* where each check is
    deletion,   \* deleteMonitor's transaction
    now,
    claims,     \* history: notification claims won
    late,       \* history: incidents claimed after they were resolved
    slateAt,    \* history: when the monitor last got a clean slate
    edits,      \* history: operators' acts
    crashes

vars == <<monitor, incident, intents, evidence, check, deletion, now,
          claims, late, slateAt, edits, crashes>>

-----------------------------------------------------------------------------
ActiveStatus == {"investigating", "identified", "monitoring"}

IncidentStatus == ActiveStatus \cup {"resolved"}

Time == Nat \cup {Never}

MonitorRow == [gone : BOOLEAN, paused : BOOLEAN, shadow : BOOLEAN,
               status : MonitorStatus, firstFailureAt : Time, window : Nat]

\* What a check keeps of the row it read before it probed.
Seen == [status : MonitorStatus, firstFailureAt : Time, window : Nat]

\* `linked' is monitor_id, `system' a timeline entry of type system.
IncidentRow == [status : IncidentStatus \cup {"absent"}, source : {"monitor", "manual"},
                linked : BOOLEAN, shadow : BOOLEAN, notified : BOOLEAN,
                system : BOOLEAN, acked : BOOLEAN]

Event == {"opened", "updated", "resolved"}

Intent == [incident : Incident, event : Event]

Stage == {"idle", "probing", "open", "lines", "find", "handle", "capture", "resolve"}

Job == [stage : Stage, seen : Seen, incident : Incident \cup {NoIncident},
        lines : BOOLEAN]

NoRow == [status |-> "unknown", firstFailureAt |-> Never, window |-> 0]

At(stage, i) == [stage |-> stage, seen |-> NoRow, incident |-> i, lines |-> FALSE]

Idle == At("idle", NoIncident)

Absent == [status |-> "absent", source |-> "monitor", linked |-> FALSE,
           shadow |-> FALSE, notified |-> FALSE, system |-> FALSE, acked |-> FALSE]

NoDeletion == [begun |-> FALSE, found |-> {}]

Init ==
    /\ monitor \in [gone : {FALSE}, paused : {FALSE}, shadow : BOOLEAN,
                    status : {"unknown"}, firstFailureAt : {Never}, window : Windows]
    /\ incident = [i \in Incident |-> Absent]
    /\ intents = {}
    /\ evidence = {}
    /\ check = [w \in Checker |-> Idle]
    /\ deletion = NoDeletion
    /\ now = 0
    /\ claims = [i \in Incident |-> 0]
    /\ late = {}
    /\ slateAt = 0
    /\ edits = 0
    /\ crashes = 0

-----------------------------------------------------------------------------
Active(i) == incident[i].status \in ActiveStatus

\* What incidents_one_active_per_monitor indexes.
AutoActive(i) == incident[i].source = "monitor" /\ incident[i].linked /\ Active(i)

\* A row deleteMonitor has written and not committed.
Locked(i) == i \in deletion.found

Records(i, event) == [incident |-> i, event |-> event]

\* setMonitorPaused's columns, for a pause and for a resume.
CleanSlate(row, paused) ==
    [row EXCEPT !.paused = paused, !.status = "unknown", !.firstFailureAt = Never]

StillTrue_PausedOnly(seen) == ~ monitor.gone /\ ~ monitor.paused

\* recordCheckOutcome's compare-and-swap.
StillTrue(seen) ==
    /\ ~ monitor.gone /\ ~ monitor.paused
    /\ monitor.firstFailureAt = seen.firstFailureAt

-----------------------------------------------------------------------------
\* runMonitorCheck, runManualCheck, refreshGroups: the row is read once,
\* before the probe.
StartCheck(w) ==
    /\ check[w].stage = "idle"
    /\ ~ monitor.gone /\ ~ monitor.paused
    /\ check' = [check EXCEPT ![w] =
                   [At("probing", NoIncident) EXCEPT
                      !.seen = [status |-> monitor.status, window |-> monitor.window,
                                firstFailureAt |-> monitor.firstFailureAt]]]
    /\ UNCHANGED <<monitor, incident, intents, evidence, deletion, now,
                   claims, late, slateAt, edits, crashes>>

\* Where applyOutcome goes once the observation is recorded.
Consequence(status, o) ==
    CASE status = "down" -> [At("open", NoIncident) EXCEPT !.lines = o.lines]
      [] status # "down" /\ Resolves(o) -> At("resolve", NoIncident)
      [] OTHER -> Idle

\* recordCheckOutcome: the status is derived from the row as it was read.
RecordCheckOutcome(w, o) ==
    /\ check[w].stage = "probing"
    /\ LET seen == check[w].seen
           first == AdvanceFailureRun(seen.firstFailureAt, o.verdict, now)
           status == DeriveStatus(o.verdict, seen.window, first, seen.status, now)
       IN /\ StillTrue(seen)
          /\ monitor' = [monitor EXCEPT !.status = status, !.firstFailureAt = first]
          /\ check' = [check EXCEPT ![w] = Consequence(status, o)]
    /\ UNCHANGED <<incident, intents, evidence, deletion, now,
                   claims, late, slateAt, edits, crashes>>

\* The row moved under the probe: nothing is derived from the observation.
RecordNothing(w) ==
    /\ check[w].stage = "probing"
    /\ ~ StillTrue(check[w].seen)
    /\ check' = [check EXCEPT ![w] = Idle]
    /\ UNCHANGED <<monitor, incident, intents, evidence, deletion, now,
                   claims, late, slateAt, edits, crashes>>

\* The row openMonitorIncident inserts; shadow is read under the lock.
Opened ==
    [Absent EXCEPT !.status = "investigating", !.linked = TRUE,
                   !.shadow = monitor.shadow]

NoneActive_Unindexed == TRUE

NoneActive == \A i \in Incident : ~ AutoActive(i)

\* openMonitorIncident, the monitor row locked, inserts ...
OpenMonitorIncident(w, i) ==
    /\ check[w].stage = "open"
    /\ ~ monitor.gone /\ monitor.status # "up" /\ ~ monitor.paused
    /\ NoneActive
    /\ incident[i].status = "absent"
    /\ incident' = [incident EXCEPT ![i] = Opened]
    /\ check' = [check EXCEPT ![w] = At(IF check[w].lines THEN "lines" ELSE "handle", i)]
    /\ UNCHANGED <<monitor, intents, evidence, deletion, now,
                   claims, late, slateAt, edits, crashes>>

\* ... or is refused, by its own guard or by the unique index (which makes it
\* wait for an uncommitted deleteMonitor).
OpenRefused(w) ==
    /\ check[w].stage = "open"
    /\ \/ monitor.gone \/ monitor.status = "up" \/ monitor.paused
       \/ \E i \in Incident : AutoActive(i) /\ ~ Locked(i)
    /\ check' = [check EXCEPT ![w] = At("find", NoIncident)]
    /\ UNCHANGED <<monitor, incident, intents, evidence, deletion, now,
                   claims, late, slateAt, edits, crashes>>

\* The Docker lines go on the new incident's timeline as system events.
RecordDockerLines(w) ==
    /\ check[w].stage = "lines"
    /\ ~ Locked(check[w].incident)
    /\ incident' = [incident EXCEPT ![check[w].incident].system = TRUE]
    /\ check' = [check EXCEPT ![w].stage = "handle"]
    /\ UNCHANGED <<monitor, intents, evidence, deletion, now,
                   claims, late, slateAt, edits, crashes>>

Unhandled_Nobody(i) == FALSE

\* findUnhandledAutoIncident's predicate.
Unhandled(i) == AutoActive(i) /\ ~ incident[i].notified /\ ~ incident[i].system

FindUnhandledAutoIncident(w) ==
    /\ check[w].stage = "find"
    /\ \/ \E i \in Incident : Unhandled(i) /\ check' = [check EXCEPT ![w] = At("handle", i)]
       \/ (\A i \in Incident : ~ Unhandled(i)) /\ check' = [check EXCEPT ![w] = Idle]
    /\ UNCHANGED <<monitor, incident, intents, evidence, deletion, now,
                   claims, late, slateAt, edits, crashes>>

Silent_ByMonitor(i) == monitor.shadow

\* The incident's own flag, never the monitor's setting of now.
Silent(i) == incident[i].shadow

\* A system event and no page: shadow mode's, or a held alert's.
Mark(w, i) ==
    /\ ~ Locked(i)
    /\ incident' = [incident EXCEPT ![i].system = TRUE]
    /\ check' = [check EXCEPT ![w].stage = "capture"]
    /\ UNCHANGED <<monitor, intents, evidence, deletion, now,
                   claims, late, slateAt, edits, crashes>>

HandleShadow(w) ==
    /\ check[w].stage = "handle" /\ Silent(check[w].incident)
    /\ Mark(w, check[w].incident)

HoldAlert(w) ==
    /\ check[w].stage = "handle" /\ ~ Silent(check[w].incident)
    /\ CanHold
    /\ Mark(w, check[w].incident)

Claimable_Always(i) == TRUE

\* claimIncidentNotification's predicate: nothing about the status.
Claimable(i) == ~ incident[i].notified

\* The claim and the intent of the page commit together.
Claim(i) ==
    /\ Claimable(i) /\ ~ Locked(i)
    /\ incident' = [incident EXCEPT ![i].notified = TRUE]
    /\ intents' = intents \cup {Records(i, "opened")}
    /\ claims' = [claims EXCEPT ![i] = @ + 1]
    /\ late' = IF Active(i) THEN late ELSE late \cup {i}

\* claimOpenedNotifications, won ...
ClaimOpenedNotifications(w) ==
    /\ check[w].stage = "handle" /\ ~ Silent(check[w].incident)
    /\ Claim(check[w].incident)
    /\ check' = [check EXCEPT ![w].stage = "capture"]
    /\ UNCHANGED <<monitor, evidence, deletion, now, slateAt, edits, crashes>>

\* ... or lost to another caller.
ClaimLost(w) ==
    /\ check[w].stage = "handle" /\ ~ Silent(check[w].incident)
    /\ ~ Claimable(check[w].incident)
    /\ check' = [check EXCEPT ![w].stage = "capture"]
    /\ UNCHANGED <<monitor, incident, intents, evidence, deletion, now,
                   claims, late, slateAt, edits, crashes>>

\* captureIncidentEvidence: the first snapshot stays; a shadow incident's
\* never dials the target, another's does if the burst is enabled.
CaptureIncidentEvidence(w) ==
    /\ check[w].stage = "capture"
    /\ LET i == check[w].incident
       IN \/ /\ \A e \in evidence : e.incident # i
             /\ \E b \in BOOLEAN :
                   /\ incident[i].shadow => ~ b
                   /\ evidence' = evidence \cup {[incident |-> i, dialled |-> b]}
          \/ (\E e \in evidence : e.incident = i) /\ UNCHANGED evidence
    /\ check' = [check EXCEPT ![w] = Idle]
    /\ UNCHANGED <<monitor, incident, intents, deletion, now,
                   claims, late, slateAt, edits, crashes>>

AllClears_None(closed) == {}

\* The all-clear commits with the resolution, for those who were paged.
AllClears(closed) == {Records(i, "resolved") : i \in {k \in closed : incident[k].notified}}

Close_Unacknowledged(closed) ==
    [i \in Incident |-> IF i \in closed /\ ~ incident[i].acked
                        THEN [incident[i] EXCEPT !.status = "resolved"]
                        ELSE incident[i]]

\* status and resolved_at, for those still open.
Close(closed) ==
    [i \in Incident |-> IF i \in closed THEN [incident[i] EXCEPT !.status = "resolved"]
                        ELSE incident[i]]

\* resolveMonitorIncidents: under the monitor's lock, which it takes without
\* looking at the status.
ResolveMonitorIncidents(w) ==
    /\ check[w].stage = "resolve"
    /\ LET open == {i \in Incident : AutoActive(i)}
       IN /\ \A i \in open : ~ Locked(i)
          /\ incident' = Close(open)
          /\ intents' = intents \cup AllClears(open)
    /\ check' = [check EXCEPT ![w] = Idle]
    /\ UNCHANGED <<monitor, evidence, deletion, now,
                   claims, late, slateAt, edits, crashes>>

\* The process dies, or a statement throws, between two steps.
Crash(w) ==
    /\ check[w].stage # "idle"
    /\ crashes < MaxCrashes
    /\ crashes' = crashes + 1
    /\ check' = [check EXCEPT ![w] = Idle]
    /\ UNCHANGED <<monitor, incident, intents, evidence, deletion, now,
                   claims, late, slateAt, edits>>

\* Whoever held the page lets it go: recovery exhausted or the deadline.
ReleaseHold(i) ==
    /\ CanHold
    /\ incident[i].source = "monitor" /\ incident[i].status # "absent"
    /\ incident[i].system /\ ~ incident[i].shadow
    /\ Claim(i)
    /\ UNCHANGED <<monitor, evidence, check, deletion, now, slateAt, edits, crashes>>

-----------------------------------------------------------------------------
Edit == edits < MaxEdits /\ edits' = edits + 1

\* createIncident: an operator's announcement, queued with the incident.
CreateIncident(i) ==
    /\ incident[i].status = "absent"
    /\ incident' = [incident EXCEPT ![i] = [Absent EXCEPT !.status = "investigating",
                                                          !.source = "manual"]]
    /\ intents' = intents \cup {Records(i, "opened")}
    /\ Edit
    /\ UNCHANGED <<monitor, evidence, check, deletion, now, claims, late, slateAt, crashes>>

\* acknowledgeIncident: the first one counts.
AcknowledgeIncident(i) ==
    /\ Active(i) /\ ~ incident[i].acked /\ ~ Locked(i)
    /\ incident' = [incident EXCEPT ![i].acked = TRUE, ![i].system = TRUE]
    /\ Edit
    /\ UNCHANGED <<monitor, intents, evidence, check, deletion, now,
                   claims, late, slateAt, crashes>>

CanTransition(from, to) == from \in ActiveStatus /\ from # to

StillAt_Unchecked(i, from) == incident[i].status # "absent"

\* changeIncidentStatus's compare-and-swap on the status it validated.
StillAt(i, from) == incident[i].status = from

\* changeIncidentStatus, validated against the status the operator's
\* transaction read.
ChangeIncidentStatus(i, from, to) ==
    /\ CanTransition(from, to)
    /\ StillAt(i, from) /\ ~ Locked(i)
    /\ incident' = [incident EXCEPT ![i].status = to]
    /\ intents' = intents \cup
          {Records(i, IF to = "resolved" THEN "resolved" ELSE "updated")}
    /\ Edit
    /\ UNCHANGED <<monitor, evidence, check, deletion, now, claims, late, slateAt, crashes>>

\* postIncidentUpdate (a public one) and changeIncidentSeverity: text and
\* severity are not modelled, the broadcast is.
UpdateIncident(i) ==
    /\ Active(i) /\ ~ Locked(i)
    /\ intents' = intents \cup {Records(i, "updated")}
    /\ Edit
    /\ UNCHANGED <<monitor, incident, evidence, check, deletion, now,
                   claims, late, slateAt, crashes>>

SetMonitorPaused(paused) ==
    /\ ~ monitor.gone
    /\ monitor' = CleanSlate(monitor, paused)
    /\ slateAt' = now
    /\ Edit
    /\ UNCHANGED <<incident, intents, evidence, check, deletion, now,
                   claims, late, crashes>>

\* updateMonitor: the failure run is measured from its start, whatever the
\* window becomes.
UpdateMonitor(window) ==
    /\ ~ monitor.gone /\ monitor.window # window
    /\ monitor' = [monitor EXCEPT !.window = window]
    /\ Edit
    /\ UNCHANGED <<incident, intents, evidence, check, deletion, now,
                   claims, late, slateAt, crashes>>

\* deleteMonitor closes the incidents it finds ...
DeleteMonitorBegin ==
    /\ ~ monitor.gone /\ ~ deletion.begun
    /\ deletion' = [begun |-> TRUE, found |-> {i \in Incident : AutoActive(i)}]
    /\ Edit
    /\ UNCHANGED <<monitor, incident, intents, evidence, check, now,
                   claims, late, slateAt, crashes>>

\* ... and then deletes the row, which unlinks every incident it has by now.
DeleteMonitorCommit ==
    /\ deletion.begun
    /\ monitor' = [monitor EXCEPT !.gone = TRUE]
    /\ incident' = [i \in Incident |->
          IF i \in deletion.found
          THEN [incident[i] EXCEPT !.status = "resolved", !.system = TRUE, !.linked = FALSE]
          ELSE [incident[i] EXCEPT !.linked = FALSE]]
    /\ intents' = intents \cup AllClears(deletion.found)
    /\ deletion' = NoDeletion
    /\ UNCHANGED <<evidence, check, now, claims, late, slateAt, edits, crashes>>

\* endShadow: cutover makes the monitor live, abandon pauses it; both close
\* the shadow incidents, and tell nobody.
EndShadow(abandon) ==
    /\ ~ monitor.gone /\ monitor.shadow
    /\ LET open == {i \in Incident : AutoActive(i) /\ incident[i].shadow}
           live == [monitor EXCEPT !.shadow = FALSE]
       IN /\ \A i \in open : ~ Locked(i)
          /\ incident' = [i \in Incident |-> [Close(open)[i] EXCEPT
                            !.system = @ \/ i \in open]]
          /\ monitor' = IF abandon THEN CleanSlate(live, TRUE) ELSE live
          /\ slateAt' = IF abandon THEN now ELSE slateAt
    /\ Edit
    /\ UNCHANGED <<intents, evidence, check, deletion, now, claims, late, crashes>>

Tick ==
    /\ now < MaxTime
    /\ now' = now + 1
    /\ UNCHANGED <<monitor, incident, intents, evidence, check, deletion,
                   claims, late, slateAt, edits, crashes>>

-----------------------------------------------------------------------------
CheckStep(w) ==
    \/ StartCheck(w)
    \/ \E o \in Outcomes : RecordCheckOutcome(w, o)
    \/ RecordNothing(w)
    \/ \E i \in Incident : OpenMonitorIncident(w, i)
    \/ OpenRefused(w)
    \/ RecordDockerLines(w)
    \/ FindUnhandledAutoIncident(w)
    \/ HandleShadow(w)
    \/ HoldAlert(w)
    \/ ClaimOpenedNotifications(w)
    \/ ClaimLost(w)
    \/ CaptureIncidentEvidence(w)
    \/ ResolveMonitorIncidents(w)

OperatorStep ==
    \/ \E i \in Incident :
          \/ CreateIncident(i)
          \/ AcknowledgeIncident(i)
          \/ \E from \in ActiveStatus, to \in OperatorStatus :
                ChangeIncidentStatus(i, from, to)
          \/ UpdateIncident(i)
    \/ \E paused \in BOOLEAN : SetMonitorPaused(paused)
    \/ \E window \in Windows : UpdateMonitor(window)
    \/ DeleteMonitorBegin
    \/ \E abandon \in BOOLEAN : EndShadow(abandon)

Next ==
    \/ \E w \in Checker : CheckStep(w) \/ Crash(w)
    \/ OperatorStep
    \/ DeleteMonitorCommit
    \/ \E i \in Incident : ReleaseHold(i)
    \/ Tick

Spec == Init /\ [][Next]_vars

\* The scheduler offers a monitor that is not paused again and again, a check
\* that starts goes on until it ends or dies, and a transaction ends.
Fairness ==
    /\ \A w \in Checker : WF_vars(CheckStep(w))
    /\ WF_vars(DeleteMonitorCommit)

FairSpec == Spec /\ Fairness

-----------------------------------------------------------------------------
\* The monitor's and the incidents' columns keep the schema's shape, whatever
\* deriveStatus and the operators write.
TypeOK ==
    /\ monitor \in MonitorRow
    /\ incident \in [Incident -> IncidentRow]
    /\ intents \subseteq Intent
    /\ evidence \subseteq [incident : Incident, dialled : BOOLEAN]
    /\ check \in [Checker -> Job]
    /\ deletion \in [begun : BOOLEAN, found : SUBSET Incident]
    /\ now \in Nat
    /\ claims \in [Incident -> Nat]
    /\ late \subseteq Incident
    /\ slateAt \in Nat
    /\ edits \in Nat
    /\ crashes \in Nat

\* openMonitorIncident is idempotent: however many checks conclude "down" at
\* once, the monitor has one active incident.
OneActive == \A i, k \in Incident : AutoActive(i) /\ AutoActive(k) => i = k

\* The claim is won once, and won together with the intent of the page: no
\* order of opening, repairing, holding and dying pages twice or spends the
\* claim on nothing.
PageOnce ==
    \A i \in Incident : incident[i].source = "monitor" =>
        /\ claims[i] <= 1
        /\ incident[i].notified <=> claims[i] = 1
        /\ incident[i].notified <=> Records(i, "opened") \in intents

\* Whoever was paged is told when it is over: a claimed incident that is
\* resolved, by a check, an operator, a deletion or the end of shadow mode,
\* has its all-clear, unless the claim came after the resolution.
AllClear ==
    \A i \in Incident :
        incident[i].notified /\ incident[i].status = "resolved" /\ i \notin late
            => Records(i, "resolved") \in intents

\* A failure run never predates the last pause or resume, so the first
\* failures after a resume cannot page at once; and no monitor is down
\* without a run.
DownEarned ==
    /\ monitor.firstFailureAt # Never => monitor.firstFailureAt >= slateAt
    /\ monitor.status = "down" => monitor.firstFailureAt # Never

\* Machinery never breaks shadow mode's silence: an incident opened in shadow
\* is never claimed and its evidence never dials, even across a cutover.
ShadowUnclaimed ==
    \A i \in Incident : incident[i].shadow =>
        /\ ~ incident[i].notified
        /\ Records(i, "opened") \notin intents
        /\ [incident |-> i, dialled |-> TRUE] \notin evidence

\* A resolved incident stays resolved and is not acknowledged any more.
ResolvedIsFinal ==
    [][\A i \in Incident : incident[i].status = "resolved" =>
          /\ incident'[i].status = "resolved"
          /\ incident'[i].acked = incident[i].acked]_vars

DownObserved ==
    \E w \in Checker, o \in Outcomes : o.verdict = "down" /\ RecordCheckOutcome(w, o)

UpObserved ==
    \E w \in Checker, o \in Outcomes : o.verdict = "up" /\ RecordCheckOutcome(w, o)

Owed(i) ==
    /\ AutoActive(i) /\ ~ incident[i].shadow
    /\ ~ incident[i].notified /\ ~ incident[i].acked

\* As long as checks go on seeing the monitor down, an incident nobody was
\* paged for, because its check died, is paged, acknowledged or over.
EventuallyPaged ==
    []<><<DownObserved>>_vars => \A i \in Incident : Owed(i) ~> ~ Owed(i)

\* As long as checks go on seeing the monitor up, its incidents are closed.
EventuallyClosed ==
    []<><<UpObserved>>_vars => \A i \in Incident : AutoActive(i) ~> ~ AutoActive(i)

=============================================================================
