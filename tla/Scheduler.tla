----------------------------- MODULE Scheduler ------------------------------
(***************************************************************************)
(* Who checks which monitor and when: the minute tick                      *)
(* (worker/jobs/monitor-tick.ts), the check jobs and their sub-minute      *)
(* follow-ups (worker/jobs/monitor-check.ts), the dispatch claim on the    *)
(* monitors row (modules/monitors/service.ts), the monitor-check queue of  *)
(* pg-boss, and the high-frequency plane as the scheduler sees it.         *)
(*                                                                         *)
(* A timestamp is kept as the time that is left until it, so the clock     *)
(* needs no bound: Advance takes one unit off every one of them.  `taken'  *)
(* and the counters are history.                                           *)
(*                                                                         *)
(* A definition named X_Y is X with a plausible mistake Y in it.           *)
(***************************************************************************)
EXTENDS Integers, FiniteSets

CONSTANTS
    Monitor,
    TenantOf,      \* the organization of each monitor
    Ticker,        \* ticks that may overlap
    Worker,        \* concurrent runMonitorCheck calls
    NoMonitor,
    Never,
    Delays,        \* what nextEvaluationAt may answer
    TickPeriod,    \* TICK_PERIOD_MS
    TickGrace,     \* TICK_GRACE_SECONDS
    Lease,         \* ENQUEUE_LEASE_SECONDS
    Expiry,        \* expireInSeconds of a monitor-check job
    Deferral,      \* HIGH_FREQUENCY_DEFERRAL_SECONDS
    Batch,         \* MONITOR_SCHEDULER_BATCH
    Capable,       \* whether the check types an edit may choose are fast ones
    Overdue,       \* bound on how long overdue a monitor is remembered to be
    MaxEdits,      \* bound on the operators' acts
    MaxFailures    \* bound on the throws, deaths and restarts

ASSUME SchedulerConstants ==
    /\ NoMonitor \notin Monitor
    /\ Never \notin Int
    /\ Delays \subseteq Nat
    /\ {TickPeriod, TickGrace, Expiry, Deferral, Batch, Overdue} \subseteq Nat
    /\ Lease \in Nat \ {0}
    /\ Capable \subseteq BOOLEAN
    /\ MaxEdits \in Nat /\ MaxFailures \in Nat

VARIABLES
    row,       \* monitors
    waiting,   \* the queued check of each monitor: time left to startAfter
    tick,      \* where each tick is
    job,       \* where each check is, and the time its job has left
    live,      \* some worker's lease covers the high-frequency shards
    taken,     \* history: dispatches claimed since the claim was last free
    edits,
    failures

vars == <<row, waiting, tick, job, live, taken, edits, failures>>

-----------------------------------------------------------------------------
\* `due' is next_evaluation_at, `claim' dispatch_claimed_until (0 when it is
\* null or past), `fast' high_frequency, `capable' a type of the fast plane.
MonitorRow == [due : Int, claim : Nat, paused : BOOLEAN, fast : BOOLEAN, capable : BOOLEAN]

TickStage == {"idle", "selected", "deferred", "claimed"}

Tick == [stage : TickStage, due : SUBSET Monitor, owned : SUBSET Monitor]

JobStage == {"idle", "probing", "follow", "send", "dead"}

\* `moved' says that the row may no longer be the one this check read.
Job == [stage : JobStage, monitor : Monitor \cup {NoMonitor}, left : Nat,
        moved : BOOLEAN, next : Nat]

NoTick == [stage |-> "idle", due |-> {}, owned |-> {}]

NoJob == [stage |-> "idle", monitor |-> NoMonitor, left |-> 0,
          moved |-> FALSE, next |-> 0]

Init ==
    /\ row = [m \in Monitor |-> [due |-> 0, claim |-> 0, paused |-> FALSE,
                                 fast |-> FALSE, capable |-> TRUE]]
    /\ waiting = [m \in Monitor |-> Never]
    /\ tick = [t \in Ticker |-> NoTick]
    /\ job = [w \in Worker |-> NoJob]
    /\ live = FALSE
    /\ taken = [m \in Monitor |-> 0]
    /\ edits = 0
    /\ failures = 0

-----------------------------------------------------------------------------
\* Time left, never less than none.
Least(n) == IF n > 0 THEN n ELSE 0

\* Nobody holds the right to enqueue this monitor now.
Free(m) == row[m].claim = 0

\* dueCondition.
Due(m) == ~ row[m].paused /\ row[m].due <= TickGrace /\ Free(m)

\* highFrequencyClaims: the flag and a live lease, whatever the type.
Owned(m) == row[m].fast /\ live

\* The row_number of findDueMonitors' ranking, within the tenant.
Rank(m) == Cardinality({k \in Monitor : /\ Due(k) /\ TenantOf[k] = TenantOf[m]
                                        /\ row[k].due < row[m].due})

Before(m, k) == Rank(m) < Rank(k) \/ (Rank(m) = Rank(k) /\ row[m].due < row[k].due)

\* findDueMonitors: the best ranked of each tenant first, a batch of them.
Selections ==
    LET all == {m \in Monitor : Due(m)}
        n == IF Cardinality(all) < Batch THEN Cardinality(all) ELSE Batch
    IN {s \in SUBSET all : /\ Cardinality(s) = n
                           /\ \A m \in s, k \in all \ s : ~ Before(k, m)}

\* Every other check of the monitor in flight may find the row moved.
Disturb(jobs, m) ==
    [w \in Worker |-> IF jobs[w].monitor = m THEN [jobs[w] EXCEPT !.moved = TRUE] ELSE jobs[w]]

\* recordCheckOutcome's part in the schedule: the claim is spent, the next
\* evaluation is set.
Landed(m, delay) == [row EXCEPT ![m].due = delay, ![m].claim = 0]

\* One outstanding dispatch more.
Dispatch(ms) == [m \in Monitor |-> IF m \in ms THEN taken[m] + 1 ELSE taken[m]]

-----------------------------------------------------------------------------
\* runMonitorTick selects; the rows and the leases are read here ...
FindDueMonitors(t) ==
    /\ tick[t].stage = "idle"
    /\ \E s \in Selections :
          /\ s # {}
          /\ tick' = [tick EXCEPT ![t] = [stage |-> "selected",
                                          due |-> {m \in s : ~ Owned(m)},
                                          owned |-> {m \in s : Owned(m)}]]
    /\ UNCHANGED <<row, waiting, job, live, taken, edits, failures>>

Postponed_Unasked(ms) == ms

\* The flag is read again under the write.
Postponed(ms) == {m \in ms : row[m].fast}

\* ... deferHighFrequencyOwned ...
DeferHighFrequencyOwned(t) ==
    /\ tick[t].stage = "selected"
    /\ row' = [m \in Monitor |-> IF m \in Postponed(tick[t].owned)
                                 THEN [row[m] EXCEPT !.due = Deferral] ELSE row[m]]
    /\ tick' = [tick EXCEPT ![t].stage = "deferred", ![t].owned = {}]
    /\ UNCHANGED <<waiting, job, live, taken, edits, failures>>

Claimable_AsSelected(m) == TRUE

\* The claim asks again, under the lock, whether the monitor is due.
Claimable(m) == Due(m)

\* ... claimMonitorsForDispatch ...
ClaimMonitorsForDispatch(t) ==
    /\ tick[t].stage = "deferred"
    /\ LET mine == {m \in tick[t].due : Claimable(m)}
       IN /\ row' = [m \in Monitor |-> IF m \in mine THEN [row[m] EXCEPT !.claim = Lease]
                                       ELSE row[m]]
          /\ taken' = Dispatch(mine)
          /\ tick' = [tick EXCEPT ![t] = IF mine = {} THEN NoTick
                                         ELSE [NoTick EXCEPT !.stage = "claimed", !.due = mine]]
    /\ UNCHANGED <<waiting, job, live, edits, failures>>

\* ... and inserts what it claimed; a monitor with a queued check is dropped.
Insert(t) ==
    /\ tick[t].stage = "claimed"
    /\ waiting' = [m \in Monitor |-> IF m \in tick[t].due /\ waiting[m] = Never
                                     THEN 0 ELSE waiting[m]]
    /\ tick' = [tick EXCEPT ![t] = NoTick]
    /\ UNCHANGED <<row, job, live, taken, edits, failures>>

-----------------------------------------------------------------------------
Active(m) == \E w \in Worker : job[w].monitor = m /\ job[w].left > 0

\* pg-boss hands over a job whose time has come, one per monitor at a time.
Fetchable(w, m) == job[w].stage = "idle" /\ waiting[m] = 0 /\ ~ Active(m)

\* runMonitorCheck reads the row and probes ...
RunMonitorCheck(w, m) ==
    /\ Fetchable(w, m)
    /\ ~ row[m].paused /\ ~ Owned(m)
    /\ waiting' = [waiting EXCEPT ![m] = Never]
    /\ job' = [job EXCEPT ![w] = [NoJob EXCEPT !.stage = "probing", !.monitor = m,
                                               !.left = Expiry]]
    /\ UNCHANGED <<row, tick, live, taken, edits, failures>>

\* ... or declines; the claim is left to run out.
DeclineCheck(w, m) ==
    /\ Fetchable(w, m)
    /\ row[m].paused \/ Owned(m)
    /\ waiting' = [waiting EXCEPT ![m] = Never]
    /\ UNCHANGED <<row, tick, job, live, taken, edits, failures>>

\* The observation lands; scheduleFastFollowUp goes on if the next one is
\* within a tick's period.
RecordCheckOutcome(w, delay) ==
    LET m == job[w].monitor
    IN /\ job[w].stage = "probing"
       /\ ~ row[m].paused
       /\ row' = Landed(m, delay)
       /\ taken' = [taken EXCEPT ![m] = 0]
       /\ job' = [Disturb(job, m) EXCEPT
                    ![w] = IF delay <= TickPeriod
                           THEN [job[w] EXCEPT !.stage = "follow", !.next = delay]
                           ELSE NoJob]
       /\ UNCHANGED <<waiting, tick, live, edits, failures>>

\* It does not: the row moved.  The follow-up goes by the row of now, whose
\* last check may be long past.
RecordNothing(w) ==
    LET r == row[job[w].monitor]
    IN /\ job[w].stage = "probing" /\ job[w].moved
       /\ \/ job' = [job EXCEPT ![w] = NoJob]
          \/ /\ ~ r.paused
             /\ job' = [job EXCEPT ![w].stage = "follow", ![w].next = Least(r.due)]
       /\ UNCHANGED <<row, waiting, tick, live, taken, edits, failures>>

Reservable(m) == ~ row[m].paused /\ Free(m)

\* reserveMonitorForFollowUp, until the follow-up runs and room to run in ...
Reserve(w) ==
    LET m == job[w].monitor
    IN /\ job[w].stage = "follow"
       /\ Reservable(m)
       /\ row' = [row EXCEPT ![m].claim = job[w].next + Lease]
       /\ taken' = Dispatch({m})
       /\ job' = [job EXCEPT ![w].stage = "send"]
       /\ UNCHANGED <<waiting, tick, live, edits, failures>>

\* ... or somebody else owns the next dispatch.
ReserveLost(w) ==
    /\ job[w].stage = "follow"
    /\ ~ Reservable(job[w].monitor)
    /\ job' = [job EXCEPT ![w] = NoJob]
    /\ UNCHANGED <<row, waiting, tick, live, taken, edits, failures>>

Send(w) ==
    /\ job[w].stage = "send"
    /\ LET m == job[w].monitor
       IN waiting' = [waiting EXCEPT ![m] = IF @ = Never THEN job[w].next ELSE @]
    /\ job' = [job EXCEPT ![w] = NoJob]
    /\ UNCHANGED <<row, tick, live, taken, edits, failures>>

-----------------------------------------------------------------------------
Fail == failures < MaxFailures /\ failures' = failures + 1

\* A tick throws or its process dies.
TickFails(t) ==
    /\ tick[t].stage # "idle"
    /\ tick' = [tick EXCEPT ![t] = NoTick]
    /\ Fail
    /\ UNCHANGED <<row, waiting, job, live, taken, edits>>

\* A check throws, and the worker swallows it ...
CheckThrows(w) ==
    /\ job[w].stage \in {"probing", "follow", "send"}
    /\ job' = [job EXCEPT ![w] = NoJob]
    /\ Fail
    /\ UNCHANGED <<row, waiting, tick, live, taken, edits>>

\* ... or the process dies and its job stays active until it expires.
CheckDies(w) ==
    /\ job[w].stage \in {"probing", "follow", "send"}
    /\ job' = [job EXCEPT ![w].stage = "dead"]
    /\ Fail
    /\ UNCHANGED <<row, waiting, tick, live, taken, edits>>

Restart(w) ==
    /\ job[w].stage = "dead" /\ job[w].left = 0
    /\ job' = [job EXCEPT ![w] = NoJob]
    /\ UNCHANGED <<row, waiting, tick, live, taken, edits, failures>>

-----------------------------------------------------------------------------
Fast(m) == row[m].fast /\ row[m].capable /\ ~ row[m].paused

\* The plane's reload claims the shards when it has something to probe ...
ClaimShards ==
    /\ ~ live /\ \E m \in Monitor : Fast(m)
    /\ live' = TRUE
    /\ UNCHANGED <<row, waiting, tick, job, taken, edits, failures>>

\* ... hands them back when it has not ...
ReleaseShards ==
    /\ live /\ \A m \in Monitor : ~ Fast(m)
    /\ live' = FALSE
    /\ UNCHANGED <<row, waiting, tick, job, taken, edits, failures>>

\* ... and may die, after which its leases run out.
PlaneDies ==
    /\ live
    /\ live' = FALSE
    /\ Fail
    /\ UNCHANGED <<row, waiting, tick, job, taken, edits>>

\* A sample that becomes an observation of record.
Promote(m, delay) ==
    /\ live /\ Fast(m)
    /\ row' = Landed(m, delay)
    /\ taken' = [taken EXCEPT ![m] = 0]
    /\ job' = Disturb(job, m)
    /\ UNCHANGED <<waiting, tick, live, edits, failures>>

-----------------------------------------------------------------------------
Edit == edits < MaxEdits /\ edits' = edits + 1

\* runMonitorNow: no queue and no follow-up.
RunMonitorNow(m, delay) ==
    /\ ~ row[m].paused
    /\ row' = Landed(m, delay)
    /\ taken' = [taken EXCEPT ![m] = 0]
    /\ job' = Disturb(job, m)
    /\ Edit
    /\ UNCHANGED <<waiting, tick, live, failures>>

\* setMonitorPaused: due at once, both ways; the claim stays.
SetMonitorPaused(m, paused) ==
    /\ row' = [row EXCEPT ![m] = [@ EXCEPT !.paused = paused, !.due = 0]]
    /\ job' = Disturb(job, m)
    /\ Edit
    /\ UNCHANGED <<waiting, tick, live, taken, failures>>

\* updateMonitor, a new interval or a new check type: due at once; the
\* high-frequency flag stays.
UpdateMonitor(m, capable) ==
    /\ row' = [row EXCEPT ![m] = [@ EXCEPT !.due = 0, !.capable = capable]]
    /\ Edit
    /\ UNCHANGED <<waiting, tick, job, live, taken, failures>>

\* setHighFrequency: refused for other types; off, the monitor is due.
SetHighFrequency(m, enabled) ==
    /\ enabled => row[m].capable
    /\ row' = [row EXCEPT ![m].fast = enabled, ![m].due = IF enabled THEN @ ELSE 0]
    /\ Edit
    /\ UNCHANGED <<waiting, tick, job, live, taken, failures>>

RunDown_Kept(claim) == claim

\* A claim is past when its time is: "is null or <= now()".
RunDown(claim) == Least(claim - 1)

\* Time passes.
Advance ==
    /\ row' = [m \in Monitor |-> [row[m] EXCEPT
                  !.due = IF @ > 0 - Overdue THEN @ - 1 ELSE @,
                  !.claim = RunDown(@)]]
    /\ taken' = [m \in Monitor |-> IF row[m].claim <= 1 THEN 0 ELSE taken[m]]
    /\ waiting' = [m \in Monitor |-> IF waiting[m] = Never THEN Never
                                     ELSE Least(waiting[m] - 1)]
    /\ job' = [w \in Worker |-> [job[w] EXCEPT !.left = Least(@ - 1),
                                               !.next = Least(@ - 1)]]
    /\ UNCHANGED <<tick, live, edits, failures>>

-----------------------------------------------------------------------------
TickStep(t) ==
    \/ FindDueMonitors(t)
    \/ DeferHighFrequencyOwned(t)
    \/ ClaimMonitorsForDispatch(t)
    \/ Insert(t)

FetchStep(m) == \E w \in Worker : RunMonitorCheck(w, m) \/ DeclineCheck(w, m)

CheckStep(w) ==
    \/ \E delay \in Delays : RecordCheckOutcome(w, delay)
    \/ RecordNothing(w)
    \/ Reserve(w)
    \/ ReserveLost(w)
    \/ Send(w)
    \/ Restart(w)

PlaneStep(m) == \E delay \in Delays : Promote(m, delay)

OperatorStep ==
    \E m \in Monitor :
        \/ \E delay \in Delays : RunMonitorNow(m, delay)
        \/ \E paused \in BOOLEAN : SetMonitorPaused(m, paused)
        \/ \E capable \in Capable : UpdateMonitor(m, capable)
        \/ \E enabled \in BOOLEAN : SetHighFrequency(m, enabled)

FailureStep ==
    \/ \E t \in Ticker : TickFails(t)
    \/ \E w \in Worker : CheckThrows(w) \/ CheckDies(w)
    \/ PlaneDies

Next ==
    \/ \E t \in Ticker : TickStep(t)
    \/ \E m \in Monitor : FetchStep(m) \/ PlaneStep(m)
    \/ \E w \in Worker : CheckStep(w)
    \/ ClaimShards
    \/ ReleaseShards
    \/ OperatorStep
    \/ FailureStep
    \/ Advance

Spec == Init /\ [][Next]_vars

\* Cron fires every minute, the queue hands out its jobs oldest first, a check
\* and a tick that do not die come to their end, and the plane probes what it
\* holds.  With two Delays or more a promotion is never a stuttering step.
Fairness ==
    /\ WF_vars(Advance)
    /\ \A t \in Ticker : WF_vars(TickStep(t))
    /\ \A m \in Monitor : SF_vars(FetchStep(m)) /\ WF_vars(PlaneStep(m))
    /\ \A w \in Worker : WF_vars(CheckStep(w))
    /\ WF_vars(ReleaseShards)

FairSpec == Spec /\ Fairness

-----------------------------------------------------------------------------
\* The schedule's columns, the queue and the jobs keep their shape; no time
\* left is negative.
TypeOK ==
    /\ row \in [Monitor -> MonitorRow]
    /\ waiting \in [Monitor -> Nat \cup {Never}]
    /\ tick \in [Ticker -> Tick]
    /\ job \in [Worker -> Job]
    /\ live \in BOOLEAN
    /\ taken \in [Monitor -> Nat]
    /\ edits \in Nat /\ failures \in Nat

\* "two ticks running at once enqueue each monitor at most once": between two
\* moments at which the monitor is free (a check landed or the lease ran out)
\* one tick or follow-up takes the right to enqueue it, and the claim on the
\* row says so as long as it lasts.
OneDispatch ==
    \A m \in Monitor : taken[m] = (IF row[m].claim > 0 THEN 1 ELSE 0)

\* Only an observation, or the deferral of a monitor the fast plane has, moves
\* a due time into the future: a decision taken on a flag an operator has
\* since cleared postpones nothing.
PostponedOnlyIfFast ==
    [][\A m \in Monitor :
          row'[m].due > row[m].due /\ row'[m].due > 0 =>
              row[m].fast \/ \E delay \in Delays : row' = Landed(m, delay)]_vars

Landing(m) ==
    \E delay \in Delays :
        \/ \E w \in Worker : job[w].monitor = m /\ RecordCheckOutcome(w, delay)
        \/ RunMonitorNow(m, delay)
        \/ Promote(m, delay)

\* A monitor that stays unpaused is checked again and again, whoever dies
\* between claiming, enqueueing, probing and following up, and whichever plane
\* it is on: degrading to silence is an outage nobody sees.
NeverSilent ==
    \A m \in Monitor : <>[](~ row[m].paused) => []<><<Landing(m)>>_vars
=============================================================================
