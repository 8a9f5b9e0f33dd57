-------------------------- MODULE SchedulerProofs ---------------------------
(***************************************************************************)
(* Proofs about Scheduler, for any number of monitors, overlapping ticks,  *)
(* concurrent checks, operators' acts and failures.                        *)
(***************************************************************************)
EXTENDS Scheduler, TLAPS

\* A check in progress is the check of some monitor.
Grounded ==
    \A w \in Worker : job[w].stage # "idle" => job[w].monitor \in Monitor

\* The inductive invariant.
SchedulerInv == TypeOK /\ Grounded /\ OneDispatch

-----------------------------------------------------------------------------
\* What an update of a row leaves alone.
LEMMA RowPaused ==
    ASSUME NEW r \in MonitorRow, NEW b \in BOOLEAN, NEW d \in Int
    PROVE  /\ [r EXCEPT !.paused = b, !.due = d] \in MonitorRow
           /\ [r EXCEPT !.paused = b, !.due = d].claim = r.claim
  <1> DEFINE q == [r EXCEPT !.paused = b, !.due = d]
  <1>1. q = [r EXCEPT !.paused = b, !.due = d]
    OBVIOUS
  <1> HIDE DEF q
  <1>2. q \in MonitorRow /\ q.claim = r.claim
    BY <1>1 DEF MonitorRow
  <1> QED
    BY <1>1, <1>2

\* A monitor whose type changes.
LEMMA RowRetyped ==
    ASSUME NEW r \in MonitorRow, NEW b \in BOOLEAN, NEW d \in Int
    PROVE  /\ [r EXCEPT !.due = d, !.capable = b] \in MonitorRow
           /\ [r EXCEPT !.due = d, !.capable = b].claim = r.claim
  <1> DEFINE q == [r EXCEPT !.due = d, !.capable = b]
  <1>1. q = [r EXCEPT !.due = d, !.capable = b]
    OBVIOUS
  <1> HIDE DEF q
  <1>2. q \in MonitorRow /\ q.claim = r.claim
    BY <1>1 DEF MonitorRow
  <1> QED
    BY <1>1, <1>2

\* A monitor that becomes fast, or is no longer.
LEMMA RowHastened ==
    ASSUME NEW r \in MonitorRow, NEW b \in BOOLEAN, NEW d \in Int
    PROVE  /\ [r EXCEPT !.fast = b, !.due = d] \in MonitorRow
           /\ [r EXCEPT !.fast = b, !.due = d].claim = r.claim
  <1> DEFINE q == [r EXCEPT !.fast = b, !.due = d]
  <1>1. q = [r EXCEPT !.fast = b, !.due = d]
    OBVIOUS
  <1> HIDE DEF q
  <1>2. q \in MonitorRow /\ q.claim = r.claim
    BY <1>1 DEF MonitorRow
  <1> QED
    BY <1>1, <1>2

\* A job whose clocks move.
LEMMA JobMoved ==
    ASSUME NEW j \in Job, NEW n \in Nat, NEW k \in Nat
    PROVE  /\ [j EXCEPT !.left = n, !.next = k] \in Job
           /\ [j EXCEPT !.left = n, !.next = k].stage = j.stage
           /\ [j EXCEPT !.left = n, !.next = k].monitor = j.monitor
  <1> DEFINE q == [j EXCEPT !.left = n, !.next = k]
  <1>1. q = [j EXCEPT !.left = n, !.next = k]
    OBVIOUS
  <1> HIDE DEF q
  <1>2. q \in Job /\ q.stage = j.stage /\ q.monitor = j.monitor
    BY <1>1 DEF Job
  <1> QED
    BY <1>1, <1>2

\* A clock stops at zero.
LEMMA LeastNat == \A n \in Int : Least(n) \in Nat
  BY DEF Least

\* A tick between two runs.
LEMMA NoTickTyped == NoTick \in Tick
  BY DEF NoTick, Tick, TickStage

\* A worker without a job.
LEMMA NoJobTyped == NoJob \in Job
  BY DEF NoJob, Job, JobStage

\* A row that moved under a job only marks the job.
LEMMA DisturbTyped ==
    ASSUME TypeOK, NEW m
    PROVE  /\ Disturb(job, m) \in [Worker -> Job]
           /\ \A w \in Worker : /\ Disturb(job, m)[w].monitor = job[w].monitor
                                /\ Disturb(job, m)[w].stage = job[w].stage
  <1>1. \A w \in Worker :
            LET new == [job[w] EXCEPT !.moved = TRUE]
            IN new \in Job /\ new.monitor = job[w].monitor /\ new.stage = job[w].stage
    BY DEF TypeOK, Job
  <1> QED
    BY <1>1 DEF TypeOK, Disturb

\* A landed observation frees the monitor.
LEMMA LandedTyped ==
    ASSUME TypeOK, NEW m \in Monitor, NEW delay \in Delays
    PROVE  /\ Landed(m, delay) \in [Monitor -> MonitorRow]
           /\ Landed(m, delay)[m].claim = 0
           /\ \A k \in Monitor \ {m} : Landed(m, delay)[k] = row[k]
           /\ Landed(m, delay)[m].due = delay
  <1> DEFINE new == [row[m] EXCEPT !.due = delay, !.claim = 0]
  <1>1. new \in MonitorRow /\ new.claim = 0 /\ new.due = delay
    <2>1. row[m] \in MonitorRow /\ delay \in Int /\ 0 \in Nat
      BY SchedulerConstants DEF TypeOK
    <2>2. new = [row[m] EXCEPT !.due = delay, !.claim = 0]
      OBVIOUS
    <2> HIDE DEF new
    <2> QED
      BY <2>1, <2>2 DEF MonitorRow
  <1>2. Landed(m, delay) = [row EXCEPT ![m] = new]
    BY DEF Landed, TypeOK, MonitorRow
  <1> HIDE DEF new
  <1> QED
    BY <1>1, <1>2 DEF TypeOK

\* Dispatching counts one more for each monitor taken.
LEMMA DispatchTyped ==
    ASSUME TypeOK, NEW ms
    PROVE  /\ Dispatch(ms) \in [Monitor -> Nat]
           /\ \A m \in Monitor : Dispatch(ms)[m] = IF m \in ms THEN taken[m] + 1 ELSE taken[m]
  BY DEF TypeOK, Dispatch

\* A step that leaves the claims alone.
LEMMA ClaimsKept ==
    ASSUME SchedulerInv, TypeOK', Grounded', taken' = taken,
           \A m \in Monitor : row'[m].claim = row[m].claim
    PROVE  SchedulerInv'
  BY DEF SchedulerInv, OneDispatch

\* A step by which an observation of m lands.
LEMMA LandedInv ==
    ASSUME SchedulerInv, NEW m \in Monitor, NEW delay \in Delays,
           row' = Landed(m, delay), taken' = [taken EXCEPT ![m] = 0]
    PROVE  /\ OneDispatch'
           /\ row' \in [Monitor -> MonitorRow]
           /\ taken' \in [Monitor -> Nat]
  <1>1. row' \in [Monitor -> MonitorRow]
    BY LandedTyped DEF SchedulerInv
  <1>2. taken' \in [Monitor -> Nat]
    BY DEF SchedulerInv, TypeOK
  <1>3. \A k \in Monitor : taken'[k] = (IF row'[k].claim > 0 THEN 1 ELSE 0)
    <2> TAKE k \in Monitor
    <2>1. CASE k = m
      BY <2>1, LandedTyped DEF SchedulerInv, TypeOK
    <2>2. CASE k # m
      BY <2>2, LandedTyped DEF SchedulerInv, TypeOK, OneDispatch
    <2> QED  BY <2>1, <2>2
  <1> QED
    BY <1>1, <1>2, <1>3 DEF OneDispatch

\* The invariant holds before the first tick.
LEMMA InitInv == Init => SchedulerInv
  <1> SUFFICES ASSUME Init PROVE SchedulerInv
    OBVIOUS
  <1>1. row \in [Monitor -> MonitorRow] /\ \A m \in Monitor : row[m].claim = 0
    BY DEF Init, MonitorRow
  <1>2. TypeOK
    BY <1>1, SchedulerConstants, NoTickTyped, NoJobTyped DEF Init, TypeOK
  <1>3. Grounded
    BY DEF Init, Grounded, NoJob
  <1>4. OneDispatch
    BY <1>1 DEF Init, OneDispatch
  <1> QED
    BY <1>2, <1>3, <1>4 DEF SchedulerInv

-----------------------------------------------------------------------------
\* The steps of a tick.
LEMMA TickInv ==
    ASSUME SchedulerInv, NEW t \in Ticker, TickStep(t)
    PROVE  SchedulerInv'
  <1> USE SchedulerConstants DEF SchedulerInv
  <1>1. CASE FindDueMonitors(t)
    <2>1. PICK s \in Selections : tick' = [tick EXCEPT ![t] =
             [stage |-> "selected", due |-> {m \in s : ~ Owned(m)},
              owned |-> {m \in s : Owned(m)}]]
      BY <1>1 DEF FindDueMonitors
    <2>2. s \subseteq Monitor
      BY DEF Selections
    <2>3. tick' \in [Ticker -> Tick]
      BY <2>1, <2>2 DEF TypeOK, Tick, TickStage
    <2> QED
      BY <1>1, <2>3, ClaimsKept DEF FindDueMonitors, TypeOK, Grounded
  <1>2. CASE DeferHighFrequencyOwned(t)
    <2>1. /\ row' \in [Monitor -> MonitorRow]
          /\ \A m \in Monitor : row'[m].claim = row[m].claim
      <3>1. \A m \in Monitor : /\ [row[m] EXCEPT !.due = Deferral] \in MonitorRow
                               /\ [row[m] EXCEPT !.due = Deferral].claim = row[m].claim
        BY DEF TypeOK, MonitorRow
      <3> QED
        BY <1>2, <3>1 DEF DeferHighFrequencyOwned, TypeOK
    <2>2. tick' \in [Ticker -> Tick]
      BY <1>2 DEF DeferHighFrequencyOwned, TypeOK, Tick, TickStage
    <2>3. TypeOK'
      BY <1>2, <2>1, <2>2 DEF DeferHighFrequencyOwned, TypeOK
    <2> QED
      BY <1>2, <2>1, <2>3, ClaimsKept DEF DeferHighFrequencyOwned, Grounded
  <1>3. CASE ClaimMonitorsForDispatch(t)
    <2> DEFINE mine == {m \in tick[t].due : Claimable(m)}
    <2>1. mine \subseteq Monitor /\ \A m \in mine : row[m].claim = 0
      BY DEF TypeOK, Tick, Claimable, Due, Free
    <2>2. /\ row' = [m \in Monitor |-> IF m \in mine THEN [row[m] EXCEPT !.claim = Lease]
                                       ELSE row[m]]
          /\ taken' = Dispatch(mine)
          /\ tick' = [tick EXCEPT ![t] = IF mine = {} THEN NoTick
                                         ELSE [NoTick EXCEPT !.stage = "claimed", !.due = mine]]
          /\ UNCHANGED <<waiting, job, live, edits, failures>>
      BY <1>3 DEF ClaimMonitorsForDispatch
    <2> HIDE DEF mine
    <2>3. tick' \in [Ticker -> Tick]
      BY <2>1, <2>2, NoTickTyped DEF TypeOK, Tick, TickStage, NoTick
    <2>4. \A m \in Monitor : /\ [row[m] EXCEPT !.claim = Lease] \in MonitorRow
                             /\ [row[m] EXCEPT !.claim = Lease].claim = Lease
      BY DEF TypeOK, MonitorRow
    <2>5. row' \in [Monitor -> MonitorRow]
      BY <2>2, <2>4 DEF TypeOK
    <2>6. taken' \in [Monitor -> Nat]
      BY <2>2, DispatchTyped
    <2>7. ASSUME NEW m \in Monitor PROVE taken'[m] = (IF row'[m].claim > 0 THEN 1 ELSE 0)
      <3>1. CASE m \in mine
        <4>1. row'[m].claim = Lease
          BY <2>2, <2>4, <3>1
        <4>2. taken[m] = 0
          BY <2>1, <3>1 DEF OneDispatch
        <4>3. taken'[m] = 1
          BY <2>2, <3>1, <4>2, DispatchTyped
        <4> QED  BY <4>1, <4>3
      <3>2. CASE m \notin mine
        BY <2>2, <3>2, DispatchTyped DEF OneDispatch
      <3> QED  BY <3>1, <3>2
    <2> QED
      BY <2>2, <2>3, <2>5, <2>6, <2>7 DEF TypeOK, OneDispatch, Grounded
  <1>4. CASE Insert(t)
    <2>1. tick' \in [Ticker -> Tick] /\ waiting' \in [Monitor -> Nat \cup {Never}]
      BY <1>4, NoTickTyped DEF Insert, TypeOK
    <2> QED
      BY <1>4, <2>1, ClaimsKept DEF Insert, TypeOK, Grounded
  <1> QED
    BY <1>1, <1>2, <1>3, <1>4 DEF TickStep

\* A worker fetches a job, or finds a reason not to.
LEMMA FetchInv ==
    ASSUME SchedulerInv, NEW m \in Monitor, FetchStep(m)
    PROVE  SchedulerInv'
  <1> USE SchedulerConstants DEF SchedulerInv
  <1>1. ASSUME NEW w \in Worker, RunMonitorCheck(w, m) PROVE SchedulerInv'
    <2>1. job' \in [Worker -> Job]
      BY <1>1 DEF RunMonitorCheck, TypeOK, NoJob, Job, JobStage
    <2>3. Grounded'
      BY <1>1 DEF RunMonitorCheck, TypeOK, NoJob, Grounded
    <2>2. waiting' \in [Monitor -> Nat \cup {Never}]
      BY <1>1 DEF RunMonitorCheck, TypeOK
    <2> QED
      BY <1>1, <2>1, <2>2, <2>3, ClaimsKept DEF RunMonitorCheck, TypeOK
  <1>2. ASSUME NEW w \in Worker, DeclineCheck(w, m) PROVE SchedulerInv'
    BY <1>2, ClaimsKept DEF DeclineCheck, TypeOK, Grounded
  <1> QED
    BY <1>1, <1>2 DEF FetchStep

\* A job, from its outcome to its follow-ups.
LEMMA CheckInv ==
    ASSUME SchedulerInv, NEW w \in Worker, CheckStep(w)
    PROVE  SchedulerInv'
  <1> USE SchedulerConstants DEF SchedulerInv
  <1>1. ASSUME NEW delay \in Delays, RecordCheckOutcome(w, delay) PROVE SchedulerInv'
    <2> DEFINE m == job[w].monitor
               mine == IF delay <= TickPeriod
                       THEN [job[w] EXCEPT !.stage = "follow", !.next = delay] ELSE NoJob
    <2>1. m \in Monitor
      BY <1>1 DEF RecordCheckOutcome, Grounded
    <2>2. /\ row' = Landed(m, delay) /\ taken' = [taken EXCEPT ![m] = 0]
          /\ job' = [Disturb(job, m) EXCEPT ![w] = mine]
          /\ UNCHANGED <<waiting, tick, live, edits, failures>>
      BY <1>1 DEF RecordCheckOutcome
    <2>3. mine \in Job /\ (mine.stage # "idle" => mine.monitor \in Monitor)
      BY <2>1, NoJobTyped DEF TypeOK, Job, JobStage, NoJob
    <2> HIDE DEF m, mine
    <2>4. job' \in [Worker -> Job] /\ Grounded'
      BY <2>2, <2>3, DisturbTyped DEF Grounded
    <2> QED
      BY <2>1, <2>2, <2>4, LandedInv DEF TypeOK
  <1>2. CASE RecordNothing(w)
    <2> DEFINE m == job[w].monitor
    <2>1. m \in Monitor
      BY <1>2 DEF RecordNothing, Grounded
    <2>2. Least(row[m].due) \in Nat
      BY <2>1, LeastNat DEF TypeOK, MonitorRow
    <2>3. job' \in [Worker -> Job] /\ Grounded'
      <3> DEFINE new == [job[w] EXCEPT !.stage = "follow", !.next = Least(row[m].due)]
      <3>1. /\ new \in Job /\ new.monitor = m
            /\ NoJob \in Job /\ NoJob.stage = "idle"
        BY <2>2, NoJobTyped DEF TypeOK, Job, JobStage, NoJob
      <3>2. job' = [job EXCEPT ![w] = NoJob] \/ job' = [job EXCEPT ![w] = new]
        BY <1>2 DEF RecordNothing, TypeOK
      <3> HIDE DEF new
      <3> QED
        BY <2>1, <3>1, <3>2 DEF TypeOK, Grounded
    <2> QED
      BY <1>2, <2>3, ClaimsKept DEF RecordNothing, TypeOK
  <1>3. CASE Reserve(w)
    <2> DEFINE m == job[w].monitor
               new == [row[m] EXCEPT !.claim = job[w].next + Lease]
    <2>1. m \in Monitor /\ row[m].claim = 0
      BY <1>3 DEF Reserve, Grounded, Reservable, Free
    <2>2. new \in MonitorRow /\ new.claim > 0
      BY <2>1 DEF TypeOK, MonitorRow, Job
    <2>3. /\ row' = [row EXCEPT ![m] = new] /\ taken' = Dispatch({m})
          /\ job' = [job EXCEPT ![w].stage = "send"]
          /\ UNCHANGED <<waiting, tick, live, edits, failures>>
      BY <1>3 DEF Reserve, TypeOK
    <2>4. job' \in [Worker -> Job] /\ Grounded'
      BY <2>1, <2>3 DEF TypeOK, Job, JobStage, Grounded
    <2> HIDE DEF m, new
    <2>5. row' \in [Monitor -> MonitorRow] /\ taken' \in [Monitor -> Nat]
      BY <2>1, <2>2, <2>3, DispatchTyped DEF TypeOK
    <2>6. OneDispatch'
      BY <2>1, <2>2, <2>3, DispatchTyped DEF OneDispatch, TypeOK
    <2> QED
      BY <2>3, <2>4, <2>5, <2>6 DEF TypeOK
  <1>4. CASE ReserveLost(w)
    <2>1. job' \in [Worker -> Job] /\ Grounded'
      BY <1>4, NoJobTyped DEF ReserveLost, TypeOK, Grounded, NoJob
    <2> QED
      BY <1>4, <2>1, ClaimsKept DEF ReserveLost, TypeOK
  <1>5. CASE Send(w)
    <2>1. job' \in [Worker -> Job] /\ Grounded'
      BY <1>5, NoJobTyped DEF Send, TypeOK, Grounded, NoJob
    <2>2. waiting' \in [Monitor -> Nat \cup {Never}]
      BY <1>5 DEF Send, TypeOK, Job
    <2> QED
      BY <1>5, <2>1, <2>2, ClaimsKept DEF Send, TypeOK
  <1>6. CASE Restart(w)
    <2>1. job' \in [Worker -> Job] /\ Grounded'
      BY <1>6, NoJobTyped DEF Restart, TypeOK, Grounded, NoJob
    <2> QED
      BY <1>6, <2>1, ClaimsKept DEF Restart, TypeOK
  <1> QED
    BY <1>1, <1>2, <1>3, <1>4, <1>5, <1>6 DEF CheckStep

\* The high-frequency plane takes, gives back and promotes monitors.
LEMMA PlaneInv ==
    ASSUME SchedulerInv,
           \/ \E m \in Monitor : PlaneStep(m)
           \/ ClaimShards \/ ReleaseShards
    PROVE  SchedulerInv'
  <1> USE SchedulerConstants DEF SchedulerInv
  <1>1. ASSUME NEW m \in Monitor, NEW delay \in Delays, Promote(m, delay)
        PROVE  SchedulerInv'
    <2>1. job' \in [Worker -> Job] /\ Grounded'
      BY <1>1, DisturbTyped DEF Promote, Grounded
    <2> QED
      BY <1>1, <2>1, LandedInv DEF Promote, TypeOK
  <1>2. CASE ClaimShards
    BY <1>2, ClaimsKept DEF ClaimShards, TypeOK, Grounded
  <1>3. CASE ReleaseShards
    BY <1>3, ClaimsKept DEF ReleaseShards, TypeOK, Grounded
  <1> QED
    BY <1>1, <1>2, <1>3 DEF PlaneStep

\* What an operator may do to a monitor.
LEMMA OperatorInv ==
    ASSUME SchedulerInv, OperatorStep
    PROVE  SchedulerInv'
  <1> USE SchedulerConstants DEF SchedulerInv, Edit
  <1>1. ASSUME NEW m \in Monitor, NEW delay \in Delays, RunMonitorNow(m, delay)
        PROVE  SchedulerInv'
    <2>1. job' \in [Worker -> Job] /\ Grounded'
      BY <1>1, DisturbTyped DEF RunMonitorNow, Grounded
    <2>2. edits' \in Nat
      BY <1>1 DEF RunMonitorNow, TypeOK
    <2>3. OneDispatch' /\ row' \in [Monitor -> MonitorRow] /\ taken' \in [Monitor -> Nat]
      BY <1>1, LandedInv DEF RunMonitorNow
    <2> QED
      BY <1>1, <2>1, <2>2, <2>3 DEF RunMonitorNow, TypeOK
  <1>2. ASSUME NEW m \in Monitor, NEW paused \in BOOLEAN, SetMonitorPaused(m, paused)
        PROVE  SchedulerInv'
    <2>1. job' \in [Worker -> Job] /\ Grounded'
      BY <1>2, DisturbTyped DEF SetMonitorPaused, Grounded
    <2> DEFINE new == [row[m] EXCEPT !.paused = paused, !.due = 0]
    <2>3. row[m] \in MonitorRow /\ 0 \in Int
      BY DEF TypeOK
    <2>5. row' = [row EXCEPT ![m] = new]
      BY <1>2 DEF SetMonitorPaused
    <2>4. new \in MonitorRow /\ new.claim = row[m].claim
      BY <2>3, RowPaused
    <2> HIDE DEF new
    <2>2. row' \in [Monitor -> MonitorRow] /\ \A k \in Monitor : row'[k].claim = row[k].claim
      BY <2>3, <2>4, <2>5 DEF TypeOK
    <2> QED
      BY <1>2, <2>1, <2>2, ClaimsKept DEF SetMonitorPaused, TypeOK
  <1>3. ASSUME NEW m \in Monitor, NEW capable \in Capable, UpdateMonitor(m, capable)
        PROVE  SchedulerInv'
    <2> DEFINE new == [row[m] EXCEPT !.due = 0, !.capable = capable]
    <2>3. row[m] \in MonitorRow /\ 0 \in Int
      BY DEF TypeOK
    <2>5. row' = [row EXCEPT ![m] = new]
      BY <1>3 DEF UpdateMonitor
    <2>6. capable \in BOOLEAN
      OBVIOUS
    <2>4. new \in MonitorRow /\ new.claim = row[m].claim
      BY <2>3, <2>6, RowRetyped
    <2> HIDE DEF new
    <2>1. row' \in [Monitor -> MonitorRow] /\ \A k \in Monitor : row'[k].claim = row[k].claim
      BY <2>3, <2>4, <2>5 DEF TypeOK
    <2> QED
      BY <1>3, <2>1, ClaimsKept DEF UpdateMonitor, TypeOK, Grounded
  <1>4. ASSUME NEW m \in Monitor, NEW enabled \in BOOLEAN, SetHighFrequency(m, enabled)
        PROVE  SchedulerInv'
    <2> DEFINE d == IF enabled THEN row[m].due ELSE 0
               new == [row[m] EXCEPT !.fast = enabled, !.due = d]
    <2>6. row[m] \in MonitorRow
      BY DEF TypeOK
    <2>7. row[m].due \in Int
      BY <2>6 DEF MonitorRow
    <2>3. row[m] \in MonitorRow /\ d \in Int
      BY <2>6, <2>7
    <2>5. row' = [row EXCEPT ![m] = new]
      BY <1>4 DEF SetHighFrequency, TypeOK
    <2> HIDE DEF d
    <2>4. new \in MonitorRow /\ new.claim = row[m].claim
      BY <2>3, RowHastened
    <2> HIDE DEF new
    <2>1. row' \in [Monitor -> MonitorRow] /\ \A k \in Monitor : row'[k].claim = row[k].claim
      BY <2>3, <2>4, <2>5 DEF TypeOK
    <2> QED
      BY <1>4, <2>1, ClaimsKept DEF SetHighFrequency, TypeOK, Grounded
  <1> QED
    BY <1>1, <1>2, <1>3, <1>4 DEF OperatorStep

\* Ticks, checks and workers that fail.
LEMMA FailureInv ==
    ASSUME SchedulerInv, FailureStep
    PROVE  SchedulerInv'
  <1> USE SchedulerConstants DEF SchedulerInv, Fail
  <1>1. ASSUME NEW t \in Ticker, TickFails(t) PROVE SchedulerInv'
    <2>1. tick' \in [Ticker -> Tick]
      BY <1>1, NoTickTyped DEF TickFails, TypeOK
    <2> QED
      BY <1>1, <2>1, ClaimsKept DEF TickFails, TypeOK, Grounded
  <1>2. ASSUME NEW w \in Worker, CheckThrows(w) PROVE SchedulerInv'
    <2>1. job' \in [Worker -> Job] /\ Grounded'
      BY <1>2, NoJobTyped DEF CheckThrows, TypeOK, Grounded, NoJob
    <2> QED
      BY <1>2, <2>1, ClaimsKept DEF CheckThrows, TypeOK
  <1>3. ASSUME NEW w \in Worker, CheckDies(w) PROVE SchedulerInv'
    <2>1. job' \in [Worker -> Job] /\ Grounded'
      BY <1>3 DEF CheckDies, TypeOK, Grounded, Job, JobStage
    <2> QED
      BY <1>3, <2>1, ClaimsKept DEF CheckDies, TypeOK
  <1>4. CASE PlaneDies
    <2>1. live' \in BOOLEAN
      BY <1>4 DEF PlaneDies
    <2>2. failures' \in Nat
      BY <1>4 DEF PlaneDies, TypeOK
    <2>3. TypeOK' /\ Grounded'
      BY <1>4, <2>1, <2>2 DEF PlaneDies, TypeOK, Grounded
    <2> QED
      BY <1>4, <2>3, ClaimsKept DEF PlaneDies
  <1> QED
    BY <1>1, <1>2, <1>3, <1>4 DEF FailureStep

\* Time: claims run down one tick at a time.
LEMMA AdvanceInv ==
    ASSUME SchedulerInv, Advance
    PROVE  SchedulerInv'
  <1> USE SchedulerConstants DEF SchedulerInv
  <1> DEFINE Due1(r) == IF r.due > 0 - Overdue THEN r.due - 1 ELSE r.due
             Older(r) == [r EXCEPT !.due = Due1(r), !.claim = RunDown(r.claim)]
             Later(j) == [j EXCEPT !.left = Least(j.left - 1), !.next = Least(j.next - 1)]
  <1>1. ASSUME NEW r \in MonitorRow
        PROVE  /\ Older(r) \in MonitorRow
               /\ Older(r).claim = IF r.claim <= 1 THEN 0 ELSE r.claim - 1
    <2>1. r.due \in Int /\ r.claim \in Nat
      BY DEF MonitorRow
    <2>2. /\ Due1(r) \in Int
          /\ RunDown(r.claim) \in Nat
          /\ RunDown(r.claim) = IF r.claim <= 1 THEN 0 ELSE r.claim - 1
      BY <2>1 DEF RunDown, Least
    <2> HIDE DEF Due1
    <2>3. PICK n \in Nat : n = RunDown(r.claim)
      BY <2>2
    <2>4. PICK d \in Int : d = Due1(r)
      BY <2>2
    <2>5. Older(r) = [r EXCEPT !.due = d, !.claim = n]
      BY <2>3, <2>4
    <2> HIDE DEF Older
    <2>6. Older(r) \in MonitorRow /\ Older(r).claim = n
      BY <2>5 DEF MonitorRow
    <2> QED
      BY <2>2, <2>3, <2>6
  <1>2. ASSUME NEW j \in Job
        PROVE  /\ Later(j) \in Job
               /\ Later(j).stage = j.stage /\ Later(j).monitor = j.monitor
    <2>1. Least(j.left - 1) \in Nat /\ Least(j.next - 1) \in Nat
      BY LeastNat DEF Job
    <2> QED
      BY <2>1, JobMoved
  <1>3. row' = [m \in Monitor |-> Older(row[m])] /\ job' = [w \in Worker |-> Later(job[w])]
    BY DEF Advance
  <1> HIDE DEF Older, Later
  <1>4. row' \in [Monitor -> MonitorRow] /\ job' \in [Worker -> Job] /\ Grounded'
    BY <1>1, <1>2, <1>3 DEF TypeOK, Grounded
  <1>5. waiting' \in [Monitor -> Nat \cup {Never}]
    <2>1. \A m \in Monitor : waiting[m] # Never => Least(waiting[m] - 1) \in Nat
      BY LeastNat DEF TypeOK
    <2> QED
      BY <2>1 DEF Advance
  <1>6. taken' \in [Monitor -> Nat]
    BY DEF Advance, TypeOK
  <1>7. ASSUME NEW m \in Monitor PROVE taken'[m] = (IF row'[m].claim > 0 THEN 1 ELSE 0)
    <2>1. row[m] \in MonitorRow /\ row[m].claim \in Nat
      BY DEF TypeOK, MonitorRow
    <2>2. row'[m].claim = IF row[m].claim <= 1 THEN 0 ELSE row[m].claim - 1
      BY <1>1, <1>3, <2>1
    <2>3. taken'[m] = IF row[m].claim <= 1 THEN 0 ELSE taken[m]
      BY DEF Advance
    <2> QED
      BY <2>1, <2>2, <2>3 DEF OneDispatch
  <1> QED
    BY <1>4, <1>5, <1>6, <1>7 DEF Advance, TypeOK, OneDispatch

\* Every step keeps the invariant.
LEMMA NextInv == SchedulerInv /\ [Next]_vars => SchedulerInv'
  <1> SUFFICES ASSUME SchedulerInv, [Next]_vars PROVE SchedulerInv'
    OBVIOUS
  <1>1. CASE UNCHANGED vars
    BY <1>1 DEF vars, SchedulerInv, TypeOK, Grounded, OneDispatch
  <1>2. CASE Next
    BY <1>2, TickInv, FetchInv, CheckInv, PlaneInv, OperatorInv, FailureInv, AdvanceInv
       DEF Next
  <1> QED
    BY <1>1, <1>2

-----------------------------------------------------------------------------
\* The inductive invariant holds in every reachable state.
THEOREM SchedulerInvariant == Spec => []SchedulerInv
  BY InitInv, NextInv, PTL DEF Spec

\* The schedule's columns, the queue and the jobs keep their types.
THEOREM SchedulerTypeCorrect == Spec => []TypeOK
  BY SchedulerInvariant, PTL DEF SchedulerInv

\* However many ticks and follow-ups compete, claimMonitorsForDispatch and
\* reserveMonitorForFollowUp give a monitor to one of them at a time.
THEOREM DispatchSafe == Spec => []OneDispatch
  BY SchedulerInvariant, PTL DEF SchedulerInv

-----------------------------------------------------------------------------
\* Why a due time lies in the future: an observation landed, or the fast plane
\* has the monitor.
Reason(m) == row[m].fast \/ \E delay \in Delays : row' = Landed(m, delay)

Postpones(m) == row'[m].due > row[m].due /\ row'[m].due > 0

\* A landing observation postpones its own monitor and no other.
LEMMA LandingReason ==
    ASSUME SchedulerInv, NEW m \in Monitor, Postpones(m),
           NEW k \in Monitor, NEW delay \in Delays, row' = Landed(k, delay)
    PROVE  Reason(m)
  <1>1. CASE k = m
    BY <1>1 DEF Reason
  <1>2. CASE k # m
    <2>1. row'[m] = row[m] /\ row[m].due \in Int
      BY <1>2, LandedTyped DEF SchedulerInv, TypeOK, MonitorRow
    <2> QED
      BY <2>1 DEF Postpones
  <1> QED
    BY <1>1, <1>2

\* Whatever step postpones a monitor has one of the two reasons.
LEMMA StepReason ==
    ASSUME SchedulerInv, Next, NEW m \in Monitor, Postpones(m)
    PROVE  Reason(m)
  <1> USE SchedulerConstants
  <1>0. row \in [Monitor -> MonitorRow] /\ row[m].due \in Int
    BY DEF SchedulerInv, TypeOK, MonitorRow
  <1>1. CASE row' = row
    BY <1>0, <1>1 DEF Postpones
  <1>2. ASSUME NEW t \in Ticker, DeferHighFrequencyOwned(t) PROVE Reason(m)
    <2>1. CASE m \in Postponed(tick[t].owned)
      BY <2>1 DEF Postponed, Reason
    <2>2. CASE m \notin Postponed(tick[t].owned)
      <3>1. row'[m] = row[m]
        BY <1>2, <2>2 DEF DeferHighFrequencyOwned
      <3> QED
        BY <1>0, <3>1 DEF Postpones
    <2> QED
      BY <2>1, <2>2
  <1>3. ASSUME NEW t \in Ticker, ClaimMonitorsForDispatch(t) PROVE Reason(m)
    <2>1. [row[m] EXCEPT !.claim = Lease].due = row[m].due
      BY <1>0 DEF MonitorRow
    <2>2. row'[m] = row[m] \/ row'[m] = [row[m] EXCEPT !.claim = Lease]
      BY <1>3 DEF ClaimMonitorsForDispatch
    <2>3. row'[m].due = row[m].due
      BY <2>1, <2>2
    <2> QED
      BY <1>0, <2>3 DEF Postpones
  <1>4. ASSUME NEW w \in Worker, NEW delay \in Delays, RecordCheckOutcome(w, delay)
        PROVE  Reason(m)
    <2>1. job[w].monitor \in Monitor /\ row' = Landed(job[w].monitor, delay)
      BY <1>4 DEF RecordCheckOutcome, SchedulerInv, Grounded
    <2> QED
      BY <2>1, LandingReason
  <1>5. ASSUME NEW w \in Worker, Reserve(w) PROVE Reason(m)
    <2>1. row'[m].due = row[m].due
      BY <1>0, <1>5 DEF Reserve, MonitorRow
    <2> QED
      BY <1>0, <2>1 DEF Postpones
  <1>6. ASSUME NEW k \in Monitor, NEW delay \in Delays,
               Promote(k, delay) \/ RunMonitorNow(k, delay)
        PROVE  Reason(m)
    <2>1. row' = Landed(k, delay)
      BY <1>6 DEF Promote, RunMonitorNow
    <2> QED
      BY <2>1, LandingReason
  <1>7. ASSUME NEW k \in Monitor, NEW paused \in BOOLEAN, SetMonitorPaused(k, paused)
        PROVE  Reason(m)
    <2>1. row'[m].due = row[m].due \/ row'[m].due = 0
      BY <1>0, <1>7 DEF SetMonitorPaused, MonitorRow
    <2> QED
      BY <1>0, <2>1 DEF Postpones
  <1>8. ASSUME NEW k \in Monitor, NEW capable \in Capable, UpdateMonitor(k, capable)
        PROVE  Reason(m)
    <2>1. row'[m].due = row[m].due \/ row'[m].due = 0
      BY <1>0, <1>8 DEF UpdateMonitor, MonitorRow
    <2> QED
      BY <1>0, <2>1 DEF Postpones
  <1>9. ASSUME NEW k \in Monitor, NEW enabled \in BOOLEAN, SetHighFrequency(k, enabled)
        PROVE  Reason(m)
    <2>1. row'[m].due = row[m].due \/ row'[m].due = 0
      BY <1>0, <1>9 DEF SetHighFrequency, MonitorRow
    <2> QED
      BY <1>0, <2>1 DEF Postpones
  <1>10. CASE Advance
    <2>1. row'[m].due = IF row[m].due > 0 - Overdue THEN row[m].due - 1 ELSE row[m].due
      BY <1>0, <1>10 DEF Advance, MonitorRow
    <2> QED
      BY <1>0, <2>1 DEF Postpones
  <1>11. ASSUME NEW t \in Ticker, TickStep(t) PROVE Reason(m)
    BY <1>1, <1>2, <1>3, <1>11 DEF TickStep, FindDueMonitors, Insert
  <1>12. ASSUME NEW k \in Monitor, FetchStep(k) \/ PlaneStep(k) PROVE Reason(m)
    BY <1>1, <1>6, <1>12 DEF FetchStep, PlaneStep, RunMonitorCheck, DeclineCheck
  <1>13. ASSUME NEW w \in Worker, CheckStep(w) PROVE Reason(m)
    BY <1>1, <1>4, <1>5, <1>13
       DEF CheckStep, RecordNothing, ReserveLost, Send, Restart
  <1>14. CASE OperatorStep
    BY <1>6, <1>7, <1>8, <1>9, <1>14 DEF OperatorStep
  <1>15. CASE FailureStep \/ ClaimShards \/ ReleaseShards
    BY <1>1, <1>15 DEF FailureStep, TickFails, CheckThrows, CheckDies, PlaneDies,
                       ClaimShards, ReleaseShards
  <1> QED
    BY <1>10, <1>11, <1>12, <1>13, <1>14, <1>15 DEF Next

\* deferHighFrequencyOwned, deciding on a flag read earlier, never postpones a
\* monitor whose flag an operator has cleared in between, for any number of
\* ticks and acts.
THEOREM PostponementSafe == Spec => PostponedOnlyIfFast
  <1> DEFINE A == \A m \in Monitor : Postpones(m) => Reason(m)
  <1>1. SchedulerInv /\ [Next]_vars => [A]_vars
    BY StepReason
  <1>2. [A]_vars => [\A m \in Monitor :
            row'[m].due > row[m].due /\ row'[m].due > 0 =>
                row[m].fast \/ \E delay \in Delays : row' = Landed(m, delay)]_vars
    BY DEF Postpones, Reason
  <1> QED
    BY <1>1, <1>2, SchedulerInvariant, PTL DEF Spec, PostponedOnlyIfFast
=============================================================================
