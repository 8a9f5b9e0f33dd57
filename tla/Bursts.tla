------------------------------- MODULE Bursts --------------------------------
(***************************************************************************)
(* What is known when an incident opens (modules/incidents/evidence): the  *)
(* diagnostic burst that re-dials the target under one budget, the layer   *)
(* the failure is filed under, and the one snapshot an incident keeps.     *)
(*                                                                         *)
(* One worker process runs the captures.  A capture is made once, after    *)
(* the page; two of them may be of the same incident, when two checks      *)
(* repair the same unhandled one.  Time is in ticks of the burst's budget. *)
(***************************************************************************)
EXTENDS Naturals, Sequences, FiniteSets, TLC

CONSTANTS Captures,                 \* calls of captureIncidentEvidence
          Onsets,                   \* incidents that opened
          BURST_BUDGET,             \* ticks a whole burst may take
          BURST_STEP_TIMEOUT,       \* ticks one step may take
          MAX_CONCURRENT_BURSTS

ASSUME BurstConstants ==
    /\ BURST_BUDGET \in Nat \ {0}
    /\ BURST_STEP_TIMEOUT \in 1..BURST_BUDGET
    /\ MAX_CONCURRENT_BURSTS \in Nat \ {0}

BURST_MAX_STEPS == 4

VARIABLES onset,      \* of an incident: its monitor, whether in shadow, its age
          capture,    \* of a call: where it is and what its burst found
          inFlight,   \* the module's own count of running bursts
          evidence    \* the rows: the snapshot of an incident that has one

bvars == <<onset, capture, inFlight, evidence>>

None == "none"

-----------------------------------------------------------------------------
(* The monitors a capture may be of. *)

\* kind: how the type is judged; target: what its url column holds; port:
\* whether a port column or the type's default gives one; forbidden: a host
\* the egress policy refuses by name.
MonitorOfType(type, kind, target, port) ==
    [type |-> type, kind |-> kind, target |-> target, port |-> port,
     highFrequency |-> FALSE, forbidden |-> FALSE]

BurstMonitors ==
    LET https == MonitorOfType("http", "active", "https", FALSE)
    IN  { https,
          [https EXCEPT !.highFrequency = TRUE],
          [https EXCEPT !.forbidden = TRUE],
          MonitorOfType("http", "active", "http", FALSE),
          MonitorOfType("synthetic-browser", "active", "https", FALSE),
          MonitorOfType("tls-expiry", "active", "host", TRUE),
          MonitorOfType("postgres", "active", "dsn", TRUE),
          MonitorOfType("ping", "active", "host", FALSE),
          MonitorOfType("system-service", "active", "label", FALSE),
          MonitorOfType("tcp", "active", "nohost", TRUE),
          MonitorOfType("push", "passive", "label", FALSE),
          MonitorOfType("group", "derived", "label", FALSE) }

\* burstTargetFor: is there anything to dial, and which of the steps apply.
\* The HTTP request is repeated only for the type whose own probe makes the
\* same one.
HasTarget(m) == m.kind = "active" /\ m.target \notin {"label", "nohost"}

BurstTargetFor(m) ==
    LET web == m.target \in {"https", "http"}
    IN  [ port |-> web \/ m.target = "dsn" \/ m.port,
          tls  |-> IF web THEN m.target = "https" ELSE m.type = "tls-expiry",
          url  |-> web /\ m.type = "http" ]

-----------------------------------------------------------------------------
(* The burst. *)

NotBegun == [at |-> "idle", onset |-> None, spent |-> 0, steps |-> <<>>,
             skipped |-> None, verdict |-> [stage |-> None, basis |-> None]]

BInit ==
    /\ onset \in [Onsets -> [monitor : BurstMonitors, shadow : BOOLEAN, age : {"open"}]]
    /\ capture = [c \in Captures |-> NotBegun]
    /\ inFlight = 0
    /\ evidence = <<>>

\* No incident ever opens.
BurstIdle ==
    /\ onset = [i \in Onsets |-> [monitor |-> None, shadow |-> FALSE, age |-> "never"]]
    /\ capture = [c \in Captures |-> NotBegun]
    /\ inFlight = 0
    /\ evidence = <<>>

\* captureBurst, and runBurst up to its first step: why nothing is dialled.
SkipReason(i, enabled) ==
    LET m == onset[i].monitor
    IN  CASE onset[i].shadow -> "shadow"
          [] ~ onset[i].shadow /\ ~ enabled -> "disabled"
          [] OTHER ->
             IF m.highFrequency THEN "high-frequency"
             ELSE IF ~ HasTarget(m) THEN "no-target"
             ELSE IF m.forbidden THEN "refused"
             ELSE IF inFlight >= MAX_CONCURRENT_BURSTS THEN "concurrency"
             ELSE None

\* slice: what a step may take is what is left of the whole.
Slice_PerStep(spent) == BURST_STEP_TIMEOUT

Slice(spent) ==
    LET left == IF spent >= BURST_BUDGET THEN 0 ELSE BURST_BUDGET - spent
    IN  IF left < BURST_STEP_TIMEOUT THEN left ELSE BURST_STEP_TIMEOUT

\* The step after a successful one, when its protocol applies and there is
\* time for it; "built" when the burst is over.
StepAfter(kind, target, spent) ==
    IF Slice(spent) = 0 THEN "built"
    ELSE CASE kind = "dns" /\ target.port -> "tcp"
           [] kind = "tcp" /\ target.tls -> "tls"
           [] kind = "tcp" /\ ~ target.tls /\ target.url -> "http"
           [] kind = "tls" /\ target.url -> "http"
           [] OTHER -> "built"

Dialling(c) == capture[c].at \in {"dns", "tcp", "tls", "http"}

CaptureBegins(c, i, enabled) ==
    /\ capture[c].at = "idle"
    /\ onset[i].age = "open"
    /\ LET why == SkipReason(i, enabled)
       IN  /\ capture' = [capture EXCEPT ![c] = [NotBegun EXCEPT
                  !.at = IF why = None THEN "dns" ELSE "built",
                  !.onset = i, !.skipped = why]]
           /\ inFlight' = IF why = None THEN inFlight + 1 ELSE inFlight
    /\ UNCHANGED <<onset, evidence>>

\* What is kept of a step.
StepRecord(kind, ok, by) == [kind |-> kind, ok |-> ok, by |-> by]

\* Connecting, shaking hands and asking have a timer of their own, set to the
\* step's slice; the system's lookup has none.
TransportTimed(kind) == kind # "dns"

\* Who ended a step: the target by answering, the transport's timer ("transport"
\* after a step's whole time, "budget" when the budget left it less), or the timer
\* of step() itself ("vigil").
Enders == {"target", "transport", "budget", "vigil"}

\* isSelfInflicted: only the burst's own timer and its budget say so.  The
\* transport's timer, set to the same slice, reads as an answer.
SelfInflicted(step) == ~ step.ok /\ step.by = "vigil"

\* step() and record(): one step ends after d, answered (well or badly) or cut off.
\* The finally of runBurst gives the slot back however it ends.
StepEnds(c, d, ok, by) ==
    LET now   == capture[c]
        spent == now.spent + d
        steps == Append(now.steps, StepRecord(now.at, ok, by))
        next  == IF ok THEN StepAfter(now.at, BurstTargetFor(onset[now.onset].monitor), spent)
                       ELSE "built"
    IN  /\ Dialling(c)
        /\ by # "target" => ~ ok /\ d = Slice(now.spent)
        /\ by \in {"transport", "budget"} => TransportTimed(now.at)
        /\ by = "transport" => Slice(now.spent) = BURST_STEP_TIMEOUT
        /\ by = "budget" => Slice(now.spent) < BURST_STEP_TIMEOUT
        /\ capture' = [capture EXCEPT ![c] =
               [now EXCEPT !.at = next, !.spent = spent, !.steps = steps]]
        /\ inFlight' = IF next = "built" THEN inFlight - 1 ELSE inFlight
        /\ UNCHANGED <<onset, evidence>>

\* The name resolves to an address the policy refuses: nothing is dialled.
AddressRefused(c, d) ==
    /\ capture[c].at = "dns"
    /\ capture' = [capture EXCEPT ![c] = [capture[c] EXCEPT
           !.at = "built", !.spent = capture[c].spent + d, !.skipped = "refused",
           !.steps = <<StepRecord("dns", TRUE, "target")>>]]
    /\ inFlight' = inFlight - 1
    /\ UNCHANGED <<onset, evidence>>

-----------------------------------------------------------------------------
(* The layer. *)

\* What the failed check said: its class, whether an HTTP status came back,
\* and the layer its error text names.
ObservedFailures ==
    [class : {"assertion", "unavailable", "misconfigured"},
     answered : BOOLEAN,
     names : {"dns", "tls", "tcp", "timeout", "nothing"}]

Verdict(stage, basis) == [stage |-> stage, basis |-> basis]

\* measuredStage: the first failed step that is not Vigil's own doing.
FailedSteps_All(steps) == { n \in DOMAIN steps : ~ steps[n].ok }

FailedSteps(steps) == { n \in DOMAIN steps : ~ steps[n].ok /\ ~ SelfInflicted(steps[n]) }

First(ns) == CHOOSE n \in ns : \A k \in ns : n <= k

Named(failure) == failure.names \in {"dns", "tls", "tcp"}

\* classifyStage, its tests in their order.
ClassifyStage(failure, m, steps) ==
    LET failed == FailedSteps(steps)
    IN  IF failed # {} THEN Verdict(steps[First(failed)].kind, "measured")
        ELSE IF failure.class = "misconfigured" THEN Verdict("unknown", "unknown")
        ELSE IF m.type = "synthetic-browser" /\ failure.class = "assertion"
        THEN IF Named(failure) THEN Verdict(failure.names, "reported")
                               ELSE Verdict("browser", "assertion")
        ELSE IF failure.answered
        THEN IF failure.class = "assertion" THEN Verdict("application", "assertion")
                                            ELSE Verdict("http", "reported")
        ELSE IF failure.class = "assertion"
        THEN IF m.kind # "active" THEN Verdict("unknown", "unknown")
                                  ELSE Verdict("application", "assertion")
        ELSE IF Named(failure) THEN Verdict(failure.names, "reported")
        ELSE Verdict("unknown", "unknown")

\* What a monitor's own check can have said: one that dials nothing has only
\* its rule to break, and only a request over HTTP has a status.
Observed(m) ==
    { f \in ObservedFailures :
        /\ m.kind # "active" => f.class = "assertion" /\ ~ f.answered /\ f.names = "nothing"
        /\ f.answered => m.target \in {"https", "http"} }

-----------------------------------------------------------------------------
(* The snapshot. *)

\* buildSnapshot after the burst.  The failure is the one the capture was
\* called with; nothing reads it before.
BuildSnapshot(c, failure) ==
    LET i == capture[c].onset
        m == onset[i].monitor
    IN  /\ capture[c].at = "built"
        /\ failure \in Observed(m)
        /\ capture' = [capture EXCEPT ![c] = [capture[c] EXCEPT !.at = "storing",
               !.verdict = ClassifyStage(failure, m, capture[c].steps)]]
        /\ UNCHANGED <<onset, inFlight, evidence>>

Over == [NotBegun EXCEPT !.at = "over"]

\* The rows after an insert that does nothing on a conflict.
Inserted(i, snapshot) ==
    [j \in DOMAIN evidence \cup {i} |->
        IF j \in DOMAIN evidence THEN evidence[j] ELSE snapshot]

\* captureIncidentEvidence's insert: on conflict do nothing.
StoreSnapshot_Upsert(c) ==
    LET snapshot == [verdict |-> capture[c].verdict, steps |-> capture[c].steps,
                     skipped |-> capture[c].skipped]
    IN  /\ capture[c].at = "storing"
        /\ evidence' = (capture[c].onset :> snapshot) @@ evidence
        /\ capture' = [capture EXCEPT ![c] = Over]
        /\ UNCHANGED <<onset, inFlight>>

StoreSnapshot(c) ==
    LET snapshot == [verdict |-> capture[c].verdict, steps |-> capture[c].steps,
                     skipped |-> capture[c].skipped]
    IN  /\ capture[c].at = "storing"
        /\ evidence' = Inserted(capture[c].onset, snapshot)
        /\ capture' = [capture EXCEPT ![c] = Over]
        /\ UNCHANGED <<onset, inFlight>>

\* Anything that throws costs the snapshot and nothing else.
CaptureFails(c) ==
    /\ capture[c].at \in {"built", "storing"}
    /\ capture' = [capture EXCEPT ![c] = Over]
    /\ UNCHANGED <<onset, inFlight, evidence>>

\* The worker dies: its captures are lost, and its count starts again.
WorkerDies ==
    /\ \E c \in Captures : capture[c].at \notin {"idle", "over"}
    /\ capture' = [c \in Captures |-> IF capture[c].at = "idle" THEN NotBegun ELSE Over]
    /\ inFlight' = 0
    /\ UNCHANGED <<onset, evidence>>

-----------------------------------------------------------------------------
(* The incident's life, and retention. *)

OnsetResolved(i) ==
    /\ onset[i].age = "open"
    /\ onset' = [onset EXCEPT ![i].age = "resolved"]
    /\ UNCHANGED <<capture, inFlight, evidence>>

\* A year goes by, which no capture outlasts.
YearPasses ==
    /\ \A c \in Captures : capture[c].at \in {"idle", "over"}
    /\ \E i \in Onsets : onset[i].age = "resolved"
    /\ onset' = [i \in Onsets |-> IF onset[i].age = "resolved"
                                  THEN [onset[i] EXCEPT !.age = "old"] ELSE onset[i]]
    /\ UNCHANGED <<capture, inFlight, evidence>>

\* pruneIncidentEvidence: of incidents resolved before the cutoff only.
PruneIncidentEvidence ==
    /\ \E i \in DOMAIN evidence : onset[i].age = "old"
    /\ evidence' = [i \in {j \in DOMAIN evidence : onset[j].age # "old"} |-> evidence[i]]
    /\ UNCHANGED <<onset, capture, inFlight>>

BurstNext ==
    \/ \E c \in Captures :
        \/ \E i \in Onsets, enabled \in BOOLEAN : CaptureBegins(c, i, enabled)
        \/ \E d \in 0..Slice(capture[c].spent) :
             \/ AddressRefused(c, d)
             \/ \E ok \in BOOLEAN, by \in Enders :
                    StepEnds(c, d, ok, by)
        \/ \E failure \in ObservedFailures : BuildSnapshot(c, failure)
        \/ StoreSnapshot(c)
        \/ CaptureFails(c)
    \/ WorkerDies
    \/ \E i \in Onsets : OnsetResolved(i)
    \/ YearPasses
    \/ PruneIncidentEvidence

BurstSpec == BInit /\ [][BurstNext]_bvars

-----------------------------------------------------------------------------
(* Properties. *)

\* The burst is bounded as a whole: the count that admits bursts is the
\* number of them that dial, never more than the limit, whatever failed or
\* was cut short; and the steps together never outlast the one budget they
\* share (burst.ts: BURST_BUDGET_MS is not a timeout per step).
BurstBounded ==
    /\ inFlight = Cardinality({c \in Captures : Dialling(c)})
    /\ inFlight <= MAX_CONCURRENT_BURSTS
    /\ \A c \in Captures : /\ capture[c].spent <= BURST_BUDGET
                           /\ Len(capture[c].steps) <= BURST_MAX_STEPS

\* The step a measured verdict is about: the first of the burst that failed and was
\* not skipped over.
MeasuredOn(e, n) ==
    /\ n \in DOMAIN e.steps /\ e.steps[n].kind = e.verdict.stage /\ ~ e.steps[n].ok
    /\ \A k \in 1..(n - 1) : e.steps[k].ok

\* A layer is named on something observed.  "Measured" means a step of this
\* incident's own burst failed there, every step before it passed, and step()'s
\* own timer did not end it; a monitor that dials nothing names no layer; and an
\* incident in shadow was never dialled for.  The transport's timer, which Vigil
\* sets to the step's slice, does count as a measurement in the code, and here:
\* what classify.ts says of a budget that ran out is BudgetUnmeasured, below.
LayerObserved ==
    \A i \in DOMAIN evidence :
        LET e == evidence[i]
        IN  /\ e.verdict.basis = "measured" =>
                 \E n \in DOMAIN e.steps : MeasuredOn(e, n) /\ e.steps[n].by # "vigil"
            /\ onset[i].monitor.kind # "active" => e.verdict.stage = "unknown"
            /\ onset[i].shadow => e.steps = <<>>

\* classify.ts: a connection still being attempted when the diagnostic budget ran
\* out is a fact about Vigil, and not read as a measurement.  (It does not hold:
\* connect, handshake and request arm a timer of their own with what is left of the
\* budget, it fires before step()'s, and its words are not among those
\* isSelfInflicted knows.)
BudgetUnmeasured ==
    \A i \in DOMAIN evidence : evidence[i].verdict.basis = "measured" =>
        \E n \in DOMAIN evidence[i].steps :
            MeasuredOn(evidence[i], n) /\ evidence[i].steps[n].by \notin {"vigil", "budget"}

\* The snapshot nearest the onset stays: no later capture, retry or restart
\* replaces it, and it goes only with an incident resolved long ago.
SnapshotStays ==
    [][\A i \in DOMAIN evidence :
         IF i \in DOMAIN evidence' THEN evidence'[i] = evidence[i]
                                   ELSE onset[i].age = "old"]_bvars
=============================================================================
