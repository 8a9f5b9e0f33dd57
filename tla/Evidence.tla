------------------------------ MODULE Evidence -------------------------------
(***************************************************************************)
(* The evidence a migration bridge collects and the verdict it gives       *)
(* (importers/bridge/service.ts, evidence.ts, compare.ts): polls copy the  *)
(* incidents of the source while they open and resolve, from the worker's  *)
(* job and from an operator's button at once, and a cutover report         *)
(* compares the copies with what Vigil saw of the same monitor.            *)
(*                                                                         *)
(* One record of the source and its monitor; time is a count of hours.     *)
(*                                                                         *)
(* A definition named X_Y is X with a plausible mistake Y in it.           *)
(***************************************************************************)
EXTENDS Integers, Sequences, FiniteSetsExt, Functions

CONSTANTS
    Poller,        \* polls that may run at once
    Incident,      \* incidents of the source
    Overlap,       \* POLL_OVERLAP_MS
    GraceHours,    \* MATCH_GRACE_SECONDS
    FailureWindow, \* the failure window the monitor was imported with
    MinHours,      \* MIN_COMPARISON_HOURS
    MaxFailures,   \* MAX_CONSECUTIVE_POLL_FAILURES
    RefetchCap,    \* STALE_REFETCH_CAP
    MaxHour,       \* bound on the clock
    MaxAtOnce,     \* bound on the polls and reports under way at once
    MaxLapses      \* bound on the polls that fail or die

ASSUME EvidenceConstants ==
    /\ Overlap \in Nat /\ GraceHours \in Nat /\ FailureWindow \in Nat
    /\ MaxFailures \in Nat /\ RefetchCap \in Nat

VARIABLES
    hour,
    source,   \* the incidents as the source has them
    copies,   \* bridge_source_incidents
    windows,  \* the polls recorded ok
    failures, \* consecutive_poll_failures
    pollers,  \* the polls under way
    review,   \* the cutover report being made
    lapses    \* polls that failed or died so far

evars == <<hour, source, copies, windows, failures, pollers, review, lapses>>

-----------------------------------------------------------------------------
NotYet == -1     \* not started, or not resolved

\* The bridge was connected, and the monitor imported, at this hour.
CreatedAt == 1

Absent == [copied |-> FALSE, end |-> NotYet, seen |-> 0]

Resting == [stage |-> "idle", from |-> 0, to |-> 0, skipped |-> FALSE, todo |-> {}, seen |-> {},
            stale |-> {}]

NoReview == [stage |-> "none", at |-> 0, failures |-> 0, pair |-> <<>>, windows |-> {},
             copies |-> <<>>, own |-> <<>>]

EInit ==
    /\ hour = CreatedAt
    /\ source \in [Incident -> [start : {NotYet, 0}, end : {NotYet}, parses : BOOLEAN, gone : {FALSE}]]
    /\ copies = [i \in Incident |-> Absent]
    /\ windows = {}
    /\ failures = 0
    /\ pollers = [p \in Poller |-> Resting]
    /\ review = NoReview
    /\ lapses = 0

Same == <<source, copies, windows, failures, pollers, review, lapses>>

-----------------------------------------------------------------------------
HourPasses ==
    /\ hour < MaxHour
    /\ hour' = hour + 1
    /\ UNCHANGED Same

Started(i) == source[i].start # NotYet

SourceOpens(i) ==
    /\ ~ Started(i)
    /\ source' = [source EXCEPT ![i].start = hour]
    /\ UNCHANGED <<hour, copies, windows, failures, pollers, review, lapses>>

SourceResolves(i) ==
    /\ Started(i) /\ source[i].end = NotYet
    /\ source' = [source EXCEPT ![i].end = hour]
    /\ UNCHANGED <<hour, copies, windows, failures, pollers, review, lapses>>

\* The record is deleted at the source, and its incidents with it.
SourceForgets(i) ==
    /\ Started(i) /\ ~ source[i].gone
    /\ source' = [source EXCEPT ![i].gone = TRUE]
    /\ UNCHANGED <<hour, copies, windows, failures, pollers, review, lapses>>

-----------------------------------------------------------------------------
\* The bound on the polls and reports under way.
Room ==
    Cardinality({p \in Poller : pollers[p].stage # "idle"}) + (IF review.stage = "none" THEN 0 ELSE 1)
        < MaxAtOnce

\* Where a poll starts to read: a day before the end of the last good one.
PollFrom ==
    (IF windows = {} THEN CreatedAt ELSE Max({w.to : w \in windows})) - Overlap

\* pollBridgeEvidence takes the time before it reads anything.
PollBegins(p) ==
    /\ pollers[p].stage = "idle"
    /\ Room
    /\ pollers' = [pollers EXCEPT ![p] = [Resting EXCEPT !.stage = "open", !.from = PollFrom, !.to = hour]]
    /\ UNCHANGED <<hour, source, copies, windows, failures, review, lapses>>

\* toIncident: a row without an id or a start is counted and left out.
Parsed(ids) == {[id |-> i, end |-> source[i].end] : i \in {j \in ids : source[j].parses}}

ReadOpenIncidents(p) ==
    LET open == {i \in Incident : Started(i) /\ source[i].end = NotYet /\ ~ source[i].gone}
    IN  /\ pollers[p].stage = "open"
        /\ pollers' = [pollers EXCEPT ![p] =
                          [pollers[p] EXCEPT !.stage = "window", !.todo = Parsed(open),
                              !.skipped = \E i \in open : ~ source[i].parses]]
        /\ UNCHANGED <<hour, source, copies, windows, failures, review, lapses>>

\* The window is of dates, and so reaches past its end; an incident that was
\* also in the open ones is taken as it was there.
ReadIncidentsWindow(p) ==
    LET self == pollers[p]
        listed == {i \in Incident : Started(i) /\ source[i].start >= self.from /\ ~ source[i].gone}
        fresh == {r \in Parsed(listed) : \A o \in self.todo : o.id # r.id}
    IN  /\ self.stage = "window"
        /\ pollers' = [pollers EXCEPT ![p] =
                          [self EXCEPT !.stage = "upsert", !.todo = self.todo \cup fresh,
                              !.seen = {r.id : r \in self.todo \cup fresh},
                              !.skipped = self.skipped \/ \E i \in listed : ~ source[i].parses]]
        /\ UNCHANGED <<hour, source, copies, windows, failures, review, lapses>>

Upserted_Plain(copy, r) == [copied |-> TRUE, end |-> r.end, seen |-> hour]

\* A copy that is resolved stays so, whatever an older answer says; when it was
\* last seen is only read while it is open.
Upserted(copy, r) ==
    LET end == IF r.end # NotYet THEN r.end ELSE copy.end
    IN  [copied |-> TRUE, end |-> end, seen |-> IF end = NotYet THEN hour ELSE 0]

Upsert(p) ==
    /\ pollers[p].stage \in {"upsert", "refetch"}
    /\ \E r \in pollers[p].todo :
          /\ copies' = [copies EXCEPT ![r.id] = Upserted(copies[r.id], r)]
          /\ pollers' = [pollers EXCEPT ![p] = [pollers[p] EXCEPT !.todo = pollers[p].todo \ {r}]]
    /\ UNCHANGED <<hour, source, windows, failures, review, lapses>>

\* Copies that are open and were in neither list have ended since: some of
\* them, as many as the cap allows, are asked for one by one.
FindStale(p) ==
    LET stale == {i \in Incident : copies[i].copied /\ copies[i].end = NotYet} \ pollers[p].seen
    IN  /\ pollers[p].stage = "upsert" /\ pollers[p].todo = {}
        /\ \E some \in SUBSET stale :
              /\ Cardinality(some) = Min({Cardinality(stale), RefetchCap})
              /\ pollers' = [pollers EXCEPT ![p] =
                                [pollers[p] EXCEPT !.stage = "refetch", !.stale = some]]
        /\ UNCHANGED <<hour, source, copies, windows, failures, review, lapses>>

ReadIncidentById(p) ==
    /\ pollers[p].stage = "refetch" /\ pollers[p].todo = {}
    /\ \E i \in pollers[p].stale :
          pollers' = [pollers EXCEPT ![p] =
                         [pollers[p] EXCEPT !.stale = pollers[p].stale \ {i},
                             !.todo = IF source[i].gone THEN {} ELSE Parsed({i})]]
    /\ UNCHANGED <<hour, source, copies, windows, failures, review, lapses>>

Counts_Partial(self) == TRUE

\* A poll that had to leave rows out is no evidence of silence.
Counts(self) == ~ self.skipped

\* A window inside another adds nothing to what is covered.
Wider(ws) == {w \in ws : \A v \in ws \ {w} : v.from > w.from \/ v.to < w.to}

PollEnds(p) ==
    LET self == pollers[p]
    IN  /\ self.stage = "refetch" /\ self.todo = {} /\ self.stale = {}
        /\ windows' = IF Counts(self) THEN Wider(windows \cup {[from |-> self.from, to |-> self.to]})
                                  ELSE windows
        /\ failures' = 0
        /\ pollers' = [pollers EXCEPT ![p] = Resting]
        /\ UNCHANGED <<hour, source, copies, review, lapses>>

\* A read that throws, after the retries of the transport.
PollFails(p) ==
    /\ pollers[p].stage \in {"open", "window", "refetch"}
    /\ failures' = Min({failures + 1, MaxFailures})
    /\ pollers' = [pollers EXCEPT ![p] = Resting]
    /\ lapses < MaxLapses /\ lapses' = lapses + 1
    /\ UNCHANGED <<hour, source, copies, windows, review>>

\* The process dies: no poll is recorded, what was copied stays.
PollLost(p) ==
    /\ pollers[p].stage \notin {"idle", "open"}
    /\ pollers' = [pollers EXCEPT ![p] = Resting]
    /\ lapses < MaxLapses /\ lapses' = lapses + 1
    /\ UNCHANGED <<hour, source, copies, windows, failures, review>>

\* connectBridge, with a new token for the same account.
Reconnected ==
    /\ failures > 0
    /\ failures' = 0
    /\ UNCHANGED <<hour, source, copies, windows, pollers, review, lapses>>

-----------------------------------------------------------------------------
\* mergeCoverage, as the hours that are covered: windows that touch are one.
MergeCoverage(ws) == UNION {w.from .. (w.to - 1) : w \in ws}

OverlapHours(cells, from, to) == Cardinality(cells \cap (from .. (to - 1)))

CoveredSpan(cells, from, to) == (from .. (to - 1)) \subseteq cells

EndOr(e, at) == IF e.end = NotYet THEN at ELSE e.end

OverlapsOrNear(a, b, at) ==
    /\ a.start <= EndOr(b, at) + GraceHours
    /\ b.start <= EndOr(a, at) + GraceHours

\* The last sign of life of a copy.
ObservedUntil(rv, i) ==
    IF rv.copies[i].end # NotYet THEN rv.copies[i].end ELSE rv.copies[i].seen

EventOf(rv, i) ==
    [id |-> i, start |-> source[i].start, end |-> rv.copies[i].end, until |-> ObservedUntil(rv, i)]

\* What the report makes of the copies: one whose last sign of life is before
\* the bridge is left out.  All incidents are of the one record; one that the
\* source gives no resource belongs to no pair, is left out too, and is not here.
SourceEvents(rv) ==
    {EventOf(rv, i) : i \in {j \in Incident : rv.copies[j].copied /\ ObservedUntil(rv, j) >= CreatedAt}}

\* The events of the source from the earliest to the latest.
InOrder(events) ==
    CHOOSE f \in [1 .. Cardinality(events) -> events] :
        IsInjective(f) /\ \A j, k \in DOMAIN f : j < k => f[j].start <= f[k].start

\* An event of the source takes the first incident of Vigil near it that no
\* other took.
Absorb(rv, acc, e) ==
    LET near == {n \in DOMAIN rv.own : n \notin acc.claimed /\ OverlapsOrNear(e, rv.own[n], rv.at)}
    IN  IF near = {} THEN acc
        ELSE [claimed |-> acc.claimed \cup {Min(near)}, matched |-> acc.matched \cup {e.id}]

Matched(rv) ==
    LET events == InOrder(SourceEvents(rv))
        walk[d \in 0 .. Len(events)] ==
            IF d = 0 THEN [claimed |-> {}, matched |-> {}] ELSE Absorb(rv, walk[d - 1], events[d])
    IN  walk[Len(events)]

\* An unmatched event Vigil was there for, and that outlived the failure window.
MissedEvents(rv) ==
    {e \in SourceEvents(rv) :
        /\ e.id \notin Matched(rv).matched
        /\ CreatedAt <= e.start - GraceHours
        /\ e.until - e.start >= FailureWindow}

\* An open incident of Vigil while the source, when last asked, had none.
OpenExtra(rv, cells) ==
    {n \in DOMAIN rv.own \ Matched(rv).claimed :
        /\ rv.own[n].end = NotYet
        /\ cells # {}
        /\ Max(cells) + 1 > rv.own[n].start
        /\ CoveredSpan(cells, rv.own[n].start, Max(cells) + 1)}

\* compareBridge: safe is the absence of every reason against it.
Verdict(rv) ==
    LET cells == MergeCoverage(rv.windows)
        compared == rv.pair.compared /\ rv.pair.present
        against ==
            \/ compared /\ MissedEvents(rv) # {}
            \/ compared /\ OpenExtra(rv, cells) # {}
            \/ rv.pair.outcome = "imported" /\ ~ rv.pair.present
            \/ rv.failures >= MaxFailures
            \/ compared /\ OverlapHours(cells, CreatedAt, rv.at) < MinHours
            \/ compared /\ ~ rv.pair.checked
            \/ rv.pair.outcome = "skipped"
            \/ ~ compared /\ rv.pair.present
    IN  IF against THEN "not-safe" ELSE "safe"

-----------------------------------------------------------------------------
\* generateCutoverReport reads one table after the other, outside a transaction.
NextRead_CopiesFirst(stage) ==
    CASE stage = "bridge" -> "copies" [] stage = "copies" -> "polls" [] stage = "polls" -> "own"

NextRead(stage) ==
    CASE stage = "bridge" -> "polls" [] stage = "polls" -> "copies" [] stage = "copies" -> "own"

ReviewBegins ==
    /\ review.stage = "none"
    /\ Room
    /\ review' = [NoReview EXCEPT !.stage = NextRead("bridge"), !.at = hour, !.failures = failures]
    /\ UNCHANGED <<hour, source, copies, windows, failures, pollers, lapses>>

ReviewPolls ==
    /\ review.stage = "polls"
    /\ review' = [review EXCEPT !.stage = NextRead("polls"), !.windows = windows]
    /\ UNCHANGED <<hour, source, copies, windows, failures, pollers, lapses>>

ReviewCopies ==
    /\ review.stage = "copies"
    /\ review' = [review EXCEPT !.stage = NextRead("copies"), !.copies = copies]
    /\ UNCHANGED <<hour, source, copies, windows, failures, pollers, lapses>>

\* The incidents Vigil may have recorded of the monitor by now.
OwnIncidents ==
    {<<>>} \cup {<<e>> : e \in {x \in [start : 0 .. hour, end : {NotYet} \cup (0 .. hour)] :
                                 x.end = NotYet \/ x.end >= x.start}}

Pairs == [outcome : {"imported", "skipped"}, compared : BOOLEAN, present : BOOLEAN, checked : BOOLEAN]

\* The incidents the report asks for: open, or resolved since the bridge began.
Recent(own) == {n \in DOMAIN own : own[n].end = NotYet \/ own[n].end >= CreatedAt}

\* The other reads, left open: the mapping row, whether its monitor is there and
\* was ever checked, and its incidents, which go with it.
Complete(rv, pair, own) ==
    [rv EXCEPT !.own = IF pair.present /\ pair.checked THEN [n \in Recent(own) |-> own[n]] ELSE <<>>,
               !.pair = pair]

\* The report is stored, frozen; nothing here reads it again.
ReviewEnds ==
    /\ review.stage = "own"
    /\ review' = NoReview
    /\ UNCHANGED <<hour, source, copies, windows, failures, pollers, lapses>>

PollStep(p) ==
    \/ PollBegins(p)
    \/ ReadOpenIncidents(p)
    \/ ReadIncidentsWindow(p)
    \/ Upsert(p)
    \/ FindStale(p)
    \/ ReadIncidentById(p)
    \/ PollEnds(p)
    \/ PollFails(p)
    \/ PollLost(p)

ENext ==
    \/ HourPasses
    \/ \E i \in Incident : SourceOpens(i) \/ SourceResolves(i) \/ SourceForgets(i)
    \/ \E p \in Poller : PollStep(p)
    \/ Reconnected
    \/ ReviewBegins
    \/ ReviewPolls
    \/ ReviewCopies
    \/ ReviewEnds

ESpec == EInit /\ [][ENext]_evars

-----------------------------------------------------------------------------
(* Coverage is never claimed where it was not had: every incident the source *)
(* still has that began inside a window recorded ok is among the copies,     *)
(* with two polls under way, rows that would not parse and polls that died   *)
(* half way (pollBridgeEvidence, toIncident).                                *)
CoverageHonest ==
    \A w \in windows : \A i \in Incident :
        /\ Started(i) /\ source[i].start >= w.from /\ source[i].start < w.to
        /\ ~ source[i].gone
        => copies[i].copied

(* A copy that was seen resolved is never open again, whichever of two polls *)
(* writes last what it read first (the conflict clause of the upsert).       *)
ResolvedStays ==
    [][\A i \in Incident : copies[i].end # NotYet => copies'[i].end = copies[i].end]_evars

\* The outage of the source is one the report can know of from its evidence.
Provable(i, rv) ==
    LET e == source[i]
    IN  /\ e.parses /\ ~ e.gone
        /\ e.start - GraceHours >= CreatedAt
        /\ e.start \in MergeCoverage(rv.windows)
        /\ e.end # NotYet /\ e.end - e.start >= FailureWindow
        /\ \E w \in rv.windows : e.end < w.to

SeenHere(e, own) == \E n \in DOMAIN own : OverlapsOrNear(e, own[n], hour)

(* A safe verdict is earned: an outage that began after the monitor did,     *)
(* inside the coverage the report counted, that ended before the last good   *)
(* poll and outlived the failure window, was seen by Vigil too - whatever    *)
(* polls ran while the report read its tables (generateCutoverReport,        *)
(* comparePair, compareBridge).                                              *)
SafeEarned ==
    review.stage = "own" =>
        \A own \in OwnIncidents :
            (\E i \in Incident : Provable(i, review) /\ ~ SeenHere(source[i], own))
            => \A pair \in Pairs : Verdict(Complete(review, pair, own)) = "not-safe"

(* The bridge's evidence is honest: no hour counts as covered that was not,  *)
(* and no verdict is safe that the covered hours do not support.             *)
EvidenceHonest == CoverageHonest /\ SafeEarned
=============================================================================
