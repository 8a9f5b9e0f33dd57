------------------------------- MODULE Derived -------------------------------
(***************************************************************************)
(* Monitors nobody dials: a group, whose state is derived from its         *)
(* members' (types/specs/group.ts, refreshGroups of outcome.ts), and a     *)
(* manual monitor, whose state an operator declares (types/specs/          *)
(* manual.ts).  Neither is on the scheduler; what they say is recorded     *)
(* when a member reports or somebody edits, by processes that read, decide *)
(* and write in statements of their own.  Incidents models what a recorded *)
(* outcome does to incidents.                                              *)
(*                                                                         *)
(* A timestamp is relative: 0 is now, Never is null, and time passing      *)
(* makes them all older, down to -MaxAge.                                  *)
(*                                                                         *)
(* A definition named X_Y is X with a plausible mistake Y in it.           *)
(***************************************************************************)
EXTENDS Integers, FiniteSets

CONSTANTS
    Scheduled,   \* monitors the scheduler evaluates
    Manual,
    Group,
    Walker,      \* checks and requests at work at once
    Never, Nowhere,
    Window,      \* failureWindowSeconds of every monitor
    Tree,        \* parent_id of the monitors there are at first
    MaxAge,
    MaxEvents    \* bound on what operators do, targets that turn, processes that die

MAX_GROUP_DEPTH == 8

Kind == Scheduled \cup Manual \cup Group

ASSUME DerivedConstants ==
    /\ {Window, MaxAge, MaxEvents} \subseteq Nat
    /\ Window <= MaxAge
    /\ Tree \in [Kind -> Group \cup {Nowhere}]

INSTANCE StatusController

VARIABLES
    monitor,   \* the table of monitors
    says,      \* what a probe would find, what the operator declared
    walk,      \* the processes
    spent      \* history: the events there were

dvars == <<monitor, says, walk, spent>>

-----------------------------------------------------------------------------
NewRow(parent) ==
    [there |-> TRUE, parent |-> parent, paused |-> FALSE, status |-> "unknown", run |-> Never,
     checked |-> FALSE]

Idle == [stage |-> "idle", of |-> Nowhere, seen |-> NewRow(Nowhere), verdict |-> "up", depth |-> 0]

\* What an operator declared at creation is recorded; nothing else is yet.
DerivedInit ==
    /\ monitor = [m \in Kind |-> IF m \in Manual THEN [NewRow(Tree[m]) EXCEPT !.status = "up", !.checked = TRUE]
                                 ELSE NewRow(Tree[m])]
    /\ says = [m \in Kind |-> "up"]
    /\ walk = [w \in Walker |-> Idle]
    /\ spent = 0

Spend == spent < MaxEvents /\ spent' = spent + 1

\* A process is through with one row and goes on to the group above it.
ToGroup(self, parent) ==
    IF parent = Nowhere \/ self.depth >= MAX_GROUP_DEPTH THEN Idle
    ELSE [Idle EXCEPT !.stage = "group", !.of = parent, !.depth = self.depth]

ToRecord(self, m, seen, verdict) ==
    [self EXCEPT !.stage = "record", !.of = m, !.seen = seen, !.verdict = verdict]

-----------------------------------------------------------------------------
\* runMonitorCheck, or runMonitorNow: the row as it is now ...
CheckBegins(w, m) ==
    /\ walk[w] = Idle
    /\ m \in Scheduled /\ monitor[m].there /\ ~ monitor[m].paused
    /\ walk' = [walk EXCEPT ![w] = [Idle EXCEPT !.stage = "probe", !.of = m, !.seen = monitor[m]]]
    /\ UNCHANGED <<monitor, says, spent>>

\* ... and what the probe found.
ProbeEnds(w) ==
    /\ walk[w].stage = "probe"
    /\ walk' = [walk EXCEPT ![w] = ToRecord(@, @.of, @.seen, says[@.of])]
    /\ UNCHANGED <<monitor, says, spent>>

\* The predicate of recordCheckOutcome's update.
AsSeen(m, seen) == monitor[m].there /\ ~ monitor[m].paused /\ monitor[m].run = seen.run

Recorded(seen, verdict) ==
    LET run == AdvanceFailureRun(seen.run, verdict, 0)
    IN  [status |-> DeriveStatus(verdict, Window, run, seen.status, 0), run |-> run]

\* applyOutcome: the outcome is recorded on the row it was derived from, or not
\* at all, and the group the row is in now comes next.  A row that is gone ends
\* the process.
ApplyOutcome(w) ==
    LET self == walk[w]
        m == self.of
        new == Recorded(self.seen, self.verdict)
    IN  /\ self.stage = "record"
        /\ monitor' = IF AsSeen(m, self.seen)
                      THEN [monitor EXCEPT ![m] = [@ EXCEPT !.status = new.status, !.run = new.run,
                                                            !.checked = TRUE]]
                      ELSE monitor
        /\ walk' = [walk EXCEPT ![w] =
                        IF monitor[m].there THEN ToGroup(self, monitor[m].parent) ELSE Idle]
        /\ UNCHANGED <<says, spent>>

-----------------------------------------------------------------------------
CountedMembers(g) == {m \in Kind : monitor[m].there /\ monitor[m].parent = g /\ ~ monitor[m].paused}

\* derive and its assertions: no member counted, or none measured, is no state.
Derive(g) ==
    LET states == {monitor[m].status : m \in CountedMembers(g)}
    IN  IF states \subseteq {"unknown"} THEN "indeterminate"
        ELSE IF "down" \in states THEN "down"
        ELSE IF "degraded" \in states THEN "degraded" ELSE "up"

StatusOf(verdict) == IF verdict = "indeterminate" THEN "unknown" ELSE verdict

\* refreshGroups reads the group's row; a paused one ends the climb.
GroupRead(w) ==
    LET self == walk[w]
        g == self.of
    IN  /\ self.stage = "group"
        /\ walk' = [walk EXCEPT ![w] =
                        IF ~ monitor[g].there \/ monitor[g].paused THEN Idle
                        ELSE [@ EXCEPT !.stage = "members", !.seen = monitor[g], !.depth = @ + 1]]
        /\ UNCHANGED <<monitor, says, spent>>

\* shouldRecord: elapsed says that the last recording is an interval old.
ShouldRecord(seen, verdict, elapsed) ==
    ~ seen.checked \/ StatusOf(verdict) # seen.status \/ elapsed

MembersRead_Stops(w, elapsed) ==
    LET self == walk[w]
        verdict == Derive(self.of)
    IN  /\ self.stage = "members"
        /\ walk' = [walk EXCEPT ![w] =
                        IF ShouldRecord(self.seen, verdict, elapsed)
                        THEN ToRecord(self, self.of, self.seen, verdict) ELSE Idle]
        /\ UNCHANGED <<monitor, says, spent>>

\* Then the members', and decides whether that is worth recording.
MembersRead(w, elapsed) ==
    LET self == walk[w]
        verdict == Derive(self.of)
    IN  /\ self.stage = "members"
        /\ walk' = [walk EXCEPT ![w] =
                        IF ShouldRecord(self.seen, verdict, elapsed)
                        THEN ToRecord(self, self.of, self.seen, verdict)
                        ELSE ToGroup(self, self.seen.parent)]
        /\ UNCHANGED <<monitor, says, spent>>

-----------------------------------------------------------------------------
\* refreshDeclaredState, after the commit of a create or an edit: a manual
\* monitor's statement, a group's derivation, else the group it is in.
RefreshDeclared(m, seen, statement) ==
    CASE m \in Manual -> ToRecord(Idle, m, seen, statement)
      [] m \in Group -> [Idle EXCEPT !.stage = "own", !.of = m, !.seen = seen]
      [] OTHER -> ToGroup(Idle, seen.parent)

\* A group that was created or edited derives itself whatever it finds.
OwnMembersRead(w) ==
    /\ walk[w].stage = "own"
    /\ walk' = [walk EXCEPT ![w] = ToRecord(@, @.of, @.seen, Derive(@.of))]
    /\ UNCHANGED <<monitor, says, spent>>

\* updateMonitor with a new statement.
Declare(w, m, statement) ==
    /\ walk[w] = Idle /\ Spend
    /\ m \in Manual /\ monitor[m].there /\ statement # says[m]
    /\ says' = [says EXCEPT ![m] = statement]
    /\ walk' = [walk EXCEPT ![w] = RefreshDeclared(m, monitor[m], statement)]
    /\ UNCHANGED monitor

\* assertParent: a group, and not inside the monitor, as far as one can see.
RECURSIVE Above(_, _)
Above(m, n) == IF m = Nowhere \/ n = 0 THEN {} ELSE {m} \cup Above(monitor[m].parent, n - 1)

AssertParent(m, g) == monitor[g].there /\ m \notin Above(g, MAX_GROUP_DEPTH)

\* createMonitor, in a group or not.
Create(w, m, g) ==
    /\ walk[w] = Idle /\ Spend
    /\ ~ monitor[m].there
    /\ g # Nowhere => AssertParent(m, g)
    /\ monitor' = [monitor EXCEPT ![m] = NewRow(g)]
    /\ walk' = [walk EXCEPT ![w] = RefreshDeclared(m, NewRow(g), says[m])]
    /\ UNCHANGED says

\* updateMonitor with another parent: the check, then the update.
MoveChecked(w, m, g) ==
    /\ walk[w] = Idle /\ Spend
    /\ monitor[m].there /\ g # monitor[m].parent
    /\ g # Nowhere => AssertParent(m, g)
    /\ walk' = [walk EXCEPT ![w] = [Idle EXCEPT !.stage = "move", !.of = m, !.seen.parent = g]]
    /\ UNCHANGED <<monitor, says>>

Move(w) ==
    LET m == walk[w].of
        g == walk[w].seen.parent
        row == [monitor[m] EXCEPT !.parent = g]
    IN  /\ walk[w].stage = "move"
        /\ monitor' = IF monitor[m].there /\ (g = Nowhere \/ monitor[g].there)
                      THEN [monitor EXCEPT ![m] = row] ELSE monitor
        /\ walk' = [walk EXCEPT ![w] = IF monitor'[m] = row THEN RefreshDeclared(m, row, says[m]) ELSE Idle]
        /\ UNCHANGED <<says, spent>>

\* setMonitorPaused, both ways, then the group.
SetPaused(w, m) ==
    /\ walk[w] = Idle /\ Spend
    /\ monitor[m].there
    /\ monitor' = [monitor EXCEPT ![m] = [@ EXCEPT !.paused = ~ @, !.status = "unknown", !.run = Never]]
    /\ walk' = [walk EXCEPT ![w] = ToGroup(Idle, monitor[m].parent)]
    /\ UNCHANGED says

\* deleteMonitor: the members of a group are released.
Delete(w, m) ==
    /\ walk[w] = Idle /\ Spend
    /\ monitor[m].there
    /\ monitor' = [k \in Kind |-> IF k = m THEN [NewRow(Nowhere) EXCEPT !.there = FALSE]
                                  ELSE IF monitor[k].parent = m THEN [monitor[k] EXCEPT !.parent = Nowhere]
                                  ELSE monitor[k]]
    /\ walk' = [walk EXCEPT ![w] = ToGroup(Idle, monitor[m].parent)]
    /\ UNCHANGED says

-----------------------------------------------------------------------------
Older(t) == IF t = Never \/ t = - MaxAge THEN t ELSE t - 1

\* Time passes, for the rows and for what a process has read.
TimePasses ==
    /\ monitor' = [m \in Kind |-> [monitor[m] EXCEPT !.run = Older(@)]]
    /\ walk' = [w \in Walker |-> [walk[w] EXCEPT !.seen.run = Older(@)]]
    /\ UNCHANGED <<says, spent>>

\* A target breaks, mends, or becomes impossible to measure.
TargetTurns(m, v) ==
    /\ m \in Scheduled /\ v # says[m] /\ Spend
    /\ says' = [says EXCEPT ![m] = v]
    /\ UNCHANGED <<monitor, walk>>

\* A process dies between two of its statements.
Dies(w) ==
    /\ walk[w] # Idle /\ Spend
    /\ walk' = [walk EXCEPT ![w] = Idle]
    /\ UNCHANGED <<monitor, says>>

WalkStep(w) ==
    \/ ProbeEnds(w) \/ ApplyOutcome(w)
    \/ GroupRead(w) \/ OwnMembersRead(w)
    \/ \E elapsed \in BOOLEAN : MembersRead(w, elapsed)
    \/ Move(w)

Statement == {"up", "degraded", "down"}

DerivedNext ==
    \/ TimePasses
    \/ \E m \in Scheduled, v \in Verdict : TargetTurns(m, v)
    \/ \E w \in Walker :
         \/ WalkStep(w) \/ Dies(w)
         \/ \E m \in Kind :
              \/ CheckBegins(w, m) \/ SetPaused(w, m) \/ Delete(w, m)
              \/ \E v \in Statement : Declare(w, m, v)
              \/ \E g \in Group \cup {Nowhere} : Create(w, m, g) \/ MoveChecked(w, m, g)

\* Processes go on, time passes, and a monitor on the scheduler is evaluated
\* again and again (NeverSilent in Scheduler).
DerivedFairness ==
    /\ WF_dvars(TimePasses)
    /\ \A w \in Walker : WF_dvars(WalkStep(w))
    /\ \A m \in Scheduled : SF_dvars(\E w \in Walker : CheckBegins(w, m))

DerivedSpec == DerivedInit /\ [][DerivedNext]_dvars /\ DerivedFairness

-----------------------------------------------------------------------------
\* The groups a monitor's reports reach: every one above it, up to a paused one.
RECURSIVE Reached(_, _)
Reached(g, n) ==
    IF g = Nowhere \/ n = 0 THEN {}
    ELSE IF monitor[g].paused THEN {}
    ELSE {g} \cup Reached(monitor[g].parent, n - 1)

Watched(g) ==
    \E m \in Scheduled :
        /\ monitor[m].there /\ ~ monitor[m].paused
        /\ g \in Reached(monitor[m].parent, MAX_GROUP_DEPTH)

InCycle(g) == g \in Above(monitor[g].parent, Cardinality(Group))

(* A group comes to agree with its members and stays so, as long as one of  *)
(* them still reports: whichever derivations raced, were overtaken by an    *)
(* edit, a pause or a deletion, or died half way up (refreshGroups).        *)
GroupsSettle ==
    <>[](\A g \in Group : Watched(g) /\ ~ InCycle(g) => monitor[g].status = StatusOf(Derive(g)))

(* A manual monitor that an operator sets to down becomes down, through the *)
(* same failure window as a probe that stopped answering, unless somebody   *)
(* changes it meanwhile (docs/MONITOR-KINDS.md).                            *)
DeclaredDown ==
    \A m \in Manual :
        says[m] = "down" ~> monitor[m].status = "down" \/ says[m] # "down"
                               \/ monitor[m].paused \/ ~ monitor[m].there
=============================================================================
