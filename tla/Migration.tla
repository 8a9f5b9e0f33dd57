------------------------------ MODULE Migration ------------------------------
(***************************************************************************)
(* Importing the monitors of another system into one organisation          *)
(* (importers/engine.ts, provenance.ts, report.ts), once or through the    *)
(* migration bridge that keeps them in shadow (importers/bridge/           *)
(* service.ts).  Imports are transactions that run side by side at READ    *)
(* COMMITTED; operators edit, delete, cut over and abandon in between.     *)
(*                                                                         *)
(* The id of a monitor is the import, the sort and the record or path it   *)
(* was made for: one import makes at most one row for each.  A row with an *)
(* owner is not committed.                                                 *)
(*                                                                         *)
(* A definition named X_Y is X with a plausible mistake Y in it.           *)
(***************************************************************************)
EXTENDS Translation, Sequences, SequencesExt

CONSTANTS
    Run,        \* imports
    Record,     \* records of the source, by source id
    Fleet,      \* the fleets the source may hold, see Init
    Listings,   \* the orders in which the adapter may list the records
    MaxBridges, \* bound on the bridges ever connected
    MaxSlug,    \* variations of a slug freeSlug tries
    MaxUpsets   \* bound on the renames and deletions of monitors, and on failures

\* The markers of the model are not among what it is about.
ASSUME MigrationConstants ==
    /\ "none" \notin Record \cup Run
    /\ "hand" \notin Run /\ "committed" \notin Run
    /\ Listings \subseteq Seq(Record)
    /\ \A f \in Fleet : \A r \in Record : f.checks[r].path \in Seq(STRING)

VARIABLES
    fleet,      \* what the source holds; it does not change
    monitors,   \* the table, as a function on the ids of its rows
    pages,      \* status pages, as a function on their slugs
    bridge,     \* the organisation's bridge: id 0 is none
    mapping,    \* bridge_monitors of that bridge, as a function on records
    runs,       \* the imports
    upsets      \* renames, deletions and failures so far

mvars == <<fleet, monitors, pages, bridge, mapping, runs, upsets>>

-----------------------------------------------------------------------------
Empty == <<>>     \* the function on no ids
NoId == <<"none", "none", "none">>
HandId == <<"hand", "none", "none">>
NoOne == "committed"

\* Where a row stands with the bridge: never in shadow, past it, or under bridge b.
Never == 0
Ended == -1

NewRun == [stage |-> "new", mode |-> "once", bridge |-> 0, listing |-> <<>>, at |-> 1,
           known |-> {}, folders |-> {}, imported |-> Empty, paths |-> Empty,
           made |-> Empty, entries |-> Empty, groups |-> {}, links |-> Empty]

\* A monitor somebody made by hand, as the one a record would become.
ByHand(key) == [owner |-> NoOne, src |-> "none", key |-> key, type |-> "check", parent |-> NoId,
                shadow |-> Never, paused |-> FALSE]

MInit ==
    /\ fleet \in Fleet
    /\ monitors \in {Empty} \cup
                    {[x \in {HandId} |-> ByHand(fleet.checks[r].key)] : r \in Record}
    /\ pages = Empty
    /\ bridge = [id |-> 0, connected |-> FALSE]
    /\ mapping = Empty
    /\ runs = [r \in Run |-> NewRun]
    /\ upsets = 0

-----------------------------------------------------------------------------
Without(f, ids) == [x \in DOMAIN f \ ids |-> f[x]]
Put(f, x, v) == [y \in DOMAIN f \cup {x} |-> IF y = x THEN v ELSE f[y]]
Added(f, g) == [y \in DOMAIN f \cup DOMAIN g |-> IF y \in DOMAIN g THEN g[y] ELSE f[y]]

\* What a statement of the transaction reads: its own rows and committed ones.
Visible(f, run) == {x \in DOMAIN f : f[x].owner \in {NoOne, run}}
Committed(f) == {x \in DOMAIN f : f[x].owner = NoOne}
Own(f, run) == {x \in DOMAIN f : f[x].owner = run}

Kept(f, run) == [x \in DOMAIN f |-> IF f[x].owner = run THEN [f[x] EXCEPT !.owner = NoOne] ELSE f[x]]

Advance(run, stage) == runs' = [runs EXCEPT ![run] = [runs[run] EXCEPT !.stage = stage]]

\* An import that is over leaves its report: the lines of the records, the groups.
Ends(run, stage) ==
    runs' = [runs EXCEPT ![run] = [NewRun EXCEPT !.stage = stage, !.mode = runs[run].mode,
                                                 !.listing = runs[run].listing,
                                                 !.entries = runs[run].entries,
                                                 !.groups = runs[run].groups]]

Upset(happens) ==
    /\ happens => upsets < MaxUpsets
    /\ upsets' = IF happens THEN upsets + 1 ELSE upsets

\* Start: an import of the source once, a preview of one, or one through the bridge.
Start(run, mode) ==
    /\ runs[run].stage = "new"
    /\ mode = "bridge" => bridge.id # 0 /\ bridge.connected
    /\ runs' = [runs EXCEPT ![run] =
                   [runs[run] EXCEPT !.stage = "reading", !.mode = mode,
                                     !.bridge = IF mode = "bridge" THEN bridge.id ELSE 0]]
    /\ UNCHANGED <<fleet, monitors, pages, bridge, mapping, upsets>>

\* The adapter's whole read; one that fails, or needs more requests than the
\* transport allows, imports nothing.
ReadSource(run) ==
    /\ runs[run].stage = "reading"
    /\ \E l \in Listings :
          runs' = [runs EXCEPT ![run] = [runs[run] EXCEPT !.stage = "loading", !.listing = l]]
    /\ UNCHANGED <<fleet, monitors, pages, bridge, mapping, upsets>>

LoadImported(run) ==
    LET ids == {x \in Visible(monitors, run) : monitors[x].src # "none"}
    IN  [r \in {monitors[x].src : x \in ids} |-> CHOOSE x \in ids : monitors[x].src = r]

LoadExisting(run) ==
    {<<monitors[x].key, x>> : x \in Visible(monitors, run)}

Folders(run) ==
    {<<monitors[x].parent, monitors[x].key, x>> :
        x \in {y \in Visible(monitors, run) : monitors[y].type = "group"}}

Load(run) ==
    /\ runs[run].stage = "loading"
    /\ runs' = [runs EXCEPT ![run] =
                   [runs[run] EXCEPT !.stage = "checks", !.imported = LoadImported(run),
                                     !.known = LoadExisting(run), !.folders = Folders(run)]]
    /\ UNCHANGED <<fleet, monitors, pages, bridge, mapping, upsets>>

-----------------------------------------------------------------------------
\* GroupTree.resolve: the groups of a path, found, reused or made, the ones it
\* makes with what they are in; the fault is the depth at which making one
\* fails, 0 for none.
GroupId(run, prefix) == <<run, "group", prefix>>

ResolveStep(run, path, fault, acc, d) ==
    LET prefix == SubSeq(path, 1, d)
        reused == {f \in runs[run].folders : f[1] = acc.parent /\ f[2] = path[d]}
        orphan == /\ acc.parent # NoId
                  /\ acc.parent \notin Visible(monitors, run)
                  /\ \A p \in DOMAIN acc.made : acc.parent # GroupId(run, p)
    IN  IF ~ acc.ok THEN acc
        ELSE IF prefix \in DOMAIN acc.paths THEN [acc EXCEPT !.parent = acc.paths[prefix]]
        ELSE IF reused # {}
        THEN LET f == CHOOSE f \in reused : TRUE
             IN  [acc EXCEPT !.parent = f[3], !.paths = Put(acc.paths, prefix, f[3])]
        ELSE IF d = fault \/ orphan THEN [acc EXCEPT !.ok = FALSE]
        ELSE [acc EXCEPT
                !.parent = GroupId(run, prefix),
                !.paths = Put(acc.paths, prefix, GroupId(run, prefix)),
                !.made = Put(acc.made, prefix, acc.parent)]

Resolving(run, path, fault) ==
    LET walk[d \in 0 .. Len(path)] ==
            IF d = 0 THEN [ok |-> TRUE, parent |-> NoId, paths |-> runs[run].paths, made |-> Empty]
            ELSE ResolveStep(run, path, fault, walk[d - 1], d)
    IN  walk[Len(path)]

\* The rows of the groups that were made, named for the last step of their path.
GroupRows(run, made) ==
    [x \in {GroupId(run, p) : p \in DOMAIN made} |->
        [owner |-> run, src |-> "none", key |-> Last(x[3]), type |-> "group", parent |-> made[x[3]],
         shadow |-> Never, paused |-> FALSE]]

\* A resolve that throws is rolled back with its savepoint, and forgotten.
Resolve(run, path, fault) ==
    LET r == Resolving(run, path, fault)
    IN  IF r.ok THEN [parent |-> r.parent, paths |-> r.paths, made |-> GroupRows(run, r.made)]
        ELSE [parent |-> NoId, paths |-> runs[run].paths, made |-> Empty]

\* The unique index monitors_import_source_idx: another row for the record.
Clashes(run, r) == \E x \in Visible(monitors, run) : monitors[x].src = r

\* An insert that meets an uncommitted row of its key waits for its transaction.
Waits(run, r) == \E x \in DOMAIN monitors \ Visible(monitors, run) : monitors[x].src = r

Report(self, r, outcome, id) ==
    [self EXCEPT !.entries = Put(self.entries, r, [outcome |-> outcome, monitor |-> id, lost |-> NoId]),
                 !.at = self.at + 1]

\* createMonitor refuses a parent it cannot find (assertParent).
Orphaned(self, r, parent) ==
    [self EXCEPT !.entries = Put(self.entries, r, [outcome |-> "skipped", monitor |-> NoId, lost |-> parent]),
                 !.at = self.at + 1]

\* What became of a check that its group does not matter to.
Skip(run, r, outcome) ==
    /\ runs' = [runs EXCEPT ![run] = Report(runs[run], r, outcome, NoId)]
    /\ UNCHANGED monitors

AlreadyImported(run, r) ==
    /\ runs' = [runs EXCEPT ![run] =
                   Report([runs[run] EXCEPT !.made = Put(runs[run].made, r, runs[run].imported[r])],
                          r, "skipped", NoId)]
    /\ UNCHANGED monitors

\* The duplicate is a guess: it is not the check's monitor on any status page.
Duplicate_Trusted(self, r, key) ==
    Report([self EXCEPT !.made = Put(self.made, r, (CHOOSE k \in self.known : k[1] = key)[2])],
           r, "skipped", NoId)

Duplicate(self, r, key) == Report(self, r, "skipped", NoId)

\* createMonitor and recordImportSource in one savepoint: both or neither.
Store(run, r, self, g, outcome) ==
    LET id == <<run, "check", r>>
        c == fleet.checks[r]
    IN  /\ monitors' = Put(Added(monitors, g.made), id,
                           [owner |-> run, src |-> r, key |-> c.key, type |-> "check",
                            parent |-> g.parent, shadow |-> Never, paused |-> c.paused])
        /\ runs' = [runs EXCEPT ![run] =
                       Report([self EXCEPT !.known = self.known \cup {<<c.key, id>>},
                                           !.made = Put(self.made, r, id)],
                              r, outcome, id)]

\* importCheck, of a check whose translation is `becomes': the fault is a group that cannot be made; `stores' that the
\* database takes the row.
ImportCheck(run, fault, stores) ==
    LET self == runs[run]
        r == self.listing[self.at]
        c == fleet.checks[r]
        t == c.becomes
        g == Resolve(run, c.path, fault)
        grouped == [self EXCEPT !.paths = g.paths, !.groups = self.groups \cup DOMAIN g.made]
        parented == g.parent = NoId \/ g.parent \in Visible(monitors, run) \cup DOMAIN g.made
    IN  /\ self.stage = "checks"
        /\ self.at <= Len(self.listing)
        /\ \/ /\ r \in DOMAIN self.imported
              /\ AlreadyImported(run, r)
           \/ /\ r \notin DOMAIN self.imported
              /\ t = "unsupported"
              /\ Skip(run, r, t)
           \/ /\ r \notin DOMAIN self.imported
              /\ t # "unsupported"
              /\ \/ /\ \/ t = "skipped"
                       \/ \E k \in self.known : k[1] = c.key
                    /\ monitors' = Added(monitors, g.made)
                    /\ runs' = [runs EXCEPT ![run] =
                                   IF t = "skipped" THEN Report(grouped, r, t, NoId)
                                                    ELSE Duplicate(grouped, r, c.key)]
                 \/ /\ t # "skipped"
                    /\ \A k \in self.known : k[1] # c.key
                    /\ ~ Waits(run, r)
                    /\ IF Clashes(run, r) \/ ~ parented \/ ~ stores
                       THEN /\ monitors' = Added(monitors, g.made)
                            /\ runs' = [runs EXCEPT ![run] =
                                           IF parented THEN Report(grouped, r, "skipped", NoId)
                                                       ELSE Orphaned(grouped, r, g.parent)]
                       ELSE Store(run, r, grouped, g,
                                  IF c.path = <<>> /\ ~ c.paused THEN t ELSE "transformed")
        /\ Upset(fault > 0 \/ ~ stores)
        /\ UNCHANGED <<fleet, pages, bridge, mapping>>

\* Two transactions that wait for each other: one statement is the victim, and
\* its savepoint makes it one skipped record.
Victim(run) ==
    LET self == runs[run]
        r == self.listing[self.at]
    IN  /\ self.stage = "checks"
        /\ self.at <= Len(self.listing)
        /\ r \notin DOMAIN self.imported
        /\ Waits(run, r)
        /\ \E other \in Run \ {run} :
              /\ runs[other].stage = "checks"
              /\ runs[other].at <= Len(runs[other].listing)
              /\ Waits(other, runs[other].listing[runs[other].at])
        /\ runs' = [runs EXCEPT ![run] = Report(self, r, "skipped", NoId)]
        /\ UNCHANGED <<fleet, monitors, pages, bridge, mapping, upsets>>

-----------------------------------------------------------------------------
FreeSlug(run) ==
    LET free == {n \in 1 .. MaxSlug : n \notin Visible(pages, run)}
    IN  IF free = {} THEN 0 ELSE CHOOSE n \in free : \A m \in free : n <= m

\* setStatusPageMonitors refuses a monitor that is gone or in shadow.
Publishable(run, members) ==
    /\ members \subseteq Visible(monitors, run)
    /\ \A x \in members : monitors[x].shadow \in {Never, Ended}

\* importStatusPages: the page of the source, with the monitors its records
\* became in this import or an earlier one.
ImportPages(run, stores) ==
    LET self == runs[run]
        slug == FreeSlug(run)
        members == {self.made[r] : r \in fleet.page \cap DOMAIN self.made}
    IN  /\ self.stage = "checks"
        /\ self.at > Len(self.listing)
        /\ fleet.page # {} /\ slug # 0 => slug \notin DOMAIN pages
        /\ pages' = IF fleet.page # {} /\ slug # 0 /\ stores /\ Publishable(run, members)
                    THEN Put(pages, slug, [owner |-> run, members |-> members])
                    ELSE pages
        /\ Advance(run, CASE self.mode = "bridge" -> "linking"
                          [] OTHER -> "closing")
        /\ Upset(~ stores)
        /\ UNCHANGED <<fleet, monitors, bridge, mapping>>

Close_Commits(run) ==
    /\ runs[run].stage = "closing"
    /\ monitors' = Kept(monitors, run)
    /\ pages' = Kept(pages, run)
    /\ Ends(run, "done")
    /\ UNCHANGED <<fleet, bridge, mapping, upsets>>

\* withRollbackOnDryRun.
Close(run) ==
    /\ runs[run].stage = "closing"
    /\ IF runs[run].mode = "preview"
       THEN /\ monitors' = Without(monitors, Own(monitors, run))
            /\ pages' = Without(pages, Own(pages, run))
       ELSE /\ monitors' = Kept(monitors, run)
            /\ pages' = Kept(pages, run)
    /\ Ends(run, "done")
    /\ UNCHANGED <<fleet, bridge, mapping, upsets>>

Fails(run) ==
    /\ runs[run].stage \in {"reading", "loading", "checks", "linking", "closing", "linked"}
    /\ monitors' = Without(monitors, Own(monitors, run))
    /\ pages' = Without(pages, Own(pages, run))
    /\ Ends(run, "failed")
    /\ Upset(TRUE)
    /\ UNCHANGED <<fleet, bridge, mapping>>

-----------------------------------------------------------------------------
Listed(self) == {self.listing[i] : i \in DOMAIN self.listing}

Created_Linked(run) ==
    {x \in Visible(monitors, run) : monitors[x].src \in Listed(runs[run])} \cup runs[run].groups

\* createdIds: the rows the report names, and so never one of an earlier import.
Created(run) ==
    ({runs[run].entries[r].monitor : r \in DOMAIN runs[run].entries} \ {NoId}) \cup runs[run].groups

\* What a record is linked to; a duplicate by name is linked to nothing.
LinkOf(run, r) ==
    LET e == runs[run].entries[r]
        now == LoadImported(run)
    IN  IF e.monitor # NoId THEN e.monitor ELSE IF r \in DOMAIN now THEN now[r] ELSE NoId

\* runBridgeImport after the engine: the rows of this import go under the
\* bridge, which they reference from here on; a bridge that is gone takes the
\* import with it.
Link(run) ==
    /\ runs[run].stage = "linking"
    /\ bridge.id = runs[run].bridge
    /\ monitors' = [x \in DOMAIN monitors |->
                      IF x \in Created(run) THEN [monitors[x] EXCEPT !.shadow = bridge.id]
                                            ELSE monitors[x]]
    /\ runs' = [runs EXCEPT ![run] =
                   [runs[run] EXCEPT !.stage = "linked",
                                     !.links = [r \in Listed(runs[run]) |-> LinkOf(run, r)]]]
    /\ UNCHANGED <<fleet, pages, bridge, mapping, upsets>>

LinkFails(run) ==
    /\ runs[run].stage \in {"linking", "linked"}
    /\ bridge.id # runs[run].bridge
    /\ monitors' = Without(monitors, Own(monitors, run))
    /\ pages' = Without(pages, Own(pages, run))
    /\ Ends(run, "failed")
    /\ UNCHANGED <<fleet, bridge, mapping, upsets>>

\* The upserts of bridge_monitors, and the commit.
Mapped(run, r) ==
    LET link == IF runs[run].links[r] \in Visible(monitors, run) THEN runs[run].links[r] ELSE NoId
        c == fleet.checks[r]
        compared == link # NoId /\ c.kind # "heartbeat"
        old == IF r \in DOMAIN mapping THEN mapping[r] ELSE [monitor |-> NoId, compared |-> FALSE]
    IN  [monitor |-> IF link # NoId THEN link ELSE old.monitor,
         outcome |-> runs[run].entries[r].outcome,
         compared |-> old.compared \/ compared]

LinkCommits(run) ==
    /\ runs[run].stage = "linked"
    /\ bridge.id = runs[run].bridge
    /\ mapping' = Added(mapping, [r \in Listed(runs[run]) |-> Mapped(run, r)])
    /\ monitors' = Kept(monitors, run)
    /\ pages' = Kept(pages, run)
    /\ Ends(run, "done")
    /\ UNCHANGED <<fleet, bridge, upsets>>

-----------------------------------------------------------------------------
\* connectBridge, the first time and again.
ConnectBridge ==
    /\ IF bridge.id > 0 THEN bridge' = [bridge EXCEPT !.connected = TRUE]
       ELSE /\ bridge.id > -MaxBridges
            /\ bridge' = [id |-> 1 - bridge.id, connected |-> TRUE]
    /\ UNCHANGED <<fleet, monitors, pages, mapping, runs, upsets>>

DisconnectBridge ==
    /\ bridge.id > 0
    /\ bridge' = [bridge EXCEPT !.connected = FALSE]
    /\ UNCHANGED <<fleet, monitors, pages, mapping, runs, upsets>>

\* cutOver and abandon: every committed monitor under the bridge, at once.
EndShadow(abandon) ==
    /\ bridge.id > 0
    /\ monitors' = [x \in DOMAIN monitors |->
                      IF monitors[x].owner = NoOne /\ monitors[x].shadow = bridge.id
                      THEN [monitors[x] EXCEPT !.shadow = Ended, !.paused = monitors[x].paused \/ abandon]
                      ELSE monitors[x]]
    /\ monitors' # monitors
    /\ UNCHANGED <<fleet, pages, bridge, mapping, runs, upsets>>

\* deleteBridge counts what it can see; the foreign key, which is ON DELETE
\* RESTRICT, answers for the rows of an import that has not committed.
Deletable == \A x \in DOMAIN monitors : monitors[x].shadow # bridge.id

DeleteBridge ==
    /\ bridge.id > 0
    /\ Deletable
    /\ bridge' = [id |-> -bridge.id, connected |-> FALSE]
    /\ mapping' = Empty
    /\ UNCHANGED <<fleet, monitors, pages, runs, upsets>>

\* An operator renames a monitor, which changes every key but its provenance.
Rename(x) ==
    /\ monitors[x].owner = NoOne /\ monitors[x].type = "check" /\ monitors[x].key # "renamed"
    /\ monitors' = [monitors EXCEPT ![x] = [monitors[x] EXCEPT !.key = "renamed"]]
    /\ Upset(TRUE)
    /\ UNCHANGED <<fleet, pages, bridge, mapping, runs>>

\* deleteMonitor: a group releases its members, a page and a mapping row let go.
DeleteMonitor(x) ==
    /\ monitors[x].owner = NoOne
    /\ \A y \in DOMAIN monitors : monitors[y].owner # NoOne => monitors[y].parent # x
    /\ \A s \in DOMAIN pages : pages[s].owner # NoOne => x \notin pages[s].members
    /\ monitors' = [y \in DOMAIN monitors \ {x} |->
                      IF monitors[y].parent = x THEN [monitors[y] EXCEPT !.parent = NoId] ELSE monitors[y]]
    /\ pages' = [s \in DOMAIN pages |-> [pages[s] EXCEPT !.members = pages[s].members \ {x}]]
    /\ mapping' = [r \in DOMAIN mapping |->
                     IF mapping[r].monitor = x THEN [mapping[r] EXCEPT !.monitor = NoId] ELSE mapping[r]]
    /\ Upset(TRUE)
    /\ UNCHANGED <<fleet, bridge, runs>>

RunStep(run) ==
    \/ \E mode \in {"once", "preview", "bridge"} : Start(run, mode)
    \/ ReadSource(run)
    \/ Load(run)
    \/ \E fault \in 0 .. 2, stores \in BOOLEAN : ImportCheck(run, fault, stores)
    \/ Victim(run)
    \/ \E stores \in BOOLEAN : ImportPages(run, stores)
    \/ Close(run)
    \/ Link(run)
    \/ LinkFails(run)
    \/ LinkCommits(run)
    \/ Fails(run)

MNext ==
    \/ \E run \in Run : RunStep(run)
    \/ ConnectBridge
    \/ DisconnectBridge
    \/ \E abandon \in BOOLEAN : EndShadow(abandon)
    \/ DeleteBridge
    \/ \E x \in DOMAIN monitors : Rename(x) \/ DeleteMonitor(x)

MSpec == MInit /\ [][MNext]_mvars

-----------------------------------------------------------------------------
\* An import that has committed.
Over(run) == runs[run].stage = "done" /\ runs[run].mode # "preview"

\* A record the adapter listed once: of one listed twice the report keeps the
\* last line only, which says that the monitor the first made already exists.
Once(listing, r) == Cardinality({i \in DOMAIN listing : listing[i] = r}) = 1

(* One source record, one monitor: whatever the order of two imports, and    *)
(* after renames and deletions, no record has two monitors (importCheck asks *)
(* the provenance it read at the start; monitors_import_source_idx settles   *)
(* the race).                                                                *)
OnePerRecord ==
    \A x, y \in Committed(monitors) :
        x # y /\ monitors[x].src # "none" => monitors[x].src # monitors[y].src

(* The report is the whole truth about rows: every row an import left behind *)
(* is named by it, and a monitor it names was stored for that record -       *)
(* groups that were rolled back with their savepoint included (importCheck,  *)
(* GroupTree.resolve, ReportBuilder.totals' monitorsCreated).                *)
RowsReported ==
    \A x \in Committed(monitors) :
        x[1] \in Run =>
            /\ Over(x[1])
            /\ \/ x[2] = "group" /\ x \in runs[x[1]].groups
               \/ x[2] = "check" /\ (Once(runs[x[1]].listing, x[3]) => runs[x[1]].entries[x[3]].monitor = x)

(* A group that cannot be made costs a note, never a monitor: every row is   *)
(* inside a group that exists, and no record is refused for a group this     *)
(* import thought it had made (GroupTree.resolve forgets what its savepoint  *)
(* rolled back; without that every later check of the path would be lost).   *)
GroupsHold ==
    /\ \A x \in DOMAIN monitors :
          LET p == monitors[x].parent
          IN  p # NoId => p \in DOMAIN monitors /\ monitors[p].owner \in {NoOne, monitors[x].owner}
    /\ \A run \in Run : \A r \in DOMAIN runs[run].entries : runs[run].entries[r].lost[1] # run

(* What an import reports is what the tables hold, whatever was rolled back  *)
(* on the way (importSnapshot, importCheck, GroupTree).                      *)
ReportTrue == RowsReported /\ GroupsHold

(* What a bridge import made of records the adapter listed once, and every   *)
(* group it made, starts in shadow and leaves it only by a cutover or an     *)
(* abandonment, and nothing else ever enters it: not a monitor made by hand, *)
(* and not one an earlier import brought in (runBridgeImport's createdIds).  *)
(* The monitor of a record listed twice is outside: it is left live.         *)
ShadowExact ==
    \A x \in Committed(monitors) :
        LET bridged == x[1] \in Run /\ runs[x[1]].mode = "bridge"
        IN  /\ monitors[x].shadow # Never => bridged
            /\ bridged /\ (x[2] = "check" => Once(runs[x[1]].listing, x[3])) => monitors[x].shadow # Never

(* A monitor in shadow has its bridge, so that there is always a way out of  *)
(* the shadow (deleteBridge, and the restriction of the foreign key).        *)
ShadowBacked ==
    \A x \in Committed(monitors) : monitors[x].shadow > 0 => monitors[x].shadow = bridge.id

(* A mapping row points at the monitor that carries its record's provenance, *)
(* never at one that merely looks the same: the comparison of the bridge     *)
(* reads incidents through it (runBridgeImport's links).                     *)
LinkTrue ==
    \A r \in DOMAIN mapping :
        mapping[r].monitor # NoId => monitors[mapping[r].monitor].src = r

(* A status page that was imported publishes monitors of the records the     *)
(* source published on it, and nobody else's (importStatusPages; the comment *)
(* in importCheck on why a duplicate by name is not good enough).            *)
PagesFaithful ==
    \A s \in DOMAIN pages : \A x \in pages[s].members : monitors[x].src \in fleet.page

(* Provenance decides everywhere, and a look-alike nowhere: which record a   *)
(* monitor is of, which monitor a record is compared with, and which a page  *)
(* publishes.                                                                *)
ProvenanceTrue == OnePerRecord /\ LinkTrue /\ PagesFaithful

(* A bridge's import is silent, but for a record that was listed twice, and  *)
(* somebody can always end the silence.                                      *)
ShadowSound == ShadowExact /\ ShadowBacked

(* What runBridgeImport says of itself: every monitor and group the run      *)
(* created is put into shadow mode.  The code breaks it for a record that    *)
(* the adapter listed twice, whose last line in the report names no monitor. *)
AllShadowed ==
    \A x \in Committed(monitors) :
        x[1] \in Run /\ runs[x[1]].mode = "bridge" => monitors[x].shadow # Never
=============================================================================
