-------------------------------- MODULE Kuma ---------------------------------
(***************************************************************************)
(* Importing an Uptime Kuma database (importers/kuma/import.ts): one       *)
(* transaction with a savepoint for every monitor and every status page,   *)
(* parents before their children, a preview that rolls everything back.    *)
(* Imports run side by side with each other and with operators who delete. *)
(*                                                                         *)
(* The tables, and what a statement sees of them, are those of Migration.  *)
(* The id of a monitor is the import, "row" and the row it was made for.   *)
(*                                                                         *)
(* A definition named X_Y is X with a plausible mistake Y in it.           *)
(***************************************************************************)
EXTENDS Migration, KumaRows

CONSTANTS
    Take,               \* imports of the Kuma database
    Kumas,              \* the databases it may be, see KumaInit
    MAX_PAGE_MONITORS   \* monitors a page holds

\* The last heartbeat of a push monitor: there is none that can be read, the job
\* said it, or it is a state of Kuma's own scheduler (pending, maintenance).
Beat == {"none", "said", "silent"}

\* What the reader of a database promises (readKumaDatabase): finitely many rows,
\* all of them listed.  The markers of the model are not among them.
ASSUME KumaConstants ==
    /\ {"none", "hand", "committed"} \cap Take = {}
    /\ \A db \in Kumas :
          /\ IsFiniteSet(DOMAIN db.rows)
          /\ db.listing \in Seq(DOMAIN db.rows) /\ ToSet(db.listing) = DOMAIN db.rows
          /\ \A r \in DOMAIN db.rows : db.rows[r].beat \in Beat

VARIABLES
    kuma,   \* the database; it does not change
    takes   \* the imports

kvars == <<kuma, takes>>

-----------------------------------------------------------------------------
NewTake ==
    [stage |-> "new", dry |-> FALSE, queue |-> <<>>, imported |-> Empty, token |-> "unread",
     resolved |-> Empty, used |-> {}, carried |-> {}, entries |-> Empty, page |-> 1, placed |-> {}]

\* A push monitor that somebody made by hand.
PushByHand(token) ==
    [owner |-> NoOne, src |-> "none", key |-> "hand", type |-> "push", parent |-> NoId,
     shadow |-> Never, paused |-> FALSE, beat |-> FALSE, token |-> token]

\* The tables are empty, but for a monitor that may have the token of a row.
KumaInit ==
    /\ kuma \in Kumas
    /\ takes = [t \in Take |-> NewTake]
    /\ monitors \in {Empty} \cup
          {[x \in {HandId} |-> PushByHand(kuma.rows[r].token)] :
              r \in {q \in DOMAIN kuma.rows : kuma.rows[q].token # "none"}}
    /\ pages = Empty /\ mapping = Empty /\ bridge = [id |-> 0, connected |-> FALSE]
    /\ runs = [r \in Run |-> NewRun] /\ upsets = 0

-----------------------------------------------------------------------------
CreationOrder_Listed(db) == db.listing

\* visit climbs from a row: `up' is what it is visiting, the outermost first.  A
\* group that is placed, being visited or not there ends the climb.
VisitParent(db, ordered, up) ==
    LET p == db.rows[up[1]].parent
    IN  IF p \in DOMAIN db.rows \ (ToSet(ordered) \cup ToSet(up)) THEN <<p>> \o up ELSE up

Visit(db, ordered, r) ==
    LET most == Cardinality(DOMAIN db.rows)
        climb[d \in 0 .. most] == IF d = 0 THEN <<r>> ELSE VisitParent(db, ordered, climb[d - 1])
    IN  IF r \in ToSet(ordered) THEN ordered ELSE ordered \o climb[most]

\* creationOrder: the groups above a row, then the row, in the order of ids.
CreationOrder(db) ==
    LET order[n \in 0 .. Len(db.listing)] ==
            IF n = 0 THEN <<>> ELSE Visit(db, order[n - 1], db.listing[n])
    IN  order[Len(db.listing)]

Line(outcome, id, lost) == [outcome |-> outcome, monitor |-> id, lost |-> lost]

\* A database of another release is refused whole, unless the operator insists
\* (schemaDrift); otherwise the transaction begins and reads what is there.
KumaBegin(t, dry, allowDrift) ==
    /\ takes[t].stage = "new"
    /\ takes' = [takes EXCEPT ![t] =
                    IF kuma.drift /\ ~ allowDrift
                    THEN [takes[t] EXCEPT
                             !.stage = "refused",
                             !.entries = [r \in DOMAIN kuma.rows |-> Line("skipped", NoId, NoId)]]
                    ELSE [takes[t] EXCEPT !.stage = "rows", !.dry = dry, !.queue = CreationOrder(kuma),
                                          !.imported = LoadImported(t)]]
    /\ UNCHANGED <<kuma, mvars>>

\* The row is done with: its line, and on to the next.
NextRow(self, r, line) ==
    [self EXCEPT !.entries = Put(self.entries, r, line), !.queue = Tail(self.queue), !.token = "unread"]

\* A row of an earlier import is what its children and the pages refer to.
KumaAlready(t) ==
    LET self == takes[t]
        r == Head(self.queue)
    IN  /\ self.stage = "rows" /\ self.queue # <<>>
        /\ r \in DOMAIN self.imported
        /\ takes' = [takes EXCEPT ![t] =
                        NextRow([self EXCEPT !.resolved = Put(self.resolved, r, self.imported[r])], r,
                                Line("skipped", NoId, NoId))]
        /\ UNCHANGED <<kuma, mvars>>

\* A type without an equivalent, or a row buildMonitorInput refuses.
KumaRefused(t) ==
    LET self == takes[t]
        r == Head(self.queue)
    IN  /\ self.stage = "rows" /\ self.queue # <<>>
        /\ r \notin DOMAIN self.imported
        /\ kuma.rows[r].becomes \in {"unsupported", "skipped"}
        /\ takes' = [takes EXCEPT ![t] = NextRow(self, r, Line(kuma.rows[r].becomes, NoId, NoId))]
        /\ UNCHANGED <<kuma, mvars>>

Becoming(t) ==
    LET self == takes[t]
    IN  /\ self.stage = "rows" /\ self.queue # <<>>
        /\ Head(self.queue) \notin DOMAIN self.imported
        /\ kuma.rows[Head(self.queue)].becomes \in {"imported", "transformed"}

\* pushTokenTaken: by a monitor of any organisation, as far as one can see.
HasToken(x, token) == monitors[x].type = "push" /\ monitors[x].token = token

PushTokenTaken(t) ==
    LET r == Head(takes[t].queue)
    IN  /\ Becoming(t)
        /\ kuma.rows[r].token # "none"
        /\ takes[t].token = "unread"
        /\ takes' = [takes EXCEPT ![t] =
                        [takes[t] EXCEPT !.token =
                            IF \E x \in Visible(monitors, t) : HasToken(x, kuma.rows[r].token)
                            THEN "fresh" ELSE kuma.rows[r].token]]
        /\ UNCHANGED <<kuma, mvars>>

\* The monitor that is inserted, with its provenance, its pause and the last
\* heartbeat of a push monitor, unless it was silence (carryLastHeartbeat).
NewMonitor(t, r, parent) ==
    LET k == kuma.rows[r]
    IN  [owner |-> t, src |-> r, key |-> r, type |-> k.type, parent |-> parent, shadow |-> Never,
         paused |-> k.paused, beat |-> k.beat = "said",
         token |-> IF k.token = "none" THEN "none" ELSE takes[t].token]

\* monitors_import_source_idx and monitors_push_token_idx.
SameKey(x, m) == monitors[x].src = m.src \/ (m.token \notin {"none", "fresh"} /\ HasToken(x, m.token))

\* What the code writes down once the savepoint is released, and only then.  A
\* silent last beat leaves a note too, so its history is written down as carried.
Recorded_Early(self, r, id, written, k) ==
    [self EXCEPT !.resolved = Put(self.resolved, r, id),
                 !.used = self.used \cup ({k.host} \ {"none"}),
                 !.carried = self.carried \cup (IF k.beat = "none" THEN {} ELSE {r})]

Recorded(self, r, id, written, k) == IF written THEN Recorded_Early(self, r, id, written, k) ELSE self

\* The savepoint of a row: everything or a skipped line.  An insert whose key
\* belongs to a transaction that has not ended waits for it.
KumaStore(t, stores) ==
    LET self == takes[t]
        r == Head(self.queue)
        k == kuma.rows[r]
        id == <<t, "row", r>>
        parent == IF k.parent \in DOMAIN self.resolved THEN self.resolved[k.parent] ELSE NoId
        m == NewMonitor(t, r, parent)
        parented == parent = NoId \/ (parent \in Visible(monitors, t) /\ monitors[parent].type = "group")
        written == stores /\ parented /\ ~ \E x \in Visible(monitors, t) : SameKey(x, m)
        noted == k.becomes = "transformed" \/ k.parent # "none" \/ m.token = "fresh" \/ k.beat # "none"
    IN  /\ Becoming(t)
        /\ k.token = "none" \/ self.token # "unread"
        /\ ~ \E x \in DOMAIN monitors \ Visible(monitors, t) : SameKey(x, m)
        /\ monitors' = IF written THEN Put(monitors, id, m) ELSE monitors
        /\ takes' = [takes EXCEPT ![t] =
                        NextRow(Recorded(self, r, id, written, k), r,
                              IF written
                              THEN Line(IF noted THEN "transformed" ELSE "imported", id, NoId)
                              ELSE Line("skipped", NoId, IF parented THEN NoId ELSE parent))]
        /\ Upset(~ stores)
        /\ UNCHANGED <<kuma, fleet, pages, bridge, mapping, runs>>

-----------------------------------------------------------------------------
\* The monitors a page will hold, in Kuma's order, each once and up to the most
\* a page may have.
Members(self, page) ==
    LET known == {i \in DOMAIN page.rows : page.rows[i] \in DOMAIN self.resolved}
        upTo(j) == {self.resolved[page.rows[h]] : h \in {i \in known : i <= j}}
    IN  {page.rows[i] : i \in {j \in known : Cardinality(upTo(j)) <= MAX_PAGE_MONITORS}}

\* importStatusPages: a page whose slug cannot be had, or that is refused, is
\* skipped with its sections.
KumaPage(t, stores) ==
    LET self == takes[t]
        page == kuma.pages[self.page]
        slug == FreeSlug(t)
        rows == Members(self, page)
        members == {self.resolved[r] : r \in rows}
        written == page.slug /\ slug # 0 /\ stores /\ Publishable(t, members)
    IN  /\ self.stage = "rows" /\ self.queue = <<>>
        /\ self.page <= Len(kuma.pages)
        /\ page.slug /\ slug # 0 => slug \notin DOMAIN pages
        /\ pages' = IF written THEN Put(pages, slug, [owner |-> t, members |-> members]) ELSE pages
        /\ takes' = [takes EXCEPT ![t] =
                        [self EXCEPT !.page = self.page + 1,
                                     !.placed = IF written THEN self.placed \cup rows ELSE self.placed]]
        /\ Upset(~ stores)
        /\ UNCHANGED <<kuma, fleet, monitors, bridge, mapping, runs>>

\* withRollbackOnDryRun, and the report.
KumaClose(t) ==
    LET self == takes[t]
    IN  /\ self.stage = "rows" /\ self.queue = <<>> /\ self.page > Len(kuma.pages)
        /\ IF self.dry
           THEN /\ monitors' = Without(monitors, Own(monitors, t))
                /\ pages' = Without(pages, Own(pages, t))
           ELSE /\ monitors' = Kept(monitors, t)
                /\ pages' = Kept(pages, t)
        /\ takes' = [takes EXCEPT ![t] = [self EXCEPT !.stage = "done"]]
        /\ UNCHANGED <<kuma, fleet, bridge, mapping, runs, upsets>>

\* A statement outside every savepoint fails, or the process dies.
KumaFails(t) ==
    /\ takes[t].stage = "rows"
    /\ monitors' = Without(monitors, Own(monitors, t))
    /\ pages' = Without(pages, Own(pages, t))
    /\ takes' = [takes EXCEPT ![t] = [NewTake EXCEPT !.stage = "failed"]]
    /\ Upset(TRUE)
    /\ UNCHANGED <<kuma, fleet, bridge, mapping, runs>>

TakeStep(t) ==
    \/ \E dry, allowDrift \in BOOLEAN : KumaBegin(t, dry, allowDrift)
    \/ KumaAlready(t)
    \/ KumaRefused(t)
    \/ PushTokenTaken(t)
    \/ \E stores \in BOOLEAN : KumaStore(t, stores)
    \/ \E stores \in BOOLEAN : KumaPage(t, stores)
    \/ KumaClose(t)
    \/ KumaFails(t)

KumaNext ==
    \/ \E t \in Take : TakeStep(t)
    \/ \E x \in DOMAIN monitors : DeleteMonitor(x) /\ UNCHANGED kvars

KumaSpec == KumaInit /\ [][KumaNext]_<<kvars, mvars>>

-----------------------------------------------------------------------------
\* The lines of what Vigil has no table for: every record has one.  A Docker host
\* or a browser is spoken of as carried when a monitor took it, a history when
\* there was a note about its last beat.
HostLine(self, host) == IF host \in self.used THEN "transformed" ELSE "unsupported"
HistoryLine(self, r) == IF r \in self.carried THEN "transformed" ELSE "unsupported"

\* The line of a monitor some page of Kuma's showed: published or not.
PageLine(self, r) == IF r \in self.placed THEN "imported" ELSE "unsupported"

Reported(t) == takes[t].stage = "done" /\ ~ takes[t].dry

\* A Kuma tree arrives as a tree: a monitor is in the group its row was in,
\* when that group is there, and no row is lost to a group this very import
\* thought it had made.
TreeKept ==
    /\ \A x \in Committed(monitors) :
          x[1] \in Take =>
             LET self == takes[x[1]]
                 p == kuma.rows[x[3]].parent
             IN  p \in DOMAIN self.resolved /\ self.resolved[p] \in DOMAIN monitors =>
                     monitors[x].parent = self.resolved[p]
    /\ \A t \in Take : \A r \in DOMAIN takes[t].entries : takes[t].entries[r].lost[1] # t

\* What is there is reported and what is reported as there was written: monitors,
\* tokens kept, pages, hosts; and the last beat of a history called carried, but
\* for one that was silent, of which nothing is written.
LinesTrue ==
    /\ \A x \in Committed(monitors) :
          x[1] \in Take => Reported(x[1]) /\ takes[x[1]].entries[x[3]].monitor = x
    /\ \A t \in Take :
          LET self == takes[t]
              Made(r) == self.entries[r].monitor # NoId
          IN  /\ self.stage \in {"done", "refused"} => DOMAIN self.entries = DOMAIN kuma.rows
              /\ \A host \in {kuma.rows[r].host : r \in DOMAIN kuma.rows} :
                    HostLine(self, host) = "transformed" =>
                        \E r \in DOMAIN self.entries : Made(r) /\ kuma.rows[r].host = host
              /\ \A r \in DOMAIN kuma.rows :
                    HistoryLine(self, r) = "transformed" =>
                        /\ r \in DOMAIN self.entries /\ Made(r)
                        /\ self.entries[r].monitor \in DOMAIN monitors =>
                              monitors[self.entries[r].monitor].beat \/ kuma.rows[r].beat = "silent"
              /\ Reported(t) =>
                    \A r \in DOMAIN self.resolved :
                        \/ PageLine(self, r) = "unsupported"
                        \/ self.resolved[r] \notin DOMAIN monitors
                        \/ \E s \in DOMAIN pages : self.resolved[r] \in pages[s].members
              /\ \A r \in DOMAIN self.entries :
                    LET x == self.entries[r].monitor
                    IN  self.entries[r].outcome = "imported" /\ x \in DOMAIN monitors =>
                            monitors[x].token = kuma.rows[r].token

(* The report of a Kuma import agrees with the tables, but for the line of a *)
(* history whose last beat was silent, and the tree of groups is the one     *)
(* Kuma had, whatever failed inside a savepoint on the way, whatever another *)
(* import does at the same time, and in a preview (importKumaDatabase,       *)
(* creationOrder, importStatusPages).                                        *)
KumaFaithful == TreeKept /\ LinesTrue

(* From whichever system a monitor comes, what it loses on the way is spoken *)
(* of in the report or is one of the settings and columns that Silent and    *)
(* Unspoken name (translateCheck, buildMonitorInput).                        *)
SpokenFor == RecordSpoken /\ RowSpoken
=============================================================================
