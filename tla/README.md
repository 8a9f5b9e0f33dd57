# A verification project for Vigil Core

Vigil Core is a self-hosted monitoring service: workers probe monitors, turn
the observations into incidents, and tell people. It also takes over the
monitors of other systems, and compares itself with them before it is trusted.
These modules model the parts in which several processes act on the same rows
of one Postgres database, any of them may die between two statements, and a
mistake means that nobody is paged, that somebody is paged twice, or that a
monitor quietly watches less than its owner believes.

Paths below are relative to the repository: `src/modules/...`,
`src/worker/...`, `docs/...`. Nothing but the database, the pg-boss queue and
the network is shared between processes.

## 1. Inventory

| Component | State | Operations | What is hard |
|---|---|---|---|
| Scheduler (`worker/jobs/monitor-tick.ts`, `monitor-check.ts`, `modules/monitors/service.ts`) | `next_evaluation_at`, `dispatch_claimed_until`, `paused`, `high_frequency`; the `monitor-check` queue | tick: select, defer, claim, enqueue; check: probe, record, reserve and send the follow-up; run now, pause, edit, high frequency on/off | two ticks at once, ticks against follow-ups, a death after the claim, decisions on stale reads |
| High-frequency plane (`modules/monitors/highfreq/`) | shard leases, slots and counters in memory, a sample buffer | claim, renew, release, reload, tick, probe, promote, flush | claims in flight while the plane goes idle, slots replaced under a probe, a buffer at its limit |
| Status controller (`modules/monitors/status-controller.ts`) | none (pure) | `deriveStatus`, `advanceFailureRun`, `reconcile` | failure windows |
| Outcomes and incidents (`modules/monitors/outcome.ts`, `modules/incidents/service.ts`) | status columns of `monitors`; `incidents`, timeline | record, open, claim the page, resolve; operators acknowledge, change status, pause, delete, cut over | concurrent checks of one monitor, a death between opening and paging, claims after resolutions |
| Groups and manual monitors (`outcome.ts`, `types/specs/group.ts`, `manual.ts`) | `parent_id`, status columns | derive from the members, climb, declare, create, move, pause, delete | nothing re-derives on a timer: what a lost or overtaken derivation leaves, stays |
| Probes and check types (`modules/monitors/check.ts`, `net.ts`, `egress.ts`, `types/`) | one conversation, its timer, its socket | 37 active types: guard, ask, answer, judge | answer, error, close and timeout race to settle one promise |
| Incident evidence (`modules/incidents/evidence/`) | one snapshot per incident, a count of bursts | burst, classify, store, retain | one budget over four steps, Vigil's own timer mistaken for the target |
| Dispatch intents (`modules/notifications/intents.ts`, `intent-expansion.ts`, `flush.ts`) | `notification_intents` | record with the transition, sweep, expand, retire, prune | several sweepers, stale counters, a fan-out that fails half way |
| Notification outbox (`modules/notifications/outbox.ts`, `worker/jobs/notification-delivery.ts`) | `notification_outbox`, `notification_attempts` | enqueue, replay, claim, renew, send, record, defer, expire, sweep, prune | leases that lapse, workers that wake late, crashes around the send |
| Providers (`modules/notifications/providers/`) | none | send, read the answer | the message arrives and the answer is lost; 200 with an error inside |
| Observation ledger, uptime (`modules/ledger/`, `modules/monitors/uptime.ts`) | the hash chain and its hybrid logical clock | stamp, verify, sum a window | clocks that step back, two appenders, rollbacks, window edges |
| Importers (`modules/importers/`) | monitors, provenance, pages | translate, import, report; Uptime Kuma row by row | nothing may be lost quietly; savepoints undone behind what memory noted; two imports at once |
| Migration bridge (`modules/importers/bridge/`) | bridge, shadow flags, copies of the source's incidents | connect, import, poll, compare, cut over, abandon, delete | overlapping polls, reports that read while polls write, a cutover in the middle of an import |
| Heartbeats, status pages, channel administration, audit, AI, web application | tables of their own | CRUD, formatting | see section 5 |

How they interact: a check calls `applyOutcome`, which writes the monitor's
row, opens or resolves incidents and records an intent *in the same
transaction*, then derives the groups above; the flush after it, and every
worker's minute tick, expand intents into outbox rows and drain the outbox
through the providers. The fast plane probes on its own clock and promotes what
changed to the same `applyOutcome`. Imports create monitors, and through a
bridge keep them in shadow, where incidents are recorded and nobody is paged.

## 2. Modules

| Module | Models | Used by |
|---|---|---|
| `Outbox` | the outbox and its drains | `MCRecords`, `MCChecks`, `OutboxProofs` |
| `IntentPromise` | abstract specification of an intent: owed, then told once or retired | instantiated by `Intents` |
| `Intents` | recording, sweeping, expanding intents | `MCKinds`, `IntentsProofs` |
| `StatusController` | the pure controller | `Incidents`, `Derived` |
| `Incidents` | one monitor, concurrent checks, its incidents, the operators | `MCRecords`, `MCOutcomes`, `IncidentsProofs` |
| `Derived` | groups and manual monitors | `MCKinds` |
| `Scheduler` | who checks which monitor when | `MCChecks`, `SchedulerProofs` |
| `ShardLeases` | the fast plane's leases, in the table and in memory | `MCRecords`, `PlaneLedgerProofs` |
| `FastSlots` | the fast plane's slots, probes, promotions, sample writer | `MCFastSlots`, `FastSlotsProofs` |
| `Ledger` | the chain of observations and the uptime read from it | `MCOutcomes`, `PlaneLedgerProofs` |
| `Replies`, `LineTypes`, `BinaryTypes`, `DatagramTypes`, `WebTypes`, `LocalTypes`, `CheckTypes` | every active check type as a table of what it may hear and what it makes of it | `Probing` |
| `Probing` | one check against a target, its deadline and its socket | `MCEdges`, `EdgesProofs` |
| `Delivering` | one delivery through every provider | `MCEdges`, `EdgesProofs` |
| `Bursts` | the diagnostic bursts of an incident and its snapshot | `MCEdges`, `EdgesProofs` |
| `Translation` | what a check of another system becomes, setting by setting | `Migration`, `MigrationProofs` |
| `Migration` | imports, provenance, groups, pages, the bridge's shadow | `Kuma`, `MigrationProofs` |
| `KumaRows`, `Kuma` | Uptime Kuma's columns and types; the import of its database | `MCMigration`, `MigrationProofs` |
| `Evidence` | the bridge's polls, comparison and verdict | `MCMigration`, `MigrationProofs` |

Conventions. A database statement or transaction is one action; everything
between two of a process is a possible interleaving and a possible death. A
statement that Postgres evaluates on a snapshot and applies later
(`expireOverdue`, `deleteMonitor`) is two actions. A definition named `X_Y` is
`X` with a plausible mistake `Y`; no specification uses it, and with it in X's
place a property fails. Where an MC module hosts several components that share
nothing, a variable `part` chooses in the initial state which of them the
behaviour is of; the others stand still.

**Outbox.** `outbox[r]` is a row (state, attempts, fence, lease, due times),
`attempts` the evidence table, `holding` what the drains hold in memory: the
copy of fence, attempt and lease a claim was granted, and how far its send has
got. `phase` and `doomed` are a drain's position in `runNotificationDelivery`
and the snapshot of its expiry sweep. `sent` is a history of provider calls.
Back-off with jitter is a choice of waits up to the ceiling.

**Intents.** `intent[c]` is the row of a transition; `due[w]` what a sweeper
read (with the attempts it read); `job[w]` its open transaction, whose rows
become visible at commit; `audience` changes at any time. A failed expansion is
a rollback followed by `RecordExpansionFailure`, which writes the stale
attempts plus one, or by `BookkeepingFails`. `Promise == INSTANCE IntentPromise
WITH promise <- ...` maps a row and its history to owed, told or retired.

**Incidents.** `monitor` is the row (status, failure run, pause, shadow,
window); `check[w]` is one call of `applyOutcome` with the row it read before
probing; `incident[i]` the rows; `intents` the transitions recorded;
`evidence` the bursts. `claims`, `late`, `slateAt` are history: page claims
won, incidents claimed after their resolution, and the time of the last clean
slate. A paging hold belongs to another edition: what a handler does is
external.

**Derived.** `monitor[m]` are the rows of a small tree, `says` what a probe
would find or an operator declared, `walk[w]` one process: a check, or a server
action, with the row it read and how far it has climbed. Reading the group,
reading its members and writing are three statements; so are `assertParent`
and the update it precedes. The instant of a write is taken at the write.
Members share their group's shadow setting.

**Scheduler.** A timestamp is the time that is left until it, so the clock has
no bound and liveness is about real infinite behaviours. `row[m]` holds the due
time, the dispatch claim, and the flags; `waiting[m]` the queued job;
`tick[t]` and `job[w]` the positions of ticks and checks; `live` whether a
lease covers the shards. pg-boss is external: one queued and one active job per
monitor, an active job of a dead process expires. The claims cache of one
second is below the model's unit of time. `FOR UPDATE SKIP LOCKED` is the order
of two steps: a row skipped because the other tick holds it is one that tick
has just claimed.

**ShardLeases, FastSlots.** In `ShardLeases` the execution of a claim and the
arrival of its answer are two steps, because that is where a release overtakes
them; `Skew` is how far a worker's clock runs ahead of the database's, negative
when it is behind, by no more than `Lag`. A copy of a lease in memory goes on
counting below zero after the database has let the grant lapse: `holdsShards`
compares it with the worker's own clock, and on a clock that is behind it still
holds (`Overrun`). `undercut` is history: the worker itself handed back a stale
grant over a newer one (`releaseShards` names the owner, not the grant). In `FastSlots` a slot is an object: a probe or
a promotion keeps the object it began with while a reload puts another into the
table.

**Ledger.** A hash is the tuple of what it covers. A transaction takes the wall
clock, locks the actor's row, stamps, commits or rolls back; the logical
counter overflows into the physical part at `CounterBase`. `Uptime` is
`uptimeFromSamples`, compared in `UptimeSound` with a definition instant by
instant.

**Check types.** A type is its settings, a table from the phase of the
conversation to the answers it tells apart, its assertions and the clock it
runs by. An answer's `tag` says what it means about the target, written from
the protocol and the documentation of the type; its `step` says what the code
does. `VerdictTrue` compares the two for every conversation. Wire formats are
left out. `ClockOf` says how the code times a type: one deadline over the whole
conversation ("whole"), one for every call with a least time for the last
("floor": kafka's leader, globalping's polls), one with a grace for a program or
a service ("grace"), or timers wound up again by question or by byte ("phase",
"remaining", "idle"). An http check fixes its response time (`took`) before it
reads the certificate, whose socket has an idle timer of its own.

**Delivering.** For every provider, which answers count as delivered,
permanent, retryable or unknown, against what arrived at the far end. A 2xx body
may be unreadable, in which no provider finds a refusal, and Jira's search may
miss an issue that is open, its index being behind or its answer unreadable.
`blind` is history: the row was called delivered on one of these.

**Bursts.** Two captures, possibly of one incident, each four steps under one
budget; what a step finds is free, and so is who ended it (`Enders`): the target,
the transport's timer after a step's whole time ("transport") or after what the
budget left it ("budget"), or the timer of `step()`. The module counter of
running bursts and the insert that keeps the first snapshot.

**Translation, Migration.** A source check is its kind and its settings, those
its kind's branch reads or not; the helpers that clamp, drop, rewrite or refuse
are operators on them, and a heartbeat's period takes the place of its interval.
What the code loses without a note is named, case by case, in `Silent`. Imports are
transactions at READ COMMITTED with a savepoint per record; a row with an owner
is uncommitted. The first reads of an import are one step. Operators rename,
delete, cut over, abandon and delete the bridge in between.

**KumaRows, Kuma.** The columns of Kuma's monitor table that `FIELD_MATRIX` calls
unsupported, what each type reads of them and what
`buildMonitorInput` makes of a value that fits, fits in part or does not fit;
then the import: creation order, tokens taken, Docker hosts, heartbeats
carried, pages, the preview. It works on Migration's tables. Columns whose loss
has no line are named in `Unspoken`. The last beat of a push monitor is none,
said by the job, or silent, a state of Kuma's own scheduler: the code notes the
silent one and inserts nothing.

**Evidence.** Polls (the job's and the button's) read the source and write
later; a report reads polls, copies and Vigil's incidents one after the other.
Source incidents without a resource, which the comparison passes over
(bridge/service.ts:912), are left out.

## 3. Runs

All are started with `tlc -config X.cfg M`.

| Run | Instance | Shows |
|---|---|---|
| `records` | outbox: 2 rows on one channel with a limit of 1, 2 drains; leases: 2 workers, clocks 2 behind and 1 ahead, leases of 2, 1 shard, 1 upset; incidents: 2 checks, 2 incidents, 1 crash, 1 operator's act, all verdicts, holds, Docker restarts, shadow | `AttemptsCovered`, `SendsEvidenced`; `MemoryBacked`, `ProbeExclusive`; `OneActive`, `PageOnce`, `AllClear`, `ShadowUnclaimed`, `ResolvedIsFinal` |
| `checks` | schedule: 1 monitor, 2 ticks, 1 check, 2 acts, 1 failure, no bound on time; outbox: 1 row, 2 drains, 1 crash, 2 attempts, clock 0..5 | `OneDispatch`, `PostponedOnlyIfFast`, under fairness `NeverSilent`; `LeaseExclusive`, `OutcomeEvidenced`, `NeverRevived`, under fairness `EventuallySettled` |
| `outcomes` | incidents: 2 checks, 1 incident, 2 acts, 1 crash, a clock; ledger: 2 transactions, 3 facts, a clock 0..2 that steps back, a counter of 2, a horizon of 2 | `DownEarned`, under fairness `EventuallyPaged`, `EventuallyClosed`; `ChainValid`, `UptimeSound` |
| `intents_groups` | 1 transition, 3 sweepers, 3 throws, 2 crashes, a changing audience; a group in a group, a checked and a manual member, 2 processes, 2 events | `FanOutSound`; `Intents` implements `IntentPromise`, its liveness included (`KeepsPromise`); groups come to agree with their members (`GroupsSettle`) |
| `slots` | 1 fast monitor, 2 slot objects, 2 targets, 1 edit, 2 upsets | `OrgFair`; under fairness `ChangeSeen` |
| `edges` | every active type with every setting it branches on, deadline 3, 2 pieces; every provider, 3 attempts; 2 captures, budget 3, steps of 2 | `VerdictTrue`, `InTime`, under fairness `Ends`; `ArrivalTrue`; `BurstBounded`, `LayerObserved`, `SnapshotStays` |
| `migration` | every kind of check with any one setting, any method and any period; every Kuma type with one column of its own and one of any type; 2 imports of 2 records, one listed twice; 2 imports of Kuma databases of 3 rows; 2 pollers, 1 source incident, 3 hours | `SpokenFor`, `ReportTrue`, `ShadowSound`, `ProvenanceTrue`; `KumaFaithful`; `EvidenceHonest`, `ResolvedStays` |

The bounds are the smallest at which each hazard happens: two drains are a
stalled worker and its replacement; a lease of 2 and a clock of 5 hold a claim,
its lapse, a reclaim and an expiry; a clock behind by a whole lease hides the
lapse of a grant for as long as another's lasts; three sweepers are needed for a stale
attempts value to be written after a commit by a second; two incidents are an
old and a new outage; two acts turn high frequency on and off around a tick;
two slot objects are the one a probe holds and the one a reload made; three
facts and a counter of 2 overflow it twice; two events around a group are a
move and a pause, a turn of the target and a death, two moves that make a
cycle; two imports are the race that provenance decides; three hours are a gap
between two covered ones. Crashes, throws and operators' acts are bounded
because each is a rare event whose repetition only repeats the case. Deadlock
checking is off where deleting the monitor, ending a check or finishing an
import ends everything there is to do. Symmetry is used only in runs without
liveness.

Five runs end in a violation: each states a sentence of the repository and shows
that the code does not keep it.

| Run | Sentence | What happens |
|---|---|---|
| `fast_wedge` (`Recovers`) | limits.ts:157: shedding is "recoverable" | the buffer passes the batch size, then the high-water mark, while one statement is out; no timer is set and only `add()`, which now refuses, starts a flush: the plane sheds for ever |
| `declared_down` (`DeclaredDown`) | docs/MONITOR-KINDS.md:170: a manual monitor set to `down` "opens an incident through the same status controller, the same failure window" | its one evaluation falls inside the window, nothing evaluates it again, and it stays up |
| `clocks_apart` (`OneOwner`) | leases.ts:43: two workers with clocks a minute apart "must not be able to produce two owners of one shard" | the expiry is stamped by the database and read by the worker's clock (plane.ts:312): one that is behind and can not renew probes on while the database has granted its shards to another |
| `burst_budget` (`BudgetUnmeasured`) | classify.ts:195: a step cut by the diagnostic budget is "a fact about Vigil" and not read as a measurement | the transport's timer is set to what the budget left (burst.ts:173, 197, 240), fires first, and `isSelfInflicted` does not know its words: the layer is called measured |
| `shadow_twice` (`AllShadowed`) | bridge/service.ts:487: "every monitor and group the run created is put into shadow mode" | of a record listed twice the report keeps the second line, which names no monitor (engine.ts:345): the monitor of the first stays live |

Fairness. The minute cron and the process-wide interval timers justify weak
fairness of ticks, sweeps, drains, reloads and flush timers; a step of a pass
in progress is a promise being awaited; clocks run and a timer that is set
fires. A dead process is not assumed to come back, only others to go on. In
`Scheduler` the fetch of a monitor's job is strongly fair (the queue is served
oldest first, and a job may be hidden behind an active one), and in `Derived`
the evaluation of a scheduled monitor is, which is what `NeverSilent` shows of
the scheduler. `Probing` is fair to Vigil's own timers and to the close event of
a socket it destroyed, never to the target. `EventuallyPaged` and
`EventuallyClosed` assume that checks go on seeing the monitor down or up, and
`ChangeSeen` is about lasting changes: an observation is not a thing fairness
can promise.

What the passing properties leave out. Each exception is in the property's
comment too, and is no wider than the case the code gets wrong.

- `MemoryBacked`, `ProbeExclusive`: a shard held by a clock that is behind, after
  the database let its grant lapse (`Overrun`; `clocks_apart` shows the case),
  and a worker that handed back a stale grant over a newer one (`undercut`).
- `VerdictTrue`: an http body that is cut short, or not in by the deadline, is
  taken for an empty one and judged by the status alone (http.ts:201).
- `InTime`: asked in full of the types with one deadline. "floor" and "grace" are
  allowed their extra time, the certificate read one timeout more with every piece;
  of "phase", "remaining" and "idle" (redis.ts:129 among them) nothing is asked.
- `ArrivalTrue`: a refusal in a 2xx body that could not be read (types.ts:325,
  `.catch(() => "")`), although types.ts:243 calls recording such a refusal as
  delivered "a lie in the ledger"; a Jira resolution whose search missed the open issue
  (jira.ts:229-235); and one for which there is none. Mail, whose lost acceptance
  is recorded as an ordinary retry, is outside the count of copies.
- `LayerObserved`: the transport's timer counts as a measurement, as in the code;
  what classify.ts says of the budget is `BudgetUnmeasured`.
- `SpokenFor`: what the code loses without a note, although translate.ts:31 says
  that nothing disappears quietly. `Silent`: a setting the kind's branch does not
  read, a failure window or grace beyond the bound, the interval of a heartbeat
  that has a period. `Unspoken`: 16 columns of Kuma's that neither the case of a
  type nor `NOTABLE_DROPS` knows, the method and accepted codes of a json-query
  (import.ts:704-729; mapping.ts:208 says such a method is refused), and what an
  Oracle connection string says besides host and port.
- `ReportTrue`, `ShadowSound`: the monitor of a record listed twice (`Once`), which
  the report does not name and the bridge leaves live (`shadow_twice`).
- `KumaFaithful`: the line of a history whose last beat was silent is called
  carried though nothing was inserted (import.ts:1754, 1554, 1712).
- `EvidenceHonest`: one poll refetches every stale incident (`RefetchCap`), which
  the cap of 100 can fail to.
- `AllClear`: an incident claimed after its resolution. `NeverRevived`: a row
  becoming expired. `EventuallyPaged`: checks that write Docker lines.
- `GroupsSettle`: groups no scheduled member reports to, or in a cycle.
- `checks` has monitors of types the plane can probe only. No adapter emits a check
  of kind "json", so none is translated.

## 4. Proofs

Checked with `tlapm M.tla`. Each theorem is for every value of the constants
that the named `ASSUME`s of the component's module allow: the types of the
constants, that leases, budgets, limits and the horizon are not zero, and that
the markers "none", "hand" and "committed" are no record and no import, the
folders of a record are a sequence, and a Kuma database is finite and listed in
full. The inductive invariants were checked by TLC
before they were proved. The type invariants, `FenceHolds` and `CoverageHonest`
are proved and not run properties of their own.

`OutboxProofs`: for every number of rows, drains and crashes and all schedule
constants, `OutboxTypeOK`, `FenceHolds`, `LeaseExclusive`, `AttemptsCovered` and
`NeverRevived`. The inductive invariant adds to these: a row that does not
exist is blank; no claim's fence exceeds its row's (a fence only grows, so an
old claim can never match again); and a claim that still believes in its lease
is the row's own. `LeaseExclusive` alone is not inductive: without the last
fact nothing ties a claim's copy of the lease to the row that `ClaimDue` reads.
`AttemptsCovered` is needed for `OutboxTypeOK`, since the next attempt number is a
maximum over the evidence. On top of it, `EvidenceInv` gives `SendsEvidenced`
and `OutcomeEvidenced`: an attempt row lives no longer than its delivery, every claim
has its attempt row under its own number and fence, what was sent under a fence
belongs to a claim that already holds its answer (so no deferral can withdraw
the attempt that records it), and a row's state agrees with what its attempts
say.

`IncidentsProofs`: for every number of checks, incidents, acts and crashes,
`TypeOK`, `OneActive`, `PageOnce`, `AllClear`, `DownEarned`,
`ShadowUnclaimed` and, as an action property, `ResolvedIsFinal`. The
strengthening is `Grounded` (a check that writes to an incident writes to one
that exists and that a monitor opened), `Blank` (nothing refers to an incident
before it exists) and that the last clean slate is not in the future. Most
steps are shown through a few transfer lemmas: a step that only moves a check,
one that marks rows, one that claims, one that closes.

`SchedulerProofs`: for every number of monitors, ticks, checks, acts and
failures, `TypeOK`, `OneDispatch` and, as an action property,
`PostponedOnlyIfFast`. The strengthening is `Grounded`: a check in progress is
the check of some monitor, without which the reservation of its follow-up need
not be a reservation of anything. `OneDispatch` needs a lease that is not zero.

`IntentsProofs`: for every number of causes, sweepers and recipients,
`FanOutSound` and the refinement `Spec => Promise!Safe`: every step of the
table is a step, or no step, of the abstract promise. The invariant follows a
sweeper's transaction (it holds the lock of the intent it expands, has written
nothing before the fan-out and all of it after) and bounds the counter it read
by the expansions that really threw, so that a stale counter can delay a
retirement and never hasten one. The abstract fairness stays with TLC
(`KeepsPromise`).

`PlaneLedgerProofs`, leases: for every number of workers, shards and claims in
flight and every skew, ahead or behind by any bound, `MemoryBacked` and
`ProbeExclusive`; and when no clock is behind, `OneOwner`, which in general does
not hold (`AheadSafe`). The invariant says
that a claim in flight is of no later epoch than its plane's, and that what its
answer would bring is still in the table under that worker unless a release
came after it; a plane that is down, or handing its shards back, is already in
the next epoch. That is what makes a late answer droppable.
Ledger: for every number of writers and any length, clock and counter width,
`ChainValid`. The invariant is that the actor's row is the last observation
while no transaction holds it, that one transaction holds it at a time and saw
it as it is, and that the committed chain verifies; `HlcAdvances` shows that
the clock moves forward when the wall clock steps back or the counter
overflows, by division with remainder. From the same invariant and that an
observation is of a natural instant, `UptimeSound`: the segment of an
observation is an interval (`SegmentIsTimes`), exactly the instants it is the
last measured one for, and no instant has two such observations; that the sum of
the segments is then the number of covered instants is shown by taking a least
set of observations for which it is not (`SumIsCount`).

`FastSlotsProofs`: for every number of monitors, organisations and slot
objects, `OrgFair`, from an invariant that the organisation's counter is the
cardinality of the set of probes in flight, whichever object they began with.

`EdgesProofs`, providers: for any number of attempts `ArrivalTrue`. The
invariant pairs the row with the far end at every point of an attempt: what the
answer in hand can mean, and how many copies the ledger may still have to admit.
Bursts: for any number of captures and incidents, any budget and limit,
`BurstBounded`, `LayerObserved` and, as an action property, `SnapshotStays`.
The invariant counts the captures that dial; bounds the steps behind a burst by
where it is; and says that only the last step of a burst can have failed, which
is why the first failed step that `step()` did not end itself is the one
"measured".
Checks: for any timeout and any pace of the answers `InTime`. The invariant is
that what has passed and what is left make up the budget, which is granted again
only on the way to the certificate and with every piece of it; that way is taken
once, by an http check that asks for it and after a response in time. What the tables of the check types say
about it is `TablesAssumption`, a formula without constants that stand for
anything: TLC evaluates it in full, for every type and every setting, at the
start of the run `edges`, and the proof takes it from there.
Verdicts: for every type and setting, any timeout, grace and threshold, and any
order and pace of the answers, `VerdictTrue`. The invariant has three parts: the
one above; `ClockInv`, that no winding up of the clock exceeds its bounds; and
`TalkInv`, that the phase, the facts established and what was heard are together
a talk the tables allow (`Talks`), and a settled verdict was judged by it. That
the talks of a type are closed under its answers and that whatever ends one is
judged by what was said is again a closed formula, `TalksAssumption`, which TLC
evaluates for every talk of every type. What the proof adds are the clock and the
socket: that no interleaving of pieces, losses, timeouts, farewells and late
events leads out of the talks or past the first verdict, and that the time a
response took is the one at which it is judged.

`MigrationProofs`, evidence: for any number of polls at once, incidents and
hours and any overlap, `CoverageHonest` (the half of `EvidenceHonest` about
windows) and, as an action property, `ResolvedStays`. The invariant is that
every end read or copied is the one the source gave, and that a poll half way
has copied, or has in hand, what its window owes, or will not count. That a
window never reaches into the future is needed: otherwise an incident could
still begin inside one that is closed. The largest of the recorded windows
exists by the least-number principle for sets of naturals (`LeastElement`,
from the well-foundedness theorems of the library).
The verdict: `EvidenceHonest` in full, of every behaviour in which no poll finds
more stale incidents than it may refetch (`RefetchesAll`, about the copies open
and unseen when it asks; the incidents of all times are only finitely many).
Without it the sentence is false, as the cap has no order and can starve an
incident (section 5). The invariant (`SettledInv`) says that an outage which ended before
a good poll began is copied with its end. A poll that began after the end can
not find it among the open ones; it finds it in its window, or the outage began
before the window, and then it was copied already, because good polls leave no
gap between them (`Unbroken`; dropping windows inside another keeps that,
`WiderReaches`), and is asked for by its id if its copy is still open. A report
reads the polls before the copies, so what the windows it counts promise is in
the copies it reads. In `comparePair` an event is matched only by an incident
near it: that the events can be put in order and the matching of them one by one
is defined are shown by least counterexamples (`OrderExists`, `WalkExists`).
Imports: for any number of imports, listings and acts of the operators,
`ProvenanceTrue`, and of records listed once `ShadowSound` and `ReportTrue`. They are about the imports
that work on `Translation`'s records. The id of a row
tells the import and the record it was made for, and the invariant
(`ImportInv`) says what may be relied on at each point of an import: that
everything it remembers of a record - what it found, made, linked - is a row of
that record, that a row not yet committed is of an import still under way, that
a row it made is in its report unless the record comes again later in the
listing, and that a row of a bridge's import is out of shadow only until that
import marks what it made. `OnePerRecord` alone is not inductive, because the
index that keeps it (`monitors_import_source_idx`) also sees rows of others that
are not committed: the invariant has `Unique` for all rows. That a page or a
mapping row refers to a row which is committed when it is, is what makes
`LinkTrue` and `PagesFaithful` survive a rollback. For the groups, a second
invariant (`GroupInv`) on top of it: every row is inside a row that exists and
is committed or of the same import; what an import remembers of the groups it
made are rows of its own that are there; and no folder it read at the start is
its own. So a rolled back import takes away no group that another's row is in.
`GroupTree.resolve` climbs a path of any length, as a recursive function of the
depth; that there is such a function, and that each of its values keeps the
rows in their groups, is shown by a least depth at which it fails (`ClimbExists`).

Kuma: for any number of imports of any database side by side, with operators'
deletions in between, the half of `KumaFaithful` about the report (`LinesTrue`,
the last beat of a carried history included),
and all of it when Kuma's groups form a forest (`Forest`). The hypothesis is
about the database read, not about the code: Kuma's own forms make nothing else,
and of groups in a circle no tree could be kept. The invariant (`KumaInv`) says
of an import what it may rely on: every row of the database is in its queue or
has its line, never both; what it remembers as made is a row of its own made for
that record, with the token it reports; a record it put on a page is on one, or
its monitor is gone; and what is carried is carried to a row it made. On top of
it, `TreeInv`: the group of a row still to come has its line or comes before it
in the queue, and a row that is there is in the row its group became. Both rest
on `CreationOrderOK`: the order of creation has every row once, whatever the
groups look like, and in a forest no row before its group. The walk up to the
outermost group and the walk over the listing are recursive functions; what they
compute is shown by least elements, of the rows not yet visited and of the
prefixes of the listing.
Records: for every check of every kind, with any number of settings stated and
any numbers in them, and every Kuma row with any number of columns out of the
ordinary, `SpokenFor`; the run has up to two of each (`RunStated`). Checks are
shown setting by setting; of a row, that what happens to a column depends on that
column alone, and for a single column it is a closed formula over the tables,
`RowTables`, which TLC evaluates in the run `migration`.

Model-checked only. Everything under fairness, and so every liveness property
and the fair part of the refinement: the prover has no ENABLED. Every invariant
and every safety action property of the passing runs is the property of a
theorem.

## 5. Not modelled

Texts, payloads, templates, wire formats, encryption, audit entries, AI
summaries and the web application are presentation or data mapping. Status
pages and subscribers are CRUD and token checks; their mails are recipients of
an intent. Channel administration is form handling; which channels an event
goes to is a changing set. Vendors' import adapters only fill the record that
`Translation` starts from. The catalog and the configuration schemas of the
check types are data. Of the evidence, correlation with other failing monitors,
the changes since the last success, redaction and the trimming to size are left
out: they read committed rows and nothing reads them. Of the fast plane, the
rollup, the statistics and the clock-step detection are left out for the same
reason, and anything that spans more than one slot table. Heartbeats are evaluated like
any scheduled monitor and what the evaluation finds is free; beats and tokens
are not modelled. Severity and postmortems change nothing a property reads.

**Observations without a run.** Met while modelling, each outside what a
passing run states.

Notifications. `expireOverdue` (outbox.ts:837) acts on a snapshot and may turn
a row delivered since into an expired one, although NOTIFICATIONS.md:693 has a
terminal row keep its state for ever. `recordExpansionFailure` writes by id and
may turn an intent another sweeper has just expanded into "failed": the
recipients were queued once, but the table says that they were not, and
retention keeps the row. `providers/smtp.ts:142` records a lost acceptance after
DATA as retryable rather than unknown (types.ts:378), as does
`resend-transport.ts:46`; the comment on `httpAttempt` calls a timeout
retryable while the code says unknown.

Incidents. Docker lines written before the claim (outcome.ts:246) make an
incident whose worker died look handled, so it is not paged. A delayed recovery
(incidents/service.ts:821) closes the incident of a monitor that is down again.
A claim after a resolution (803) pages and no all-clear follows. An incident
opened between the two statements of `deleteMonitor` (monitors/service.ts:762)
stays open.

Scheduler and fast plane. A fast monitor changed to a type the plane skips
(monitors/service.ts:610) is deferred for ever, and so is the excess over
`HF_MAX_MONITORS_PER_WORKER`. The state plane.ts:200 calls the one the lease
design must never produce can be produced: `releaseShards` of a stale grant
also releases a newer one. A reload that changes `targetKey` under a probe
leaks the target's counter; two probes of one monitor fly after a drop and a
re-add (plane.ts:57); `writer.stop()` with a flush in flight loses what was
buffered since; `wallAt(issuedMono)` takes a probe slower than a second for a
clock step; a slot that was shed is not the most overdue at the next tick; the
quota of `setHighFrequency` is read before it is written; a stale row in a
reload makes a promotion a no-op that still counts as settled.

Groups and manual monitors. A resumed manual monitor stays "unknown": only its
group is refreshed. Moving a monitor out of a group refreshes the new group
only, so a group left without a reporting member keeps its last state; so does
one whose only member was paused while a derivation was in flight. Two
concurrent moves can put two groups into each other, which then hold each other
down. A paused group ends the climb for the groups above it.

Heartbeats. The push route checks pause and token in a statement before the
write, so a beat may be recorded after either changed; a slower, older beat may
overwrite a newer one; beats during a pause are dropped, so a healthy job is
judged down on resume until its next beat.

Probes. `keywordAbsent` on a body cut short is judged up (http.ts:201); a
redirect loop past `MAX_REDIRECT_HOPS` returns a 3xx that is judged up; the
idle timers of mqtt, ldap, ssh, docker and websocket outlast the timeout when a
target dribbles, and that of sip over TCP may be re-armed by provisional
answers without end. In a burst, an `EgressBlockedError` of
its http step is no marker; correlate.ts:212 files a heartbeat candidate under
"application"; two incidents captured at once cannot see each other.

Importing. A record listed twice keeps its last report line only, so the
monitor of the first is unreported. Concurrent imports duplicate groups. Re-running a bridge import marks records
as skipped, so later cutover reports are never safe and deletions are no longer
counted; each re-run makes its status pages again. Of a setting that a kind's
branch does not read, the clamps of the failure window and the grace period and
the interval under a period there is no note. The cap on stale refetches has no
order and can starve an incident. Kuma: `carryLastHeartbeat` notes a heartbeat
it did not carry (import.ts:1754); json-query ignores the method and the
accepted codes that mapping.ts:208 says are refused; `NOTABLE_DROPS` misses
columns (ping_numeric, save_error_response, expected_tls_alert, the companions
of authentication and TLS keys); a credential inside an Oracle connection
string is removed without a note; the page line is per monitor, not per page,
and a monitor past the page's limit is told that its page did not import; a
stale `docker_host` of any type counts as used; a child whose group failed
stays outside it after a re-run.

## 6. Plan

Heartbeats: beats, tokens and the deadline, as a module beside `Derived`.
