------------------------------- MODULE Outbox -------------------------------
(***************************************************************************)
(* The transactional notification outbox (modules/notifications/outbox.ts) *)
(* and the drains that empty it (worker/jobs/notification-delivery.ts,     *)
(* worker/jobs/retention.ts).                                              *)
(*                                                                         *)
(* Every database transaction is one step.  A drain is one pass of         *)
(* runNotificationDelivery: the scheduled tick, or the inline pass that    *)
(* follows a transition; several run at once in several processes.  A      *)
(* process may die between any two steps.                                  *)
(*                                                                         *)
(* `holding' is what the drains claimed and hold in memory.  `sent' is a   *)
(* history of the provider calls that really went out; the program never   *)
(* reads it.                                                               *)
(*                                                                         *)
(* A definition named X_Y is X with a plausible mistake Y in it, kept next *)
(* to X to show that the properties below notice the mistake.              *)
(***************************************************************************)
EXTENDS Integers, FiniteSets, FiniteSetsExt

CONSTANTS
    Row,            \* outbox rows, one per idempotency key
    Drain,          \* concurrent passes of runNotificationDelivery
    Channel,        \* configured notification channels
    ChannelOf,      \* the channel of a row, or NoChannel for plain email
    NoChannel,
    NoOutcome,
    MaxAttempts,    \* NOTIFICATION_MAX_ATTEMPTS
    Horizon,        \* NOTIFICATION_RETRY_HORIZON_HOURS
    LeaseTime,      \* LEASE_MS
    BackoffCeiling, \* BACKOFF_CEILING_MS
    RetryAfterCap,  \* RETRY_AFTER_CAP_MS
    DeferDelay,     \* DEFER_SECONDS
    ChannelLimit,   \* CHANNEL_RATE_LIMIT_PER_TICK
    BatchLimit,     \* NOTIFICATION_BATCH_SIZE, or the caller's own limit
    StaleClaimAge,  \* STALE_CLAIM_HOURS
    Retention,      \* NOTIFICATION_RETENTION_DAYS
    LastEnqueue,    \* bound: no work is accepted after this time
    LastMoment,     \* bound on the database clock
    MaxDeaths       \* bound on the process deaths of one behaviour

ASSUME OutboxConstants ==
    /\ ChannelOf \in [Row -> Channel \cup {NoChannel}]
    /\ NoChannel \notin Channel
    /\ NoOutcome \notin {"delivered", "permanent", "retryable", "unknown"}
    /\ MaxAttempts \in Nat \ {0}
    /\ Horizon \in Nat \ {0}
    /\ LeaseTime \in Nat \ {0}
    /\ BackoffCeiling \in Nat
    /\ RetryAfterCap \in Nat
    /\ DeferDelay \in Nat
    /\ ChannelLimit \in Nat
    /\ BatchLimit \in Nat
    /\ StaleClaimAge \in Nat
    /\ Retention \in Nat
    /\ LastEnqueue \in Nat
    /\ LastMoment \in Nat
    /\ MaxDeaths \in Nat

VARIABLES
    moment,    \* the database clock, the only clock the outbox reads
    outbox,    \* notification_outbox
    attempts,  \* notification_attempts, the evidence of every claim
    phase,     \* where each drain is
    doomed,    \* the ids the subselect of a running expireOverdue returned
    holding,   \* the ClaimedRows the drains hold
    sent,      \* history: the provider calls made
    deaths

outboxVars == <<moment, outbox, attempts, phase, doomed, holding, sent, deaths>>

-----------------------------------------------------------------------------
Terminal == {"delivered", "failed", "expired", "dead_letter"}

\* "absent" is a row not inserted yet, "pruned" one that retention deleted.
RowState == {"absent", "queued", "sending", "pruned"} \cup Terminal

DeliveryOutcome == {"delivered", "permanent", "retryable", "unknown"}

NoLease == 0   \* leased_until is null

RowRecord == [state : RowState, fence : Nat, attempts : Nat, lease : Nat,
              next : Nat, expires : Nat]

AttemptRecord == [row : Row, attempt : Nat, fence : Nat, started : Nat,
                  outcome : DeliveryOutcome \cup {"claimed"}]

\* until is the lease the drain believes it holds: what claimDue, and then
\* renewLease, wrote for it.
ClaimRecord == [drain : Drain, row : Row, fence : Nat, attempt : Nat,
                until : Nat, stage : {"defer", "held", "renewed", "answered"},
                outcome : DeliveryOutcome \cup {NoOutcome}]

Phase == {"idle", "expiring", "claiming", "delivering"}

AbsentRow == [state |-> "absent", fence |-> 0, attempts |-> 0,
           lease |-> NoLease, next |-> 0, expires |-> 0]

OutboxInit ==
    /\ moment = 0
    /\ outbox = [r \in Row |-> AbsentRow]
    /\ attempts = {}
    /\ phase = [d \in Drain |-> "idle"]
    /\ doomed = [d \in Drain |-> {}]
    /\ holding = {}
    /\ sent = {}
    /\ deaths = 0

-----------------------------------------------------------------------------
LeaseLapsed_Ignored(r) == TRUE

LeaseLapsed(r) == outbox[r].lease <= moment

\* Who may be claimed.  The horizon is enforced here and in the sweep.
DueRow(r) ==
    /\ outbox[r].next <= moment
    /\ outbox[r].expires > moment
    /\ \/ outbox[r].state = "queued"
       \/ outbox[r].state = "sending" /\ LeaseLapsed(r)

OverdueRow_QueuedOnly(r) == outbox[r].expires <= moment /\ outbox[r].state = "queued"

\* Who expireOverdue's subselect returns.
OverdueRow(r) ==
    /\ outbox[r].expires <= moment
    /\ \/ outbox[r].state = "queued"
       \/ /\ outbox[r].state = "sending"
          /\ outbox[r].lease # NoLease
          /\ LeaseLapsed(r)

OwnedRow_Unfenced(c) == outbox[c.row].state # "pruned"

\* The fenced predicate every write from a claim carries.
OwnedRow(c) ==
    /\ outbox[c.row].state # "pruned"
    /\ outbox[c.row].fence = c.fence

AttemptOf_AnyOfRow(c) == {a \in attempts : a.row = c.row}

AttemptOf(c) == {a \in attempts : /\ a.row = c.row
                                  /\ a.attempt = c.attempt
                                  /\ a.fence = c.fence}

\* backoffMs: 2^attempts up to the ceiling, a quarter either way.
BackoffWait(n) ==
    LET base == IF 2 ^ n < BackoffCeiling THEN 2 ^ n ELSE BackoffCeiling
    IN {w \in 0 .. 2 * BackoffCeiling : 3 * base <= 4 * w /\ 4 * w <= 5 * base}

\* What a retry may wait: the backoff, or longer if the provider asked.
RetryWait(n, o) ==
    {w \in 0 .. 2 * BackoffCeiling + RetryAfterCap :
        \E b \in BackoffWait(n) :
            \/ w = b
            \/ o = "retryable" /\ w \in b .. RetryAfterCap}

\* greatest(attempts + 1, max(attempt) + 1)
NextAttempt(r) ==
    1 + Max({outbox[r].attempts} \cup
            {a.attempt : a \in {b \in attempts : b.row = r}})

Queued == [state |-> "queued", fence |-> 0, attempts |-> 0,
           lease |-> NoLease, next |-> moment, expires |-> moment + Horizon]

-----------------------------------------------------------------------------
\* enqueue, enqueueMany: a key already there inserts nothing.
Enqueue(r) ==
    /\ outbox[r].state = "absent" /\ moment <= LastEnqueue
    /\ outbox' = [outbox EXCEPT ![r] = Queued]
    /\ UNCHANGED <<moment, attempts, phase, doomed, holding, sent, deaths>>

\* replayDeliveries: new work under a fresh key, only from a terminal row.
ReplayDelivery(original, copy) ==
    /\ outbox[original].state \in Terminal
    /\ outbox[copy].state = "absent" /\ moment <= LastEnqueue
    /\ outbox' = [outbox EXCEPT ![copy] = Queued]
    /\ UNCHANGED <<moment, attempts, phase, doomed, holding, sent, deaths>>

(***************************************************************************)
(* expireOverdue is one UPDATE ... WHERE id IN (SELECT ... LIMIT n) that   *)
(* locks nothing in its subselect.  At READ COMMITTED the subselect sees   *)
(* the statement's snapshot; a row another transaction changes before the  *)
(* UPDATE reaches it is updated in its new version, because the re-check   *)
(* compares ids only.  Hence two steps.                                    *)
(***************************************************************************)
ExpireOverdueSelect(d) ==
    /\ phase[d] = "idle"
    /\ phase' = [phase EXCEPT ![d] = "expiring"]
    /\ doomed' = [doomed EXCEPT ![d] = {r \in Row : OverdueRow(r)}]
    /\ UNCHANGED <<moment, outbox, attempts, holding, sent, deaths>>

ExpireOverdueUpdate(d) ==
    /\ phase[d] = "expiring"
    /\ phase' = [phase EXCEPT ![d] = "claiming"]
    /\ outbox' = [r \in Row |->
            IF r \in doomed[d] /\ outbox[r].state # "pruned"
            THEN [outbox[r] EXCEPT !.state = "expired", !.lease = NoLease,
                                   !.fence = outbox[r].fence + 1]
            ELSE outbox[r]]
    /\ doomed' = [doomed EXCEPT ![d] = {}]
    /\ UNCHANGED <<moment, attempts, holding, sent, deaths>>

\* The batch's channel budget: which of S go back to the queue.
OverLimit(S, D) ==
    /\ D \subseteq S
    /\ \A r \in D : ChannelOf[r] # NoChannel
    /\ \A ch \in Channel :
        LET InChannel(T) == Cardinality({r \in T : ChannelOf[r] = ch})
        IN InChannel(S \ D) = IF InChannel(S) <= ChannelLimit
                              THEN InChannel(S) ELSE ChannelLimit

\* claimDue, then the up-front split of the batch.  SKIP LOCKED and the
\* limit may leave due rows behind.
ClaimDue(d, S, D) ==
    /\ phase[d] = "claiming"
    /\ \A r \in S : DueRow(r)
    /\ Cardinality(S) <= BatchLimit
    /\ OverLimit(S, D)
    /\ (S = {} => \A r \in Row : ~ DueRow(r))
    /\ phase' = [phase EXCEPT ![d] = IF S = {} THEN "idle" ELSE "delivering"]
    /\ outbox' = [r \in Row |->
            IF r \in S
            THEN [outbox[r] EXCEPT !.state = "sending",
                                   !.fence = outbox[r].fence + 1,
                                   !.attempts = NextAttempt(r),
                                   !.lease = moment + LeaseTime]
            ELSE outbox[r]]
    /\ attempts' = attempts \cup
            {[row |-> r, attempt |-> NextAttempt(r),
              fence |-> outbox[r].fence + 1, started |-> moment,
              outcome |-> "claimed"] : r \in S}
    /\ holding' = holding \cup
            {[drain |-> d, row |-> r, fence |-> outbox[r].fence + 1,
              attempt |-> NextAttempt(r), until |-> moment + LeaseTime,
              stage |-> IF r \in D THEN "defer" ELSE "held",
              outcome |-> NoOutcome] : r \in S}
    /\ UNCHANGED <<moment, doomed, sent, deaths>>

\* The claim leaves its drain's memory; the drain ends with its last one.
Release(c) ==
    /\ holding' = holding \ {c}
    /\ phase' = IF \E k \in holding \ {c} : k.drain = c.drain
                THEN phase ELSE [phase EXCEPT ![c.drain] = "idle"]

GivenBack_Always(n, withdrawn) == IF n = 0 THEN n ELSE n - 1

\* greatest(attempts - 1, 0), and only if there was an attempt to withdraw.
GivenBack(n, withdrawn) == IF withdrawn = {} \/ n = 0 THEN n ELSE n - 1

\* deferRow: the delete decides whether the attempt is given back.
DeferRow(c) ==
    /\ c.stage = "defer"
    /\ LET withdrawn == {a \in AttemptOf(c) : a.outcome = "claimed"}
       IN /\ attempts' = attempts \ withdrawn
          /\ outbox' = IF ~ OwnedRow(c) THEN outbox
               ELSE [outbox EXCEPT ![c.row] =
                      [outbox[c.row] EXCEPT
                          !.state = "queued", !.lease = NoLease,
                          !.next = moment + DeferDelay,
                          !.attempts = GivenBack(outbox[c.row].attempts,
                                                 withdrawn)]]
    /\ Release(c)
    /\ UNCHANGED <<moment, doomed, sent, deaths>>

\* Sends start once the batch's deferrals are written.
Sendable(c) == \A k \in holding : k.drain = c.drain => k.stage # "defer"

\* renewLease, and the send goes ahead ...  (No lease is written that the
\* bounded clock could not outlive.)
RenewLease(c) ==
    /\ c.stage = "held" /\ Sendable(c)
    /\ OwnedRow(c)
    /\ moment + LeaseTime <= LastMoment
    /\ outbox' = [outbox EXCEPT ![c.row].lease = moment + LeaseTime]
    /\ holding' = (holding \ {c}) \cup
            {[c EXCEPT !.stage = "renewed", !.until = moment + LeaseTime]}
    /\ UNCHANGED <<moment, attempts, phase, doomed, sent, deaths>>

\* ... or the fence has moved and nothing is sent.
LeaseLost(c) ==
    /\ c.stage = "held" /\ Sendable(c)
    /\ ~ OwnedRow(c)
    /\ Release(c)
    /\ UNCHANGED <<moment, outbox, attempts, doomed, sent, deaths>>

\* renewLease throws: deliverOne's catch turns that into an outcome.
RenewThrows(c) ==
    /\ c.stage = "held" /\ Sendable(c)
    /\ holding' = (holding \ {c}) \cup
            {[c EXCEPT !.stage = "answered", !.outcome = "unknown"]}
    /\ UNCHANGED <<moment, outbox, attempts, phase, doomed, sent, deaths>>

\* deliver: the provider call.  Every outcome but "delivered" may also come
\* back without a request having left (a deleted channel, a refused
\* connection, a throw before the send).
Deliver(c, o, out) ==
    /\ c.stage = "renewed"
    /\ (o = "delivered") => out
    /\ holding' = (holding \ {c}) \cup
            {[c EXCEPT !.stage = "answered", !.outcome = o]}
    /\ sent' = IF out THEN sent \cup {[row |-> c.row, attempt |-> c.attempt,
                                       fence |-> c.fence]}
               ELSE sent
    /\ UNCHANGED <<moment, outbox, attempts, phase, doomed, deaths>>

\* Where recordOutcome sends the row, w being the wait before a retry.
Settled(row, c, w) ==
    CASE c.outcome = "delivered" ->
            [row EXCEPT !.state = "delivered", !.lease = NoLease]
      [] c.outcome = "permanent" ->
            [row EXCEPT !.state = "failed", !.lease = NoLease]
      [] c.outcome \in {"retryable", "unknown"} /\ c.attempt >= MaxAttempts ->
            [row EXCEPT !.state = "dead_letter", !.lease = NoLease]
      [] OTHER ->
            IF row.expires < moment + w
            THEN [row EXCEPT !.state = "expired", !.lease = NoLease]
            ELSE [row EXCEPT !.state = "queued", !.lease = NoLease,
                             !.next = moment + w]

\* recordOutcome under the fence that claimed the row.
RecordOutcome(c, w) ==
    /\ c.stage = "answered"
    /\ w \in RetryWait(c.attempt, c.outcome)
    /\ OwnedRow(c)
    /\ outbox' = [outbox EXCEPT ![c.row] = Settled(outbox[c.row], c, w)]
    /\ attempts' = (attempts \ AttemptOf(c)) \cup
            {[a EXCEPT !.outcome = c.outcome] : a \in AttemptOf(c)}
    /\ Release(c)
    /\ UNCHANGED <<moment, doomed, sent, deaths>>

\* recordOutcome that finds the fence moved: only its own evidence.
RecordSuperseded(c) ==
    /\ c.stage = "answered"
    /\ ~ OwnedRow(c)
    /\ LET open == {a \in AttemptOf(c) : a.outcome = "claimed"}
       IN attempts' = (attempts \ open) \cup
                      {[a EXCEPT !.outcome = "unknown"] : a \in open}
    /\ Release(c)
    /\ UNCHANGED <<moment, outbox, doomed, sent, deaths>>

Stale(a) == a.outcome = "claimed" /\ a.started < moment - StaleClaimAge

\* sweepStaleAttempts, from the nightly retention job.
SweepStaleAttempts ==
    LET stale == {a \in attempts : Stale(a)}
    IN /\ stale # {}
       /\ attempts' = (attempts \ stale) \cup
                      {[a EXCEPT !.outcome = "unknown"] : a \in stale}
       /\ UNCHANGED <<moment, outbox, phase, doomed, holding, sent, deaths>>

\* pruneNotificationHistory; the foreign key takes the attempts along.
\* created_at is expires_at less the horizon.
PruneNotificationHistory ==
    LET old == {r \in Row : /\ outbox[r].state \in Terminal
                            /\ outbox[r].expires + Retention < moment + Horizon}
    IN /\ old # {}
       /\ outbox' = [r \in Row |-> IF r \in old
                                   THEN [outbox[r] EXCEPT !.state = "pruned"]
                                   ELSE outbox[r]]
       /\ attempts' = {a \in attempts : a.row \notin old}
       /\ UNCHANGED <<moment, phase, doomed, holding, sent, deaths>>

\* The process running d dies, or its database call throws: whatever it
\* held is forgotten, whatever it committed stays.
DrainDies(d) ==
    /\ phase[d] # "idle"
    /\ deaths < MaxDeaths
    /\ deaths' = deaths + 1
    /\ phase' = [phase EXCEPT ![d] = "idle"]
    /\ doomed' = [doomed EXCEPT ![d] = {}]
    /\ holding' = {c \in holding : c.drain # d}
    /\ UNCHANGED <<moment, outbox, attempts, sent>>

TimePasses ==
    /\ moment < LastMoment
    /\ moment' = moment + 1
    /\ UNCHANGED <<outbox, attempts, phase, doomed, holding, sent, deaths>>

-----------------------------------------------------------------------------
ClaimStep(c) ==
    \/ DeferRow(c)
    \/ RenewLease(c)
    \/ LeaseLost(c)
    \/ RenewThrows(c)
    \/ \E o \in DeliveryOutcome, out \in BOOLEAN : Deliver(c, o, out)
    \/ \E w \in 0 .. 2 * BackoffCeiling + RetryAfterCap : RecordOutcome(c, w)
    \/ RecordSuperseded(c)

DrainStep(d) ==
    \/ ExpireOverdueSelect(d)
    \/ ExpireOverdueUpdate(d)
    \/ \E S \in SUBSET Row : \E D \in SUBSET S : ClaimDue(d, S, D)

Retain == SweepStaleAttempts \/ PruneNotificationHistory

OutboxNext ==
    \/ \E r \in Row : Enqueue(r)
    \/ \E original, copy \in Row : ReplayDelivery(original, copy)
    \/ \E d \in Drain : DrainStep(d) \/ DrainDies(d)
    \/ \E c \in holding : ClaimStep(c)
    \/ Retain
    \/ TimePasses

OutboxSpec == OutboxInit /\ [][OutboxNext]_outboxVars

\* The clock runs, the minute tick keeps coming on every live worker, a pass
\* in progress is carried on by its process, and the nightly job runs.
OutboxFairness ==
    /\ WF_outboxVars(TimePasses)
    /\ \A d \in Drain :
        /\ WF_outboxVars(DrainStep(d))
        /\ WF_outboxVars(\E c \in holding : c.drain = d /\ ClaimStep(c))
    /\ WF_outboxVars(Retain)

FairOutboxSpec == OutboxSpec /\ OutboxFairness
-----------------------------------------------------------------------------
\* The rows, the evidence and the drains' memory keep the schema's shape; an
\* answered claim has an outcome to record.
OutboxTypeOK ==
    /\ moment \in Nat
    /\ outbox \in [Row -> RowRecord]
    /\ attempts \subseteq AttemptRecord
    /\ phase \in [Drain -> Phase]
    /\ doomed \in [Drain -> SUBSET Row]
    /\ holding \subseteq ClaimRecord
    /\ \A c \in holding : c.stage = "answered" => c.outcome # NoOutcome
    /\ sent \subseteq [row : Row, attempt : Nat, fence : Nat]
    /\ deaths \in Nat

\* The fence decides whose result counts: a claim whose fence is still the
\* row's finds the row in "sending", with its own attempt number and its own
\* lease, and no other claim carries that fence.
FenceHolds ==
    /\ \A c \in holding :
        OwnedRow(c) => /\ outbox[c.row].state = "sending"
                       /\ outbox[c.row].attempts = c.attempt
                       /\ outbox[c.row].lease = c.until
    /\ \A c, k \in holding : c.row = k.row /\ c.fence = k.fence => c = k

\* Two drains are never trusted with one delivery at the same time: of two
\* claims on a row, at most one is inside the lease it was granted, however
\* long a drain stalled and however often the row was claimed again.
LeaseExclusive ==
    \A c, k \in holding :
        c.row = k.row /\ c.until > moment /\ k.until > moment => c = k

\* The counter covers the evidence, and no two attempts share a number: the
\* unique index on (outbox_id, attempt) can never abort a claim.
AttemptsCovered ==
    /\ \A a \in attempts : a.attempt <= outbox[a.row].attempts
    /\ \A a, b \in attempts : a.row = b.row /\ a.attempt = b.attempt => a = b

\* No message leaves without evidence: every provider call has its attempt
\* row, which a deferral never withdraws, until retention takes the delivery.
SendsEvidenced ==
    \A s \in sent :
        \/ outbox[s.row].state = "pruned"
        \/ \E a \in attempts : /\ a.row = s.row
                               /\ a.attempt = s.attempt
                               /\ a.fence = s.fence

\* The outbox row and its evidence agree: a delivered, failed or dead-lettered
\* row has, as its latest attempt, the one that says so; and a row still to be
\* tried, or given up on, has no attempt that was recorded as delivered.
OutcomeEvidenced ==
    \A r \in Row :
        LET Latest(O) == \E a \in attempts :
                /\ a.row = r /\ a.outcome \in O
                /\ a.attempt = outbox[r].attempts /\ a.fence = outbox[r].fence
        IN /\ outbox[r].state = "delivered" => Latest({"delivered"})
           /\ outbox[r].state = "failed" => Latest({"permanent"})
           /\ outbox[r].state = "dead_letter" =>
                /\ Latest({"retryable", "unknown"})
                /\ outbox[r].attempts >= MaxAttempts
           /\ outbox[r].state \in {"queued", "sending", "failed", "dead_letter"} =>
                \A a \in attempts : a.row = r => a.outcome # "delivered"

\* A settled delivery is never revived: no stalled worker, late answer,
\* deferral or claim takes a terminal row anywhere; only the expiry sweep,
\* which acts on a snapshot, and retention touch it.
NeverRevived ==
    [][\A r \in Row : outbox[r].state \in Terminal =>
         \/ outbox'[r] = outbox[r]
         \/ outbox'[r].state \in {"expired", "pruned"}]_outboxVars

\* Every accepted message reaches an end, whoever dies holding it.
EventuallyTerminal ==
    \A r \in Row : outbox[r].state = "queued"
                    ~> outbox[r].state \in Terminal \cup {"pruned"}

\* No attempt reads "claimed" for ever: an outcome, a deferral or the stale
\* sweep closes it.
AttemptsClosed ==
    []<>(\A a \in attempts : a.outcome # "claimed")

\* Rows and attempts both come to an end (recordOutcome, expireOverdue
\* and sweepStaleAttempts between them).
EventuallySettled == EventuallyTerminal /\ AttemptsClosed
=============================================================================
