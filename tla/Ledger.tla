------------------------------- MODULE Ledger --------------------------------
(***************************************************************************)
(* The observation ledger of one actor (modules/ledger) and the uptime     *)
(* read from it (modules/monitors/uptime.ts).  A transaction that records  *)
(* an observation stamps it: it takes the wall clock, then the lock on the *)
(* actor's row, and extends the actor's hash chain; it may still roll      *)
(* back.  The wall clock may step back.                                    *)
(*                                                                         *)
(* A hash is the tuple of what it covers: no two facts share one.          *)
(*                                                                         *)
(* A definition named X_Y is X with a plausible mistake Y in it.           *)
(***************************************************************************)
EXTENDS Integers, Sequences, FiniteSetsExt

CONSTANTS
    Writer,      \* transactions under way at once
    CounterBase, \* 2^COUNTER_BITS
    CoverageHorizon, \* coverageHorizonMs of the monitor observed
    MaxClock,    \* bound on the wall clock
    MaxFacts     \* bound on the chain

ASSUME LedgerConstants ==
    /\ CounterBase \in Nat \ {0}
    /\ CoverageHorizon \in Nat \ {0}
    /\ MaxClock \in Nat
    /\ MaxFacts \in Nat

VARIABLES
    clock,   \* the wall clock of the worker
    actor,   \* the committed row of actors
    facts,   \* committed facts, in the order of their commits
    tx       \* the transactions

ledgerVars == <<clock, actor, facts, tx>>

-----------------------------------------------------------------------------
\* As far as `ok' and MEASURED tell verdicts apart: degraded is up.
FactVerdict == {"up", "down", "indeterminate"}

\* The prev_hash of a first fact.
NoHash == <<>>

NoTx == [stage |-> "none", now |-> 0, row |-> <<>>, fact |-> <<>>]

LedgerInit ==
    /\ clock = 0
    /\ actor = [seq |-> 0, hlc |-> 0, head |-> NoHash]
    /\ facts = <<>>
    /\ tx = [w \in Writer |-> NoTx]

EncodeHlc(physical, counter) == physical * CounterBase + counter

Physical(hlc) == hlc \div CounterBase
Counter(hlc) == hlc % CounterBase

NextHlc_Wall(previous, now) ==
    IF now # Physical(previous) THEN EncodeHlc(now, 0) ELSE previous + 1

\* nextHlc: with the counter exhausted, a millisecond of the future.
NextHlc(previous, now) ==
    IF now > Physical(previous) THEN EncodeHlc(now, 0)
    ELSE IF Counter(previous) >= CounterBase - 1 THEN EncodeHlc(Physical(previous) + 1, 0)
    ELSE EncodeHlc(Physical(previous), Counter(previous) + 1)

FactHash(f) == <<f.seq, f.hlc, f.prev, f.at, f.verdict>>

Stamped(row, now, v) ==
    LET f == [seq |-> row.seq, hlc |-> NextHlc(row.hlc, now), prev |-> row.head,
              at |-> now, verdict |-> v]
    IN  [seq |-> f.seq, hlc |-> f.hlc, prev |-> f.prev, at |-> f.at,
         verdict |-> f.verdict, hash |-> FactHash(f)]

-----------------------------------------------------------------------------
ClockMoves ==
    /\ clock' \in {clock - 1, clock + 1} \cap (0 .. MaxClock)
    /\ UNCHANGED <<actor, facts, tx>>

\* recordCheckOutcome begins, with the instant it records and stamps.
BeginTx(w) ==
    /\ tx[w].stage = "none"
    /\ Len(facts) < MaxFacts
    /\ tx' = [tx EXCEPT ![w] = [NoTx EXCEPT !.stage = "begun", !.now = clock]]
    /\ UNCHANGED <<clock, actor, facts>>

\* Whether the actor's row is locked by no transaction.
Unlocked == \A v \in Writer : tx[v].stage \notin {"advanced", "stamped"}

\* stampFact's first statement: the row is locked and its sequence advanced.
Advance(w) ==
    /\ tx[w].stage = "begun" /\ Unlocked
    /\ tx' = [tx EXCEPT ![w] = [@ EXCEPT !.stage = "advanced",
                                         !.row = [actor EXCEPT !.seq = actor.seq + 1]]]
    /\ UNCHANGED <<clock, actor, facts>>

\* stampFact's second: the new head, and with it the observation.
Stamp(w, v) ==
    LET f == Stamped(tx[w].row, tx[w].now, v) IN
    /\ tx[w].stage = "advanced"
    /\ tx' = [tx EXCEPT ![w] =
                [@ EXCEPT !.stage = "stamped", !.fact = f,
                          !.row = [seq |-> f.seq, hlc |-> f.hlc, head |-> f.hash]]]
    /\ UNCHANGED <<clock, actor, facts>>

Commit(w) ==
    /\ tx[w].stage = "stamped"
    /\ actor' = tx[w].row
    /\ facts' = Append(facts, tx[w].fact)
    /\ tx' = [tx EXCEPT ![w] = NoTx]
    /\ UNCHANGED clock

\* The transaction fails, or the worker dies in it.
Rollback(w) ==
    /\ tx[w].stage # "none"
    /\ tx' = [tx EXCEPT ![w] = NoTx]
    /\ UNCHANGED <<clock, actor, facts>>

LedgerNext ==
    \/ ClockMoves
    \/ \E w \in Writer :
         \/ BeginTx(w) \/ Advance(w) \/ Commit(w) \/ Rollback(w)
         \/ \E v \in FactVerdict : Stamp(w, v)

LedgerSpec == LedgerInit /\ [][LedgerNext]_ledgerVars

-----------------------------------------------------------------------------
\* verifyChain, over an actor's facts in the order it reads them.
VerifyChain(chain) ==
    \A i \in DOMAIN chain :
        /\ FactHash(chain[i]) = chain[i].hash
        /\ i > 1 => /\ chain[i].prev = chain[i - 1].hash
                    /\ chain[i].seq = chain[i - 1].seq + 1
                    /\ chain[i].hlc > chain[i - 1].hlc

-----------------------------------------------------------------------------
Least(S) == CHOOSE x \in S : \A y \in S : x <= y
Greatest(S) == CHOOSE x \in S : \A y \in S : x >= y

\* MEASURED, and the scan bounds of a window: what a window reads.
Ordered(start, end) ==
    {i \in DOMAIN facts : /\ facts[i].verdict # "indeterminate"
                          /\ facts[i].at + CoverageHorizon > start
                          /\ facts[i].at < end}

Before(i, j) ==
    facts[i].at < facts[j].at \/ (facts[i].at = facts[j].at /\ i < j)

SegmentEnd_Unexpired(i, end, read) ==
    Least({end} \cup {facts[j].at : j \in {k \in read : Before(i, k)}})

\* Where the evidence of an observation ends: at the next one, with the window
\* or with its horizon.
SegmentEnd(i, end, read) ==
    Least({end, facts[i].at + CoverageHorizon}
            \cup {facts[j].at : j \in {k \in read : Before(i, k)}})

\* The length of what observation i vouches for in a window.
Segment(i, start, end, read) ==
    Greatest({0, SegmentEnd(i, end, read) - Greatest({facts[i].at, start})})

\* uptimeFromSamples: the time covered, and of it the time up.
Uptime(start, end) ==
    LET read == Ordered(start, end)
        total(S) == MapThenSumSet(LAMBDA i : Segment(i, start, end, read), S)
    IN  [covered |-> total(read),
         up |-> total({i \in read : facts[i].verdict # "down"})]

-----------------------------------------------------------------------------
\* The stages a transaction goes through, and a sequence the chain's length.
LedgerTypeOK ==
    /\ clock \in 0 .. MaxClock
    /\ actor.seq = Len(facts)
    /\ actor.hlc \in Nat
    /\ \A w \in Writer :
         /\ tx[w].stage \in {"none", "begun", "advanced", "stamped"}
         /\ tx[w].now \in 0 .. MaxClock

\* verifyChain finds an actor's chain valid, whichever transactions interleaved
\* or rolled back and whatever the clock did.
ChainValid ==
    /\ VerifyChain(facts)
    /\ facts # <<>> => actor.head = facts[Len(facts)].hash

\* The reference reading of uptime.ts: a millisecond is covered when the last
\* measured observation at or before it has not expired, and up with it.
Vouchers(t) ==
    {i \in DOMAIN facts : facts[i].verdict # "indeterminate" /\ facts[i].at <= t}

Voucher(t) == CHOOSE i \in Vouchers(t) : \A j \in Vouchers(t) \ {i} : Before(j, i)

CoveredTimes(start, end) ==
    {t \in start .. end - 1 :
        Vouchers(t) # {} /\ t < facts[Voucher(t)].at + CoverageHorizon}

\* uptimeFromSamples agrees with it on every window of every history, clock
\* steps, duplicate instants and indeterminate observations included.
UptimeSound ==
    \A start \in 0 .. MaxClock : \A end \in start .. MaxClock + 1 :
        LET seen == CoveredTimes(start, end) IN
        Uptime(start, end) =
            [covered |-> Cardinality(seen),
             up |-> Cardinality({t \in seen : facts[Voucher(t)].verdict # "down"})]
=============================================================================
