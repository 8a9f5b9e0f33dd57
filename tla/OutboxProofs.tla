---------------------------- MODULE OutboxProofs ----------------------------
(***************************************************************************)
(* What the fence, the lease and the attempt counter of the outbox         *)
(* guarantee for any number of rows, drains and crashes and any schedule   *)
(* constants.                                                              *)
(***************************************************************************)
EXTENDS Outbox, TLAPS

\* The maximum of a set of integers is whichever member bounds the others.
LEMMA MaxIsBound ==
    ASSUME NEW S, NEW n \in S, \A x \in S : x \in Int /\ x <= n
    PROVE  Max(S) = n
<1>1. \A x \in S : (\A y \in S : x >= y) => x = n
  OBVIOUS
<1>2. \E x \in S : \A y \in S : x >= y
  OBVIOUS
<1> QED  BY <1>1, <1>2 DEF Max

\* What claimDue's greatest() yields is one above the row's counter, provided
\* the counter covers the evidence.
LEMMA NextAttemptCovered ==
    ASSUME OutboxTypeOK, AttemptsCovered, NEW r \in Row
    PROVE  NextAttempt(r) = outbox[r].attempts + 1
<1> DEFINE S == {outbox[r].attempts} \cup
                {a.attempt : a \in {b \in attempts : b.row = r}}
           n == outbox[r].attempts
<1>1. n \in Nat /\ n \in S
  BY DEF OutboxTypeOK, RowRecord
<1>2. \A x \in S : x \in Int /\ x <= n
  BY <1>1 DEF OutboxTypeOK, AttemptRecord, AttemptsCovered
<1>3. Max(S) = n
  <2> HIDE DEF S, n
  <2> QED  BY <1>1, <1>2, MaxIsBound
<1> QED  BY <1>1, <1>3 DEF NextAttempt

-----------------------------------------------------------------------------
\* Types.  The counter is a number only because the evidence never runs ahead
\* of it, so the step also assumes AttemptsCovered.
LEMMA TypeInductive ==
    OutboxTypeOK /\ AttemptsCovered /\ [OutboxNext]_outboxVars => OutboxTypeOK'
<1> SUFFICES ASSUME OutboxTypeOK, AttemptsCovered, [OutboxNext]_outboxVars
             PROVE  OutboxTypeOK'
  OBVIOUS
<1> USE OutboxConstants DEF OutboxTypeOK
<1>1. ASSUME NEW r \in Row, Enqueue(r) PROVE OutboxTypeOK'
  BY <1>1 DEF Enqueue, Queued, RowRecord, RowState, NoLease
<1>2. ASSUME NEW original \in Row, NEW copy \in Row, ReplayDelivery(original, copy)
      PROVE OutboxTypeOK'
  BY <1>2 DEF ReplayDelivery, Queued, RowRecord, RowState, NoLease
<1>3. ASSUME NEW d \in Drain, ExpireOverdueSelect(d) PROVE OutboxTypeOK'
  BY <1>3 DEF ExpireOverdueSelect, Phase
<1>4. ASSUME NEW d \in Drain, ExpireOverdueUpdate(d) PROVE OutboxTypeOK'
  <2>1. \A r \in Row : [outbox[r] EXCEPT !.state = "expired", !.lease = NoLease,
                                 !.fence = outbox[r].fence + 1] \in RowRecord
    <3>1. \A r \in Row : outbox[r] \in RowRecord /\ outbox[r].fence + 1 \in Nat
      BY DEF RowRecord
    <3>2. "expired" \in RowState /\ NoLease \in Nat
      BY DEF RowState, Terminal, NoLease
    <3> QED  BY <3>1, <3>2 DEF RowRecord
  <2>2. outbox' \in [Row -> RowRecord]
    BY <1>4, <2>1 DEF ExpireOverdueUpdate
  <2> QED  BY <1>4, <2>2 DEF ExpireOverdueUpdate, Phase
<1>5. ASSUME NEW d \in Drain, NEW S \in SUBSET Row, NEW D \in SUBSET S,
             ClaimDue(d, S, D)
      PROVE OutboxTypeOK'
  <2>1. \A r \in Row : /\ NextAttempt(r) \in Nat
                       /\ outbox[r].fence + 1 \in Nat
                       /\ moment + LeaseTime \in Nat
    BY NextAttemptCovered DEF RowRecord
  <2>2. outbox' \in [Row -> RowRecord]
    BY <1>5, <2>1 DEF ClaimDue, RowRecord, RowState
  <2>3. attempts' \subseteq AttemptRecord
    <3> SUFFICES ASSUME NEW r \in S
                 PROVE  [row |-> r, attempt |-> NextAttempt(r),
                         fence |-> outbox[r].fence + 1, started |-> moment,
                         outcome |-> "claimed"] \in AttemptRecord
      BY <1>5 DEF ClaimDue
    <3> QED  BY <2>1 DEF AttemptRecord
  <2>4. /\ holding' \subseteq ClaimRecord
        /\ \A c \in holding' : c.stage = "answered" => c.outcome # NoOutcome
    <3> DEFINE new(r) == [drain |-> d, row |-> r, fence |-> outbox[r].fence + 1,
                          attempt |-> NextAttempt(r), until |-> moment + LeaseTime,
                          stage |-> IF r \in D THEN "defer" ELSE "held",
                          outcome |-> NoOutcome]
    <3>1. holding' = holding \cup {new(r) : r \in S}
      BY <1>5 DEF ClaimDue
    <3>2. \A r \in S : new(r) \in ClaimRecord /\ new(r).stage # "answered"
      BY <2>1 DEF ClaimRecord
    <3> QED  BY <3>1, <3>2
  <2>5. phase' \in [Drain -> Phase]
    BY <1>5 DEF ClaimDue, Phase
  <2> QED  BY <1>5, <2>2, <2>3, <2>4, <2>5 DEF ClaimDue
<1>6. ASSUME NEW c \in holding, ClaimStep(c) PROVE OutboxTypeOK'
  <2>1. /\ c \in ClaimRecord /\ c.row \in Row /\ c.drain \in Drain
        /\ c.outcome \in DeliveryOutcome \cup {NoOutcome}
    BY DEF ClaimRecord
  <2>2. ASSUME Release(c)
        PROVE  /\ holding' \subseteq ClaimRecord
               /\ \A k \in holding' : k.stage = "answered" => k.outcome # NoOutcome
               /\ phase' \in [Drain -> Phase]
    BY <2>1, <2>2 DEF Release, Phase
  <2>3. CASE DeferRow(c)
    <3>0. \A n \in Nat : \A W : GivenBack(n, W) \in Nat
      BY DEF GivenBack
    <3>1. \A W : GivenBack(outbox[c.row].attempts, W) \in Nat
      BY <2>1, <3>0 DEF RowRecord
    <3>2. moment + DeferDelay \in Nat
      OBVIOUS
    <3>3. \A W : [outbox[c.row] EXCEPT
                    !.state = "queued", !.lease = NoLease,
                    !.next = moment + DeferDelay,
                    !.attempts = GivenBack(outbox[c.row].attempts, W)] \in RowRecord
      BY <2>1, <3>1, <3>2 DEF RowRecord, RowState, NoLease
    <3>4. outbox' \in [Row -> RowRecord]
      BY <2>1, <2>3, <3>3 DEF DeferRow
    <3> QED  BY <2>2, <2>3, <3>4 DEF DeferRow
  <2>4. CASE RenewLease(c)
    <3>1. moment + LeaseTime \in Nat
      OBVIOUS
    <3>2. outbox' \in [Row -> RowRecord]
      BY <2>1, <2>4, <3>1 DEF RenewLease, RowRecord
    <3>3. /\ holding' \subseteq ClaimRecord
          /\ \A k \in holding' : k.stage = "answered" => k.outcome # NoOutcome
      BY <2>1, <2>4, <3>1 DEF RenewLease, ClaimRecord
    <3> QED  BY <2>4, <3>2, <3>3 DEF RenewLease
  <2>5. CASE LeaseLost(c)
    BY <2>2, <2>5 DEF LeaseLost
  <2>6. CASE RenewThrows(c)
    <3>1. /\ holding' \subseteq ClaimRecord
          /\ \A k \in holding' : k.stage = "answered" => k.outcome # NoOutcome
      BY <2>1, <2>6 DEF RenewThrows, ClaimRecord, DeliveryOutcome
    <3> QED  BY <2>6, <3>1 DEF RenewThrows
  <2>7. ASSUME NEW o \in DeliveryOutcome, NEW out \in BOOLEAN, Deliver(c, o, out)
        PROVE OutboxTypeOK'
    <3>1. /\ holding' \subseteq ClaimRecord
          /\ \A k \in holding' : k.stage = "answered" => k.outcome # NoOutcome
      <4>1. /\ [c EXCEPT !.stage = "answered", !.outcome = o] \in ClaimRecord
            /\ [c EXCEPT !.stage = "answered", !.outcome = o].outcome # NoOutcome
        BY <2>1 DEF ClaimRecord, DeliveryOutcome
      <4> QED  BY <2>7, <4>1 DEF Deliver
    <3>2. sent' \subseteq [row : Row, attempt : Nat, fence : Nat]
      BY <2>1, <2>7 DEF Deliver, ClaimRecord
    <3> QED  BY <2>7, <3>1, <3>2 DEF Deliver
  <2>8. ASSUME NEW w \in 0 .. 2 * BackoffCeiling + RetryAfterCap, RecordOutcome(c, w)
        PROVE OutboxTypeOK'
    <3>1. moment + w \in Nat
      OBVIOUS
    <3>2. \A row \in RowRecord : Settled(row, c, w) \in RowRecord
      BY <3>1 DEF Settled, RowRecord, RowState, Terminal, NoLease
    <3>3. outbox' \in [Row -> RowRecord]
      BY <2>1, <2>8, <3>2 DEF RecordOutcome
    <3>4. c.outcome \in DeliveryOutcome \cup {"claimed"}
      BY <2>1, <2>8 DEF RecordOutcome
    <3>5. attempts' \subseteq AttemptRecord
      BY <2>8, <3>4 DEF RecordOutcome, AttemptOf, AttemptRecord
    <3> QED  BY <2>2, <2>8, <3>3, <3>5 DEF RecordOutcome
  <2>9. CASE RecordSuperseded(c)
    <3>1. attempts' \subseteq AttemptRecord
      BY <2>9 DEF RecordSuperseded, AttemptOf, AttemptRecord, DeliveryOutcome
    <3> QED  BY <2>2, <2>9, <3>1 DEF RecordSuperseded
  <2> QED  BY <1>6, <2>3, <2>4, <2>5, <2>6, <2>7, <2>8, <2>9 DEF ClaimStep
<1>7. CASE SweepStaleAttempts
  BY <1>7 DEF SweepStaleAttempts, Stale, AttemptRecord, DeliveryOutcome
<1>8. CASE PruneNotificationHistory
  <2>1. outbox' \in [Row -> RowRecord]
    BY <1>8 DEF PruneNotificationHistory, RowRecord, RowState
  <2> QED  BY <1>8, <2>1 DEF PruneNotificationHistory
<1>9. ASSUME NEW d \in Drain, DrainDies(d) PROVE OutboxTypeOK'
  BY <1>9 DEF DrainDies, Phase
<1>10. CASE TimePasses
  BY <1>10 DEF TimePasses
<1>11. CASE UNCHANGED outboxVars
  BY <1>11 DEF outboxVars
<1> QED
  BY <1>1, <1>2, <1>3, <1>4, <1>5, <1>6, <1>7, <1>8, <1>9, <1>10, <1>11
     DEF OutboxNext, DrainStep, Retain

-----------------------------------------------------------------------------
\* The strengthening.  A row not inserted yet is blank; no claim is ahead of
\* its row's fence; and a drain still inside its lease owns its row, unless
\* the row has been settled under it by the expiry sweep.
AbsentBlank == \A r \in Row : outbox[r].state = "absent" => outbox[r] = AbsentRow

FenceBound == \A c \in holding : c.fence <= outbox[c.row].fence

Gone == Terminal \cup {"pruned"}

LeaseTrust ==
    \A c \in holding : c.until > moment => OwnedRow(c) \/ outbox[c.row].state \in Gone

FenceInv == AbsentBlank /\ FenceBound /\ FenceHolds /\ LeaseTrust /\ LeaseExclusive

IInv == OutboxTypeOK /\ AttemptsCovered /\ FenceInv

\* Nobody holds a row that was never inserted.
LEMMA NoClaimOnAbsent ==
    ASSUME OutboxTypeOK, FenceInv, NEW c \in holding
    PROVE  outbox[c.row].state # "absent"
<1> SUFFICES ASSUME outbox[c.row].state = "absent" PROVE FALSE
  OBVIOUS
<1>1. c.row \in Row /\ c.fence \in Nat
  BY DEF OutboxTypeOK, ClaimRecord
<1>2. outbox[c.row].fence = 0
  BY <1>1 DEF FenceInv, AbsentBlank, AbsentRow
<1>3. c.fence = 0
  BY <1>1, <1>2 DEF FenceInv, FenceBound
<1> QED  BY <1>2, <1>3 DEF FenceInv, FenceHolds, OwnedRow

\* Leaving the rows and the clock alone and only forgetting claims is safe.
LEMMA ForgetPreserves ==
    ASSUME OutboxTypeOK, FenceInv, outbox' = outbox, moment' = moment, holding' \subseteq holding
    PROVE  FenceInv'
BY DEF FenceInv, AbsentBlank, FenceBound, FenceHolds, LeaseTrust, LeaseExclusive, OwnedRow

\* So is moving one claim to its next stage.
LEMMA AdvancePreserves ==
    ASSUME OutboxTypeOK, FenceInv, outbox' = outbox, moment' = moment, NEW c \in holding, NEW k,
           k.row = c.row, k.fence = c.fence, k.attempt = c.attempt, k.until = c.until,
           holding' = (holding \ {c}) \cup {k}
    PROVE  FenceInv'
<1> USE DEF FenceInv
<1>1. AbsentBlank'
  BY DEF AbsentBlank
<1>2. FenceBound'
  BY DEF FenceBound
<1>3. FenceHolds'
  BY DEF FenceHolds, OwnedRow
<1>4. LeaseTrust'
  BY DEF LeaseTrust, OwnedRow
<1>5. LeaseExclusive'
  BY DEF LeaseExclusive
<1> QED  BY <1>1, <1>2, <1>3, <1>4, <1>5

\* So is what the owner of a row does when it lets go: the row may change in
\* every field but its fence, as long as it exists.
LEMMA LetGoPreserves ==
    ASSUME OutboxTypeOK, FenceInv, moment' = moment, NEW c \in holding, OwnedRow(c),
           holding' = holding \ {c}, NEW row, row.fence = outbox[c.row].fence,
           row.state # "absent",
           outbox' = [outbox EXCEPT ![c.row] = row]
    PROVE  FenceInv'
<1> USE DEF FenceInv
<1>1. c.row \in Row /\ outbox[c.row].state = "sending"
  BY DEF OutboxTypeOK, ClaimRecord, FenceHolds
<1>2. \A r \in Row : r # c.row => outbox'[r] = outbox[r]
  BY <1>1 DEF OutboxTypeOK
<1>3. outbox'[c.row] = row
  BY <1>1 DEF OutboxTypeOK
<1>4. \A k \in holding' : k \in holding /\ k.row \in Row /\ (k.row = c.row => k.fence # c.fence)
  BY DEF OutboxTypeOK, ClaimRecord, FenceHolds
<1>5. \A k \in holding' : k.row = c.row => ~ OwnedRow(k) /\ ~ OwnedRow(k)'
  BY <1>3, <1>4 DEF OwnedRow
<1>6. \A k \in holding' : k.row = c.row => ~ (k.until > moment)
  BY <1>1, <1>4, <1>5 DEF LeaseTrust, Gone, Terminal
<1>7. AbsentBlank'
  BY <1>2, <1>3 DEF AbsentBlank
<1>8. FenceBound'
  BY <1>2, <1>3, <1>4 DEF FenceBound
<1>9. FenceHolds'
  BY <1>2, <1>4, <1>5 DEF FenceHolds, OwnedRow
<1>10. LeaseTrust'
  BY <1>2, <1>4, <1>6 DEF LeaseTrust, OwnedRow
<1>11. LeaseExclusive'
  BY <1>4 DEF LeaseExclusive
<1> QED  BY <1>7, <1>8, <1>9, <1>10, <1>11

\* A blank row becoming queued disturbs no claim.
LEMMA InsertPreserves ==
    ASSUME OutboxTypeOK, FenceInv, NEW r \in Row, outbox[r].state = "absent",
           outbox' = [outbox EXCEPT ![r] = Queued],
           moment' = moment, holding' = holding
    PROVE  FenceInv'
<1> USE DEF FenceInv
<1>1. \A c \in holding : c.row \in Row /\ c.row # r
  BY NoClaimOnAbsent DEF OutboxTypeOK, ClaimRecord
<1>2. \A q \in Row : q # r => outbox'[q] = outbox[q]
  BY DEF OutboxTypeOK
<1>3. outbox'[r] = Queued
  BY DEF OutboxTypeOK
<1>4. AbsentBlank'
  BY <1>2, <1>3 DEF AbsentBlank, Queued
<1>5. FenceBound' /\ LeaseTrust' /\ LeaseExclusive'
  BY <1>1, <1>2 DEF FenceBound, LeaseTrust, LeaseExclusive, OwnedRow
<1>6. FenceHolds'
  BY <1>1, <1>2 DEF FenceHolds, OwnedRow
<1> QED  BY <1>4, <1>5, <1>6

-----------------------------------------------------------------------------
\* A claim puts the row's fence above every older claim, and takes only rows
\* no drain is still trusted with.
LEMMA ClaimDuePreserves ==
    ASSUME OutboxTypeOK, AttemptsCovered, FenceInv, NEW d \in Drain,
           NEW S \in SUBSET Row, NEW D \in SUBSET S, ClaimDue(d, S, D)
    PROVE  FenceInv'
<1> USE OutboxConstants DEF FenceInv
<1> DEFINE new(r) == [drain |-> d, row |-> r, fence |-> outbox[r].fence + 1,
                      attempt |-> NextAttempt(r), until |-> moment + LeaseTime,
                      stage |-> IF r \in D THEN "defer" ELSE "held",
                      outcome |-> NoOutcome]
<1>1. holding' = holding \cup {new(r) : r \in S} /\ moment' = moment /\ moment \in Nat
  BY DEF ClaimDue, OutboxTypeOK
<1>2. \A r \in Row : r \notin S => outbox'[r] = outbox[r]
  BY DEF ClaimDue
<1>3. \A r \in S : /\ outbox'[r].state = "sending"
                   /\ outbox'[r].fence = outbox[r].fence + 1
                   /\ outbox'[r].attempts = NextAttempt(r)
                   /\ outbox'[r].lease = moment + LeaseTime
                   /\ outbox[r].fence \in Nat
  BY DEF ClaimDue, OutboxTypeOK, RowRecord
<1>4. \A r \in S : /\ new(r).row = r
                   /\ new(r).fence = outbox'[r].fence
                   /\ new(r).attempt = outbox'[r].attempts
                   /\ new(r).until = outbox'[r].lease
  BY <1>3
<1>5. \A c \in holding : c.row \in Row /\ c.fence \in Nat /\ c.until \in Nat
  BY DEF OutboxTypeOK, ClaimRecord
<1>6. \A c \in holding : c.row \in S => c.fence < outbox'[c.row].fence
  BY <1>3, <1>5 DEF FenceBound
<1>7. \A c \in holding : c.row \in S => ~ (c.until > moment)
  <2> SUFFICES ASSUME NEW c \in holding, c.row \in S, c.until > moment PROVE FALSE
    OBVIOUS
  <2>1. DueRow(c.row)
    BY DEF ClaimDue
  <2>2. OwnedRow(c)
    BY <2>1 DEF LeaseTrust, DueRow, Gone, Terminal
  <2>3. outbox[c.row].state = "sending" /\ outbox[c.row].lease = c.until
    BY <2>2 DEF FenceHolds
  <2> QED  BY <1>1, <1>5, <2>1, <2>3 DEF DueRow, LeaseLapsed
<1> HIDE DEF new
<1>8. AbsentBlank'
  BY <1>2, <1>3 DEF AbsentBlank
<1>9. FenceBound'
  BY <1>1, <1>2, <1>3, <1>4, <1>5, <1>6 DEF FenceBound
<1>10. FenceHolds'
  <2>1. \A c \in holding' : OwnedRow(c)' =>
            /\ outbox'[c.row].state = "sending"
            /\ outbox'[c.row].attempts = c.attempt
            /\ outbox'[c.row].lease = c.until
    BY <1>1, <1>2, <1>3, <1>4, <1>5, <1>6 DEF FenceHolds, OwnedRow
  <2>2. \A c, k \in holding' : c.row = k.row /\ c.fence = k.fence => c = k
    BY <1>1, <1>4, <1>5, <1>6 DEF FenceHolds
  <2> QED  BY <2>1, <2>2 DEF FenceHolds
<1>11. LeaseTrust'
  <2>1. \A r \in S : /\ outbox'[new(r).row].state # "pruned"
                     /\ outbox'[new(r).row].fence = new(r).fence
    BY <1>3, <1>4
  <2> QED  BY <1>1, <1>2, <1>5, <1>7, <2>1 DEF LeaseTrust, OwnedRow
<1>12. LeaseExclusive'
  BY <1>1, <1>4, <1>7 DEF LeaseExclusive
<1> QED  BY <1>8, <1>9, <1>10, <1>11, <1>12

\* A renewal extends the lease of the one claim that owns the row.
LEMMA RenewPreserves ==
    ASSUME OutboxTypeOK, FenceInv, NEW c \in holding, RenewLease(c)
    PROVE  FenceInv'
<1> USE OutboxConstants DEF FenceInv
<1>0. PICK k : /\ k = [c EXCEPT !.stage = "renewed", !.until = moment + LeaseTime]
               /\ holding' = (holding \ {c}) \cup {k}
  BY DEF RenewLease
<1>1. /\ k.row = c.row /\ k.fence = c.fence /\ k.attempt = c.attempt
      /\ k.until = moment + LeaseTime
  BY <1>0 DEF OutboxTypeOK, ClaimRecord
<1>2. /\ \A x \in holding' : x = k \/ x \in holding \ {c}
      /\ k \in holding' /\ moment' = moment
  BY <1>0 DEF RenewLease
<1>3. OwnedRow(c) /\ c.row \in Row /\ outbox[c.row].state = "sending"
  BY DEF RenewLease, OutboxTypeOK, ClaimRecord, FenceHolds
<1>4. \A r \in Row : r # c.row => outbox'[r] = outbox[r]
  BY <1>3 DEF RenewLease, OutboxTypeOK
<1>5. /\ outbox'[c.row].fence = outbox[c.row].fence
      /\ outbox'[c.row].state = "sending"
      /\ outbox'[c.row].attempts = outbox[c.row].attempts
      /\ outbox'[c.row].lease = moment + LeaseTime
  BY <1>3 DEF RenewLease, OutboxTypeOK, RowRecord
<1>6. \A x \in holding \ {c} : /\ x.row \in Row
                               /\ x.row = c.row => /\ x.fence # c.fence
                                                   /\ ~ (x.until > moment)
  BY <1>3 DEF OutboxTypeOK, ClaimRecord, FenceHolds, LeaseTrust, OwnedRow, Gone, Terminal
<1>7. AbsentBlank'
  BY <1>4, <1>5 DEF AbsentBlank
<1>8. FenceBound'
  BY <1>1, <1>2, <1>3, <1>4, <1>5, <1>6 DEF FenceBound
<1>9. FenceHolds'
  <2>1. outbox[c.row].attempts = c.attempt /\ outbox[c.row].fence = c.fence
    BY <1>3 DEF FenceHolds, OwnedRow
  <2>2. \A x \in holding \ {c} : x.row = c.row => ~ OwnedRow(x)'
    BY <1>5, <1>6, <2>1 DEF OwnedRow
  <2>3. \A x \in holding' : OwnedRow(x)' =>
            /\ outbox'[x.row].state = "sending"
            /\ outbox'[x.row].attempts = x.attempt
            /\ outbox'[x.row].lease = x.until
    BY <1>1, <1>2, <1>4, <1>5, <1>6, <2>1, <2>2 DEF FenceHolds, OwnedRow
  <2>4. \A x, y \in holding' : x.row = y.row /\ x.fence = y.fence => x = y
    BY <1>1, <1>2, <1>6 DEF FenceHolds
  <2> QED  BY <2>3, <2>4 DEF FenceHolds
<1>10. LeaseTrust'
  <2>1. outbox'[k.row].state # "pruned" /\ outbox'[k.row].fence = k.fence
    BY <1>1, <1>3, <1>5 DEF OwnedRow
  <2> QED  BY <1>2, <1>4, <1>6, <2>1 DEF LeaseTrust, OwnedRow
<1>11. LeaseExclusive'
  BY <1>1, <1>2, <1>6 DEF LeaseExclusive
<1> QED  BY <1>7, <1>8, <1>9, <1>10, <1>11

\* The expiry sweep settles a row and moves its fence past every claim, even
\* when its snapshot is stale.
LEMMA ExpirePreserves ==
    ASSUME OutboxTypeOK, FenceInv, NEW d \in Drain, ExpireOverdueUpdate(d)
    PROVE  FenceInv'
<1> USE DEF FenceInv
<1>1. holding' = holding /\ moment' = moment
  BY DEF ExpireOverdueUpdate
<1>2. \A c \in holding : c.row \in Row /\ c.fence \in Nat
  BY DEF OutboxTypeOK, ClaimRecord
<1>3. \A r \in Row : \/ outbox'[r] = outbox[r]
                     \/ /\ outbox'[r].state = "expired"
                        /\ outbox'[r].fence = outbox[r].fence + 1
                        /\ outbox[r].fence \in Nat
  BY DEF ExpireOverdueUpdate, OutboxTypeOK, RowRecord
<1>4. AbsentBlank'
  BY <1>3 DEF AbsentBlank
<1>5. FenceBound'
  BY <1>1, <1>2, <1>3 DEF FenceBound
<1>6. FenceHolds'
  BY <1>1, <1>2, <1>3 DEF FenceHolds, FenceBound, OwnedRow
<1>7. LeaseTrust'
  BY <1>1, <1>2, <1>3 DEF LeaseTrust, OwnedRow, Gone, Terminal
<1>8. LeaseExclusive'
  BY <1>1 DEF LeaseExclusive
<1> QED  BY <1>4, <1>5, <1>6, <1>7, <1>8

\* Retention deletes only rows nobody owns any more.
LEMMA PrunePreserves ==
    ASSUME OutboxTypeOK, FenceInv, PruneNotificationHistory
    PROVE  FenceInv'
<1> USE DEF FenceInv
<1>1. holding' = holding /\ moment' = moment
  BY DEF PruneNotificationHistory
<1>2. \A c \in holding : c.row \in Row
  BY DEF OutboxTypeOK, ClaimRecord
<1>3. \A r \in Row : \/ outbox'[r] = outbox[r]
                     \/ /\ outbox'[r].state = "pruned"
                        /\ outbox'[r].fence = outbox[r].fence
  BY DEF PruneNotificationHistory, OutboxTypeOK, RowRecord
<1>4. AbsentBlank'
  BY <1>3 DEF AbsentBlank
<1>5. FenceBound'
  BY <1>1, <1>2, <1>3 DEF FenceBound
<1>6. FenceHolds'
  BY <1>1, <1>2, <1>3 DEF FenceHolds, OwnedRow
<1>7. LeaseTrust'
  BY <1>1, <1>2, <1>3 DEF LeaseTrust, OwnedRow, Gone
<1>8. LeaseExclusive'
  BY <1>1 DEF LeaseExclusive
<1> QED  BY <1>4, <1>5, <1>6, <1>7, <1>8

\* Every step keeps the fence around a claimed row.
LEMMA FenceInductive ==
    OutboxTypeOK /\ AttemptsCovered /\ FenceInv /\ [OutboxNext]_outboxVars => FenceInv'
<1> SUFFICES ASSUME OutboxTypeOK, AttemptsCovered, FenceInv, [OutboxNext]_outboxVars
             PROVE  FenceInv'
  OBVIOUS
<1>1. ASSUME NEW r \in Row, Enqueue(r) PROVE FenceInv'
  BY <1>1, InsertPreserves DEF Enqueue
<1>2. ASSUME NEW original \in Row, NEW copy \in Row, ReplayDelivery(original, copy)
      PROVE FenceInv'
  BY <1>2, InsertPreserves DEF ReplayDelivery
<1>3. ASSUME NEW d \in Drain, ExpireOverdueSelect(d) PROVE FenceInv'
  BY <1>3, ForgetPreserves DEF ExpireOverdueSelect
<1>4. ASSUME NEW d \in Drain, ExpireOverdueUpdate(d) PROVE FenceInv'
  BY <1>4, ExpirePreserves
<1>5. ASSUME NEW d \in Drain, NEW S \in SUBSET Row, NEW D \in SUBSET S,
             ClaimDue(d, S, D)
      PROVE FenceInv'
  BY <1>5, ClaimDuePreserves
<1>6. ASSUME NEW c \in holding, ClaimStep(c) PROVE FenceInv'
  <2>1. c \in ClaimRecord /\ c.row \in Row /\ outbox[c.row] \in RowRecord
    BY DEF OutboxTypeOK, ClaimRecord
  <2>2. CASE DeferRow(c)
    <3> DEFINE W == {a \in AttemptOf(c) : a.outcome = "claimed"}
               row == [outbox[c.row] EXCEPT
                          !.state = "queued", !.lease = NoLease,
                          !.next = moment + DeferDelay,
                          !.attempts = GivenBack(outbox[c.row].attempts, W)]
    <3>1. row.fence = outbox[c.row].fence /\ row.state # "absent"
      BY <2>1 DEF RowRecord
    <3>2. CASE ~ OwnedRow(c)
      BY <2>2, <3>2, ForgetPreserves DEF DeferRow, Release
    <3>3. CASE OwnedRow(c)
      <4>1. /\ outbox' = [outbox EXCEPT ![c.row] = row]
            /\ holding' = holding \ {c} /\ moment' = moment
        BY <2>2, <3>3 DEF DeferRow, Release
      <4> HIDE DEF row
      <4> QED  BY <3>1, <3>3, <4>1, LetGoPreserves
    <3> QED  BY <3>2, <3>3
  <2>3. CASE RenewLease(c)
    BY <2>3, RenewPreserves
  <2>4. CASE LeaseLost(c)
    BY <2>4, ForgetPreserves DEF LeaseLost, Release
  <2>5. CASE RenewThrows(c)
    <3> DEFINE k == [c EXCEPT !.stage = "answered", !.outcome = "unknown"]
    <3>1. k.row = c.row /\ k.fence = c.fence /\ k.attempt = c.attempt /\ k.until = c.until
      BY <2>1 DEF ClaimRecord
    <3>2. outbox' = outbox /\ moment' = moment /\ holding' = (holding \ {c}) \cup {k}
      BY <2>5 DEF RenewThrows
    <3> HIDE DEF k
    <3> QED  BY <3>1, <3>2, AdvancePreserves
  <2>6. ASSUME NEW o \in DeliveryOutcome, NEW out \in BOOLEAN, Deliver(c, o, out)
        PROVE FenceInv'
    <3> DEFINE k == [c EXCEPT !.stage = "answered", !.outcome = o]
    <3>1. k.row = c.row /\ k.fence = c.fence /\ k.attempt = c.attempt /\ k.until = c.until
      BY <2>1 DEF ClaimRecord
    <3>2. outbox' = outbox /\ moment' = moment /\ holding' = (holding \ {c}) \cup {k}
      BY <2>6 DEF Deliver
    <3> HIDE DEF k
    <3> QED  BY <3>1, <3>2, AdvancePreserves
  <2>7. ASSUME NEW w \in 0 .. 2 * BackoffCeiling + RetryAfterCap, RecordOutcome(c, w)
        PROVE FenceInv'
    <3>1. /\ Settled(outbox[c.row], c, w).fence = outbox[c.row].fence
          /\ Settled(outbox[c.row], c, w).state # "absent"
      BY <2>1 DEF Settled, RowRecord
    <3>2. /\ outbox' = [outbox EXCEPT ![c.row] = Settled(outbox[c.row], c, w)]
          /\ holding' = holding \ {c} /\ moment' = moment /\ OwnedRow(c)
      BY <2>7 DEF RecordOutcome, Release
    <3> QED  BY <3>1, <3>2, LetGoPreserves
  <2>8. CASE RecordSuperseded(c)
    BY <2>8, ForgetPreserves DEF RecordSuperseded, Release
  <2> QED  BY <1>6, <2>2, <2>3, <2>4, <2>5, <2>6, <2>7, <2>8 DEF ClaimStep
<1>7. CASE SweepStaleAttempts
  BY <1>7, ForgetPreserves DEF SweepStaleAttempts
<1>8. CASE PruneNotificationHistory
  BY <1>8, PrunePreserves
<1>9. ASSUME NEW d \in Drain, DrainDies(d) PROVE FenceInv'
  BY <1>9, ForgetPreserves DEF DrainDies
<1>10. CASE TimePasses
  <2>1. \A c \in holding : c.until \in Nat
    BY DEF OutboxTypeOK, ClaimRecord
  <2> QED
    BY <1>10, <2>1 DEF TimePasses, OutboxTypeOK, FenceInv, AbsentBlank, FenceBound, FenceHolds,
                       LeaseTrust, LeaseExclusive, OwnedRow
<1>11. CASE UNCHANGED outboxVars
  BY <1>11, ForgetPreserves DEF outboxVars
<1> QED
  BY <1>1, <1>2, <1>3, <1>4, <1>5, <1>6, <1>7, <1>8, <1>9, <1>10, <1>11
     DEF OutboxNext, DrainStep, Retain

-----------------------------------------------------------------------------
\* Rewriting the outcome of some attempts leaves the numbering alone.
LEMMA RelabelPreserves ==
    ASSUME OutboxTypeOK, AttemptsCovered, NEW T \in SUBSET attempts, NEW o,
           attempts' = (attempts \ T) \cup {[a EXCEPT !.outcome = o] : a \in T},
           \A r \in Row : outbox'[r].attempts = outbox[r].attempts
    PROVE  AttemptsCovered'
<1> DEFINE relabel(a) == [a EXCEPT !.outcome = o]
<1>1. \A a \in attempts : a.row \in Row /\ a \in AttemptRecord
  BY DEF OutboxTypeOK, AttemptRecord
<1>2. \A a \in T : relabel(a).row = a.row /\ relabel(a).attempt = a.attempt
  BY <1>1 DEF AttemptRecord
<1>3. attempts' = (attempts \ T) \cup {relabel(a) : a \in T}
  OBVIOUS
<1> HIDE DEF relabel
<1>4. \A b \in attempts' : \E a \in attempts :
          /\ b.row = a.row /\ b.attempt = a.attempt
          /\ b = IF a \in T THEN relabel(a) ELSE a
  BY <1>2, <1>3
<1> QED  BY <1>1, <1>4 DEF AttemptsCovered

\* Every step keeps the counter above the sends it stands for.
LEMMA AttemptsInductive ==
    OutboxTypeOK /\ AttemptsCovered /\ FenceInv /\ [OutboxNext]_outboxVars => AttemptsCovered'
<1> SUFFICES ASSUME OutboxTypeOK, AttemptsCovered, FenceInv, [OutboxNext]_outboxVars
             PROVE  AttemptsCovered'
  OBVIOUS
<1>0. \A a \in attempts : a.row \in Row /\ a.attempt \in Nat
  BY DEF OutboxTypeOK, AttemptRecord
<1>a. ASSUME NEW r \in Row, outbox[r].state = "absent", attempts' = attempts,
             outbox' = [outbox EXCEPT ![r] = Queued]
      PROVE  AttemptsCovered'
  <2>1. \A q \in Row : outbox'[q].attempts = outbox[q].attempts
    BY <1>a DEF FenceInv, AbsentBlank, AbsentRow, Queued, OutboxTypeOK
  <2> QED  BY <1>0, <1>a, <2>1 DEF AttemptsCovered
<1>1. ASSUME NEW r \in Row, Enqueue(r) PROVE AttemptsCovered'
  BY <1>1, <1>a DEF Enqueue
<1>2. ASSUME NEW original \in Row, NEW copy \in Row, ReplayDelivery(original, copy)
      PROVE AttemptsCovered'
  BY <1>2, <1>a DEF ReplayDelivery
<1>3. ASSUME NEW d \in Drain, ExpireOverdueSelect(d) PROVE AttemptsCovered'
  BY <1>3 DEF ExpireOverdueSelect, AttemptsCovered
<1>4. ASSUME NEW d \in Drain, ExpireOverdueUpdate(d) PROVE AttemptsCovered'
  <2>1. \A r \in Row : outbox'[r].attempts = outbox[r].attempts
    BY <1>4 DEF ExpireOverdueUpdate, OutboxTypeOK, RowRecord
  <2> QED  BY <1>0, <1>4, <2>1 DEF ExpireOverdueUpdate, AttemptsCovered
<1>5. ASSUME NEW d \in Drain, NEW S \in SUBSET Row, NEW D \in SUBSET S,
             ClaimDue(d, S, D)
      PROVE AttemptsCovered'
  <2> DEFINE new(r) == [row |-> r, attempt |-> NextAttempt(r),
                        fence |-> outbox[r].fence + 1, started |-> moment,
                        outcome |-> "claimed"]
  <2>1. attempts' = attempts \cup {new(r) : r \in S}
    BY <1>5 DEF ClaimDue
  <2>2. \A r \in S : /\ outbox'[r].attempts = outbox[r].attempts + 1
                     /\ outbox[r].attempts \in Nat
                     /\ new(r).row = r
                     /\ new(r).attempt = outbox[r].attempts + 1
    BY <1>5, NextAttemptCovered DEF ClaimDue, OutboxTypeOK, RowRecord
  <2>3. \A r \in Row : r \notin S => outbox'[r] = outbox[r]
    BY <1>5 DEF ClaimDue
  <2> HIDE DEF new
  <2>4. \A a \in attempts' : a.attempt <= outbox'[a.row].attempts
    BY <1>0, <2>1, <2>2, <2>3 DEF AttemptsCovered
  <2>5. \A a, b \in attempts' : a.row = b.row /\ a.attempt = b.attempt => a = b
    BY <1>0, <2>1, <2>2 DEF AttemptsCovered
  <2> QED  BY <2>4, <2>5 DEF AttemptsCovered
<1>6. ASSUME NEW c \in holding, ClaimStep(c) PROVE AttemptsCovered'
  <2>1. c.row \in Row /\ c.attempt \in Nat /\ outbox[c.row] \in RowRecord
    BY DEF OutboxTypeOK, ClaimRecord
  <2>2. CASE DeferRow(c)
    <3> DEFINE W == {a \in AttemptOf(c) : a.outcome = "claimed"}
    <3>1. attempts' = attempts \ W
      BY <2>2 DEF DeferRow
    <3>2. \A r \in Row : r # c.row => outbox'[r] = outbox[r]
      BY <2>1, <2>2 DEF DeferRow, OutboxTypeOK
    <3>3. CASE ~ OwnedRow(c)
      BY <1>0, <2>2, <3>1, <3>3 DEF DeferRow, AttemptsCovered
    <3>4. CASE OwnedRow(c)
      <4>1. outbox[c.row].attempts = c.attempt
        BY <3>4 DEF FenceInv, FenceHolds
      <4>2. outbox'[c.row].attempts = GivenBack(c.attempt, W)
        BY <2>1, <2>2, <3>4, <4>1 DEF DeferRow, OutboxTypeOK, RowRecord
      <4>3. \A a \in W : a \in attempts /\ a.row = c.row /\ a.attempt = c.attempt
        BY DEF AttemptOf
      <4> HIDE DEF W
      <4>4. \A a \in attempts \ W : a.row = c.row /\ W # {} => a.attempt # c.attempt
        BY <4>3 DEF AttemptsCovered
      <4>5. \A a \in attempts \ W : a.row = c.row =>
                a.attempt <= GivenBack(c.attempt, W)
        BY <1>0, <2>1, <4>1, <4>4 DEF AttemptsCovered, GivenBack
      <4>6. \A a \in attempts' : a.attempt <= outbox'[a.row].attempts
        BY <1>0, <3>1, <3>2, <4>2, <4>5 DEF AttemptsCovered
      <4> QED  BY <3>1, <4>6 DEF AttemptsCovered
    <3> QED  BY <3>3, <3>4
  <2>3. CASE RenewLease(c)
    <3>1. \A r \in Row : outbox'[r].attempts = outbox[r].attempts
      BY <2>1, <2>3 DEF RenewLease, OutboxTypeOK, RowRecord
    <3> QED  BY <1>0, <2>3, <3>1 DEF RenewLease, AttemptsCovered
  <2>4. CASE LeaseLost(c)
    BY <2>4 DEF LeaseLost, AttemptsCovered
  <2>5. CASE RenewThrows(c)
    BY <2>5 DEF RenewThrows, AttemptsCovered
  <2>6. ASSUME NEW o \in DeliveryOutcome, NEW out \in BOOLEAN, Deliver(c, o, out)
        PROVE AttemptsCovered'
    BY <2>6 DEF Deliver, AttemptsCovered
  <2>7. ASSUME NEW w \in 0 .. 2 * BackoffCeiling + RetryAfterCap, RecordOutcome(c, w)
        PROVE AttemptsCovered'
    <3>1. Settled(outbox[c.row], c, w).attempts = outbox[c.row].attempts
      BY <2>1 DEF Settled, RowRecord
    <3>2. \A r \in Row : outbox'[r].attempts = outbox[r].attempts
      BY <2>1, <2>7, <3>1 DEF RecordOutcome, OutboxTypeOK
    <3>3. /\ AttemptOf(c) \in SUBSET attempts
          /\ attempts' = (attempts \ AttemptOf(c)) \cup
                         {[a EXCEPT !.outcome = c.outcome] : a \in AttemptOf(c)}
      BY <2>7 DEF RecordOutcome, AttemptOf
    <3> QED  BY <3>2, <3>3, RelabelPreserves
  <2>8. CASE RecordSuperseded(c)
    <3> DEFINE T == {a \in AttemptOf(c) : a.outcome = "claimed"}
    <3>1. /\ T \in SUBSET attempts
          /\ attempts' = (attempts \ T) \cup {[a EXCEPT !.outcome = "unknown"] : a \in T}
          /\ \A r \in Row : outbox'[r].attempts = outbox[r].attempts
      BY <2>8 DEF RecordSuperseded, AttemptOf
    <3> HIDE DEF T
    <3> QED  BY <3>1, RelabelPreserves
  <2> QED  BY <1>6, <2>2, <2>3, <2>4, <2>5, <2>6, <2>7, <2>8 DEF ClaimStep
<1>7. CASE SweepStaleAttempts
  <2> DEFINE T == {a \in attempts : Stale(a)}
  <2>1. /\ T \in SUBSET attempts
        /\ attempts' = (attempts \ T) \cup {[a EXCEPT !.outcome = "unknown"] : a \in T}
        /\ \A r \in Row : outbox'[r].attempts = outbox[r].attempts
    BY <1>7 DEF SweepStaleAttempts
  <2> HIDE DEF T
  <2> QED  BY <2>1, RelabelPreserves
<1>8. CASE PruneNotificationHistory
  <2>1. \A r \in Row : outbox'[r].attempts = outbox[r].attempts
    BY <1>8 DEF PruneNotificationHistory, OutboxTypeOK, RowRecord
  <2>2. attempts' \subseteq attempts
    BY <1>8 DEF PruneNotificationHistory
  <2> QED  BY <1>0, <2>1, <2>2 DEF AttemptsCovered
<1>9. ASSUME NEW d \in Drain, DrainDies(d) PROVE AttemptsCovered'
  BY <1>9 DEF DrainDies, AttemptsCovered
<1>10. CASE TimePasses
  BY <1>10 DEF TimePasses, AttemptsCovered
<1>11. CASE UNCHANGED outboxVars
  BY <1>11 DEF outboxVars, AttemptsCovered
<1> QED
  BY <1>1, <1>2, <1>3, <1>4, <1>5, <1>6, <1>7, <1>8, <1>9, <1>10, <1>11
     DEF OutboxNext, DrainStep, Retain

-----------------------------------------------------------------------------
\* The evidence.  An attempt row lives no longer than its delivery; every claim
\* in a drain's memory has its attempt row until retention takes the delivery;
\* and what was sent under a fence belongs to a claim that has its answer, so
\* no deferral can withdraw it.
EvidenceLive ==
    \A a \in attempts : outbox[a.row].state \notin {"absent", "pruned"}

ClaimsEvidenced ==
    \A c \in holding :
        \/ outbox[c.row].state = "pruned"
        \/ \E a \in attempts : /\ a.row = c.row
                               /\ a.attempt = c.attempt
                               /\ a.fence = c.fence

SentAnswered ==
    /\ \A s \in sent : /\ s.fence <= outbox[s.row].fence
                       /\ outbox[s.row].state # "absent"
    /\ \A s \in sent, c \in holding :
            c.row = s.row /\ c.fence = s.fence => c.stage = "answered"

\* The latest attempt of r reads one of O.
Says(r, O) ==
    \E a \in attempts : /\ a.row = r /\ a.outcome \in O
                        /\ a.attempt = outbox[r].attempts
                        /\ a.fence = outbox[r].fence

Undelivered == {"queued", "sending", "failed", "dead_letter"}

NoneDelivered(r) == \A a \in attempts : a.row = r => a.outcome # "delivered"

RowAgrees(r) ==
    /\ outbox[r].state = "delivered" => Says(r, {"delivered"})
    /\ outbox[r].state = "failed" => Says(r, {"permanent"})
    /\ outbox[r].state = "dead_letter" => /\ Says(r, {"retryable", "unknown"})
                                          /\ outbox[r].attempts >= MaxAttempts
    /\ outbox[r].state \in Undelivered => NoneDelivered(r)

RowsAgree == \A r \in Row : RowAgrees(r)

EvidenceInv ==
    EvidenceLive /\ ClaimsEvidenced /\ SentAnswered /\ SendsEvidenced /\ RowsAgree

\* RowsAgree is OutcomeEvidenced, one row at a time.
LEMMA AgreementIsEvidence == RowsAgree => OutcomeEvidenced
BY DEF RowsAgree, RowAgrees, OutcomeEvidenced, Says, NoneDelivered, Undelivered

\* Everything the evidence speaks of is about a row of the outbox.
LEMMA EvidenceTyped ==
    ASSUME OutboxTypeOK
    PROVE  /\ \A r \in Row : /\ outbox[r] \in RowRecord
                             /\ outbox[r].fence \in Nat
                             /\ outbox[r].attempts \in Nat
           /\ \A a \in attempts : /\ a \in AttemptRecord /\ a.row \in Row
                                  /\ a.fence \in Nat /\ a.attempt \in Nat
           /\ \A c \in holding : /\ c \in ClaimRecord /\ c.row \in Row
                                 /\ c.fence \in Nat /\ c.attempt \in Nat
           /\ \A s \in sent : s.row \in Row /\ s.fence \in Nat
BY DEF OutboxTypeOK, RowRecord, AttemptRecord, ClaimRecord

\* A step that leaves attempts and sends alone: rows stay, are inserted, or
\* expire; claims are dropped or move on under the same fence.
LEMMA QuietPreserves ==
    ASSUME OutboxTypeOK, EvidenceInv, attempts' = attempts, sent' = sent,
           \A r \in Row :
              \/ /\ outbox'[r].state = outbox[r].state
                 /\ outbox'[r].fence = outbox[r].fence
                 /\ outbox'[r].attempts = outbox[r].attempts
              \/ outbox[r].state = "absent" /\ outbox'[r].state = "queued"
              \/ /\ outbox'[r].state = "expired"
                 /\ outbox'[r].fence = outbox[r].fence + 1,
           \A k \in holding' : \E c \in holding :
              /\ k.row = c.row /\ k.attempt = c.attempt /\ k.fence = c.fence
              /\ c.stage = "answered" => k.stage = "answered",
           \A r \in Row : outbox[r].state = "pruned" => outbox'[r].state = "pruned"
    PROVE  EvidenceInv'
<1> USE DEF EvidenceInv
<1>1. EvidenceLive'
  BY EvidenceTyped DEF EvidenceLive
<1>2. ClaimsEvidenced'
  BY EvidenceTyped DEF ClaimsEvidenced
<1>3. SentAnswered'
  BY EvidenceTyped DEF SentAnswered
<1>4. SendsEvidenced'
  BY EvidenceTyped DEF SendsEvidenced
<1>5. RowsAgree'
  <2> SUFFICES ASSUME NEW r \in Row PROVE RowAgrees(r)'
    BY DEF RowsAgree
  <2>1. RowAgrees(r)
    BY DEF RowsAgree
  <2>2. outbox[r].state = "absent" => NoneDelivered(r)
    BY DEF EvidenceLive, NoneDelivered
  <2> QED
    BY <2>1, <2>2 DEF RowAgrees, Says, NoneDelivered, Undelivered
<1> QED  BY <1>1, <1>2, <1>3, <1>4, <1>5

\* attempts' is attempts with the outcome of those in T rewritten to o, and
\* nothing else in them changed.
Same(a, b) == b.row = a.row /\ b.attempt = a.attempt /\ b.fence = a.fence

Relabels(T, o) ==
    /\ \A a \in attempts : \E b \in attempts' :
            Same(a, b) /\ b.outcome = IF a \in T THEN o ELSE a.outcome
    /\ \A b \in attempts' : \E a \in attempts :
            Same(a, b) /\ b.outcome = IF a \in T THEN o ELSE a.outcome

\* What the UPDATEs of the attempt table do.
LEMMA RelabelKeeps ==
    ASSUME OutboxTypeOK, NEW T \in SUBSET attempts, NEW o,
           attempts' = (attempts \ T) \cup {[a EXCEPT !.outcome = o] : a \in T}
    PROVE  Relabels(T, o)
<1> DEFINE relabel(a) == [a EXCEPT !.outcome = o]
<1>1. \A a \in T : /\ relabel(a).row = a.row /\ relabel(a).attempt = a.attempt
                   /\ relabel(a).fence = a.fence /\ relabel(a).outcome = o
  BY DEF OutboxTypeOK, AttemptRecord
<1>2. attempts' = (attempts \ T) \cup {relabel(a) : a \in T}
  OBVIOUS
<1> HIDE DEF relabel
<1> QED  BY <1>1, <1>2 DEF Relabels, Same

\* Closing open attempts as "unknown" takes no evidence away.
LEMMA ClosePreserves ==
    ASSUME OutboxTypeOK, EvidenceInv, outbox' = outbox, sent' = sent, holding' \subseteq holding,
           NEW T \in SUBSET attempts, \A a \in T : a.outcome = "claimed",
           Relabels(T, "unknown")
    PROVE  EvidenceInv'
<1> USE DEF EvidenceInv
<1>1. /\ \A a \in attempts : \E b \in attempts' : Same(a, b)
      /\ \A b \in attempts' : \E a \in attempts : Same(a, b)
  BY Zenon DEF Relabels
<1>2. EvidenceLive'
  BY <1>1 DEF EvidenceLive, Same
<1>3. ClaimsEvidenced'
  BY <1>1 DEF ClaimsEvidenced, Same
<1>4. SentAnswered'
  BY DEF SentAnswered
<1>5. SendsEvidenced'
  BY <1>1 DEF SendsEvidenced, Same
<1>6. RowsAgree'
  <2> SUFFICES ASSUME NEW r \in Row PROVE RowAgrees(r)'
    BY DEF RowsAgree
  <2>1. RowAgrees(r)
    BY DEF RowsAgree
  <2>2. Says(r, {"delivered"}) => Says(r, {"delivered"})'
    BY DEF Says, Relabels, Same
  <2>3. Says(r, {"permanent"}) => Says(r, {"permanent"})'
    BY DEF Says, Relabels, Same
  <2>4. Says(r, {"retryable", "unknown"}) => Says(r, {"retryable", "unknown"})'
    BY DEF Says, Relabels, Same
  <2>5. NoneDelivered(r) => NoneDelivered(r)'
    BY DEF NoneDelivered, Relabels, Same
  <2> QED  BY <2>1, <2>2, <2>3, <2>4, <2>5 DEF RowAgrees
<1> QED  BY <1>2, <1>3, <1>4, <1>5, <1>6

\* A deferral withdraws the attempt of a claim under whose fence nothing was
\* ever sent, and no other claim's.
LEMMA DeferPreserves ==
    ASSUME OutboxTypeOK, FenceInv, EvidenceInv, NEW c \in holding, DeferRow(c)
    PROVE  EvidenceInv'
<1> USE DEF EvidenceInv
<1> DEFINE W == {a \in AttemptOf(c) : a.outcome = "claimed"}
<1>1. /\ attempts' = attempts \ W /\ sent' = sent /\ holding' = holding \ {c}
      /\ c.stage = "defer"
  BY DEF DeferRow, Release
<1>2. \A a \in W : a \in attempts /\ a.row = c.row /\ a.fence = c.fence /\ a.outcome = "claimed"
  BY DEF AttemptOf
<1>3. \A r \in Row : \/ outbox'[r] = outbox[r]
                     \/ /\ outbox[r].state = "sending" /\ outbox'[r].state = "queued"
                        /\ outbox'[r].fence = outbox[r].fence
  <2>1. CASE ~ OwnedRow(c)
    BY <2>1 DEF DeferRow
  <2>2. CASE OwnedRow(c)
    <3>1. outbox[c.row].state = "sending" /\ c.row \in Row /\ outbox[c.row] \in RowRecord
      BY <2>2, EvidenceTyped DEF FenceInv, FenceHolds
    <3> DEFINE row == [outbox[c.row] EXCEPT
                          !.state = "queued", !.lease = NoLease,
                          !.next = moment + DeferDelay,
                          !.attempts = GivenBack(outbox[c.row].attempts, W)]
    <3>2. row.state = "queued" /\ row.fence = outbox[c.row].fence
      BY <3>1 DEF RowRecord
    <3>3. outbox' = [outbox EXCEPT ![c.row] = row]
      BY <2>2 DEF DeferRow
    <3> HIDE DEF row
    <3> QED  BY <3>1, <3>2, <3>3 DEF OutboxTypeOK
  <2> QED  BY <2>1, <2>2
<1>4. \A k \in holding' : k \in holding /\ (k.row = c.row => k.fence # c.fence)
  BY <1>1 DEF FenceInv, FenceHolds
<1>5. \A s \in sent : s.row = c.row => s.fence # c.fence
  BY <1>1 DEF SentAnswered
<1> HIDE DEF W
<1>6. EvidenceLive'
  BY <1>1, <1>3, EvidenceTyped DEF EvidenceLive
<1>7. ClaimsEvidenced'
  BY <1>1, <1>2, <1>3, <1>4, EvidenceTyped DEF ClaimsEvidenced
<1>8. SentAnswered'
  BY <1>1, <1>3, EvidenceTyped DEF SentAnswered
<1>9. SendsEvidenced'
  BY <1>1, <1>2, <1>3, <1>5, EvidenceTyped DEF SendsEvidenced
<1>10. RowsAgree'
  <2> SUFFICES ASSUME NEW r \in Row PROVE RowAgrees(r)'
    BY DEF RowsAgree
  <2>1. RowAgrees(r)
    BY DEF RowsAgree
  <2>2. outbox'[r] = outbox[r] \/ (outbox[r].state = "sending" /\ outbox'[r].state = "queued")
    BY <1>3
  <2>3. \A a \in attempts : a.outcome # "claimed" => a \in attempts'
    BY <1>1, <1>2
  <2>4. attempts' \subseteq attempts
    BY <1>1
  <2>5. CASE outbox'[r] = outbox[r]
    BY <2>1, <2>3, <2>4, <2>5 DEF RowAgrees, Says, NoneDelivered
  <2>6. CASE outbox[r].state = "sending" /\ outbox'[r].state = "queued"
    BY <2>1, <2>4, <2>6 DEF RowAgrees, NoneDelivered, Undelivered
  <2> QED  BY <2>2, <2>5, <2>6
<1> QED  BY <1>6, <1>7, <1>8, <1>9, <1>10

\* A claim opens new evidence under a fence nothing was sent under.
LEMMA ClaimDueEvidence ==
    ASSUME OutboxTypeOK, AttemptsCovered, EvidenceInv, NEW d \in Drain,
           NEW S \in SUBSET Row, NEW D \in SUBSET S, ClaimDue(d, S, D)
    PROVE  EvidenceInv'
<1> USE DEF EvidenceInv
<1> DEFINE row(r) == [row |-> r, attempt |-> NextAttempt(r),
                      fence |-> outbox[r].fence + 1, started |-> moment,
                      outcome |-> "claimed"]
           new(r) == [drain |-> d, row |-> r, fence |-> outbox[r].fence + 1,
                      attempt |-> NextAttempt(r), until |-> moment + LeaseTime,
                      stage |-> IF r \in D THEN "defer" ELSE "held",
                      outcome |-> NoOutcome]
<1>1. /\ attempts' = attempts \cup {row(r) : r \in S}
      /\ holding' = holding \cup {new(r) : r \in S}
      /\ sent' = sent
  BY DEF ClaimDue
<1>2. \A r \in Row : r \notin S => outbox'[r] = outbox[r]
  BY DEF ClaimDue
<1>3. \A r \in S : /\ outbox[r].state \in {"queued", "sending"}
                   /\ outbox'[r].state = "sending"
                   /\ outbox'[r].fence = outbox[r].fence + 1
  BY EvidenceTyped DEF ClaimDue, DueRow, RowRecord
<1>4. \A r \in S : /\ row(r).row = r /\ new(r).row = r
                   /\ row(r).attempt = new(r).attempt
                   /\ row(r).fence = outbox[r].fence + 1
                   /\ new(r).fence = outbox[r].fence + 1
                   /\ row(r).outcome = "claimed"
  OBVIOUS
<1> HIDE DEF row, new
<1>5. EvidenceLive'
  BY <1>1, <1>2, <1>3, <1>4, EvidenceTyped DEF EvidenceLive
<1>6. ClaimsEvidenced'
  BY <1>1, <1>2, <1>3, <1>4, EvidenceTyped DEF ClaimsEvidenced
<1>7. SentAnswered'
  BY <1>1, <1>2, <1>3, <1>4, EvidenceTyped DEF SentAnswered
<1>8. SendsEvidenced'
  BY <1>1, <1>2, <1>3, EvidenceTyped DEF SendsEvidenced
<1>9. RowsAgree'
  <2> SUFFICES ASSUME NEW r \in Row PROVE RowAgrees(r)'
    BY DEF RowsAgree
  <2>1. RowAgrees(r)
    BY DEF RowsAgree
  <2>2. attempts \subseteq attempts'
    BY <1>1
  <2>3. NoneDelivered(r) => NoneDelivered(r)'
    BY <1>1, <1>4 DEF NoneDelivered
  <2>4. CASE r \in S
    BY <1>3, <2>1, <2>3, <2>4 DEF RowAgrees, Undelivered
  <2>5. CASE r \notin S
    <3>1. outbox'[r] = outbox[r]
      BY <1>2, <2>5
    <3>2. \A O : Says(r, O) => Says(r, O)'
      BY <2>2, <3>1 DEF Says
    <3> QED  BY <2>1, <2>3, <3>1, <3>2 DEF RowAgrees
  <2> QED  BY <2>4, <2>5
<1> QED  BY <1>5, <1>6, <1>7, <1>8, <1>9

\* The provider call leaves its trace: the claim that made it has its answer,
\* and its attempt row is there.
LEMMA DeliverPreserves ==
    ASSUME OutboxTypeOK, FenceInv, EvidenceInv, NEW c \in holding,
           NEW o \in DeliveryOutcome, NEW out \in BOOLEAN, Deliver(c, o, out)
    PROVE  EvidenceInv'
<1> USE DEF EvidenceInv
<1> DEFINE k == [c EXCEPT !.stage = "answered", !.outcome = o]
           s == [row |-> c.row, attempt |-> c.attempt, fence |-> c.fence]
<1>1. /\ k.row = c.row /\ k.fence = c.fence /\ k.attempt = c.attempt
      /\ k.stage = "answered"
  BY EvidenceTyped DEF ClaimRecord
<1>2. s.row = c.row /\ s.attempt = c.attempt /\ s.fence = c.fence
  OBVIOUS
<1>3. /\ outbox' = outbox /\ attempts' = attempts
      /\ holding' = (holding \ {c}) \cup {k}
      /\ sent' = sent \/ sent' = sent \cup {s}
  BY DEF Deliver
<1>4. \A x \in holding \ {c} : x.row = c.row => x.fence # c.fence
  BY DEF FenceInv, FenceHolds
<1>5. outbox[c.row].state # "absent" /\ c.fence <= outbox[c.row].fence
  BY NoClaimOnAbsent DEF FenceInv, FenceBound
<1> HIDE DEF k, s
<1>6. EvidenceLive'
  BY <1>3 DEF EvidenceLive
<1>7. ClaimsEvidenced'
  BY <1>1, <1>3 DEF ClaimsEvidenced
<1>8. SentAnswered'
  BY <1>1, <1>2, <1>3, <1>4, <1>5 DEF SentAnswered
<1>9. SendsEvidenced'
  BY <1>2, <1>3 DEF SendsEvidenced, ClaimsEvidenced
<1>10. RowsAgree'
  BY <1>3 DEF RowsAgree, RowAgrees, Says, NoneDelivered
<1> QED  BY <1>6, <1>7, <1>8, <1>9, <1>10

\* Where recordOutcome sends a row follows from the outcome it writes.
LEMMA SettledFits ==
    ASSUME NEW row \in RowRecord, NEW c, NEW w,
           c.outcome \in DeliveryOutcome
    PROVE  LET s == Settled(row, c, w)
           IN /\ s.fence = row.fence /\ s.attempts = row.attempts
              /\ s.state \in {"delivered", "failed", "dead_letter", "expired", "queued"}
              /\ s.state = "delivered" <=> c.outcome = "delivered"
              /\ s.state = "failed" => c.outcome = "permanent"
              /\ s.state = "dead_letter" => /\ c.outcome \in {"retryable", "unknown"}
                                            /\ c.attempt >= MaxAttempts
BY DEF Settled, RowRecord, DeliveryOutcome

\* The owner's record: the row and its evidence are written together.
LEMMA RecordPreserves ==
    ASSUME OutboxTypeOK, FenceInv, EvidenceInv, NEW c \in holding,
           NEW w \in 0 .. 2 * BackoffCeiling + RetryAfterCap, RecordOutcome(c, w)
    PROVE  EvidenceInv'
<1> USE DEF EvidenceInv
<1>1. /\ c.row \in Row /\ outbox[c.row] \in RowRecord
      /\ outbox[c.row].state = "sending" /\ outbox[c.row].attempts = c.attempt
      /\ outbox[c.row].fence = c.fence
  BY EvidenceTyped DEF RecordOutcome, FenceInv, FenceHolds, OwnedRow
<1>2. c.outcome \in DeliveryOutcome
  BY EvidenceTyped DEF RecordOutcome, OutboxTypeOK, ClaimRecord
<1>3. PICK s : s = Settled(outbox[c.row], c, w)
  OBVIOUS
<1>4. /\ s.fence = c.fence /\ s.attempts = c.attempt
      /\ s.state \in {"delivered", "failed", "dead_letter", "expired", "queued"}
      /\ s.state = "delivered" <=> c.outcome = "delivered"
      /\ s.state = "failed" => c.outcome = "permanent"
      /\ s.state = "dead_letter" => /\ c.outcome \in {"retryable", "unknown"}
                                    /\ c.attempt >= MaxAttempts
  BY <1>1, <1>2, <1>3, SettledFits
<1>5. outbox'[c.row] = s /\ \A r \in Row : r # c.row => outbox'[r] = outbox[r]
  BY <1>1, <1>3 DEF RecordOutcome, OutboxTypeOK
<1>6. /\ sent' = sent /\ holding' \subseteq holding
      /\ AttemptOf(c) \in SUBSET attempts
      /\ attempts' = (attempts \ AttemptOf(c)) \cup
                     {[a EXCEPT !.outcome = c.outcome] : a \in AttemptOf(c)}
  BY DEF RecordOutcome, Release, AttemptOf
<1>7. Relabels(AttemptOf(c), c.outcome)
  BY <1>6, RelabelKeeps
<1>8. /\ \A a \in attempts : \E b \in attempts' : Same(a, b)
      /\ \A b \in attempts' : \E a \in attempts : Same(a, b)
  BY <1>7, Zenon DEF Relabels
<1>9. EvidenceLive'
  BY <1>4, <1>5, <1>8, EvidenceTyped DEF EvidenceLive, Same
<1>a. /\ sent' = sent /\ holding' \subseteq holding
      /\ \A r \in Row : outbox[r].state = "pruned" => outbox'[r].state = "pruned"
      /\ \A k \in holding : k.row \in Row
      /\ \A x \in sent : x.row \in Row
  BY <1>1, <1>5, <1>6, EvidenceTyped
<1>10. ClaimsEvidenced'
  BY <1>8, <1>a DEF ClaimsEvidenced, Same
<1>11. SentAnswered'
  BY <1>1, <1>4, <1>5, <1>6, EvidenceTyped DEF SentAnswered
<1>12. SendsEvidenced'
  BY <1>8, <1>a DEF SendsEvidenced, Same
<1>13. RowsAgree'
  <2> SUFFICES ASSUME NEW r \in Row PROVE RowAgrees(r)'
    BY DEF RowsAgree
  <2>1. RowAgrees(r)
    BY DEF RowsAgree
  <2>2. CASE r # c.row
    <3>1. outbox'[r] = outbox[r]
      BY <1>5, <2>2
    <3>2. \A a \in AttemptOf(c) : a.row # r
      BY <2>2 DEF AttemptOf
    <3>3. \A O : Says(r, O) => Says(r, O)'
      BY <1>7, <3>1, <3>2 DEF Says, Relabels, Same
    <3>4. NoneDelivered(r) => NoneDelivered(r)'
      BY <1>7, <3>2 DEF NoneDelivered, Relabels, Same
    <3> QED  BY <2>1, <3>1, <3>3, <3>4 DEF RowAgrees
  <2>3. CASE r = c.row
    <3>1. PICK a \in attempts : a \in AttemptOf(c)
      BY <1>1 DEF ClaimsEvidenced, AttemptOf
    <3>2. PICK b \in attempts' : Same(a, b) /\ b.outcome = c.outcome
      BY <1>7, <3>1 DEF Relabels
    <3>3. \A O : c.outcome \in O => Says(r, O)'
      BY <1>4, <1>5, <2>3, <3>1, <3>2 DEF Says, Same, AttemptOf
    <3>4. c.outcome # "delivered" => NoneDelivered(r)'
      BY <1>1, <1>7, <2>1, <2>3 DEF RowAgrees, Undelivered, NoneDelivered, Relabels, Same
    <3> QED
      BY <1>4, <1>5, <2>3, <3>3, <3>4 DEF RowAgrees, Undelivered
  <2> QED  BY <2>2, <2>3
<1> QED  BY <1>9, <1>10, <1>11, <1>12, <1>13

\* Retention takes a delivery and its evidence together.
LEMMA PruneEvidence ==
    ASSUME OutboxTypeOK, EvidenceInv, PruneNotificationHistory
    PROVE  EvidenceInv'
<1> USE DEF EvidenceInv
<1> DEFINE old == {r \in Row : /\ outbox[r].state \in Terminal
                               /\ outbox[r].expires + Retention < moment + Horizon}
<1>1. old \in SUBSET Row
  OBVIOUS
<1>2. /\ attempts' = {a \in attempts : a.row \notin old}
      /\ sent' = sent /\ holding' = holding
      /\ outbox' = [r \in Row |-> IF r \in old
                                  THEN [outbox[r] EXCEPT !.state = "pruned"]
                                  ELSE outbox[r]]
  BY DEF PruneNotificationHistory
<1> HIDE DEF old
<1>3. /\ \A r \in Row \ old : outbox'[r] = outbox[r]
      /\ \A r \in old : /\ outbox'[r].state = "pruned"
                        /\ outbox'[r].fence = outbox[r].fence
  BY <1>1, <1>2, EvidenceTyped DEF RowRecord
<1>4. EvidenceLive'
  BY <1>1, <1>2, <1>3, EvidenceTyped DEF EvidenceLive
<1>5. ClaimsEvidenced'
  BY <1>1, <1>2, <1>3, EvidenceTyped DEF ClaimsEvidenced
<1>6. SentAnswered'
  BY <1>1, <1>2, <1>3, EvidenceTyped DEF SentAnswered
<1>7. SendsEvidenced'
  BY <1>1, <1>2, <1>3, EvidenceTyped DEF SendsEvidenced
<1>8. RowsAgree'
  <2> SUFFICES ASSUME NEW r \in Row PROVE RowAgrees(r)'
    BY DEF RowsAgree
  <2>1. RowAgrees(r)
    BY DEF RowsAgree
  <2>2. CASE r \in old
    BY <1>3, <2>2 DEF RowAgrees, Undelivered
  <2>3. CASE r \notin old
    <3>1. outbox'[r] = outbox[r] /\ \A a \in attempts : a.row = r => a \in attempts'
      BY <1>2, <1>3, <2>3
    <3>2. \A O : Says(r, O) => Says(r, O)'
      BY <3>1 DEF Says
    <3>3. NoneDelivered(r) => NoneDelivered(r)'
      BY <1>2 DEF NoneDelivered
    <3> QED  BY <2>1, <3>1, <3>2, <3>3 DEF RowAgrees
  <2> QED  BY <2>2, <2>3
<1> QED  BY <1>4, <1>5, <1>6, <1>7, <1>8

\* Every step keeps the evidence.
LEMMA EvidenceInductive ==
    OutboxTypeOK /\ AttemptsCovered /\ FenceInv /\ EvidenceInv /\ [OutboxNext]_outboxVars
        => EvidenceInv'
<1> SUFFICES ASSUME OutboxTypeOK, AttemptsCovered, FenceInv, EvidenceInv, [OutboxNext]_outboxVars
             PROVE  EvidenceInv'
  OBVIOUS
<1>a. ASSUME NEW r \in Row, outbox[r].state = "absent", attempts' = attempts,
             sent' = sent, holding' = holding, outbox' = [outbox EXCEPT ![r] = Queued]
      PROVE  EvidenceInv'
  <2>1. /\ outbox'[r].state = "queued"
        /\ \A q \in Row : q # r => outbox'[q] = outbox[q]
    BY <1>a DEF Queued, OutboxTypeOK
  <2> QED  BY <1>a, <2>1, QuietPreserves
<1>b. ASSUME outbox' = outbox, attempts' = attempts, sent' = sent, holding' \subseteq holding
      PROVE  EvidenceInv'
  BY <1>b, QuietPreserves
<1>1. ASSUME NEW r \in Row, Enqueue(r) PROVE EvidenceInv'
  BY <1>1, <1>a DEF Enqueue
<1>2. ASSUME NEW original \in Row, NEW copy \in Row, ReplayDelivery(original, copy)
      PROVE EvidenceInv'
  BY <1>2, <1>a DEF ReplayDelivery
<1>3. ASSUME NEW d \in Drain, ExpireOverdueSelect(d) PROVE EvidenceInv'
  BY <1>3, <1>b DEF ExpireOverdueSelect
<1>4. ASSUME NEW d \in Drain, ExpireOverdueUpdate(d) PROVE EvidenceInv'
  <2>1. /\ attempts' = attempts /\ sent' = sent /\ holding' = holding
        /\ \A r \in Row : \/ outbox'[r] = outbox[r]
                          \/ /\ outbox'[r].state = "expired"
                             /\ outbox'[r].fence = outbox[r].fence + 1
                             /\ outbox[r].state # "pruned"
    BY <1>4, EvidenceTyped DEF ExpireOverdueUpdate, RowRecord
  <2> QED  BY <2>1, QuietPreserves
<1>5. ASSUME NEW d \in Drain, NEW S \in SUBSET Row, NEW D \in SUBSET S,
             ClaimDue(d, S, D)
      PROVE EvidenceInv'
  BY <1>5, ClaimDueEvidence
<1>6. ASSUME NEW c \in holding, ClaimStep(c) PROVE EvidenceInv'
  <2>1. c \in ClaimRecord /\ c.row \in Row /\ outbox[c.row] \in RowRecord
    BY EvidenceTyped
  <2>2. CASE DeferRow(c)
    BY <2>2, DeferPreserves
  <2>3. CASE RenewLease(c)
    <3> DEFINE k == [c EXCEPT !.stage = "renewed", !.until = moment + LeaseTime]
    <3>1. k.row = c.row /\ k.attempt = c.attempt /\ k.fence = c.fence
      BY <2>1 DEF ClaimRecord
    <3>2. /\ attempts' = attempts /\ sent' = sent /\ holding' = (holding \ {c}) \cup {k}
          /\ c.stage = "held"
      BY <2>3 DEF RenewLease
    <3>3. \A r \in Row : /\ outbox'[r].state = outbox[r].state
                         /\ outbox'[r].fence = outbox[r].fence
                         /\ outbox'[r].attempts = outbox[r].attempts
      BY <2>1, <2>3 DEF RenewLease, OutboxTypeOK, RowRecord
    <3> HIDE DEF k
    <3> QED  BY <3>1, <3>2, <3>3, QuietPreserves
  <2>4. CASE LeaseLost(c)
    BY <1>b, <2>4 DEF LeaseLost, Release
  <2>5. CASE RenewThrows(c)
    <3> DEFINE k == [c EXCEPT !.stage = "answered", !.outcome = "unknown"]
    <3>1. /\ k.row = c.row /\ k.attempt = c.attempt /\ k.fence = c.fence
          /\ k.stage = "answered"
      BY <2>1 DEF ClaimRecord
    <3>2. /\ attempts' = attempts /\ sent' = sent /\ outbox' = outbox
          /\ holding' = (holding \ {c}) \cup {k}
      BY <2>5 DEF RenewThrows
    <3> HIDE DEF k
    <3> QED  BY <3>1, <3>2, QuietPreserves
  <2>6. ASSUME NEW o \in DeliveryOutcome, NEW out \in BOOLEAN, Deliver(c, o, out)
        PROVE EvidenceInv'
    BY <2>6, DeliverPreserves
  <2>7. ASSUME NEW w \in 0 .. 2 * BackoffCeiling + RetryAfterCap, RecordOutcome(c, w)
        PROVE EvidenceInv'
    BY <2>7, RecordPreserves
  <2>8. CASE RecordSuperseded(c)
    <3> DEFINE T == {a \in AttemptOf(c) : a.outcome = "claimed"}
    <3>1. /\ T \in SUBSET attempts /\ \A a \in T : a.outcome = "claimed"
          /\ attempts' = (attempts \ T) \cup {[a EXCEPT !.outcome = "unknown"] : a \in T}
          /\ outbox' = outbox /\ sent' = sent /\ holding' \subseteq holding
      BY <2>8 DEF RecordSuperseded, Release, AttemptOf
    <3> HIDE DEF T
    <3>2. Relabels(T, "unknown")
      BY <3>1, RelabelKeeps
    <3> QED  BY <3>1, <3>2, ClosePreserves
  <2> QED  BY <1>6, <2>2, <2>3, <2>4, <2>5, <2>6, <2>7, <2>8 DEF ClaimStep
<1>7. CASE SweepStaleAttempts
  <2> DEFINE T == {a \in attempts : Stale(a)}
  <2>1. /\ T \in SUBSET attempts /\ \A a \in T : a.outcome = "claimed"
        /\ attempts' = (attempts \ T) \cup {[a EXCEPT !.outcome = "unknown"] : a \in T}
        /\ outbox' = outbox /\ sent' = sent /\ holding' \subseteq holding
    BY <1>7 DEF SweepStaleAttempts, Stale
  <2> HIDE DEF T
  <2>2. Relabels(T, "unknown")
    BY <2>1, RelabelKeeps
  <2> QED  BY <2>1, <2>2, ClosePreserves
<1>8. CASE PruneNotificationHistory
  BY <1>8, PruneEvidence
<1>9. ASSUME NEW d \in Drain, DrainDies(d) PROVE EvidenceInv'
  BY <1>9, <1>b DEF DrainDies
<1>10. CASE TimePasses
  BY <1>10, <1>b DEF TimePasses
<1>11. CASE UNCHANGED outboxVars
  BY <1>11, <1>b DEF outboxVars
<1> QED
  BY <1>1, <1>2, <1>3, <1>4, <1>5, <1>6, <1>7, <1>8, <1>9, <1>10, <1>11
     DEF OutboxNext, DrainStep, Retain

-----------------------------------------------------------------------------
\* The inductive invariant holds throughout.
THEOREM OutboxInvariant == OutboxSpec => []IInv
<1>1. OutboxInit => IInv
  BY OutboxConstants
     DEF OutboxInit, IInv, OutboxTypeOK, AttemptsCovered, FenceInv, AbsentBlank, FenceBound,
         FenceHolds, LeaseTrust, LeaseExclusive, AbsentRow, RowRecord, RowState,
         NoLease, Phase
<1>2. IInv /\ [OutboxNext]_outboxVars => IInv'
  BY TypeInductive, AttemptsInductive, FenceInductive DEF IInv
<1> QED  BY <1>1, <1>2, PTL DEF OutboxSpec

\* Types are kept.
THEOREM OutboxTypeCorrect == OutboxSpec => []OutboxTypeOK
BY OutboxInvariant, PTL DEF IInv

\* Every fenced write (renewLease, recordOutcome, deferRow) comes from the one
\* claim the row is being sent under, with the attempt number and the lease the
\* row shows.
THEOREM FenceSafe == OutboxSpec => []FenceHolds
BY OutboxInvariant, PTL DEF IInv, FenceInv

\* No two drains are inside a lease on the same delivery.
THEOREM LeaseSafe == OutboxSpec => []LeaseExclusive
BY OutboxInvariant, PTL DEF IInv, FenceInv

\* The attempt counter covers the attempt table and numbers are never reused.
THEOREM CounterSafe == OutboxSpec => []AttemptsCovered
BY OutboxInvariant, PTL DEF IInv

\* The inductive invariant of the evidence, on top of the fence's.
THEOREM EvidenceInvariant == OutboxSpec => []EvidenceInv
<1>1. OutboxInit => EvidenceInv
  BY DEF OutboxInit, EvidenceInv, EvidenceLive, ClaimsEvidenced, SentAnswered, SendsEvidenced,
         RowsAgree, RowAgrees, NoneDelivered, Undelivered, AbsentRow
<1>2. IInv /\ EvidenceInv /\ [OutboxNext]_outboxVars => EvidenceInv'
  BY EvidenceInductive DEF IInv
<1> QED  BY <1>1, <1>2, OutboxInvariant, PTL DEF OutboxSpec

\* Every provider call has its attempt row until retention takes the delivery:
\* no deferral, late answer, sweep or crash leaves a send without evidence.
THEOREM SendsSafe == OutboxSpec => []SendsEvidenced
BY EvidenceInvariant, PTL DEF EvidenceInv

\* A row's state and its latest attempt tell the same story, for any number of
\* drains answering late under fences that have moved.
THEOREM OutcomeSafe == OutboxSpec => []OutcomeEvidenced
<1>1. EvidenceInv => OutcomeEvidenced
  BY AgreementIsEvidence DEF EvidenceInv
<1> QED  BY <1>1, EvidenceInvariant, PTL

\* A settled delivery is never revived, by any late writer.
THEOREM NoRevival == OutboxSpec => NeverRevived
<1> DEFINE Kept == \A r \in Row : outbox[r].state \in Terminal =>
                      \/ outbox'[r] = outbox[r]
                      \/ outbox'[r].state \in {"expired", "pruned"}
<1>1. IInv /\ [OutboxNext]_outboxVars => Kept \/ UNCHANGED outboxVars
  <2> SUFFICES ASSUME IInv, OutboxNext, NEW r \in Row, outbox[r].state \in Terminal
               PROVE  \/ outbox'[r] = outbox[r]
                      \/ outbox'[r].state \in {"expired", "pruned"}
    OBVIOUS
  <2> USE DEF IInv, FenceInv
  <2>1. ASSUME NEW q \in Row, Enqueue(q) \/ \E p \in Row : ReplayDelivery(p, q)
        PROVE  outbox'[r] = outbox[r]
    BY <2>1 DEF Enqueue, ReplayDelivery, OutboxTypeOK, Terminal
  <2>2. ASSUME NEW d \in Drain, DrainStep(d) \/ DrainDies(d)
        PROVE  outbox'[r] = outbox[r] \/ outbox'[r].state = "expired"
    <3>1. CASE ExpireOverdueUpdate(d)
      BY <3>1 DEF ExpireOverdueUpdate, OutboxTypeOK, RowRecord
    <3>2. ASSUME NEW S \in SUBSET Row, NEW D \in SUBSET S, ClaimDue(d, S, D)
          PROVE  outbox'[r] = outbox[r]
      BY <3>2 DEF ClaimDue, DueRow, Terminal
    <3> QED  BY <2>2, <3>1, <3>2 DEF DrainStep, ExpireOverdueSelect, DrainDies
  <2>3. ASSUME NEW c \in holding, ClaimStep(c) PROVE outbox'[r] = outbox[r]
    <3>1. OwnedRow(c) => r # c.row
      BY DEF FenceHolds, Terminal
    <3> QED
      BY <2>3, <3>1 DEF ClaimStep, DeferRow, RenewLease, LeaseLost, RenewThrows,
                        Deliver, RecordOutcome, RecordSuperseded, OutboxTypeOK
  <2>4. CASE Retain
    BY <2>4 DEF Retain, SweepStaleAttempts, PruneNotificationHistory, OutboxTypeOK, RowRecord
  <2> QED  BY <2>1, <2>2, <2>3, <2>4 DEF OutboxNext, TimePasses
<1>2. IInv /\ [OutboxNext]_outboxVars => [Kept]_outboxVars
  BY <1>1
<1>3. NeverRevived <=> [][Kept]_outboxVars
  BY DEF NeverRevived
<1> QED  BY <1>2, <1>3, OutboxInvariant, PTL DEF OutboxSpec
=============================================================================
