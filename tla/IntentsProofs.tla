--------------------------- MODULE IntentsProofs ----------------------------
(***************************************************************************)
(* Dispatch intents for any number of causes, recipients, sweepers, throws *)
(* and crashes: a cause is fanned out as a whole and once, it is retired   *)
(* only when its attempts were really spent, and the sweepers implement    *)
(* what IntentPromise promises (its safety part; that the promise is kept  *)
(* in the end stays with TLC).                                             *)
(***************************************************************************)
EXTENDS Intents, TLAPS

\* Sweeper w is inside expandOne's transaction and holds the row's lock.
Expanding(w) == job[w] # NoJob /\ job[w].stage = "expanding"

\* Sweeper w's expansion threw and it has still to record that.
Threw(w) == job[w] # NoJob /\ job[w].stage = "threw"

\* The lock: while expandOne holds a row, it is alone and the row is pending.
LockHeld ==
    /\ \A w \in Sweeper : Expanding(w) => intent[job[w].cause].state = "pending"
    /\ \A v, w \in Sweeper :
          Expanding(v) /\ Expanding(w) /\ job[v].cause = job[w].cause => v = w

\* A sweeper only ever works on causes that were recorded.
OnlyRecorded ==
    \A w \in Sweeper :
        /\ \A i \in due[w] : intent[i.cause].state # "none"
        /\ job[w] # NoJob => intent[job[w].cause].state # "none"

\* No counter, stored, read or about to be written, is ahead of the throws.
ThrowsCounted ==
    /\ \A c \in Cause : intent[c].attempts <= throws[c]
    /\ \A w \in Sweeper :
          /\ \A i \in due[w] : i.attempts <= throws[i.cause]
          /\ Expanding(w) => job[w].attempts <= throws[job[w].cause]
          /\ Threw(w) => job[w].attempts + 1 <= throws[job[w].cause]

\* Nothing was written for a cause whose expansion never committed.
NothingWritten ==
    \A c \in Cause : expansions[c] = 0 => wrote[c] = {}

\* The outbox holds a cause's row exactly for those the expansion wrote.
RowsWritten ==
    \A c \in Cause, x \in Recipient : Row(c, x) \in outbox <=> x \in wrote[c]

\* How often a cause was expanded, by the state of its row.
Expansions ==
    \A c \in Cause :
        /\ expansions[c] <= 1
        /\ intent[c].state \in {"none", "pending"} => expansions[c] = 0
        /\ intent[c].state \in {"expanded", "pruned"} => expansions[c] = 1

\* The inductive invariant.
IntentInv ==
    /\ TypeOK
    /\ LockHeld
    /\ OnlyRecorded
    /\ ThrowsCounted
    /\ NothingWritten
    /\ RowsWritten
    /\ Expansions
    /\ RetiredAfterBudget

-----------------------------------------------------------------------------
\* The invariant holds before the first intent.
LEMMA InitInv == Init => IntentInv
<1> SUFFICES ASSUME Init PROVE IntentInv
  OBVIOUS
<1> USE IntentConstants DEF Init
<1>1. TypeOK
  BY DEF TypeOK, IntentState
<1>2. LockHeld /\ OnlyRecorded
  BY DEF LockHeld, OnlyRecorded, Expanding
<1>3. ThrowsCounted
  BY DEF ThrowsCounted, Expanding, Threw
<1>4. NothingWritten /\ RowsWritten /\ Expansions /\ RetiredAfterBudget
  BY DEF NothingWritten, RowsWritten, Expansions, RetiredAfterBudget
<1> QED  BY <1>1, <1>2, <1>3, <1>4 DEF IntentInv

\* Every step keeps the shape of the rows and of the sweepers' memory.
LEMMA TypeInductive ==
    ASSUME TypeOK, [Next]_vars
    PROVE  TypeOK'
<1> USE IntentConstants DEF TypeOK, IntentState, Read, Job
<1>1. ASSUME NEW c \in Cause, RecordDispatchIntent(c) PROVE TypeOK'
  BY <1>1 DEF RecordDispatchIntent
<1>2. ASSUME NEW c \in Cause, PruneExpandedIntent(c) PROVE TypeOK'
  BY <1>2 DEF PruneExpandedIntent
<1>3. ASSUME NEW x \in Recipient, ChangeAudience(x) PROVE TypeOK'
  BY <1>3 DEF ChangeAudience
<1>4. ASSUME NEW w \in Sweeper, ReadPending(w) PROVE TypeOK'
  BY <1>4 DEF ReadPending, Pending
<1>5. ASSUME NEW w \in Sweeper, NEW i \in due[w], BeginExpand(w, i)
      PROVE  TypeOK'
  BY <1>5 DEF BeginExpand
<1>6. ASSUME NEW w \in Sweeper, NEW i \in due[w], SkipExpand(w, i)
      PROVE  TypeOK'
  BY <1>6 DEF SkipExpand
<1>7. ASSUME NEW w \in Sweeper, NEW i \in due[w], ThrowEarly(w, i)
      PROVE  TypeOK'
  BY <1>7 DEF ThrowEarly
<1>8. ASSUME NEW w \in Sweeper, CommitExpand(w) PROVE TypeOK'
  <2>1. job[w] \in Job /\ job[w].cause \in Cause
    BY <1>8 DEF CommitExpand
  <2>2. ExpandPayload(job[w].cause) \subseteq [cause : Cause, to : Recipient]
    BY <2>1 DEF ExpandPayload, ChannelRows, MemberRows, SubscriberRows, Row, Recipient
  <2> QED  BY <1>8, <2>1, <2>2 DEF CommitExpand
<1>9. ASSUME NEW w \in Sweeper, ThrowExpand(w) PROVE TypeOK'
  BY <1>9 DEF ThrowExpand
<1>10. ASSUME NEW w \in Sweeper, RecordExpansionFailure(w) PROVE TypeOK'
  BY <1>10 DEF RecordExpansionFailure, Retired, Refused
<1>11. ASSUME NEW w \in Sweeper, BookkeepingFails(w) PROVE TypeOK'
  BY <1>11 DEF BookkeepingFails
<1>12. ASSUME NEW w \in Sweeper, Crash(w) PROVE TypeOK'
  BY <1>12 DEF Crash
<1>13. CASE UNCHANGED vars
  BY <1>13 DEF vars
<1> QED
  BY <1>1, <1>2, <1>3, <1>4, <1>5, <1>6, <1>7, <1>8, <1>9, <1>10, <1>11, <1>12, <1>13 DEF Next, SweeperStep

\* The lock of expandOne excludes a second holder and every other write to the row.
LEMMA LockInductive ==
    ASSUME TypeOK, LockHeld, [Next]_vars
    PROVE  LockHeld'
<1> USE DEF TypeOK, LockHeld, Expanding
<1>1. ASSUME NEW c \in Cause, RecordDispatchIntent(c) PROVE LockHeld'
  BY <1>1 DEF RecordDispatchIntent
<1>2. ASSUME NEW c \in Cause, PruneExpandedIntent(c) PROVE LockHeld'
  BY <1>2 DEF PruneExpandedIntent, Locked
<1>3. ASSUME NEW x \in Recipient, ChangeAudience(x) PROVE LockHeld'
  BY <1>3 DEF ChangeAudience
<1>4. ASSUME NEW w \in Sweeper, ReadPending(w) PROVE LockHeld'
  BY <1>4 DEF ReadPending
<1>5. ASSUME NEW w \in Sweeper, NEW i \in due[w], BeginExpand(w, i)
      PROVE  LockHeld'
  BY <1>5 DEF BeginExpand, Expandable, Locked, Read
<1>6. ASSUME NEW w \in Sweeper, NEW i \in due[w], SkipExpand(w, i)
      PROVE  LockHeld'
  BY <1>6 DEF SkipExpand
<1>7. ASSUME NEW w \in Sweeper, NEW i \in due[w], ThrowEarly(w, i)
      PROVE  LockHeld'
  BY <1>7 DEF ThrowEarly, Read
<1>8. ASSUME NEW w \in Sweeper, CommitExpand(w) PROVE LockHeld'
  BY <1>8 DEF CommitExpand
<1>9. ASSUME NEW w \in Sweeper, ThrowExpand(w) PROVE LockHeld'
  BY <1>9 DEF ThrowExpand
<1>10. ASSUME NEW w \in Sweeper, RecordExpansionFailure(w) PROVE LockHeld'
  BY <1>10 DEF RecordExpansionFailure, Locked, Retired
<1>11. ASSUME NEW w \in Sweeper, BookkeepingFails(w) PROVE LockHeld'
  BY <1>11 DEF BookkeepingFails
<1>12. ASSUME NEW w \in Sweeper, Crash(w) PROVE LockHeld'
  BY <1>12 DEF Crash
<1>13. CASE UNCHANGED vars
  BY <1>13 DEF vars
<1> QED
  BY <1>1, <1>2, <1>3, <1>4, <1>5, <1>6, <1>7, <1>8, <1>9, <1>10, <1>11, <1>12, <1>13 DEF Next, SweeperStep

\* A cause that was read stays recorded.
LEMMA RecordedInductive ==
    ASSUME TypeOK, OnlyRecorded, [Next]_vars
    PROVE  OnlyRecorded'
<1> USE DEF TypeOK, OnlyRecorded
<1>1. ASSUME NEW c \in Cause, RecordDispatchIntent(c) PROVE OnlyRecorded'
  BY <1>1 DEF RecordDispatchIntent
<1>2. ASSUME NEW c \in Cause, PruneExpandedIntent(c) PROVE OnlyRecorded'
  BY <1>2 DEF PruneExpandedIntent
<1>3. ASSUME NEW x \in Recipient, ChangeAudience(x) PROVE OnlyRecorded'
  BY <1>3 DEF ChangeAudience
<1>4. ASSUME NEW w \in Sweeper, ReadPending(w) PROVE OnlyRecorded'
  BY <1>4 DEF ReadPending, Pending
<1>5. ASSUME NEW w \in Sweeper, NEW i \in due[w], BeginExpand(w, i)
      PROVE  OnlyRecorded'
  BY <1>5 DEF BeginExpand, Read
<1>6. ASSUME NEW w \in Sweeper, NEW i \in due[w], SkipExpand(w, i)
      PROVE  OnlyRecorded'
  BY <1>6 DEF SkipExpand
<1>7. ASSUME NEW w \in Sweeper, NEW i \in due[w], ThrowEarly(w, i)
      PROVE  OnlyRecorded'
  BY <1>7 DEF ThrowEarly, Read
<1>8. ASSUME NEW w \in Sweeper, CommitExpand(w) PROVE OnlyRecorded'
  BY <1>8 DEF CommitExpand
<1>9. ASSUME NEW w \in Sweeper, ThrowExpand(w) PROVE OnlyRecorded'
  BY <1>9 DEF ThrowExpand
<1>10. ASSUME NEW w \in Sweeper, RecordExpansionFailure(w) PROVE OnlyRecorded'
  BY <1>10 DEF RecordExpansionFailure, Retired
<1>11. ASSUME NEW w \in Sweeper, BookkeepingFails(w) PROVE OnlyRecorded'
  BY <1>11 DEF BookkeepingFails
<1>12. ASSUME NEW w \in Sweeper, Crash(w) PROVE OnlyRecorded'
  BY <1>12 DEF Crash
<1>13. CASE UNCHANGED vars
  BY <1>13 DEF vars
<1> QED
  BY <1>1, <1>2, <1>3, <1>4, <1>5, <1>6, <1>7, <1>8, <1>9, <1>10, <1>11, <1>12, <1>13 DEF Next, SweeperStep

\* The counter a sweeper writes, from however old a read, is covered by throws.
LEMMA CountedInductive ==
    ASSUME TypeOK, ThrowsCounted, [Next]_vars
    PROVE  ThrowsCounted'
<1> USE DEF TypeOK, ThrowsCounted, Expanding, Threw, Read, Job
<1>1. ASSUME NEW c \in Cause, RecordDispatchIntent(c) PROVE ThrowsCounted'
  BY <1>1 DEF RecordDispatchIntent
<1>2. ASSUME NEW c \in Cause, PruneExpandedIntent(c) PROVE ThrowsCounted'
  BY <1>2 DEF PruneExpandedIntent
<1>3. ASSUME NEW x \in Recipient, ChangeAudience(x) PROVE ThrowsCounted'
  BY <1>3 DEF ChangeAudience
<1>4. ASSUME NEW w \in Sweeper, ReadPending(w) PROVE ThrowsCounted'
  BY <1>4 DEF ReadPending
<1>5. ASSUME NEW w \in Sweeper, NEW i \in due[w], BeginExpand(w, i)
      PROVE  ThrowsCounted'
  BY <1>5 DEF BeginExpand
<1>6. ASSUME NEW w \in Sweeper, NEW i \in due[w], SkipExpand(w, i)
      PROVE  ThrowsCounted'
  BY <1>6 DEF SkipExpand
<1>7. ASSUME NEW w \in Sweeper, NEW i \in due[w], ThrowEarly(w, i)
      PROVE  ThrowsCounted'
  BY <1>7 DEF ThrowEarly
<1>8. ASSUME NEW w \in Sweeper, CommitExpand(w) PROVE ThrowsCounted'
  BY <1>8 DEF CommitExpand
<1>9. ASSUME NEW w \in Sweeper, ThrowExpand(w) PROVE ThrowsCounted'
  BY <1>9 DEF ThrowExpand
<1>10. ASSUME NEW w \in Sweeper, RecordExpansionFailure(w)
      PROVE  ThrowsCounted'
  BY <1>10 DEF RecordExpansionFailure, Retired
<1>11. ASSUME NEW w \in Sweeper, BookkeepingFails(w) PROVE ThrowsCounted'
  BY <1>11 DEF BookkeepingFails
<1>12. ASSUME NEW w \in Sweeper, Crash(w) PROVE ThrowsCounted'
  BY <1>12 DEF Crash
<1>13. CASE UNCHANGED vars
  BY <1>13 DEF vars
<1> QED
  BY <1>1, <1>2, <1>3, <1>4, <1>5, <1>6, <1>7, <1>8, <1>9, <1>10, <1>11, <1>12, <1>13 DEF Next, SweeperStep

\* expandPayload queues a row for everyone in the audience and nobody else.
LEMMA PayloadRows ==
    ASSUME NEW c \in Cause, NEW d \in Cause, NEW x \in Recipient
    PROVE  Row(c, x) \in ExpandPayload(d) <=> c = d /\ x \in audience
<1>1. \A y : Row(c, x) = Row(d, y) <=> c = d /\ x = y
  BY DEF Row
<1>2. x \in audience <=> \/ x \in audience \cap Channel
                         \/ x \in audience \cap Member
                         \/ x \in audience \cap Subscriber
  BY DEF Recipient
<1> QED  BY <1>1, <1>2 DEF ExpandPayload, ChannelRows, MemberRows, SubscriberRows

\* An expansion writes its rows and its history together, from a cause with none.
LEMMA WrittenInductive ==
    ASSUME TypeOK, LockHeld, NothingWritten, RowsWritten, Expansions, [Next]_vars
    PROVE  (NothingWritten /\ RowsWritten)'
<1> USE DEF TypeOK, NothingWritten, RowsWritten
<1>1. ASSUME NEW c \in Cause, RecordDispatchIntent(c)
      PROVE  (NothingWritten /\ RowsWritten)'
  BY <1>1 DEF RecordDispatchIntent
<1>2. ASSUME NEW c \in Cause, PruneExpandedIntent(c)
      PROVE  (NothingWritten /\ RowsWritten)'
  BY <1>2 DEF PruneExpandedIntent
<1>3. ASSUME NEW x \in Recipient, ChangeAudience(x)
      PROVE  (NothingWritten /\ RowsWritten)'
  BY <1>3 DEF ChangeAudience
<1>4. ASSUME NEW w \in Sweeper, ReadPending(w)
      PROVE  (NothingWritten /\ RowsWritten)'
  BY <1>4 DEF ReadPending
<1>5. ASSUME NEW w \in Sweeper, NEW i \in due[w], BeginExpand(w, i)
      PROVE  (NothingWritten /\ RowsWritten)'
  BY <1>5 DEF BeginExpand
<1>6. ASSUME NEW w \in Sweeper, NEW i \in due[w], SkipExpand(w, i)
      PROVE  (NothingWritten /\ RowsWritten)'
  BY <1>6 DEF SkipExpand
<1>7. ASSUME NEW w \in Sweeper, NEW i \in due[w], ThrowEarly(w, i)
      PROVE  (NothingWritten /\ RowsWritten)'
  BY <1>7 DEF ThrowEarly
<1>8. ASSUME NEW w \in Sweeper, CommitExpand(w)
      PROVE  (NothingWritten /\ RowsWritten)'
  <2> DEFINE k == job[w].cause
  <2>1. k \in Cause /\ wrote[k] = {} /\ expansions[k] = 0
    BY <1>8 DEF CommitExpand, LockHeld, Expanding, Expansions, Job
  <2>2. outbox' = outbox \cup ExpandPayload(k)
    BY <1>8 DEF CommitExpand
  <2>3. \A c \in Cause, x \in Recipient :
            Row(c, x) \in ExpandPayload(k) <=> c = k /\ x \in audience
    BY <2>1, PayloadRows
  <2>4. RowsWritten'
    BY <1>8, <2>1, <2>2, <2>3 DEF CommitExpand
  <2>5. NothingWritten'
    BY <1>8, <2>1 DEF CommitExpand
  <2> QED  BY <2>4, <2>5
<1>9. ASSUME NEW w \in Sweeper, ThrowExpand(w)
      PROVE  (NothingWritten /\ RowsWritten)'
  BY <1>9 DEF ThrowExpand
<1>10. ASSUME NEW w \in Sweeper, RecordExpansionFailure(w)
      PROVE  (NothingWritten /\ RowsWritten)'
  BY <1>10 DEF RecordExpansionFailure
<1>11. ASSUME NEW w \in Sweeper, BookkeepingFails(w)
      PROVE  (NothingWritten /\ RowsWritten)'
  BY <1>11 DEF BookkeepingFails
<1>12. ASSUME NEW w \in Sweeper, Crash(w)
      PROVE  (NothingWritten /\ RowsWritten)'
  BY <1>12 DEF Crash
<1>13. CASE UNCHANGED vars
  BY <1>13 DEF vars
<1> QED
  BY <1>1, <1>2, <1>3, <1>4, <1>5, <1>6, <1>7, <1>8, <1>9, <1>10, <1>11, <1>12, <1>13 DEF Next, SweeperStep

\* Only a pending row is expanded, and an expanded one is never pending again.
LEMMA ExpansionsInductive ==
    ASSUME TypeOK, LockHeld, OnlyRecorded, Expansions, [Next]_vars
    PROVE  Expansions'
<1> USE DEF TypeOK, Expansions
<1>1. ASSUME NEW c \in Cause, RecordDispatchIntent(c) PROVE Expansions'
  BY <1>1 DEF RecordDispatchIntent
<1>2. ASSUME NEW c \in Cause, PruneExpandedIntent(c) PROVE Expansions'
  BY <1>2 DEF PruneExpandedIntent
<1>3. ASSUME NEW x \in Recipient, ChangeAudience(x) PROVE Expansions'
  BY <1>3 DEF ChangeAudience
<1>4. ASSUME NEW w \in Sweeper, ReadPending(w) PROVE Expansions'
  BY <1>4 DEF ReadPending
<1>5. ASSUME NEW w \in Sweeper, NEW i \in due[w], BeginExpand(w, i)
      PROVE  Expansions'
  BY <1>5 DEF BeginExpand
<1>6. ASSUME NEW w \in Sweeper, NEW i \in due[w], SkipExpand(w, i)
      PROVE  Expansions'
  BY <1>6 DEF SkipExpand
<1>7. ASSUME NEW w \in Sweeper, NEW i \in due[w], ThrowEarly(w, i)
      PROVE  Expansions'
  BY <1>7 DEF ThrowEarly
<1>8. ASSUME NEW w \in Sweeper, CommitExpand(w) PROVE Expansions'
  BY <1>8 DEF CommitExpand, LockHeld, Expanding, Job
<1>9. ASSUME NEW w \in Sweeper, ThrowExpand(w) PROVE Expansions'
  BY <1>9 DEF ThrowExpand
<1>10. ASSUME NEW w \in Sweeper, RecordExpansionFailure(w) PROVE Expansions'
  BY <1>10 DEF RecordExpansionFailure, Retired, OnlyRecorded, Job
<1>11. ASSUME NEW w \in Sweeper, BookkeepingFails(w) PROVE Expansions'
  BY <1>11 DEF BookkeepingFails
<1>12. ASSUME NEW w \in Sweeper, Crash(w) PROVE Expansions'
  BY <1>12 DEF Crash
<1>13. CASE UNCHANGED vars
  BY <1>13 DEF vars
<1> QED
  BY <1>1, <1>2, <1>3, <1>4, <1>5, <1>6, <1>7, <1>8, <1>9, <1>10, <1>11, <1>12, <1>13 DEF Next, SweeperStep

\* A row is retired by a count that throws cover.
LEMMA BudgetInductive ==
    ASSUME TypeOK, ThrowsCounted, RetiredAfterBudget, [Next]_vars
    PROVE  RetiredAfterBudget'
<1> USE IntentConstants DEF TypeOK, RetiredAfterBudget, Job
<1>1. ASSUME NEW c \in Cause, RecordDispatchIntent(c)
      PROVE  RetiredAfterBudget'
  BY <1>1 DEF RecordDispatchIntent
<1>2. ASSUME NEW c \in Cause, PruneExpandedIntent(c) PROVE RetiredAfterBudget'
  BY <1>2 DEF PruneExpandedIntent
<1>3. ASSUME NEW x \in Recipient, ChangeAudience(x) PROVE RetiredAfterBudget'
  BY <1>3 DEF ChangeAudience
<1>4. ASSUME NEW w \in Sweeper, ReadPending(w) PROVE RetiredAfterBudget'
  BY <1>4 DEF ReadPending
<1>5. ASSUME NEW w \in Sweeper, NEW i \in due[w], BeginExpand(w, i)
      PROVE  RetiredAfterBudget'
  BY <1>5 DEF BeginExpand
<1>6. ASSUME NEW w \in Sweeper, NEW i \in due[w], SkipExpand(w, i)
      PROVE  RetiredAfterBudget'
  BY <1>6 DEF SkipExpand
<1>7. ASSUME NEW w \in Sweeper, NEW i \in due[w], ThrowEarly(w, i)
      PROVE  RetiredAfterBudget'
  BY <1>7 DEF ThrowEarly
<1>8. ASSUME NEW w \in Sweeper, CommitExpand(w) PROVE RetiredAfterBudget'
  BY <1>8 DEF CommitExpand
<1>9. ASSUME NEW w \in Sweeper, ThrowExpand(w) PROVE RetiredAfterBudget'
  BY <1>9 DEF ThrowExpand
<1>10. ASSUME NEW w \in Sweeper, RecordExpansionFailure(w)
      PROVE  RetiredAfterBudget'
  BY <1>10 DEF RecordExpansionFailure, Retired, Refused, ThrowsCounted, Threw
<1>11. ASSUME NEW w \in Sweeper, BookkeepingFails(w) PROVE RetiredAfterBudget'
  BY <1>11 DEF BookkeepingFails
<1>12. ASSUME NEW w \in Sweeper, Crash(w) PROVE RetiredAfterBudget'
  BY <1>12 DEF Crash
<1>13. CASE UNCHANGED vars
  BY <1>13 DEF vars
<1> QED
  BY <1>1, <1>2, <1>3, <1>4, <1>5, <1>6, <1>7, <1>8, <1>9, <1>10, <1>11, <1>12, <1>13 DEF Next, SweeperStep

\* Every step keeps the invariant.
LEMMA NextInv == IntentInv /\ [Next]_vars => IntentInv'
BY TypeInductive, LockInductive, RecordedInductive, CountedInductive,
   WrittenInductive, ExpansionsInductive, BudgetInductive DEF IntentInv

\* What the rows of a cause add up to, as the run states it.
LEMMA RowsOfCause ==
    ASSUME TypeOK, RowsWritten, NEW c \in Cause
    PROVE  {r.to : r \in {q \in outbox : q.cause = c}} = wrote[c]
<1>1. \A q \in outbox : q.cause = c => q = Row(c, q.to) /\ q.to \in Recipient
  BY DEF TypeOK, Row
<1>2. \A x \in wrote[c] : x \in Recipient /\ Row(c, x) \in outbox
  BY DEF TypeOK, RowsWritten
<1>3. \A x : Row(c, x).cause = c /\ Row(c, x).to = x
  BY DEF Row
<1> QED  BY <1>1, <1>2, <1>3 DEF RowsWritten

\* The property is a part of what the invariant says.
LEMMA InvImpliesFanOut == IntentInv => FanOutSound
<1> SUFFICES ASSUME IntentInv PROVE FanOutSound
  OBVIOUS
<1>1. OneFanOut
  BY RowsOfCause DEF IntentInv, OneFanOut, Expansions
<1> QED  BY <1>1 DEF IntentInv, FanOutSound

\* The lock, the reads and the counters of the sweepers stay as expandOne and
\* recordExpansionFailure need them.
THEOREM IntentInvariant == Spec => []IntentInv
<1> QED  BY InitInv, NextInv, PTL DEF Spec

\* notification_intents and the sweepers' memory keep the schema's shape.
THEOREM IntentTypeCorrect == Spec => []TypeOK
<1>1. IntentInv => TypeOK
  BY DEF IntentInv
<1> QED  BY <1>1, IntentInvariant, PTL

(* Whatever sweepers, crashes and a changing audience do, the outbox holds *)
(* exactly the rows of one committed expansion of a cause, and a cause is  *)
(* retired only after that many expansions of it threw                     *)
(* (expandPendingIntents, recordExpansionFailure).                         *)
THEOREM FanOutSafe == Spec => []FanOutSound
<1> QED  BY IntentInvariant, InvImpliesFanOut, PTL

-----------------------------------------------------------------------------
\* Which promise each row stands for.
PromiseShape ==
    \A c \in Cause :
        /\ intent[c].state = "none" <=> PromiseOf(c) = "none"
        /\ expansions[c] > 0 <=> PromiseOf(c) = "told"
        /\ intent[c].state = "failed" /\ expansions[c] = 0
             <=> PromiseOf(c) = "retired"
        /\ intent[c].state = "pending" => PromiseOf(c) = "owed"
        /\ PromiseOf(c) \in {"none", "owed", "told", "retired"}

\* A step that leaves a row's state and expansions alone leaves its promise.
LEMMA PromiseStays ==
    ASSUME UNCHANGED <<intent, expansions>>
    PROVE  promised' = promised
BY DEF promised, PromiseOf

\* A step that changes one promise changes the mapped function there only.
LEMMA PromiseMoves ==
    ASSUME NEW k \in Cause, NEW p, PromiseOf(k)' = p,
           \A c \in Cause : c # k => PromiseOf(c)' = PromiseOf(c)
    PROVE  promised' = [promised EXCEPT ![k] = p]
BY DEF promised

\* Every step of the sweepers is a step of the promise, or none.
LEMMA PromiseStep ==
    ASSUME IntentInv, IntentInv', [Next]_vars
    PROVE  [Promise!Next]_promised
<1> USE DEF IntentInv
<1>0. \A c \in Cause : promised[c] = PromiseOf(c)
  BY DEF promised
<1>s. PromiseShape
  BY DEF PromiseShape, TypeOK, Expansions, PromiseOf, IntentState
<1>t. PromiseShape'
  BY DEF PromiseShape, TypeOK, Expansions, PromiseOf, IntentState
<1>1. ASSUME NEW c \in Cause, RecordDispatchIntent(c)
      PROVE  Promise!Owe(c)
  <2>1. PromiseOf(c) = "none"
    BY <1>1, <1>s DEF RecordDispatchIntent, PromiseShape
  <2>2. intent'[c].state = "pending"
    BY <1>1 DEF RecordDispatchIntent, TypeOK
  <2>3. PromiseOf(c)' = "owed"
    BY <1>t, <2>2 DEF PromiseShape
  <2>4. \A d \in Cause : d # c => PromiseOf(d)' = PromiseOf(d)
    BY <1>1 DEF RecordDispatchIntent, TypeOK, PromiseOf
  <2> QED  BY <1>0, <2>1, <2>3, <2>4, PromiseMoves DEF Promise!Owe
<1>2. ASSUME NEW c \in Cause, PruneExpandedIntent(c)
      PROVE  UNCHANGED promised
  <2>1. expansions[c] = 1 /\ expansions'[c] = 1
    BY <1>2 DEF PruneExpandedIntent, Expansions
  <2>2. PromiseOf(c) = "told" /\ PromiseOf(c)' = "told"
    BY <1>s, <1>t, <2>1 DEF PromiseShape
  <2>3. \A d \in Cause : d # c => PromiseOf(d)' = PromiseOf(d)
    BY <1>2 DEF PruneExpandedIntent, TypeOK, PromiseOf
  <2> QED  BY <2>2, <2>3 DEF promised
<1>3. ASSUME NEW w \in Sweeper, CommitExpand(w)
      PROVE  Promise!Tell(job[w].cause)
  <2>0. PICK k \in Cause : k = job[w].cause
    BY <1>3 DEF CommitExpand, TypeOK, Job
  <2>1. intent[k].state = "pending"
    BY <2>0, <1>3 DEF CommitExpand, TypeOK, Job, LockHeld, Expanding
  <2>2. PromiseOf(k) = "owed"
    BY <1>s, <2>1 DEF PromiseShape
  <2>3. expansions'[k] > 0
    BY <1>3, <2>0 DEF CommitExpand, TypeOK
  <2>4. PromiseOf(k)' = "told"
    BY <1>t, <2>1, <2>3 DEF PromiseShape
  <2>5. \A d \in Cause : d # k => PromiseOf(d)' = PromiseOf(d)
    BY <1>3, <2>0 DEF CommitExpand, TypeOK, PromiseOf
  <2> QED  BY <1>0, <2>0, <2>2, <2>4, <2>5, PromiseMoves DEF Promise!Tell
<1>4. ASSUME NEW w \in Sweeper, RecordExpansionFailure(w)
      PROVE  Promise!Retire(job[w].cause) \/ UNCHANGED promised
  <2>0. PICK k \in Cause : k = job[w].cause
    BY <1>4 DEF RecordExpansionFailure, TypeOK, Job
  <2>1. intent[k].state # "none"
    BY <2>0, <1>4 DEF RecordExpansionFailure, TypeOK, Job, OnlyRecorded
  <2>2. expansions' = expansions
    BY <1>4 DEF RecordExpansionFailure
  <2>3. \A d \in Cause : d # k => PromiseOf(d)' = PromiseOf(d)
    BY <1>4, <2>0 DEF RecordExpansionFailure, TypeOK, PromiseOf
  <2>4. intent'[k].state \in {intent[k].state, "failed"}
    BY <1>4, <2>0 DEF RecordExpansionFailure, TypeOK, Retired
  <2>5. PromiseOf(k)' = PromiseOf(k) \/ (PromiseOf(k) = "owed" /\ PromiseOf(k)' = "retired")
    <3>1. CASE intent'[k].state = intent[k].state
      BY <2>2, <3>1 DEF PromiseOf
    <3>2. CASE intent'[k].state = "failed" /\ expansions[k] > 0
      BY <1>s, <1>t, <2>1, <2>2, <3>2 DEF PromiseShape
    <3>3. CASE intent'[k].state = "failed" /\ expansions[k] = 0
      BY <1>s, <1>t, <2>1, <2>2, <3>3 DEF TypeOK, PromiseShape
    <3> QED  BY <2>4, <3>1, <3>2, <3>3 DEF TypeOK
  <2>6. CASE PromiseOf(k)' = PromiseOf(k)
    BY <2>3, <2>6 DEF promised
  <2>7. CASE PromiseOf(k) = "owed" /\ PromiseOf(k)' = "retired"
    BY <1>0, <2>0, <2>3, <2>7, PromiseMoves DEF Promise!Retire
  <2> QED  BY <2>5, <2>6, <2>7
<1>5. ASSUME UNCHANGED <<intent, expansions>>
      PROVE  UNCHANGED promised
  BY <1>5, PromiseStays
<1>6. \A w \in Sweeper : job[w] # NoJob => job[w].cause \in Cause
  BY DEF TypeOK, Job
<1>7. ASSUME NEW w \in Sweeper, SweeperStep(w) \/ Crash(w)
      PROVE  \/ CommitExpand(w)
             \/ RecordExpansionFailure(w)
             \/ UNCHANGED <<intent, expansions>>
  BY <1>7 DEF SweeperStep, Crash, ReadPending, BeginExpand, SkipExpand, ThrowEarly,
              ThrowExpand, BookkeepingFails
<1>8. ASSUME NEW w \in Sweeper, CommitExpand(w) \/ RecordExpansionFailure(w)
      PROVE  job[w].cause \in Cause
  BY <1>6, <1>8 DEF CommitExpand, RecordExpansionFailure
<1>9. ASSUME NEW x \in Recipient, ChangeAudience(x)
      PROVE  UNCHANGED <<intent, expansions>>
  BY <1>9 DEF ChangeAudience
<1>10. (UNCHANGED vars) => UNCHANGED <<intent, expansions>>
  BY DEF vars
<1> QED
  BY <1>1, <1>2, <1>3, <1>4, <1>5, <1>7, <1>8, <1>9, <1>10 DEF Next, Promise!Next

\* Nothing is promised before a transition recorded it.
LEMMA PromiseInit == Init => Promise!Init
BY DEF Init, Promise!Init, promised, PromiseOf

(* The sweepers implement the promise: an intent is owed once, then told   *)
(* once or retired with nothing queued, and stays what it became, although *)
(* recordExpansionFailure may write over a row that was expanded since and *)
(* retention deletes the row (safety part of KeepsPromise).                *)
THEOREM PromiseSafe == Spec => Promise!Safe
<1>1. IntentInv /\ IntentInv' /\ [Next]_vars => [Promise!Next]_promised
  BY PromiseStep
<1> QED  BY <1>1, PromiseInit, IntentInvariant, PTL DEF Spec, Promise!Safe
=============================================================================
