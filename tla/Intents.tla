------------------------------ MODULE Intents -------------------------------
(***************************************************************************)
(* Dispatch intents (modules/notifications/intents.ts and                  *)
(* intent-expansion.ts): the row a transition commits with itself, and the *)
(* sweepers (the delivery tick and the inline passes) that turn it into    *)
(* one outbox row per recipient.                                           *)
(*                                                                         *)
(* expandOne is a transaction with a row lock, so its beginning and its    *)
(* end are steps of their own; every other write is one step.  `wrote',    *)
(* `expansions' and `throws' are history.                                  *)
(*                                                                         *)
(* A definition named X_Y is X with a plausible mistake Y in it.           *)
(***************************************************************************)
EXTENDS Naturals, FiniteSets

CONSTANTS
    Cause,                 \* cause keys
    Channel,               \* notification channels
    Member,                \* responders who are mailed
    Subscriber,            \* subscribers of a public status page
    Sweeper,               \* concurrent passes of expandPendingIntents
    NoJob,
    MaxExpansionAttempts,  \* MAX_EXPANSION_ATTEMPTS
    MaxThrows,             \* bound on the failures of one behaviour
    MaxCrashes             \* bound on the process deaths of one behaviour

ASSUME IntentConstants ==
    /\ MaxExpansionAttempts \in Nat \ {0}
    /\ MaxThrows \in Nat
    /\ MaxCrashes \in Nat

Recipient == Channel \cup Member \cup Subscriber

VARIABLES
    intent,      \* notification_intents
    audience,    \* who an expansion would reach now
    outbox,      \* outbox rows, by the cause and recipient of their key
    due,         \* what each sweeper read: ids with the attempts it saw
    job,         \* the intent each sweeper is working on
    wrote,       \* history: the recipients of the committed expansion
    expansions,  \* history: committed expansions
    throws,      \* history: expansions that threw
    crashes

vars == <<intent, audience, outbox, due, job, wrote, expansions, throws, crashes>>

-----------------------------------------------------------------------------
\* "none" is a cause not recorded yet, "pruned" one that retention deleted.
IntentState == {"none", "pending", "expanded", "failed", "pruned"}

Read == [cause : Cause, attempts : Nat]

Job == [cause : Cause, attempts : Nat, stage : {"expanding", "threw"}]

Init ==
    /\ intent = [c \in Cause |-> [state |-> "none", attempts |-> 0]]
    /\ audience \in SUBSET Recipient
    /\ outbox = {}
    /\ due = [w \in Sweeper |-> {}]
    /\ job = [w \in Sweeper |-> NoJob]
    /\ wrote = [c \in Cause |-> {}]
    /\ expansions = [c \in Cause |-> 0]
    /\ throws = [c \in Cause |-> 0]
    /\ crashes = 0

-----------------------------------------------------------------------------
Pending_FreshOnly(c) == intent[c].state = "pending" /\ intent[c].attempts = 0

\* pendingIntentsSql's predicate.
Pending(c) == intent[c].state = "pending"

Locked(c) ==
    \E w \in Sweeper : job[w] # NoJob /\ job[w].cause = c /\ job[w].stage = "expanding"

Expandable_Unchecked(c) == ~ Locked(c)

\* expandOne's select ... for update skip locked re-reads the state.
Expandable(c) == intent[c].state = "pending" /\ ~ Locked(c)

Refused(n) == n >= MaxExpansionAttempts

\* recordExpansionFailure's update: the counter the sweeper read, plus one,
\* and nothing about the state the row is in by now.
Retired(i, n) == [state |-> IF Refused(n) THEN "failed" ELSE i.state,
                  attempts |-> n]

Row(c, x) == [cause |-> c, to |-> x]

\* dispatchToChannels: the enabled channels the event is routed to.
ChannelRows(c) == {Row(c, x) : x \in audience \cap Channel}

\* enqueueMemberEmails: the responders of the organization.
MemberRows(c) == {Row(c, x) : x \in audience \cap Member}

\* enqueueSubscriberEmails: confirmed, on a published page that lists it.
SubscriberRows(c) == {Row(c, x) : x \in audience \cap Subscriber}

\* expandPayload.  A row whose key is already in the outbox is not repeated.
ExpandPayload(c) == ChannelRows(c) \cup MemberRows(c) \cup SubscriberRows(c)

\* recordDispatchIntent, in the transaction of the transition; a cause
\* already recorded inserts nothing.
RecordDispatchIntent(c) ==
    /\ intent[c].state = "none"
    /\ intent' = [intent EXCEPT ![c].state = "pending"]
    /\ UNCHANGED <<audience, outbox, due, job, wrote, expansions, throws, crashes>>

\* Channels are switched on and off, members and subscribers come and go.
ChangeAudience(x) ==
    /\ audience' = IF x \in audience THEN audience \ {x} ELSE audience \cup {x}
    /\ UNCHANGED <<intent, outbox, due, job, wrote, expansions, throws, crashes>>

\* The sweep's unlocked read.
ReadPending(w) ==
    /\ job[w] = NoJob /\ due[w] = {}
    /\ \E c \in Cause : Pending(c)
    /\ due' = [due EXCEPT ![w] = {[cause |-> c, attempts |-> intent[c].attempts] :
                                    c \in {k \in Cause : Pending(k)}}]
    /\ UNCHANGED <<intent, audience, outbox, job, wrote, expansions, throws, crashes>>

\* expandOne takes the row ...
BeginExpand(w, i) ==
    /\ job[w] = NoJob /\ i \in due[w]
    /\ Expandable(i.cause)
    /\ due' = [due EXCEPT ![w] = @ \ {i}]
    /\ job' = [job EXCEPT ![w] = [cause |-> i.cause, attempts |-> i.attempts,
                                  stage |-> "expanding"]]
    /\ UNCHANGED <<intent, audience, outbox, wrote, expansions, throws, crashes>>

\* ... or finds it gone, decided or locked.
SkipExpand(w, i) ==
    /\ job[w] = NoJob /\ i \in due[w]
    /\ ~ Expandable(i.cause)
    /\ due' = [due EXCEPT ![w] = @ \ {i}]
    /\ UNCHANGED <<intent, audience, outbox, job, wrote, expansions, throws, crashes>>

\* expandPayload and the state change commit together; the audience is the
\* one of now, not of the transition.
CommitExpand(w) ==
    /\ job[w] # NoJob /\ job[w].stage = "expanding"
    /\ LET c == job[w].cause
       IN /\ outbox' = outbox \cup ExpandPayload(c)
          /\ intent' = [intent EXCEPT ![c].state = "expanded"]
          /\ wrote' = [wrote EXCEPT ![c] = audience]
          /\ expansions' = [expansions EXCEPT ![c] = @ + 1]
    /\ job' = [job EXCEPT ![w] = NoJob]
    /\ UNCHANGED <<audience, due, throws, crashes>>

\* The transaction throws, and rolls back ...
ThrowExpand(w) ==
    /\ job[w] # NoJob /\ job[w].stage = "expanding"
    /\ throws[job[w].cause] < MaxThrows
    /\ throws' = [throws EXCEPT ![job[w].cause] = @ + 1]
    /\ job' = [job EXCEPT ![w].stage = "threw"]
    /\ UNCHANGED <<intent, audience, outbox, due, wrote, expansions, crashes>>

\* ... or cannot even begin.
ThrowEarly(w, i) ==
    /\ job[w] = NoJob /\ i \in due[w]
    /\ throws[i.cause] < MaxThrows
    /\ throws' = [throws EXCEPT ![i.cause] = @ + 1]
    /\ due' = [due EXCEPT ![w] = @ \ {i}]
    /\ job' = [job EXCEPT ![w] = [cause |-> i.cause, attempts |-> i.attempts,
                                  stage |-> "threw"]]
    /\ UNCHANGED <<intent, audience, outbox, wrote, expansions, crashes>>

\* recordExpansionFailure, once nobody holds the row's lock; by id only.
RecordExpansionFailure(w) ==
    /\ job[w] # NoJob /\ job[w].stage = "threw"
    /\ LET c == job[w].cause
       IN /\ ~ Locked(c)
          /\ intent' = IF intent[c].state = "pruned" THEN intent
                       ELSE [intent EXCEPT ![c] = Retired(@, job[w].attempts + 1)]
    /\ job' = [job EXCEPT ![w] = NoJob]
    /\ UNCHANGED <<audience, outbox, due, wrote, expansions, throws, crashes>>

\* The bookkeeping itself may fail; the sweep carries on.
BookkeepingFails(w) ==
    /\ job[w] # NoJob /\ job[w].stage = "threw"
    /\ job' = [job EXCEPT ![w] = NoJob]
    /\ UNCHANGED <<intent, audience, outbox, due, wrote, expansions, throws, crashes>>

\* pruneExpandedIntents; how old the intent is, is left open.
PruneExpandedIntent(c) ==
    /\ intent[c].state = "expanded" /\ ~ Locked(c)
    /\ intent' = [intent EXCEPT ![c].state = "pruned"]
    /\ UNCHANGED <<audience, outbox, due, job, wrote, expansions, throws, crashes>>

\* The process dies; its transaction rolls back and its lock is gone.
Crash(w) ==
    /\ job[w] # NoJob \/ due[w] # {}
    /\ crashes < MaxCrashes
    /\ crashes' = crashes + 1
    /\ job' = [job EXCEPT ![w] = NoJob]
    /\ due' = [due EXCEPT ![w] = {}]
    /\ UNCHANGED <<intent, audience, outbox, wrote, expansions, throws>>

-----------------------------------------------------------------------------
SweeperStep(w) ==
    \/ ReadPending(w)
    \/ \E i \in due[w] : BeginExpand(w, i) \/ SkipExpand(w, i) \/ ThrowEarly(w, i)
    \/ CommitExpand(w)
    \/ ThrowExpand(w)
    \/ RecordExpansionFailure(w)
    \/ BookkeepingFails(w)

Next ==
    \/ \E c \in Cause : RecordDispatchIntent(c) \/ PruneExpandedIntent(c)
    \/ \E x \in Recipient : ChangeAudience(x)
    \/ \E w \in Sweeper : SweeperStep(w) \/ Crash(w)

Spec == Init /\ [][Next]_vars

\* The tick runs every minute on every worker and finishes what it reads.
IntentsFairness == \A w \in Sweeper : WF_vars(SweeperStep(w))

-----------------------------------------------------------------------------
\* notification_intents and the sweepers' memory keep the schema's shape.
TypeOK ==
    /\ intent \in [Cause -> [state : IntentState, attempts : Nat]]
    /\ audience \subseteq Recipient
    /\ outbox \subseteq [cause : Cause, to : Recipient]
    /\ due \in [Sweeper -> SUBSET Read]
    /\ job \in [Sweeper -> Job \cup {NoJob}]
    /\ wrote \in [Cause -> SUBSET Recipient]
    /\ expansions \in [Cause -> Nat]
    /\ throws \in [Cause -> Nat]
    /\ crashes \in Nat

\* A transition's notifications are queued all together and once: whatever two
\* sweepers, a crash and a changing audience do, the outbox holds exactly the
\* rows of one committed expansion, and none while the intent is pending.
OneFanOut ==
    \A c \in Cause :
        /\ expansions[c] <= 1
        /\ {r.to : r \in {q \in outbox : q.cause = c}} = wrote[c]
        /\ intent[c].state \in {"none", "pending"} => expansions[c] = 0
        /\ intent[c].state \in {"expanded", "pruned"} => expansions[c] = 1

\* An intent is retired only after that many expansions of it really threw,
\* although the counter is written from a stale read.
RetiredAfterBudget ==
    \A c \in Cause :
        intent[c].state = "failed" => throws[c] >= MaxExpansionAttempts

(* Whatever sweepers, crashes and a changing audience do, an intent is     *)
(* expanded as a whole and once, or given up only when its attempts were   *)
(* really spent (expandPendingIntents, recordExpansionFailure).            *)
FanOutSound == OneFanOut /\ RetiredAfterBudget

\* What a row stands for: retired means retired with nothing queued.
PromiseOf(c) ==
    CASE intent[c].state = "none" -> "none"
      [] expansions[c] > 0 -> "told"
      [] expansions[c] = 0 /\ intent[c].state = "failed" -> "retired"
      [] OTHER -> "owed"

promised == [c \in Cause |-> PromiseOf(c)]

Promise == INSTANCE IntentPromise WITH promise <- promised

\* Every recorded intent is told once or retired, never both and never neither.
KeepsPromise == Promise!Spec
=============================================================================
