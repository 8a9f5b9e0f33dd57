------------------------------ MODULE Probing --------------------------------
(***************************************************************************)
(* One check, from performCheck to its verdict (modules/monitors/check.ts, *)
(* types/conditions.ts, types/probes/): the guard looks the target up, the *)
(* probe converses, a clock runs, and whichever of answer, error, close    *)
(* and timeout comes first decides.  The others still come, to a promise   *)
(* already settled.                                                        *)
(***************************************************************************)
EXTENDS CheckTypes, Integers

CONSTANTS Timeout,      \* timeoutMs, in ticks
          Grace,        \* what a program or a rendering service gets on top
          Threshold,    \* degradedThresholdMs, in ticks
          MaxPieces     \* an answer comes in at most so many pieces

ASSUME ClockAssumption ==
    /\ Timeout \in Nat \ {0} /\ Grace \in Nat \ {0}
    /\ Threshold \in 0..Timeout /\ MaxPieces \in Nat

\* The tables fit together: there is a way in, a question leads to a phase of the same type, never
\* back to the guard, the certificate is looked at last, by http checks, and a call
\* opened late opens no other but the next poll.
ASSUME TablesAssumption ==
    \A t \in ActiveTypes : \A c \in ConfigsOf(t) :
        /\ {"guard", "connect"} \cap DOMAIN TableOf(t, c) # {} /\ "done" \notin DOMAIN TableOf(t, c)
        /\ \A p \in DOMAIN TableOf(t, c) : \A reply \in DOMAIN TableOf(t, c)[p] :
              LET step == TableOf(t, c)[p][reply].step
              IN  IF step.do = "ask"
                  THEN /\ step.at \in DOMAIN TableOf(t, c) \ {"guard"}
                       /\ p # "certificate"
                       /\ ClockOf(t, c) = "floor" /\ p \in AnotherCall =>
                             /\ step.at \in AnotherCall \ {"leader"}
                             /\ step.at = "poll" => reply = "pending"
                       /\ step.at = "certificate" => t = "http" /\ c.tls /\ p # "guard"
                  ELSE step.at = "done"

Verdicts == {"up", "degraded", "down", "indeterminate"}

\* judge: what cannot be measured is no verdict on the target, a failure to
\* measure is, and a failed assertion counts by its severity.
JudgeOf(t, c, step, all) ==
    LET failing == FailingOf(t, c, all) IN
    IF step.do = "cannot" THEN "indeterminate"
    ELSE IF step.do = "fail" \/ "error" \in all \/ "down" \in failing THEN "down"
    ELSE IF "degraded" \in failing THEN "degraded" ELSE "up"

-----------------------------------------------------------------------------
(* What the tables say, without a clock *)

\* What the verdict must be of a target that said these things, whatever the
\* order and the type: one that will not let Vigil look is not down, a wrong
\* answer, a foreign one or none at all is down, a limit passed is degraded,
\* and anything else is up.
VerdictOf(t, said, slow) ==
    IF "denied" \in said THEN "indeterminate"
    ELSE IF said \cap {"wrong", "foreign", "lost"} # {} THEN "down"
    ELSE IF "poor" \in said \/ (t \in OwnWatch /\ slow) THEN "degraded" ELSE "up"

\* An answer that ends a conversation is judged by all that was said in it.
JudgedBy(t, c, answer, all, said, slow) ==
    answer.step.do # "ask" /\ "cut" \notin said =>
        JudgeOf(t, c, answer.step, IF t \in OwnWatch /\ slow THEN all \cup {"slow"} ELSE all) =
            VerdictOf(t, said, slow)

AnswersOf(t, c, p) ==
    {TableOf(t, c)[p][reply] : reply \in DOMAIN TableOf(t, c)[p]} \cup {Answer("lost", Fail)}

\* A talk is its phase, the facts established and the tags of what was said.
Opened(t, c) ==
    IF "guard" \notin DOMAIN TableOf(t, c) THEN {<<"connect", {}, {"right"}>>}
    ELSE {<<a.step.at, {}, {a.tag}>> : a \in {b \in AnswersOf(t, c, "guard") : b.step.do = "ask"}}

AfterAnswer(talk, a) == <<a.step.at, talk[2] \cup a.step.facts, talk[3] \cup {a.tag}>>

GoesOn(t, c, talk) ==
    {AfterAnswer(talk, a) : a \in {b \in AnswersOf(t, c, talk[1]) : b.step.do = "ask"}}

\* All the talks there may be, after some turns that are enough.
Talks(t, c) ==
    LET turns[n \in 0 .. 12] ==
            IF n = 0 THEN Opened(t, c)
            ELSE LET before == turns[n - 1]
                 IN  before \cup UNION {GoesOn(t, c, talk) : talk \in before}
    IN  turns[12]

\* Of every type and setting: the talks go nowhere else, whatever ends one is judged by
\* what was said, and what is lost leaves no talk where it was.
ASSUME TalksAssumption ==
    \A t \in ActiveTypes : \A c \in ConfigsOf(t) :
        /\ Opened(t, c) \subseteq Talks(t, c)
        /\ \A talk \in Talks(t, c) :
              /\ GoesOn(t, c, talk) \subseteq Talks(t, c)
              /\ \A a \in AnswersOf(t, c, talk[1]) : \A slow \in BOOLEAN :
                    JudgedBy(t, c, a, AfterAnswer(talk, a)[2], AfterAnswer(talk, a)[3], slow)
        /\ "guard" \in DOMAIN TableOf(t, c) =>
              \A a \in AnswersOf(t, c, "guard") : JudgedBy(t, c, a, {}, {a.tag}, FALSE)
        /\ \A p \in DOMAIN TableOf(t, c) :
              \A kind \in DOMAIN TableOf(t, c)[p] \cap {"broken", "closed", "timeout"} :
                  TableOf(t, c)[p][kind].step.at # p

VARIABLES check,    \* what is checked, and whether private targets are allowed
          at,       \* the phase of the conversation
          facts,    \* what it has established so far
          heard,    \* what the target, or the way to it, has said: history
          left,     \* ticks until the clock runs out
          armed,    \* what the clock was last wound up with
          elapsed,  \* ticks since the connection was asked for
          took,     \* responseTimeMs: ticks until the response was in
          pieces,   \* pieces of an unfinished answer
          socket,   \* of the probe
          outcome   \* the verdict, once there is one

vars == <<check, at, facts, heard, left, armed, elapsed, took, pieces, socket, outcome>>
clock == <<left, armed, elapsed, took, pieces>>

Table == TableOf(check.type, check.cfg)
Clock == ClockOf(check.type, check.cfg)

-----------------------------------------------------------------------------
(* Judging *)

\* A mutant: assertions are looked at although nothing was measured.
Judge_Unmeasured(step, all) ==
    LET failing == FailingOf(check.type, check.cfg, all) IN
    IF step.do = "fail" \/ "error" \in all \/ "down" \in failing THEN "down"
    ELSE IF "degraded" \in failing THEN "degraded" ELSE "up"

Judge(step, all) == JudgeOf(check.type, check.cfg, step, all)

\* responseTimeMs: an http check has it before it looks at the certificate.
ResponseTime == IF at = "certificate" THEN took ELSE elapsed

\* The latency, as an assertion sees it.
Timed == IF ResponseTime > Threshold THEN {"slow"} ELSE {}

\* settle: the first to come decides.
Settled(verdict) == IF outcome = "none" THEN verdict ELSE outcome

\* `measured' takes leave, everything else destroys.
SocketAfter(step) ==
    IF step.do = "facts" /\ check.type \in PartsPolitely THEN "ending" ELSE "destroyed"

-----------------------------------------------------------------------------
(* The clock *)

Budget == IF Clock = "grace" THEN Timeout + Grace ELSE Timeout

AtLeastOne(n) == IF n < 1 THEN 1 ELSE n

\* A mutant: every answer is granted the whole budget again.
Rewound_Full(to) == Timeout

\* What the clock is wound up with when an answer opens the phase `to'.
Rewound(to) ==
    IF to = "certificate" \/ Clock = "idle" THEN Timeout
    ELSE IF Clock = "remaining" \/ (Clock = "floor" /\ to \in {"leader", "poll"})
    THEN AtLeastOne(Timeout - elapsed)
    ELSE IF Clock # "phase" \/ to = at THEN left
    ELSE CASE to = "discovery" -> AtLeastOne(Timeout \div 2)
           [] to = "getV3" -> left + Timeout - (Timeout \div 2)
           [] OTHER -> Timeout

\* A piece that completes nothing.  mysql winds up again on every one; an idle
\* timer, the certificate read's too, starts over by itself, with what it was set to.
Touched ==
    IF check.type = "mysql" THEN AtLeastOne(Timeout - elapsed)
    ELSE IF Clock \in {"idle", "remaining"} \/ at = "certificate" THEN armed ELSE left

-----------------------------------------------------------------------------
(* The conversation *)

\* refusesPrivate.  An address no one may probe is refused whatever is allowed;
\* with private targets allowed, nothing is looked up.
CommonGuard ==
    [public |-> Right(Ask("connect")),
     forbidden |-> Wrong(Fail),
     private |-> IF check.allow THEN Right(Ask("connect")) ELSE Wrong(Fail),
     unresolved |-> IF check.allow THEN Right(Ask("connect")) ELSE Wrong(Fail)]

Guard == IF "guard" \in DOMAIN Table THEN Table["guard"] ELSE CommonGuard

\* The losses a phase may suffer; one without a reading of its own is a
\* transport failure.
Losses == {"broken", "timeout"} \cup (IF check.type \in StreamTypes THEN {"closed"} ELSE {})

Lost(kind) ==
    IF kind \in DOMAIN Table[at] THEN Table[at][kind] ELSE Answer("lost", Fail)

\* What the probe does with an answer.
Take(answer) ==
    LET all == facts \cup answer.step.facts
        timed == IF check.type \in OwnWatch THEN all \cup Timed ELSE all
    IN  /\ heard' = heard \cup {answer.tag}
        /\ facts' = all
        /\ at' = answer.step.at
        /\ pieces' = IF answer.step.at # at THEN 0
                     ELSE IF Clock = "idle" THEN pieces + 1 ELSE pieces
        /\ IF answer.step.do = "ask"
           THEN /\ left' = Rewound(answer.step.at) /\ armed' = Rewound(answer.step.at)
                /\ UNCHANGED <<socket, outcome>>
           ELSE /\ outcome' = Settled(Judge(answer.step, timed))
                /\ socket' = SocketAfter(answer.step)
                /\ UNCHANGED <<left, armed>>
        /\ took' = IF answer.step.at \in {"certificate", "done"} THEN ResponseTime ELSE took
        /\ UNCHANGED <<check, elapsed>>

\* performCheck on a type that is not probed, or not in this build.
Unprobed ==
    /\ check.type \in UnprobedTypes /\ outcome = "none"
    /\ heard' = {"denied"} /\ outcome' = "indeterminate" /\ at' = "done"
    /\ UNCHANGED <<check, facts, clock, socket>>

\* The guard has its answer.  Until then no clock runs and no socket is open.
Guarded(reply) ==
    /\ at = "guard" /\ check.type \in ActiveTypes /\ reply \in DOMAIN Guard
    /\ LET answer == Guard[reply] IN
       /\ heard' = heard \cup {answer.tag}
       /\ at' = answer.step.at
       /\ IF answer.step.do = "ask"
          THEN /\ socket' = "open" /\ left' = Budget /\ armed' = Budget
               /\ UNCHANGED outcome
          ELSE outcome' = Judge(answer.step, {}) /\ UNCHANGED <<socket, left, armed>>
    /\ UNCHANGED <<check, facts, elapsed, took, pieces>>

\* globalping asks again while there is time for another poll, and gives up otherwise.
InSeason(reply) ==
    /\ reply = "pending" => elapsed + 1 < Timeout
    /\ reply = "overdue" => elapsed + 1 >= Timeout

\* An answer that changes nothing winds an idle clock up like a piece does, and is
\* bounded with them.
Hear(reply) ==
    /\ socket = "open" /\ at \in DOMAIN Table
    /\ reply \in DOMAIN Table[at] \ {"broken", "closed", "timeout"} /\ InSeason(reply)
    /\ (Clock = "idle" /\ Table[at][reply].step.at = at) => pieces < MaxPieces
    /\ Take(Table[at][reply])

\* A piece of an answer: every reader has a cap on what it keeps.
Piece ==
    /\ socket = "open" /\ pieces < MaxPieces /\ left > 0
    /\ pieces' = pieces + 1 /\ left' = Touched
    /\ armed' = IF check.type = "mysql" THEN Touched ELSE armed
    /\ UNCHANGED <<check, at, facts, heard, elapsed, took, socket, outcome>>

Lose(kind) ==
    /\ socket = "open" /\ kind \in Losses \ {"timeout"}
    /\ Take(Lost(kind))

Tick ==
    /\ socket \in {"open", "ending"} /\ left > 0
    /\ left' = left - 1 /\ elapsed' = IF outcome = "none" THEN elapsed + 1 ELSE elapsed
    /\ UNCHANGED <<check, at, facts, heard, armed, took, pieces, socket, outcome>>

Expire ==
    /\ socket = "open" /\ left = 0
    /\ Take(Lost("timeout"))

\* A mutant: the clock is cleared with the measurement.
ExpireEnding_Cleared ==
    /\ FALSE
    /\ UNCHANGED vars

\* The farewell was not answered in time: the clock is left running for that.
ExpireEnding ==
    /\ socket = "ending" /\ left = 0
    /\ socket' = "destroyed"
    /\ UNCHANGED <<check, at, facts, heard, clock, outcome>>

\* The close event of a socket the probe is done with, and the failure its
\* handler reports to a settled promise.
Closed ==
    /\ socket \in {"ending", "destroyed"}
    /\ outcome' = Settled("down") /\ socket' = "closed"
    /\ UNCHANGED <<check, at, facts, heard, clock>>

-----------------------------------------------------------------------------
\* performCheck.
Init ==
    /\ \E t \in ActiveTypes \cup UnprobedTypes, allow \in BOOLEAN :
           \E c \in ConfigsOf(t) : check = [type |-> t, cfg |-> c, allow |-> allow]
    /\ at = "guard" /\ facts = {} /\ heard = {}
    /\ left = 0 /\ armed = 0 /\ elapsed = 0 /\ took = 0 /\ pieces = 0
    /\ socket = "none" /\ outcome = "none"

Replies == UNION {DOMAIN Table[p] : p \in DOMAIN Table}

Converse ==
    \/ \E reply \in DOMAIN Guard : Guarded(reply)
    \/ \E reply \in Replies : Hear(reply)
    \/ \E kind \in {"broken", "closed"} : Lose(kind)

Probe ==
    /\ check.type \in ActiveTypes
    /\ Converse \/ Piece \/ Tick \/ Expire \/ ExpireEnding \/ Closed

Next == Unprobed \/ Probe

\* The operating system answers a lookup, time passes and timers fire; nothing
\* else owes the probe anything.
Fairness ==
    /\ WF_vars(Unprobed)
    /\ WF_vars(check.type \in ActiveTypes /\ \E reply \in DOMAIN Guard : Guarded(reply))
    /\ WF_vars(check.type \in ActiveTypes /\ Tick)
    /\ WF_vars(check.type \in ActiveTypes /\ Expire)
    /\ WF_vars(check.type \in ActiveTypes /\ ExpireEnding)
    /\ WF_vars(check.type \in ActiveTypes /\ socket = "destroyed" /\ Closed)

Spec == Init /\ [][Next]_vars /\ Fairness

-----------------------------------------------------------------------------
(* Properties *)

\* Types of the variables; a probe that is over has a verdict, and one that has
\* a verdict listens no more.
TypeOK ==
    /\ check.type \in ActiveTypes \cup UnprobedTypes
    /\ left \in 0..(2 * Timeout + Grace) /\ armed \in 0..(2 * Timeout + Grace)
    /\ pieces \in 0..MaxPieces /\ elapsed \in Nat /\ took \in Nat
    /\ socket \in {"none", "open", "ending", "destroyed", "closed"}
    /\ outcome \in Verdicts \cup {"none"}
    /\ (outcome # "none") <=> (at = "done")
    /\ socket = "open" => outcome = "none"

\* The verdict is the one of a target that said what was heard, whatever the
\* order and the pace: one that will not let Vigil look is not down, a wrong
\* answer, a foreign one or none at all is down, a limit passed is degraded,
\* and anything else is up.  Slow is the response, without the certificate read
\* after it.  Of an http body that breaks off, or is not in by the deadline, this
\* says nothing: the code takes it for an empty one and judges the status alone.
VerdictTrue ==
    /\ TypeOK
    /\ (outcome # "none" /\ "cut" \notin heard) =>
          outcome = VerdictOf(check.type, heard, took > Threshold)

\* However the target paces its answers, a conversation with one deadline is over
\* when it is, and one that a program or a service is waited for the grace later.
\* A call globalping or kafka makes at the last moment has one tick past it.  A
\* certificate is read after a response that was in time, and is granted the
\* deadline again with every piece of it.  (The clocks wound up by question or by
\* byte, "idle", "phase" and "remaining", promise nothing of the kind.)
InTime ==
    outcome = "none" =>
        /\ Clock = "whole" /\ at # "certificate" => elapsed <= Timeout
        /\ at = "certificate" => took <= Timeout /\ elapsed <= took + Timeout * (pieces + 1)
        /\ Clock = "floor" => elapsed <= Timeout + 1
        /\ Clock = "grace" => elapsed <= Timeout + Grace

\* A check ends, and lets go of its socket, though the target says nothing ever
\* and never closes.
Ends == <>(outcome # "none" /\ socket \in {"none", "closed"})
=============================================================================
