---------------------------- MODULE EdgesProofs -----------------------------
(***************************************************************************)
(* Proofs about Delivering, for every provider, message and number of      *)
(* attempts, about Bursts, for any number of captures and incidents and    *)
(* any budget, and about Probing, for any timeout and threshold: the       *)
(* deadline and the verdict.                                               *)
(***************************************************************************)
EXTENDS Probing, Delivering, Bursts, FiniteSetTheorems, SequenceTheorems, TLAPS

-----------------------------------------------------------------------------
(* Deliveries *)

HttpSteps == {"request"}
JiraSteps == {"search", "create", "comment", "transition"}
SmtpSteps == {"greeting", "envelope", "data", "message"}

DTypeOK ==
    /\ via \in [provider : DOMAIN Providers, message : {"alert", "resolution"}]
    /\ row \in {"queued", "claimed", "delivered", "dead"}
    /\ attempts \in Nat /\ unknowns \in Nat /\ copies \in Nat
    /\ issue \in {"none", "open", "done"} /\ blind \in BOOLEAN

\* An attempt under way is in its own provider's conversation.
StepFits ==
    row = "claimed" => /\ P.over = "http" => step \in HttpSteps
                       /\ P.over = "jira" => step \in JiraSteps
                       /\ P.over = "smtp" => step \in SmtpSteps

\* Copies and attempts on record, one step finer than CopiesAdmitted: an open
\* attempt has left a copy only once jira's comment is made.
Accounted ==
    /\ P.over # "smtp" =>
         copies <= unknowns + (IF \/ row = "delivered"
                                  \/ row = "claimed" /\ step = "transition"
                               THEN 1 ELSE 0)
    /\ row = "claimed" /\ step = "transition" => copies > 0

\* The inductive invariant.
DeliveryInv == DTypeOK /\ StepFits /\ Accounted /\ ArrivalTrue

\* What the table of providers says of each: which conversation it holds, and
\* that only services asked over one request suppress duplicates.
LEMMA ProviderTable ==
    ASSUME NEW p \in DOMAIN Providers
    PROVE  /\ Providers[p].over \in {"http", "jira", "smtp"}
           /\ Providers[p].suppresses \in BOOLEAN
           /\ Providers[p].suppresses => Providers[p].over = "http"
<1> DEFINE Kind == [over : {"http", "jira", "smtp"}, bodyProblem : BOOLEAN,
                    suppresses : BOOLEAN, accepts409 : BOOLEAN]
           Fits(q) == q \in Kind /\ (q.suppresses => q.over = "http")
<1>1. \A b, d \in BOOLEAN : Fits(HttpProvider(b, d))
  BY DEF HttpProvider
<1>2. Fits(Line) /\ Fits(Jira) /\ Fits(Smtp)
  BY DEF HttpProvider, Line, Jira, Smtp
<1>3. /\ Fits(Slack) /\ Fits(Discord) /\ Fits(Teams) /\ Fits(Telegram) /\ Fits(GoogleChat)
      /\ Fits(Mattermost) /\ Fits(Gotify) /\ Fits(Ntfy) /\ Fits(Pushbullet) /\ Fits(WebPush)
      /\ Fits(HomeAssistant) /\ Fits(Twilio) /\ Fits(TwilioWhatsapp) /\ Fits(Webhook)
      /\ Fits(Sns)
  BY <1>1, Zenon
     DEF Slack, Discord, Teams, Telegram, GoogleChat, Mattermost, Gotify, Ntfy, Pushbullet,
         WebPush, HomeAssistant, Twilio, TwilioWhatsapp, Webhook, Sns
<1>4. /\ Fits(RocketChat) /\ Fits(Zulip) /\ Fits(Pushover) /\ Fits(Bark) /\ Fits(Apprise)
      /\ Fits(Matrix) /\ Fits(Pagerduty) /\ Fits(Resend)
  BY <1>1, Zenon
     DEF RocketChat, Zulip, Pushover, Bark, Apprise, Matrix, Pagerduty, Resend
<1> HIDE DEF Fits
<1>5. Fits(Providers[p])
  BY <1>2, <1>3, <1>4 DEF Providers
<1> QED  BY <1>5 DEF Fits

\* The provider of the row under way.
LEMMA ProviderFits ==
    ASSUME DTypeOK
    PROVE  /\ P.over \in {"http", "jira", "smtp"} /\ P.suppresses \in BOOLEAN
           /\ P.suppresses => P.over = "http"
BY ProviderTable DEF DTypeOK, P

\* An attempt that is recorded leaves the invariant to what it says of the far
\* end: a copy is admitted or delivered, and a delivery has a copy.
LEMMA RecordKeeps ==
    ASSUME DeliveryInv, NEW end, Record(end),
           copies' \in Nat, issue' \in {"none", "open", "done"},
           P.over # "smtp" =>
              copies' <= unknowns + (IF end \in {"delivered", "unknown"} THEN 1 ELSE 0),
           blind' \in BOOLEAN,
           end = "delivered" =>
              \/ copies' > 0 \/ blind'
              \/ P.over = "jira" /\ via.message = "resolution" /\ issue' # "open",
           blind' => /\ end = "delivered"
                     /\ P.bodyProblem \/ (P.over = "jira" /\ via.message = "resolution"),
           P.suppresses => copies' <= 1
    PROVE  DeliveryInv'
<1>1. /\ via' = via /\ attempts' = attempts /\ row' \in {"queued", "delivered", "dead"}
      /\ row' = "delivered" <=> end = "delivered"
      /\ unknowns' = unknowns + (IF end = "unknown" THEN 1 ELSE 0)
  BY DEF Record, DeliveryInv, DTypeOK
<1>2. P' = P
  BY <1>1 DEF P
<1>3. DTypeOK'
  BY <1>1 DEF DeliveryInv, DTypeOK
<1>4. StepFits'
  BY <1>1 DEF StepFits
<1>5. Accounted' /\ CopiesAdmitted'
  BY <1>1, <1>2 DEF DeliveryInv, DTypeOK, Accounted, CopiesAdmitted
<1>6. DeliveredArrived'
  BY <1>1, <1>2 DEF DeliveredArrived
<1> QED  BY <1>3, <1>4, <1>5, <1>6 DEF DeliveryInv, ArrivalTrue

\* An attempt that goes on to its next step has changed nothing but the copies
\* a comment makes.
LEMMA StepKeeps ==
    ASSUME DeliveryInv, row = "claimed", step # "transition",
           UNCHANGED <<via, row, attempts, unknowns, issue, blind>>,
           StepFits', copies' = copies \/ (copies' = copies + 1 /\ step' = "transition"),
           copies' > copies => P.over = "jira",
           step' = "transition" => copies' = copies + 1
    PROVE  DeliveryInv'
<1>1. P' = P
  BY DEF P
<1>2. DTypeOK'
  BY DEF DeliveryInv, DTypeOK
<1>3. P.suppresses => copies' = copies
  BY ProviderFits DEF DeliveryInv, DTypeOK
<1>4. Accounted' /\ CopiesAdmitted'
  BY <1>1, <1>3 DEF DeliveryInv, DTypeOK, Accounted, ArrivalTrue, CopiesAdmitted
<1>5. DeliveredArrived'
  BY <1>1 DEF DeliveryInv, ArrivalTrue, DeliveredArrived
<1> QED  BY <1>2, <1>4, <1>5 DEF DeliveryInv, ArrivalTrue

\* No rejection is taken for a delivery but one in a body that was not read.
LEMMA RejectionRefused ==
    ASSUME NEW answer \in AnswersOnReject
    PROVE  IF answer = "unreadable" THEN P.bodyProblem /\ HttpOutcome(answer) = "delivered"
                                     ELSE HttpOutcome(answer) # "delivered"
BY DEF AnswersOnReject, HttpOutcome, ByStatus

\* Every step of a delivery keeps the invariant.
LEMMA DeliveryNext == DeliveryInv /\ [DNext]_dvars => DeliveryInv'
<1> SUFFICES ASSUME DeliveryInv, [DNext]_dvars PROVE DeliveryInv'
  OBVIOUS
<1>0. /\ DTypeOK /\ StepFits /\ Accounted /\ CopiesAdmitted
      /\ copies \in Nat /\ unknowns \in Nat /\ issue \in {"none", "open", "done"}
      /\ P.over \in {"http", "jira", "smtp"}
      /\ P.suppresses => P.over = "http" /\ copies <= 1
      /\ row # "delivered" => blind = FALSE
  BY ProviderFits DEF DeliveryInv, DTypeOK, ArrivalTrue, CopiesAdmitted, DeliveredArrived
<1>a. ASSUME NEW end, end # "delivered", Record(end), copies' = copies,
             issue' = issue, blind' = FALSE, row = "claimed", step # "transition" \/ end = "unknown"
      PROVE  DeliveryInv'
  <2>1. P.over # "smtp" =>
           copies <= unknowns + (IF end \in {"delivered", "unknown"} THEN 1 ELSE 0)
    BY <1>0, <1>a DEF Accounted
  <2> QED  BY <1>0, <1>a, <2>1, RecordKeeps
<1>1. CASE Claim
  <2>1. P' = P /\ via' = via /\ copies' = copies /\ unknowns' = unknowns /\ issue' = issue
        /\ blind' = blind
    BY <1>1 DEF Claim, P
  <2>2. /\ row' = "claimed" /\ row = "queued" /\ attempts' = attempts + 1 /\ step' # "transition"
        /\ P.over = "http" => step' = "request"
        /\ P.over = "jira" => step' = "search"
        /\ P.over = "smtp" => step' = "greeting"
    BY <1>0, <1>1 DEF Claim
  <2>3. DTypeOK'
    BY <1>0, <2>1, <2>2 DEF DTypeOK
  <2>4. StepFits'
    BY <2>1, <2>2 DEF StepFits, HttpSteps, JiraSteps, SmtpSteps
  <2>5. Accounted' /\ CopiesAdmitted' /\ DeliveredArrived'
    BY <1>0, <2>1, <2>2 DEF Accounted, CopiesAdmitted, DeliveredArrived
  <2> QED  BY <2>3, <2>4, <2>5 DEF DeliveryInv, ArrivalTrue
<1>2. CASE Die
  BY <1>0, <1>2, <1>a DEF Die
<1>3. CASE NotSent
  BY <1>0, <1>3, <1>a DEF NotSent, TransportOutcome
<1>4. CASE Rejected
  <2>1. PICK answer \in AnswersOnReject :
           Record(HttpOutcome(answer)) /\ blind' = (answer = "unreadable")
    BY <1>4 DEF Rejected
  <2>2. /\ row = "claimed" /\ step \in {"request", "search", "create", "comment"}
        /\ copies' = copies /\ issue' = issue
    BY <1>4 DEF Rejected
  <2>3. CASE answer = "unreadable"
    <3>1. blind' = TRUE /\ HttpOutcome(answer) = "delivered" /\ P.bodyProblem
      BY <2>1, <2>3, RejectionRefused
    <3>2. P.over # "smtp" => copies <= unknowns + 1
      BY <1>0, <2>2 DEF Accounted
    <3> HIDE DEF HttpOutcome
    <3>3. Record("delivered")
      BY <2>1, <3>1
    <3> QED  BY <1>0, <2>2, <3>1, <3>2, <3>3, RecordKeeps
  <2>4. CASE answer # "unreadable"
    <3>1. blind' = FALSE /\ HttpOutcome(answer) # "delivered"
      BY <2>1, <2>4, RejectionRefused
    <3> QED  BY <1>a, <2>1, <2>2, <3>1
  <2> QED  BY <2>3, <2>4
<1>5. CASE Request
  <2>1. /\ row = "claimed" /\ step = "request" /\ issue' = issue /\ copies' \in Nat /\ copies' > 0
        /\ blind' = FALSE
        /\ copies' <= copies + 1
        /\ P.suppresses => copies' <= 1
    BY <1>0, <1>5 DEF Request, Accepted, AlreadyThere
  <2>2. PICK end : Record(end) /\ end \in {"delivered", "unknown"}
    BY <1>5 DEF Request, AnswersOnAccept, HttpOutcome, ByStatus, TransportOutcome
  <2>3. P.over # "smtp" => copies' <= unknowns + 1
    BY <1>0, <2>1 DEF Accounted
  <2> QED  BY <1>0, <2>1, <2>2, <2>3, RecordKeeps
<1>6. CASE Search
  <2>1. row = "claimed" /\ step = "search" /\ copies' = copies /\ issue' = issue
    BY <1>6 DEF Search
  <2>2. P.over = "jira"
    BY <1>0, <2>1 DEF StepFits, HttpSteps, SmtpSteps
  <2>3. CASE step' \in {"create", "comment"} /\ UNCHANGED <<via, row, attempts, unknowns, blind>>
    <3>1. StepFits'
      BY <2>2, <2>3 DEF StepFits, P, JiraSteps
    <3> QED  BY <1>0, <2>1, <2>3, <3>1, StepKeeps
  <2>4. CASE via.message = "resolution" /\ Record("delivered") /\ blind' = (issue = "open")
    <3>1. copies <= unknowns + 1
      BY <1>0, <2>1, <2>2 DEF Accounted
    <3> QED  BY <1>0, <2>1, <2>2, <2>4, <3>1, RecordKeeps
  <2> QED  BY <1>6, <2>3, <2>4 DEF Search
<1>7. CASE Create
  <2>1. /\ row = "claimed" /\ step = "create" /\ copies' = copies + 1 /\ issue' = "open"
        /\ blind' = FALSE /\ \E end \in {"delivered", "unknown"} : Record(end)
    BY <1>0, <1>7 DEF Create, TransportOutcome
  <2>2. P.over = "jira" /\ ~ P.suppresses
    BY <1>0, <2>1 DEF StepFits, HttpSteps, SmtpSteps
  <2>3. copies' \in Nat /\ copies' > 0 /\ copies' <= unknowns + 1
    BY <1>0, <2>1, <2>2 DEF Accounted
  <2> QED  BY <2>1, <2>2, <2>3, RecordKeeps
<1>8. CASE Comment
  <2>1. row = "claimed" /\ step = "comment" /\ copies' = copies + 1 /\ issue' = issue
        /\ blind' = blind /\ blind = FALSE
    BY <1>0, <1>8 DEF Comment
  <2>2. P.over = "jira" /\ ~ P.suppresses
    BY <1>0, <2>1 DEF StepFits, HttpSteps, SmtpSteps
  <2>3. copies' \in Nat /\ copies' > 0 /\ copies' <= unknowns + 1
    BY <1>0, <2>1, <2>2 DEF Accounted
  <2>4. ASSUME NEW end \in {"delivered", "unknown"}, Record(end) PROVE DeliveryInv'
    BY <1>0, <2>1, <2>2, <2>3, <2>4, RecordKeeps
  <2>5. CASE step' = "transition" /\ UNCHANGED <<via, row, attempts, unknowns>>
    <3>1. StepFits'
      BY <2>2, <2>5 DEF StepFits, P, JiraSteps
    <3> QED  BY <2>1, <2>2, <2>5, <3>1, StepKeeps
  <2> QED  BY <1>8, <2>4, <2>5 DEF Comment, TransportOutcome
<1>9. CASE Transition
  <2>1. /\ row = "claimed" /\ step = "transition" /\ copies' = copies /\ blind' = FALSE
        /\ issue' \in {"none", "open", "done"} /\ Record("delivered")
    BY <1>0, <1>9 DEF Transition
  <2>2. P.over = "jira" /\ ~ P.suppresses
    BY <1>0, <2>1 DEF StepFits, HttpSteps, SmtpSteps
  <2>3. copies > 0 /\ copies <= unknowns + 1
    BY <1>0, <2>1, <2>2 DEF Accounted
  <2> QED  BY <1>0, <2>1, <2>2, <2>3, RecordKeeps
<1>10. CASE SmtpReply
  <2>1. /\ row = "claimed" /\ step \in {"greeting", "envelope", "data"}
        /\ copies' = copies /\ issue' = issue /\ blind' = blind /\ blind = FALSE
    BY <1>0, <1>10 DEF SmtpReply
  <2>2. P.over = "smtp"
    BY <1>0, <2>1 DEF StepFits, HttpSteps, JiraSteps
  <2>3. CASE /\ step' \in {"envelope", "data", "message"}
             /\ UNCHANGED <<via, row, attempts, unknowns, blind>>
    <3>1. StepFits'
      BY <2>2, <2>3 DEF StepFits, P, SmtpSteps
    <3> QED  BY <1>0, <2>1, <2>3, <3>1, StepKeeps
  <2>4. ASSUME NEW reply \in {"refused4xx", "refused5xx", "lost"}, Record(SmtpOutcome(reply))
        PROVE  DeliveryInv'
    BY <1>a, <2>1, <2>4 DEF SmtpOutcome
  <2> QED  BY <1>10, <2>1, <2>3, <2>4 DEF SmtpReply
<1>11. CASE SmtpMessage
  <2>1. row = "claimed" /\ step = "message" /\ issue' = issue /\ blind' = FALSE
    BY <1>0, <1>11 DEF SmtpMessage
  <2>2. P.over = "smtp" /\ ~ P.suppresses
    BY <1>0, <2>1 DEF StepFits, HttpSteps, JiraSteps
  <2>3. ASSUME NEW end, copies' = copies + 1, Record(end) PROVE DeliveryInv'
    <3>1. copies' \in Nat /\ copies' > 0 /\ issue' \in {"none", "open", "done"} /\ ~ blind'
      BY <1>0, <2>1, <2>3
    <3> QED  BY <1>0, <2>1, <2>2, <2>3, <3>1, RecordKeeps
  <2>4. ASSUME NEW reply \in {"refused4xx", "refused5xx", "lost"}, copies' = copies,
               Record(SmtpOutcome(reply))
        PROVE  DeliveryInv'
    BY <1>a, <2>1, <2>4 DEF SmtpOutcome
  <2> QED  BY <1>11, <2>3, <2>4 DEF SmtpMessage
<1>12. CASE UNCHANGED dvars
  BY <1>12 DEF dvars, DeliveryInv, DTypeOK, StepFits, Accounted, ArrivalTrue,
               DeliveredArrived, CopiesAdmitted, P
<1> QED
  BY <1>1, <1>2, <1>3, <1>4, <1>5, <1>6, <1>7, <1>8, <1>9, <1>10, <1>11, <1>12 DEF DNext

\* The inductive invariant of a delivery holds throughout.
THEOREM DeliveryInvariant == DSpec => []DeliveryInv
<1>1. ASSUME DInit PROVE DeliveryInv
  <2>1. /\ row = "queued" /\ copies = 0 /\ unknowns = 0 /\ attempts = 0 /\ blind = FALSE
    BY <1>1 DEF DInit
  <2>2. DTypeOK
    <3>1. via \in [provider : DOMAIN Providers, message : {"alert", "resolution"}]
      BY <1>1 DEF DInit
    <3>2. issue \in {"none", "open", "done"}
      <4>1. CASE via.provider = "jira"
        BY <1>1, <4>1 DEF DInit
      <4>2. CASE via.provider # "jira"
        BY <1>1, <4>2 DEF DInit
      <4> QED  BY <4>1, <4>2
    <3> QED  BY <2>1, <3>1, <3>2 DEF DTypeOK
  <2>3. StepFits /\ Accounted /\ CopiesAdmitted
    BY <2>1 DEF StepFits, Accounted, CopiesAdmitted
  <2>4. DeliveredArrived
    BY <2>1 DEF DeliveredArrived
  <2> QED  BY <2>2, <2>3, <2>4 DEF DeliveryInv, ArrivalTrue
<1> QED  BY <1>1, DeliveryNext, PTL DEF DSpec

\* What the row says is what happened at the far end, through every provider,
\* however often answers are lost and workers die, but for a refusal in a body that
\* was not read and a resolution whose search missed its issue.
THEOREM ArrivalSafe == DSpec => []ArrivalTrue
BY DeliveryInvariant, PTL DEF DeliveryInv

-----------------------------------------------------------------------------
(* Bursts *)

Dials == {"dns", "tcp", "tls", "http"}

StepRecords == [kind : Dials, ok : BOOLEAN, by : Enders]

Skips == {None, "shadow", "disabled", "high-frequency", "no-target", "refused", "concurrency"}

CaptureVerdicts ==
    [stage : Dials \cup {None, "browser", "application", "unknown"},
     basis : {None, "measured", "reported", "assertion", "unknown"}]

CaptureRecord ==
    [at : Dials \cup {"idle", "built", "storing", "over"}, onset : Onsets \cup {None},
     spent : Nat, steps : Seq(StepRecords), skipped : Skips, verdict : CaptureVerdicts]

OnsetRecord == [monitor : BurstMonitors, shadow : BOOLEAN, age : {"open", "resolved", "old"}]

BTypeOK ==
    /\ onset \in [Onsets -> OnsetRecord]
    /\ capture \in [Captures -> CaptureRecord]
    /\ inFlight \in Nat
    /\ DOMAIN evidence \subseteq Onsets

Burning == {c \in Captures : Dialling(c)}

\* Every burst that dials is counted once.
Admitted ==
    /\ IsFiniteSet(Burning)
    /\ inFlight = Cardinality(Burning)
    /\ inFlight <= MAX_CONCURRENT_BURSTS

\* The budget, and the steps a burst can have behind it where it is.
Paced(q) ==
    /\ q.spent <= BURST_BUDGET
    /\ Len(q.steps) <= BURST_MAX_STEPS
    /\ q.at = "dns" => Len(q.steps) = 0
    /\ q.at = "tcp" => Len(q.steps) <= 1
    /\ q.at = "tls" => Len(q.steps) <= 2
    /\ q.at = "http" => Len(q.steps) <= 3

\* Only a burst's last step can have failed, and it ends the burst.
Clean(q) ==
    \A n \in 1 .. Len(q.steps) : n < Len(q.steps) \/ q.at \in Dials => q.steps[n].ok

\* Whatever was dialled was an active monitor's, out of shadow.
Dialled(q) ==
    q.at \in Dials \/ q.steps # <<>> =>
        ~ onset[q.onset].shadow /\ onset[q.onset].monitor.kind = "active"

Begun(q) ==
    q.at \in Dials \cup {"built", "storing"} \/ q.steps # <<>> => q.onset \in Onsets

\* LayerObserved, of a verdict v and the steps it was taken from.
Observes(i, v, steps) ==
    /\ v.basis = "measured" =>
         \E n \in DOMAIN steps :
            /\ steps[n].kind = v.stage /\ ~ steps[n].ok
            /\ steps[n].by # "vigil"
            /\ \A k \in 1..(n - 1) : steps[k].ok
    /\ onset[i].monitor.kind # "active" => v.stage = "unknown"
    /\ onset[i].shadow => steps = <<>>

Filed(q) == q.at = "storing" => Observes(q.onset, q.verdict, q.steps)

Sound(q) == Paced(q) /\ Clean(q) /\ Dialled(q) /\ Begun(q) /\ Filed(q)

AllSound == \A c \in Captures : Sound(capture[c])

AllObserved == \A i \in DOMAIN evidence : Observes(i, evidence[i].verdict, evidence[i].steps)

\* The inductive invariant.
BurstInv == BTypeOK /\ Admitted /\ AllSound /\ AllObserved

-----------------------------------------------------------------------------
\* The captures that have not begun, or are over, satisfy everything.
LEMMA RestSound ==
    ASSUME NEW q \in {NotBegun, Over}
    PROVE  q \in CaptureRecord /\ q.at \notin Dials /\ Sound(q)
<1>1. /\ q \in CaptureRecord /\ q.at \in {"idle", "over"} /\ q.steps = <<>> /\ q.spent = 0
  <2>1. NotBegun \in CaptureRecord
    BY DEF NotBegun, CaptureRecord, Skips, CaptureVerdicts, Dials
  <2>2. NotBegun.at = "idle" /\ NotBegun.steps = <<>> /\ NotBegun.spent = 0
    BY DEF NotBegun
  <2>3. /\ Over \in CaptureRecord /\ Over.at = "over"
        /\ Over.steps = NotBegun.steps /\ Over.spent = NotBegun.spent
    BY <2>1 DEF Over, CaptureRecord
  <2> QED  BY <2>1, <2>2, <2>3
<1>2. Len(q.steps) = 0
  BY <1>1
<1> QED
  BY <1>1, <1>2, BurstConstants
     DEF Sound, Paced, Clean, Dialled, Begun, Filed, Dials, BURST_MAX_STEPS

\* A step never outlasts what is left of the budget.
LEMMA SliceFits ==
    ASSUME NEW spent \in Nat, spent <= BURST_BUDGET, NEW d \in 0 .. Slice(spent)
    PROVE  spent + d \in Nat /\ spent + d <= BURST_BUDGET
<1>1. BURST_BUDGET \in Nat /\ BURST_STEP_TIMEOUT \in Nat
  BY BurstConstants
<1>2. Slice(spent) \in Nat /\ Slice(spent) <= BURST_BUDGET - spent
  BY <1>1 DEF Slice
<1> QED  BY <1>1, <1>2

\* Types that dial nothing are no browser checks.
LEMMA MonitorKinds ==
    ASSUME NEW m \in BurstMonitors
    PROVE  m.kind # "active" => m.type # "synthetic-browser"
BY DEF BurstMonitors, MonitorOfType

\* A new row is read as it was stored, and an old one stays.
LEMMA InsertReads ==
    ASSUME NEW i, NEW v
    PROVE  /\ DOMAIN Inserted(i, v) = DOMAIN evidence \cup {i}
           /\ \A j \in DOMAIN evidence : Inserted(i, v)[j] = evidence[j]
           /\ i \notin DOMAIN evidence => Inserted(i, v)[i] = v
BY DEF Inserted

-----------------------------------------------------------------------------
\* The count follows the bursts that dial: unchanged ...
LEMMA AdmittedSame ==
    ASSUME Admitted, Burning' = Burning, inFlight' = inFlight
    PROVE  Admitted'
BY DEF Admitted

\* ... one more, admitted below the limit ...
LEMMA AdmittedMore ==
    ASSUME Admitted, inFlight \in Nat, NEW c, c \notin Burning,
           Burning' = Burning \cup {c}, inFlight < MAX_CONCURRENT_BURSTS,
           inFlight' = inFlight + 1
    PROVE  Admitted'
<1>1. IsFiniteSet(Burning') /\ Cardinality(Burning') = Cardinality(Burning) + 1
  BY FS_AddElement DEF Admitted
<1> QED  BY <1>1, BurstConstants DEF Admitted

\* ... or one less.
LEMMA AdmittedLess ==
    ASSUME Admitted, inFlight \in Nat, NEW c \in Burning,
           Burning' = Burning \ {c}, inFlight' = inFlight - 1
    PROVE  Admitted' /\ inFlight' \in Nat
<1>1. IsFiniteSet(Burning') /\ Cardinality(Burning') = Cardinality(Burning) - 1
  BY FS_RemoveElement DEF Admitted
<1>2. inFlight # 0
  BY FS_EmptySet DEF Admitted
<1> QED  BY <1>1, <1>2, BurstConstants DEF Admitted

\* What a step of one capture leaves to show: its own record, and the count.
LEMMA CaptureWritten ==
    ASSUME BurstInv, NEW c \in Captures, NEW q \in CaptureRecord, Sound(q),
           capture' = [capture EXCEPT ![c] = q], onset' = onset, evidence' = evidence
    PROVE  /\ capture' \in [Captures -> CaptureRecord]
           /\ capture'[c] = q
           /\ AllSound' /\ AllObserved'
           /\ Burning' = IF q.at \in Dials THEN Burning \cup {c} ELSE Burning \ {c}
<1>1. capture \in [Captures -> CaptureRecord]
  BY DEF BurstInv, BTypeOK
<1>2. /\ capture' \in [Captures -> CaptureRecord] /\ capture'[c] = q
      /\ \A k \in Captures : k # c => capture'[k] = capture[k]
  BY <1>1
<1>3. \A x : Sound(x) => Sound(x)'
  BY DEF Sound, Paced, Clean, Dialled, Begun, Filed, Observes
<1>4. AllSound'
  <2> SUFFICES ASSUME NEW k \in Captures PROVE Sound(capture[k])'
    BY DEF AllSound
  <2>1. PICK x : x = capture'[k]
    OBVIOUS
  <2>2. Sound(x)
    BY <1>2, <2>1 DEF BurstInv, AllSound
  <2>3. Sound(x)'
    BY <1>3, <2>2
  <2> QED
    BY <2>1, <2>3 DEF Sound, Paced, Clean, Dialled, Begun, Filed, Observes
<1>5. AllObserved'
  BY DEF BurstInv, AllObserved, Observes
<1>6. Burning' = IF q.at \in Dials THEN Burning \cup {c} ELSE Burning \ {c}
  BY <1>2 DEF Burning, Dialling, Dials
<1> QED  BY <1>2, <1>4, <1>5, <1>6

\* A capture of an incident in shadow, or of a monitor with nothing to dial,
\* dials nothing, and a burst begins only below the limit.
LEMMA BeginsInv ==
    ASSUME BurstInv, NEW c \in Captures, NEW i \in Onsets, NEW enabled \in BOOLEAN,
           CaptureBegins(c, i, enabled)
    PROVE  BurstInv'
<1>1. PICK why : why = SkipReason(i, enabled)
  OBVIOUS
<1>2. /\ why \in Skips
      /\ why = None => /\ ~ onset[i].shadow /\ onset[i].monitor.kind = "active"
                       /\ ~ (inFlight >= MAX_CONCURRENT_BURSTS)
  BY <1>1 DEF SkipReason, HasTarget, Skips, None
<1>3. PICK q : q = [NotBegun EXCEPT !.at = IF why = None THEN "dns" ELSE "built",
                                    !.onset = i, !.skipped = why]
  OBVIOUS
<1>4. /\ q \in CaptureRecord /\ q.onset = i /\ q.steps = <<>> /\ q.spent = 0
      /\ q.at = IF why = None THEN "dns" ELSE "built"
  <2>1. NotBegun \in CaptureRecord /\ NotBegun.steps = <<>> /\ NotBegun.spent = 0
    <3>1. NotBegun \in CaptureRecord
      BY RestSound
    <3> QED  BY <3>1 DEF NotBegun
  <2> QED  BY <1>2, <1>3, <2>1 DEF CaptureRecord, Dials
<1>5. Sound(q)
  <2>1. Len(q.steps) = 0
    BY <1>4
  <2> QED
    BY <1>2, <1>4, <2>1, BurstConstants
       DEF Sound, Paced, Clean, Dialled, Begun, Filed, Dials, BURST_MAX_STEPS
<1>6. /\ capture[c].at = "idle" /\ capture' = [capture EXCEPT ![c] = q]
      /\ onset' = onset /\ evidence' = evidence
      /\ inFlight' = IF why = None THEN inFlight + 1 ELSE inFlight
  BY <1>1, <1>3 DEF CaptureBegins
<1>7. /\ capture' \in [Captures -> CaptureRecord] /\ AllSound' /\ AllObserved'
      /\ Burning' = IF q.at \in Dials THEN Burning \cup {c} ELSE Burning \ {c}
  BY <1>4, <1>5, <1>6, CaptureWritten
<1>8. c \notin Burning
  BY <1>6 DEF Burning, Dialling
<1>9. Admitted /\ inFlight \in Nat /\ MAX_CONCURRENT_BURSTS \in Nat
  BY BurstConstants DEF BurstInv, BTypeOK
<1>10. Admitted' /\ inFlight' \in Nat
  <2>1. CASE why = None
    <3>1. Burning' = Burning \cup {c} /\ inFlight < MAX_CONCURRENT_BURSTS
      BY <1>2, <1>4, <1>7, <1>9, <2>1 DEF Dials
    <3> QED  BY <1>6, <1>8, <1>9, <2>1, <3>1, AdmittedMore
  <2>2. CASE why # None
    <3>1. Burning' = Burning
      BY <1>4, <1>7, <1>8, <2>2 DEF Dials
    <3> QED  BY <1>6, <1>9, <2>2, <3>1, AdmittedSame
  <2> QED  BY <2>1, <2>2
<1> QED  BY <1>6, <1>7, <1>10 DEF BurstInv, BTypeOK

\* The steps follow one another, each once.
LEMMA StepOrder ==
    ASSUME NEW kind \in Dials, NEW target, NEW spent
    PROVE  LET next == StepAfter(kind, target, spent)
           IN  /\ next \in {"tcp", "tls", "http", "built"}
               /\ next = "tcp" => kind = "dns"
               /\ next = "tls" => kind = "tcp"
               /\ next = "http" => kind \in {"tcp", "tls"}
BY DEF StepAfter, Dials

\* A burst's next step, or its end.
LEMMA StepInv ==
    ASSUME BurstInv, NEW c \in Captures, NEW d \in 0 .. Slice(capture[c].spent),
           NEW ok \in BOOLEAN, NEW by \in Enders,
           StepEnds(c, d, ok, by)
    PROVE  BurstInv'
<1>1. PICK p \in CaptureRecord : p = capture[c] /\ Sound(p) /\ p.at \in Dials
  BY DEF BurstInv, BTypeOK, AllSound, StepEnds, Dialling, Dials
<1>2. PICK next : next = IF ok THEN StepAfter(p.at, BurstTargetFor(onset[p.onset].monitor),
                                              p.spent + d)
                               ELSE "built"
  OBVIOUS
<1>3. PICK s : s = StepRecord(p.at, ok, by)
  OBVIOUS
<1>4. s \in StepRecords /\ s.ok = ok
  BY <1>1, <1>3 DEF StepRecord, StepRecords
<1>5. /\ next \in {"tcp", "tls", "http", "built"}
      /\ next # "built" => ok
      /\ next = "tcp" => p.at = "dns"
      /\ next = "tls" => p.at = "tcp"
      /\ next = "http" => p.at \in {"tcp", "tls"}
  BY <1>1, <1>2, StepOrder
<1>6. PICK q : q = [p EXCEPT !.at = next, !.spent = p.spent + d, !.steps = Append(p.steps, s)]
  OBVIOUS
<1>7. /\ capture' = [capture EXCEPT ![c] = q] /\ onset' = onset /\ evidence' = evidence
      /\ inFlight' = IF next = "built" THEN inFlight - 1 ELSE inFlight
  BY <1>1, <1>2, <1>3, <1>6 DEF StepEnds
<1>8. /\ p.spent + d \in Nat /\ p.spent + d <= BURST_BUDGET
  <2>1. p.spent \in Nat /\ p.spent <= BURST_BUDGET
    BY <1>1 DEF CaptureRecord, Sound, Paced
  <2> QED  BY <1>1, <2>1, SliceFits
<1>9. /\ p.steps \in Seq(StepRecords) /\ Append(p.steps, s) \in Seq(StepRecords)
      /\ Len(Append(p.steps, s)) = Len(p.steps) + 1 /\ Len(p.steps) \in Nat
      /\ \A n \in 1 .. Len(p.steps) : Append(p.steps, s)[n] = p.steps[n]
      /\ Append(p.steps, s)[Len(p.steps) + 1] = s
  BY <1>1, <1>4 DEF CaptureRecord
<1>10. /\ q \in CaptureRecord /\ q.at = next /\ q.spent = p.spent + d
       /\ q.steps = Append(p.steps, s) /\ q.onset = p.onset
  BY <1>5, <1>6, <1>8, <1>9 DEF CaptureRecord, Dials
<1>11. Sound(q)
  <2>1. Paced(q)
    BY <1>1, <1>5, <1>8, <1>9, <1>10 DEF Sound, Paced, BURST_MAX_STEPS, Dials
  <2>2. Clean(q)
    <3> SUFFICES ASSUME NEW n \in 1 .. Len(q.steps), n < Len(q.steps) \/ q.at \in Dials
                 PROVE  q.steps[n].ok
      BY DEF Clean
    <3>1. CASE n \in 1 .. Len(p.steps)
      BY <1>1, <1>9, <1>10, <3>1 DEF Sound, Clean
    <3>2. CASE n = Len(p.steps) + 1
      BY <1>4, <1>5, <1>9, <1>10, <3>2 DEF Dials
    <3> QED  BY <1>9, <1>10, <3>1, <3>2
  <2>3. Dialled(q) /\ Begun(q) /\ Filed(q)
    BY <1>1, <1>5, <1>10 DEF Sound, Dialled, Begun, Filed
  <2> QED  BY <2>1, <2>2, <2>3 DEF Sound
<1>12. /\ capture' \in [Captures -> CaptureRecord] /\ AllSound' /\ AllObserved'
       /\ Burning' = IF q.at \in Dials THEN Burning \cup {c} ELSE Burning \ {c}
  BY <1>7, <1>10, <1>11, CaptureWritten
<1>13. c \in Burning
  BY <1>1 DEF Burning, Dialling, Dials
<1>14. Admitted' /\ inFlight' \in Nat
  <2>1. CASE next = "built"
    <3>1. Burning' = Burning \ {c} /\ inFlight' = inFlight - 1
      BY <1>7, <1>10, <1>12, <2>1 DEF Dials
    <3> QED  BY <1>13, <3>1, AdmittedLess DEF BurstInv, BTypeOK
  <2>2. CASE next # "built"
    <3>1. Burning' = Burning /\ inFlight' = inFlight
      BY <1>5, <1>7, <1>10, <1>12, <1>13, <2>2 DEF Dials
    <3> QED  BY <3>1, AdmittedSame DEF BurstInv, BTypeOK
  <2> QED  BY <2>1, <2>2
<1> QED  BY <1>7, <1>12, <1>14 DEF BurstInv, BTypeOK

\* A burst that ends, with what it has.
LEMMA LeavesInv ==
    ASSUME BurstInv, NEW c \in Captures, NEW q \in CaptureRecord, Sound(q), q.at \notin Dials,
           capture' = [capture EXCEPT ![c] = q], onset' = onset, evidence' = evidence,
           inFlight' = IF Dialling(c) THEN inFlight - 1 ELSE inFlight
    PROVE  BurstInv'
<1>1. /\ capture' \in [Captures -> CaptureRecord] /\ AllSound' /\ AllObserved'
      /\ Burning' = Burning \ {c}
  BY CaptureWritten
<1>2. Admitted' /\ inFlight' \in Nat
  <2>1. CASE Dialling(c)
    <3>1. c \in Burning
      BY <2>1 DEF Burning
    <3> QED  BY <1>1, <2>1, <3>1, AdmittedLess DEF BurstInv, BTypeOK
  <2>2. CASE ~ Dialling(c)
    <3>1. Burning' = Burning
      BY <1>1, <2>2 DEF Burning
    <3> QED  BY <2>2, <3>1, AdmittedSame DEF BurstInv, BTypeOK
  <2> QED  BY <2>1, <2>2
<1> QED  BY <1>1, <1>2 DEF BurstInv, BTypeOK

\* An address the policy refuses ends the burst after its lookup.
LEMMA RefusedInv ==
    ASSUME BurstInv, NEW c \in Captures, NEW d \in 0 .. Slice(capture[c].spent),
           AddressRefused(c, d)
    PROVE  BurstInv'
<1>1. PICK p \in CaptureRecord : p = capture[c] /\ Sound(p) /\ p.at = "dns"
  BY DEF BurstInv, BTypeOK, AllSound, AddressRefused
<1>2. PICK s : s = StepRecord("dns", TRUE, "target")
  OBVIOUS
<1>3. s \in StepRecords /\ s.ok
  BY <1>2 DEF StepRecord, StepRecords, Dials, Enders
<1>4. PICK q : q = [p EXCEPT !.at = "built", !.spent = p.spent + d, !.skipped = "refused",
                             !.steps = <<s>>]
  OBVIOUS
<1>5. p.spent + d \in Nat /\ p.spent + d <= BURST_BUDGET
  <2>1. p.spent \in Nat /\ p.spent <= BURST_BUDGET
    BY <1>1 DEF CaptureRecord, Sound, Paced
  <2> QED  BY <1>1, <2>1, SliceFits
<1>6. <<s>> \in Seq(StepRecords) /\ Len(<<s>>) = 1 /\ <<s>>[1] = s
  BY <1>3
<1>7. /\ q \in CaptureRecord /\ q.at = "built" /\ q.spent = p.spent + d
      /\ q.steps = <<s>> /\ q.onset = p.onset
  BY <1>4, <1>5, <1>6 DEF CaptureRecord, Skips
<1>8. Sound(q)
  BY <1>1, <1>3, <1>5, <1>6, <1>7
     DEF Sound, Paced, Clean, Dialled, Begun, Filed, BURST_MAX_STEPS, Dials
<1>9. /\ capture' = [capture EXCEPT ![c] = q] /\ onset' = onset /\ evidence' = evidence
      /\ inFlight' = inFlight - 1 /\ Dialling(c)
  BY <1>1, <1>2, <1>4 DEF AddressRefused, Dialling
<1>10. q.at \notin Dials
  BY <1>7 DEF Dials
<1> QED  BY <1>7, <1>8, <1>9, <1>10, LeavesInv

\* The layer a finished burst is filed under is one its own steps observed.
LEMMA ClassifyFiles ==
    ASSUME NEW i \in Onsets, NEW steps \in Seq(StepRecords), onset[i] \in OnsetRecord,
           \A n \in 1 .. Len(steps) : n < Len(steps) => steps[n].ok,
           steps # <<>> => ~ onset[i].shadow /\ onset[i].monitor.kind = "active",
           NEW failure \in Observed(onset[i].monitor)
    PROVE  LET v == ClassifyStage(failure, onset[i].monitor, steps)
           IN  v \in CaptureVerdicts /\ Observes(i, v, steps)
<1>1. PICK m \in BurstMonitors : m = onset[i].monitor
  BY DEF OnsetRecord
<1>2. PICK failed : failed = FailedSteps(steps)
  OBVIOUS
<1>3. PICK v : v = ClassifyStage(failure, m, steps)
  OBVIOUS
<1>4. /\ failure.class \in {"assertion", "unavailable", "misconfigured"}
      /\ m.kind # "active" => /\ failure.class = "assertion" /\ ~ failure.answered
                              /\ m.type # "synthetic-browser"
  BY <1>1, MonitorKinds DEF Observed, ObservedFailures
<1>5. onset[i].shadow => steps = <<>>
  OBVIOUS
<1>6. CASE failed # {}
  <2>1. PICK n : n = First(failed)
    OBVIOUS
  <2>2. \A k \in failed : k \in 1 .. Len(steps) /\ k = Len(steps) /\ ~ steps[k].ok
                          /\ steps[k].by # "vigil"
    BY <1>2 DEF FailedSteps, SelfInflicted
  <2>3. failed = {Len(steps)}
    BY <1>6, <2>2
  <2>4. n = Len(steps)
    BY <2>1, <2>2, <2>3 DEF First
  <2>5. /\ n \in DOMAIN steps /\ n \in 1 .. Len(steps) /\ ~ steps[n].ok /\ steps[n].by # "vigil"
        /\ steps[n] \in StepRecords
    BY <2>2, <2>3, <2>4
  <2>6. v = Verdict(steps[n].kind, "measured")
    BY <1>2, <1>3, <1>6, <2>1 DEF ClassifyStage
  <2>7. v \in CaptureVerdicts /\ v.stage = steps[n].kind /\ v.basis = "measured"
    BY <2>5, <2>6 DEF Verdict, CaptureVerdicts, StepRecords
  <2>8. \A k \in 1 .. (n - 1) : steps[k].ok
    BY <2>4, <2>5
  <2>9. steps # <<>>
    BY <2>5
  <2> QED  BY <1>1, <1>3, <1>5, <2>5, <2>7, <2>8, <2>9 DEF Observes
<1>7. CASE failed = {}
  <2>1. \E stage \in {"dns", "tcp", "tls", "http", "browser", "application", "unknown"} :
        \E basis \in {"reported", "assertion", "unknown"} :
           /\ v = Verdict(stage, basis)
           /\ m.kind # "active" => stage = "unknown"
    <3>1. failed # {} \/ failure.class = "misconfigured" \/ failure.class = "assertion"
          \/ failure.class = "unavailable"
      BY <1>4
    <3>2. CASE m.kind # "active"
      <4>1. v = Verdict("unknown", "unknown")
        BY <1>2, <1>3, <1>4, <1>7, <3>2 DEF ClassifyStage
      <4> QED  BY <4>1
    <3>3. CASE m.kind = "active"
      BY <1>2, <1>3, <1>4, <1>7, <3>3 DEF ClassifyStage, Named
    <3> QED  BY <3>2, <3>3
  <2>2. /\ v \in CaptureVerdicts /\ v.basis # "measured"
        /\ m.kind # "active" => v.stage = "unknown"
    BY <2>1 DEF Verdict, CaptureVerdicts, Dials
  <2> QED  BY <1>1, <1>3, <1>5, <2>2 DEF Observes
<1> QED  BY <1>6, <1>7

\* The snapshot is built from what the burst left.
LEMMA BuildInv ==
    ASSUME BurstInv, NEW c \in Captures, NEW failure \in ObservedFailures,
           BuildSnapshot(c, failure)
    PROVE  BurstInv'
<1>1. PICK p \in CaptureRecord : p = capture[c] /\ Sound(p) /\ p.at = "built"
  BY DEF BurstInv, BTypeOK, AllSound, BuildSnapshot
<1>2. p.onset \in Onsets /\ onset[p.onset] \in OnsetRecord /\ p.steps \in Seq(StepRecords)
  BY <1>1 DEF Sound, Begun, BurstInv, BTypeOK, CaptureRecord
<1>3. PICK v : v = ClassifyStage(failure, onset[p.onset].monitor, p.steps)
  OBVIOUS
<1>4. failure \in Observed(onset[p.onset].monitor)
  BY <1>1 DEF BuildSnapshot
<1>5. v \in CaptureVerdicts /\ Observes(p.onset, v, p.steps)
  <2>1. \A n \in 1 .. Len(p.steps) : n < Len(p.steps) => p.steps[n].ok
    BY <1>1 DEF Sound, Clean
  <2>2. p.steps # <<>> => ~ onset[p.onset].shadow /\ onset[p.onset].monitor.kind = "active"
    BY <1>1 DEF Sound, Dialled
  <2> QED  BY <1>2, <1>3, <1>4, <2>1, <2>2, ClassifyFiles
<1>6. PICK q : q = [p EXCEPT !.at = "storing", !.verdict = v]
  OBVIOUS
<1>7. /\ q \in CaptureRecord /\ q.at = "storing" /\ q.verdict = v
      /\ q.onset = p.onset /\ q.steps = p.steps /\ q.spent = p.spent
  BY <1>5, <1>6 DEF CaptureRecord
<1>8. Sound(q)
  BY <1>1, <1>2, <1>5, <1>7 DEF Sound, Paced, Clean, Dialled, Begun, Filed, Dials
<1>9. /\ capture' = [capture EXCEPT ![c] = q] /\ onset' = onset /\ evidence' = evidence
      /\ inFlight' = inFlight /\ ~ Dialling(c)
  BY <1>1, <1>3, <1>6 DEF BuildSnapshot, Dialling
<1>10. q.at \notin Dials
  BY <1>7 DEF Dials
<1> QED  BY <1>7, <1>8, <1>9, <1>10, LeavesInv

\* A capture that fails is over.
LEMMA FailsInv ==
    ASSUME BurstInv, NEW c \in Captures, CaptureFails(c)
    PROVE  BurstInv'
<1>1. Over \in CaptureRecord /\ Over.at \notin Dials /\ Sound(Over)
  BY RestSound
<1>2. /\ capture' = [capture EXCEPT ![c] = Over] /\ onset' = onset /\ evidence' = evidence
      /\ inFlight' = inFlight /\ ~ Dialling(c)
  BY DEF CaptureFails, Dialling
<1> QED  BY <1>1, <1>2, LeavesInv

\* The row a capture leaves is what it filed, or the row that was there.
LEMMA StoreInv ==
    ASSUME BurstInv, NEW c \in Captures, StoreSnapshot(c)
    PROVE  BurstInv'
<1>1. Over \in CaptureRecord /\ Over.at \notin Dials /\ Sound(Over)
  BY RestSound
<1>2. PICK p \in CaptureRecord : p = capture[c] /\ Sound(p) /\ p.at = "storing"
  BY DEF BurstInv, BTypeOK, AllSound, StoreSnapshot
<1>3. PICK kept : kept = [verdict |-> p.verdict, steps |-> p.steps, skipped |-> p.skipped]
  OBVIOUS
<1>4. kept.verdict = p.verdict /\ kept.steps = p.steps
  BY <1>3
<1>5. /\ capture' = [capture EXCEPT ![c] = Over] /\ onset' = onset /\ inFlight' = inFlight
      /\ evidence' = Inserted(p.onset, kept)
  BY <1>2, <1>3 DEF StoreSnapshot
<1>6. /\ DOMAIN evidence' = DOMAIN evidence \cup {p.onset}
      /\ \A j \in DOMAIN evidence : evidence'[j] = evidence[j]
      /\ p.onset \notin DOMAIN evidence => evidence'[p.onset] = kept
  BY <1>5 DEF Inserted
<1>7. p.onset \in Onsets /\ Observes(p.onset, kept.verdict, kept.steps)
  BY <1>2, <1>4 DEF Sound, Begun, Filed
<1>8. AllObserved'
  <2> SUFFICES ASSUME NEW j \in DOMAIN evidence'
               PROVE  Observes(j, evidence[j].verdict, evidence[j].steps)'
    BY DEF AllObserved
  <2>1. Observes(j, evidence'[j].verdict, evidence'[j].steps)
    BY <1>6, <1>7 DEF BurstInv, AllObserved
  <2> QED  BY <1>5, <2>1 DEF Observes
<1>9. /\ capture' \in [Captures -> CaptureRecord]
      /\ \A k \in Captures : capture'[k] = IF k = c THEN Over ELSE capture[k]
  BY <1>1, <1>5 DEF BurstInv, BTypeOK
<1>10. AllSound'
  <2>1. \A x : Sound(x) => Sound(x)'
    BY <1>5 DEF Sound, Paced, Clean, Dialled, Begun, Filed, Observes
  <2> SUFFICES ASSUME NEW k \in Captures PROVE Sound(capture[k])'
    BY DEF AllSound
  <2>2. PICK x : x = capture'[k]
    OBVIOUS
  <2>3. Sound(x)
    BY <1>1, <1>9, <2>2 DEF BurstInv, AllSound
  <2>4. Sound(x)'
    BY <2>1, <2>3
  <2> QED
    BY <2>2, <2>4 DEF Sound, Paced, Clean, Dialled, Begun, Filed, Observes
<1>11. Burning' = Burning
  BY <1>1, <1>2, <1>9 DEF Burning, Dialling, Dials
<1>12. Admitted'
  BY <1>5, <1>11, AdmittedSame DEF BurstInv
<1> QED  BY <1>5, <1>6, <1>7, <1>8, <1>9, <1>10, <1>12 DEF BurstInv, BTypeOK

\* A worker that dies leaves no burst dialling, and its count starts again.
LEMMA DiesInv ==
    ASSUME BurstInv, WorkerDies
    PROVE  BurstInv'
<1>1. /\ capture' = [c \in Captures |-> IF capture[c].at = "idle" THEN NotBegun ELSE Over]
      /\ inFlight' = 0 /\ onset' = onset /\ evidence' = evidence
  BY DEF WorkerDies
<1>2. \A c \in Captures : capture'[c] \in {NotBegun, Over}
  BY <1>1
<1>3. \A x \in {NotBegun, Over} : x \in CaptureRecord /\ x.at \notin Dials /\ Sound(x)
  BY RestSound
<1>4. AllSound'
  <2>1. \A x : Sound(x) => Sound(x)'
    BY <1>1 DEF Sound, Paced, Clean, Dialled, Begun, Filed, Observes
  <2> SUFFICES ASSUME NEW k \in Captures PROVE Sound(capture[k])'
    BY DEF AllSound
  <2>2. PICK x : x = capture'[k]
    OBVIOUS
  <2>3. Sound(x)'
    BY <1>2, <1>3, <2>1, <2>2
  <2> QED
    BY <2>2, <2>3 DEF Sound, Paced, Clean, Dialled, Begun, Filed, Observes
<1>5. AllObserved'
  BY <1>1 DEF BurstInv, AllObserved, Observes
<1>6. Burning' = {}
  <2>1. \A c \in Captures : capture'[c].at \notin Dials
    BY <1>2, <1>3
  <2> QED  BY <2>1 DEF Burning, Dialling, Dials
<1>7. Admitted'
  BY <1>1, <1>6, FS_EmptySet, BurstConstants DEF Admitted
<1>8. capture' \in [Captures -> CaptureRecord]
  BY <1>1, <1>2, <1>3
<1> QED  BY <1>1, <1>4, <1>5, <1>7, <1>8 DEF BurstInv, BTypeOK

\* An incident ages without a change to what it is.
LEMMA AgesInv ==
    ASSUME BurstInv, onset' \in [Onsets -> OnsetRecord],
           \A i \in Onsets : /\ onset'[i].monitor = onset[i].monitor
                             /\ onset'[i].shadow = onset[i].shadow,
           capture' = capture, inFlight' = inFlight, evidence' = evidence
    PROVE  BurstInv'
<1>1. \A i \in Onsets : \A v, steps : Observes(i, v, steps) => Observes(i, v, steps)'
  BY DEF Observes
<1>2. AllObserved'
  <2> SUFFICES ASSUME NEW j \in DOMAIN evidence'
               PROVE  Observes(j, evidence[j].verdict, evidence[j].steps)'
    BY DEF AllObserved
  <2>1. j \in Onsets /\ Observes(j, evidence[j].verdict, evidence[j].steps)
    BY DEF BurstInv, BTypeOK, AllObserved
  <2> QED  BY <2>1 DEF Observes
<1>3. AllSound'
  <2> SUFFICES ASSUME NEW k \in Captures PROVE Sound(capture[k])'
    BY DEF AllSound
  <2>1. PICK x \in CaptureRecord : x = capture[k] /\ Sound(x)
    BY DEF BurstInv, BTypeOK, AllSound
  <2>2. Paced(x) /\ Clean(x) /\ Begun(x)
    BY <2>1 DEF Sound
  <2>3. Dialled(x)' /\ Filed(x)'
    <3>1. CASE x.onset \in Onsets
      BY <1>1, <2>1, <3>1 DEF Sound, Dialled, Filed
    <3>2. CASE x.onset \notin Onsets
      <4>1. x.at \notin Dials /\ x.at # "storing" /\ x.steps = <<>>
        BY <2>2, <3>2 DEF Begun
      <4> QED  BY <2>1, <3>2, <4>1 DEF Sound, Dialled, Filed
    <3> QED  BY <3>1, <3>2
  <2> QED
    BY <2>1, <2>2, <2>3 DEF Sound, Paced, Clean, Dialled, Begun, Filed, Observes
<1>4. Burning' = Burning
  BY DEF Burning, Dialling
<1>5. Admitted'
  BY <1>4, AdmittedSame DEF BurstInv
<1> QED  BY <1>2, <1>3, <1>5 DEF BurstInv, BTypeOK

\* Retention only takes rows away.
LEMMA PruneInv ==
    ASSUME BurstInv, PruneIncidentEvidence
    PROVE  BurstInv'
<1>1. /\ onset' = onset /\ capture' = capture /\ inFlight' = inFlight
      /\ DOMAIN evidence' \subseteq DOMAIN evidence
      /\ \A i \in DOMAIN evidence' : evidence'[i] = evidence[i]
  BY DEF PruneIncidentEvidence
<1>2. AllObserved'
  BY <1>1 DEF BurstInv, AllObserved, Observes
<1>3. AllSound'
  BY <1>1 DEF BurstInv, AllSound, Sound, Paced, Clean, Dialled, Begun, Filed, Observes
<1>4. Admitted'
  <2>1. Burning' = Burning
    BY <1>1 DEF Burning, Dialling
  <2> QED  BY <1>1, <2>1, AdmittedSame DEF BurstInv
<1> QED  BY <1>1, <1>2, <1>3, <1>4 DEF BurstInv, BTypeOK

\* Every step of a capture, of an incident or of retention keeps BurstInv.
LEMMA BurstNextInv == BurstInv /\ [BurstNext]_bvars => BurstInv'
<1> SUFFICES ASSUME BurstInv, [BurstNext]_bvars PROVE BurstInv'
  OBVIOUS
<1>1. ASSUME NEW c \in Captures, NEW i \in Onsets, NEW enabled \in BOOLEAN,
             CaptureBegins(c, i, enabled)
      PROVE  BurstInv'
  BY <1>1, BeginsInv
<1>2. ASSUME NEW c \in Captures, NEW d \in 0 .. Slice(capture[c].spent), AddressRefused(c, d)
      PROVE  BurstInv'
  BY <1>2, RefusedInv
<1>3. ASSUME NEW c \in Captures, NEW d \in 0 .. Slice(capture[c].spent),
             NEW ok \in BOOLEAN, NEW by \in Enders,
             StepEnds(c, d, ok, by)
      PROVE  BurstInv'
  BY <1>3, StepInv
<1>4. ASSUME NEW c \in Captures, NEW failure \in ObservedFailures, BuildSnapshot(c, failure)
      PROVE  BurstInv'
  BY <1>4, BuildInv
<1>5. ASSUME NEW c \in Captures, StoreSnapshot(c) \/ CaptureFails(c)
      PROVE  BurstInv'
  BY <1>5, StoreInv, FailsInv
<1>6. CASE WorkerDies
  BY <1>6, DiesInv
<1>7. ASSUME NEW i \in Onsets, OnsetResolved(i)
      PROVE  BurstInv'
  <2>1. onset \in [Onsets -> OnsetRecord]
    BY DEF BurstInv, BTypeOK
  <2>2. /\ onset' = [onset EXCEPT ![i].age = "resolved"]
        /\ capture' = capture /\ inFlight' = inFlight /\ evidence' = evidence
    BY <1>7 DEF OnsetResolved
  <2>3. /\ onset' \in [Onsets -> OnsetRecord]
        /\ \A j \in Onsets : /\ onset'[j].monitor = onset[j].monitor
                             /\ onset'[j].shadow = onset[j].shadow
    BY <2>1, <2>2 DEF OnsetRecord
  <2> QED  BY <2>2, <2>3, AgesInv
<1>8. CASE YearPasses
  <2>1. onset \in [Onsets -> OnsetRecord]
    BY DEF BurstInv, BTypeOK
  <2>2. /\ onset' = [i \in Onsets |-> IF onset[i].age = "resolved"
                                      THEN [onset[i] EXCEPT !.age = "old"] ELSE onset[i]]
        /\ capture' = capture /\ inFlight' = inFlight /\ evidence' = evidence
    BY <1>8 DEF YearPasses
  <2>3. /\ onset' \in [Onsets -> OnsetRecord]
        /\ \A j \in Onsets : /\ onset'[j].monitor = onset[j].monitor
                             /\ onset'[j].shadow = onset[j].shadow
    BY <2>1, <2>2 DEF OnsetRecord
  <2> QED  BY <2>2, <2>3, AgesInv
<1>9. CASE PruneIncidentEvidence
  BY <1>9, PruneInv
<1>10. CASE UNCHANGED bvars
  <2>1. onset' = onset /\ capture' = capture /\ inFlight' = inFlight /\ evidence' = evidence
    BY <1>10 DEF bvars
  <2> QED  BY <2>1, AgesInv DEF BurstInv, BTypeOK
<1> QED
  BY <1>1, <1>2, <1>3, <1>4, <1>5, <1>6, <1>7, <1>8, <1>9, <1>10 DEF BurstNext

\* Every reachable state of the captures satisfies BurstInv.
THEOREM BurstInvariant == BurstSpec => []BurstInv
<1>1. BInit => BurstInv
  <2> SUFFICES ASSUME BInit PROVE BurstInv
    OBVIOUS
  <2>1. /\ onset \in [Onsets -> OnsetRecord] /\ capture = [c \in Captures |-> NotBegun]
        /\ inFlight = 0 /\ evidence = <<>>
    BY DEF BInit, OnsetRecord
  <2>2. NotBegun \in CaptureRecord /\ NotBegun.at \notin Dials /\ Sound(NotBegun)
    BY RestSound
  <2>3. DOMAIN evidence = {}
    BY <2>1
  <2>4. Burning = {}
    BY <2>1, <2>2 DEF Burning, Dialling, Dials
  <2>5. Admitted
    BY <2>1, <2>4, FS_EmptySet, BurstConstants DEF Admitted
  <2> QED  BY <2>1, <2>2, <2>3, <2>5 DEF BurstInv, BTypeOK, AllSound, AllObserved
<1> QED  BY <1>1, BurstNextInv, PTL DEF BurstSpec

\* However bursts begin, fail, are cut short or die with their worker, the
\* module's count is the number that dial, within its limit, and no burst
\* outlasts its budget.
THEOREM BurstSafe == BurstSpec => []BurstBounded
<1>1. BurstInv => BurstBounded
  BY DEF BurstInv, Admitted, AllSound, Sound, Paced, BurstBounded, Burning
<1> QED  BY <1>1, BurstInvariant, PTL

\* Every layer a stored snapshot names was observed: by an answer, or by the
\* transport's timer, and never by step()'s own.
THEOREM LayerSafe == BurstSpec => []LayerObserved
<1>1. BurstInv => LayerObserved
  <2> SUFFICES ASSUME BurstInv, NEW i \in DOMAIN evidence, NEW e, e = evidence[i]
               PROVE  /\ e.verdict.basis = "measured" =>
                           \E n \in DOMAIN e.steps : MeasuredOn(e, n) /\ e.steps[n].by # "vigil"
                      /\ onset[i].monitor.kind # "active" => e.verdict.stage = "unknown"
                      /\ onset[i].shadow => e.steps = <<>>
    BY DEF LayerObserved
  <2>1. Observes(i, e.verdict, e.steps)
    BY DEF BurstInv, AllObserved
  <2> QED  BY <2>1 DEF Observes, MeasuredOn
<1> QED  BY <1>1, BurstInvariant, PTL

\* No capture, retry or restart replaces a stored snapshot, and retention
\* takes only those of incidents resolved long ago.
THEOREM SnapshotSafe == BurstSpec => SnapshotStays
<1>1. ASSUME [BurstNext]_bvars
      PROVE  \A i \in DOMAIN evidence :
                IF i \in DOMAIN evidence' THEN evidence'[i] = evidence[i]
                                          ELSE onset[i].age = "old"
  <2>1. CASE evidence' = evidence
    BY <2>1
  <2>2. CASE PruneIncidentEvidence
    BY <2>2 DEF PruneIncidentEvidence
  <2>3. ASSUME NEW c \in Captures, StoreSnapshot(c)
        PROVE  \A i \in DOMAIN evidence : i \in DOMAIN evidence' /\ evidence'[i] = evidence[i]
    BY <2>3 DEF StoreSnapshot, Inserted
  <2>4. ASSUME NEW c \in Captures, NEW d, NEW ok, NEW by, StepEnds(c, d, ok, by)
        PROVE  evidence' = evidence
    BY <2>4 DEF StepEnds
  <2> QED
    BY <1>1, <2>1, <2>2, <2>3, <2>4
       DEF BurstNext, CaptureBegins, AddressRefused, BuildSnapshot, CaptureFails,
           WorkerDies, OnsetResolved, YearPasses, bvars
<1> QED  BY <1>1, PTL DEF BurstSpec, SnapshotStays

-----------------------------------------------------------------------------
(* Checks *)

\* An http check that also looks at the certificate.
Certified == check.type = "http" /\ check.cfg.tls

\* The clocks that are one deadline, and when it is.
OneDeadline == Clock \in {"whole", "grace", "floor"}

Deadline ==
    IF Clock = "grace" THEN Timeout + Grace
    ELSE IF Clock = "floor" /\ at \in AnotherCall THEN Timeout + 1 ELSE Timeout

\* The inductive invariant of a check with one deadline: what has passed and
\* what is left make up the budget, and for the certificate it is granted again, and
\* once more with every piece.
ProbeInv ==
    /\ check.type \in ActiveTypes \cup UnprobedTypes
    /\ check.type \in ActiveTypes => check.cfg \in ConfigsOf(check.type)
    /\ outcome = "none" => socket \in {"none", "open"}
    /\ elapsed \in Nat /\ took \in Nat /\ pieces \in Nat
    /\ socket = "none" => elapsed = 0 /\ took = 0
    /\ at = "guard" => socket = "none"
    /\ socket = "open" => at \in DOMAIN Table \ {"guard"} /\ check.type \in ActiveTypes
    /\ at = "certificate" => socket = "open"
    /\ OneDeadline /\ socket = "open" /\ at # "certificate" =>
          left \in Nat /\ elapsed + left <= Deadline
    /\ socket = "open" /\ at = "certificate" =>
          /\ Certified /\ left \in Nat /\ armed = Timeout /\ took <= Timeout
          /\ elapsed + left <= took + Timeout * (pieces + 1)

\* Where a table leads, for the check at hand.
LEMMA TableLeads ==
    ASSUME ProbeInv, check.type \in ActiveTypes, NEW p \in DOMAIN Table, NEW reply \in DOMAIN Table[p]
    PROVE  IF Table[p][reply].step.do = "ask"
           THEN /\ Table[p][reply].step.at \in DOMAIN Table \ {"guard"}
                /\ p # "certificate"
                /\ Table[p][reply].step.at = "certificate" => Certified /\ p # "guard"
                /\ Clock = "floor" /\ p \in AnotherCall =>
                      /\ Table[p][reply].step.at \in AnotherCall \ {"leader"}
                      /\ Table[p][reply].step.at = "poll" => reply = "pending"
           ELSE Table[p][reply].step.at = "done"
<1>1. check.cfg \in ConfigsOf(check.type)
  BY DEF ProbeInv
<1> HIDE DEF ConfigsOf, TableOf, ClockOf, AnotherCall
<1> QED  BY <1>1, TablesAssumption DEF Table, Certified, Clock

\* A check that looks at a certificate has one deadline for what goes before.
LEMMA CertifiedWhole == Certified => Clock = "whole"
BY DEF Certified, Clock, ClockOf

\* The clock of a question that a conversation goes on to.
LEMMA AskedInTime ==
    ASSUME ProbeInv, socket = "open", NEW to, to # "certificate", at # "certificate", OneDeadline,
           Clock = "floor" /\ at \in AnotherCall =>
              /\ to \in AnotherCall \ {"leader"}
              /\ to = "poll" => elapsed + 1 < Timeout
    PROVE  /\ Rewound(to) \in Nat
           /\ elapsed + Rewound(to) <=
                 IF Clock = "grace" THEN Timeout + Grace
                 ELSE IF Clock = "floor" /\ to \in AnotherCall THEN Timeout + 1 ELSE Timeout
<1>1. Timeout \in Nat \ {0} /\ Grace \in Nat /\ elapsed \in Nat
  BY ClockAssumption DEF ProbeInv
<1>2. left \in Nat /\ elapsed + left <= Deadline
  BY DEF ProbeInv
<1>3. CASE Clock = "floor" /\ to \in {"leader", "poll"}
  <2>1. Rewound(to) = AtLeastOne(Timeout - elapsed) /\ to \in AnotherCall
    BY <1>3 DEF Rewound, AnotherCall
  <2>2. elapsed <= Timeout
    BY <1>1, <1>2, <1>3 DEF Deadline
  <2> QED  BY <1>1, <1>3, <2>1, <2>2 DEF AtLeastOne
<1>4. CASE ~ (Clock = "floor" /\ to \in {"leader", "poll"})
  <2>1. Rewound(to) = left
    BY <1>4 DEF Rewound, OneDeadline
  <2> HIDE DEF Clock
  <2> QED  BY <1>1, <1>2, <2>1 DEF Deadline
<1> QED  BY <1>3, <1>4

\* A check whose conversation goes on to another phase, or is over.
LEMMA TakeInv ==
    ASSUME ProbeInv, socket = "open", NEW answer, Take(answer),
           IF answer.step.do = "ask"
           THEN /\ answer.step.at \in DOMAIN Table \ {"guard"}
                /\ at # "certificate"
                /\ answer.step.at = "certificate" => Certified
                /\ Clock = "floor" /\ at \in AnotherCall =>
                      /\ answer.step.at \in AnotherCall \ {"leader"}
                      /\ answer.step.at = "poll" => elapsed + 1 < Timeout
           ELSE answer.step.at = "done"
    PROVE  ProbeInv'
<1>1. /\ check' = check /\ elapsed' = elapsed /\ at' = answer.step.at
      /\ Table' = Table /\ Clock' = Clock /\ (Certified' <=> Certified)
      /\ (OneDeadline' <=> OneDeadline)
  BY DEF Take, Table, Clock, Certified, OneDeadline
<1>2. /\ elapsed \in Nat /\ took \in Nat /\ pieces \in Nat /\ Timeout \in Nat
      /\ took' \in {elapsed, took} /\ pieces' \in {0, pieces, pieces + 1}
  BY ClockAssumption DEF Take, ResponseTime, ProbeInv
<1>3. CASE answer.step.do = "ask"
  <2>1. left' = Rewound(at') /\ armed' = Rewound(at') /\ socket' = "open" /\ at # "certificate"
    BY <1>1, <1>3 DEF Take
  <2>2. CASE at' = "certificate"
    <3>1. Certified /\ Clock = "whole" /\ left' = Timeout /\ armed' = Timeout
      BY <1>1, <1>3, <2>1, <2>2, CertifiedWhole DEF Rewound
    <3>2. pieces' = 0 /\ took' = elapsed
      BY <1>1, <2>1, <2>2 DEF Take, ResponseTime
    <3>3. left \in Nat /\ elapsed + left <= Timeout
      BY <2>1, <3>1 DEF ProbeInv, OneDeadline, Deadline
    <3>4. elapsed <= Timeout /\ elapsed + Timeout <= elapsed + Timeout * (0 + 1)
      BY <1>2, <3>3
    <3> QED  BY <1>1, <1>2, <1>3, <2>1, <2>2, <3>1, <3>2, <3>4 DEF ProbeInv
  <2>3. CASE at' # "certificate"
    <3>1. OneDeadline => left' \in Nat /\ elapsed' + left' <= Deadline'
      BY <1>1, <1>3, <2>1, <2>3, AskedInTime DEF Deadline
    <3> HIDE DEF Deadline, OneDeadline, Clock, Rewound
    <3> QED  BY <1>1, <1>2, <1>3, <2>1, <2>3, <3>1 DEF ProbeInv
  <2> QED  BY <2>2, <2>3
<1>4. CASE answer.step.do # "ask"
  <2>1. socket' \in {"ending", "destroyed"} /\ at' = "done"
    BY <1>1, <1>4 DEF Take, SocketAfter
  <2>2. outcome' # "none"
    <3>1. outcome' \in Verdicts \/ (outcome # "none" /\ outcome' = outcome)
      BY <1>4 DEF Take, Settled, Judge, JudgeOf, Verdicts
    <3> QED  BY <3>1 DEF Verdicts
  <2> QED  BY <1>1, <1>2, <1>4, <2>1, <2>2 DEF ProbeInv
<1> QED  BY <1>3, <1>4

\* A loss of the connection never asks on by itself.
LEMMA LostInv ==
    ASSUME ProbeInv, socket = "open", NEW kind, kind # "pending", Take(Lost(kind))
    PROVE  ProbeInv'
<1>1. at \in DOMAIN Table /\ check.type \in ActiveTypes
  BY DEF ProbeInv
<1>2. CASE kind \in DOMAIN Table[at]
  <2>1. Lost(kind) = Table[at][kind]
    BY <1>2 DEF Lost
  <2> QED  BY <1>1, <1>2, <2>1, TableLeads, TakeInv
<1>3. CASE kind \notin DOMAIN Table[at]
  <2>1. Lost(kind).step.do = "fail" /\ Lost(kind).step.at = "done"
    BY <1>3 DEF Lost, Answer, Fail, Step
  <2> QED  BY <2>1, TakeInv
<1> QED  BY <1>2, <1>3

\* The guard opens the way to the first phase, with the whole budget.
LEMMA GuardInv ==
    ASSUME ProbeInv, NEW reply \in DOMAIN Guard, Guarded(reply)
    PROVE  ProbeInv'
<1>1. /\ check' = check /\ elapsed' = elapsed /\ at = "guard" /\ check.type \in ActiveTypes
      /\ Table' = Table /\ Clock' = Clock /\ (Certified' <=> Certified)
      /\ at' = Guard[reply].step.at /\ took' = took /\ pieces' = pieces
      /\ (OneDeadline' <=> OneDeadline)
  BY DEF Guarded, Table, Clock, Certified, OneDeadline
<1>2. socket # "open"
  BY <1>1 DEF ProbeInv
<1>3. CASE Guard[reply].step.do = "ask"
  <2>1. /\ at' \in DOMAIN Table \ {"guard"}
        /\ at' # "certificate"
    <3>1. CASE "guard" \in DOMAIN Table
      BY <1>1, <1>3, <3>1, TableLeads DEF Guard
    <3>2. CASE "guard" \notin DOMAIN Table
      <4>1. "connect" \in DOMAIN Table
        <5> HIDE DEF ConfigsOf, TableOf
        <5> QED  BY <1>1, <3>2, TablesAssumption DEF Table, ProbeInv
      <4>2. Guard[reply] = CommonGuard[reply] /\ reply \in {"public", "forbidden", "private", "unresolved"}
        BY <3>2 DEF Guard, CommonGuard
      <4>3. CommonGuard[reply].step \in {Ask("connect"), Fail}
        BY <4>2 DEF CommonGuard, Right, Wrong, Answer
      <4>4. CommonGuard[reply].step.at = "connect"
        BY <1>3, <4>2, <4>3 DEF Ask, AskWith, Fail, Step
      <4> QED  BY <1>1, <4>1, <4>2, <4>4
    <3> QED  BY <3>1, <3>2
  <2>2. socket' = "open" /\ left' = Budget /\ outcome' = outcome
    BY <1>3 DEF Guarded
  <2>3. elapsed = 0
    BY <1>1 DEF ProbeInv
  <2>4. OneDeadline => left' \in Nat /\ elapsed' + left' <= Deadline'
    BY <1>1, <2>2, <2>3, ClockAssumption DEF Budget, Deadline
  <2> HIDE DEF Deadline, OneDeadline, Clock
  <2> QED  BY <1>1, <2>1, <2>2, <2>3, <2>4 DEF ProbeInv
<1>4. CASE Guard[reply].step.do # "ask"
  <2>1. socket' = socket /\ outcome' \in Verdicts
    BY <1>4 DEF Guarded, Judge, JudgeOf, Verdicts
  <2>2. socket = "none"
    BY <1>1 DEF ProbeInv
  <2>3. at' = "done"
    <3>1. CASE "guard" \in DOMAIN Table
      BY <1>1, <1>4, <3>1, TableLeads DEF Guard
    <3>2. CASE "guard" \notin DOMAIN Table
      <4>1. Guard[reply].step \in {Ask("connect"), Fail}
        BY <3>2 DEF Guard, CommonGuard, Right, Wrong, Answer
      <4> QED  BY <1>1, <1>4, <4>1 DEF Ask, AskWith, Fail, Step
    <3> QED  BY <3>1, <3>2
  <2> QED  BY <1>1, <2>1, <2>2, <2>3 DEF ProbeInv, Verdicts
<1> QED  BY <1>3, <1>4

\* Every step of a check keeps the budget.
LEMMA ProbeNext == ProbeInv /\ [Next]_vars => ProbeInv'
<1> SUFFICES ASSUME ProbeInv, [Next]_vars PROVE ProbeInv'
  OBVIOUS
<1>1. CASE UNCHANGED vars
  BY <1>1 DEF vars, ProbeInv, Table, Clock, Certified, OneDeadline, Deadline
<1>2. CASE Unprobed
  <2>1. /\ check' = check /\ socket' = socket /\ elapsed' = elapsed /\ left' = left
        /\ took' = took /\ pieces' = pieces
        /\ outcome' = "indeterminate" /\ at' = "done" /\ check.type \in UnprobedTypes
    BY <1>2 DEF Unprobed, clock
  <2>2. check.type \notin ActiveTypes
    BY <2>1 DEF UnprobedTypes, ActiveTypes, StreamTypes, DatagramKinds, RequestTypes, ProgramTypes
  <2> QED  BY <2>1, <2>2 DEF ProbeInv
<1>3. ASSUME NEW reply \in DOMAIN Guard, Guarded(reply) PROVE ProbeInv'
  BY <1>3, GuardInv
<1>4. ASSUME NEW reply, Hear(reply) PROVE ProbeInv'
  <2>1. socket = "open" /\ at \in DOMAIN Table /\ reply \in DOMAIN Table[at] /\ Take(Table[at][reply])
    BY <1>4 DEF Hear
  <2>2. check.type \in ActiveTypes
    BY <2>1 DEF ProbeInv
  <2>3. reply = "pending" => elapsed + 1 < Timeout
    BY <1>4 DEF Hear, InSeason
  <2> QED  BY <2>1, <2>2, <2>3, TableLeads, TakeInv
<1>5. ASSUME NEW kind \in {"broken", "closed"}, Lose(kind) PROVE ProbeInv'
  BY <1>5, LostInv DEF Lose
<1>6. CASE Piece
  <2>1. /\ check' = check /\ socket' = socket /\ elapsed' = elapsed /\ left' = Touched
        /\ outcome' = outcome /\ at' = at /\ took' = took /\ pieces' = pieces + 1 /\ socket = "open"
        /\ Table' = Table /\ Clock' = Clock /\ (Certified' <=> Certified)
        /\ (OneDeadline' <=> OneDeadline) /\ Deadline' = Deadline
    BY <1>6 DEF Piece, Table, Clock, Certified, OneDeadline, Deadline
  <2>2. check.type = "mysql" => Clock = "remaining"
    BY DEF Clock, ClockOf
  <2>3. CASE at # "certificate"
    <3>1. OneDeadline => left' = left
      BY <2>1, <2>2, <2>3 DEF Touched, OneDeadline
    <3> HIDE DEF Deadline, OneDeadline, Clock
    <3> QED  BY <2>1, <2>3, <3>1 DEF ProbeInv
  <2>4. CASE at = "certificate"
    <3>1. Certified /\ armed = Timeout /\ left \in Nat /\ took <= Timeout
          /\ elapsed + left <= took + Timeout * (pieces + 1)
      BY <2>1, <2>4 DEF ProbeInv
    <3>2. left' = Timeout /\ armed' = Timeout
      BY <1>6, <2>1, <2>2, <2>4, <3>1, CertifiedWhole DEF Touched, Piece
    <3>3. Timeout \in Nat /\ pieces \in Nat /\ elapsed \in Nat /\ took \in Nat
      BY ClockAssumption DEF ProbeInv
    <3>4. Timeout * ((pieces + 1) + 1) = Timeout * (pieces + 1) + Timeout
      BY <3>3
    <3>5. PICK granted \in Nat : granted = Timeout * (pieces + 1)
      BY <3>3
    <3>6. elapsed' + left' <= took' + Timeout * (pieces' + 1)
      <4>1. Timeout * (pieces' + 1) = granted + Timeout
        BY <2>1, <3>4, <3>5
      <4>2. elapsed + left <= took + granted
        BY <3>1, <3>5
      <4> QED  BY <2>1, <3>1, <3>2, <3>3, <4>1, <4>2
    <3> QED  BY <2>1, <2>4, <3>1, <3>2, <3>3, <3>6 DEF ProbeInv
  <2> QED  BY <2>3, <2>4
<1>7. CASE Tick
  <2>1. /\ check' = check /\ socket' = socket /\ left' = left - 1 /\ left > 0
        /\ elapsed' = IF outcome = "none" THEN elapsed + 1 ELSE elapsed
        /\ outcome' = outcome /\ at' = at /\ socket # "none"
        /\ took' = took /\ pieces' = pieces /\ armed' = armed
        /\ Table' = Table /\ Clock' = Clock /\ (Certified' <=> Certified)
        /\ (OneDeadline' <=> OneDeadline) /\ Deadline' = Deadline
    BY <1>7 DEF Tick, Table, Clock, Certified, OneDeadline, Deadline
  <2>2. Timeout \in Nat /\ Grace \in Nat /\ pieces \in Nat /\ took \in Nat
    BY ClockAssumption DEF ProbeInv
  <2>3. elapsed \in Nat /\ elapsed' \in Nat /\ elapsed' <= elapsed + 1
    BY <2>1 DEF ProbeInv
  <2>4. PICK granted \in Nat : granted = Timeout * (pieces + 1)
    BY <2>2
  <2>5. Deadline \in Nat
    BY <2>2 DEF Deadline
  <2>6. socket' = "open" /\ at' = "certificate" =>
          left' \in Nat /\ elapsed' + left' <= took + granted
    BY <2>1, <2>2, <2>3, <2>4 DEF ProbeInv
  <2>7. OneDeadline' /\ socket' = "open" /\ at' # "certificate" =>
          left' \in Nat /\ elapsed' + left' <= Deadline
    <3> HIDE DEF Deadline, OneDeadline
    <3> QED  BY <2>1, <2>3, <2>5 DEF ProbeInv
  <2> HIDE DEF Deadline, OneDeadline, Clock
  <2> QED  BY <2>1, <2>2, <2>3, <2>4, <2>6, <2>7 DEF ProbeInv
<1>8. CASE Expire
  BY <1>8, LostInv DEF Expire
<1>9. CASE ExpireEnding \/ Closed
  <2>1. /\ check' = check /\ socket' \in {"destroyed", "closed"} /\ elapsed' = elapsed
        /\ at' = at /\ socket \in {"ending", "destroyed"} /\ took' = took /\ pieces' = pieces
    BY <1>9 DEF ExpireEnding, Closed, clock
  <2>2. outcome' # "none"
    BY <1>9 DEF ExpireEnding, Closed, Settled, ProbeInv
  <2> QED  BY <2>1, <2>2 DEF ProbeInv
<1> QED
  BY <1>1, <1>2, <1>3, <1>4, <1>5, <1>6, <1>7, <1>8, <1>9 DEF Next, Probe, Converse

\* However the target paces its answers, and whatever it leaves out, a
\* conversation with one deadline is over when the deadline is; a service's grace, a
\* last call's moment and the certificate's grants are all that is added to it.
THEOREM DeadlineSafe == Spec => []InTime
<1>1. Init => ProbeInv
  BY DEF Init, ProbeInv
<1>2. ProbeInv => InTime
  <2> SUFFICES ASSUME ProbeInv, outcome = "none" PROVE InTime
    BY DEF InTime
  <2>1. Timeout \in Nat \ {0} /\ Grace \in Nat /\ elapsed \in Nat /\ took \in Nat /\ pieces \in Nat
    BY ClockAssumption DEF ProbeInv
  <2>2. PICK granted \in Nat : granted = Timeout * (pieces + 1)
    BY <2>1
  <2>3. at = "certificate" =>
          Clock = "whole" /\ took <= Timeout /\ elapsed <= took + Timeout * (pieces + 1)
    <3>1. at = "certificate" => /\ Certified /\ left \in Nat /\ took <= Timeout
                                /\ elapsed + left <= took + granted
      BY <2>2 DEF ProbeInv
    <3> QED  BY <2>1, <2>2, <3>1, CertifiedWhole
  <2>4. OneDeadline /\ at # "certificate" => elapsed <= Deadline
    <3>1. Deadline \in Nat
      BY <2>1 DEF Deadline
    <3> HIDE DEF Deadline, OneDeadline
    <3>2. CASE socket = "none"
      BY <2>1, <3>1, <3>2 DEF ProbeInv
    <3>3. CASE socket = "open"
      BY <2>1, <3>1, <3>3 DEF ProbeInv
    <3> QED  BY <3>2, <3>3 DEF ProbeInv
  <2>5. Deadline <= Timeout + (IF Clock = "grace" THEN Grace ELSE IF Clock = "floor" THEN 1 ELSE 0)
    BY <2>1 DEF Deadline
  <2> HIDE DEF Clock
  <2> QED  BY <2>1, <2>3, <2>4, <2>5 DEF InTime, OneDeadline, Deadline
<1> QED  BY <1>1, <1>2, ProbeNext, PTL DEF Spec

-----------------------------------------------------------------------------
(* Verdicts *)

\* The clock never has more than it was ever given, and a probe that is granted its
\* time again for every question never more than that, but for the one that
\* inherits what the question before it left.
ClockInv ==
    /\ left \in 0 .. (2 * Timeout + Grace) /\ armed \in 0 .. (2 * Timeout + Grace)
    /\ pieces \in 0 .. MaxPieces
    /\ Clock = "phase" /\ socket = "open" /\ at # "getV3" => left <= Timeout

\* What was heard and established is a talk the tables allow, and what was judged
\* was judged by it.
TalkInv ==
    /\ socket \in {"none", "open", "ending", "destroyed", "closed"}
    /\ outcome \in Verdicts \cup {"none"}
    /\ at = "guard" => facts = {} /\ heard = {}
    /\ outcome = "none" <=> at # "done"
    /\ outcome = "none" => at = "guard" \/ socket = "open"
    /\ socket = "open" => /\ outcome = "none"
                          /\ <<at, facts, heard>> \in Talks(check.type, check.cfg)
    /\ outcome # "none" /\ "cut" \notin heard =>
          outcome = VerdictOf(check.type, heard, took > Threshold)

\* The settings of a check under way are its type's.
LEMMA CheckFits ==
    ASSUME ProbeInv, check.type \in ActiveTypes
    PROVE  check.cfg \in ConfigsOf(check.type) /\ "done" \notin DOMAIN Table /\ "none" \notin Verdicts
<1>1. check.cfg \in ConfigsOf(check.type)
  BY DEF ProbeInv
<1> HIDE DEF ConfigsOf, TableOf
<1> QED  BY <1>1, TablesAssumption DEF Table, Verdicts

\* What the clock is wound up with is within bounds.
LEMMA RewoundBounds ==
    ASSUME ClockInv, elapsed \in Nat, socket = "open", NEW to
    PROVE  /\ Rewound(to) \in 0 .. (2 * Timeout + Grace)
           /\ Clock = "phase" /\ to # "getV3" => Rewound(to) <= Timeout
<1>1. Timeout \in Nat \ {0} /\ Grace \in Nat \ {0}
  BY ClockAssumption
<1>2. PICK half : half = Timeout \div 2
  OBVIOUS
<1>3. half \in 0 .. Timeout
  BY <1>1, <1>2
<1>4. \A n \in Int : n <= Timeout => AtLeastOne(n) \in 1 .. Timeout
  BY <1>1 DEF AtLeastOne
<1>5. AtLeastOne(Timeout - elapsed) \in 1 .. Timeout /\ AtLeastOne(half) \in 1 .. Timeout
  BY <1>1, <1>3, <1>4
<1>6. \/ Rewound(to) \in {Timeout, AtLeastOne(Timeout - elapsed), AtLeastOne(half)}
      \/ Rewound(to) = left /\ (Clock # "phase" \/ to = at)
      \/ Rewound(to) = left + Timeout - half /\ Clock = "phase" /\ to = "getV3" /\ to # at
  BY <1>2 DEF Rewound
<1>7. left \in 0 .. (2 * Timeout + Grace) /\ (Clock = "phase" /\ at # "getV3" => left <= Timeout)
  BY DEF ClockInv
<1> HIDE DEF AtLeastOne, Clock
<1> QED  BY <1>1, <1>3, <1>5, <1>6, <1>7

\* A check whose conversation goes on, or is over: the clock.
LEMMA TakeClock ==
    ASSUME ProbeInv, ClockInv, socket = "open", NEW answer, Take(answer),
           Clock = "idle" /\ answer.step.at = at => pieces < MaxPieces
    PROVE  ClockInv'
<1>1. Clock' = Clock /\ elapsed \in Nat /\ MaxPieces \in Nat /\ at' = answer.step.at
  BY ClockAssumption DEF Take, Clock, ProbeInv
<1>2. pieces' \in 0 .. MaxPieces
  <2>1. pieces' = IF answer.step.at # at THEN 0 ELSE IF Clock = "idle" THEN pieces + 1 ELSE pieces
    BY DEF Take
  <2>2. pieces \in 0 .. MaxPieces
    BY DEF ClockInv
  <2> HIDE DEF Clock
  <2> QED  BY <1>1, <2>1, <2>2
<1>3. CASE answer.step.do = "ask"
  <2>1. left' = Rewound(at') /\ armed' = Rewound(at')
    BY <1>1, <1>3 DEF Take
  <2>2. /\ Rewound(at') \in 0 .. (2 * Timeout + Grace)
        /\ Clock = "phase" /\ at' # "getV3" => Rewound(at') <= Timeout
    BY <1>1, RewoundBounds
  <2> QED  BY <1>1, <1>2, <2>1, <2>2 DEF ClockInv
<1>4. CASE answer.step.do # "ask"
  <2>1. left' = left /\ armed' = armed /\ socket' # "open"
    BY <1>4 DEF Take, SocketAfter
  <2> QED  BY <1>2, <2>1 DEF ClockInv
<1> QED  BY <1>3, <1>4

\* The same: what was heard, and the verdict.
LEMMA TakeTalk ==
    ASSUME ProbeInv, TalkInv, socket = "open", NEW answer, Take(answer),
           answer \in AnswersOf(check.type, check.cfg, at),
           answer.step.do # "ask" => answer.step.at = "done",
           answer.step.do = "ask" => answer.step.at \in DOMAIN Table \ {"guard"}
    PROVE  TalkInv'
<1>0. PICK slow \in BOOLEAN : slow <=> ResponseTime > Threshold
  <2>1. CASE ResponseTime > Threshold
    BY <2>1
  <2>2. CASE ~ (ResponseTime > Threshold)
    BY <2>2
  <2> QED  BY <2>1, <2>2
<1>1. PICK t, c, talk, after :
         /\ t = check.type /\ c = check.cfg
         /\ talk = <<at, facts, heard>> /\ after = AfterAnswer(talk, answer)
  OBVIOUS
<1>2. /\ check' = check /\ elapsed' = elapsed /\ at' = answer.step.at
      /\ heard' = heard \cup {answer.tag} /\ facts' = facts \cup answer.step.facts
  BY DEF Take
<1>3. t \in ActiveTypes /\ c \in ConfigsOf(t) /\ "done" \notin DOMAIN Table /\ "none" \notin Verdicts
  BY <1>1, CheckFits DEF ProbeInv
<1>4. talk \in Talks(t, c) /\ outcome = "none" /\ talk[1] = at
  BY <1>1 DEF TalkInv
<1>5. after = <<at', facts', heard'>> /\ after[2] = facts' /\ after[3] = heard'
  BY <1>1, <1>2 DEF AfterAnswer
<1> HIDE DEF ConfigsOf, TableOf
<1>6. /\ GoesOn(t, c, talk) \subseteq Talks(t, c)
      /\ JudgedBy(t, c, answer, after[2], after[3], slow)
  <2>1. answer \in AnswersOf(t, c, talk[1])
    BY <1>1, <1>4
  <2>2. /\ GoesOn(t, c, talk) \subseteq Talks(t, c)
        /\ \A a \in AnswersOf(t, c, talk[1]) : \A z \in BOOLEAN :
              JudgedBy(t, c, a, AfterAnswer(talk, a)[2], AfterAnswer(talk, a)[3], z)
    BY <1>3, <1>4, TalksAssumption
  <2>3. JudgedBy(t, c, answer, AfterAnswer(talk, answer)[2], AfterAnswer(talk, answer)[3], slow)
    BY <2>1, <2>2
  <2> QED  BY <1>1, <2>2, <2>3
<1>7. CASE answer.step.do = "ask"
  <2>1. after \in Talks(t, c)
    BY <1>1, <1>4, <1>6, <1>7 DEF GoesOn
  <2>2. outcome' = "none" /\ socket' = "open"
    BY <1>4, <1>7 DEF Take
  <2>3. at' # "guard" /\ at' # "done"
    BY <1>2, <1>3, <1>7
  <2> QED  BY <1>1, <1>2, <1>5, <2>1, <2>2, <2>3 DEF TalkInv
<1>8. CASE answer.step.do # "ask"
  <2>1. PICK timed : timed = IF t \in OwnWatch /\ slow THEN facts' \cup {"slow"} ELSE facts'
    OBVIOUS
  <2>2. timed = IF check.type \in OwnWatch THEN facts' \cup Timed ELSE facts'
    <3>1. Timed = IF slow THEN {"slow"} ELSE {}
      BY <1>0 DEF Timed
    <3>2. facts' \cup {} = facts'
      OBVIOUS
    <3> HIDE DEF Timed
    <3>3. CASE slow
      BY <1>1, <2>1, <3>1, <3>3
    <3>4. CASE ~ slow
      BY <1>1, <2>1, <3>1, <3>2, <3>4
    <3> QED  BY <3>3, <3>4
  <2>3. outcome' = JudgeOf(t, c, answer.step, timed)
    <3>1. outcome' = Settled(Judge(answer.step, IF check.type \in OwnWatch THEN facts' \cup Timed ELSE facts'))
      BY <1>2, <1>8 DEF Take
    <3> QED  BY <1>1, <1>4, <2>2, <3>1 DEF Settled, Judge
  <2>4. "cut" \notin heard' => outcome' = VerdictOf(t, heard', slow)
    BY <1>5, <1>6, <1>8, <2>1, <2>3 DEF JudgedBy
  <2>5. outcome' \in Verdicts
    BY <2>3 DEF JudgeOf, Verdicts
  <2>6. at' = "done" /\ socket' \in {"ending", "destroyed"}
    BY <1>2, <1>8 DEF Take, SocketAfter
  <2>7. VerdictOf(t, heard', slow) = VerdictOf(check'.type, heard', took' > Threshold)
    <3>1. took' = ResponseTime
      BY <1>2, <2>6 DEF Take
    <3> HIDE DEF ResponseTime
    <3> QED  BY <1>0, <1>1, <1>2, <3>1 DEF VerdictOf
  <2> QED  BY <1>3, <2>4, <2>5, <2>6, <2>7 DEF TalkInv
<1> QED  BY <1>7, <1>8

\* A loss is an answer too, and never leaves the conversation where it was.
LEMMA LossAnswers ==
    ASSUME ProbeInv, socket = "open", NEW kind \in {"broken", "closed", "timeout"}
    PROVE  /\ Lost(kind) \in AnswersOf(check.type, check.cfg, at)
           /\ Lost(kind).step.at # at
           /\ IF Lost(kind).step.do = "ask" THEN Lost(kind).step.at \in DOMAIN Table \ {"guard"}
                                            ELSE Lost(kind).step.at = "done"
<1>1. at \in DOMAIN Table /\ check.type \in ActiveTypes /\ check.cfg \in ConfigsOf(check.type)
  BY DEF ProbeInv
<1>2. "done" \notin DOMAIN Table
  BY <1>1, CheckFits
<1> HIDE DEF ConfigsOf, TableOf
<1>3. CASE kind \in DOMAIN Table[at]
  <2>1. Lost(kind) = Table[at][kind]
    BY <1>3 DEF Lost
  <2>2. Table[at][kind].step.at # at
    BY <1>1, <1>3, TalksAssumption DEF Table
  <2>3. Lost(kind) \in AnswersOf(check.type, check.cfg, at)
    BY <1>1, <1>3, <2>1 DEF AnswersOf, Table
  <2> QED  BY <1>1, <1>3, <2>1, <2>2, <2>3, TableLeads
<1>4. CASE kind \notin DOMAIN Table[at]
  <2>1. Lost(kind) = Answer("lost", Fail)
    BY <1>4 DEF Lost
  <2>2. Lost(kind).step.do = "fail" /\ Lost(kind).step.at = "done"
    BY <2>1 DEF Answer, Fail, Step
  <2>3. Lost(kind) \in AnswersOf(check.type, check.cfg, at)
    BY <2>1 DEF AnswersOf
  <2> QED  BY <1>1, <1>2, <2>2, <2>3
<1> QED  BY <1>3, <1>4

\* So a loss keeps the clock's bounds and the talk.
LEMMA LossKeeps ==
    ASSUME ProbeInv, ClockInv, TalkInv, socket = "open",
           NEW kind \in {"broken", "closed", "timeout"}, Take(Lost(kind))
    PROVE  ClockInv' /\ TalkInv'
<1>1. /\ Lost(kind) \in AnswersOf(check.type, check.cfg, at)
      /\ Lost(kind).step.at # at
      /\ IF Lost(kind).step.do = "ask" THEN Lost(kind).step.at \in DOMAIN Table \ {"guard"}
                                       ELSE Lost(kind).step.at = "done"
  BY LossAnswers
<1> HIDE DEF Lost
<1>2. ClockInv'
  BY <1>1, TakeClock
<1>3. TalkInv'
  BY <1>1, TakeTalk
<1> QED  BY <1>2, <1>3

\* An answer of the target's keeps them.
LEMMA HearKeeps ==
    ASSUME ProbeInv, ClockInv, TalkInv, NEW reply, Hear(reply)
    PROVE  ClockInv' /\ TalkInv'
<1>1. PICK answer : answer = Table[at][reply]
  OBVIOUS
<1>2. /\ socket = "open" /\ at \in DOMAIN Table /\ reply \in DOMAIN Table[at] /\ Take(answer)
      /\ Clock = "idle" /\ answer.step.at = at => pieces < MaxPieces
  BY <1>1 DEF Hear
<1>3. check.type \in ActiveTypes
  BY <1>2 DEF ProbeInv
<1>4. answer \in AnswersOf(check.type, check.cfg, at)
  BY <1>1, <1>2 DEF AnswersOf, Table
<1>5. IF answer.step.do = "ask" THEN answer.step.at \in DOMAIN Table \ {"guard"}
                                ELSE answer.step.at = "done"
  BY <1>1, <1>2, <1>3, TableLeads
<1>6. ClockInv'
  BY <1>2, TakeClock
<1>7. TalkInv'
  BY <1>2, <1>4, <1>5, TakeTalk
<1> QED  BY <1>6, <1>7

\* What the guard's answer opens is a talk, and what it ends is judged by that answer.
LEMMA GuardAnswers ==
    ASSUME ProbeInv, check.type \in ActiveTypes, NEW reply \in DOMAIN Guard, NEW answer,
           answer = Guard[reply]
    PROVE  /\ IF answer.step.do = "ask" THEN answer.step.at \in DOMAIN Table \ {"guard"}
                                         ELSE answer.step.at = "done"
           /\ answer.step.do = "ask" =>
                 <<answer.step.at, {}, {answer.tag}>> \in Talks(check.type, check.cfg)
           /\ JudgedBy(check.type, check.cfg, answer, {}, {answer.tag}, FALSE)
<1>1. PICK t, c : t = check.type /\ c = check.cfg
  OBVIOUS
<1>2. t \in ActiveTypes /\ c \in ConfigsOf(t) /\ Table = TableOf(t, c)
  BY <1>1, CheckFits DEF Table
<1> HIDE DEF ConfigsOf, TableOf
<1>3. Opened(t, c) \subseteq Talks(t, c)
  BY <1>2, TalksAssumption
<1>4. CASE "guard" \in DOMAIN Table
  <2>1. answer = Table["guard"][reply] /\ reply \in DOMAIN Table["guard"]
    BY <1>4 DEF Guard
  <2>2. answer \in AnswersOf(t, c, "guard")
    BY <1>2, <2>1 DEF AnswersOf
  <2>3. JudgedBy(t, c, answer, {}, {answer.tag}, FALSE)
    BY <1>2, <1>4, <2>2, TalksAssumption
  <2>4. answer.step.do = "ask" => <<answer.step.at, {}, {answer.tag}>> \in Opened(t, c)
    BY <1>2, <1>4, <2>2 DEF Opened
  <2>5. IF answer.step.do = "ask" THEN answer.step.at \in DOMAIN Table \ {"guard"}
                                  ELSE answer.step.at = "done"
    BY <1>4, <2>1, TableLeads
  <2> QED  BY <1>1, <1>3, <2>3, <2>4, <2>5
<1>5. CASE "guard" \notin DOMAIN Table
  <2>1. answer = CommonGuard[reply] /\ reply \in {"public", "forbidden", "private", "unresolved"}
    BY <1>5 DEF Guard, CommonGuard
  <2>2. answer \in {Right(Ask("connect")), Wrong(Fail)}
    BY <2>1 DEF CommonGuard
  <2>3. "connect" \in DOMAIN Table
    BY <1>2, <1>5, TablesAssumption
  <2>4. CASE answer = Right(Ask("connect"))
    <3>1. answer.step.do = "ask" /\ answer.step.at = "connect" /\ answer.tag = "right"
      BY <2>4 DEF Right, Ask, AskWith, Answer, Step
    <3>2. <<"connect", {}, {"right"}>> \in Opened(t, c)
      BY <1>2, <1>5 DEF Opened
    <3>3. JudgedBy(t, c, answer, {}, {answer.tag}, FALSE)
      BY <3>1 DEF JudgedBy
    <3> QED  BY <1>1, <1>3, <2>3, <3>1, <3>2, <3>3
  <2>5. CASE answer = Wrong(Fail)
    <3>0. answer = [tag |-> "wrong", step |-> [do |-> "fail", at |-> "done", facts |-> {}]]
      BY <2>5, Zenon DEF Wrong, Fail, Answer, Step
    <3>1. answer.step.do = "fail" /\ answer.step.at = "done" /\ answer.tag = "wrong"
      BY <3>0
    <3>2. JudgeOf(t, c, answer.step, {}) = "down"
      BY <3>1 DEF JudgeOf
    <3>3. VerdictOf(t, {answer.tag}, FALSE) = "down"
      BY <3>1 DEF VerdictOf
    <3>4. JudgedBy(t, c, answer, {}, {answer.tag}, FALSE)
      BY <3>2, <3>3 DEF JudgedBy
    <3> QED  BY <1>1, <3>1, <3>4
  <2> QED  BY <2>2, <2>4, <2>5
<1> QED  BY <1>4, <1>5

\* The guard's answer keeps the clock's bounds and opens the talk.
LEMMA GuardKeeps ==
    ASSUME ProbeInv, ClockInv, TalkInv, NEW reply \in DOMAIN Guard, Guarded(reply)
    PROVE  ClockInv' /\ TalkInv'
<1>1. PICK answer : answer = Guard[reply]
  OBVIOUS
<1>2. /\ at = "guard" /\ check.type \in ActiveTypes /\ check' = check /\ elapsed' = elapsed
      /\ facts' = facts /\ pieces' = pieces /\ took' = took /\ heard' = heard \cup {answer.tag} /\ at' = answer.step.at
  BY <1>1 DEF Guarded
<1>3. /\ facts = {} /\ heard = {} /\ outcome = "none" /\ socket = "none"
      /\ took = 0 /\ Clock' = Clock
  BY <1>2 DEF TalkInv, ProbeInv, Clock
<1>4. heard' = {answer.tag} /\ ~ (took' > Threshold)
  BY <1>2, <1>3, ClockAssumption
<1>5. /\ IF answer.step.do = "ask" THEN answer.step.at \in DOMAIN Table \ {"guard"}
                                   ELSE answer.step.at = "done"
      /\ answer.step.do = "ask" => <<answer.step.at, {}, {answer.tag}>> \in Talks(check.type, check.cfg)
      /\ JudgedBy(check.type, check.cfg, answer, {}, {answer.tag}, FALSE)
  BY <1>1, <1>2, GuardAnswers
<1>6. "done" \notin DOMAIN Table /\ "none" \notin Verdicts
  BY <1>2, CheckFits
<1>7. CASE answer.step.do = "ask"
  <2>1. socket' = "open" /\ left' = Budget /\ armed' = Budget /\ outcome' = "none"
    BY <1>1, <1>3, <1>7 DEF Guarded
  <2>2. Budget \in 0 .. (2 * Timeout + Grace) /\ (Clock = "phase" => Budget <= Timeout)
    BY ClockAssumption DEF Budget
  <2>3. ClockInv'
    BY <1>2, <1>3, <2>1, <2>2 DEF ClockInv
  <2>4. at' # "guard" /\ at' # "done"
    BY <1>2, <1>5, <1>6, <1>7
  <2>5. <<at', facts', heard'>> \in Talks(check'.type, check'.cfg)
    BY <1>2, <1>3, <1>4, <1>5, <1>7
  <2>6. TalkInv'
    BY <2>1, <2>4, <2>5 DEF TalkInv
  <2> QED  BY <2>3, <2>6
<1>8. CASE answer.step.do # "ask"
  <2>1. outcome' = JudgeOf(check.type, check.cfg, answer.step, {}) /\ socket' = "none"
        /\ left' = left /\ armed' = armed
    BY <1>1, <1>3, <1>8 DEF Guarded, Judge
  <2>2. at' = "done"
    BY <1>2, <1>5, <1>8
  <2>3. outcome' \in Verdicts
    BY <2>1 DEF JudgeOf, Verdicts
  <2>4. "cut" \notin heard' => outcome' = VerdictOf(check.type, heard', FALSE)
    BY <1>4, <1>5, <1>8, <2>1 DEF JudgedBy
  <2>5. VerdictOf(check.type, heard', FALSE) = VerdictOf(check'.type, heard', took' > Threshold)
    BY <1>2, <1>4 DEF VerdictOf
  <2>6. TalkInv'
    BY <1>6, <2>1, <2>2, <2>3, <2>4, <2>5 DEF TalkInv
  <2>7. ClockInv'
    BY <1>2, <1>3, <2>1 DEF ClockInv
  <2> QED  BY <2>6, <2>7
<1> QED  BY <1>7, <1>8

\* Every step of a check keeps the clock's bounds and the talk.
LEMMA TalkNext == ProbeInv /\ ClockInv /\ TalkInv /\ [Next]_vars => ClockInv' /\ TalkInv'
<1> SUFFICES ASSUME ProbeInv, ClockInv, TalkInv, [Next]_vars PROVE ClockInv' /\ TalkInv'
  OBVIOUS
<1>0. Timeout \in Nat \ {0} /\ Grace \in Nat \ {0} /\ MaxPieces \in Nat /\ elapsed \in Nat
  BY ClockAssumption DEF ProbeInv
<1>1. CASE UNCHANGED vars
  BY <1>1 DEF vars, ClockInv, TalkInv, Clock
<1>2. CASE Unprobed
  <2>1. /\ check' = check /\ socket' = socket /\ left' = left /\ armed' = armed /\ pieces' = pieces
        /\ heard' = {"denied"} /\ outcome' = "indeterminate" /\ at' = "done"
        /\ check.type \in UnprobedTypes
    BY <1>2 DEF Unprobed, clock
  <2>2. check.type \notin ActiveTypes
    BY <2>1 DEF UnprobedTypes, ActiveTypes, StreamTypes, DatagramKinds, RequestTypes, ProgramTypes
  <2>3. socket # "open"
    BY <2>2 DEF ProbeInv
  <2>4. VerdictOf(check'.type, heard', took' > Threshold) = "indeterminate"
    BY <2>1 DEF VerdictOf
  <2>5. ClockInv'
    BY <2>1, <2>3 DEF ClockInv
  <2>6. TalkInv'
    BY <2>1, <2>3, <2>4 DEF TalkInv, Verdicts
  <2> QED  BY <2>5, <2>6
<1>3. ASSUME NEW reply \in DOMAIN Guard, Guarded(reply) PROVE ClockInv' /\ TalkInv'
  BY <1>3, GuardKeeps
<1>4. ASSUME NEW reply, Hear(reply) PROVE ClockInv' /\ TalkInv'
  BY <1>4, HearKeeps
<1>5. ASSUME NEW kind \in {"broken", "closed"}, Lose(kind) PROVE ClockInv' /\ TalkInv'
  BY <1>5, LossKeeps DEF Lose
<1>6. CASE Expire
  BY <1>6, LossKeeps DEF Expire
<1>7. CASE Piece
  <2>1. /\ socket = "open" /\ pieces < MaxPieces /\ pieces' = pieces + 1 /\ left' = Touched
        /\ armed' \in {Touched, armed}
        /\ UNCHANGED <<check, at, facts, heard, elapsed, took, socket, outcome>>
    BY <1>7 DEF Piece
  <2>2. check.type = "mysql" => Clock = "remaining"
    BY DEF Clock, ClockOf
  <2>3. AtLeastOne(Timeout - elapsed) \in 1 .. Timeout
    BY <1>0 DEF AtLeastOne
  <2>4. /\ Touched \in {AtLeastOne(Timeout - elapsed), armed, left}
        /\ Clock = "phase" => Touched = left
    <3>1. at = "certificate" => Clock = "whole"
      BY <2>1, CertifiedWhole DEF ProbeInv
    <3> QED  BY <2>2, <3>1 DEF Touched
  <2>5. Clock' = Clock
    BY <2>1 DEF Clock
  <2>6. Touched \in 0 .. (2 * Timeout + Grace)
    <3> HIDE DEF Touched, AtLeastOne
    <3> QED  BY <1>0, <2>3, <2>4 DEF ClockInv
  <2>7. pieces' \in 0 .. MaxPieces
    BY <1>0, <2>1 DEF ClockInv
  <2>8. ClockInv'
    BY <2>1, <2>4, <2>5, <2>6, <2>7 DEF ClockInv
  <2>9. TalkInv'
    BY <2>1 DEF TalkInv
  <2> QED  BY <2>8, <2>9
<1>8. CASE Tick
  <2>1. /\ socket \in {"open", "ending"} /\ left > 0 /\ left' = left - 1
        /\ elapsed' = IF outcome = "none" THEN elapsed + 1 ELSE elapsed
        /\ UNCHANGED <<check, at, facts, heard, armed, took, pieces, socket, outcome>>
    BY <1>8 DEF Tick
  <2>2. Clock' = Clock
    BY <2>1 DEF Clock
  <2>3. ClockInv'
    BY <1>0, <2>1, <2>2 DEF ClockInv
  <2>5. TalkInv'
    BY <2>1 DEF TalkInv
  <2> QED  BY <2>3, <2>5
<1>9. CASE ExpireEnding \/ Closed
  <2>1. /\ socket \in {"ending", "destroyed"} /\ socket' \in {"destroyed", "closed"}
        /\ outcome' = outcome \/ outcome' = Settled("down")
        /\ UNCHANGED <<check, at, facts, heard, left, armed, elapsed, took, pieces>>
    BY <1>9 DEF ExpireEnding, Closed, clock
  <2>2. outcome # "none"
    BY <2>1 DEF ProbeInv
  <2>3. outcome' = outcome
    BY <2>1, <2>2 DEF Settled
  <2>4. ClockInv'
    BY <2>1 DEF ClockInv
  <2>5. TalkInv'
    BY <2>1, <2>2, <2>3 DEF TalkInv
  <2> QED  BY <2>4, <2>5
<1> QED
  BY <1>1, <1>2, <1>3, <1>4, <1>5, <1>6, <1>7, <1>8, <1>9 DEF Next, Probe, Converse

\* Whatever the type, the settings, the order and the pace of the answers, and
\* whichever of answer, error, close and timeout comes first, a check's verdict is
\* the one of a target that said what was heard, and slow when its response was.
\* (Nothing is said of an http body that was cut.)
THEOREM VerdictSafe == Spec => []VerdictTrue
<1>1. Init => ProbeInv /\ ClockInv /\ TalkInv
  <2>1. Init => ProbeInv
    BY DEF Init, ProbeInv
  <2>2. Init => ClockInv
    BY ClockAssumption DEF Init, ClockInv
  <2>3. Init => TalkInv
    BY DEF Init, TalkInv
  <2> QED  BY <2>1, <2>2, <2>3
<1>2. ProbeInv /\ ClockInv /\ TalkInv => VerdictTrue
  <2> SUFFICES ASSUME ProbeInv, ClockInv, TalkInv PROVE VerdictTrue
    OBVIOUS
  <2>1. TypeOK
    BY DEF ProbeInv, ClockInv, TalkInv, TypeOK
  <2> QED  BY <2>1 DEF TalkInv, VerdictTrue
<1> QED  BY <1>1, <1>2, ProbeNext, TalkNext, PTL DEF Spec
=============================================================================
