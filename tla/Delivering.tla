----------------------------- MODULE Delivering ------------------------------
(***************************************************************************)
(* One outbox row on its way through a notification provider               *)
(* (modules/notifications/providers): what the provider makes of every     *)
(* answer, what the row is told, and what really arrived at the far end.   *)
(* The outbox's own concurrency is in Outbox; here its loop is reduced to  *)
(* claim, attempt, record, and a worker that dies in between.              *)
(***************************************************************************)
EXTENDS Naturals

CONSTANT MaxAttempts    \* attempts before the row is given up

VARIABLES via,      \* the provider and the message, fixed
          row,      \* of the outbox: "queued", "claimed", "delivered", "dead"
          step,     \* of the attempt under way
          attempts, \* made so far
          unknowns, \* attempts on record whose fate is not known
          copies,   \* of the message at the far end
          issue,    \* the far end's issue for this cause (jira)
          blind     \* history: delivered on a body not read or a search that missed

dvars == <<via, row, step, attempts, unknowns, copies, issue, blind>>

-----------------------------------------------------------------------------
(* The providers.  All of the first kind make one guarded HTTP request. *)

HttpProvider(problem, suppresses) ==
    [over |-> "http", bodyProblem |-> problem, suppresses |-> suppresses, accepts409 |-> FALSE]

Slack == HttpProvider(FALSE, FALSE)
Discord == HttpProvider(FALSE, FALSE)
Teams == HttpProvider(FALSE, FALSE)
Telegram == HttpProvider(FALSE, FALSE)
GoogleChat == HttpProvider(FALSE, FALSE)
Mattermost == HttpProvider(FALSE, FALSE)
Gotify == HttpProvider(FALSE, FALSE)
Ntfy == HttpProvider(FALSE, FALSE)
Pushbullet == HttpProvider(FALSE, FALSE)
WebPush == HttpProvider(FALSE, FALSE)
HomeAssistant == HttpProvider(FALSE, FALSE)
Twilio == HttpProvider(FALSE, FALSE)
TwilioWhatsapp == HttpProvider(FALSE, FALSE)
Webhook == HttpProvider(FALSE, FALSE)
Sns == HttpProvider(FALSE, FALSE)

\* bodyProblem: services that answer 200 and put the verdict in the body.
RocketChat == HttpProvider(TRUE, FALSE)
Zulip == HttpProvider(TRUE, FALSE)
Pushover == HttpProvider(TRUE, FALSE)
Bark == HttpProvider(TRUE, FALSE)
Apprise == HttpProvider(TRUE, FALSE)

\* duplicateSuppression: the row's id, or its alert's key, goes along.
Matrix == HttpProvider(FALSE, TRUE)
Pagerduty == HttpProvider(FALSE, TRUE)
Resend == HttpProvider(FALSE, TRUE)
Line == [HttpProvider(FALSE, TRUE) EXCEPT !.accepts409 = TRUE]

Jira == [HttpProvider(FALSE, FALSE) EXCEPT !.over = "jira"]
Smtp == [HttpProvider(FALSE, FALSE) EXCEPT !.over = "smtp"]

\* CHANNEL_PROVIDERS.
Providers ==
    [slack |-> Slack, discord |-> Discord, teams |-> Teams, telegram |-> Telegram,
     googlechat |-> GoogleChat, mattermost |-> Mattermost, rocketchat |-> RocketChat,
     matrix |-> Matrix, zulip |-> Zulip, line |-> Line, pagerduty |-> Pagerduty,
     jira |-> Jira, pushover |-> Pushover, gotify |-> Gotify, ntfy |-> Ntfy,
     pushbullet |-> Pushbullet, bark |-> Bark, webpush |-> WebPush,
     homeassistant |-> HomeAssistant, twilio |-> Twilio,
     twilioWhatsapp |-> TwilioWhatsapp, smtp |-> Smtp, resend |-> Resend,
     webhook |-> Webhook, sns |-> Sns, apprise |-> Apprise]

P == Providers[via.provider]

-----------------------------------------------------------------------------
(* What an answer is taken for *)

\* httpAttempt, for an answer that came.
ByStatus(answer) ==
    CASE answer = "ok" -> "delivered"
      [] answer \in {"throttled", "serverError"} -> "retryable"
      [] OTHER -> "permanent"

\* A mutant: the status line is believed whatever the body says.
HttpOutcome_StatusOnly(answer) ==
    IF answer = "problem" THEN "delivered" ELSE ByStatus(answer)

\* httpDeliver: a 2xx whose body says otherwise, and the conflict that means
\* the message is already there.  A body that cannot be read, or that is cut where
\* it no longer parses, is one in which bodyProblem finds nothing.
HttpOutcome(answer) ==
    CASE answer = "conflict" /\ P.accepts409 -> "delivered"
      [] answer = "problem" /\ ~ P.bodyProblem -> "delivered"
      [] answer = "unreadable" -> "delivered"
      [] OTHER -> ByStatus(answer)

\* sentNothing: whether the far end can have acted on the request.
TransportOutcome(nothingSent) == IF nothingSent THEN "retryable" ELSE "unknown"

\* SmtpError.permanent; a reply that is late is an error that is not.
SmtpOutcome(reply) == IF reply = "refused5xx" THEN "permanent" ELSE "retryable"

-----------------------------------------------------------------------------
(* The row *)

\* The outbox records an attempt's outcome and decides on another.
Record(outcome) ==
    /\ step' = "idle"
    /\ unknowns' = IF outcome = "unknown" THEN unknowns + 1 ELSE unknowns
    /\ row' = CASE outcome = "delivered" -> "delivered"
                [] outcome = "permanent" -> "dead"
                [] OTHER -> IF attempts < MaxAttempts THEN "queued" ELSE "dead"
    /\ UNCHANGED <<via, attempts>>

Claim ==
    /\ row = "queued" /\ row' = "claimed" /\ attempts' = attempts + 1
    /\ step' = CASE P.over = "http" -> "request"
                 [] P.over = "jira" -> "search"
                 [] P.over = "smtp" -> "greeting"
    /\ UNCHANGED <<via, unknowns, copies, issue, blind>>

\* The worker dies; the lease runs out, and the attempt is closed as unknown.
Die ==
    /\ row = "claimed"
    /\ Record("unknown") /\ UNCHANGED <<copies, issue, blind>>

-----------------------------------------------------------------------------
(* The far end: external, as the providers' code describes it *)

\* A message sent again under the key it was sent with.
AlreadyThere == P.suppresses /\ copies > 0

\* What a request that arrives does, and the answers it can have.
Accepted == copies' = IF AlreadyThere THEN copies ELSE copies + 1

AnswersOnAccept == IF AlreadyThere /\ P.accepts409 THEN {"conflict"} ELSE {"ok"}

AnswersOnReject ==
    {"throttled", "serverError", "clientError", "redirect"}
        \cup (IF P.bodyProblem THEN {"problem", "unreadable"} ELSE {})

-----------------------------------------------------------------------------
(* One request: every HTTP provider, and every step of jira's *)

\* The request does not leave, or its answer does not come back.
NotSent ==
    /\ row = "claimed" /\ step \in {"request", "search", "create", "comment"}
    /\ \E outcome \in {"permanent", TransportOutcome(TRUE), TransportOutcome(FALSE)} : Record(outcome)
    /\ UNCHANGED <<copies, issue, blind>>

Rejected ==
    /\ row = "claimed" /\ step \in {"request", "search", "create", "comment"}
    /\ \E answer \in AnswersOnReject :
          Record(HttpOutcome(answer)) /\ blind' = (answer = "unreadable")
    /\ UNCHANGED <<copies, issue>>

\* deliver of every HTTP provider: accepted, and answered or not.
Request ==
    /\ row = "claimed" /\ step = "request"
    /\ Accepted /\ UNCHANGED <<issue, blind>>
    /\ \/ \E answer \in AnswersOnAccept : Record(HttpOutcome(answer))
       \/ Record(TransportOutcome(FALSE))

\* jira, findOpenIssue: the open issue under this cause's label.  None is found
\* where there is none, where Jira's index has not caught up, and where the answer
\* cannot be read: an alert then opens another, and a resolution has nothing to do.
Search ==
    /\ row = "claimed" /\ step = "search"
    /\ \/ /\ issue = "open" /\ step' = "comment"
          /\ UNCHANGED <<via, row, attempts, unknowns, blind>>
       \/ /\ via.message = "alert" /\ step' = "create"
          /\ UNCHANGED <<via, row, attempts, unknowns, blind>>
       \/ /\ via.message = "resolution" /\ Record("delivered")
          /\ blind' = (issue = "open")
    /\ UNCHANGED <<copies, issue>>

Create ==
    /\ row = "claimed" /\ step = "create"
    /\ copies' = copies + 1 /\ issue' = "open" /\ UNCHANGED blind
    /\ \E outcome \in {"delivered", TransportOutcome(FALSE)} : Record(outcome)

Comment ==
    /\ row = "claimed" /\ step = "comment"
    /\ copies' = copies + 1 /\ UNCHANGED <<issue, blind>>
    /\ \/ Record(TransportOutcome(FALSE))
       \/ /\ via.message = "resolution" /\ step' = "transition"
          /\ UNCHANGED <<via, row, attempts, unknowns>>
       \/ via.message = "alert" /\ Record("delivered")

\* transitionIssue: whatever becomes of it, the comment is the delivery.
Transition ==
    /\ row = "claimed" /\ step = "transition"
    /\ issue' \in {issue, "done"} /\ Record("delivered")
    /\ UNCHANGED <<copies, blind>>

-----------------------------------------------------------------------------
(* smtpSend: greeting, EHLO, STARTTLS, AUTH, MAIL, RCPT, DATA, then the message *)

SmtpReply ==
    /\ row = "claimed" /\ step \in {"greeting", "envelope", "data"}
    /\ \/ /\ step' = CASE step = "greeting" -> "envelope"
                       [] step = "envelope" -> "data"
                       [] step = "data" -> "message"
          /\ UNCHANGED <<via, row, attempts, unknowns>>
       \/ \E reply \in {"refused4xx", "refused5xx", "lost"} : Record(SmtpOutcome(reply))
    /\ UNCHANGED <<copies, issue, blind>>

\* The message, and the reply that says it was taken.
SmtpMessage ==
    /\ row = "claimed" /\ step = "message" /\ UNCHANGED <<issue, blind>>
    /\ \/ /\ copies' = copies + 1
          /\ \E outcome \in {"delivered", SmtpOutcome("lost")} : Record(outcome)
       \/ /\ UNCHANGED copies
          /\ \E reply \in {"refused4xx", "refused5xx", "lost"} : Record(SmtpOutcome(reply))

-----------------------------------------------------------------------------
DInit ==
    /\ via \in [provider : DOMAIN Providers, message : {"alert", "resolution"}]
    /\ row = "queued" /\ step = "idle" /\ attempts = 0 /\ unknowns = 0 /\ copies = 0
    /\ issue \in (IF via.provider = "jira" THEN {"none", "open"} ELSE {"none"})
    /\ blind = FALSE

Idle ==
    /\ via = [provider |-> "slack", message |-> "alert"]
    /\ row = "delivered" /\ step = "idle" /\ attempts = 1 /\ unknowns = 0 /\ copies = 1
    /\ issue = "none" /\ blind = FALSE

DNext ==
    \/ Claim \/ Die \/ NotSent \/ Rejected \/ Request
    \/ Search \/ Create \/ Comment \/ Transition
    \/ SmtpReply \/ SmtpMessage

DSpec == DInit /\ [][DNext]_dvars

-----------------------------------------------------------------------------
(* Properties *)

\* A row marked delivered has arrived, through whatever provider: no service's
\* "200, but no" is taken for a delivery.  Three rows have not, and no others: a
\* resolution where Jira has no open issue, which has nowhere to go, a resolution
\* whose search missed the open issue, and a refusal in a 2xx body that was not
\* read.  Of the last two (`blind') the code's record is wrong, and a row is blind
\* only on those paths.
DeliveredArrived ==
    /\ row = "delivered" =>
          \/ copies > 0 \/ blind
          \/ P.over = "jira" /\ via.message = "resolution" /\ issue # "open"
    /\ blind => /\ row = "delivered"
                /\ P.bodyProblem \/ (P.over = "jira" /\ via.message = "resolution")

\* The ledger accounts for every copy at the far end: beyond the delivered one,
\* or the one of an attempt still open, there are no more than the attempts it
\* admits not to know about, so a row without unknown attempts that is dead has
\* paged nobody; and a provider that suppresses duplicates ends up with one,
\* however often answers are lost and workers die.  Mail is left out: smtp.ts
\* records a message whose acceptance was lost as an ordinary retry.
CopiesAdmitted ==
    /\ P.over # "smtp" => copies <= unknowns + (IF row \in {"delivered", "claimed"} THEN 1 ELSE 0)
    /\ P.suppresses => copies <= 1

\* What the row says is what happened at the far end (providers/types.ts), but for
\* the blind deliveries.
ArrivalTrue == DeliveredArrived /\ CopiesAdmitted
=============================================================================
