---------------------------- MODULE Translation -----------------------------
(***************************************************************************)
(* What a check of another monitoring system becomes in Vigil              *)
(* (importers/translate.ts, importers/rewrite.ts): setting by setting, a   *)
(* value, whether the report carries a note about it, and whether the      *)
(* check is refused for it.                                                *)
(*                                                                         *)
(* A source check is its kind and the settings it states; numbers are in   *)
(* units in which every bound of Vigil is small, and a text is one of the  *)
(* classes the code tells apart.                                           *)
(*                                                                         *)
(* A definition named X_Y is X with a plausible mistake Y in it.           *)
(***************************************************************************)
EXTENDS Integers, FiniteSets

Unset == -1

NumberSettings == {"interval", "timeout", "window", "warnDays", "period", "grace"}

\* The bounds of monitors/schemas.ts and translate.ts: <<least, greatest, default>>.
Bound(s) ==
    CASE s \in {"interval", "period"} -> <<2, 4, 3>>
      [] s = "timeout"  -> <<1, 3, 2>>
      [] s = "warnDays" -> <<1, 3, 2>>
      [] OTHER          -> <<0, 3, 1>>

Clamp(v, s) ==
    IF v < Bound(s)[1] THEN Bound(s)[1] ELSE IF v > Bound(s)[2] THEN Bound(s)[2] ELSE v

\* What a source check may state of each setting (SourceCheck): whatever its kind,
\* which decides only what is read of it.
Values(s) ==
    CASE s \in NumberSettings -> -1 .. 5
      [] s = "name"     -> {"none", "fits", "long"}
      [] s = "url"      -> {"none", "plain", "credentials"}
      [] s = "host"     -> {"none", "plain", "withScheme"}
      [] s = "domain"   -> {"none", "plain"}
      [] s = "port"     -> {"none", "plain", "implicitTls"}
      [] s = "method"   -> {"none", "GET", "HEAD", "POST"}
      [] s = "status"   -> {"none", "one", "several"}
      [] s = "keyword"  -> {"none", "short", "long"}
      [] s = "operator" -> {"none", "equals", "other"}
      [] s = "path"     -> {"none", "dotted", "rooted", "wildcard"}
      [] s = "record"   -> {"none", "known", "unknown"}
      [] s = "expected" -> {"none", "one", "long", "several"}
      [] OTHER          -> {"none", "stated"}

Setting ==
    NumberSettings \cup
    {"name", "url", "host", "domain", "port", "method", "status", "keyword", "operator", "path",
     "record", "expected", "resolver", "cron", "requestExtras", "losses"}

Nothing(s) == IF s \in NumberSettings THEN Unset ELSE "none"

-----------------------------------------------------------------------------
\* CHECK_TYPE_BY_KIND.
CheckType(kind) ==
    CASE kind = "json" -> "json-query"
      [] kind = "tls" -> "tls-expiry"
      [] kind = "domain" -> "domain-expiry"
      [] kind = "heartbeat" -> "push"
      [] kind \in {"udp", "unsupported"} -> "none"
      [] OTHER -> kind

MailKinds == {"smtp", "imap", "ftp", "ssh", "ntp", "grpc"}

Kind ==
    {"http", "json", "ping", "tcp", "udp", "dns", "tls", "domain", "websocket", "heartbeat", "group",
     "unsupported"} \cup MailKinds

\* The settings the branch of the kind reads, after those it reads of every kind.
Reads(kind) ==
    {"name", "interval", "timeout", "window", "losses"} \cup
    CASE kind = "http" -> {"url", "method", "status", "keyword", "warnDays", "requestExtras"}
      [] kind = "json" -> {"url", "operator", "path", "requestExtras"}
      [] kind = "dns" -> {"host", "record", "expected", "resolver"}
      [] kind = "tls" -> {"host", "port", "warnDays"}
      [] kind = "domain" -> {"domain", "warnDays"}
      [] kind = "websocket" -> {"url"}
      [] kind = "ping" -> {"host"}
      [] kind \in {"tcp"} \cup MailKinds -> {"host", "port"}
      [] kind = "heartbeat" -> {"period", "grace", "cron"}
      [] OTHER -> {}

Carried(v) == [value |-> v, note |-> FALSE, refused |-> FALSE]
Noted(v)   == [value |-> v, note |-> TRUE, refused |-> FALSE]
Refusal(v) == [value |-> v, note |-> FALSE, refused |-> TRUE]

-----------------------------------------------------------------------------
NameFor(v) == IF v = "long" THEN Noted("fits") ELSE Carried(v)

IntervalFor_Quiet(v) == Carried(IF v <= 0 THEN Bound("interval")[3] ELSE Clamp(v, "interval"))

\* An interval that is no schedule is the default, never the floor.
IntervalFor(v) ==
    IF v = Unset THEN Carried(Bound("interval")[3])
    ELSE IF v <= 0 THEN Noted(Bound("interval")[3])
    ELSE IF Clamp(v, "interval") # v THEN Noted(Clamp(v, "interval"))
    ELSE Carried(v)

\* No timeout and one of zero are both the default, without a note.
TimeoutFor(v) ==
    IF v <= 0 THEN Carried(Bound("timeout")[3])
    ELSE IF Clamp(v, "timeout") # v THEN Noted(Clamp(v, "timeout"))
    ELSE Carried(v)

\* The retries of the source as one span of time; clamped without a note.
FailureWindowFor(v) == Carried(IF v = Unset THEN v ELSE Clamp(v, "window"))

WarnDaysFor(v) ==
    IF v = Unset \/ Clamp(v, "warnDays") = v THEN Carried(v) ELSE Noted(Clamp(v, "warnDays"))

ExpectedStatusFrom(v) == IF v = "several" THEN Noted("none") ELSE Carried(v)

NoteHttpLosses(v) == IF v = "stated" THEN Noted("none") ELSE Carried("none")

UrlFor(v) ==
    IF v = "none" THEN Refusal(v) ELSE IF v = "credentials" THEN Noted("plain") ELSE Carried(v)

\* hostOf: the host of a target the source keeps as a URL is the same host.
HostFor(v) == IF v = "none" THEN Refusal(v) ELSE Carried(v)

DomainFor(v) == IF v = "none" THEN Refusal(v) ELSE Carried(v)

Method(v) == IF v = "POST" THEN Refusal(v) ELSE Carried(IF v = "none" THEN "GET" ELSE v)

Keyword(v, method) ==
    IF v # "none" /\ (v = "long" \/ method = "HEAD") THEN Noted("none") ELSE Carried(v)

JsonOperator(v) == IF v = "other" THEN Refusal(v) ELSE Carried(v)

\* vigilJsonPath.
JsonPath(v) ==
    IF v \in {"none", "wildcard"} THEN Refusal(v)
    ELSE IF v = "rooted" THEN Noted("dotted") ELSE Carried(v)

Port(v, kind) ==
    IF kind = "tcp" /\ v = "none" THEN Refusal(v)
    ELSE IF kind \in {"smtp", "imap", "ftp"} /\ v = "implicitTls" THEN Refusal(v)
    ELSE Carried(v)

DnsRecord(v) == IF v = "unknown" THEN Refusal(v) ELSE Carried(v)

DnsExpected(v) == IF v \in {"long", "several"} THEN Noted("none") ELSE Carried(v)

DnsResolver(v) == IF v = "stated" THEN Noted("none") ELSE Carried(v)

Period(v) ==
    IF v = Unset \/ Clamp(v, "period") = v THEN Carried(v) ELSE Noted(Clamp(v, "period"))

GraceFor(v) == Carried(IF v = Unset THEN v ELSE Clamp(v, "grace"))

\* Where a heartbeat has a period, it takes the place of the interval; what is
\* said of the interval stays as it was.
Interval(check) ==
    IF check.kind = "heartbeat" /\ check.want["period"] # Unset
    THEN [IntervalFor(check.want["interval"]) EXCEPT !.value = Period(check.want["period"]).value]
    ELSE IntervalFor(check.want["interval"])

\* A heartbeat always has a note: its push token is new.
Cron(v) == Noted("none")

\* What the adapter lost, what it would not read and the regions it ran from.
Losses(v) == IF v = "stated" THEN Noted("none") ELSE Carried(v)

Translated(check, s) ==
    LET v == check.want[s]
    IN  CASE s = "name" -> NameFor(v)
          [] s = "interval" -> Interval(check)
          [] s = "timeout" -> TimeoutFor(v)
          [] s = "window" -> FailureWindowFor(v)
          [] s = "warnDays" -> WarnDaysFor(v)
          [] s = "status" -> ExpectedStatusFrom(v)
          [] s = "requestExtras" -> NoteHttpLosses(v)
          [] s = "url" -> UrlFor(v)
          [] s = "host" -> HostFor(v)
          [] s = "domain" -> DomainFor(v)
          [] s = "method" -> Method(v)
          [] s = "keyword" -> Keyword(v, check.want["method"])
          [] s = "operator" -> JsonOperator(v)
          [] s = "path" -> JsonPath(v)
          [] s = "port" -> Port(v, check.kind)
          [] s = "record" -> DnsRecord(v)
          [] s = "expected" -> DnsExpected(v)
          [] s = "resolver" -> DnsResolver(v)
          [] s = "period" -> Period(v)
          [] s = "grace" -> GraceFor(v)
          [] s = "cron" -> Cron(v)
          [] s = "losses" -> Losses(v)

\* translateCheck, and the four words the report has for what came of it: a
\* check of no kind Vigil has is unsupported, a refused one is skipped.
TranslateCheck(check) ==
    LET build == [s \in Reads(check.kind) |-> Translated(check, s)]
    IN  IF CheckType(check.kind) = "none" THEN [outcome |-> "unsupported", build |-> <<>>]
        ELSE IF \E s \in DOMAIN build : build[s].refused THEN [outcome |-> "skipped", build |-> build]
        ELSE IF \E s \in DOMAIN build : build[s].note THEN [outcome |-> "transformed", build |-> build]
        ELSE [outcome |-> "imported", build |-> build]

-----------------------------------------------------------------------------
VARIABLE
    offered   \* the check of the source being translated

NoOffer == [kind |-> "none", want |-> <<>>]

\* A check that states its target and nothing else.
Plain(kind) ==
    [kind |-> kind,
     want |-> [s \in Setting |->
                 IF s \in {"url", "host", "domain", "port"} \cap Reads(kind) THEN "plain" ELSE Nothing(s)]]

\* Every check that states one setting more, read by its kind or not, and one of
\* the two on which the fate of another setting depends.
TInit ==
    \E kind \in Kind : \E s \in Setting, t \in {"method", "period"} : \E v \in Values(s), w \in Values(t) :
        offered = [Plain(kind) EXCEPT !.want[s] = v, !.want[t] = w]

\* What is not stated is not lost; and no timeout and a timeout of zero mean the
\* default in both systems.
SameThing(s, asked, got) == got = asked \/ asked = Nothing(s) \/ (s = "timeout" /\ asked = 0)

\* The setting arrived, or the report says that it did not.
Spoken(check, s) ==
    LET build == TranslateCheck(check).build
    IN  \/ check.want[s] = Nothing(s)
        \/ s \in DOMAIN build /\ (build[s].note \/ SameThing(s, check.want[s], build[s].value))

\* What the code loses without a word, though translate.ts says of itself that
\* nothing disappears quietly: a setting the kind's branch does not read,
\* a failure window or a grace beyond Vigil's bound, and the interval of a
\* heartbeat that has a period.
Silent(check) ==
    (Setting \ Reads(check.kind)) \cup
    {s \in {"window", "grace"} : Clamp(check.want[s], s) # check.want[s]} \cup
    (IF check.kind = "heartbeat" /\ check.want["period"] # Unset THEN {"interval"} ELSE {})

Arrives(check) == TranslateCheck(check).outcome \in {"imported", "transformed"}

(* A check that arrives watches what the source watched, setting by setting, *)
(* but for what the report speaks of and for the settings named in Silent    *)
(* (translateCheck and the helpers that clamp, drop or rewrite a value).     *)
RecordSpoken ==
    offered # NoOffer /\ Arrives(offered) =>
        \A s \in Setting \ Silent(offered) : Spoken(offered, s)
=============================================================================
