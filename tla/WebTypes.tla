------------------------------ MODULE WebTypes -------------------------------
(***************************************************************************)
(* Check types that ask over HTTP or TLS: http, json-query, elasticsearch, *)
(* rabbitmq, docker, grpc, websocket, globalping, domain-expiry,           *)
(* real-browser and tls-expiry (modules/monitors/types: probes/ and        *)
(* specs/, over modules/monitors/egress.ts and net.ts).  A `guard' of a    *)
(* type's own replaces the common one.                                     *)
(***************************************************************************)
EXTENDS Replies, TLC

\* authorizeEgress, where what refuses is the service Vigil asks through: the
\* target has not been looked at.
ServiceGuard ==
    [public |-> Right(Ask("connect")),
     private |-> Denied(Cannot),
     unresolved |-> Denied(Cannot)]

\* A loss Vigil puts down to the service it asks through.
ServiceLost == [broken |-> Denied(Cannot), timeout |-> Denied(Cannot)]

-----------------------------------------------------------------------------
HttpConfig ==
    [method : {"GET", "HEAD"}, keyword : {"none", "present", "absent"}, tls : BOOLEAN]

\* A keyword is looked for only in the answer to a GET.
WantsKeyword(c) == c.keyword # "none" /\ c.method = "GET"

\* A request that fails still has its certificate looked at.
RequestLost(c) == Wrong(IF c.tls THEN AskWith("certificate", {"error"}) ELSE Fail)

\* egressFetch: every hop is authorised again, and their number is capped
\* (MAX_REDIRECT_HOPS, here 1): the redirect past the cap is the answer.
HttpHeaders(c, redirected) ==
    [expected |-> Right(AskWith("body", {"status"})),
     unexpected |-> Wrong(Ask("body")),
     redirect |-> Right(IF redirected THEN AskWith("body", {"status"}) ELSE Ask("redirected")),
     redirectPrivate |-> Wrong(Fail),
     broken |-> RequestLost(c),
     timeout |-> RequestLost(c)]

\* readCappedText and drainBodyCapped.  A body that cannot be read to its end is
\* an empty one: "cut" says so of the target.
HttpBody(c) ==
    LET next(f) == IF c.tls THEN AskWith("certificate", f) ELSE Facts(f)
        cut == Answer("cut", next({}))
    IN  [broken |-> cut, timeout |-> cut]
        @@ IF ~ WantsKeyword(c) THEN [drained |-> Right(next({}))]
           ELSE [contains |-> Answer(IF c.keyword = "present" THEN "right" ELSE "wrong",
                                     next({"keyword"})),
                 lacks |-> Answer(IF c.keyword = "present" THEN "wrong" ELSE "right",
                                  next({}))]

\* checkTlsExpiryDays, on a connection and a clock of its own.
HttpCertificate ==
    LET unknown == Right(Facts({})) IN
    [far |-> unknown, soon |-> Poor(Facts({"tls-soon"})), none |-> unknown,
     broken |-> unknown, timeout |-> unknown]

HttpTable(c) ==
    [connect |-> HttpHeaders(c, FALSE),
     redirected |-> HttpHeaders(c, TRUE),
     body |-> HttpBody(c),
     certificate |-> HttpCertificate]

HttpFailing(c, f) ==
    Failing(\/ "status" \notin f
            \/ WantsKeyword(c) /\ (c.keyword = "present") # ("keyword" \in f),
            Slow(f) \/ (c.tls /\ "tls-soon" \in f))

-----------------------------------------------------------------------------
\* resolvePath: the value a path leads to, as the text it is compared as.
JsonValue ==
    [matches |-> Right(Facts({"json", "path", "match"})),
     otherValue |-> Wrong(Facts({"json", "path"})),
     noPath |-> Wrong(Facts({"json"}))]

\* The status code is not asked about: the document is.
JsonQueryTable(c) == [connect |-> JsonValue @@ [notJson |-> Foreign(Facts({}))]]

JsonQueryFailing(c, f) == Failing(~ {"json", "path", "match"} \subseteq f, Slow(f))

-----------------------------------------------------------------------------
ElasticsearchConfig == [floor : {"yellow", "green"}]

\* healthFacts: the document's own status, whatever the rest of it says.
ElasticsearchHealth(c) ==
    [notHealth |-> Foreign(Facts({})),
     red |-> Wrong(Facts({"answered", "red"})),
     yellow |-> Answer(IF c.floor = "green" THEN "poor" ELSE "right",
                       Facts({"answered", "yellow"})),
     green |-> Right(Facts({"answered"}))]

ElasticsearchTable(c) ==
    [connect |-> ElasticsearchHealth(c)
                 @@ [unauthorised |-> Denied(Cannot), otherCode |-> Wrong(Facts({}))]]

ElasticsearchFailing(c, f) ==
    Failing("answered" \notin f \/ "red" \in f,
            Slow(f) \/ (c.floor = "green" /\ "yellow" \in f))

-----------------------------------------------------------------------------
\* healthResult: only the management API's own document counts, for better or
\* worse.
RabbitmqHealth ==
    [ok |-> Right(Facts({"answered", "ok"})),
     alarm |-> Wrong(Facts({"answered"})),
     unavailable |-> Wrong(Facts({"answered"})),
     otherCode |-> Wrong(Facts({})),
     unauthorised |-> Denied(Cannot),
     notFound |-> Denied(Cannot),
     notManagement |-> Denied(Cannot)]

RabbitmqTable(c) == [connect |-> RabbitmqHealth]

RabbitmqFailing(c, f) == Failing(~ {"answered", "ok"} \subseteq f, Slow(f))

-----------------------------------------------------------------------------
DockerConfig ==
    [container : BOOLEAN, daemon : {"unix", "tcp", "unreadable"},
     unhealthyIsDown : BOOLEAN, restartLoop : BOOLEAN]

\* assessDockerState: the container's restarts since the check before.
DockerRestarts(c) ==
    [looping |-> Answer(IF c.restartLoop THEN "wrong" ELSE "right",
                        Facts({"running", "looping"}))]

\* interpret: what the daemon says of the container.
DockerInspect(c) ==
    DockerRestarts(c) @@
    [running |-> Right(Facts({"running"})),
     stopped |-> Wrong(Facts({})),
     unhealthy |-> Answer(IF c.unhealthyIsDown THEN "wrong" ELSE "poor",
                          Facts({"running", "unhealthy"})),
     notFound |-> Wrong(Facts({})),
     forbidden |-> Denied(Cannot),
     serverError |-> Wrong(Fail),
     notDocker |-> Foreign(Fail),
     overlong |-> Foreign(Fail)]

\* A socket is this machine's own and is not guarded; one Vigil may not open says
\* nothing of the container.
DockerTable(c) ==
    IF ~ c.container \/ c.daemon = "unreadable"
    THEN [guard |-> [unset |-> Denied(Cannot)]]
    ELSE [connect |-> [accepted |-> Right(Ask("inspect"))]
                      @@ (IF c.daemon = "unix" THEN [noSocket |-> Denied(Cannot)] ELSE << >>),
          inspect |-> DockerInspect(c)]
         @@ (IF c.daemon = "unix" THEN [guard |-> [local |-> Right(Ask("connect"))]] ELSE << >>)

DockerFailing(c, f) ==
    Failing(\/ "running" \notin f
            \/ c.restartLoop /\ "looping" \in f
            \/ c.unhealthyIsDown /\ "unhealthy" \in f,
            Slow(f) \/ (~ c.unhealthyIsDown /\ "unhealthy" \in f))

-----------------------------------------------------------------------------
\* servingStatusOf, over the message of a call that succeeded.
GrpcServing ==
    [serving |-> Right(Facts({"grpc", "ok", "serving"})),
     notServing |-> Wrong(Facts({"grpc", "ok"}))]

\* The standard health call: its HTTP status, its gRPC status, then its message.
GrpcTable(c) ==
    [connect |-> [accepted |-> Right(Ask("health"))],
     health |-> GrpcServing
                @@ [failed |-> Wrong(Facts({"grpc"})),
                    notGrpc |-> Foreign(Facts({})),
                    otherCode |-> Wrong(Facts({}))]]

GrpcFailing(c, f) == Failing(~ {"grpc", "ok", "serving"} \subseteq f, Slow(f))

-----------------------------------------------------------------------------
WebsocketConfig == [subprotocol : BOOLEAN]

\* The upgrade is judged, not the frames after it.
WebsocketTable(c) ==
    [connect |-> [accepted |-> Right(Ask("upgrade"))],
     upgrade |->
        [switched |-> Right(Facts({"switched", "key", "subprotocol"})),
         otherSubprotocol |-> Answer(IF c.subprotocol THEN "wrong" ELSE "right",
                                     Facts({"switched", "key"})),
         badKey |-> Wrong(Facts({"switched", "subprotocol"})),
         otherCode |-> Wrong(Facts({})),
         notHttp |-> Foreign(Fail)]]

WebsocketFailing(c, f) ==
    Failing(~ {"switched", "key"} \subseteq f
            \/ (c.subprotocol /\ "subprotocol" \notin f), Slow(f))

-----------------------------------------------------------------------------
GlobalpingConfig == [base : BOOLEAN]

\* summarise: what the probes that answered saw between them.
GlobalpingSummary ==
    [noResults |-> Denied(Cannot),
     reachable |-> Right(Facts({"reachable"})),
     lossy |-> Poor(Facts({"reachable", "lossy"})),
     far |-> Poor(Facts({"reachable", "far"})),
     unreachable |-> Wrong(Facts({}))]

\* Probes elsewhere do the asking, and no loss on the way to them is the
\* target's.  Its latency is the one they report.
GlobalpingTable(c) ==
    [guard |-> IF c.base THEN ServiceGuard ELSE [unset |-> Denied(Cannot)],
     connect |-> [created |-> Right(Ask("poll")), refused |-> Denied(Cannot)] @@ ServiceLost,
     poll |->
        [pending |-> Right(Ask("poll")), overdue |-> Denied(Cannot), refused |-> Denied(Cannot)]
        @@ GlobalpingSummary @@ ServiceLost]

GlobalpingFailing(c, f) ==
    Failing("reachable" \notin f, f \cap {"lossy", "far"} # {})

-----------------------------------------------------------------------------
\* findExpiration, in the registry's record of the name.
DomainRecord ==
    [far |-> Right(Facts({})),
     soon |-> Poor(Facts({"soon"})),
     passed |-> Wrong(Facts({"passed"})),
     noExpiry |-> Denied(Cannot)]

\* The registry's RDAP server is found through IANA's list.  Only the registry
\* can say that a name is not there.
DomainExpiryTable(c) ==
    [guard |-> ServiceGuard,
     connect |-> [registry |-> Right(Ask("domain")),
                  notFound |-> Denied(Cannot),
                  refused |-> Denied(Cannot)] @@ ServiceLost,
     domain |-> DomainRecord
                @@ [notFound |-> Wrong(Fail), refused |-> Denied(Cannot)] @@ ServiceLost]

\* expiryAssertions.
ExpiryFailing(f, slow) == Failing("passed" \in f, "soon" \in f \/ slow)

DomainExpiryFailing(c, f) == ExpiryFailing(f, FALSE)

-----------------------------------------------------------------------------
RealBrowserConfig == [service : BOOLEAN, keyword : {"none", "present", "absent"}]

\* interpretServiceStatus: what the service reports of the page is the page's,
\* what it reports of itself is not.
RealBrowserStatus == [pageFailed |-> Wrong(Fail), refused |-> Denied(Cannot)]

RealBrowserTable(c) ==
    IF ~ c.service THEN [guard |-> [unset |-> Denied(Cannot)]]
    ELSE [connect |->
            [contains |-> Answer(IF c.keyword = "absent" THEN "wrong" ELSE "right",
                                 Facts({"rendered", "keyword"})),
             lacks |-> Answer(IF c.keyword = "present" THEN "wrong" ELSE "right",
                              Facts({"rendered"})),
             empty |-> Wrong(Facts({}))] @@ RealBrowserStatus @@ ServiceLost]

RealBrowserFailing(c, f) ==
    Failing(\/ "rendered" \notin f
            \/ c.keyword # "none" /\ (c.keyword = "present") # ("keyword" \in f), Slow(f))

-----------------------------------------------------------------------------
\* certificateResult.
TlsCertificate ==
    [far |-> Right(Facts({})),
     soon |-> Poor(Facts({"soon"})),
     passed |-> Wrong(Facts({"passed"})),
     noCertificate |-> Wrong(Fail)]

TlsExpiryTable(c) == [connect |-> TlsCertificate]

TlsExpiryFailing(c, f) == ExpiryFailing(f, Slow(f))
=============================================================================
