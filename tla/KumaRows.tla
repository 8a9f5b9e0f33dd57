------------------------------ MODULE KumaRows ------------------------------
(***************************************************************************)
(* What one row of Uptime Kuma's monitor table becomes                     *)
(* (importers/kuma/mapping.ts, and buildMonitorInput of kuma/import.ts).   *)
(*                                                                         *)
(* A row is its Kuma type and what it states: pairs of a column and the    *)
(* sort of value in it.  "fine" is a value Vigil can hold as it is, "bent" *)
(* one it can hold in part or in another form, "odd" one it cannot, and    *)
(* "null" the absence of a value the type needs.  A column that is not     *)
(* stated holds Kuma's default.                                            *)
(*                                                                         *)
(* A definition named X_Y is X with a plausible mistake Y in it.           *)
(***************************************************************************)
EXTENDS Integers, FiniteSets, TLC

\* FIELD_MATRIX, stretch by stretch: the columns the compatibility page calls
\* unsupported, of which nothing may reach a monitor.
CoreUnsupported == {"weight", "ignore_tls", "upside_down", "maxredirects", "dns_resolve_server"}

RequestUnsupported ==
    {"body", "headers", "basic_auth_user", "basic_auth_pass", "proxy_id", "mqtt_topic",
     "mqtt_success_message", "database_query", "auth_method", "auth_domain", "auth_workstation"}

ProtocolUnsupported ==
    {"grpc_protobuf", "grpc_body", "grpc_method", "radius_calling_station_id",
     "radius_called_station_id", "resend_interval", "packet_size", "http_body_encoding",
     "description", "tls_ca", "tls_cert", "tls_key"}

AssertionUnsupported ==
    {"oauth_client_id", "oauth_client_secret", "oauth_token_url", "oauth_scopes",
     "oauth_auth_method", "gamedig_given_port_only", "kafka_producer_allow_auto_topic_creation",
     "mqtt_check_type"}

ServiceUnsupported ==
    {"json_path_operator", "cache_bust", "smtp_security", "ws_ignore_sec_websocket_accept_header",
     "ping_numeric", "ping_per_request_timeout", "ip_family"}

LaterUnsupported ==
    {"oauth_audience", "mqtt_websocket_path", "domain_expiry_notification", "save_response",
     "save_error_response", "response_max_length", "subtype", "protocol", "expected_tls_alert",
     "retry_only_on_status_code_failure", "screenshot_delay", "bearer_token", "gamedig_token"}

Unsupported ==
    CoreUnsupported \cup RequestUnsupported \cup ProtocolUnsupported \cup AssertionUnsupported
    \cup ServiceUnsupported \cup LaterUnsupported

\* TYPE_MATRIX: the types Vigil has under another name; the rest keep theirs.
TypeMatrix ==
    [keyword |-> "http", port |-> "tcp"] @@ ("grpc-keyword" :> "grpc") @@ ("sip-options" :> "sip") @@
    ("websocket-upgrade" :> "websocket") @@
    [t \in {"http", "json-query", "ping", "dns", "docker", "postgres", "mysql", "mongodb", "redis",
            "mqtt", "smtp", "group", "manual", "push", "real-browser", "globalping",
            "kafka-producer", "rabbitmq", "snmp", "tailscale-ping", "sqlserver", "oracledb",
            "radius", "gamedig", "steam", "system-service"} |-> t]

UrlBearing == {"http", "keyword", "json-query", "real-browser"}

-----------------------------------------------------------------------------
\* One case of buildMonitorInput: the columns whose value reaches the monitor,
\* those of them a value of which may be changed with a note, those that are
\* dropped with a note, those only one value of which is accepted, and those
\* without which there is no target.
Case(lands, bends, drops, accepts, needs) ==
    [lands |-> lands, bends |-> bends, drops |-> drops, accepts |-> accepts, needs |-> needs,
     always |-> FALSE]

\* A case that adds a note whatever the row holds.
Noting(b) == [b EXCEPT !.always = TRUE]

HttpCase(keywords) ==
    Case({"url", "method", "accepted_statuscodes_json", "expiry_notification"} \cup keywords,
         {"accepted_statuscodes_json"}, {}, {}, {"url"})

JsonQueryCase ==
    Case({"url", "json_path", "expected_value"}, {"json_path"}, {"expiry_notification"},
         {"json_path_operator"}, {"url", "json_path"})

TcpCase == Case({"hostname", "port"}, {}, {}, {}, {"hostname", "port"})

PingCase == Case({"hostname", "ping_count"}, {"ping_count"}, {}, {}, {"hostname"})

DnsCase ==
    Case({"hostname", "dns_resolve_type", "conditions"}, {"conditions"}, {"dns_resolve_server"}, {},
         {"hostname"})

DockerCase ==
    Case({"docker_host", "docker_container"}, {"docker_host"}, {}, {}, {"docker_host"})

\* Kept whole by PostgreSQL; split into host and port by the others, which keep
\* at most a password; rewritten, with a note in every case, for SQL Server.
ConnectionCase(bends) ==
    Case({"database_connection_string"}, bends, {"database_query"}, {},
         {"database_connection_string"})

OracleCase ==
    Case({"database_connection_string"}, {},
         {"database_query", "radius_username", "radius_password"}, {},
         {"database_connection_string"})

MqttCase ==
    Case({"hostname", "port", "mqtt_username", "mqtt_password"}, {"mqtt_password"},
         {"mqtt_topic", "mqtt_success_message", "mqtt_websocket_path", "mqtt_check_type"}, {},
         {"hostname"})

SmtpCase == Case({"hostname", "port"}, {}, {"smtp_security"}, {}, {"hostname"})

GroupCase == Case({}, {}, {}, {}, {})

\* manualStatusFor: a state Kuma's scheduler set arrives as degraded.
ManualCase == Case({"manual_status"}, {"manual_status"}, {}, {}, {})

PushCase == Case({"push_token"}, {"push_token"}, {}, {}, {})

RealBrowserCase ==
    Case({"url", "remote_browser"}, {"remote_browser"}, {"expiry_notification"}, {}, {"url"})

GlobalpingCase == Case({"hostname", "location"}, {}, {"subtype", "keyword"}, {}, {"hostname"})

GrpcCase ==
    Noting(Case({"grpc_url", "grpc_service_name", "grpc_enable_tls", "grpc_metadata"},
                {"grpc_metadata"}, {"grpc_protobuf", "grpc_body", "grpc_method", "keyword"}, {},
                {"grpc_url"}))

KafkaCase ==
    Case({"kafka_producer_brokers", "kafka_producer_topic", "kafka_producer_message",
          "kafka_producer_sasl_options", "kafka_producer_ssl"}, {"kafka_producer_brokers"}, {}, {},
         {"kafka_producer_brokers"})

RabbitCase ==
    Case({"rabbitmq_nodes", "rabbitmq_username", "rabbitmq_password"}, {"rabbitmq_nodes"}, {}, {},
         {"rabbitmq_nodes"})

\* sip, steam: a host, and a port with a default.
EndpointCase == Case({"hostname", "port"}, {}, {}, {}, {"hostname"})

SnmpCase ==
    Case({"hostname", "port", "snmp_oid", "snmp_version", "snmp_v3_username", "radius_password",
          "conditions"}, {"radius_password", "conditions"}, {}, {}, {"hostname"})

TailscaleCase == Case({"hostname"}, {}, {}, {}, {"hostname"})

WebsocketCase == Case({"url", "ws_subprotocol"}, {}, {}, {}, {"url"})

RadiusCase ==
    Case({"hostname", "port", "radius_secret", "radius_username", "radius_password"}, {}, {}, {},
         {"hostname"})

GamedigCase == Case({"hostname", "port", "game"}, {}, {}, {}, {"hostname", "game"})

SystemServiceCase ==
    Noting(Case({"system_service_name"}, {}, {}, {}, {"system_service_name"}))

CaseOf(type) ==
    CASE type = "http" -> HttpCase({})
      [] type = "keyword" -> HttpCase({"keyword", "invert_keyword"})
      [] type = "json-query" -> JsonQueryCase
      [] type = "port" -> TcpCase
      [] type = "ping" -> PingCase
      [] type = "dns" -> DnsCase
      [] type = "docker" -> DockerCase
      [] type = "postgres" -> ConnectionCase({})
      [] type \in {"mysql", "mongodb", "redis"} -> ConnectionCase({"database_connection_string"})
      [] type = "sqlserver" -> Noting(ConnectionCase({}))
      [] type = "oracledb" -> OracleCase
      [] type = "mqtt" -> MqttCase
      [] type = "smtp" -> SmtpCase
      [] type = "group" -> GroupCase
      [] type = "manual" -> ManualCase
      [] type = "push" -> PushCase
      [] type = "real-browser" -> RealBrowserCase
      [] type = "globalping" -> GlobalpingCase
      [] type = "grpc-keyword" -> GrpcCase
      [] type = "kafka-producer" -> KafkaCase
      [] type = "rabbitmq" -> RabbitCase
      [] type \in {"sip-options", "steam"} -> EndpointCase
      [] type = "snmp" -> SnmpCase
      [] type = "tailscale-ping" -> TailscaleCase
      [] type = "websocket-upgrade" -> WebsocketCase
      [] type = "radius" -> RadiusCase
      [] type = "gamedig" -> GamedigCase
      [] type = "system-service" -> SystemServiceCase

\* NOTABLE_DROPS, and the type each of two entries is confined to.
NotableDrops_NoProxy(type) ==
    {"upside_down", "ignore_tls", "description", "weight", "maxredirects", "body", "headers",
     "basic_auth_user", "bearer_token", "oauth_client_id", "auth_method", "resend_interval",
     "cache_bust", "retry_only_on_status_code_failure", "tls_cert", "tls_ca", "ip_family",
     "packet_size", "save_response", "screenshot_delay", "gamedig_token",
     "kafka_producer_allow_auto_topic_creation", "ws_ignore_sec_websocket_accept_header",
     "radius_calling_station_id", "radius_called_station_id", "protocol"}
    \cup (IF type \in UrlBearing THEN {"domain_expiry_notification"} ELSE {})
    \cup (IF type = "gamedig" THEN {"gamedig_given_port_only"} ELSE {})

NotableDrops(type) == {"proxy_id"} \cup NotableDrops_NoProxy(type)

\* Before the case of the type, for every row: nameFor, intervalFor, timeoutFor
\* and failureWindowFor, which clamps without a note.
BaseLands == {"name", "interval", "timeout", "maxretries", "active", "parent"}
BaseBends == {"name", "interval", "timeout"}

\* After it: conditions on a type that reads none.
ConditionDrops(b) == IF "conditions" \in b.lands THEN {} ELSE {"conditions"}

\* buildMonitorInput, and createMonitorSchema on what it built: which columns
\* the row is refused for, which the report speaks of, which reach the monitor.
BuildMonitorInput(row) ==
    LET b == CaseOf(row.type)
        lands == b.lands \cup BaseLands
        drops == b.drops \cup NotableDrops(row.type) \cup ConditionDrops(b)
        Stating(value) == {c \in DOMAIN row.states : row.states[c] = value}
    IN  [refused |-> (Stating("odd") \cap (lands \cup b.accepts)) \cup (Stating("null") \cap b.needs),
         noted |-> (DOMAIN row.states \cap drops) \cup (Stating("bent") \cap (b.bends \cup BaseBends)),
         landed |-> Stating("fine") \cap (lands \cup b.accepts),
         always |-> b.always]

\* The word the report has for the row.
RowOutcome(row) ==
    LET built == BuildMonitorInput(row)
    IN  IF built.refused # {} THEN "skipped"
        ELSE IF built.noted = {} /\ ~ built.always THEN "imported" ELSE "transformed"

-----------------------------------------------------------------------------
\* What a row of a type may state, as the notes of FIELD_MATRIX have it.
Fine(columns) == {<<c, "fine">> : c \in columns}
Either(columns) == columns \X {"fine", "odd"}
Hosted == {<<"hostname", "null">>, <<"hostname", "odd">>}
Ported == Either({"port"})

HttpExtras ==
    {"headers", "body", "http_body_encoding", "maxredirects", "ignore_tls", "cache_bust", "proxy_id",
     "auth_method", "basic_auth_user", "basic_auth_pass", "bearer_token", "auth_domain",
     "auth_workstation", "tls_ca", "tls_cert", "tls_key", "oauth_client_id", "oauth_client_secret",
     "oauth_token_url", "oauth_scopes", "oauth_auth_method", "oauth_audience",
     "retry_only_on_status_code_failure", "domain_expiry_notification", "ip_family", "save_response",
     "save_error_response", "response_max_length", "expiry_notification"}

HttpOffers ==
    Fine(HttpExtras \cup {"accepted_statuscodes_json"}) \cup Either({"method"}) \cup
    {<<"url", "null">>, <<"url", "odd">>, <<"accepted_statuscodes_json", "bent">>}

Connections(bent) ==
    Fine({"database_query"}) \cup ({"database_connection_string"} \X (bent \cup {"null", "odd"}))

Offers(type) ==
    CASE type = "http" -> HttpOffers
      [] type = "keyword" -> HttpOffers \cup Either({"keyword"}) \cup Fine({"invert_keyword"})
      [] type = "json-query" ->
            HttpOffers \cup Either({"json_path_operator", "expected_value"}) \cup
            ({"json_path"} \X {"null", "bent", "odd"})
      [] type = "port" -> Hosted \cup ({"port"} \X {"null", "odd"}) \cup Fine({"expected_tls_alert"})
      [] type = "ping" ->
            Hosted \cup ({"ping_count"} \X {"fine", "bent"}) \cup
            Fine({"packet_size", "ping_numeric", "ping_per_request_timeout", "ip_family"})
      [] type = "dns" ->
            Hosted \cup Either({"dns_resolve_type"}) \cup ({"conditions"} \X {"fine", "bent"}) \cup
            Fine({"dns_resolve_server"})
      [] type = "docker" -> ({"docker_host"} \X {"null", "bent", "odd"}) \cup Either({"docker_container"})
      [] type = "postgres" -> Connections({"fine"})
      [] type \in {"mysql", "mongodb", "redis", "sqlserver"} -> Connections({"bent"})
      [] type = "oracledb" -> Connections({"bent"}) \cup Fine({"radius_username", "radius_password"})
      [] type = "mqtt" ->
            Hosted \cup Ported \cup Either({"mqtt_username"}) \cup
            ({"mqtt_password"} \X {"fine", "bent", "odd"}) \cup
            Fine({"mqtt_topic", "mqtt_success_message", "mqtt_websocket_path", "mqtt_check_type"})
      [] type = "smtp" -> Hosted \cup Ported \cup Fine({"smtp_security"})
      [] type = "group" -> {}
      [] type = "manual" -> {"manual_status"} \X {"fine", "bent"}
      [] type = "push" -> {"push_token"} \X {"fine", "bent"}
      [] type = "real-browser" ->
            {<<"url", "null">>, <<"url", "odd">>} \cup ({"remote_browser"} \X {"fine", "bent"}) \cup
            Fine({"screenshot_delay", "expiry_notification", "domain_expiry_notification"})
      [] type = "globalping" -> Hosted \cup Either({"location"}) \cup Fine({"subtype", "protocol", "keyword"})
      [] type = "grpc-keyword" ->
            {<<"grpc_url", "null">>, <<"grpc_url", "odd">>} \cup Either({"grpc_service_name"}) \cup
            ({"grpc_metadata"} \X {"fine", "bent", "odd"}) \cup
            Fine({"grpc_enable_tls", "grpc_protobuf", "grpc_body", "grpc_method", "keyword"})
      [] type = "kafka-producer" ->
            ({"kafka_producer_brokers"} \X {"null", "bent", "odd"}) \cup
            Either({"kafka_producer_topic", "kafka_producer_message", "kafka_producer_sasl_options"}) \cup
            Fine({"kafka_producer_ssl", "kafka_producer_allow_auto_topic_creation"})
      [] type = "rabbitmq" ->
            ({"rabbitmq_nodes"} \X {"null", "bent", "odd"}) \cup
            Either({"rabbitmq_username", "rabbitmq_password"})
      [] type \in {"sip-options", "steam"} -> Hosted \cup Ported
      [] type = "snmp" ->
            Hosted \cup Ported \cup Either({"snmp_oid", "snmp_version", "snmp_v3_username"}) \cup
            ({"radius_password", "conditions"} \X {"fine", "bent"})
      [] type = "tailscale-ping" -> Hosted
      [] type = "websocket-upgrade" ->
            {<<"url", "null">>, <<"url", "odd">>} \cup Either({"ws_subprotocol"}) \cup
            Fine({"ws_ignore_sec_websocket_accept_header"})
      [] type = "radius" ->
            Hosted \cup Ported \cup Either({"radius_secret", "radius_username", "radius_password"}) \cup
            Fine({"radius_calling_station_id", "radius_called_station_id"})
      [] type = "gamedig" ->
            Hosted \cup Ported \cup ({"game"} \X {"null", "odd"}) \cup
            Fine({"gamedig_token", "gamedig_given_port_only"})
      [] type = "system-service" -> {"system_service_name"} \X {"null", "odd"}

BaseOffers ==
    ({"name", "interval", "timeout", "maxretries"} \X {"fine", "bent"}) \cup
    Fine({"active", "parent", "description", "weight", "upside_down", "resend_interval"})

VARIABLE
    row   \* the row being translated

NoRow == [type |-> "none", states |-> <<>>]

\* What a column of a type is when nothing is said of it: its target is there.
Given(type) == [c \in CaseOf(type).needs |-> "fine"]

\* Every row that states one thing more of its type, and one of any type.
RowInit ==
    \E type \in DOMAIN TypeMatrix : \E p \in Offers(type) \cup BaseOffers, q \in BaseOffers :
        row = [type |-> type,
               states |-> [c \in {p[1], q[1]} \cup DOMAIN Given(type) |->
                              IF c = p[1] THEN p[2] ELSE IF c = q[1] THEN q[2] ELSE Given(type)[c]]]

\* What the code loses without a word: a failure window beyond the bound, columns
\* that are in neither the case of the type nor NOTABLE_DROPS (the verb and the
\* accepted codes of a JSON query among them), what an Oracle connection string
\* says besides its host and port.
Unspoken(type) ==
    {"maxretries", "basic_auth_pass", "auth_domain", "auth_workstation", "http_body_encoding",
     "tls_key", "oauth_client_secret", "oauth_token_url", "oauth_scopes", "oauth_auth_method",
     "oauth_audience", "save_error_response", "response_max_length", "ping_numeric",
     "ping_per_request_timeout", "expected_tls_alert"}
    \cup (CASE type = "json-query" -> {"method", "accepted_statuscodes_json"}
            [] type = "oracledb" -> {"database_connection_string"}
            [] OTHER -> {})

\* What a row that arrives states reaches the monitor as it is, or the report
\* speaks of it, or it is one of `but'.
SpokenRow(r, but) ==
    LET built == BuildMonitorInput(r)
    IN  built.refused = {} =>
            DOMAIN r.states \subseteq
                built.landed \cup built.noted \cup but \cup
                (IF built.always THEN {c \in DOMAIN r.states : r.states[c] = "bent"} ELSE {})

\* Nothing the compatibility page calls unsupported reaches the monitor.
PageTrue(r) == (BuildMonitorInput(r).landed \ CaseOf(r.type).accepts) \cap Unsupported = {}

\* All that a row of a type may state, and a row that states one of them.
Statable(type) == Offers(type) \cup BaseOffers \cup Fine(CaseOf(type).needs)
Alone(type, p) == [type |-> type, states |-> [c \in {p[1]} |-> p[2]]]

\* The tables hold, entry by entry.
ASSUME RowTables ==
    \A type \in DOMAIN TypeMatrix : \A p \in Statable(type) :
        SpokenRow(Alone(type, p), Unspoken(type)) /\ PageTrue(Alone(type, p))

(* A Kuma row that arrives loses nothing without a word but the columns      *)
(* named in Unspoken, and carries nothing the compatibility page says it     *)
(* does not (buildMonitorInput, NOTABLE_DROPS, FIELD_MATRIX).                *)
RowSpoken == row # NoRow => SpokenRow(row, Unspoken(row.type)) /\ PageTrue(row)
=============================================================================
