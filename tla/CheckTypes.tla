----------------------------- MODULE CheckTypes ------------------------------
(***************************************************************************)
(* The registry of check types (modules/monitors/types: registry.ts,       *)
(* specs/index.ts, contract.ts): for every type its settings, its          *)
(* conversation, its assertions and the clock its probe runs by.           *)
(***************************************************************************)
EXTENDS LineTypes, BinaryTypes, DatagramTypes, WebTypes, LocalTypes

\* CheckTypeKind: a passive type waits to be told, an aggregate one is worked out
\* from others, a manual one is set by hand.  Unknown is a type of another build.
UnprobedTypes == {"push", "group", "manual", "unknown"}

StreamTypes ==
    {"tcp", "redis", "memcached", "smtp", "imap", "ftp", "ssh", "mysql", "postgres",
     "mongodb", "mqtt", "ldap", "oracledb", "sqlserver", "kafkaProducer", "websocket"}

DatagramKinds == {"dns", "ntp", "udp", "radius", "snmp", "sip", "steam", "gamedig"}

RequestTypes ==
    {"http", "jsonQuery", "elasticsearch", "rabbitmq", "docker", "grpc", "globalping",
     "domainExpiry", "realBrowser", "tlsExpiry"}

ProgramTypes == {"ping", "tailscalePing", "systemService"}

ActiveTypes == StreamTypes \cup DatagramKinds \cup RequestTypes \cup ProgramTypes

\* fromRow: the settings each type reads out of a monitor's row.
ConfigsOf(t) ==
    CASE t = "redis" -> RedisConfig
      [] t = "memcached" -> MemcachedConfig
      [] t = "imap" -> ImapConfig
      [] t = "ftp" -> FtpConfig
      [] t = "ssh" -> SshConfig
      [] t = "mqtt" -> MqttConfig
      [] t = "ldap" -> LdapConfig
      [] t = "kafkaProducer" -> KafkaConfig
      [] t = "dns" -> DnsConfig
      [] t = "udp" -> UdpConfig
      [] t = "radius" -> RadiusConfig
      [] t = "snmp" -> SnmpConfig
      [] t = "sip" -> SipConfig
      [] t = "gamedig" -> GamedigConfig
      [] t = "http" -> HttpConfig
      [] t = "elasticsearch" -> ElasticsearchConfig
      [] t = "docker" -> DockerConfig
      [] t = "websocket" -> WebsocketConfig
      [] t = "globalping" -> GlobalpingConfig
      [] t = "realBrowser" -> RealBrowserConfig
      [] t \in ProgramTypes -> LocalConfig
      [] OTHER -> NoConfig

TableOf(t, c) ==
    CASE t = "tcp" -> TcpTable(c)
      [] t = "redis" -> RedisTable(c)
      [] t = "memcached" -> MemcachedTable(c)
      [] t = "smtp" -> SmtpTable(c)
      [] t = "imap" -> ImapTable(c)
      [] t = "ftp" -> FtpTable(c)
      [] t = "ssh" -> SshTable(c)
      [] t = "mysql" -> MysqlTable(c)
      [] t = "postgres" -> PostgresTable(c)
      [] t = "mongodb" -> MongodbTable(c)
      [] t = "mqtt" -> MqttTable(c)
      [] t = "ldap" -> LdapTable(c)
      [] t = "oracledb" -> OracleTable(c)
      [] t = "sqlserver" -> SqlserverTable(c)
      [] t = "kafkaProducer" -> KafkaTable(c)
      [] t = "dns" -> DnsTable(c)
      [] t = "ntp" -> NtpTable(c)
      [] t = "udp" -> UdpTable(c)
      [] t = "radius" -> RadiusTable(c)
      [] t = "snmp" -> SnmpTable(c)
      [] t = "sip" -> SipTable(c)
      [] t = "steam" -> SteamTable(c)
      [] t = "gamedig" -> GamedigTable(c)
      [] t = "http" -> HttpTable(c)
      [] t = "jsonQuery" -> JsonQueryTable(c)
      [] t = "elasticsearch" -> ElasticsearchTable(c)
      [] t = "rabbitmq" -> RabbitmqTable(c)
      [] t = "docker" -> DockerTable(c)
      [] t = "grpc" -> GrpcTable(c)
      [] t = "websocket" -> WebsocketTable(c)
      [] t = "globalping" -> GlobalpingTable(c)
      [] t = "domainExpiry" -> DomainExpiryTable(c)
      [] t = "realBrowser" -> RealBrowserTable(c)
      [] t = "tlsExpiry" -> TlsExpiryTable(c)
      [] t = "ping" -> PingTable(c)
      [] t = "tailscalePing" -> TailscaleTable(c)
      [] t = "systemService" -> SystemServiceTable(c)

FailingOf(t, c, f) ==
    CASE t = "tcp" -> TcpFailing(c, f)
      [] t = "redis" -> RedisFailing(c, f)
      [] t = "memcached" -> MemcachedFailing(c, f)
      [] t = "smtp" -> SmtpFailing(c, f)
      [] t = "imap" -> ImapFailing(c, f)
      [] t = "ftp" -> FtpFailing(c, f)
      [] t = "ssh" -> SshFailing(c, f)
      [] t = "mysql" -> MysqlFailing(c, f)
      [] t = "postgres" -> PostgresFailing(c, f)
      [] t = "mongodb" -> MongodbFailing(c, f)
      [] t = "mqtt" -> MqttFailing(c, f)
      [] t = "ldap" -> LdapFailing(c, f)
      [] t = "oracledb" -> OracleFailing(c, f)
      [] t = "sqlserver" -> SqlserverFailing(c, f)
      [] t = "kafkaProducer" -> KafkaFailing(c, f)
      [] t = "dns" -> DnsFailing(c, f)
      [] t = "ntp" -> NtpFailing(c, f)
      [] t = "udp" -> UdpFailing(c, f)
      [] t = "radius" -> RadiusFailing(c, f)
      [] t = "snmp" -> SnmpFailing(c, f)
      [] t = "sip" -> SipFailing(c, f)
      [] t = "steam" -> SteamFailing(c, f)
      [] t = "gamedig" -> GamedigFailing(c, f)
      [] t = "http" -> HttpFailing(c, f)
      [] t = "jsonQuery" -> JsonQueryFailing(c, f)
      [] t = "elasticsearch" -> ElasticsearchFailing(c, f)
      [] t = "rabbitmq" -> RabbitmqFailing(c, f)
      [] t = "docker" -> DockerFailing(c, f)
      [] t = "grpc" -> GrpcFailing(c, f)
      [] t = "websocket" -> WebsocketFailing(c, f)
      [] t = "globalping" -> GlobalpingFailing(c, f)
      [] t = "domainExpiry" -> DomainExpiryFailing(c, f)
      [] t = "realBrowser" -> RealBrowserFailing(c, f)
      [] t = "tlsExpiry" -> TlsExpiryFailing(c, f)
      [] t = "ping" -> PingFailing(c, f)
      [] t = "tailscalePing" -> TailscaleFailing(c, f)
      [] t = "systemService" -> SystemServiceFailing(c, f)

\* Which clock a probe runs by: an "idle" one starts over with every byte, a
\* "phase" one with every question, a "remaining" one is wound up again with
\* what is left of the whole, "grace" is two seconds on top, "floor" is one deadline
\* that grants a call opened at the last moment a moment more (Math.max), the
\* "resolver" has timers of its own, one for each nameserver, of which there is one
\* here, and the others have one deadline for the whole conversation, but for the
\* certificate an http check may look at after it.
ClockOf(t, c) ==
    CASE t \in {"tcp", "ssh", "mqtt", "ldap", "websocket", "docker", "tlsExpiry"} -> "idle"
      [] t = "sip" -> IF c.transport = "sipTcp" THEN "idle" ELSE "whole"
      [] t \in {"postgres", "snmp"} -> "phase"
      [] t \in {"redis", "mysql"} -> "remaining"
      [] t \in {"ping", "tailscalePing", "realBrowser"} -> "grace"
      [] t \in {"globalping", "kafkaProducer"} -> "floor"
      [] t = "dns" -> "resolver"
      [] OTHER -> "whole"

\* The phases of a "floor" conversation after its first call: kafka's on the leader's
\* connection, where there is one, and globalping's polls.
AnotherCall ==
    {"leader", "leaderVersions", "leaderAuth", "leaderCredential", "produce", "poll"}

\* A result measured over these ends with a farewell: the socket is closed by
\* the other side, or by the clock.
PartsPolitely == {"smtp", "imap", "ftp", "ssh", "ldap", "websocket"}

\* What a latency is measured by: the probe's own watch, or the answer.
OwnWatch == ActiveTypes \ {"globalping", "domainExpiry", "ping", "tailscalePing"}
=============================================================================
