---------------------------- MODULE BinaryTypes ------------------------------
(***************************************************************************)
(* Check types that speak a binary protocol over TCP: mysql, postgres,     *)
(* mongodb, mqtt, ldap, oracledb, sqlserver and kafka-producer             *)
(* (modules/monitors/types: probes/ and specs/).  A codec is the set of    *)
(* answers it tells apart.                                                 *)
(***************************************************************************)
EXTENDS Replies, TLC

\* readHandshake: MySQL speaks first, with a handshake or an error packet.
MysqlGreeting ==
    [handshake |-> Right(Facts({"handshake"})),
     serverError |-> Wrong(Facts({})),
     notAHandshake |-> Foreign(Facts({}))]

MysqlTable(c) ==
    [connect |-> [accepted |-> Right(Ask("greeting"))],
     greeting |-> MysqlGreeting]

MysqlFailing(c, f) == Failing("handshake" \notin f, Slow(f))

-----------------------------------------------------------------------------
\* The driver signs in and runs SELECT 1; all it asks is that both go through.
PostgresTable(c) ==
    [connect |-> [accepted |-> Right(Ask("query")), refused |-> Wrong(Fail)],
     query |-> [row |-> Right(Facts({})), error |-> Wrong(Fail)]]

PostgresFailing(c, f) == Failing(FALSE, Slow(f))

-----------------------------------------------------------------------------
\* readHelloReply: one document, its `ok' read out of it.
MongodbHello ==
    [ok |-> Right(Facts({"hello"})),
     notOk |-> Wrong(Facts({})),
     unreadable |-> Foreign(Facts({}))]

MongodbTable(c) ==
    [connect |-> [accepted |-> Right(Ask("hello"))],
     hello |-> MongodbHello]

MongodbFailing(c, f) == Failing("hello" \notin f, Slow(f))

-----------------------------------------------------------------------------
\* mqttStoredSchema: a password needs a username.
MqttConfig == {"open", "username", "password"}

\* readConnack.  A broker that hangs up without one has answered: wrongly.
MqttConnack ==
    [accepted |-> Right(Facts({"connack"})),
     refused |-> Wrong(Facts({"connack", "refused"})),
     notMqtt |-> Foreign(Facts({})),
     closed |-> Foreign(Facts({}))]

MqttTable(c) ==
    [connect |-> [accepted |-> Right(Ask("connack"))],
     connack |-> MqttConnack]

MqttFailing(c, f) == Failing("connack" \notin f \/ "refused" \in f, Slow(f))

-----------------------------------------------------------------------------
\* ldapStoredSchema: a bind password needs a bind DN.
LdapConfig == {"anonymous", "dn", "password"}

\* readBindResponse.  A directory that says no is still not serving its binds.
LdapBind ==
    [success |-> Right(Facts({"bind"})),
     refused |-> Wrong(Facts({"bind", "refused"})),
     notLdap |-> Foreign(Facts({})),
     closed |-> Foreign(Facts({}))]

LdapTable(c) ==
    [connect |-> [accepted |-> Right(Ask("bind"))],
     bind |-> LdapBind]

LdapFailing(c, f) == Failing("bind" \notin f \/ "refused" \in f, Slow(f))

-----------------------------------------------------------------------------
\* readRefusal: the listener's own reason, whatever it can be read to be.
OracleRefusal == Wrong(Facts({"tns"}))

\* readAnswer.  A listener may ask once for the packet again; a second time is
\* a listener that does not accept.
OracleAnswer(again) ==
    [accept |-> Right(Facts({"tns", "accepted"})),
     redirect |-> Right(Facts({"tns", "accepted"})),
     refuse |-> OracleRefusal,
     other |-> Wrong(Facts({"tns"})),
     resend |-> IF again THEN Wrong(Facts({"tns"})) ELSE Right(Ask("again")),
     notTns |-> Foreign(Facts({}))]

OracleTable(c) ==
    [connect |-> [accepted |-> Right(Ask("answer"))],
     answer |-> OracleAnswer(FALSE),
     again |-> OracleAnswer(TRUE)]

OracleFailing(c, f) ==
    Failing("tns" \notin f \/ "accepted" \notin f, Slow(f))

-----------------------------------------------------------------------------
\* takeMessage: a header that is no TDS packet's, or a length past the cap.
TdsMessage == [notTds |-> Foreign(Facts({}))]

\* parsePrelogin.  A server that insists on encryption is not signed in to, and
\* what was not asked has no opinion.
SqlserverPrelogin ==
    [plain |-> Right(Ask("login")),
     encrypted |-> Right(Facts({"prelogin"}))] @@ TdsMessage

\* scanTokens, over the answer to LOGIN7.
SqlserverLogin ==
    [ack |-> Right(Ask("query")),
     refused |-> Wrong(Facts({"prelogin", "login-bad"}))] @@ TdsMessage

\* readTrailingDone: columns, and a DONE without its error bit.
SqlserverQuery ==
    [row |-> Right(Facts({"prelogin"})),
     failed |-> Wrong(Facts({"prelogin", "query-bad"}))] @@ TdsMessage

SqlserverTable(c) ==
    [connect |-> [accepted |-> Right(Ask("prelogin"))],
     prelogin |-> SqlserverPrelogin,
     login |-> SqlserverLogin,
     query |-> SqlserverQuery]

SqlserverFailing(c, f) ==
    Failing("prelogin" \notin f \/ f \cap {"login-bad", "query-bad"} # {}, Slow(f))

-----------------------------------------------------------------------------
KafkaConfig == [topic : BOOLEAN, username : BOOLEAN]

\* Reader: a response shorter than its own fields.
KafkaResponse == [notKafka |-> Foreign(Fail)]

\* negotiate: the versions, then SASL when there is a username.  `then' is the
\* phase a signed-in connection goes on to.
KafkaVersions(c, auth, then) ==
    [versions |-> Right(Ask(IF c.username THEN auth ELSE then)),
     tooOld |-> Denied(Cannot),
     refused |-> Denied(Cannot)] @@ KafkaResponse

\* authenticate: the mechanism, then the credential.
KafkaAuth(credential) ==
    [mechanism |-> Right(Ask(credential)),
     unsupported |-> Denied(Cannot)] @@ KafkaResponse

KafkaCredential(then) ==
    [accepted |-> Right(Ask(then)),
     rejected |-> Denied(Cannot)] @@ KafkaResponse

\* fetchMetadata: where the topic's first partition is led.
KafkaMetadata ==
    [ledHere |-> Right(Ask("produce")),
     ledElsewhere |-> Right(Ask("leader")),
     noTopic |-> Wrong(Facts({"no-topic"})),
     unauthorised |-> Denied(Cannot),
     noLeader |-> Wrong(Facts({"broker-error"}))] @@ KafkaResponse

\* The leader is an address the cluster named, held to the target's own rule.
KafkaLeader ==
    [accepted |-> Right(Ask("leaderVersions")),
     private |-> Wrong(Fail)]

KafkaProduce ==
    [acked |-> Right(Facts({"acked"})),
     unauthorised |-> Denied(Cannot),
     refused |-> Wrong(Facts({"broker-error"}))] @@ KafkaResponse

\* Without a topic there is nothing to ask, and no connection is opened.
KafkaTable(c) ==
    IF ~ c.topic THEN [guard |-> [unset |-> Denied(Cannot)]]
    ELSE [connect |-> [accepted |-> Right(Ask("versions"))],
          versions |-> KafkaVersions(c, "auth", "metadata"),
          auth |-> KafkaAuth("credential"),
          credential |-> KafkaCredential("metadata"),
          metadata |-> KafkaMetadata,
          leader |-> KafkaLeader,
          leaderVersions |-> KafkaVersions(c, "leaderAuth", "produce"),
          leaderAuth |-> KafkaAuth("leaderCredential"),
          leaderCredential |-> KafkaCredential("produce"),
          produce |-> KafkaProduce]

KafkaFailing(c, f) == Failing(f \cap {"no-topic", "broker-error"} # {}, Slow(f))
=============================================================================
