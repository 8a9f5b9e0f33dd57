----------------------------- MODULE LineTypes -------------------------------
(***************************************************************************)
(* Check types that speak a line protocol over one TCP connection: tcp,    *)
(* redis, memcached, smtp, imap, ftp and ssh (modules/monitors/types:      *)
(* probes/ and specs/).  XConfig is the settings the probe and the spec    *)
(* branch on, XTable the conversation, XFailing the assertions.            *)
(***************************************************************************)
EXTENDS Replies, TLC

\* A connection that opens is all that tcp asks for.
TcpTable(c) == [connect |-> [accepted |-> Right(Facts({}))]]

TcpFailing(c, f) == Failing(FALSE, Slow(f))

-----------------------------------------------------------------------------
RedisConfig == [password : BOOLEAN]

\* An error reply to AUTH is a refused credential; anything else is not RESP.
RedisAuth ==
    [ok |-> Right(Ask("ping")),
     error |-> Denied(Cannot),
     line |-> Foreign(Fail),
     overlong |-> Foreign(Fail)]

\* pingResult.  An error reply says nothing of PING, and is still an answer.
RedisPing ==
    [pong |-> Right(Facts({"pong"})),
     simple |-> Wrong(Facts({"not-pong"})),
     error |-> Right(Facts({})),
     line |-> Foreign(Fail),
     overlong |-> Foreign(Fail)]

RedisTable(c) ==
    [connect |-> [accepted |-> Right(Ask(IF c.password THEN "auth" ELSE "ping"))],
     auth |-> RedisAuth,
     ping |-> RedisPing]

RedisFailing(c, f) == Failing("not-pong" \in f, Slow(f))

-----------------------------------------------------------------------------
MemcachedConfig == [credential : BOOLEAN, headroom : BOOLEAN]

\* VERSION, before or after signing in: answered, refused for want of a sign-in,
\* or not answered.
MemcachedVersion(c, signedIn) ==
    [version |-> Right(Ask("stats")),
     unauthenticated |-> IF c.credential /\ ~ signedIn THEN Right(Ask("auth"))
                         ELSE Denied(Cannot),
     line |-> Foreign(Facts({})),
     overlong |-> Foreign(Fail)]

MemcachedAuth ==
    [stored |-> Right(Ask("versionAgain")),
     line |-> Denied(Cannot),
     overlong |-> Foreign(Fail)]

\* The two listings, asked in one write.  VERSION has been answered, and their
\* failure, an early close or a line unknown takes nothing from it.
MemcachedStats ==
    [end |-> Right(Ask("settings")),
     error |-> Right(Facts({"version"})),
     closed |-> Right(Facts({"version"})),
     overlong |-> Foreign(Fail)]

\* memcachedFacts: connections in use of those allowed.
MemcachedSettings(c) ==
    [end |-> Right(Facts({"version"})),
     crowded |-> Answer(IF c.headroom THEN "poor" ELSE "right",
                        Facts({"version", "crowded"})),
     error |-> Right(Facts({"version"})),
     closed |-> Right(Facts({"version"})),
     overlong |-> Foreign(Fail)]

MemcachedTable(c) ==
    [connect |-> [accepted |-> Right(Ask("version"))],
     version |-> MemcachedVersion(c, FALSE),
     auth |-> MemcachedAuth,
     versionAgain |-> MemcachedVersion(c, TRUE),
     stats |-> MemcachedStats,
     settings |-> MemcachedSettings(c)]

MemcachedFailing(c, f) ==
    Failing("version" \notin f, Slow(f) \/ (c.headroom /\ "crowded" \in f))

-----------------------------------------------------------------------------
\* readReply: a greeting by its code; a line without one is an answer too.
SmtpGreeting ==
    [ready |-> Right(Ask("ehlo")),
     code |-> Wrong(Facts({"greeted"})),
     line |-> Foreign(Facts({})),
     overlong |-> Foreign(Fail)]

SmtpTable(c) ==
    [connect |-> [accepted |-> Right(Ask("greeting"))],
     greeting |-> SmtpGreeting,
     ehlo |-> [ok |-> Right(Facts({"ready", "ehlo-ok"})),
               code |-> Wrong(Facts({"ready", "ehlo-refused"})),
               line |-> Foreign(Facts({"ready", "ehlo-refused"})),
               overlong |-> Foreign(Fail)]]

SmtpFailing(c, f) == Failing("ready" \notin f \/ "ehlo-refused" \in f, Slow(f))

-----------------------------------------------------------------------------
ImapConfig == [required : BOOLEAN]

\* parseGreeting: OK and PREAUTH go on, BYE and what is not a greeting do not.
ImapGreeting ==
    [ok |-> Right(Ask("capability")),
     bye |-> Wrong(Facts({"bye"})),
     line |-> Foreign(Facts({"no-greeting"})),
     overlong |-> Foreign(Fail)]

\* Listings and unrelated lines are read on; the tagged completion ends it.  What
\* was listed: both words asked for, only IMAP4rev1, or not even that.
ImapCapability(c) ==
    [untagged |-> Right(Ask("capability")),
     okAll |-> Right(Facts({"imap4", "required"})),
     okPlain |-> Answer(IF c.required THEN "wrong" ELSE "right", Facts({"imap4"})),
     okNone |-> Wrong(Facts({})),
     refused |-> Wrong(Facts({"rejected"})),
     overlong |-> Foreign(Fail)]

ImapTable(c) ==
    [connect |-> [accepted |-> Right(Ask("greeting"))],
     greeting |-> ImapGreeting,
     capability |-> ImapCapability(c)]

\* Without a listing the capability assertions have no opinion.
ImapFailing(c, f) ==
    LET listed == f \cap {"bye", "no-greeting", "rejected"} = {} IN
    Failing(\/ ~ listed
            \/ listed /\ "imap4" \notin f
            \/ listed /\ c.required /\ "required" \notin f, Slow(f))

-----------------------------------------------------------------------------
FtpConfig == {"anonymous", "username", "password"}

FtpGreeting ==
    [ready |-> Right(Ask("feat")),
     code |-> Wrong(Facts({"greeting-bad"})),
     line |-> Foreign(Facts({"greeting-bad"})),
     overlong |-> Foreign(Fail)]

\* readReply of ftp: a reply's last line by its code, or no reply at all.
FtpUnreadable(facts) == [line |-> Foreign(facts), overlong |-> Foreign(Fail)]

\* Any code will do for FEAT, which a server may not know.
FtpFeat(c) ==
    LET next(f) == IF c = "anonymous" THEN Facts(f) ELSE AskWith("user", f) IN
    [code |-> Right(next({}))] @@ FtpUnreadable(next({"feat-bad"}))

\* USER, and PASS when asked for and there is one.
FtpUser(c) ==
    [loggedIn |-> Right(Facts({})),
     needPassword |-> IF c = "password" THEN Right(Ask("pass"))
                      ELSE Wrong(Facts({"login-bad"})),
     code |-> Wrong(Facts({"login-bad"}))] @@ FtpUnreadable(Facts({"login-bad"}))

FtpPass ==
    [loggedIn |-> Right(Facts({})),
     code |-> Wrong(Facts({"login-bad"}))] @@ FtpUnreadable(Facts({"login-bad"}))

FtpTable(c) ==
    [connect |-> [accepted |-> Right(Ask("greeting"))],
     greeting |-> FtpGreeting,
     feat |-> FtpFeat(c),
     user |-> FtpUser(c),
     pass |-> FtpPass]

FtpFailing(c, f) ==
    Failing(\/ "greeting-bad" \in f \/ "feat-bad" \in f
            \/ c # "anonymous" /\ "login-bad" \in f, Slow(f))

-----------------------------------------------------------------------------
SshConfig == [expected : BOOLEAN]

\* readIdentification, over whatever preamble the server sends first; a close
\* before it is an answer that is not SSH.
SshBanner(c) ==
    [identified |-> Right(Facts({"identified", "expected"})),
     otherBanner |-> Answer(IF c.expected THEN "wrong" ELSE "right", Facts({"identified"})),
     notSsh |-> Foreign(Facts({"banner"})),
     overlong |-> Foreign(Facts({"banner"})),
     closed |-> Foreign(Facts({}))]

SshTable(c) ==
    [connect |-> [accepted |-> Right(Ask("banner"))], banner |-> SshBanner(c)]

SshFailing(c, f) ==
    Failing("identified" \notin f \/ (c.expected /\ "expected" \notin f /\ f # {}), Slow(f))
=============================================================================
