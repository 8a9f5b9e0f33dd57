--------------------------- MODULE DatagramTypes -----------------------------
(***************************************************************************)
(* Check types that ask over UDP: dns, ntp, udp, radius, snmp, sip, steam  *)
(* and gamedig (modules/monitors/types: probes/ and specs/).  A datagram   *)
(* may be a stray, an old answer or somebody else's: what each type takes  *)
(* for its own is in its table.                                            *)
(***************************************************************************)
EXTENDS Replies, TLC

\* resolveDatagramHost: after the guard, the name is looked up once more.
Resolved(then) ==
    [resolved |-> Right(Ask(then)), unresolved |-> Wrong(Fail)]

\* `accepts' said no: the datagram is not an answer, and waiting goes on.
Stray(phase) == Right(Ask(phase))

-----------------------------------------------------------------------------
DnsConfig == [expected : BOOLEAN]

\* A name without records is an answer; a nameserver that will not say is not.
\* Nothing is connected to, so nothing is guarded.
DnsTable(c) ==
    [guard |-> [local |-> Right(Ask("lookup"))],
     lookup |->
        [expected |-> Right(Facts({"records", "expected"})),
         others |-> Answer(IF c.expected THEN "wrong" ELSE "right", Facts({"records"})),
         none |-> Wrong(Facts({})),
         refused |-> Wrong(Fail)]]

DnsFailing(c, f) ==
    Failing("records" \notin f \/ (c.expected /\ "expected" \notin f), Slow(f))

-----------------------------------------------------------------------------
\* echoesOurRequest, then decodeServerPacket.  A kiss-o'-death is a server that
\* refuses this client, not one that is down.
NtpReply ==
    [stray |-> Stray("reply"),
     synchronised |-> Right(Facts({})),
     farOff |-> Poor(Facts({"far-off"})),
     alarm |-> Wrong(Facts({"alarm"})),
     highStratum |-> Wrong(Facts({"unsynchronised"})),
     kiss |-> Denied(Cannot),
     notServer |-> Foreign(Fail)]

NtpTable(c) == [connect |-> Resolved("reply"), reply |-> NtpReply]

NtpFailing(c, f) ==
    Failing(f \cap {"alarm", "unsynchronised"} # {}, Slow(f) \/ "far-off" \in f)

-----------------------------------------------------------------------------
UdpConfig == [port : BOOLEAN, expected : BOOLEAN]

\* Any datagram at all is an answer; with an expectation, one that contains it.
UdpTable(c) ==
    [connect |-> IF c.port THEN Resolved("reply") ELSE [unset |-> Denied(Cannot)],
     reply |->
        [expected |-> Right(Facts({"matches"})),
         other |-> Answer(IF c.expected THEN "wrong" ELSE "right", Facts({}))]]

UdpFailing(c, f) == Failing(c.expected /\ "matches" \notin f, Slow(f))

-----------------------------------------------------------------------------
RadiusConfig == [secret : BOOLEAN, fits : BOOLEAN, accept : BOOLEAN]

\* The identifier makes an answer ours, verifyResponse makes it the server's.
RadiusReply(c) ==
    [stray |-> Stray("reply"),
     accept |-> Right(Facts({"known", "accept"})),
     reject |-> Answer(IF c.accept THEN "wrong" ELSE "right", Facts({"known"})),
     unknown |-> Wrong(Facts({})),
     unsigned |-> Denied(Cannot)]

\* encodeAccessRequest: a value too long for its attribute, nothing to send.
RadiusRequest(c) ==
    IF c.fits THEN Resolved("reply") ELSE [unencodable |-> Denied(Cannot)]

\* No secret, nothing to sign with.
RadiusTable(c) ==
    IF ~ c.secret THEN [guard |-> [unset |-> Denied(Cannot)]]
    ELSE [connect |-> RadiusRequest(c),
          reply |-> RadiusReply(c)]

RadiusFailing(c, f) ==
    Failing("known" \notin f \/ (c.accept /\ "accept" \notin f), Slow(f))

-----------------------------------------------------------------------------
\* snmpStoredSchema: privacy comes only with authentication.
SnmpConfig ==
    [version : {"community", "open", "auth", "priv"}, expected : BOOLEAN]

\* decodeValue: a value, or the exception an agent puts in its place.
SnmpValue(c) ==
    [expected |-> Right(Facts({"found", "expected"})),
     otherValue |-> Answer(IF c.expected THEN "wrong" ELSE "right", Facts({"found"})),
     noSuchObject |-> Wrong(Facts({"missing"}))]

\* factsFor, over the PDU that carries our request id.
SnmpPdu(c) ==
    SnmpValue(c)
    @@ [otherOid |-> Wrong(Facts({"missing"})), errorStatus |-> Wrong(Facts({"refused"}))]

\* readTlv and the readers on it: what runs past its own length is not SNMP.
SnmpUndecodable == [undecodable |-> Foreign(Fail)]

\* One exchange: another id is waited past, a datagram that does not decode ends it.
SnmpExchange(phase) == [otherId |-> Stray(phase)] @@ SnmpUndecodable

\* Engine discovery, which is all that v3 lets a stranger ask.
SnmpDiscovery ==
    [engine |-> Right(Ask("getV3")), noEngine |-> Denied(Cannot)]
    @@ SnmpExchange("discovery")

\* verifyMessage, decryptScopedPdu: a signed reply is verified before it is read,
\* an encrypted one needs the key.
SnmpSecurity(c) ==
    [badDigest |-> Wrong(Fail)]
    @@ (IF c.version = "priv" THEN << >> ELSE [encrypted |-> Wrong(Fail)])

SnmpGetV3(c) ==
    SnmpPdu(c) @@ SnmpExchange("getV3") @@ SnmpSecurity(c)
    @@ [report |-> Wrong(Facts({"refused"}))]

\* resolvePeer classifies the address it will really send to.
SnmpPeer(then) == Resolved(then) @@ [private |-> Wrong(Fail)]

SnmpTable(c) ==
    [connect |-> SnmpPeer(IF c.version = "community" THEN "get" ELSE "discovery"),
     get |-> SnmpPdu(c) @@ SnmpExchange("get"),
     discovery |-> SnmpDiscovery,
     getV3 |-> SnmpGetV3(c)]

SnmpFailing(c, f) ==
    Failing(f \cap {"missing", "refused"} # {} \/ (c.expected /\ "expected" \notin f),
            Slow(f))

-----------------------------------------------------------------------------
SipConfig == [transport : {"sipUdp", "sipTcp"}, expected : BOOLEAN]

\* readSipResponse.  A provisional answer is waited past; of the final ones a 2xx
\* will do, unless the operator named a code.
SipResponse(c) ==
    [provisional |-> Stray("response"),
     success |-> Answer(IF c.expected THEN "wrong" ELSE "right",
                        Facts({"answered", "success"})),
     named |-> Answer(IF c.expected THEN "right" ELSE "wrong",
                      Facts({"answered", "named"})),
     notSip |-> Foreign(Facts({}))]

\* overTcp: the message is framed and bounded, and a close is an answer that is
\* not SIP.
SipOverTcp(c) ==
    SipResponse(c) @@ [overlong |-> Foreign(Fail), closed |-> Foreign(Facts({}))]

SipTable(c) ==
    [connect |-> Resolved("response"),
     response |-> IF c.transport = "sipUdp" THEN SipResponse(c) ELSE SipOverTcp(c)]

SipFailing(c, f) ==
    LET wanted == IF c.expected THEN "named" ELSE "success" IN
    Failing("answered" \notin f \/ wanted \notin f, Slow(f))

-----------------------------------------------------------------------------
\* readInfoPayload: the server's card, read to its last field or not at all.
A2sInfo == [info |-> Right(Facts({"answered"})), unreadable |-> Foreign(Facts({}))]

\* readA2sReply: the card, or a challenge to be echoed, once.
A2sReply(again, split) ==
    A2sInfo
    @@ [challenge |-> IF again THEN Wrong(Facts({})) ELSE Right(Ask("challenged")),
        split |-> split]

\* A reply in several packets is one Vigil does not put together.
SteamTable(c) ==
    [connect |-> Resolved("info"),
     info |-> A2sReply(FALSE, Denied(Cannot)),
     challenged |-> A2sReply(TRUE, Denied(Cannot))]

\* answersQuery.
SteamFailing(c, f) == Failing("answered" \notin f, Slow(f))

GamedigConfig == {"source", "minecraft", "quake3"}

\* isReplyFor: both halves of the query carry this session's id.
MinecraftTable ==
    [connect |-> Resolved("handshake"),
     handshake |-> [token |-> Right(Ask("stat")), unreadable |-> Foreign(Facts({}))],
     stat |-> [state |-> Right(Facts({"answered"})), unreadable |-> Foreign(Facts({}))]]

Quake3Table ==
    [connect |-> Resolved("status"),
     status |-> [state |-> Right(Facts({"answered"})), unreadable |-> Foreign(Facts({}))]]

\* sourceQuery reads a split reply as unreadable, where steam cannot tell.
SourceTable ==
    [connect |-> Resolved("info"),
     info |-> A2sReply(FALSE, Foreign(Facts({}))),
     challenged |-> A2sReply(TRUE, Foreign(Facts({})))]

GamedigTable(c) ==
    CASE c = "source" -> SourceTable
      [] c = "minecraft" -> MinecraftTable
      [] c = "quake3" -> Quake3Table

GamedigFailing(c, f) == Failing("answered" \notin f, Slow(f))
=============================================================================
