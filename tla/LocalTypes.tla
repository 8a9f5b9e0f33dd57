----------------------------- MODULE LocalTypes ------------------------------
(***************************************************************************)
(* Check types that run a program of this machine: ping, tailscale-ping    *)
(* and system-service (modules/monitors/types: probes/ and specs/).  What  *)
(* the program says of itself is no measurement of the target.             *)
(***************************************************************************)
EXTENDS Replies, TLC

\* Whether the name is one the program can be given.
LocalConfig == [named : BOOLEAN, strict : BOOLEAN]

Unnamed == [guard |-> [unset |-> Denied(Cannot)]]

\* The latency is the round trip the program reports.
PingTable(c) ==
    IF ~ c.named THEN Unnamed
    ELSE [connect |->
            [reply |-> Right(Facts({"received"})),
             far |-> Poor(Facts({"received", "far"})),
             silence |-> Wrong(Facts({})),
             failed |-> Wrong(Fail),
             noProgram |-> Denied(Cannot),
             notPermitted |-> Denied(Cannot)]]

PingFailing(c, f) == Failing("received" \notin f, "far" \in f)

-----------------------------------------------------------------------------
\* classifyOutcome.  A relayed answer is a reachable peer; `strict' is
\* requireDirect.
TailscalePong(c) ==
    [direct |-> Right(Facts({"received", "direct"})),
     relayed |-> Answer(IF c.strict THEN "poor" ELSE "right", Facts({"received"})),
     far |-> Poor(Facts({"received", "direct", "far"})),
     noPeer |-> Wrong(Facts({})),
     loggedOut |-> Denied(Cannot)]

\* A program that was killed has heard nothing.
TailscaleTable(c) ==
    IF ~ c.named THEN Unnamed
    ELSE [guard |-> [local |-> Right(Ask("connect"))],
          connect |-> TailscalePong(c) @@ [timeout |-> Wrong(Facts({})),
                                           noProgram |-> Denied(Cannot)]]

TailscaleFailing(c, f) ==
    Failing("received" \notin f,
            "far" \in f \/ (c.strict /\ "received" \in f /\ "direct" \notin f))

-----------------------------------------------------------------------------
\* parseShowOutput: LoadState, then ActiveState.
UnitState ==
    [active |-> Right(Facts({"loaded", "active"})),
     activating |-> Poor(Facts({"loaded", "active", "settling"})),
     inactive |-> Wrong(Facts({"loaded"})),
     notLoaded |-> Wrong(Facts({})),
     noState |-> Denied(Cannot)]

SystemServiceTable(c) ==
    IF ~ c.named THEN Unnamed
    ELSE [guard |-> [local |-> Right(Ask("connect"))],
          connect |-> UnitState @@ [noProgram |-> Denied(Cannot)]]

SystemServiceFailing(c, f) ==
    Failing(~ {"loaded", "active"} \subseteq f, Slow(f) \/ "settling" \in f)
=============================================================================
