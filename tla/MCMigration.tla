---------------------------- MODULE MCMigration ------------------------------
(* Moving to Vigil: a check or a Kuma row is translated, a source of two     *)
(* records or a Kuma database is imported, the bridge collects evidence.     *)
(* They share nothing but what a record becomes, so a behaviour is of one of *)
(* them.                                                                     *)
EXTENDS Kuma, Evidence

Posting == [Plain("http") EXCEPT !.want["method"] = "POST"]

Listing(check, key, path) ==
    [kind |-> check.kind, becomes |-> TranslateCheck(check).outcome, key |-> key, path |-> path,
     paused |-> FALSE]

\* Nested groups; two records of one identity, one of them paused; records that
\* do not become monitors.
Nested ==
    [checks |-> [a |-> Listing(Plain("http"), "k", <<"g", "h">>),
                 b |-> Listing(Plain("http"), "l", <<"g">>)], page |-> {"a"}]
Twins ==
    [checks |-> [a |-> Listing(Plain("heartbeat"), "k", <<>>),
                 b |-> [Listing(Plain("http"), "k", <<>>) EXCEPT !.paused = TRUE]], page |-> {"a", "b"}]
Refusals ==
    [checks |-> [a |-> Listing(Posting, "k", <<"g">>), b |-> Listing(Plain("udp"), "l", <<"g">>)],
     page |-> {}]

MCFleet == {Nested, Twins, Refusals}

\* The last is what pages that shift under the adapter give it.
MCListings == {<<"a", "b">>, <<"b", "a", "b">>}

Symmetry == Permutations(Run) \cup Permutations(Poller)

\* A push monitor whose group comes after it in Kuma's order, with the token of
\* a monitor that is here already; a chain of groups; a database that drifted.
KumaRow(type, parent) ==
    [becomes |-> RowOutcome([type |-> type, states |-> Given(type)]), type |-> type,
     parent |-> parent, token |-> "none", beat |-> "none", host |-> "none", paused |-> FALSE]
Pushing ==
    [rows |-> [u |-> [KumaRow("push", "v") EXCEPT !.token = "t", !.beat = "said"],
               v |-> KumaRow("group", "none"),
               w |-> [KumaRow("push", "none") EXCEPT !.token = "t", !.beat = "silent"]],
     listing |-> <<"u", "v", "w">>, pages |-> <<[slug |-> TRUE, rows |-> <<"u", "w">>]>>,
     drift |-> FALSE]
Chained ==
    [rows |-> [u |-> [KumaRow("docker", "v") EXCEPT !.host = "h", !.paused = TRUE],
               v |-> KumaRow("group", "w"), w |-> KumaRow("group", "none")],
     listing |-> <<"u", "v", "w">>,
     pages |-> <<[slug |-> FALSE, rows |-> <<"u">>], [slug |-> TRUE, rows |-> <<"u">>]>>,
     drift |-> FALSE]
Drifted ==
    [rows |-> [u |-> [KumaRow("http", "none") EXCEPT !.becomes = "skipped"],
               v |-> [KumaRow("http", "none") EXCEPT !.becomes = "unsupported"]],
     listing |-> <<"u", "v">>, pages |-> <<>>, drift |-> TRUE]

MCKumas == {Pushing, Chained, Drifted}

-----------------------------------------------------------------------------
CONSTANT Parts   \* of which of them the behaviours are

VARIABLE part

NoCheck == offered = NoOffer /\ row = NoRow
NoTake == kuma = Drifted /\ takes = [t \in Take |-> NewTake]
NoImport == MInit /\ fleet = Nested /\ monitors = Empty
NoEvidence == EInit /\ \A i \in Incident : source[i].start = NotYet /\ source[i].parses

\* What the pages of a Kuma database may show.
BeforeKuma == KumaInit /\ fleet = [Nested EXCEPT !.page = {"u", "w"}]

MovingInit ==
    /\ part \in Parts
    /\ \/ part = "check" /\ TInit /\ row = NoRow /\ NoImport /\ NoTake /\ NoEvidence
       \/ part = "row" /\ RowInit /\ offered = NoOffer /\ NoImport /\ NoTake /\ NoEvidence
       \/ part = "import" /\ NoCheck /\ MInit /\ NoTake /\ NoEvidence
       \/ part = "kuma" /\ NoCheck /\ BeforeKuma /\ NoEvidence
       \/ part = "evidence" /\ NoCheck /\ NoImport /\ NoTake /\ EInit

MovingNext ==
    /\ UNCHANGED <<part, offered, row>>
    /\ \/ part = "import" /\ MNext /\ UNCHANGED <<kvars, evars>>
       \/ part = "kuma" /\ KumaNext /\ UNCHANGED evars
       \/ part = "evidence" /\ ENext /\ UNCHANGED <<mvars, kvars>>

Moving == MovingInit /\ [][MovingNext]_<<part, offered, row, mvars, kvars, evars>>
=============================================================================
