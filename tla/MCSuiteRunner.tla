--------------------------- MODULE MCSuiteRunner ---------------------------
(* Small instances of SuiteRunner: the suites of its runs.                 *)
EXTENDS SuiteRunner

CONSTANTS id1, id2

C(kind, saves, uses) == [kind |-> kind, saves |-> saves, uses |-> uses]
S(cases) == [parses |-> TRUE, cases |-> cases]
Broken == [parses |-> FALSE, cases |-> <<>>]

\* remove.json: two adds that save their ids, a remove that uses both.
RemoveSuite == S(<<C("install", id1, {}), C("install", id2, {}),
                   C("install", None, {id1, id2})>>)
\* The same placeholder saved twice, with a skipped entry in between.
TwiceSuite == S(<<C("install", id1, {}), C("unknown", None, {}),
                  C("install", id1, {id1}), C("activate", None, {id1})>>)
CommandSuite == S(<<C("command", None, {}), C("admin", id1, {}),
                    C("noshell", None, {}), C("command", None, {})>>)

Placeholders2 == {id1, id2}
MixedPlan   == <<RemoveSuite, Broken, CommandSuite, TwiceSuite>>

=============================================================================
