---------------------------- MODULE MCMigration ----------------------------
(* Small instances of Migration.                                           *)
EXTENDS Migration

J(sftp, custom, crypto, override) ==
  [sftp |-> sftp, custom |-> custom, crypto |-> crypto, override |-> override]
C(kind, listed, ready) == [kind |-> kind, listed |-> listed, ready |-> ready]

\* A route processor and a second card.
Rack(c) == [l \in {"a", "b"} |-> IF l = "a" THEN C("RP", TRUE, TRUE) ELSE c]

\* Two subtypes, one of them on both cards.
TwoSubtypes == {<<"cbc", "a">>, <<"cbc", "b">>, <<"rommon", "a">>}

S(j, c, need) == [job |-> j, cards |-> Rack(c), need |-> need]

\* Every kind of job on current FPDs.
Transfers == {S(J(sftp, custom, ~sftp, FALSE), C("LC", TRUE, TRUE), {}) :
                <<sftp, custom>> \in {<<TRUE, TRUE>>, <<TRUE, FALSE>>, <<FALSE, FALSE>>}}

\* Cards that are taken over, that are not, that are in the way, and FPDs that
\* need an upgrade.
Upgrades == {S(J(TRUE, TRUE, FALSE, c.kind = "FAN"), c, TwoSubtypes) :
               c \in {C("LC", TRUE, TRUE), C("LC", FALSE, FALSE), C("FAN", FALSE, TRUE),
                      C("MPA", TRUE, FALSE)}}
  \cup {S(J(TRUE, TRUE, FALSE, FALSE), C("LC", FALSE, FALSE), {<<"cbc", "b">>})}

AllScenarios == Transfers \cup Upgrades

=============================================================================
