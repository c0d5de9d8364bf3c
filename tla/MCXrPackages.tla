---------------------------- MODULE MCXrPackages ----------------------------
(* A small instance of XrPackages: a package without a subversion, two     *)
(* subversions of an SMU, and a file that is no package.                   *)
EXTENDS XrPackages

P(b, s) == [base |-> b, sub |-> s]

SomePkgs == {P("mini", None), P("smu", "1.0.0"), P("smu", "1.1.0")}

N(b, s, d, e) == [base |-> b, sub |-> s, disk |-> d, ext |-> e]

\* The router's names with and without the disk, file names with and without
\* the subversion.
SomeNames ==
  {N(p.base, p.sub, d, FALSE) : p \in SomePkgs, d \in BOOLEAN}
    \cup {N("mini", None, FALSE, TRUE), N("smu", None, FALSE, TRUE),
          N("smu", "1.1.0", FALSE, TRUE), N("tar", None, FALSE, TRUE)}

SomeLists == UNION {[1 .. n -> SomeNames] : n \in 0 .. 2}
=============================================================================
