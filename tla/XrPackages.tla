----------------------------- MODULE XrPackages -----------------------------
(***************************************************************************)
(* Which packages an IOS XR install command names: Activate, Deactivate    *)
(* and Remove of csm_install_operations/ios_xr look at what is active or   *)
(* inactive, and compare it with the list they were given by the sets and  *)
(* the equality of ios_xr/package_lib.py (SoftwarePackage).                *)
(*                                                                         *)
(* A name is what SoftwarePackage reads of it: base stands for platform,   *)
(* type, architecture, version, SMU and SP, sub for the subversion, which  *)
(* a name may leave out; ext is the name of the file a package comes from. *)
(* All packages are on one disk.                                           *)
(*                                                                         *)
(* The equality is not transitive: x is equal to x-1.0.0 and to x-1.1.0.   *)
(* Every ctx.send is one step, between which other users may move          *)
(* packages; the command with its operation is one more (XrInstall).       *)
(* A definition X_Word is X with a plausible bug.                          *)
(***************************************************************************)
EXTENDS FiniteSets, Integers, Sequences

CONSTANTS
  Bases, Subs, None,
  Known,     \* the bases SoftwarePackage.is_valid accepts
  Pkgs,      \* what there is to install, a set of [base, sub]
  Lists      \* the package lists that jobs are given

Name  == [base : Bases, sub : Subs \cup {None}, disk : BOOLEAN, ext : BOOLEAN]
Kinds == {"activate", "deactivate", "remove"}
PCs   == {"list", "look", "select", "command", "returned", "raised"}

\* package_lib.py: __eq__.
Same_BaseOnly(a, b) == a.base = b.base
Same(a, b) ==
  a.base = b.base /\ (a.sub = b.sub \/ a.sub = None \/ b.sub = None)

\* Two packages on the router are never equal, and all of them are valid.
ASSUME PkgAssumption ==
  /\ Known \subseteq Bases /\ Pkgs \subseteq [base : Known, sub : Subs \cup {None}]
  /\ \A p, q \in Pkgs : p.base = q.base /\ (p.sub = q.sub \/ None \in {p.sub, q.sub})
                          => p = q
  /\ IsFiniteSet(Pkgs)
  /\ Lists \subseteq Seq(Name)

\* The name under which the router shows a package and takes it in a command.
NameOf(p)  == [base |-> p.base, sub |-> p.sub, disk |-> TRUE, ext |-> FALSE]
NamesOf(S) == {NameOf(p) : p \in S}

VARIABLES
  \* the router
  inactive, active,
  moved,     \* has another user moved a package since the job began?
  \* the plugin
  pc, kind,
  given,     \* ctx.software_packages
  read,      \* how many of its names from_package_list has read
  pkgs,      \* pkgs, as from_package_list makes it
  seenInact, \* installed_inact
  seenAct,   \* installed_act
  cmd        \* the names in the install command

router == <<inactive, active, moved>>
look   == <<seenInact, seenAct>>
vars   == <<router, pc, kind, given, read, pkgs, look, cmd>>

Goto(l) == pc' = l

Init ==
  /\ inactive \in SUBSET Pkgs /\ active \in SUBSET (Pkgs \ inactive)
  /\ moved = FALSE
  /\ pc = "list" /\ kind \in Kinds /\ given \in Lists
  /\ read = 0 /\ pkgs = {}
  /\ seenInact = {} /\ seenAct = {} /\ cmd = {}

-----------------------------------------------------------------------------
(* SoftwarePackage.                                                        *)

IsValid_Any(n) == TRUE
IsValid(n) == n.base \in Known

\* __eq__ puts the disk of the one before the name of the other.
WithDisk_Bare(n) == n
WithDisk(n) == [n EXCEPT !.disk = TRUE]

\* from_package_list: a name that is equal to one in the set is dropped.
ReadName ==
  /\ pc = "list" /\ read < Len(given)
  /\ read' = read + 1
  /\ LET n == given[read + 1]
     IN pkgs' = IF IsValid(n) /\ ~\E k \in pkgs : Same(k, n)
                THEN pkgs \cup {n} ELSE pkgs
  /\ UNCHANGED <<router, pc, kind, given, look, cmd>>

\* a & b of Python's sets: the elements of the smaller one, of b if they are
\* of one size.  Those of pkgs got the router's disk in the comparison.
Meet(a, b) ==
  IF Cardinality(b) > Cardinality(a)
  THEN {WithDisk(k) : k \in {j \in a : \E n \in b : Same(j, n)}}
  ELSE {n \in b : \E k \in a : Same(k, n)}

-----------------------------------------------------------------------------
(* The plugins.                                                            *)

\* Activate looks at the inactive packages first.
LookInactive ==
  /\ pc = "list" /\ read = Len(given) /\ kind # "deactivate"
  /\ seenInact' = inactive
  /\ Goto(IF kind = "activate" THEN "look" ELSE "select")
  /\ UNCHANGED <<router, kind, given, read, pkgs, seenAct, cmd>>

LookActive ==
  /\ \/ pc = "list" /\ read = Len(given) /\ kind = "deactivate"
     \/ pc = "look"
  /\ seenAct' = active /\ Goto("select")
  /\ UNCHANGED <<router, kind, given, read, pkgs, seenInact, cmd>>

\* pkgs - installed_act.
NotActive_NoLook == pkgs
NotActive == {k \in pkgs : ~\E n \in NamesOf(seenAct) : Same(n, k)}

\* The router's own names of what is to be activated.
ToActivate == {n \in NamesOf(seenInact) : \E k \in NotActive : Same(k, n)}

Chosen ==
  CASE kind = "activate"   -> ToActivate
    [] kind = "deactivate" -> Meet(pkgs, NamesOf(seenAct))
    [] kind = "remove"     -> Meet(pkgs, NamesOf(seenInact))

\* "Nothing to be activated", "... deactivated", "Packages already removed".
NothingToDo ==
  CASE kind = "activate"   -> NotActive = {}
    [] kind = "deactivate" -> pkgs = {}
    [] kind = "remove"     -> Chosen = {}

Select ==
  /\ pc = "select"
  /\ Goto(IF NothingToDo THEN "returned"
          ELSE IF Chosen = {} THEN "raised" ELSE "command")
  /\ cmd' = IF NothingToDo THEN {} ELSE Chosen
  /\ UNCHANGED <<router, kind, given, read, pkgs, look>>

\* The job has no list, a look fails, or the command is refused or fails.
Raises ==
  /\ \/ pc = "list" /\ (read = 0 \/ read = Len(given))
     \/ pc \in {"look", "command"}
  /\ Goto("raised")
  /\ UNCHANGED <<router, kind, given, read, pkgs, look, cmd>>

-----------------------------------------------------------------------------
(* The router.                                                             *)

Named(S) == {p \in S : NameOf(p) \in cmd}

\* The operation succeeds: all names are ones the router knows where the
\* command wants them.
Succeeds ==
  /\ pc = "command" /\ Goto("returned")
  /\ cmd \subseteq NamesOf(IF kind = "deactivate" THEN active ELSE inactive)
  /\ inactive' = IF kind = "deactivate" THEN inactive \cup Named(active)
                 ELSE inactive \ Named(inactive)
  /\ active' = CASE kind = "activate"   -> active \cup Named(inactive)
                 [] kind = "deactivate" -> active \ Named(active)
                 [] kind = "remove"     -> active
  /\ UNCHANGED <<moved, kind, given, read, pkgs, look, cmd>>

\* Another user adds, activates, deactivates or removes a package.
OtherMoves(p) ==
  /\ \/ p \notin inactive \cup active /\ inactive' = inactive \cup {p}
          /\ UNCHANGED active
     \/ p \in inactive /\ inactive' = inactive \ {p}
          /\ active' \in {active, active \cup {p}}
     \/ p \in active /\ active' = active \ {p} /\ inactive' = inactive \cup {p}
  /\ moved' = TRUE
  /\ UNCHANGED <<pc, kind, given, read, pkgs, look, cmd>>

\* run() is over.  A later job starts in any state of the router: see Init.
Ended == pc \in {"returned", "raised"} /\ UNCHANGED vars

Next ==
  \/ ReadName \/ LookInactive \/ LookActive \/ Select \/ Raises \/ Succeeds
  \/ \E p \in Pkgs : OtherMoves(p)
  \/ Ended

Spec == Init /\ [][Next]_vars

-----------------------------------------------------------------------------
(* Properties.                                                             *)

\* Types of the variables: a package is active or inactive, not both; only
\* valid names get past from_package_list.
TypeOK ==
  /\ inactive \subseteq Pkgs /\ active \subseteq Pkgs
  /\ inactive \cap active = {}
  /\ moved \in BOOLEAN
  /\ pc \in PCs /\ kind \in Kinds /\ given \in Lists
  /\ read \in 0 .. Len(given)
  /\ pkgs \subseteq {n \in Name : n.base \in Known}
  /\ seenInact \subseteq Pkgs /\ seenAct \subseteq Pkgs
  /\ cmd \subseteq Name

\* A name means a package if it gives the package's subversion or none.
Means(n, p) == n.base = p.base /\ n.sub \in {None, p.sub}

\* A name that the list gives with one subversion, or always without.
Clear(n) ==
  \A i \in DOMAIN given :
    given[i].base = n.base => given[i].sub = n.sub \/ None \notin {given[i].sub, n.sub}

Asked == {n \in {given[i] : i \in DOMAIN given} : n.base \in Known /\ Clear(n)}

\* What a job that returns has achieved, if nobody else moved a package, in
\* spite of an equality that is not transitive: no package that was to be
\* activated is inactive unless one of that name is active; none that was to
\* be deactivated is active; none that was to be removed is inactive.
Fulfilled ==
  pc = "returned" /\ ~moved => \A n \in Asked :
    CASE kind = "activate"   -> \/ ~\E p \in inactive : Means(n, p)
                                \/ \E p \in active : Means(n, p)
      [] kind = "deactivate" -> ~\E p \in active : Means(n, p)
      [] kind = "remove"     -> ~\E p \in inactive : Means(n, p)

\* Activate's command never names a package that it saw active, not even one
\* that another user activated after the look at the inactive ones.
NeverActive ==
  pc = "command" /\ kind = "activate" => Named(seenAct) = {}

\* Every name in a command is one the router showed, whatever names Activate
\* was given ("Use the package name in the inactive area", activate.py:58-62);
\* and if Remove and Deactivate were given the router's names, with or without
\* the disk.
OwnNames ==
  /\ pc = "command"
  /\ kind = "activate" \/ {[k EXCEPT !.disk = TRUE] : k \in pkgs} \subseteq NamesOf(Pkgs)
  => cmd \subseteq NamesOf(IF kind = "deactivate" THEN seenAct ELSE seenInact)

\* What the theorems of XrPackages_proofs rest on, true in every reachable
\* state: every valid name read so far is equal to one in the set, which holds
\* nothing else; the looks are true as long as nobody else moves a package;
\* and the command is the one that was chosen.
ListRead ==
  /\ \A i \in 1 .. read : IsValid(given[i]) => \E k \in pkgs : Same(k, given[i])
  /\ \A k \in pkgs : \E i \in 1 .. read : k = given[i]
  /\ pc # "list" /\ pc # "raised" => read = Len(given)
LooksTrue ==
  /\ pc = "look" => kind = "activate"
  /\ ~moved /\ pc \in {"look", "select", "command"} /\ kind # "deactivate"
       => seenInact = inactive
  /\ ~moved /\ pc \in {"select", "command"} /\ kind # "remove" => seenAct = active
CommandChosen == pc = "command" => cmd = Chosen

PInv == TypeOK /\ ListRead /\ LooksTrue /\ CommandChosen /\ Fulfilled

=============================================================================
