------------------------- MODULE XrPackages_proofs -------------------------
(***************************************************************************)
(* Theorems about XrPackages, for every set of packages no two of which    *)
(* are equal, and lists of any names and any length.                       *)
(***************************************************************************)
EXTENDS XrPackages, TLAPS

-----------------------------------------------------------------------------
(* Names.                                                                  *)

\* The names of packages of the router are names, and valid ones.
LEMMA NamesTyped ==
  ASSUME NEW S, S \subseteq Pkgs
  PROVE  NamesOf(S) \subseteq {n \in Name : n.base \in Known}
<1> SUFFICES ASSUME NEW p \in S
             PROVE  NameOf(p) \in Name /\ NameOf(p).base \in Known
  BY DEF NamesOf
<1>1. p \in [base : Known, sub : Subs \cup {None}] /\ Known \subseteq Bases
  BY PkgAssumption
<1> QED
  BY <1>1 DEF NameOf, Name

\* A name on the router's disk is a name.
LEMMA DiskTyped == ASSUME NEW n \in Name PROVE WithDisk(n) \in Name
BY DEF WithDisk, Name

\* What an intersection returns is names.
LEMMA MeetTyped ==
  ASSUME NEW S, S \subseteq Pkgs, pkgs \subseteq Name
  PROVE  Meet(pkgs, NamesOf(S)) \subseteq Name
<1>1. {WithDisk(k) : k \in {j \in pkgs : \E n \in NamesOf(S) : Same(j, n)}} \subseteq Name
  BY DiskTyped
<1>2. NamesOf(S) \subseteq Name
  BY NamesTyped
<1> QED
  BY <1>1, <1>2 DEF Meet

\* Whatever a command names is a name.
LEMMA ChosenTyped == TypeOK => Chosen \subseteq Name
<1> SUFFICES ASSUME TypeOK PROVE Chosen \subseteq Name
  OBVIOUS
<1>1. pkgs \subseteq Name /\ seenAct \subseteq Pkgs /\ seenInact \subseteq Pkgs
  BY DEF TypeOK
<1>2. ToActivate \subseteq Name
  BY <1>1, NamesTyped DEF ToActivate
<1>3. Meet(pkgs, NamesOf(seenAct)) \subseteq Name
  BY <1>1, MeetTyped
<1>4. Meet(pkgs, NamesOf(seenInact)) \subseteq Name
  BY <1>1, MeetTyped
<1>5. kind \in Kinds
  BY DEF TypeOK
<1> QED
  BY <1>2, <1>3, <1>4, <1>5 DEF Chosen, Kinds

\* The equality goes both ways.
LEMMA SameSymmetric == ASSUME NEW a, NEW b, Same(a, b) PROVE Same(b, a)
BY DEF Same

\* Two of the router's packages with equal names are one.
LEMMA OnePackage ==
  ASSUME NEW p \in Pkgs, NEW q \in Pkgs, Same(NameOf(p), NameOf(q))
  PROVE  p = q
BY PkgAssumption DEF Same, NameOf

\* For every name of the list that is asked for, the set holds one with the
\* same base and the same subversion.
LEMMA AskedKept ==
  ASSUME TypeOK, ListRead, read = Len(given), NEW n \in Asked
  PROVE  \E k \in pkgs : k.base = n.base /\ k.sub = n.sub
<1>1. given \in Seq(Name)
  BY PkgAssumption DEF TypeOK
<1>2. PICK i \in 1 .. Len(given) : n = given[i]
  BY <1>1 DEF Asked
<1>3. PICK k \in pkgs : Same(k, n)
  BY <1>2 DEF ListRead, Asked, IsValid
<1>4. PICK j \in 1 .. Len(given) : k = given[j]
  BY <1>3 DEF ListRead
<1>5. k.base = n.base
  BY <1>3 DEF Same
<1>6. k.sub = n.sub \/ None \notin {k.sub, n.sub}
  BY <1>1, <1>4, <1>5 DEF Asked, Clear
<1> QED
  BY <1>3, <1>5, <1>6 DEF Same

-----------------------------------------------------------------------------
(* The invariant.                                                          *)

\* It holds initially.
LEMMA InitInv == Init => PInv
<1> SUFFICES ASSUME Init PROVE PInv
  OBVIOUS
<1>1. given \in Seq(Name)
  BY PkgAssumption DEF Init
<1>2. TypeOK
  <2>1. 0 \in 0 .. Len(given)
    BY <1>1
  <2> QED
    BY <2>1 DEF Init, TypeOK, PCs
<1>3. ListRead
  BY DEF Init, ListRead
<1> QED
  BY <1>2, <1>3 DEF Init, PInv, LooksTrue, CommandChosen, Fulfilled

\* Reading a name.
LEMMA ReadNameInv == PInv /\ ReadName => PInv'
<1> SUFFICES ASSUME PInv, ReadName PROVE PInv'
  OBVIOUS
<1> DEFINE n == given[read + 1]
<1> USE DEF PInv
<1>1. given \in Seq(Name) /\ read \in Nat /\ read + 1 \in 1 .. Len(given) /\ n \in Name
  <2>1. given \in Seq(Name) /\ read \in 0 .. Len(given)
    BY PkgAssumption DEF TypeOK
  <2> QED
    BY <2>1 DEF ReadName
<1>2. pkgs' = pkgs \/ (pkgs' = pkgs \cup {n} /\ n.base \in Known)
  BY DEF ReadName, IsValid
<1>3. TypeOK'
  BY <1>1, <1>2 DEF ReadName, TypeOK, router, look
<1>4. ListRead'
  <2>1. ASSUME NEW i \in 1 .. read', IsValid(given[i])
        PROVE  \E k \in pkgs' : Same(k, given[i])
    <3>1. CASE i = read + 1
      BY <3>1, <2>1 DEF ReadName, Same
    <3>2. CASE i \in 1 .. read
      BY <3>2, <2>1, <1>2 DEF ListRead
    <3> QED
      BY <3>1, <3>2, <1>1 DEF ReadName
  <2>2. ASSUME NEW k \in pkgs' PROVE \E i \in 1 .. read' : k = given[i]
    <3>1. CASE k \in pkgs
      BY <3>1, <1>1 DEF ListRead, ReadName
    <3>2. CASE k = n
      BY <3>2, <1>1 DEF ReadName
    <3> QED
      BY <3>1, <3>2, <1>2
  <2>3. pc' = "list" /\ given' = given
    BY DEF ReadName
  <2> QED
    BY <2>1, <2>2, <2>3 DEF ListRead, IsValid, Same
<1>5. pc' = "list"
  BY DEF ReadName
<1> QED
  BY <1>3, <1>4, <1>5 DEF LooksTrue, CommandChosen, Fulfilled

\* Looking at the router.
LEMMA LookInv == PInv /\ (LookInactive \/ LookActive) => PInv'
<1> SUFFICES ASSUME PInv, LookInactive \/ LookActive PROVE PInv'
  OBVIOUS
<1> USE DEF PInv
<1>1. pc' \in {"look", "select"} /\ read' = Len(given)
  BY DEF LookInactive, LookActive, ListRead, Goto
<1>2. /\ UNCHANGED <<inactive, active, moved, kind, given, read, pkgs, cmd>>
      /\ seenInact' \in {seenInact, inactive} /\ seenAct' \in {seenAct, active}
  BY DEF LookInactive, LookActive, router
<1>3. TypeOK'
  <2>1. seenInact' \subseteq Pkgs /\ seenAct' \subseteq Pkgs /\ pc' \in PCs
    BY <1>1, <1>2 DEF TypeOK, PCs
  <2> QED
    BY <1>2, <2>1 DEF TypeOK
<1>4. ListRead'
  <2>1. (\A i \in 1 .. read : IsValid(given[i]) => \E k \in pkgs : Same(k, given[i]))'
    BY <1>2 DEF ListRead, IsValid, Same
  <2>2. (\A k \in pkgs : \E i \in 1 .. read : k = given[i])'
    BY <1>2 DEF ListRead
  <2> QED
    BY <1>1, <1>2, <2>1, <2>2 DEF ListRead
<1>5. LooksTrue'
  <2>1. kind \in Kinds
    BY DEF TypeOK
  <2>2. CASE LookInactive
    BY <2>1, <2>2, <1>2 DEF LookInactive, LooksTrue, Kinds, Goto
  <2>3. CASE LookActive
    <3>1. CASE pc = "list"
      BY <3>1, <2>3, <1>2 DEF LookActive, LooksTrue, Goto
    <3>2. CASE pc = "look"
      BY <3>2, <2>3, <1>2 DEF LookActive, LooksTrue, Goto
    <3> QED
      BY <3>1, <3>2, <2>3 DEF LookActive
  <2> QED
    BY <2>2, <2>3
<1> QED
  BY <1>1, <1>3, <1>4, <1>5 DEF CommandChosen, Fulfilled

\* A job that returns at once has nothing to do: what it saw is what was
\* asked for already.
LEMMA NothingFulfils ==
  ASSUME TypeOK, ListRead, LooksTrue, pc = "select", ~moved, NothingToDo,
         NEW n \in Asked
  PROVE  CASE kind = "activate"   -> \/ ~\E p \in inactive : Means(n, p)
                                     \/ \E p \in active : Means(n, p)
           [] kind = "deactivate" -> ~\E p \in active : Means(n, p)
           [] kind = "remove"     -> ~\E p \in inactive : Means(n, p)
<1>1. PICK k \in pkgs : k.base = n.base /\ k.sub = n.sub
  BY AskedKept DEF ListRead
<1>2. CASE kind = "activate"
  <2>1. PICK m \in NamesOf(seenAct) : Same(m, k)
    BY <1>1, <1>2 DEF NothingToDo, NotActive
  <2>2. PICK p \in active : m = NameOf(p)
    BY <2>1, <1>2 DEF NamesOf, LooksTrue
  <2>3. SUFFICES ASSUME ~Means(n, p), NEW q \in inactive, Means(n, q) PROVE FALSE
    BY <1>2, <2>2
  <2>4. m.base = p.base /\ m.sub = p.sub
    BY <2>2 DEF NameOf
  <2>5. p.base = n.base /\ p.sub = None
    BY <2>1, <2>3, <2>4, <1>1 DEF Same, Means
  <2>6. p = q
    <3>1. p \in Pkgs /\ q \in Pkgs
      BY DEF TypeOK
    <3> QED
      BY <3>1, <2>3, <2>5, PkgAssumption DEF Means
  <2> QED
    BY <2>3, <2>6
<1>3. CASE kind = "deactivate"
  BY <1>1, <1>3 DEF NothingToDo
<1>4. CASE kind = "remove"
  <2>1. SUFFICES ASSUME NEW p \in inactive, Means(n, p) PROVE FALSE
    BY <1>4
  <2>2. NameOf(p) \in NamesOf(seenInact)
    BY <1>4 DEF LooksTrue, NamesOf
  <2>3. Same(k, NameOf(p))
    BY <1>1, <2>1 DEF Same, NameOf, Means
  <2>4. Meet(pkgs, NamesOf(seenInact)) # {}
    BY <1>1, <2>2, <2>3 DEF Meet
  <2> QED
    BY <2>4, <1>4 DEF NothingToDo, Chosen
<1> QED
  BY <1>2, <1>3, <1>4 DEF TypeOK, Kinds

\* Selecting.
LEMMA SelectInv == PInv /\ Select => PInv'
<1> SUFFICES ASSUME PInv, Select PROVE PInv'
  OBVIOUS
<1> USE DEF PInv
<1>1. UNCHANGED <<inactive, active, moved, kind, given, read, pkgs, seenInact, seenAct>>
  BY DEF Select, router, look
<1>2. pc = "select" /\ pc' \in {"returned", "raised", "command"}
  BY DEF Select, Goto
<1>3. pc' = "command" => cmd' = Chosen
  BY DEF Select, Goto
<1>4. TypeOK'
  <2>1. cmd' \subseteq Name
    BY ChosenTyped DEF Select
  <2>2. pc' \in PCs
    BY <1>2 DEF PCs
  <2> QED
    BY <1>1, <2>1, <2>2 DEF TypeOK
<1>5. ListRead'
  <2>1. (\A i \in 1 .. read : IsValid(given[i]) => \E k \in pkgs : Same(k, given[i]))'
    BY <1>1 DEF ListRead, IsValid, Same
  <2>2. (\A k \in pkgs : \E i \in 1 .. read : k = given[i])'
    BY <1>1 DEF ListRead
  <2>3. read = Len(given)
    BY <1>2 DEF ListRead
  <2> QED
    BY <1>1, <2>1, <2>2, <2>3 DEF ListRead
<1>6. LooksTrue'
  BY <1>1, <1>2 DEF LooksTrue
<1>7. Chosen' = Chosen
  BY <1>1 DEF Chosen, ToActivate, NotActive, Meet, Same, NamesOf, NameOf, WithDisk
<1>8. Fulfilled'
  <2> SUFFICES ASSUME pc' = "returned", ~moved PROVE Fulfilled'
    BY <1>1 DEF Fulfilled
  <2>1. NothingToDo
    BY DEF Select, Goto
  <2>2. Asked' = Asked
    BY <1>1 DEF Asked, Clear
  <2> QED
    BY <1>1, <1>2, <2>1, <2>2, NothingFulfils DEF Fulfilled, Means
<1> QED
  BY <1>3, <1>4, <1>5, <1>6, <1>7, <1>8 DEF CommandChosen

\* An exception leaves everything as it is.
LEMMA RaisesInv == PInv /\ Raises => PInv'
<1> SUFFICES ASSUME PInv, Raises PROVE PInv'
  OBVIOUS
<1> USE DEF PInv
<1>1. pc' = "raised"
  BY DEF Raises, Goto
<1>2. UNCHANGED <<inactive, active, moved, kind, given, read, pkgs, seenInact, seenAct, cmd>>
  BY DEF Raises, router, look
<1>3. TypeOK'
  BY <1>1, <1>2 DEF TypeOK, PCs
<1>4. ListRead'
  BY <1>1, <1>2 DEF ListRead, IsValid, Same
<1> QED
  BY <1>1, <1>3, <1>4 DEF LooksTrue, CommandChosen, Fulfilled

\* Another user moves a package: from then on nothing is promised.
LEMMA OtherInv ==
  ASSUME PInv, NEW p \in Pkgs, OtherMoves(p) PROVE PInv'
<1> USE DEF PInv
<1>1. moved' = TRUE /\ UNCHANGED <<pc, kind, given, read, pkgs, seenInact, seenAct, cmd>>
  BY DEF OtherMoves, look
<1>2. TypeOK'
  <2>1. inactive' \subseteq Pkgs /\ active' \subseteq Pkgs /\ inactive' \cap active' = {}
    BY DEF OtherMoves, TypeOK
  <2> QED
    BY <1>1, <2>1 DEF TypeOK
<1>3. ListRead'
  BY <1>1 DEF ListRead, IsValid, Same
<1>4. Chosen' = Chosen
  BY <1>1 DEF Chosen, ToActivate, NotActive, Meet, Same, NamesOf, NameOf, WithDisk
<1>5. Fulfilled' /\ LooksTrue'
  BY <1>1 DEF Fulfilled, LooksTrue
<1> QED
  BY <1>1, <1>2, <1>3, <1>4, <1>5 DEF CommandChosen

\* What the command of a Deactivate or a Remove that the router accepts names:
\* whatever it saw that a name in the set means.
LEMMA MeetNamed ==
  ASSUME TypeOK, NEW S, S \subseteq Pkgs, cmd = Meet(pkgs, NamesOf(S)),
         cmd \subseteq NamesOf(S),
         NEW k \in pkgs, NEW p \in S, Means(k, p)
  PROVE  NameOf(p) \in cmd
<1>1. Same(k, NameOf(p)) /\ NameOf(p) \in NamesOf(S)
  BY DEF Same, NameOf, Means, NamesOf
<1>2. CASE Cardinality(NamesOf(S)) > Cardinality(pkgs)
  <2>1. WithDisk(k) \in cmd
    BY <1>1, <1>2 DEF Meet
  <2>2. PICK q \in S : WithDisk(k) = NameOf(q)
    BY <2>1 DEF NamesOf
  <2>3. q.base = k.base /\ q.sub = k.sub
    <3>1. k \in Name
      BY DEF TypeOK
    <3>2. WithDisk(k).base = k.base /\ WithDisk(k).sub = k.sub
      BY <3>1 DEF WithDisk, Name
    <3> QED
      BY <2>2, <3>2 DEF NameOf
  <2>4. q = p
    BY <2>3, PkgAssumption DEF Means
  <2> QED
    BY <2>1, <2>2, <2>4
<1>3. CASE ~(Cardinality(NamesOf(S)) > Cardinality(pkgs))
  BY <1>1, <1>3 DEF Meet
<1> QED
  BY <1>2, <1>3

\* The operation succeeds: the job has achieved what it was asked for.
LEMMA SucceedsInv == PInv /\ Succeeds => PInv'
<1> SUFFICES ASSUME PInv, Succeeds PROVE PInv'
  OBVIOUS
<1> USE DEF PInv
<1>1. pc = "command" /\ pc' = "returned"
  BY DEF Succeeds, Goto
<1>2. UNCHANGED <<moved, kind, given, read, pkgs, seenInact, seenAct, cmd>>
  BY DEF Succeeds, look
<1>3. kind \in Kinds
  BY DEF TypeOK
<1>4. TypeOK'
  <2>1. inactive' \subseteq Pkgs /\ active' \subseteq Pkgs /\ inactive' \cap active' = {}
    BY <1>3 DEF Succeeds, TypeOK, Named, Kinds
  <2> QED
    BY <1>1, <1>2, <2>1 DEF TypeOK, PCs
<1>5. ListRead'
  <2>1. (\A i \in 1 .. read : IsValid(given[i]) => \E k \in pkgs : Same(k, given[i]))'
    BY <1>2 DEF ListRead, IsValid, Same
  <2>2. (\A k \in pkgs : \E i \in 1 .. read : k = given[i])'
    BY <1>2 DEF ListRead
  <2> QED
    BY <1>1, <1>2, <2>1, <2>2 DEF ListRead
<1>6. Fulfilled'
  <2> SUFFICES ASSUME ~moved, NEW n \in Asked
               PROVE  CASE kind = "activate" ->
                             \/ ~\E p \in inactive' : Means(n, p)
                             \/ \E p \in active' : Means(n, p)
                        [] kind = "deactivate" -> ~\E p \in active' : Means(n, p)
                        [] kind = "remove" -> ~\E p \in inactive' : Means(n, p)
    <3>1. Asked' = Asked
      BY <1>2 DEF Asked, Clear
    <3> QED
      BY <1>1, <1>2, <3>1 DEF Fulfilled, Means
  <2>1. PICK k \in pkgs : k.base = n.base /\ k.sub = n.sub
    BY <1>1, AskedKept DEF ListRead
  <2>2. CASE kind = "activate"
    <3>1. SUFFICES ASSUME NEW p \in inactive', Means(n, p)
                   PROVE  \E q \in active' : Means(n, q)
      BY <2>2
    <3>2. inactive' = inactive \ Named(inactive) /\ active' = active \cup Named(inactive)
      BY <2>2 DEF Succeeds
    <3>3. p \in seenInact /\ NameOf(p) \notin cmd /\ seenAct = active
      BY <1>1, <2>2, <3>1, <3>2 DEF LooksTrue, Named
    <3>4. Same(k, NameOf(p)) /\ NameOf(p) \in NamesOf(seenInact)
      BY <2>1, <3>1, <3>3 DEF Same, NameOf, Means, NamesOf
    <3>5. cmd = ToActivate
      BY <1>1, <2>2 DEF CommandChosen, Chosen
    <3>6. k \notin NotActive
      BY <3>3, <3>4, <3>5 DEF ToActivate
    <3>7. PICK m \in NamesOf(active) : Same(m, k)
      BY <3>3, <3>6 DEF NotActive
    <3>8. PICK q \in active : m = NameOf(q)
      BY <3>7 DEF NamesOf
    <3>9. q.base = n.base /\ (q.sub = n.sub \/ n.sub = None \/ q.sub = None)
      BY <3>7, <3>8, <2>1 DEF Same, NameOf
    <3>10. CASE q.sub = None
      <4>1. p \in Pkgs /\ q \in Pkgs /\ p.base = q.base
        BY <3>1, <3>2, <3>9 DEF TypeOK, Means
      <4>2. p = q
        BY <4>1, <3>10, PkgAssumption
      <4> QED
        BY <4>2, <3>1, <3>2
    <3>11. CASE q.sub # None
      BY <3>2, <3>9, <3>11 DEF Means
    <3> QED
      BY <3>10, <3>11
  <2>3. CASE kind = "deactivate"
    <3>1. SUFFICES ASSUME NEW p \in active', Means(n, p) PROVE FALSE
      BY <2>3
    <3>2. active' = active \ Named(active) /\ cmd \subseteq NamesOf(active)
      BY <2>3 DEF Succeeds
    <3>3. seenAct = active /\ cmd = Meet(pkgs, NamesOf(active)) /\ active \subseteq Pkgs
      BY <1>1, <2>3 DEF LooksTrue, CommandChosen, Chosen, TypeOK
    <3>4. Means(k, p)
      BY <2>1, <3>1 DEF Means
    <3> QED
      BY <3>1, <3>2, <3>3, <3>4, MeetNamed DEF Named
  <2>4. CASE kind = "remove"
    <3>1. SUFFICES ASSUME NEW p \in inactive', Means(n, p) PROVE FALSE
      BY <2>4
    <3>2. inactive' = inactive \ Named(inactive) /\ cmd \subseteq NamesOf(inactive)
      BY <2>4 DEF Succeeds
    <3>3. seenInact = inactive /\ cmd = Meet(pkgs, NamesOf(inactive)) /\ inactive \subseteq Pkgs
      BY <1>1, <2>4 DEF LooksTrue, CommandChosen, Chosen, TypeOK
    <3>4. Means(k, p)
      BY <2>1, <3>1 DEF Means
    <3> QED
      BY <3>1, <3>2, <3>3, <3>4, MeetNamed DEF Named
  <2> QED
    BY <2>2, <2>3, <2>4, <1>3 DEF Kinds
<1> QED
  BY <1>1, <1>4, <1>5, <1>6 DEF LooksTrue, CommandChosen

\* Every step keeps the invariant.
LEMMA StepInv == PInv /\ [Next]_vars => PInv'
<1> SUFFICES ASSUME PInv, [Next]_vars PROVE PInv'
  OBVIOUS
<1>1. CASE ReadName
  BY <1>1, ReadNameInv
<1>2. CASE LookInactive \/ LookActive
  BY <1>2, LookInv
<1>3. CASE Select
  BY <1>3, SelectInv
<1>4. CASE Raises
  BY <1>4, RaisesInv
<1>5. CASE Succeeds
  BY <1>5, SucceedsInv
<1>6. CASE \E p \in Pkgs : OtherMoves(p)
  BY <1>6, OtherInv
<1>7. CASE UNCHANGED vars
  <2>1. UNCHANGED <<inactive, active, moved, pc, kind, given, read, pkgs, seenInact,
                    seenAct, cmd>>
    BY <1>7 DEF vars, router, look
  <2>2. Chosen' = Chosen
    BY <2>1 DEF Chosen, ToActivate, NotActive, Meet, Same, NamesOf, NameOf, WithDisk
  <2>3. TypeOK' /\ ListRead' /\ LooksTrue' /\ CommandChosen'
    BY <2>1, <2>2 DEF PInv, TypeOK, ListRead, IsValid, Same, LooksTrue, CommandChosen
  <2>4. Fulfilled'
    <3>1. Asked' = Asked
      BY <2>1 DEF Asked, Clear
    <3> QED
      BY <2>1, <3>1 DEF PInv, Fulfilled, Means
  <2> QED
    BY <2>3, <2>4 DEF PInv
<1>8. CASE Ended
  BY <1>7, <1>8 DEF Ended
<1> QED
  BY <1>1, <1>2, <1>3, <1>4, <1>5, <1>6, <1>7, <1>8 DEF Next

\* The inductive invariant holds in every reachable state, for all packages
\* and lists.
THEOREM Invariance == Spec => []PInv
<1> QED
  BY InitInv, StepInv, PTL DEF Spec

-----------------------------------------------------------------------------
(* What the selection is for.                                              *)

\* A job that returns, with nobody else moving packages, has achieved what its
\* list clearly asks for: package_lib.py's equality, which is not transitive,
\* and the choice of the set whose elements are returned lose nothing.
THEOREM JobsFulfilled == Spec => []Fulfilled
<1>1. PInv => Fulfilled
  BY DEF PInv
<1> QED
  BY <1>1, Invariance, PTL

\* Activate never names a package that it saw active, whatever other users did
\* between its two looks.
THEOREM ActiveLeftAlone == Spec => []NeverActive
<1>1. PInv => NeverActive
  <2> SUFFICES ASSUME PInv, pc = "command", kind = "activate",
                      NEW p \in Named(seenAct)
               PROVE  FALSE
    BY DEF NeverActive
  <2>1. NameOf(p) \in ToActivate /\ NameOf(p) \in NamesOf(seenAct)
    BY DEF PInv, CommandChosen, Chosen, Named, NamesOf
  <2>2. PICK k \in NotActive : Same(k, NameOf(p))
    BY <2>1 DEF ToActivate
  <2> QED
    BY <2>1, <2>2, SameSymmetric DEF NotActive
<1> QED
  BY <1>1, Invariance, PTL

\* Activate only uses names that the router showed; so do Remove and
\* Deactivate when the list they were given holds such names.
THEOREM NamesShown == Spec => []OwnNames
<1>1. ASSUME PInv, NEW S, S \subseteq Pkgs,
             {[k EXCEPT !.disk = TRUE] : k \in pkgs} \subseteq NamesOf(Pkgs)
      PROVE  Meet(pkgs, NamesOf(S)) \subseteq NamesOf(S)
  <2>1. ASSUME NEW k \in pkgs, NEW n \in NamesOf(S), Same(k, n)
        PROVE  WithDisk(k) \in NamesOf(S)
    <3>1. PICK q \in Pkgs : WithDisk(k) = NameOf(q)
      BY <1>1 DEF WithDisk, NamesOf
    <3>2. PICK p \in S : n = NameOf(p)
      BY DEF NamesOf
    <3>3. k \in Name
      BY <1>1 DEF PInv, TypeOK
    <3>4. WithDisk(k).base = k.base /\ WithDisk(k).sub = k.sub
      BY <3>3 DEF WithDisk, Name
    <3>5. Same(NameOf(q), NameOf(p))
      BY <2>1, <3>1, <3>2, <3>4 DEF Same
    <3>6. q = p
      BY <1>1, <3>5, OnePackage
    <3> QED
      BY <3>1, <3>2, <3>6
  <2> QED
    BY <2>1 DEF Meet
<1>2. PInv => OwnNames
  <2> SUFFICES ASSUME PInv, pc = "command",
                      kind = "activate"
                        \/ {[k EXCEPT !.disk = TRUE] : k \in pkgs} \subseteq NamesOf(Pkgs)
               PROVE  cmd \subseteq NamesOf(IF kind = "deactivate" THEN seenAct
                                            ELSE seenInact)
    BY DEF OwnNames
  <2>1. cmd = Chosen /\ kind \in Kinds /\ seenAct \subseteq Pkgs /\ seenInact \subseteq Pkgs
    BY DEF PInv, CommandChosen, TypeOK
  <2>2. CASE kind = "activate"
    BY <2>1, <2>2 DEF Chosen, ToActivate
  <2>3. CASE kind = "deactivate"
    BY <1>1, <2>1, <2>3 DEF Chosen
  <2>4. CASE kind = "remove"
    BY <1>1, <2>1, <2>4 DEF Chosen
  <2> QED
    BY <2>1, <2>2, <2>3, <2>4 DEF Kinds
<1> QED
  BY <1>2, Invariance, PTL

=============================================================================
