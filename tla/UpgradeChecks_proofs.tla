------------------------ MODULE UpgradeChecks_proofs ------------------------
(***************************************************************************)
(* Theorems about UpgradeChecks, for every set of routers, any ISIS        *)
(* instances and neighbors, and any number of jobs.                        *)
(***************************************************************************)
EXTENDS UpgradeChecks, TLAPS

-----------------------------------------------------------------------------
(* Types.                                                                  *)

\* dispatch selects among the plugins that were loaded.
LEMMA SelectedLoaded ==
  ASSUME NEW phase, NEW name PROVE Selected(phase, name) \subseteq Loaded
BY DEF Selected

\* The initial states have the right types.
LEMMA InitType == Init => TypeOK
<1> SUFFICES ASSUME Init PROVE TypeOK
  OBVIOUS
<1>1. job \in Job
  BY ChecksAssumption DEF Init, Job, Upgrade
<1>2. jobs \in 0 .. MaxJobs
  BY ChecksAssumption DEF Init
<1> QED
  BY <1>1, <1>2 DEF Init, TypeOK, Over

\* A job of any phase has the right types.
LEMMA StartType == TypeOK /\ Start => TypeOK'
<1> SUFFICES ASSUME TypeOK, Start PROVE TypeOK'
  OBVIOUS
<1>1. host' = host /\ Loaded' = Loaded
  BY DEF Start, Loaded, Matches
<1>2. job' \in Job /\ pc' \in {"pre", "main"} /\ todo' \subseteq Loaded
  BY SelectedLoaded DEF Start
<1>3. jobs' \in 0 .. MaxJobs
  BY ChecksAssumption DEF Start, TypeOK
<1>4. {saved', before', after'} \subseteq Looks \cup {NoLook}
  BY DEF Start, TypeOK
<1>5. fine' = {} /\ warned' = {}
  BY DEF Start
<1> QED
  BY <1>1, <1>2, <1>3, <1>4, <1>5 DEF TypeOK

\* So has what a plugin leaves behind.
LEMMA PluginType ==
  TypeOK /\ (Returns \/ Fails \/ IsisUnreadable \/ IsisBefore \/ IsisAfter) => TypeOK'
<1> SUFFICES ASSUME TypeOK,
                    Returns \/ Fails \/ IsisUnreadable \/ IsisBefore \/ IsisAfter
             PROVE  TypeOK'
  OBVIOUS
<1>1. host' = host /\ job' = job /\ jobs' = jobs /\ Loaded' = Loaded
  BY DEF Returns, Fails, IsisUnreadable, IsisBefore, IsisAfter, Loaded, Matches
<1>2. todo' \subseteq todo /\ pc' \in {pc, "raised"}
  BY DEF Returns, Fails, IsisUnreadable, IsisBefore, IsisAfter, Raise
<1>3. CASE Returns
  <2>1. fine' \subseteq PluginNames
    <3>1. PICK p \in todo : fine' \in {fine, fine \cup {p.name}}
      BY <1>3 DEF Returns
    <3>2. p.name \in PluginNames
      BY DEF TypeOK, Loaded, PluginNames
    <3> QED
      BY <3>1, <3>2 DEF TypeOK
  <2> QED
    BY <1>1, <1>2, <1>3, <2>1 DEF TypeOK, Returns, Over
<1>4. CASE Fails \/ IsisUnreadable
  BY <1>1, <1>2, <1>4 DEF TypeOK, Fails, IsisUnreadable, Over
<1>5. CASE IsisBefore
  BY <1>1, <1>2, <1>5 DEF TypeOK, IsisBefore, Over
<1>6. CASE IsisAfter
  <2>1. warned' \subseteq Instances
    BY <1>6 DEF IsisAfter, Differs, Active
  <2> QED
    BY <1>1, <1>2, <1>6, <2>1 DEF TypeOK, IsisAfter, Over
<1> QED
  BY <1>3, <1>4, <1>5, <1>6

\* Every step keeps the types.
LEMMA NextType == TypeOK /\ [Next]_vars => TypeOK'
<1> SUFFICES ASSUME TypeOK, [Next]_vars PROVE TypeOK'
  OBVIOUS
<1>1. CASE Start
  BY <1>1, StartType
<1>2. CASE PreDone
  <2>1. Loaded' = Loaded /\ todo' \subseteq Loaded
    BY <1>2, SelectedLoaded DEF PreDone, Loaded, Matches
  <2> QED
    BY <1>2, <2>1 DEF PreDone, TypeOK
<1>3. CASE NoPlugins
  BY <1>3 DEF NoPlugins, Raise, TypeOK, Over
<1>4. CASE Done
  <2>1. Loaded' = Loaded
    BY <1>4 DEF Done, Loaded, Matches
  <2> QED
    BY <1>4, <2>1 DEF Done, TypeOK, Over
<1>5. CASE Returns \/ Fails \/ IsisUnreadable \/ IsisBefore \/ IsisAfter
  BY <1>5, PluginType
<1>6. CASE Ended \/ UNCHANGED vars
  <2>1. Loaded' = Loaded
    BY <1>6 DEF Ended, vars, Loaded, Matches
  <2> QED
    BY <1>6, <2>1 DEF Ended, vars, TypeOK
<1> QED
  BY <1>1, <1>2, <1>3, <1>4, <1>5, <1>6 DEF Next

\* dispatch only runs plugins that were loaded for the router, and the storage
\* only holds what a router can show.
THEOREM TypeCorrect == Spec => []TypeOK
<1> QED
  BY InitType, NextType, PTL DEF Spec

-----------------------------------------------------------------------------
(* The neighbors.                                                          *)

\* While what the last Pre-Upgrade saw is known, it is what is stored, unless it
\* named no instance, or the storage was lost with the process; a job that has
\* compared has warned of every difference.
Kept ==
  /\ before # NoLook =>
       Active(before) = {} \/ saved = before \/ (saved = NoLook /\ ~host.server)
  /\ job.phase = "Pre-Upgrade" => after = NoLook
  /\ NoLook \notin {before, after} => Differs(before, after) \subseteq warned

\* Nothing has been seen at first.
LEMMA InitKept == Init => Kept
BY DEF Init, Kept

\* A new job forgets what it must not compare with.
LEMMA StartKept == Kept /\ Start => Kept'
<1> SUFFICES ASSUME Kept, Start PROVE Kept'
  OBVIOUS
<1>1. after' = NoLook /\ host' = host
  BY DEF Start
<1>2. before' \in {before, NoLook}
  BY DEF Start
<1>3. saved' = IF host.server THEN saved ELSE NoLook
  BY DEF Start
<1>4. ASSUME before' # NoLook
      PROVE  Active(before') = {} \/ saved' = before' \/ (saved' = NoLook /\ ~host'.server)
  <2>1. before' = before
    BY <1>2, <1>4
  <2> QED
    BY <1>1, <1>3, <1>4, <2>1 DEF Kept
<1> QED
  BY <1>1, <1>4 DEF Kept, Active, NoLook

\* Pre-Upgrade stores what it sees, if it sees an instance.
LEMMA BeforeKept == Kept /\ IsisBefore => Kept'
<1> SUFFICES ASSUME Kept, IsisBefore PROVE Kept'
  OBVIOUS
<1>1. PICK look \in Looks :
        /\ saved' = IF Active(look) # {} THEN look ELSE saved
        /\ before' = look
  BY DEF IsisBefore
<1>2. after' = NoLook
  BY DEF IsisBefore, Kept
<1>3. (Active(before) = {})' \/ saved' = before'
  BY <1>1 DEF Active
<1>4. (NoLook \in {before, after})'
  BY <1>2 DEF NoLook
<1>5. (job.phase = "Pre-Upgrade" => after = NoLook)'
  BY <1>2 DEF NoLook
<1> QED
  BY <1>3, <1>4, <1>5 DEF Kept

\* Post-Upgrade compares with what is stored.
LEMMA AfterKept == TypeOK /\ Kept /\ IsisAfter => Kept'
<1> SUFFICES ASSUME TypeOK, Kept, IsisAfter PROVE Kept'
  OBVIOUS
<1>1. PICK look \in Looks :
        /\ after' = look
        /\ warned' = IF saved = NoLook THEN {} ELSE Differs(saved, look)
  BY DEF IsisAfter
<1>2. before' = before /\ saved' = saved /\ host' = host /\ job' = job
  BY DEF IsisAfter
<1>3. job.phase # "Pre-Upgrade" /\ (saved # NoLook \/ host.server)
  BY DEF IsisAfter
<1>4. ASSUME before # NoLook PROVE Differs(before, look) \subseteq warned'
  <2>1. CASE Active(before) = {}
    BY <2>1 DEF Differs
  <2>2. CASE saved = before
    BY <1>1, <1>4, <2>2
  <2> QED
    BY <1>3, <1>4, <2>1, <2>2 DEF Kept
<1>5. before' # NoLook =>
        Active(before') = {} \/ saved' = before' \/ (saved' = NoLook /\ ~host'.server)
  <2>1. Active(before') = Active(before)
    BY <1>2 DEF Active
  <2> QED
    BY <1>2, <2>1 DEF Kept
<1>6. NoLook' \notin {before', after'} => Differs(before', after') \subseteq warned'
  BY <1>1, <1>2, <1>4 DEF NoLook
<1> QED
  BY <1>2, <1>3, <1>5, <1>6 DEF Kept, NoLook

\* No other step touches the storage or what was seen.
LEMMA OthersKept ==
  Kept /\ (PreDone \/ NoPlugins \/ Done \/ Returns \/ Fails \/ IsisUnreadable \/ Ended
           \/ UNCHANGED vars) => Kept'
BY DEF Kept, PreDone, NoPlugins, Done, Returns, Fails, IsisUnreadable, Ended, vars,
       Differs, Active, NoLook

\* The last Pre-Upgrade is compared with, whatever jobs came between.
THEOREM NeighborsCompared == Spec => []LostNeighborsWarned
<1>1. TypeOK /\ Kept /\ [Next]_vars => Kept'
  BY StartKept, BeforeKept, AfterKept, OthersKept DEF Next
<1>2. Kept => LostNeighborsWarned
  BY DEF Kept, LostNeighborsWarned
<1> QED
  BY <1>1, <1>2, InitKept, TypeCorrect, PTL DEF Spec

-----------------------------------------------------------------------------
(* The checks before an install plugin.                                    *)

\* The check of that name on this router.
CheckOf(name) ==
  IF name = "cfs" THEN ConfigFs ELSE IF name = "space" THEN DiskSpace ELSE RedundancyXR

\* In a job for all plugins, a needed check has passed, or dispatch has still to
\* reach it before it goes on.
Awaited ==
  /\ pc = "pre" => job.phase \in DOMAIN AutoPre
  /\ pc = "pre" /\ job.name = Unknown =>
       \A name \in Needed : name \in fine \/ CheckOf(name) \in todo
  /\ InstallsChecked

\* The checks a job needs are among those that the filters select for it.
LEMMA NeededSelected ==
  ASSUME TypeOK, NEW j \in Job, j.phase \in DOMAIN AutoPre, job' = j, host' = host
  PROVE  \A name \in Needed' : CheckOf(name) \in Selected(AutoPre[j.phase], Unknown)
<1> SUFFICES ASSUME NEW name \in Needed'
             PROVE  CheckOf(name) \in Selected(AutoPre[j.phase], Unknown)
  OBVIOUS
<1>1. j.phase \in {"Add", "Activate", "Deactivate"}
  BY DEF AutoPre
<1>2. CASE name = "cfs"
  <2>1. j.phase \in {"Activate", "Deactivate"} /\ host.platform \in XRs
    BY <1>1, <1>2 DEF Needed
  <2>2. AutoPre[j.phase] \in ConfigFs.phases
    BY <2>1 DEF AutoPre, ConfigFs, P
  <2>3. Matches(ConfigFs)
    BY <2>1 DEF Matches, ConfigFs, P
  <2> QED
    BY <1>2, <2>2, <2>3 DEF CheckOf, Selected, Loaded, Registry
<1>3. CASE name = "space"
  <2>1. j.phase = "Add" /\ host.platform \in {"ASR9K", "CRS"} /\ host.os = "XR"
    BY <1>1, <1>3 DEF Needed
  <2>2. AutoPre[j.phase] \in DiskSpace.phases
    BY <2>1 DEF AutoPre, DiskSpace, P
  <2>3. Matches(DiskSpace)
    BY <2>1 DEF Matches, DiskSpace, P
  <2> QED
    BY <1>3, <2>2, <2>3 DEF CheckOf, Selected, Loaded, Registry
<1>4. CASE name = "redundancy"
  <2>1. j.phase = "Activate" /\ host.platform \in {"ASR9K", "CRS"}
    BY <1>1, <1>4 DEF Needed
  <2>2. AutoPre[j.phase] \in RedundancyXR.phases
    BY <2>1 DEF AutoPre, RedundancyXR, P
  <2>3. Matches(RedundancyXR)
    BY <2>1 DEF Matches, RedundancyXR, P
  <2> QED
    BY <1>4, <2>2, <2>3 DEF CheckOf, Selected, Loaded, Registry
<1>5. name \in {"cfs", "space", "redundancy"}
  BY DEF Needed
<1> QED
  BY <1>2, <1>3, <1>4, <1>5

\* A job begins with its checks to be reached.
LEMMA StartAwaited == TypeOK /\ Awaited /\ Start => Awaited'
<1> SUFFICES ASSUME TypeOK, Start PROVE Awaited'
  BY DEF Awaited
<1>1. PICK j \in Job :
        /\ job' = j
        /\ IF j.phase \in DOMAIN AutoPre
           THEN pc' = "pre" /\ todo' = Selected(AutoPre[j.phase], j.name)
           ELSE pc' = "main" /\ todo' = Selected(j.phase, j.name)
  BY DEF Start
<1>2. host' = host
  BY DEF Start
<1>3. CASE j.phase \in DOMAIN AutoPre
  <2>1. pc' = "pre" /\ todo' = Selected(AutoPre[j.phase], j.name)
    BY <1>1, <1>3
  <2>2. job'.name = Unknown => \A name \in Needed' : CheckOf(name) \in todo'
    BY <1>1, <1>2, <1>3, <2>1, NeededSelected
  <2> QED
    BY <1>1, <1>3, <2>1, <2>2 DEF Awaited, InstallsChecked, CheckOf
<1>4. CASE j.phase \notin DOMAIN AutoPre
  BY <1>1, <1>4 DEF Awaited, InstallsChecked
<1> QED
  BY <1>3, <1>4

\* A check that is needed and returns has passed.
LEMMA NeededPasses ==
  ASSUME NEW name \in Needed, NEW how \in Outcomes(CheckOf(name)) \ {"fail"}
  PROVE  how = "fine" /\ CheckOf(name).name = name
<1>1. name \in {"cfs", "space", "redundancy"}
  BY DEF Needed
<1>2. CASE name = "cfs"
  BY <1>2 DEF CheckOf, Outcomes, ConfigFs, DiskSpace, Commands, P
<1>3. CASE name = "space"
  <2>1. job.ftp
    BY <1>3 DEF Needed
  <2> QED
    BY <1>3, <2>1 DEF CheckOf, Outcomes, DiskSpace, Commands, P
<1>4. CASE name = "redundancy"
  BY <1>4 DEF CheckOf, Outcomes, RedundancyXR, DiskSpace, Commands, P
<1> QED
  BY <1>1, <1>2, <1>3, <1>4

\* A plugin that returns leaves the other checks to be reached.
LEMMA ReturnsAwaited == Awaited /\ Returns => Awaited'
<1> SUFFICES ASSUME Awaited, Returns PROVE Awaited'
  OBVIOUS
<1>1. PICK p \in todo : \E how \in Outcomes(p) \ {"fail"} :
        /\ todo' = todo \ {p}
        /\ fine' = IF how = "fine" THEN fine \cup {p.name} ELSE fine
  BY DEF Returns
<1>2. PICK how \in Outcomes(p) \ {"fail"} :
        /\ todo' = todo \ {p}
        /\ fine' = IF how = "fine" THEN fine \cup {p.name} ELSE fine
  BY <1>1
<1>3. pc' = pc /\ job' = job /\ host' = host /\ Needed' = Needed
  BY DEF Returns, Needed
<1>4. ASSUME NEW name \in Needed, name \in fine \/ CheckOf(name) \in todo
      PROVE  name \in fine' \/ CheckOf(name) \in todo'
  <2>1. CASE p = CheckOf(name)
    BY <1>2, <2>1, NeededPasses
  <2>2. CASE p # CheckOf(name)
    BY <1>2, <1>4, <2>2
  <2> QED
    BY <2>1, <2>2
<1>5. fine \subseteq fine'
  BY <1>2
<1> QED
  BY <1>3, <1>4, <1>5 DEF Awaited, InstallsChecked, CheckOf

\* The ISIS check is not one of those.
LEMMA IsisAwaited == Awaited /\ (IsisUnreadable \/ IsisBefore \/ IsisAfter) => Awaited'
<1> SUFFICES ASSUME Awaited, IsisUnreadable \/ IsisBefore \/ IsisAfter PROVE Awaited'
  OBVIOUS
<1>1. todo' = todo \ {Isis} /\ fine' = fine /\ pc' = pc /\ job' = job /\ host' = host
  BY DEF IsisUnreadable, IsisBefore, IsisAfter
<1>2. Needed' = Needed
  BY <1>1 DEF Needed
<1>3. \A name : CheckOf(name) # Isis
  BY DEF CheckOf, Isis, ConfigFs, DiskSpace, RedundancyXR, P
<1> QED
  BY <1>1, <1>2, <1>3 DEF Awaited, InstallsChecked, CheckOf

\* dispatch goes on when all have been reached.
LEMMA ManagerAwaited ==
  Awaited /\ (PreDone \/ NoPlugins \/ Done \/ Fails \/ Ended \/ UNCHANGED vars) => Awaited'
<1> SUFFICES ASSUME Awaited,
                    PreDone \/ NoPlugins \/ Done \/ Fails \/ Ended \/ UNCHANGED vars
             PROVE  Awaited'
  OBVIOUS
<1>1. job' = job /\ host' = host /\ fine' = fine
  BY DEF PreDone, NoPlugins, Done, Fails, Ended, vars
<1>2. Needed' = Needed
  BY <1>1 DEF Needed
<1>3. CASE PreDone
  BY <1>1, <1>2, <1>3 DEF Awaited, InstallsChecked, PreDone
<1>4. CASE NoPlugins \/ Done \/ Fails
  BY <1>1, <1>2, <1>4 DEF Awaited, InstallsChecked, NoPlugins, Done, Fails, Raise
<1>5. CASE Ended \/ UNCHANGED vars
  BY <1>1, <1>2, <1>5 DEF Awaited, InstallsChecked, Ended, vars, CheckOf
<1> QED
  BY <1>3, <1>4, <1>5

\* No install plugin starts before its checks have passed, in whatever order
\* dispatch comes to them.
THEOREM ChecksFirst == Spec => []InstallsChecked
<1>1. Init => Awaited
  BY DEF Init, Awaited, InstallsChecked
<1>2. TypeOK /\ Awaited /\ [Next]_vars => Awaited'
  BY StartAwaited, ReturnsAwaited, IsisAwaited, ManagerAwaited DEF Next
<1>3. Awaited => InstallsChecked
  BY DEF Awaited
<1> QED
  BY <1>1, <1>2, <1>3, TypeCorrect, PTL DEF Spec

-----------------------------------------------------------------------------
(* The variants of a plugin.                                               *)

\* The platforms of the install plugins for a system, and what such a plugin is for.
PlatformsOf(os) == IF os = "XR" THEN {"ASR9K", "CRS"} ELSE IF os = "eXR" THEN X64 ELSE {"ASR900"}
PhaseOf(name) ==
  IF name \in {"remove inactive", "remove inactive all"} THEN "Remove All Inactive"
  ELSE IF name \in {"extract", "prepare", "prepare clean", "plan"} THEN "Pre-Activate"
  ELSE name
InstallOf(name, os) ==
  P(name, PlatformsOf(os), {os}, {PhaseOf(name)},
    IF name = "plan" THEN {"fine", "warn", "fail"} ELSE {"fine", "fail"})

\* The names of the other plugins.
CheckNames == {"nodes", "redundancy", "cfs", "core", "startup", "rw", "space", "capture",
               "commands", "isis"}

\* The set of install plugins, taken apart.
LEMMA InstallCases ==
  ASSUME NEW p \in Installs
  PROVE  \/ \E phase \in {"Add", "Activate", "Deactivate", "Commit", "Remove",
                         "Remove All Inactive"} :
              p = P(phase, {"ASR9K", "CRS"}, {"XR"}, {phase}, {"fine", "fail"})
         \/ \E phase \in {"Add", "Activate", "Deactivate", "Commit", "Remove"} :
              p = P(phase, X64, {"eXR"}, {phase}, {"fine", "fail"})
         \/ \E phase \in {"Add", "Activate", "Remove"}, os \in {"XE", "IOS"} :
              p = P(phase, {"ASR900"}, {os}, {phase}, {"fine", "fail"})
         \/ \E name \in {"remove inactive", "remove inactive all"} :
              p = P(name, X64, {"eXR"}, {"Remove All Inactive"}, {"fine", "fail"})
         \/ \E name \in {"extract", "prepare", "prepare clean"} :
              p = P(name, X64, {"eXR"}, {"Pre-Activate"}, {"fine", "fail"})
         \/ p = P("plan", {"ASR900"}, {"XE"}, {"Pre-Activate"}, {"fine", "warn", "fail"})
<1> DEFINE Both == {"Add", "Activate", "Deactivate", "Commit", "Remove"}
           U1 == UNION {Variants(phase, {"ASR9K", "CRS"}, {"XR"}) \cup Variants(phase, X64, {"eXR"}) :
                          phase \in Both}
           U2 == UNION {Variants(phase, {"ASR900"}, {"XE", "IOS"}) :
                          phase \in {"Add", "Activate", "Remove"}}
           U3 == Variants("Remove All Inactive", {"ASR9K", "CRS"}, {"XR"})
           U4 == {P(name, X64, {"eXR"}, {"Remove All Inactive"}, {"fine", "fail"}) :
                    name \in {"remove inactive", "remove inactive all"}}
           U5 == {P(name, X64, {"eXR"}, {"Pre-Activate"}, {"fine", "fail"}) :
                    name \in {"extract", "prepare", "prepare clean"}}
           U6 == {P("plan", {"ASR900"}, {"XE"}, {"Pre-Activate"}, {"fine", "warn", "fail"})}
<1>1. Installs = U1 \cup U2 \cup U3 \cup U4 \cup U5 \cup U6
  BY DEF Installs
<1>2. CASE p \in U1
  <2>1. PICK phase \in Both : \/ p \in Variants(phase, {"ASR9K", "CRS"}, {"XR"})
                             \/ p \in Variants(phase, X64, {"eXR"})
    BY <1>2, Zenon
  <2>2. CASE p \in Variants(phase, {"ASR9K", "CRS"}, {"XR"})
    <3>1. p = P(phase, {"ASR9K", "CRS"}, {"XR"}, {phase}, {"fine", "fail"})
      BY <2>2 DEF Variants
    <3> QED
      BY <3>1
  <2>3. CASE p \in Variants(phase, X64, {"eXR"})
    <3>1. p = P(phase, X64, {"eXR"}, {phase}, {"fine", "fail"})
      BY <2>3 DEF Variants
    <3> QED
      BY <3>1
  <2> QED
    BY <2>1, <2>2, <2>3
<1>3. CASE p \in U2
  <2>1. PICK phase \in {"Add", "Activate", "Remove"} :
               p \in Variants(phase, {"ASR900"}, {"XE", "IOS"})
    BY <1>3, Zenon
  <2>2. PICK os \in {"XE", "IOS"} : p = P(phase, {"ASR900"}, {os}, {phase}, {"fine", "fail"})
    BY <2>1 DEF Variants
  <2> QED
    BY <2>2
<1>4. CASE p \in U3
  BY <1>4 DEF Variants
<1>5. CASE p \in U4
  BY <1>5
<1>6. CASE p \in U5
  BY <1>6
<1>7. CASE p \in U6
  BY <1>7
<1> HIDE DEF U1, U2, U3, U4, U5, U6
<1>8. p \in U1 \/ p \in U2 \/ p \in U3 \/ p \in U4 \/ p \in U5 \/ p \in U6
  BY <1>1
<1> QED
  BY <1>2, <1>3, <1>4, <1>5, <1>6, <1>7, <1>8

\* An install plugin is known by its name, which no other plugin has, and its system.
LEMMA InstallShape ==
  ASSUME NEW p \in Installs
  PROVE  p.name \notin CheckNames /\ \E os \in Systems : p = InstallOf(p.name, os)
<1> USE DEF InstallOf, PlatformsOf, PhaseOf, CheckNames
<1>1. ASSUME NEW n, NEW x, NEW y, NEW z, NEW w, p = P(n, x, y, z, w) PROVE p.name = n
  BY <1>1 DEF P
<1>2. CASE \E phase \in {"Add", "Activate", "Deactivate", "Commit", "Remove",
                         "Remove All Inactive"} :
             p = P(phase, {"ASR9K", "CRS"}, {"XR"}, {phase}, {"fine", "fail"})
  <2>1. p = InstallOf(p.name, "XR") /\ p.name \notin CheckNames
    BY <1>1, <1>2
  <2> QED
    BY <2>1 DEF Systems
<1>3. CASE \/ \E phase \in {"Add", "Activate", "Deactivate", "Commit", "Remove"} :
                 p = P(phase, X64, {"eXR"}, {phase}, {"fine", "fail"})
           \/ \E name \in {"remove inactive", "remove inactive all"} :
                 p = P(name, X64, {"eXR"}, {"Remove All Inactive"}, {"fine", "fail"})
           \/ \E name \in {"extract", "prepare", "prepare clean"} :
                 p = P(name, X64, {"eXR"}, {"Pre-Activate"}, {"fine", "fail"})
  <2>1. p = InstallOf(p.name, "eXR") /\ p.name \notin CheckNames
    BY <1>1, <1>3
  <2> QED
    BY <2>1 DEF Systems
<1>4. CASE \E phase \in {"Add", "Activate", "Remove"}, os \in {"XE", "IOS"} :
             p = P(phase, {"ASR900"}, {os}, {phase}, {"fine", "fail"})
  <2>1. PICK phase \in {"Add", "Activate", "Remove"}, os \in {"XE", "IOS"} :
               p = P(phase, {"ASR900"}, {os}, {phase}, {"fine", "fail"})
    BY <1>4
  <2>2. p.name = phase
    BY <1>1, <2>1
  <2>3. p = InstallOf(p.name, os) /\ p.name \notin CheckNames
    BY <2>1, <2>2
  <2>4. os \in Systems
    BY DEF Systems
  <2> QED
    BY <2>3, <2>4
<1>5. CASE p = P("plan", {"ASR900"}, {"XE"}, {"Pre-Activate"}, {"fine", "warn", "fail"})
  <2>1. p = InstallOf(p.name, "XE") /\ p.name \notin CheckNames
    BY <1>1, <1>5
  <2> QED
    BY <2>1 DEF Systems
<1> QED
  BY <1>2, <1>3, <1>4, <1>5, InstallCases

\* The other plugins, by name.
LEMMA CheckShape ==
  ASSUME NEW p \in Registry \ Installs
  PROVE  /\ p.name \in CheckNames
         /\ p.name = "nodes" => p \in {NodesXR, NodesX64, NodesXE}
         /\ p.name = "redundancy" => p \in {RedundancyXR, RedundancyXE}
         /\ p.name = "cfs" => p = ConfigFs
         /\ p.name = "core" => p = CoreErrors
         /\ p.name = "startup" => p = FailedConfig
         /\ p.name = "rw" => p = Writable
         /\ p.name = "space" => p = DiskSpace
         /\ p.name = "capture" => p = Capture
         /\ p.name = "commands" => p = Commands
         /\ p.name = "isis" => p = Isis
BY DEF Registry, P, CheckNames, NodesXR, NodesX64, NodesXE, RedundancyXR, RedundancyXE,
   ConfigFs, CoreErrors, FailedConfig, Writable, DiskSpace, Capture, Commands, Isis

\* Two plugins of one name are not both for one known router.
LEMMA Distinguished ==
  ASSUME TypeOK, Unknown \notin {host.platform, host.os}, NEW p \in Loaded, NEW q \in Loaded,
         p.name = q.name
  PROVE  p = q
<1>1. p \in Registry /\ q \in Registry /\ Matches(p) /\ Matches(q)
  BY DEF Loaded
<1>2. CASE p \in Installs /\ q \in Installs
  <2>1. PICK a \in Systems : p = InstallOf(p.name, a)
    BY <1>2, InstallShape
  <2>2. PICK b \in Systems : q = InstallOf(q.name, b)
    BY <1>2, InstallShape
  <2>3. p.os = {a} /\ q.os = {b}
    BY <2>1, <2>2 DEF InstallOf, P
  <2>4. a = host.os /\ b = host.os
    BY <1>1, <2>3 DEF Matches
  <2> QED
    BY <2>1, <2>2, <2>4
<1>3. CASE p \notin Installs /\ q \notin Installs
  <2>1. CASE p.name = "nodes"
    <3>1. p \in {NodesXR, NodesX64, NodesXE} /\ q \in {NodesXR, NodesX64, NodesXE}
      BY <1>1, <1>3, <2>1, CheckShape
    <3> QED
      BY <1>1, <3>1 DEF Matches, NodesXR, NodesX64, NodesXE, P, X64
  <2>2. CASE p.name = "redundancy"
    <3>1. p \in {RedundancyXR, RedundancyXE} /\ q \in {RedundancyXR, RedundancyXE}
      BY <1>1, <1>3, <2>2, CheckShape
    <3> QED
      BY <1>1, <3>1 DEF Matches, RedundancyXR, RedundancyXE, P
  <2>3. CASE p.name \notin {"nodes", "redundancy"}
    BY <1>1, <1>3, <2>3, CheckShape DEF CheckNames
  <2> QED
    BY <2>1, <2>2, <2>3
<1>4. CASE (p \in Installs) # (q \in Installs)
  BY <1>1, <1>4, InstallShape, CheckShape
<1> QED
  BY <1>2, <1>3, <1>4

\* On a router whose family and system are known, a job runs one variant of a plugin,
\* for every such router there may be.
THEOREM VariantsExclude == Spec => []OneVariant
<1>1. TypeOK => OneVariant
  BY Distinguished DEF TypeOK, OneVariant
<1> QED
  BY <1>1, TypeCorrect, PTL
=============================================================================
