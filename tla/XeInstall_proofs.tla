-------------------------- MODULE XeInstall_proofs --------------------------
(***************************************************************************)
(* Theorems about XeInstall, for every set of packages and routers and any *)
(* number of jobs.  A step is shown to keep an invariant by cases on the   *)
(* actions; those that change nothing but pc are one case (Quiet).         *)
(***************************************************************************)
EXTENDS XeInstall, TLAPS

\* Labels of Activate once it has a plan.
Installing ==
  {"copyimg", "backup", "drop", "expand", "copystby", "config", "noboot", "setboot",
   "write", "go", "wait", "issu", "poll", "verify", "tidy", "compare"}

\* The steps that change nothing but pc.
Quiet ==
  \/ SendFails \/ NoPackageList \/ RemoveFails \/ PreNoList \/ PreStart \/ CleanFails
  \/ Space \/ PreFails \/ Load \/ CopyImageFails \/ Backup \/ Configure \/ IssuRefused
  \/ IssuError \/ NoReconnect \/ PollTimeout \/ IosVerify \/ SlotMissing \/ Ended
  \/ UNCHANGED vars

\* Where they lead.
QuietGoes ==
  /\ UNCHANGED <<operator, plugin, line, files, bootvar, chassis>>
  /\ \/ pc' \in {pc, "raised"}
     \/ pc \in {"pre", "verify"} /\ pc' = "returned"
     \/ pc = "pre" /\ box.kind = "con" /\ pc' = "space"
     \/ pc = "pre" /\ box.kind = "sub" /\ pc' = "clean"
     \/ pc = "pre" /\ job.phase = "Activate" /\ pc' = "load"
     \/ pc = "space" /\ box.kind # "sub" /\ pc' = "save"
     \/ pc = "space" /\ box.kind = "sub" /\ pc' \in {"cleanstby", "save"}
     \/ pc = "load" /\ plan # NoPlan /\ plan.mode = "issu" /\ pc' = "copyimg"
     \/ pc = "load" /\ plan # NoPlan /\ plan.mode = "subpackage" /\ pc' = "backup"
     \/ pc = "load" /\ plan # NoPlan /\ plan.mode \notin {"issu", "subpackage"} /\ pc' = "config"
     \/ pc = "backup" /\ pc' = (IF conf[at] = None THEN "expand" ELSE "drop")
     \/ pc = "config" /\ pc' = (IF Mode = "issu" THEN "write" ELSE "noboot")

\* The quiet steps lead there.
LEMMA QuietSteps == Quiet => QuietGoes
<1> SUFFICES ASSUME Quiet PROVE QuietGoes
  OBVIOUS
<1> USE DEF QuietGoes, Only, Raise, Goto
<1>1. CASE SendFails \/ NoPackageList \/ RemoveFails \/ CleanFails \/ PreFails
           \/ CopyImageFails \/ IssuRefused \/ IssuError \/ NoReconnect \/ PollTimeout
           \/ IosVerify \/ SlotMissing
  BY <1>1 DEF SendFails, NoPackageList, RemoveFails, CleanFails, PreFails, CopyImageFails,
              IssuRefused, IssuError, NoReconnect, PollTimeout, IosVerify, SlotMissing
<1>2. CASE PreNoList \/ PreStart
  BY <1>2 DEF PreNoList, PreStart, PluginReturns
<1>3. CASE Space
  BY <1>3 DEF Space
<1>4. CASE Load
  BY <1>4 DEF Load
<1>5. CASE Backup \/ Configure
  BY <1>5 DEF Backup, Configure
<1>6. CASE Ended \/ UNCHANGED vars
  BY <1>6 DEF Ended, vars
<1> QED
  BY <1>1, <1>2, <1>3, <1>4, <1>5, <1>6 DEF Quiet

-----------------------------------------------------------------------------
(* Types.                                                                  *)

\* An Activate that goes on has a plan, and so has an ISSU.
PlanKnown ==
  /\ issu # 0 => plan # NoPlan
  /\ pc \in Installing /\ box.kind # "ios" => plan # NoPlan

Shape == TypeOK /\ PlanKnown

\* Only a plugin that waits, or has given up, finds the router down; an ISSU is under
\* way only once Activate has started it.
RouterKnown ==
  /\ router # "up" => pc \in {"wait", "raised"} /\ issu = 0
  /\ router = "up" => runs["act"] # "down"
  /\ issu # 0 => pc \in {"issu", "wait", "poll", "verify", "tidy", "compare", "returned",
                         "raised"}

Typed == Shape /\ RouterKnown

\* The router is at rest at first.
LEMMA InitTyped == Init => Typed
<1> SUFFICES ASSUME Init PROVE Typed
  OBVIOUS
<1>1. box \in Box /\ job \in Job /\ run \in 0 .. MaxRuns
  BY XeAssumption DEF Init, Job
<1>2. flash \in [Sides -> SUBSET File] /\ conf \in [Sides -> Pkgs \cup {None}]
  BY XeAssumption DEF Init, File, Sides
<1>3. {boot, nvram} \subseteq Pkgs \cup {"conf", None} /\ runs \in [Sides -> Pkgs \cup {"down"}]
  BY XeAssumption DEF Init
<1>4. via \in {"bin", "conf"}
  BY <1>1 DEF Init, Box
<1>5. warned \in BOOLEAN /\ line \in BOOLEAN /\ ready \in BOOLEAN
  BY DEF Init
<1>6. plan \in Plans /\ pc \in Over /\ at \in Sides /\ polls \in 0 .. MaxPolls
  BY XeAssumption DEF Init, Plans, Over, Sides
<1>7. RouterKnown
  BY XeAssumption DEF Init, RouterKnown, RSPs, Sides
<1> QED
  BY <1>1, <1>2, <1>3, <1>4, <1>5, <1>6, <1>7
     DEF Init, Typed, Shape, TypeOK, PlanKnown, Over, Installing

\* What Activate installs is a package.
LEMMA TargetType == Typed /\ pc \in Installing => Target \in Pkgs
BY DEF Typed, Shape, TypeOK, PlanKnown, Target, Plans, Job, NoPlan

\* The operator.
LEMMA StartTyped == Typed /\ Start => Shape'
<1> SUFFICES ASSUME Typed, Start PROVE Shape'
  OBVIOUS
<1>1. run' \in 0 .. MaxRuns
  BY XeAssumption DEF Start, Typed, Shape, TypeOK
<1>2. job' \in Job /\ added' \subseteq Pkgs
  BY DEF Start, Typed, Shape, TypeOK
<1>3. pc' \in {"add", "remove", "pre", "config", "returned"}
  BY DEF Start, First, Goto
<1>4. box.kind # "ios" => pc' # "config"
  BY DEF Start, First, Goto
<1>5. plan' \in Plans
  BY DEF Start, Typed, Shape, TypeOK, Plans
<1>6. line' \in BOOLEAN /\ warned' \in BOOLEAN
  BY DEF Start
<1>7. at' \in Sides /\ polls' \in 0 .. MaxPolls
  BY XeAssumption DEF Start, Sides
<1>8. issu = 0 /\ UNCHANGED <<box, files, bootvar, chassis>>
  BY DEF Start
<1>9. PlanKnown'
  BY <1>3, <1>4, <1>8 DEF PlanKnown, Installing, chassis
<1>10. ready' \in BOOLEAN
  BY <1>8 DEF Typed, Shape, TypeOK, chassis
<1>11. /\ box' \in Boxes /\ flash' \in [Sides -> SUBSET File]
       /\ conf' \in [Sides -> Pkgs \cup {None}]
       /\ {boot', nvram'} \subseteq Pkgs \cup {"conf", None}
       /\ runs' \in [Sides -> Pkgs \cup {"down"}] /\ via' \in {"bin", "conf"}
       /\ router' \in {"up", "reloading", "dead"} /\ issu' \in 0 .. 5
       /\ said' \in {None, "failed", "provisioned"}
  BY <1>8 DEF Typed, Shape, TypeOK, files, bootvar, chassis
<1>12. pc' \in Over \cup Sending \cup {"load", "wait"}
  BY <1>3 DEF Over, Sending
<1> QED
  BY <1>1, <1>2, <1>5, <1>6, <1>7, <1>9, <1>10, <1>11, <1>12 DEF Typed, Shape, TypeOK

\* The quiet steps.
LEMMA QuietTyped == Typed /\ Quiet => Shape'
<1> SUFFICES ASSUME Typed, Quiet PROVE Shape'
  OBVIOUS
<1>1. QuietGoes
  BY QuietSteps
<1>2. UNCHANGED <<operator, plugin, line, files, bootvar, chassis>>
  BY <1>1 DEF QuietGoes
<1>3. pc' \in Over \cup Sending \cup {"load", "wait"}
  BY <1>1 DEF QuietGoes, Typed, Shape, TypeOK, Over, Sending
<1>4. PlanKnown'
  <2>1. UNCHANGED <<issu, plan, box>>
    BY <1>2 DEF operator, plugin, chassis
  <2>2. pc' \in Installing => pc \in Installing \/ plan # NoPlan
    BY <1>1 DEF QuietGoes, Installing
  <2> QED
    BY <2>1, <2>2 DEF Typed, Shape, PlanKnown
<1>5. warned' \in BOOLEAN /\ line' \in BOOLEAN /\ ready' \in BOOLEAN
  BY <1>2 DEF Typed, Shape, TypeOK, plugin, chassis
<1> QED
  BY <1>2, <1>3, <1>4, <1>5 DEF Typed, Shape, TypeOK, operator, plugin, files, bootvar, chassis

\* The steps of the plugin that write to the flash of the RSPs.
Writing ==
  \/ Add \/ AddFails \/ RemoveActive \/ RemoveStandby \/ Clean \/ CleanStandby
  \/ CopyImage \/ DropConf \/ Expand \/ ExpandFails \/ CopyToStandby
  \/ CopyToStandbyFails \/ Tidy

\* Only files of packages are written.
LEMMA WritingTyped == Typed /\ Writing => Shape'
<1> SUFFICES ASSUME Typed, Writing PROVE Shape'
  OBVIOUS
<1> USE DEF Writing, Goto
<1>1. UNCHANGED <<box, job, run, plan, warned, polls, line, bootvar, chassis>>
  BY DEF Add, AddFails, CopyFails, RemoveActive, RemoveStandby, Clean, CleanStandby, CleanUp,
         CopyImage, DropConf, Expand, ExpandFails, CopyToStandby, CopyToStandbyFails, Tidy,
         operator, plugin
<1>2. at' \in Sides /\ added' \subseteq Pkgs
  BY DEF Add, AddFails, CopyFails, RemoveActive, RemoveStandby, Clean, CleanStandby, CleanUp,
         CopyImage, DropConf, Expand, ExpandFails, CopyToStandby, CopyToStandbyFails, Tidy,
         operator, plugin, Typed, Shape, TypeOK, Job, Sides
<1>3. pc \in Installing \/ pc' \notin Installing
  BY DEF Add, AddFails, CopyFails, RemoveActive, RemoveStandby, Clean, CleanStandby, CleanUp,
         CopyImage, DropConf, Expand, ExpandFails, CopyToStandby, CopyToStandbyFails, Tidy,
         Installing
<1>4. pc' \in Over \cup Sending
  BY DEF Add, AddFails, CopyFails, RemoveActive, RemoveStandby, Clean, CleanStandby, CleanUp,
         CopyImage, DropConf, Expand, ExpandFails, CopyToStandby, CopyToStandbyFails, Tidy,
         Over, Sending
<1>5. conf' \in [Sides -> Pkgs \cup {None}]
  <2>1. CASE Expand
    BY <2>1, TargetType DEF Expand, Typed, Shape, TypeOK, Installing
  <2>2. CASE ~Expand
    BY <2>2 DEF Add, AddFails, CopyFails, RemoveActive, RemoveStandby, Clean, CleanStandby,
       CleanUp, CopyImage, DropConf, ExpandFails, CopyToStandby, CopyToStandbyFails,
       Tidy, Typed, Shape, TypeOK, files
  <2> QED
    BY <2>1, <2>2
<1>6. flash' \in [Sides -> SUBSET File]
  <2> USE DEF Typed, Shape, TypeOK, Sides
  <2>1. CASE Add
    BY <2>1 DEF Add, File, Job
  <2>2. CASE AddFails
    BY <2>2 DEF AddFails, CopyFails, Image, File, Job
  <2>3. CASE RemoveActive \/ RemoveStandby
    BY <2>3 DEF RemoveActive, RemoveStandby, Drop
  <2>4. CASE Clean \/ CleanStandby
    BY <2>4 DEF Clean, CleanStandby, CleanUp, Drop
  <2>5. CASE CopyImage
    BY <2>5, TargetType DEF CopyImage, File, Installing
  <2>6. CASE DropConf
    BY <2>6 DEF DropConf
  <2>7. CASE Expand \/ ExpandFails
    BY <2>7, TargetType DEF Expand, ExpandFails, Drop, File, Installing
  <2>8. CASE CopyToStandby
    BY <2>8, TargetType DEF CopyToStandby, Image, File, Installing
  <2>9. CASE CopyToStandbyFails
    BY <2>9, TargetType DEF CopyToStandbyFails, CopyFails, Image, File, Installing
  <2>10. CASE Tidy
    BY <2>10 DEF Tidy
  <2> QED
    BY <2>1, <2>2, <2>3, <2>4, <2>5, <2>6, <2>7, <2>8, <2>9, <2>10
<1>7. PlanKnown'
  BY <1>1, <1>3 DEF Typed, Shape, PlanKnown, chassis
<1>8. warned' \in BOOLEAN /\ line' \in BOOLEAN /\ ready' \in BOOLEAN
  BY <1>1 DEF Typed, Shape, TypeOK, chassis
<1> QED
  BY <1>1, <1>2, <1>4, <1>5, <1>6, <1>7, <1>8 DEF Typed, Shape, TypeOK, bootvar, chassis

\* The other steps of the plugin.
LEMMA PluginTyped ==
  Typed /\ (PreSave \/ IosNoList \/ NoBoot \/ SetBoot \/ WriteMemory \/ WriteFails \/ Reload
             \/ IssuStart \/ IssuDone \/ Reconnect \/ Poll \/ Verify \/ Compare) => Shape'
<1> SUFFICES ASSUME Typed, PreSave \/ IosNoList \/ NoBoot \/ SetBoot \/ WriteMemory
                      \/ WriteFails \/ Reload \/ IssuStart \/ IssuDone \/ Reconnect \/ Poll
                      \/ Verify \/ Compare
             PROVE  Shape'
  OBVIOUS
<1> USE DEF Goto
<1>1. UNCHANGED <<operator, at, files, runs, via>>
  BY DEF PreSave, IosNoList, NoBoot, SetBoot, WriteMemory, WriteFails, Reload, IssuStart,
         IssuDone, Reconnect, Poll, Verify, Compare, Raise, Only, plugin, files, chassis
<1>2. pc' \in Over \cup Sending \cup {"load", "wait"}
  BY DEF PreSave, PluginReturns, IosNoList, NoBoot, SetBoot, WriteMemory, WriteFails, Reload,
         IssuStart, IssuDone, Reconnect, Poll, Verify, Compare, Raise, Only, Over, Sending
<1>3. plan' \in Plans
  <2>1. CASE PreSave
    <3>1. box.rsps \in {1, 2} /\ job.pkg \in Pkgs
      BY XeAssumption DEF Typed, Shape, TypeOK, Box, Job
    <3>2. BootModes \subseteq {"consolidated", "subpackage", "issu"}
      BY DEF BootModes
    <3> QED
      BY <2>1, <3>1, <3>2 DEF PreSave, Plans
  <2>2. CASE ~PreSave
    BY <2>2 DEF IosNoList, NoBoot, SetBoot, WriteMemory, WriteFails, Reload, IssuStart,
       IssuDone, Reconnect, Poll, Verify, Compare, Raise, Only, plugin, Typed, Shape, TypeOK
  <2> QED
    BY <2>1, <2>2
<1>4. PlanKnown'
  <2>1. CASE PreSave
    BY <2>1 DEF PreSave, PlanKnown, NoPlan, BootModes, None
  <2>2. CASE ~PreSave
    <3>1. UNCHANGED <<plan, box>>
      BY <2>2 DEF IosNoList, NoBoot, SetBoot, WriteMemory, WriteFails, Reload, IssuStart,
         IssuDone, Reconnect, Poll, Verify, Compare, Raise, Only, plugin, operator
    <3>2. pc \in Installing
      BY <2>2 DEF IosNoList, NoBoot, SetBoot, WriteMemory, WriteFails, Reload, IssuStart,
         IssuDone, Reconnect, Poll, Verify, Compare, Installing
    <3>3. issu' = issu \/ box.kind # "ios"
      BY <2>2 DEF IosNoList, NoBoot, SetBoot, WriteMemory, WriteFails, Reload, IssuStart,
         IssuDone, Reconnect, Poll, Verify, Compare, Raise, Only, chassis, Mode
    <3> QED
      BY <3>1, <3>2, <3>3 DEF Typed, Shape, PlanKnown
  <2> QED
    BY <2>1, <2>2
<1>5. polls' \in 0 .. MaxPolls
  BY XeAssumption
     DEF PreSave, IosNoList, NoBoot, SetBoot, WriteMemory, WriteFails, Reload, IssuStart,
         IssuDone, Reconnect, Poll, Verify, Compare, Raise, Only, plugin, Typed, Shape, TypeOK
<1>6. {boot', nvram'} \subseteq Pkgs \cup {"conf", None}
  BY TargetType
     DEF PreSave, IosNoList, NoBoot, SetBoot, WriteMemory, WriteFails, Reload, IssuStart,
         IssuDone, Reconnect, Poll, Verify, Compare, Raise, Only, bootvar, Typed, Shape, TypeOK,
         Installing
<1>7. /\ router' \in {"up", "reloading", "dead"} /\ issu' \in 0 .. 5
      /\ said' \in {None, "failed", "provisioned"}
  BY DEF PreSave, IosNoList, NoBoot, SetBoot, WriteMemory, WriteFails, Reload, IssuStart,
         IssuDone, Reconnect, Poll, Verify, Compare, Raise, Only, chassis, Typed, Shape, TypeOK
<1>8. line' \in BOOLEAN /\ ready' \in BOOLEAN
  BY DEF PreSave, IosNoList, NoBoot, SetBoot, WriteMemory, WriteFails, Reload, IssuStart,
         IssuDone, Reconnect, Poll, Verify, Compare, Raise, Only, chassis, Typed, Shape, TypeOK
<1>9. warned' \in BOOLEAN
  BY DEF PreSave, IosNoList, NoBoot, SetBoot, WriteMemory, WriteFails, Reload, IssuStart,
         IssuDone, Reconnect, Poll, Verify, Compare, Raise, Only, plugin, Typed, Shape, TypeOK
<1> QED
  BY <1>1, <1>2, <1>3, <1>4, <1>5, <1>6, <1>7, <1>8, <1>9
     DEF Typed, Shape, TypeOK, operator, files

\* The router.
LEMMA RouterTyped == Typed /\ Router => Shape'
<1> SUFFICES ASSUME Typed, Router PROVE Shape'
  OBVIOUS
<1> USE DEF Router
<1>1. UNCHANGED <<operator, pc, plugin>>
  BY DEF BootsUp, NodesUp, IssuStage, IssuFails, Switchover
<1>2. line' \in BOOLEAN /\ ready' \in BOOLEAN
  BY DEF BootsUp, NodesUp, IssuStage, IssuFails, Switchover, chassis, Typed, Shape, TypeOK
<1>3. issu' # 0 => issu # 0 /\ plan # NoPlan /\ plan.pkg \in Pkgs
  BY DEF BootsUp, NodesUp, IssuStage, IssuFails, Switchover, Typed, Shape, TypeOK, PlanKnown, Plans
<1>4. issu \in 1 .. 5 => plan.pkg \in Pkgs
  BY DEF Typed, Shape, TypeOK, PlanKnown, Plans
<1>5. /\ issu' \in 0 .. 5 /\ router' \in {"up", "reloading", "dead"}
      /\ said' \in {None, "failed", "provisioned"} /\ via' \in {"bin", "conf"}
      /\ {boot', nvram'} \subseteq Pkgs \cup {"conf", None}
  BY DEF BootsUp, NodesUp, IssuStage, IssuFails, Switchover, bootvar, Typed, Shape, TypeOK
<1>6. runs' \in [Sides -> Pkgs \cup {"down"}]
  <2> USE DEF Typed, Shape, TypeOK
  <2>1. CASE BootsUp
    <3>1. \A t \in Sides : Boots(t, nvram) \in Pkgs \cup {"down"}
      BY DEF Boots, None, Has
    <3> QED
      BY <2>1, <3>1 DEF BootsUp
  <2>2. CASE NodesUp
    BY <2>2 DEF NodesUp
  <2>3. CASE IssuStage
    BY <1>4, <2>3 DEF IssuStage, Sides
  <2>4. CASE IssuFails
    BY <2>4 DEF IssuFails, Sides
  <2>5. CASE Switchover
    BY <1>4, <2>5 DEF Switchover
  <2> QED
    BY <2>1, <2>2, <2>3, <2>4, <2>5
<1>7. flash' \in [Sides -> SUBSET File] /\ conf' \in [Sides -> Pkgs \cup {None}]
  <2> USE DEF Typed, Shape, TypeOK, Sides
  <2>1. CASE BootsUp \/ NodesUp
    BY <2>1 DEF BootsUp, NodesUp, files
  <2>2. CASE IssuStage
    BY <1>4, <2>2 DEF IssuStage, Install, files, File
  <2>3. CASE IssuFails
    <3>1. conf' \in {conf, [conf EXCEPT !["stby"] = runs["act"]]}
      BY <2>3 DEF IssuFails
    <3>3. runs["act"] \in Pkgs
      BY <2>3 DEF IssuFails, RouterKnown
    <3>2. flash' = flash
      BY <2>3 DEF IssuFails
    <3> QED
      BY <3>1, <3>2, <3>3
  <2>4. CASE Switchover
    BY <2>4 DEF Switchover, Swap
  <2> QED
    BY <2>1, <2>2, <2>3, <2>4
<1>8. PlanKnown'
  BY <1>1, <1>3 DEF Typed, Shape, PlanKnown, operator, plugin
<1> QED
  BY <1>1, <1>2, <1>5, <1>6, <1>7, <1>8 DEF Typed, Shape, TypeOK, operator, plugin

\* Every step is one of these.
LEMMA StepCases ==
  ASSUME [Next]_vars
  PROVE  \/ Start \/ Quiet \/ Writing \/ Router
         \/ PreSave \/ IosNoList \/ NoBoot \/ SetBoot \/ WriteMemory \/ WriteFails \/ Reload
         \/ IssuStart \/ IssuDone \/ Reconnect \/ Poll \/ Verify \/ Compare
BY DEF Next, Plugin, Quiet, Writing

\* The router is up when a plugin works on it.
LEMMA RouterKnownStep == Typed /\ [Next]_vars => RouterKnown'
<1> SUFFICES ASSUME Typed, [Next]_vars PROVE RouterKnown'
  OBVIOUS
<1> USE DEF RouterKnown, Typed
<1>1. CASE Start
  BY <1>1 DEF Start, chassis
<1>2. CASE Quiet
  <2>1. QuietGoes
    BY <1>2, QuietSteps
  <2> QED
    BY <2>1 DEF QuietGoes, chassis
<1>3. CASE Writing
  BY <1>3 DEF Writing, Add, AddFails, CopyFails, RemoveActive, RemoveStandby, Clean,
     CleanStandby, CleanUp, CopyImage, DropConf, Expand, ExpandFails, CopyToStandby,
     CopyToStandbyFails, Tidy, Goto, chassis
<1>4. CASE PreSave \/ IosNoList \/ NoBoot \/ SetBoot \/ WriteMemory \/ WriteFails
  BY <1>4 DEF PreSave, PluginReturns, IosNoList, NoBoot, SetBoot, WriteMemory, WriteFails,
              Goto, chassis
<1>5. CASE Reload \/ IssuStart \/ IssuDone
  BY <1>5 DEF Reload, IssuStart, IssuDone, Goto, chassis
<1>6. CASE Reconnect \/ Poll \/ Verify \/ Compare
  BY <1>6 DEF Reconnect, Poll, Verify, Compare, Raise, Only, Goto, chassis
<1>7. CASE BootsUp
  <2>1. runs'["act"] = Boots("act", nvram)
    BY <1>7 DEF BootsUp, RSPs, Sides
  <2> QED
    BY <1>7, <2>1 DEF BootsUp
<1>8. CASE NodesUp \/ IssuStage \/ IssuFails
  BY <1>8 DEF NodesUp, IssuStage, IssuFails, Shape, TypeOK, Sides
<1>9. CASE Switchover
  <2>1. plan.pkg \in Pkgs
    BY <1>9 DEF Switchover, Shape, TypeOK, PlanKnown, Plans
  <2>2. runs'["act"] # "down"
    BY <1>9, <2>1, XeAssumption DEF Switchover, Sides
  <2> QED
    BY <1>9, <2>2 DEF Switchover
<1> QED
  BY <1>1, <1>2, <1>3, <1>4, <1>5, <1>6, <1>7, <1>8, <1>9, StepCases DEF Router

\* All of it is inductive.
LEMMA TypedStep == Typed /\ [Next]_vars => Typed'
BY StepCases, StartTyped, QuietTyped, WritingTyped, PluginTyped, RouterTyped, RouterKnownStep
   DEF Typed

\* Whatever is installed is a package, and nothing but packages and images lies on
\* the RSPs.
THEOREM TypeCorrect == Spec => []TypeOK
<1>1. Spec => []Typed
  BY InitTyped, TypedStep, PTL DEF Spec
<1>2. Typed => TypeOK
  BY DEF Typed, Shape
<1> QED
  BY <1>1, <1>2, PTL

-----------------------------------------------------------------------------
(* The reload.                                                             *)

\* The storage ends with its job, and a copy onto a router on which nothing looks at
\* the image again leaves no part of one.
NoRemains == ~Persistent /\ \A b \in Boxes : b.kind \in {"con", "ios"} => ~b.partial

\* The plan is of this job and for this router.
OwnPlan ==
  plan # NoPlan =>
    /\ plan.pkg = job.pkg /\ plan.rsps = box.rsps
    /\ box.kind \in {"con", "sub"} /\ (plan.mode = "consolidated" <=> box.kind = "con")

\* Which routers and modes come where.
Course ==
  /\ pc \in {"space", "save"} => box.kind \in {"con", "sub"}
  /\ pc \in {"clean", "cleanstby", "copyimg", "backup", "drop", "expand", "copystby",
             "tidy", "issu"} => box.kind = "sub"
  /\ pc \in {"backup", "drop", "expand", "copystby", "noboot", "setboot"} => Mode # "issu"
  /\ pc = "copyimg" => Mode = "issu"
  /\ pc \in {"load"} \cup Installing => job.phase = "Activate"
  /\ issu # 0 => box.kind = "sub"

\* Where nothing is expanded, what was added is there, whole.
Images ==
  /\ box.kind \in {"con", "ios"} =>
       /\ \A p \in Pkgs : ~Has("act", "part", p)
       /\ \A p \in added : Has("act", "bin", p)
  /\ job.phase \in {"Activate", "Pre-Activate"} => job.pkg \in added
  /\ pc \in {"remove", "removestby"} => job.pkg \notin added

\* The active RSP is expanded before the standby, and both before the configuration.
Expanded ==
  /\ pc \in {"pre", "clean", "space", "cleanstby", "save", "load"} => at = "act"
  /\ pc \in {"backup", "drop", "expand"} /\ at = "stby" => Boots("act", "conf") = job.pkg
  /\ pc = "copystby" => at = "act" /\ Boots("act", "conf") = job.pkg
  /\ pc \in {"config", "noboot", "setboot", "write", "go"} /\ Mode = "subpackage" =>
       \A s \in RSPs : Boots(s, "conf") = job.pkg

\* The boot variable is set before it is saved, and saved before the reload.
Configured ==
  /\ pc \in {"write", "go"} /\ Mode # "issu" =>
       boot = IF Mode = "subpackage" THEN "conf" ELSE Target
  /\ pc = "go" /\ Mode # "issu" => nvram = boot

Prepared ==
  OwnPlan /\ Course /\ Images /\ Expanded /\ Configured /\ ReloadsIntoPackage

\* At first there is no job.
LEMMA InitPrepared == NoRemains /\ Init => Prepared
<1> SUFFICES ASSUME NoRemains, Init PROVE Prepared
  OBVIOUS
<1>1. box \in Box /\ pc = "idle" /\ plan = NoPlan /\ issu = 0 /\ router = "up"
      /\ job.phase = "Add" /\ added = {}
  BY XeAssumption DEF Init
<1>2. \A p \in Pkgs : ~Has("act", "part", p)
  BY DEF Init, Has, RSPs, Sides
<1> QED
  BY <1>1, <1>2 DEF Prepared, OwnPlan, Course, Images, Expanded, Configured,
                    ReloadsIntoPackage, Installing

\* What a step leaves alone.
LEMMA Frame ==
  ASSUME [Next]_vars
  PROVE  /\ box' = box
         /\ Start \/ UNCHANGED job
         /\ Start \/ PreSave \/ UNCHANGED plan
         /\ Start \/ Add \/ UNCHANGED added
         /\ Start \/ CopyToStandby \/ UNCHANGED at
         /\ Writing \/ IssuStage \/ IssuFails \/ Switchover \/ UNCHANGED files
         /\ NoBoot \/ SetBoot \/ BootsUp \/ UNCHANGED boot
         /\ WriteMemory \/ WriteFails \/ UNCHANGED nvram
         /\ IssuStart \/ Router \/ UNCHANGED issu
<1>1. CASE Start
  BY <1>1 DEF Start, files, bootvar, chassis
<1>2. CASE Quiet
  BY <1>2, QuietSteps DEF QuietGoes, operator, plugin, files, bootvar, chassis
<1>3. CASE Writing
  BY <1>3 DEF Writing, Add, AddFails, CopyFails, RemoveActive, RemoveStandby, Clean,
     CleanStandby, CleanUp, CopyImage, DropConf, Expand, ExpandFails, CopyToStandby,
     CopyToStandbyFails, Tidy, operator, plugin, bootvar, chassis
<1>4. CASE Router
  BY <1>4 DEF Router, BootsUp, NodesUp, IssuStage, IssuFails, Switchover, operator, plugin,
              files, bootvar
<1>5. CASE PreSave \/ IosNoList \/ NoBoot \/ SetBoot \/ WriteMemory \/ WriteFails
  BY <1>5 DEF PreSave, IosNoList, NoBoot, SetBoot, WriteMemory, WriteFails, operator, plugin,
              files, bootvar, chassis
<1>6. CASE Reload \/ IssuStart \/ IssuDone \/ Reconnect \/ Poll \/ Verify \/ Compare
  BY <1>6 DEF Reload, IssuStart, IssuDone, Reconnect, Poll, Verify, Compare, Raise, Only,
              operator, plugin, files, bootvar, chassis
<1> QED
  BY <1>1, <1>2, <1>3, <1>4, <1>5, <1>6, StepCases

\* Only Pre-Activate makes a plan.
LEMMA OwnPlanStep == NoRemains /\ Typed /\ Prepared /\ [Next]_vars => OwnPlan'
<1> SUFFICES ASSUME NoRemains, Typed, Prepared, [Next]_vars PROVE OwnPlan'
  OBVIOUS
<1>1. CASE Start
  BY <1>1 DEF Start, NoRemains, OwnPlan, NoPlan
<1>2. CASE PreSave
  BY <1>2, Frame DEF PreSave, BootModes, Prepared, Course, OwnPlan, operator
<1>3. CASE UNCHANGED <<box, job, plan>>
  BY <1>3 DEF Prepared, OwnPlan, NoPlan
<1> QED
  BY <1>1, <1>2, <1>3, Frame DEF PreSave, operator

\* The labels are reached on the right routers, in the right mode.
LEMMA CourseStep == Typed /\ Prepared /\ [Next]_vars => Course'
<1> SUFFICES ASSUME Typed, Prepared, [Next]_vars PROVE Course'
  OBVIOUS
<1>1. CASE Start
  BY <1>1 DEF Start, First, Goto, Course, Installing, chassis
<1>2. CASE Quiet
  <2>1. UNCHANGED <<box, job, plan, issu, Mode>> /\ QuietGoes
    BY <1>2, QuietSteps DEF QuietGoes, operator, plugin, chassis, Mode
  <2>2. pc = "load" /\ plan # NoPlan => Mode = plan.mode
    BY DEF Prepared, OwnPlan, Mode
  <2> QED
    BY <2>1, <2>2 DEF QuietGoes, Prepared, OwnPlan, Course, Installing
<1>3. CASE Writing
  <2>1. UNCHANGED <<box, job, plan, issu, Mode>>
    BY <1>3, Frame DEF Mode, Writing, Add, AddFails, CopyFails, RemoveActive, RemoveStandby,
       Clean, CleanStandby, CleanUp, CopyImage, DropConf, Expand, ExpandFails, CopyToStandby,
       CopyToStandbyFails, Tidy, operator, plugin, chassis
  <2> QED
    BY <1>3, <2>1 DEF Writing, Add, AddFails, CopyFails, RemoveActive, RemoveStandby, Clean,
       CleanStandby, CleanUp, CopyImage, DropConf, Expand, ExpandFails, CopyToStandby,
       CopyToStandbyFails, Tidy, Goto, Prepared, Course, Installing
<1>4. CASE PreSave
  BY <1>4 DEF PreSave, PluginReturns, Goto, Prepared, Course, Installing, operator, chassis
<1>5. CASE IosNoList \/ NoBoot \/ SetBoot \/ WriteMemory \/ WriteFails \/ Reload
           \/ IssuDone \/ Reconnect \/ Poll \/ Verify \/ Compare
  <2>1. UNCHANGED <<box, job, plan, issu, Mode>>
    BY <1>5 DEF IosNoList, NoBoot, SetBoot, WriteMemory, WriteFails, Reload, IssuDone,
       Reconnect, Poll, Verify, Compare, Raise, Only, operator, plugin, chassis, Mode
  <2>2. pc \in Installing
    BY <1>5 DEF IosNoList, NoBoot, SetBoot, WriteMemory, WriteFails, Reload, IssuDone,
       Reconnect, Poll, Verify, Compare, Installing
  <2>3. \/ pc' \in {"write", "go", "wait", "poll", "verify", "compare", "returned", "raised"}
        \/ pc = "noboot" /\ pc' = "setboot"
        \/ pc' = "tidy" /\ Mode = "issu" /\ box.kind # "ios"
    BY <1>5 DEF IosNoList, NoBoot, SetBoot, WriteMemory, WriteFails, Reload, IssuDone,
       Reconnect, Poll, Verify, Compare, Raise, Only, Goto
  <2>4. Mode = "issu" /\ box.kind # "ios" => box.kind = "sub"
    BY <2>2 DEF Mode, Typed, Shape, PlanKnown, Prepared, OwnPlan
  <2> QED
    BY <2>1, <2>2, <2>3, <2>4 DEF Prepared, Course, Installing
<1>6. CASE IssuStart
  <2>1. box.kind = "sub"
    BY <1>6 DEF IssuStart, Mode, Typed, Shape, PlanKnown, Prepared, OwnPlan, Installing
  <2> QED
    BY <1>6, <2>1 DEF IssuStart, Goto, operator, plugin, Mode, Prepared, Course, Installing
<1>7. CASE Router
  <2>1. UNCHANGED <<pc, box, job, plan, Mode>> /\ (issu' # 0 => issu # 0)
    BY <1>7 DEF Router, BootsUp, NodesUp, IssuStage, IssuFails, Switchover, operator, plugin,
       Mode
  <2> QED
    BY <2>1 DEF Prepared, Course
<1> QED
  BY <1>1, <1>2, <1>3, <1>4, <1>5, <1>6, <1>7, StepCases

\* No step takes an image that was added where nothing is expanded.
LEMMA ImagesStep == NoRemains /\ Typed /\ Prepared /\ [Next]_vars => Images'
<1> SUFFICES ASSUME NoRemains, Typed, Prepared, [Next]_vars PROVE Images'
  OBVIOUS
<1>1. Images /\ job \in Job /\ box \in Boxes /\ added \subseteq Pkgs
      /\ flash \in [Sides -> SUBSET File]
  BY DEF Prepared, Typed, Shape, TypeOK
<1>2. CASE Start
  BY <1>1, <1>2 DEF Start, First, Goto, Images, Has, files
<1>3. CASE Add
  <2>1. /\ UNCHANGED <<box, job>> /\ pc' = "returned" /\ added' = added \cup {job.pkg}
        /\ flash' = IF AddExists THEN flash
                    ELSE [flash EXCEPT !["act"] = @ \cup {<<"bin", job.pkg>>}]
    BY <1>3 DEF Add, Goto
  <2>2. job.pkg \in Pkgs
    BY <1>1 DEF Job
  <2>3. box.kind \in {"con", "ios"} => <<"bin", job.pkg>> \in flash'["act"]
    BY <1>1, <2>1, <2>2 DEF AddExists, Image, Images, Has, Sides
  <2>4. \A p \in Pkgs : (<<"bin", p>> \in flash["act"] => <<"bin", p>> \in flash'["act"])
                        /\ (<<"part", p>> \in flash'["act"] => <<"part", p>> \in flash["act"])
    BY <1>1, <2>1 DEF Sides
  <2> QED
    BY <1>1, <2>1, <2>3, <2>4 DEF Images, Has
<1>4. CASE AddFails
  <2>1. /\ UNCHANGED <<box, job, added>> /\ pc' = "raised" /\ ~AddExists
        /\ flash'["act"] = (flash["act"] \ Image(job.pkg))
                             \cup (IF box.partial THEN {<<"part", job.pkg>>} ELSE {})
    BY <1>1, <1>4 DEF AddFails, CopyFails, Goto, operator, Sides
  <2>2. flash["act"] \ Image(job.pkg) = flash["act"]
    BY <2>1 DEF AddExists
  <2>3. box.kind \in {"con", "ios"} => ~box.partial
    BY <1>1 DEF NoRemains
  <2> QED
    BY <1>1, <2>1, <2>2, <2>3 DEF Images, Has
<1>5. CASE RemoveActive
  <2>1. /\ UNCHANGED <<box, job, added>> /\ job.pkg \notin added
        /\ pc' \in {"removestby", "returned"}
        /\ flash'["act"] = flash["act"] \ Image(job.pkg)
    BY <1>1, <1>5 DEF RemoveActive, Drop, Goto, operator, Sides, Images
  <2>2. \A p \in added : <<"bin", p>> \notin Image(job.pkg)
    BY <2>1 DEF Image
  <2> QED
    BY <1>1, <2>1, <2>2 DEF Images, Has
<1>6. CASE ~(Start \/ Add \/ AddFails \/ RemoveActive)
  <2>1. UNCHANGED <<box, job, added>>
    BY <1>6, Frame
  <2>2. pc' \in {"remove", "removestby"} => pc \in {"remove", "removestby"}
    <3>1. CASE Quiet
      BY <3>1, QuietSteps DEF QuietGoes
    <3>2. CASE Writing
      BY <1>6, <3>2 DEF Writing, RemoveStandby, Clean, CleanStandby, CleanUp, CopyImage,
         DropConf, Expand, ExpandFails, CopyToStandby, CopyToStandbyFails, CopyFails, Tidy, Goto
    <3>3. CASE Router
      BY <3>3 DEF Router, BootsUp, NodesUp, IssuStage, IssuFails, Switchover
    <3>4. CASE ~(Quiet \/ Writing \/ Router)
      BY <1>6, <3>4, StepCases DEF PreSave, PluginReturns, IosNoList, NoBoot, SetBoot,
         WriteMemory, WriteFails, Reload, IssuStart, IssuDone, Reconnect, Poll, Verify,
         Compare, Raise, Only, Goto
    <3> QED
      BY <3>1, <3>2, <3>3, <3>4
  <2>3. box.kind \in {"con", "ios"} => flash'["act"] = flash["act"]
    <3>1. CASE UNCHANGED files
      BY <3>1 DEF files
    <3>2. CASE RemoveStandby \/ CopyToStandbyFails
      BY <1>1, <3>2 DEF RemoveStandby, CopyToStandbyFails, CopyFails, Drop, Sides
    <3>3. CASE Writing /\ ~RemoveStandby /\ ~CopyToStandbyFails
      <4>1. box.kind = "sub"
        BY <1>6, <3>3 DEF Writing, Clean, CleanStandby, CopyImage, DropConf, Expand,
           ExpandFails, CopyToStandby, Tidy, Prepared, Course
      <4> QED
        BY <4>1
    <3>4. CASE IssuStage \/ IssuFails \/ Switchover
      BY <3>4 DEF IssuStage, IssuFails, Switchover, Prepared, Course
    <3> QED
      BY <3>1, <3>2, <3>3, <3>4, Frame
  <2> QED
    BY <1>1, <2>1, <2>2, <2>3 DEF Images, Has
<1> QED
  BY <1>2, <1>3, <1>4, <1>5, <1>6

\* What is expanded stays so until the reload.
LEMMA ExpandedStep == Typed /\ Prepared /\ [Next]_vars => Expanded'
<1> SUFFICES ASSUME Typed, Prepared, [Next]_vars PROVE Expanded'
  OBVIOUS
<1>1. Expanded /\ Course /\ job \in Job /\ box \in Box /\ box.rsps \in {1, 2}
      /\ flash \in [Sides -> SUBSET File] /\ conf \in [Sides -> Pkgs \cup {None}]
  BY XeAssumption DEF Prepared, Typed, Shape, TypeOK, Box
<1>2. CASE Start
  BY <1>2 DEF Start, First, Goto, Expanded, Mode
<1>3. CASE ~(Start \/ Writing \/ IssuStage \/ IssuFails \/ Switchover)
  <2>1. UNCHANGED <<box, job, at, files>>
    BY <1>3, Frame DEF Writing
  <2>2. \A t \in Sides : Boots(t, "conf")' = Boots(t, "conf")
    BY <2>1 DEF Boots, Has, files
  <2>3. CASE PreSave
    <3>1. pc = "save" /\ pc' \in {"load", "returned"}
      BY <2>3 DEF PreSave, PluginReturns, Goto
    <3> QED
      BY <1>1, <2>1, <3>1 DEF Expanded
  <2>4. CASE ~PreSave
    <3>1. Mode' = Mode /\ RSPs' = RSPs
      BY <1>3, <2>1, <2>4, Frame DEF Mode, RSPs
    <3>2. \/ pc' = pc
          \/ pc' \notin {"pre", "clean", "space", "cleanstby", "save", "load", "backup",
                       "drop", "expand", "copystby", "config", "noboot", "setboot", "write",
                       "go"}
          \/ pc \in {"pre", "clean", "space", "cleanstby", "save", "load"}
                /\ pc' \in {"clean", "space", "cleanstby", "save", "load", "copyimg", "backup"}
          \/ pc = "load" /\ pc' = "config" /\ Mode # "subpackage"
          \/ pc = "backup" /\ pc' \in {"drop", "expand"}
          \/ pc \in {"config", "noboot", "setboot", "write"}
                /\ pc' \in {"noboot", "setboot", "write", "go"}
      <4>1. CASE Quiet
        <5>1. QuietGoes
          BY <4>1, QuietSteps
        <5>2. plan # NoPlan => Mode = plan.mode
          BY DEF Prepared, OwnPlan, Mode
        <5> QED
          BY <5>1, <5>2 DEF QuietGoes
      <4>2. CASE Router
        BY <4>2 DEF Router, BootsUp, NodesUp, IssuStage, IssuFails, Switchover
      <4>3. CASE ~(Quiet \/ Router)
        BY <1>3, <2>4, <4>3, StepCases DEF IosNoList, NoBoot, SetBoot, WriteMemory, WriteFails,
           Reload, IssuStart, IssuDone, Reconnect, Poll, Verify, Compare, Raise, Only, Goto
      <4> QED
        BY <4>1, <4>2, <4>3
    <3>3. "act" \in Sides /\ RSPs \subseteq Sides
      BY DEF Sides, RSPs
    <3>4. (pc \in {"pre", "clean", "space", "cleanstby", "save", "load"} => at = "act")'
      BY <1>1, <2>1, <3>2 DEF Expanded
    <3>5. (pc \in {"backup", "drop", "expand"} /\ at = "stby" => Boots("act", "conf") = job.pkg)'
      BY <1>1, <2>1, <2>2, <3>2, <3>3 DEF Expanded
    <3>6. (pc = "copystby" => at = "act" /\ Boots("act", "conf") = job.pkg)'
      BY <1>1, <2>1, <2>2, <3>2, <3>3 DEF Expanded
    <3>7. (pc \in {"config", "noboot", "setboot", "write", "go"} /\ Mode = "subpackage" =>
            \A s \in RSPs : Boots(s, "conf") = job.pkg)'
      BY <1>1, <2>1, <2>2, <3>1, <3>2, <3>3 DEF Expanded
    <3> QED
      BY <3>4, <3>5, <3>6, <3>7 DEF Expanded
  <2> QED
    BY <2>3, <2>4
<1>4. CASE IssuStage \/ IssuFails \/ Switchover
  <2>1. pc' = pc /\ pc \in {"issu", "wait", "poll", "verify", "tidy", "compare", "returned",
                            "raised"}
    BY <1>4 DEF IssuStage, IssuFails, Switchover, Typed, RouterKnown
  <2> QED
    BY <2>1 DEF Expanded
<1>5. CASE DropConf
  <2>1. /\ UNCHANGED <<box, job, at, flash, Mode>> /\ pc = "drop" /\ pc' = "expand"
        /\ conf' = [conf EXCEPT ![at] = None]
    BY <1>5 DEF DropConf, Goto, operator, plugin, Mode
  <2>2. at = "stby" => conf'["act"] = conf["act"]
    BY <1>1, <2>1 DEF Sides
  <2>3. at = "stby" => Boots("act", "conf")' = Boots("act", "conf")
    BY <2>1, <2>2 DEF Boots, Has
  <2> QED
    BY <1>1, <2>1, <2>3 DEF Expanded
<1>6. CASE Expand
  <2>1. /\ UNCHANGED <<box, job, at, plan, Mode>> /\ pc = "expand" /\ at \in Sides
        /\ flash' = [flash EXCEPT ![at] = @ \cup {<<"sub", Target>>}]
        /\ conf' = [conf EXCEPT ![at] = Target]
        /\ pc' = IF at = "act" /\ plan.rsps = 2 THEN "copystby" ELSE "config"
    BY <1>6 DEF Expand, Goto, operator, plugin, Mode, Typed, Shape, TypeOK
  <2>2. Target = job.pkg /\ plan.rsps = box.rsps
    BY <2>1 DEF Target, Typed, Shape, PlanKnown, Installing, Prepared, Course, OwnPlan
  <2>3. job.pkg # None
    BY <1>1, XeAssumption DEF Job
  <2>4. Boots(at, "conf")' = job.pkg
    BY <1>1, <2>1, <2>2, <2>3 DEF Boots, Has
  <2>5. at = "stby" => Boots("act", "conf")' = Boots("act", "conf")
    BY <1>1, <2>1 DEF Boots, Has, Sides
  <2> QED
    BY <1>1, <2>1, <2>2, <2>4, <2>5 DEF Expanded, RSPs, Sides
<1>7. CASE CopyToStandby
  <2>1. /\ UNCHANGED <<box, job, conf, Mode>> /\ pc = "copystby" /\ pc' = "backup"
        /\ flash'["act"] = flash["act"]
    BY <1>1, <1>7 DEF CopyToStandby, Goto, operator, Mode, Sides
  <2>2. Boots("act", "conf")' = Boots("act", "conf")
    BY <2>1 DEF Boots, Has
  <2> QED
    BY <1>1, <2>1, <2>2 DEF Expanded
<1>8. CASE Writing /\ ~(DropConf \/ Expand \/ CopyToStandby)
  <2>1. /\ UNCHANGED <<at, Mode>>
        /\ \/ pc' \notin {"pre", "clean", "space", "cleanstby", "save", "load", "backup",
                          "drop", "expand", "copystby", "config", "noboot", "setboot", "write",
                          "go"}
           \/ pc \in {"clean", "cleanstby"} /\ pc' \in {"space", "save"}
           \/ pc = "copyimg" /\ pc' = "config" 
    BY <1>8 DEF Writing, Add, AddFails, CopyFails, RemoveActive, RemoveStandby, Clean,
       CleanStandby, CleanUp, CopyImage, ExpandFails, CopyToStandbyFails, Tidy, Goto,
       operator, plugin, Mode
  <2>2. pc = "copyimg" => Mode # "subpackage"
    BY DEF Prepared, Course
  <2> QED
    BY <1>1, <2>1, <2>2 DEF Expanded
<1> QED
  BY <1>2, <1>3, <1>4, <1>5, <1>6, <1>7, <1>8

\* The boot variable on its way to the reload.
LEMMA ConfiguredStep == Typed /\ Prepared /\ [Next]_vars => Configured'
<1> SUFFICES ASSUME Typed, Prepared, [Next]_vars PROVE Configured'
  OBVIOUS
<1>1. CASE Start
  BY <1>1 DEF Start, First, Goto, Configured
<1>2. CASE SetBoot
  BY <1>2, Frame DEF SetBoot, Goto, Configured, Mode, Target, operator, plugin
<1>3. CASE WriteMemory
  BY <1>3 DEF WriteMemory, Goto, Prepared, Configured, Mode, Target, operator, plugin
<1>4. CASE WriteFails \/ NoBoot \/ PreSave
  BY <1>4 DEF WriteFails, NoBoot, PreSave, PluginReturns, Goto, Configured
<1>5. CASE BootsUp
  <2>1. pc' = pc /\ pc \in {"wait", "raised"}
    BY <1>5 DEF BootsUp, Typed, RouterKnown
  <2> QED
    BY <2>1 DEF Configured
<1>6. CASE ~(Start \/ SetBoot \/ WriteMemory \/ WriteFails \/ NoBoot \/ PreSave \/ BootsUp)
  <2>1. UNCHANGED <<box, job, plan, boot, nvram>>
    BY <1>6, Frame
  <2>2. UNCHANGED <<Mode, Target>>
    BY <2>1 DEF Mode, Target
  <2>3. \/ pc' = pc \/ pc' \notin {"write", "go"}
        \/ pc = "config" /\ pc' = "write" /\ Mode = "issu"
    <3>1. CASE Quiet
      BY <3>1, QuietSteps DEF QuietGoes
    <3>2. CASE Writing
      BY <3>2 DEF Writing, Add, AddFails, CopyFails, RemoveActive, RemoveStandby, Clean,
         CleanStandby, CleanUp, CopyImage, DropConf, Expand, ExpandFails, CopyToStandby,
         CopyToStandbyFails, Tidy, Goto
    <3>3. CASE Router
      BY <3>3 DEF Router, BootsUp, NodesUp, IssuStage, IssuFails, Switchover
    <3>4. CASE ~(Quiet \/ Writing \/ Router)
      BY <1>6, <3>4, StepCases DEF IosNoList, Reload, IssuStart, IssuDone, Reconnect, Poll,
         Verify, Compare, Raise, Only, Goto
    <3> QED
      BY <3>1, <3>2, <3>3, <3>4
  <2> QED
    BY <2>1, <2>2, <2>3 DEF Prepared, Configured
<1> QED
  BY <1>1, <1>2, <1>3, <1>4, <1>5, <1>6

\* The reload itself, and what may happen before it ends.
LEMMA ReloadStep == NoRemains /\ Typed /\ Prepared /\ [Next]_vars => ReloadsIntoPackage'
<1> SUFFICES ASSUME NoRemains, Typed, Prepared, [Next]_vars, router' = "reloading"
             PROVE  (\A s \in RSPs : Boots(s, nvram) = job.pkg)'
  BY DEF ReloadsIntoPackage
<1>1. CASE Reload
  <2>1. /\ UNCHANGED <<box, job, nvram, files>> /\ pc = "go" /\ Mode # "issu"
    BY <1>1 DEF Reload, operator, bootvar
  <2>2. \A s \in Sides : Boots(s, nvram)' = Boots(s, nvram)
    BY <2>1 DEF Boots, Has, files
  <2>3. nvram = IF Mode = "subpackage" THEN "conf" ELSE Target
    BY <2>1 DEF Prepared, Configured
  <2>4. CASE Mode = "subpackage"
    <3>1. \A s \in RSPs : Boots(s, nvram) = job.pkg
      BY <2>1, <2>3, <2>4 DEF Prepared, Expanded
    <3> QED
      BY <2>1, <2>2, <3>1 DEF RSPs, Sides
  <2>5. CASE Mode # "subpackage"
    <3>1. box.kind \in {"con", "ios"} /\ Target = job.pkg
      BY <2>1, <2>5 DEF Mode, Target, Typed, Shape, TypeOK, PlanKnown, Plans, Installing,
                        Prepared, OwnPlan
    <3>2. box.rsps = 1 /\ RSPs = {"act"}
      BY <3>1, XeAssumption DEF RSPs, Typed, Shape, TypeOK
    <3>3. job.pkg \in added /\ job.pkg \in Pkgs
      BY <2>1 DEF Prepared, Images, Course, Installing, Typed, Shape, TypeOK, Job
    <3>4. Has("act", "bin", job.pkg)
      BY <3>1, <3>3 DEF Prepared, Images
    <3>5. Boots("act", nvram) = job.pkg
      BY <2>3, <2>5, <3>1, <3>3, <3>4, XeAssumption DEF Boots
    <3> QED
      BY <2>1, <2>2, <3>2, <3>5 DEF RSPs, Sides
  <2> QED
    BY <2>4, <2>5
<1>2. CASE ~Reload
  <2>1. router = "reloading"
    BY <1>2, StepCases, QuietSteps DEF Start, QuietGoes, Writing, Add, AddFails, CopyFails,
       RemoveActive, RemoveStandby, Clean, CleanStandby, CleanUp, CopyImage, DropConf, Expand,
       ExpandFails, CopyToStandby, CopyToStandbyFails, Tidy, Router, BootsUp, NodesUp,
       IssuStage, IssuFails, Switchover, PreSave, IosNoList, NoBoot, SetBoot, WriteMemory,
       WriteFails, IssuStart, IssuDone, Reconnect, Poll, Verify, Compare, Raise, Only, chassis
  <2>2. pc \in {"wait", "raised"} /\ issu = 0
    BY <2>1 DEF Typed, RouterKnown
  <2>3. ~Start /\ ~Writing /\ ~IssuStage /\ ~IssuFails /\ ~Switchover /\ ~WriteMemory
        /\ ~WriteFails
    BY <2>1, <2>2 DEF Start, Writing, Add, AddFails, RemoveActive, RemoveStandby, Clean,
       CleanStandby, CopyImage, DropConf, Expand, ExpandFails, CopyToStandby,
       CopyToStandbyFails, Tidy, IssuStage, IssuFails, Switchover, WriteMemory, WriteFails
  <2>4. UNCHANGED <<box, job, nvram, files>>
    BY <2>3, Frame
  <2>5. \A s \in RSPs : Boots(s, nvram)' = Boots(s, nvram)
    BY <2>4 DEF Boots, Has, files
  <2> QED
    BY <2>1, <2>4, <2>5 DEF Prepared, ReloadsIntoPackage, RSPs
<1> QED
  BY <1>1, <1>2

\* Activate reloads the router only into the complete package of its own job, on
\* every RSP, when no plan is left from an earlier job and no part of an image lies
\* where nothing looks at it.
THEOREM ReloadsComplete == ASSUME NoRemains PROVE Spec => []ReloadsIntoPackage
<1>1. Typed /\ Prepared /\ [Next]_vars => Prepared'
  BY OwnPlanStep, CourseStep, ImagesStep, ExpandedStep, ConfiguredStep, ReloadStep
     DEF Prepared
<1>2. Init => Prepared
  BY InitPrepared
<1>3. Prepared => ReloadsIntoPackage
  BY DEF Prepared
<1>4. Spec => [](Typed /\ Prepared)
  BY InitTyped, <1>1, <1>2, TypedStep, PTL DEF Spec
<1> QED
  BY <1>3, <1>4, PTL

-----------------------------------------------------------------------------
(* What the router runs, and what it would boot.                           *)

\* Labels before the reload, or before the ISSU.
Before ==
  {"add", "remove", "removestby", "pre", "clean", "space", "cleanstby", "save", "load",
   "copyimg", "backup", "drop", "expand", "copystby", "config", "noboot", "setboot",
   "write", "go"}
Preparing == {"pre", "clean", "space", "cleanstby", "save"}

\* A job starts on another package than the one that runs, without a plan.
Fresh ==
  /\ pc \in Before => job.pkg # runs["act"]
  /\ pc \in {"remove", "removestby"} => nvram # job.pkg
  /\ pc \in {"add", "remove", "removestby"} => job.phase # "Activate"
  /\ pc \in Preparing => plan = NoPlan
  /\ pc = "expand" => conf[at] = None

\* When no ISSU is under way, the RSPs run the same package; what was begun to be
\* expanded or configured on one of them is not taken for what runs.
Alike ==
  /\ router = "up" /\ issu = 0 =>
       /\ \A s \in RSPs : runs[s] = runs["act"]
       /\ box.rsps = 2 /\ conf["act"] = runs["act"] => conf["stby"] = runs["act"]
  /\ via = "bin" => box.boot = "bin"
  /\ router = "reloading" => box.kind \in {"con", "ios"} \/ nvram = "conf"
  /\ box.kind = "sub" =>
       /\ via = "conf" => nvram = "conf"
       /\ nvram = "conf" \/ nvram = runs["act"]
       /\ via = "conf" /\ router = "up" /\ boot # "conf" => conf["act"] # runs["act"]

\* An ISSU is only planned where the boot variable and packages.conf are those of the
\* running package.
IssuPlanned ==
  pc \in {"load", "copyimg", "config", "write", "go"} /\ plan # NoPlan /\ plan.mode = "issu" =>
    via = "conf" /\ boot = "conf" /\ conf["act"] = runs["act"] /\ box.rsps = 2

\* The stages of an ISSU, while the old package can still be run.
IssuGoing ==
  issu # 0 =>
    /\ job.pkg # runs["act"] /\ box.rsps = 2 /\ via = "conf" /\ boot = "conf"
    /\ runs["stby"] = runs["act"] \/ (runs["stby"] = job.pkg /\ issu > 2)
    /\ \A s \in Sides : Has(s, "sub", runs["act"])
    /\ issu > 1 => conf["stby"] = job.pkg /\ Has("stby", "sub", job.pkg)
    /\ issu = 5 => conf["act"] = job.pkg /\ Has("act", "sub", job.pkg)

Grounded ==
  Typed /\ Prepared /\ Fresh /\ Alike /\ IssuPlanned /\ IssuGoing /\ RunningFilesKept

\* An ISSU that fails restores the standby.
Restoring == NoRemains /\ RollsBack

\* More of what a step leaves alone.
LEMMA ChassisFrame ==
  ASSUME [Next]_vars
  PROVE  /\ BootsUp \/ IssuStage \/ IssuFails \/ Switchover \/ UNCHANGED runs
         /\ BootsUp \/ UNCHANGED via
         /\ Reload \/ BootsUp \/ UNCHANGED router
         /\ Reload \/ NodesUp \/ Switchover \/ UNCHANGED ready
         /\ DropConf \/ Expand \/ IssuStage \/ IssuFails \/ Switchover \/ UNCHANGED conf
<1>1. CASE Start \/ Quiet
  BY <1>1, QuietSteps DEF Start, QuietGoes, files, chassis
<1>2. CASE Writing
  BY <1>2 DEF Writing, Add, AddFails, CopyFails, RemoveActive, RemoveStandby, Clean,
     CleanStandby, CleanUp, CopyImage, DropConf, Expand, ExpandFails, CopyToStandby,
     CopyToStandbyFails, Tidy, chassis
<1>3. CASE Router
  BY <1>3 DEF Router, BootsUp, NodesUp, IssuStage, IssuFails, Switchover, files
<1>4. CASE PreSave \/ IosNoList \/ NoBoot \/ SetBoot \/ WriteMemory \/ WriteFails
  BY <1>4 DEF PreSave, IosNoList, NoBoot, SetBoot, WriteMemory, WriteFails, files, chassis
<1>5. CASE Reload \/ IssuStart \/ IssuDone \/ Reconnect \/ Poll \/ Verify \/ Compare
  BY <1>5 DEF Reload, IssuStart, IssuDone, Reconnect, Poll, Verify, Compare, Raise, Only,
              files, chassis
<1> QED
  BY <1>1, <1>2, <1>3, <1>4, <1>5, StepCases

\* The order of the labels.
Follows ==
  \/ pc' \in {pc, "raised"}
  \/ pc \in {"add", "remove", "removestby", "pre", "save", "config", "verify", "compare"}
       /\ pc' = "returned"
  \/ pc = "remove" /\ pc' = "removestby"
  \/ pc \in Preparing /\ pc' \in Preparing \ {"pre"}
  \/ pc \in {"pre", "save"} /\ pc' = "load"
  \/ pc = "load" /\ pc' \in {"copyimg", "backup", "config"}
  \/ pc = "copyimg" /\ pc' = "config"
  \/ pc = "backup" /\ (pc' = "drop" \/ (pc' = "expand" /\ conf[at] = None))
  \/ pc = "drop" /\ pc' = "expand"
  \/ pc = "expand" /\ pc' \in {"copystby", "config"}
  \/ pc = "copystby" /\ pc' = "backup"
  \/ pc = "config" /\ pc' = (IF Mode = "issu" THEN "write" ELSE "noboot")
  \/ pc = "noboot" /\ pc' = "setboot"
  \/ pc = "setboot" /\ pc' = "write"
  \/ pc = "write" /\ pc' = "go"
  \/ pc = "go" /\ pc' \in {"wait", "issu"}
  \/ pc = "issu" /\ pc' = "wait"
  \/ pc = "wait" /\ pc' = "poll"
  \/ pc = "poll" /\ pc' = "verify"
  \/ pc = "verify" /\ pc' \in {"tidy", "compare"}
  \/ pc = "tidy" /\ pc' = "compare"

\* Every step but the start of a job moves along that order.
LEMMA LabelOrder == ASSUME [Next]_vars PROVE Start \/ Follows
<1> USE DEF Follows, Goto
<1>1. CASE Quiet
  BY <1>1, QuietSteps DEF QuietGoes, Preparing
<1>2. CASE Add \/ AddFails \/ RemoveActive \/ RemoveStandby
  BY <1>2 DEF Add, AddFails, CopyFails, RemoveActive, RemoveStandby
<1>3. CASE Clean \/ CleanStandby \/ CopyImage \/ DropConf
  BY <1>3 DEF Clean, CleanStandby, CleanUp, CopyImage, DropConf, Preparing
<1>4. CASE Expand \/ ExpandFails \/ CopyToStandby \/ CopyToStandbyFails \/ Tidy
  BY <1>4 DEF Expand, ExpandFails, CopyToStandby, CopyToStandbyFails, CopyFails, Tidy
<1>5. CASE Router
  BY <1>5 DEF Router, BootsUp, NodesUp, IssuStage, IssuFails, Switchover
<1>6. CASE PreSave \/ IosNoList \/ NoBoot \/ SetBoot \/ WriteMemory \/ WriteFails
  BY <1>6 DEF PreSave, PluginReturns, IosNoList, NoBoot, SetBoot, WriteMemory, WriteFails
<1>7. CASE Reload \/ IssuStart \/ IssuDone \/ Reconnect \/ Poll \/ Verify \/ Compare
  BY <1>7 DEF Reload, IssuStart, IssuDone, Reconnect, Poll, Verify, Compare, Raise, Only
<1> QED
  BY <1>1, <1>2, <1>3, <1>4, <1>5, <1>6, <1>7, StepCases DEF Writing

\* Before the reload the router is up, no ISSU is under way, and it stays so for a step.
LEMMA AtRest ==
  Typed /\ pc \in Before =>
    router = "up" /\ issu = 0 /\ ~BootsUp /\ ~IssuStage /\ ~IssuFails /\ ~Switchover
BY DEF Typed, RouterKnown, Before, BootsUp, IssuStage, IssuFails, Switchover

\* What may happen during an ISSU.
LEMMA AtIssu ==
  Typed /\ issu # 0 =>
    router = "up" /\ ~Start /\ ~BootsUp /\ ~NoBoot /\ ~SetBoot /\ ~WriteMemory /\ ~WriteFails
      /\ ~DropConf /\ ~Expand /\ ~CopyToStandby /\ ~Add /\ ~PreSave
BY DEF Typed, RouterKnown, Start, BootsUp, NoBoot, SetBoot, WriteMemory, WriteFails, DropConf,
       Expand, CopyToStandby, Add, PreSave

\* A job that goes on is still on another package.
LEMMA FreshStep == NoRemains /\ Grounded /\ [Next]_vars => Fresh'
<1> SUFFICES ASSUME NoRemains, Grounded, [Next]_vars PROVE Fresh'
  OBVIOUS
<1>1. Typed /\ Fresh
  BY DEF Grounded
<1>2. CASE Start
  BY <1>2 DEF Start, First, Goto, Fresh, NoRemains, bootvar, chassis, Before, Preparing
<1>3. CASE ~Start
  <2>1. Follows /\ job' = job /\ box' = box
    BY <1>3, LabelOrder, Frame
  <2>2. pc' \in Before => pc \in Before
    BY <2>1 DEF Follows, Before, Preparing
  <2>3. pc' \in Before => job'.pkg # runs'["act"]
    BY <1>1, <2>1, <2>2, AtRest, ChassisFrame DEF Fresh
  <2>4. pc' \in {"remove", "removestby"} => nvram' # job'.pkg
    <3>1. pc' \in {"remove", "removestby"} => pc \in {"remove", "removestby"}
      BY <2>1 DEF Follows, Preparing
    <3>2. pc \in {"remove", "removestby"} => nvram' = nvram
      BY Frame DEF WriteMemory, WriteFails
    <3> QED
      BY <1>1, <2>1, <3>1, <3>2 DEF Fresh
  <2>5. pc' \in {"add", "remove", "removestby"} => job'.phase # "Activate"
    <3>1. pc' \in {"add", "remove", "removestby"} => pc \in {"add", "remove", "removestby"}
      BY <2>1 DEF Follows, Preparing
    <3> QED
      BY <1>1, <2>1, <3>1 DEF Fresh
  <2>6. pc' \in Preparing => plan' = NoPlan
    <3>1. pc' \in Preparing => pc \in Preparing
      BY <2>1 DEF Follows, Preparing
    <3>2. PreSave => pc' \notin Preparing
      BY DEF PreSave, PluginReturns, Goto, Preparing
    <3> QED
      BY <1>1, <1>3, <3>1, <3>2, Frame DEF Fresh, NoPlan
  <2>7. pc' = "expand" => conf'[at'] = None
    <3>1. CASE DropConf
      BY <1>1, <3>1 DEF DropConf, plugin, Typed, Shape, TypeOK
    <3>2. CASE Expand \/ CopyToStandby
      BY <3>2 DEF Expand, CopyToStandby, Goto
    <3>3. CASE ~DropConf /\ ~Expand /\ ~CopyToStandby /\ pc' = "expand"
      <4>1. pc \in {"backup", "drop", "expand"}
        BY <2>1, <3>3 DEF Follows, Preparing
      <4>2. UNCHANGED <<conf, at>>
        BY <1>1, <1>3, <3>3, <4>1, AtRest, ChassisFrame, Frame DEF Before
      <4>3. pc # "drop"
        <5>1. CASE Quiet
          BY <3>3, <5>1, QuietSteps DEF QuietGoes
        <5>2. CASE ~Quiet
          BY <1>3, <3>3, <5>2, StepCases DEF Writing, Add, AddFails, RemoveActive,
             RemoveStandby, Clean, CleanStandby, CopyImage, ExpandFails, CopyToStandbyFails,
             Tidy, Router, BootsUp, NodesUp, IssuStage, IssuFails, Switchover, PreSave,
             IosNoList, NoBoot, SetBoot, WriteMemory, WriteFails, Reload, IssuStart,
             IssuDone, Reconnect, Poll, Verify, Compare
        <5> QED
          BY <5>1, <5>2
      <4>4. CASE pc = "backup"
        <5>1. conf[at] = None
          BY <2>1, <3>3, <4>4 DEF Follows, Preparing
        <5> QED
          BY <4>2, <5>1
      <4>5. CASE pc = "expand"
        BY <1>1, <4>2, <4>5 DEF Fresh
      <4> QED
        BY <4>1, <4>3, <4>4, <4>5
    <3> QED
      BY <3>1, <3>2, <3>3
  <2> QED
    BY <2>3, <2>4, <2>5, <2>6, <2>7 DEF Fresh
<1> QED
  BY <1>2, <1>3

\* Activate installs the package of its job, in a mode of its router.
LEMMA OwnTarget ==
  Typed /\ Prepared /\ pc \in Installing =>
    /\ Target = job.pkg /\ job.pkg \in Pkgs
    /\ box.kind = "sub" => Mode \in {"subpackage", "issu"}
    /\ box.kind \in {"con", "ios"} => Mode \notin {"subpackage", "issu"}
    /\ box.kind # "ios" => plan # NoPlan /\ plan.pkg = job.pkg /\ plan.rsps = box.rsps
    /\ Mode = "issu" => plan.mode = "issu" /\ box.kind = "sub"
    /\ box.kind # "other"
<1> SUFFICES ASSUME Typed, Prepared, pc \in Installing
             PROVE  /\ Target = job.pkg /\ job.pkg \in Pkgs
                    /\ box.kind = "sub" => Mode \in {"subpackage", "issu"}
                    /\ box.kind \in {"con", "ios"} => Mode \notin {"subpackage", "issu"}
                    /\ box.kind # "ios" =>
                         plan # NoPlan /\ plan.pkg = job.pkg /\ plan.rsps = box.rsps
                    /\ Mode = "issu" => plan.mode = "issu" /\ box.kind = "sub"
                    /\ box.kind # "other"
  OBVIOUS
<1>1. job.pkg \in Pkgs /\ plan \in Plans
  BY DEF Typed, Shape, TypeOK, Job
<1>2. CASE box.kind = "ios"
  BY <1>1, <1>2 DEF Target, Mode
<1>3. CASE box.kind # "ios"
  <2>1. plan # NoPlan
    BY <1>3 DEF Typed, Shape, PlanKnown
  <2>2. plan.mode \in {"consolidated", "subpackage", "issu"}
    BY <1>1, <2>1 DEF Plans
  <2> QED
    BY <1>1, <1>3, <2>1, <2>2 DEF Prepared, OwnPlan, Target, Mode
<1> QED
  BY <1>2, <1>3

\* What is begun to be expanded is not the package that runs.
LEMMA ExpandsAnother == Grounded /\ (DropConf \/ Expand) => conf'["act"] # runs["act"]
<1> SUFFICES ASSUME Grounded, DropConf \/ Expand PROVE conf'["act"] # runs["act"]
  OBVIOUS
<1>1. /\ Typed /\ Prepared /\ Fresh /\ pc \in {"drop", "expand"} /\ at \in Sides
      /\ conf \in [Sides -> Pkgs \cup {None}] /\ runs["act"] # None /\ job.pkg # "down"
  BY XeAssumption DEF Grounded, DropConf, Expand, Typed, Shape, TypeOK, Job, None, Sides
<1>2. Target = job.pkg /\ job.pkg # runs["act"]
  BY <1>1, OwnTarget DEF Installing, Fresh, Before
<1>3. at = "stby" => conf["act"] = job.pkg
  BY <1>1 DEF Prepared, Expanded, Boots
<1>4. conf' = [conf EXCEPT ![at] = None] \/ conf' = [conf EXCEPT ![at] = Target]
  BY DEF DropConf, Expand
<1> QED
  BY <1>1, <1>2, <1>3, <1>4 DEF Sides

\* Neither an ISSU nor a reload leaves the RSPs apart.
LEMMA AlikeStep == Restoring /\ Grounded /\ [Next]_vars => Alike'
<1> SUFFICES ASSUME Restoring, Grounded, [Next]_vars PROVE Alike'
  OBVIOUS
<1>1. /\ Typed /\ Prepared /\ Fresh /\ Alike /\ IssuPlanned /\ IssuGoing /\ box' = box
      /\ box \in Box /\ "act" \in RSPs /\ RSPs \subseteq Sides /\ RSPs' = RSPs
      /\ conf \in [Sides -> Pkgs \cup {None}] /\ runs \in [Sides -> Pkgs \cup {"down"}]
  BY Frame, XeAssumption DEF Grounded, RSPs, Sides, Typed, Shape, TypeOK
<1>2. CASE BootsUp
  <2>1. /\ router = "reloading" /\ router' # "reloading" /\ UNCHANGED <<nvram, files>>
        /\ runs' = [s \in Sides |-> IF s \in RSPs THEN Boots(s, nvram) ELSE "down"]
        /\ via' = (IF nvram = "conf" THEN "conf" ELSE "bin") /\ boot' = nvram
    BY <1>2 DEF BootsUp
  <2>2. \A s \in RSPs : Boots(s, nvram) = job.pkg /\ runs'[s] = job.pkg
    BY <1>1, <2>1 DEF Prepared, ReloadsIntoPackage
  <2>3. box.kind \notin {"con", "ios"} => nvram = "conf"
    BY <1>1, <2>1 DEF Alike
  <2>4. box.kind \in {"con", "ios"} => box.rsps = 1 /\ box.boot = "bin"
    BY XeAssumption DEF Typed, Shape, TypeOK, Grounded
  <2>5. box.rsps = 2 => conf["stby"] = job.pkg
    <3>1. SUFFICES ASSUME box.rsps = 2 PROVE conf["stby"] = job.pkg
      OBVIOUS
    <3>2. Boots("stby", "conf") = job.pkg
      BY <2>2, <2>3, <2>4, <3>1 DEF RSPs, Sides
    <3>3. job.pkg # "down"
      BY <1>1, XeAssumption DEF Typed, Shape, TypeOK, Job
    <3> QED
      BY <3>2, <3>3 DEF Boots
  <2>6. runs'["act"] = job.pkg
    BY <1>1, <2>2
  <2> QED
    BY <1>1, <2>1, <2>2, <2>3, <2>4, <2>5, <2>6 DEF Alike, files
<1>3. CASE IssuStage
  <2>1. /\ issu # 0 /\ issu' # 0 /\ UNCHANGED <<boot, nvram, via, router>>
        /\ runs'["act"] = runs["act"]
    BY <1>1, <1>3 DEF IssuStage, bootvar, Sides
  <2> QED
    BY <1>1, <2>1 DEF Alike, IssuGoing
<1>4. CASE IssuFails
  <2>1. /\ issu # 0 /\ UNCHANGED <<boot, nvram, via, router>>
        /\ conf' = [conf EXCEPT !["stby"] = runs["act"]]
        /\ runs' = [runs EXCEPT !["stby"] = runs["act"]]
    BY <1>4 DEF IssuFails, bootvar, Restoring
  <2>2. runs'["act"] = runs["act"] /\ runs'["stby"] = runs["act"] /\ conf'["stby"] = runs["act"]
    BY <1>1, <2>1 DEF Sides
  <2> QED
    BY <1>1, <2>1, <2>2 DEF Alike, IssuGoing, Sides
<1>5. CASE Switchover
  <2>1. /\ issu = 5 /\ UNCHANGED <<boot, nvram, via, router>>
        /\ conf' = Swap(conf) /\ runs' = [s \in Sides |-> plan.pkg]
    BY <1>5 DEF Switchover, bootvar
  <2>2. plan.pkg = job.pkg /\ conf["stby"] = job.pkg /\ conf["act"] = job.pkg
        /\ boot = "conf" /\ via = "conf"
    BY <1>1, <2>1 DEF IssuGoing, Typed, Shape, PlanKnown, Prepared, OwnPlan
  <2>3. conf'["act"] = job.pkg /\ conf'["stby"] = job.pkg
        /\ \A s \in Sides : runs'[s] = job.pkg
    BY <2>1, <2>2 DEF Swap
  <2> QED
    BY <1>1, <2>1, <2>2, <2>3 DEF Alike, Sides
<1>6. CASE Reload
  <2>1. /\ router' \in {"reloading", router} /\ UNCHANGED <<boot, nvram, via, runs, conf, issu>>
        /\ pc = "go" /\ Mode # "issu"
    BY <1>6 DEF Reload, bootvar, files
  <2>2. box.kind \in {"con", "ios"} \/ nvram = "conf"
    BY <1>1, <2>1, OwnTarget DEF Prepared, Configured, Installing, Box
  <2> QED
    BY <1>1, <2>1, <2>2 DEF Alike
<1>7. CASE DropConf \/ Expand
  <2>1. UNCHANGED <<boot, nvram, via, runs, router, issu>>
    BY <1>7 DEF DropConf, Expand, bootvar, chassis
  <2>2. conf'["act"] # runs["act"]
    BY <1>7, ExpandsAnother
  <2> QED
    BY <1>1, <2>1, <2>2 DEF Alike
<1>8. CASE NoBoot \/ SetBoot
  <2>1. UNCHANGED <<nvram, via, runs, router, issu, conf>> /\ pc \in {"noboot", "setboot"}
    BY <1>8 DEF NoBoot, SetBoot, files, chassis
  <2>2. box.kind = "sub" => conf["act"] # runs["act"]
    <3>1. SUFFICES ASSUME box.kind = "sub" PROVE conf["act"] # runs["act"]
      OBVIOUS
    <3>2. Mode = "subpackage" /\ job.pkg \in Pkgs /\ job.pkg # runs["act"]
      BY <1>1, <2>1, <3>1, OwnTarget DEF Installing, Prepared, Course, Fresh, Before
    <3>3. Boots("act", "conf") = job.pkg
      BY <1>1, <2>1, <3>2 DEF Prepared, Expanded
    <3> QED
      BY <3>2, <3>3, XeAssumption DEF Boots
  <2> QED
    BY <1>1, <2>1, <2>2 DEF Alike
<1>9. CASE WriteMemory \/ WriteFails
  <2>1. /\ UNCHANGED <<boot, via, runs, router, issu, conf>> /\ pc = "write"
        /\ nvram' = boot
    BY <1>9 DEF WriteMemory, WriteFails, files, chassis
  <2>2. router = "up"
    BY <1>1, <2>1, AtRest DEF Before
  <2>3. box.kind = "sub" => boot = "conf"
    BY <1>1, <2>1, OwnTarget DEF Installing, Prepared, Configured, IssuPlanned
  <2> QED
    BY <1>1, <2>1, <2>2, <2>3 DEF Alike
<1>10. CASE ~(BootsUp \/ IssuStage \/ IssuFails \/ Switchover \/ Reload \/ DropConf \/ Expand
                \/ NoBoot \/ SetBoot \/ WriteMemory \/ WriteFails)
  <2>1. UNCHANGED <<boot, nvram, via, runs, router, conf>>
    BY <1>10, Frame, ChassisFrame
  <2>2. issu' = 0 => issu = 0
    <3>1. IssuStart => issu' = 1
      BY DEF IssuStart
    <3>2. NodesUp => issu' = issu
      BY DEF NodesUp
    <3> QED
      BY <1>10, <3>1, <3>2, Frame DEF Router
  <2> QED
    BY <1>1, <2>1, <2>2 DEF Alike
<1> QED
  BY <1>2, <1>3, <1>4, <1>5, <1>6, <1>7, <1>8, <1>9, <1>10

\* An ISSU is planned on what runs from packages.conf.
LEMMA IssuPlannedStep == Restoring /\ Grounded /\ [Next]_vars => IssuPlanned'
<1> SUFFICES ASSUME Restoring, Grounded, [Next]_vars PROVE IssuPlanned'
  OBVIOUS
<1> DEFINE Planned == {"load", "copyimg", "config", "write", "go"}
<1>1. Typed /\ Prepared /\ Fresh /\ Alike /\ IssuPlanned
  BY DEF Grounded
<1>2. CASE Start
  BY <1>2 DEF Start, Restoring, NoRemains, IssuPlanned
<1>3. CASE PreSave
  <2>1. /\ pc = "save" /\ UNCHANGED <<box, via, boot, conf, runs>>
        /\ \E m \in BootModes : plan' = [mode |-> m, pkg |-> job.pkg, rsps |-> box.rsps]
    BY <1>3 DEF PreSave, operator, files, bootvar, chassis
  <2>2. box.kind \in {"con", "sub"} /\ router = "up"
    BY <1>1, <2>1, AtRest DEF Prepared, Course, Before
  <2>3. plan'.mode = "issu" =>
          box.kind = "sub" /\ box.rsps = 2 /\ conf["act"] = runs["act"] /\ via = "conf"
    BY <2>1, <2>2 DEF BootModes, PkgConfValid, IssuReady
  <2> QED
    BY <1>1, <2>1, <2>2, <2>3 DEF Alike, IssuPlanned
<1>4. CASE ~Start /\ ~PreSave
  <2>1. SUFFICES ASSUME pc' \in Planned, plan # NoPlan, plan.mode = "issu"
                 PROVE  (via = "conf" /\ boot = "conf" /\ conf["act"] = runs["act"]
                          /\ box.rsps = 2)'
    BY <1>4, Frame DEF IssuPlanned, NoPlan
  <2>2. pc \in Planned \cup {"pre", "save", "expand", "setboot"}
    BY <1>4, <2>1, LabelOrder DEF Follows, Preparing
  <2>3. pc \notin {"pre", "save"}
    BY <1>1, <2>1 DEF Fresh, Preparing
  <2>4. pc \notin {"expand", "setboot"}
    BY <1>1, <2>1 DEF Prepared, OwnPlan, Course, Mode
  <2>5. pc \in Planned /\ ~DropConf /\ ~Expand /\ ~NoBoot /\ ~SetBoot
    BY <2>2, <2>3, <2>4 DEF DropConf, Expand, NoBoot, SetBoot
  <2>6. UNCHANGED <<via, boot, conf, runs, box>>
    BY <1>1, <2>5, AtRest, Frame, ChassisFrame DEF Before
  <2> QED
    BY <1>1, <2>1, <2>5, <2>6 DEF IssuPlanned
<1> QED
  BY <1>2, <1>3, <1>4

\* An ISSU goes on from stage to stage on the RSPs that it began on.
LEMMA IssuGoingStep == Restoring /\ Grounded /\ [Next]_vars => IssuGoing'
<1> SUFFICES ASSUME Restoring, Grounded, [Next]_vars PROVE IssuGoing'
  OBVIOUS
<1>1. /\ Typed /\ Prepared /\ Fresh /\ Alike /\ IssuPlanned /\ IssuGoing /\ RunningFilesKept
      /\ conf \in [Sides -> Pkgs \cup {None}] /\ runs \in [Sides -> Pkgs \cup {"down"}]
      /\ flash \in [Sides -> SUBSET File] /\ box' = box
  BY Frame DEF Grounded, Typed, Shape, TypeOK
<1>2. CASE Start \/ IssuFails \/ Switchover \/ BootsUp
  BY <1>1, <1>2 DEF Start, IssuFails, Switchover, BootsUp, IssuGoing, Typed, RouterKnown, chassis
<1>3. CASE IssuStart
  <2>1. /\ pc = "go" /\ Mode = "issu" /\ via = "conf" /\ issu' = 1
        /\ UNCHANGED <<job, flash, conf, boot, runs, via>>
    BY <1>3 DEF IssuStart, operator, files, bootvar
  <2>2. box.rsps = 2 /\ boot = "conf" /\ router = "up" /\ issu = 0 /\ runs["act"] # "down"
    BY <1>1, <2>1, OwnTarget, AtRest
       DEF Installing, IssuPlanned, Before, Typed, RouterKnown, Shape, PlanKnown
  <2>3. \A s \in Sides : runs[s] = runs["act"] /\ Has(s, "sub", runs["act"])
    BY <1>1, <2>1, <2>2 DEF Alike, RunningFilesKept, RSPs, Sides
  <2> QED
    BY <1>1, <2>1, <2>2, <2>3 DEF IssuGoing, Has, Fresh, Before, Sides
<1>4. CASE IssuStage
  <2>1. /\ issu \in 1 .. 4 /\ issu' = issu + 1 /\ UNCHANGED <<job, boot, via>>
        /\ plan.pkg = job.pkg
    BY <1>1, <1>4 DEF IssuStage, operator, bootvar, Typed, Shape, PlanKnown, Prepared, OwnPlan
  <2>2. /\ issu = 1 => /\ flash' = [flash EXCEPT !["stby"] = @ \cup {<<"sub", job.pkg>>}]
                       /\ conf' = [conf EXCEPT !["stby"] = job.pkg]
        /\ issu = 4 => /\ flash' = [flash EXCEPT !["act"] = @ \cup {<<"sub", job.pkg>>}]
                       /\ conf' = [conf EXCEPT !["act"] = job.pkg]
        /\ issu \in {2, 3} => UNCHANGED <<flash, conf>>
        /\ runs' = IF issu = 2 THEN [runs EXCEPT !["stby"] = job.pkg] ELSE runs
    BY <1>4, <2>1 DEF IssuStage, Install, files
  <2>3. runs'["act"] = runs["act"]
    BY <1>1, <2>2 DEF Sides
  <2>4. (\A s \in Sides : Has(s, "sub", runs["act"]))'
    BY <1>1, <2>1, <2>2, <2>3 DEF IssuGoing, Has, Sides
  <2>5. runs'["stby"] = runs["act"] \/ (runs'["stby"] = job.pkg /\ issu' > 2)
    BY <1>1, <2>1, <2>2 DEF IssuGoing, Sides
  <2>6. (conf["stby"] = job.pkg /\ Has("stby", "sub", job.pkg))'
    BY <1>1, <2>1, <2>2 DEF IssuGoing, Has, Sides
  <2>7. issu' = 5 => (conf["act"] = job.pkg /\ Has("act", "sub", job.pkg))'
    BY <1>1, <2>1, <2>2 DEF Has, Sides
  <2> QED
    BY <1>1, <2>1, <2>3, <2>4, <2>5, <2>6, <2>7 DEF IssuGoing
<1>5. CASE ~(Start \/ IssuFails \/ Switchover \/ BootsUp \/ IssuStart \/ IssuStage)
  <2>1. SUFFICES ASSUME issu # 0, issu' = issu PROVE IssuGoing'
    BY <1>5, Frame DEF IssuGoing, Router, NodesUp, chassis
  <2>2. UNCHANGED <<job, boot, via, runs, conf>>
    BY <1>1, <1>5, <2>1, AtIssu, Frame, ChassisFrame
  <2>3. UNCHANGED files \/ Tidy
    BY <1>1, <1>5, <2>1, Frame DEF Typed, RouterKnown, Writing, Add, AddFails, RemoveActive,
       RemoveStandby, Clean, CleanStandby, CopyImage, DropConf, Expand, ExpandFails,
       CopyToStandby, CopyToStandbyFails
  <2>4. \A s \in Sides, p \in Pkgs \cup {"down"} : Has(s, "sub", p) => Has(s, "sub", p)'
    BY <1>1, <2>3 DEF files, Tidy, Image, Has
  <2>5. job.pkg \in Pkgs /\ runs["act"] \in Pkgs \cup {"down"}
    BY <1>1 DEF Typed, Shape, TypeOK, Job, Sides
  <2> QED
    BY <1>1, <2>1, <2>2, <2>4, <2>5 DEF IssuGoing, Has, Sides
<1> QED
  BY <1>2, <1>3, <1>4, <1>5

\* The kind of file an RSP runs from.
RunKind == IF via = "conf" THEN "sub" ELSE "bin"

\* What is written by a job spares the files that the RSPs run from.
LEMMA SparesRunning ==
  Grounded /\ Writing =>
    \A s \in RSPs : runs[s] # "down" => <<RunKind, runs[s]>> \in flash'[s]
<1> SUFFICES ASSUME Grounded, Writing, NEW s \in RSPs, runs[s] # "down"
             PROVE  <<RunKind, runs[s]>> \in flash'[s]
  OBVIOUS
<1> DEFINE f == <<RunKind, runs[s]>>
<1>1. /\ Typed /\ Prepared /\ Fresh /\ Alike /\ RunningFilesKept
      /\ box \in Boxes /\ s \in Sides /\ flash \in [Sides -> SUBSET File]
      /\ job.pkg \in Pkgs
  BY DEF Grounded, Typed, Shape, TypeOK, RSPs, Sides, Job
<1>2. router = "up"
  BY <1>1 DEF Writing, Add, AddFails, RemoveActive, RemoveStandby, Clean, CleanStandby,
     CopyImage, DropConf, Expand, ExpandFails, CopyToStandby, CopyToStandbyFails, Tidy, Typed,
     RouterKnown
<1>3. f \in flash[s]
  BY <1>1, <1>2 DEF RunningFilesKept, RunKind, Has
<1>4. RunKind = "bin" => box.folder = "image"
  BY <1>1, XeAssumption DEF RunKind, Alike, Typed, Shape, TypeOK
<1>5. CASE Tidy
  <2>1. f \notin {<<"img", Target>>} /\ (box.folder = "root" => f \notin Image(Target))
    BY <1>4 DEF RunKind, Image
  <2> QED
    BY <1>1, <1>3, <1>5, <2>1 DEF Tidy
<1>6. CASE ~Tidy
  <2>1. pc \in Before
    BY <1>6 DEF Writing, Add, AddFails, RemoveActive, RemoveStandby, Clean, CleanStandby,
       CopyImage, DropConf, Expand, ExpandFails, CopyToStandby, CopyToStandbyFails, Before
  <2>2. runs[s] = runs["act"] /\ runs[s] # job.pkg
    BY <1>1, <2>1, AtRest DEF Alike, Fresh
  <2>3. f \notin Image(job.pkg) /\ f # <<"sub", job.pkg>>
    BY <2>2 DEF Image
  <2>4. pc \in Installing => Target = job.pkg
    BY <1>1, OwnTarget
  <2>5. CASE Add
    BY <1>1, <1>3, <2>5 DEF Add
  <2>6. CASE AddFails
    BY <1>1, <1>3, <2>3, <2>6 DEF AddFails, CopyFails
  <2>7. CASE RemoveActive \/ RemoveStandby
    BY <1>1, <1>3, <2>3, <2>7 DEF RemoveActive, RemoveStandby, Drop
  <2>8. CASE Clean \/ CleanStandby
    <3>1. \A t \in Sides : f \notin Residual(t)
      BY <1>4, <2>2 DEF Residual, RunKind
    <3> QED
      BY <1>1, <1>3, <2>8, <3>1 DEF Clean, CleanStandby, CleanUp, Drop
  <2>9. CASE CopyImage \/ DropConf \/ Expand
    BY <1>1, <1>3, <2>9 DEF CopyImage, DropConf, Expand
  <2>10. CASE ExpandFails
    BY <1>1, <1>3, <2>3, <2>4, <2>10 DEF ExpandFails, Drop, Installing
  <2>11. CASE CopyToStandby \/ CopyToStandbyFails
    BY <1>1, <1>3, <2>3, <2>4, <2>11 DEF CopyToStandby, CopyToStandbyFails, CopyFails, Installing
  <2> QED
    BY <1>6, <2>5, <2>6, <2>7, <2>8, <2>9, <2>10, <2>11 DEF Writing
<1> QED
  BY <1>5, <1>6

\* What an RSP can be booted into lies there.
LEMMA BootsFromFile ==
  ASSUME NEW s \in Sides, NEW b, Boots(s, b) # "down"
  PROVE  Has(s, IF b = "conf" THEN "sub" ELSE "bin", Boots(s, b))
BY DEF Boots

\* The files that run are kept by every step.
LEMMA FilesKeptStep == Restoring /\ Grounded /\ [Next]_vars => RunningFilesKept'
<1> SUFFICES ASSUME Restoring, Grounded, [Next]_vars, router' = "up",
                    NEW s \in RSPs', runs'[s] # "down"
             PROVE  <<RunKind', runs'[s]>> \in flash'[s]
  BY DEF RunningFilesKept, Has, RunKind
<1>1. /\ Typed /\ Prepared /\ Alike /\ IssuGoing /\ RunningFilesKept
      /\ runs \in [Sides -> Pkgs \cup {"down"}] /\ flash \in [Sides -> SUBSET File]
      /\ s \in RSPs /\ s \in Sides
  BY Frame DEF Grounded, Typed, Shape, TypeOK, RSPs, Sides
<1>2. CASE BootsUp
  <2>1. /\ runs'[s] = Boots(s, nvram) /\ UNCHANGED files
        /\ via' = IF nvram = "conf" THEN "conf" ELSE "bin"
    BY <1>1, <1>2 DEF BootsUp
  <2> QED
    BY <1>1, <2>1, BootsFromFile DEF Has, RunKind, files
<1>3. CASE IssuStage \/ IssuFails \/ Switchover
  <2>1. issu # 0 /\ router = "up" /\ via = "conf" /\ via' = "conf"
        /\ \A t \in Sides : <<"sub", runs["act"]>> \in flash[t]
    BY <1>1, <1>3 DEF IssuStage, IssuFails, Switchover, IssuGoing, Has, Typed, RouterKnown
  <2>2. plan.pkg = job.pkg
    BY <1>1, <2>1 DEF Typed, Shape, PlanKnown, Prepared, OwnPlan
  <2>3. runs[s] # "down" => <<"sub", runs[s]>> \in flash[s]
    BY <1>1, <2>1 DEF RunningFilesKept, Has
  <2>4. CASE IssuStage
    <3>1. \A t \in Sides : flash[t] \subseteq flash'[t]
      BY <1>1, <2>4 DEF IssuStage, Install, files, Sides
    <3>2. runs'[s] = runs[s] \/ (issu = 2 /\ s = "stby" /\ runs'[s] = job.pkg)
      BY <1>1, <2>2, <2>4 DEF IssuStage
    <3>3. issu = 2 => <<"sub", job.pkg>> \in flash["stby"]
      BY <1>1 DEF IssuGoing, Has
    <3> QED
      BY <1>1, <2>1, <2>3, <3>1, <3>2, <3>3 DEF RunKind, Sides
  <2>5. CASE IssuFails
    <3>1. runs'[s] \in {runs[s], runs["act"]} /\ flash' = flash
      BY <1>1, <2>5 DEF IssuFails, Restoring, Sides
    <3> QED
      BY <1>1, <2>1, <2>3, <3>1 DEF RunKind
  <2>6. CASE Switchover
    <3>1. runs'[s] = job.pkg /\ flash' = Swap(flash) /\ issu = 5
      BY <1>1, <2>2, <2>6 DEF Switchover
    <3>2. \A t \in Sides : <<"sub", job.pkg>> \in flash[t]
      BY <1>1, <3>1 DEF IssuGoing, Has, Sides
    <3> QED
      BY <1>1, <2>1, <3>1, <3>2 DEF RunKind, Swap, Sides
  <2> QED
    BY <1>3, <2>4, <2>5, <2>6
<1>4. CASE ~(BootsUp \/ IssuStage \/ IssuFails \/ Switchover)
  <2>1. UNCHANGED <<runs, via>> /\ router = "up" /\ RunKind' = RunKind
    BY <1>4, ChassisFrame DEF Reload, RunKind
  <2>2. CASE Writing
    BY <1>1, <2>1, <2>2, SparesRunning
  <2>3. CASE UNCHANGED files
    BY <1>1, <2>1, <2>3 DEF files, RunningFilesKept, RunKind, Has
  <2> QED
    BY <1>4, <2>2, <2>3, Frame
<1> QED
  BY <1>2, <1>3, <1>4

\* At first the router runs what it would boot.
LEMMA InitGrounded == Restoring /\ Init => Grounded
<1> SUFFICES ASSUME Restoring, Init PROVE Grounded
  OBVIOUS
<1>1. Typed /\ Prepared /\ box \in Box /\ Old \in Pkgs
  BY InitTyped, InitPrepared, XeAssumption DEF Restoring, Init
<1>2. /\ pc = "idle" /\ issu = 0 /\ router = "up" /\ via = box.boot
      /\ plan = NoPlan /\ RSPs \subseteq Sides /\ "act" \in RSPs
      /\ \A s \in RSPs : runs[s] = Old /\ (box.boot = "conf" => conf[s] = Old)
      /\ boot = (IF box.boot = "conf" THEN "conf" ELSE Old) /\ nvram = boot
  BY DEF Init, RSPs, Sides
<1>3. box.rsps = 2 /\ conf["act"] = runs["act"] => conf["stby"] = runs["act"]
  BY <1>2, XeAssumption DEF Init, RSPs, Sides
<1>4. RunningFilesKept
  BY <1>1, <1>2 DEF Init, RunningFilesKept, Has, Box
<1> QED
  BY <1>1, <1>2, <1>3, <1>4
     DEF Grounded, Fresh, Alike, IssuPlanned, IssuGoing, Before, Preparing, Box

\* All of it is inductive.
LEMMA GroundedStep == Restoring /\ Grounded /\ [Next]_vars => Grounded'
<1> SUFFICES ASSUME Restoring, Grounded, [Next]_vars PROVE Grounded'
  OBVIOUS
<1>1. Typed' /\ Prepared'
  BY TypedStep, OwnPlanStep, CourseStep, ImagesStep, ExpandedStep, ConfiguredStep, ReloadStep
     DEF Grounded, Prepared, Restoring
<1> QED
  BY <1>1, FreshStep, AlikeStep, IssuPlannedStep, IssuGoingStep, FilesKeptStep
     DEF Grounded, Restoring

\* No clean-up, removal, expansion or ISSU takes the files that an RSP runs from: a job
\* never starts on the package that runs, the images in bootflash: are only cleaned up
\* where packages.conf boots the router, and an ISSU that fails restores the standby.
THEOREM FilesKept == ASSUME Restoring PROVE Spec => []RunningFilesKept
<1>1. Grounded => RunningFilesKept
  BY DEF Grounded
<1> QED
  BY <1>1, InitGrounded, GroundedStep, PTL DEF Spec

\* An RSP still boots as before while what it boots from stays.
LEMMA StillBoots ==
  ASSUME NEW s \in Sides, nvram' = nvram, conf'[s] = conf[s] \/ nvram # "conf",
         nvram = "conf" => (<<"sub", conf[s]>> \in flash[s] => <<"sub", conf[s]>> \in flash'[s]),
         nvram # "conf" => (<<"bin", nvram>> \in flash[s] => <<"bin", nvram>> \in flash'[s]),
         Boots(s, nvram) # "down"
  PROVE  Boots(s, nvram)' # "down"
<1>1. CASE nvram = "conf"
  <2>1. conf[s] # None /\ <<"sub", conf[s]>> \in flash[s] /\ conf[s] # "down"
    BY <1>1 DEF Boots, Has
  <2> QED
    BY <1>1, <2>1 DEF Boots, Has
<1>2. CASE nvram # "conf"
  <2>1. nvram # None /\ <<"bin", nvram>> \in flash[s] /\ nvram # "down"
    BY <1>2 DEF Boots, Has
  <2> QED
    BY <1>2, <2>1 DEF Boots, Has
<1> QED
  BY <1>1, <1>2

\* What is written spares what an RSP boots from, but for packages.conf.
LEMMA SparesBoot ==
  Grounded /\ Writing =>
    \A s \in RSPs : Boots(s, nvram) # "down" /\ ~(pc = "drop" /\ at = s) =>
      Boots(s, nvram)' # "down"
<1> SUFFICES ASSUME Grounded, Writing, NEW s \in RSPs, Boots(s, nvram) # "down",
                    ~(pc = "drop" /\ at = s)
             PROVE  Boots(s, nvram)' # "down"
  OBVIOUS
<1> DEFINE f == IF nvram = "conf" THEN <<"sub", conf[s]>> ELSE <<"bin", nvram>>
<1>1. /\ Typed /\ Prepared /\ Fresh /\ Alike
      /\ box \in Boxes /\ s \in Sides /\ flash \in [Sides -> SUBSET File]
      /\ conf \in [Sides -> Pkgs \cup {None}] /\ at \in Sides
      /\ job.pkg \in Pkgs /\ via \in {"bin", "conf"}
  BY DEF Grounded, Typed, Shape, TypeOK, RSPs, Sides, Job
<1>2. nvram' = nvram /\ f \in flash[s] /\ (nvram = "conf" => conf[s] # None)
  <2>1. nvram' = nvram
    BY DEF Writing, Add, AddFails, CopyFails, RemoveActive, RemoveStandby, Clean, CleanStandby,
       CleanUp, CopyImage, DropConf, Expand, ExpandFails, CopyToStandby, CopyToStandbyFails,
       Tidy, bootvar
  <2> QED
    BY <2>1 DEF Boots, Has
<1>3. SUFFICES ASSUME ~Expand PROVE f \in flash'[s] /\ (nvram = "conf" => conf'[s] = conf[s])
  <2>1. CASE ~Expand
    BY <1>1, <1>2, <1>3, <2>1, StillBoots
  <2>2. CASE Expand
    <3>1. /\ flash' = [flash EXCEPT ![at] = @ \cup {<<"sub", Target>>}]
          /\ conf' = [conf EXCEPT ![at] = Target] /\ Target \in Pkgs
      BY <1>1, <2>2, OwnTarget DEF Expand, Installing
    <3>2. CASE nvram = "conf" /\ s = at
      BY <1>1, <1>2, <3>1, <3>2, XeAssumption DEF Boots, Has
    <3>3. CASE ~(nvram = "conf" /\ s = at)
      BY <1>1, <1>2, <3>1, <3>3, StillBoots
    <3> QED
      BY <3>2, <3>3
  <2> QED
    BY <2>1, <2>2
<1>4. nvram = "conf" => conf'[s] = conf[s]
  BY <1>1, <1>3 DEF Writing, Add, AddFails, CopyFails, RemoveActive, RemoveStandby, Clean,
     CleanStandby, CleanUp, CopyImage, DropConf, ExpandFails, CopyToStandby,
     CopyToStandbyFails, Tidy
<1>5. box.kind = "sub" /\ nvram # "conf" => box.folder = "image" /\ nvram = runs["act"]
  BY <1>1, XeAssumption DEF Alike
<1>6. pc \in Before /\ pc \in Installing => Target = job.pkg /\ job.pkg # runs["act"]
  BY <1>1, OwnTarget DEF Fresh
<1>7. f \in flash'[s]
  <2> USE DEF Installing, Before
  <2>1. CASE Add \/ CopyImage \/ DropConf
    BY <1>1, <1>2, <2>1 DEF Add, CopyImage, DropConf
  <2>2. CASE AddFails
    BY <1>1, <1>2, <2>2 DEF AddFails, AddExists, CopyFails, RSPs, Sides
  <2>3. CASE RemoveActive \/ RemoveStandby
    <3>1. f \notin Image(job.pkg)
      BY <1>1, <2>3 DEF RemoveActive, RemoveStandby, Fresh, Image
    <3> QED
      BY <1>1, <1>2, <2>3, <3>1 DEF RemoveActive, RemoveStandby, Drop
  <2>4. CASE Clean \/ CleanStandby
    <3>1. box.kind = "sub" /\ router = "up" /\ issu = 0
      BY <1>1, <2>4, AtRest DEF Clean, CleanStandby, Prepared, Course
    <3>2. PkgConfValid => conf[s] = runs["act"]
      BY <1>1, <3>1 DEF PkgConfValid, Alike, RSPs, Sides
    <3>3. PkgConfValid => f \notin Residual(s)
      BY <1>5, <3>1, <3>2 DEF Residual
    <3>4. flash'[s] = flash[s] \/ (PkgConfValid /\ flash'[s] = flash[s] \ Residual(s))
      BY <1>1, <2>4 DEF Clean, CleanStandby, CleanUp, Drop
    <3> QED
      BY <1>2, <3>3, <3>4
  <2>5. CASE ExpandFails
    <3>1. nvram = "conf" => s # at
      BY <1>1, <1>2, <2>5 DEF ExpandFails, Fresh
    <3> QED
      BY <1>1, <1>2, <2>5, <3>1 DEF ExpandFails, Drop
  <2>6. CASE CopyToStandby
    BY <1>1, <1>2, <2>6 DEF CopyToStandby, Image
  <2>7. CASE CopyToStandbyFails
    <3>1. f \notin Image(Target)
      BY <1>1, <1>5, <1>6, <2>7 DEF CopyToStandbyFails, Prepared, Course, Image
    <3> QED
      BY <1>1, <1>2, <2>7, <3>1 DEF CopyToStandbyFails, CopyFails
  <2>8. CASE Tidy
    <3>1. f # <<"img", Target>> /\ (box.folder = "root" => f \notin Image(Target))
      BY <1>1, <1>5, <2>8 DEF Tidy, Prepared, Course, Image
    <3> QED
      BY <1>1, <1>2, <2>8, <3>1 DEF Tidy
  <2> QED
    BY <1>3, <2>1, <2>2, <2>3, <2>4, <2>5, <2>6, <2>7, <2>8 DEF Writing
<1> QED
  BY <1>4, <1>7

\* The boot variable that is saved can be booted.
LEMMA SavesBootable ==
  Grounded /\ (WriteMemory \/ WriteFails) =>
    \A s \in RSPs : Boots(s, nvram) # "down" => Boots(s, nvram)' # "down"
<1> SUFFICES ASSUME Grounded, WriteMemory \/ WriteFails, NEW s \in RSPs,
                    Boots(s, nvram) # "down"
             PROVE  Boots(s, nvram)' # "down"
  OBVIOUS
<1>1. /\ Typed /\ Prepared /\ Fresh /\ Alike /\ IssuPlanned /\ job.pkg # "down"
      /\ job.pkg \in Pkgs /\ box \in Boxes /\ s \in Sides
  BY XeAssumption DEF Grounded, Typed, Shape, TypeOK, RSPs, Sides, Job
<1>2. /\ pc = "write" /\ nvram' = boot /\ UNCHANGED files
  BY DEF WriteMemory, WriteFails
<1>3. Boots(s, nvram)' = Boots(s, boot)
  BY <1>2 DEF Boots, Has, files
<1>4. CASE Mode = "issu"
  <2>1. boot = "conf" /\ nvram = "conf"
    BY <1>1, <1>2, <1>4, OwnTarget DEF Installing, IssuPlanned, Alike
  <2> QED
    BY <1>3, <2>1
<1>5. CASE Mode = "subpackage"
  BY <1>1, <1>2, <1>3, <1>5 DEF Prepared, Configured, Expanded
<1>6. CASE Mode \notin {"issu", "subpackage"}
  <2>1. box.kind \in {"con", "ios"} /\ boot = job.pkg
    BY <1>1, <1>2, <1>6, OwnTarget, XeAssumption DEF Installing, Prepared, Configured, Box
  <2>2. s = "act" /\ Has("act", "bin", job.pkg)
    BY <1>1, <1>2, <2>1, XeAssumption DEF RSPs, Prepared, Images, Course, Installing
  <2> QED
    BY <1>1, <1>3, <2>1, <2>2, XeAssumption DEF Boots
<1> QED
  BY <1>4, <1>5, <1>6

\* The stages of an ISSU leave packages.conf complete.
LEMMA IssuBootable ==
  Restoring /\ Grounded /\ (IssuStage \/ IssuFails \/ Switchover) =>
    \A s \in RSPs : Boots(s, nvram) # "down" => Boots(s, nvram)' # "down"
<1> SUFFICES ASSUME Restoring, Grounded, IssuStage \/ IssuFails \/ Switchover, NEW s \in RSPs,
                    Boots(s, nvram) # "down"
             PROVE  Boots(s, nvram)' # "down"
  OBVIOUS
<1>1. /\ issu # 0 /\ IssuGoing /\ nvram' = nvram /\ s \in Sides
      /\ conf \in [Sides -> Pkgs \cup {None}] /\ flash \in [Sides -> SUBSET File]
  BY DEF Grounded, IssuStage, IssuFails, Switchover, bootvar, Typed, Shape, TypeOK, RSPs, Sides
<1>2. nvram = "conf"
  BY <1>1 DEF Grounded, Alike, IssuGoing, Prepared, Course
<1>3. plan.pkg = job.pkg /\ job.pkg \in Pkgs /\ None \notin Pkgs /\ "down" \notin Pkgs
  BY <1>1, XeAssumption
     DEF Grounded, Typed, Shape, TypeOK, PlanKnown, Prepared, OwnPlan, Job
<1>4. runs["act"] \in Pkgs
  BY <1>1 DEF Grounded, Typed, Shape, TypeOK, RouterKnown, Sides
<1>5. SUFFICES conf'[s] \in Pkgs /\ <<"sub", conf'[s]>> \in flash'[s]
  BY <1>1, <1>2, <1>3 DEF Boots, Has
<1>6. conf[s] \in Pkgs /\ <<"sub", conf[s]>> \in flash[s]
  BY <1>1, <1>2 DEF Boots, Has
<1>7. CASE IssuStage
  BY <1>1, <1>3, <1>6, <1>7 DEF IssuStage, Install, files
<1>8. CASE IssuFails
  BY <1>1, <1>4, <1>6, <1>8 DEF IssuFails, Restoring, IssuGoing, Has
<1>9. CASE Switchover
  BY <1>1, <1>3, <1>9 DEF Switchover, Swap, IssuGoing, Has, Sides
<1> QED
  BY <1>7, <1>8, <1>9

\* The only step after which an RSP could no longer be booted is the deletion of
\* packages.conf before its new expansion.
THEOREM BootLost == ASSUME Restoring PROVE Spec => BootLostOnlyByExpand
<1>1. ASSUME Grounded, [Next]_vars
      PROVE  \A s \in RSPs : Boots(s, nvram) # "down" /\ Boots(s, nvram)' = "down" =>
               pc = "drop" /\ at = s
  <2>1. CASE Writing
    BY <1>1, <2>1, SparesBoot
  <2>2. CASE WriteMemory \/ WriteFails
    BY <1>1, <2>2, SavesBootable
  <2>3. CASE IssuStage \/ IssuFails \/ Switchover
    BY <1>1, <2>3, IssuBootable
  <2>4. CASE ~(Writing \/ WriteMemory \/ WriteFails \/ IssuStage \/ IssuFails \/ Switchover)
    <3>1. UNCHANGED <<nvram, files>>
      BY <1>1, <2>4, Frame
    <3>2. \A s \in RSPs : Boots(s, nvram)' = Boots(s, nvram)
      BY <3>1 DEF Boots, Has, files
    <3> QED
      BY <3>2
  <2> QED
    BY <2>1, <2>2, <2>3, <2>4
<1>2. Grounded /\ [Next]_vars =>
        [\A s \in RSPs : Boots(s, nvram) # "down" /\ Boots(s, nvram)' = "down" =>
           pc = "drop" /\ at = s]_vars
  BY <1>1
<1> QED
  BY <1>2, InitGrounded, GroundedStep, PTL DEF Spec, BootLostOnlyByExpand

-----------------------------------------------------------------------------
(* The end of Activate.                                                    *)

\* Labels after the reload, or during and after the ISSU.
After == {"issu", "wait", "poll", "verify", "tidy", "compare", "returned"}

\* A router that runs the package of its job boots it again.
Landed ==
  pc \in After /\ job.phase = "Activate" /\ router = "up" /\ runs["act"] = job.pkg =>
    \A s \in RSPs : runs[s] = job.pkg /\ Boots(s, nvram) = job.pkg

\* What Activate has looked at by then: the nodes, and the version of the active RSP.
Verified ==
  /\ pc = "verify" /\ line => ready \/ box.kind = "ios"
  /\ pc \in {"tidy", "compare", "returned"} /\ job.phase = "Activate" /\ ~warned =>
       runs["act"] = job.pkg /\ (ready \/ box.kind = "ios")

\* The session and the warnings.
LEMMA SessionFrame ==
  ASSUME [Next]_vars
  PROVE  /\ Start \/ Reload \/ IssuDone \/ Reconnect \/ Switchover \/ UNCHANGED line
         /\ Start \/ IosNoList \/ Verify \/ Compare \/ UNCHANGED warned
<1>1. CASE Start \/ Quiet
  BY <1>1, QuietSteps DEF QuietGoes, plugin
<1>2. CASE Writing
  BY <1>2 DEF Writing, Add, AddFails, CopyFails, RemoveActive, RemoveStandby, Clean,
     CleanStandby, CleanUp, CopyImage, DropConf, Expand, ExpandFails, CopyToStandby,
     CopyToStandbyFails, Tidy, plugin
<1>3. CASE Router
  BY <1>3 DEF Router, BootsUp, NodesUp, IssuStage, IssuFails, Switchover, plugin
<1>4. CASE PreSave \/ IosNoList \/ NoBoot \/ SetBoot \/ WriteMemory \/ WriteFails
  BY <1>4 DEF PreSave, IosNoList, NoBoot, SetBoot, WriteMemory, WriteFails, plugin
<1>5. CASE Reload \/ IssuStart \/ IssuDone \/ Reconnect \/ Poll \/ Verify \/ Compare
  BY <1>5 DEF Reload, IssuStart, IssuDone, Reconnect, Poll, Verify, Compare, Raise, Only,
              plugin
<1> QED
  BY <1>1, <1>2, <1>3, <1>4, <1>5, StepCases

\* A job that has not reloaded or upgraded the router is not verified.
LEMMA NotYet ==
  Grounded /\ [Next]_vars /\ ~Start /\ pc \in Before => runs'["act"] # job'.pkg
BY AtRest, Frame, ChassisFrame DEF Grounded, Fresh

\* The package that runs on the active RSP is also the next to be booted.
LEMMA LandedStep == Restoring /\ Grounded /\ Landed /\ [Next]_vars => Landed'
<1> SUFFICES ASSUME Restoring, Grounded, Landed, [Next]_vars,
                    pc' \in After, job'.phase = "Activate", router' = "up",
                    runs'["act"] = job'.pkg
             PROVE  (\A s \in RSPs : runs[s] = job.pkg /\ Boots(s, nvram) = job.pkg)'
  BY DEF Landed
<1>1. /\ Typed /\ Prepared /\ Alike /\ IssuGoing /\ RSPs' = RSPs /\ RSPs \subseteq Sides
      /\ "act" \in RSPs /\ job.pkg \in Pkgs /\ "down" \notin Pkgs /\ None \notin Pkgs
  BY Frame, XeAssumption DEF Grounded, RSPs, Sides, Typed, Shape, TypeOK, Job
<1>2. ~Start
  BY DEF Start, First, Goto, After
<1>3. job' = job /\ pc \in After
  <2>1. pc \notin Before
    BY <1>2, NotYet
  <2> QED
    BY <1>2, <2>1, LabelOrder, Frame DEF Follows, After, Before, Preparing
<1>4. CASE BootsUp
  <2>1. \A s \in RSPs : runs'[s] = Boots(s, nvram) /\ Boots(s, nvram)' = Boots(s, nvram)
    BY <1>1, <1>4 DEF BootsUp, Boots, Has, files
  <2> QED
    BY <1>1, <1>3, <1>4, <2>1 DEF BootsUp, Prepared, ReloadsIntoPackage
<1>5. CASE Switchover
  <2>1. issu = 5 /\ nvram' = nvram /\ nvram = "conf" /\ plan.pkg = job.pkg
    BY <1>1, <1>5 DEF Switchover, bootvar, Alike, IssuGoing, Prepared, Course, OwnPlan, Typed,
       Shape, PlanKnown
  <2>2. \A s \in Sides : runs'[s] = job.pkg /\ conf'[s] = job.pkg
                         /\ <<"sub", job.pkg>> \in flash'[s]
    BY <1>1, <1>5, <2>1 DEF Switchover, Swap, IssuGoing, Has, Sides
  <2> QED
    BY <1>1, <1>3, <2>1, <2>2 DEF Boots, Has
<1>6. CASE IssuStage \/ IssuFails
  BY <1>1, <1>3, <1>6 DEF IssuStage, IssuFails, IssuGoing, Typed, Shape, TypeOK, Sides
<1>7. CASE ~(BootsUp \/ Switchover \/ IssuStage \/ IssuFails)
  <2>1. UNCHANGED runs /\ router = "up"
    BY <1>7, ChassisFrame DEF Reload
  <2>2. \A s \in RSPs : runs[s] = job.pkg /\ Boots(s, nvram) = job.pkg
    BY <1>3, <2>1 DEF Landed
  <2>3. UNCHANGED nvram /\ UNCHANGED conf
    BY <1>3, <1>7, Frame, ChassisFrame DEF After, WriteMemory, WriteFails, DropConf, Expand
  <2>4. \A s \in RSPs : Boots(s, nvram)' # "down"
    <3>1. CASE UNCHANGED files
      BY <1>1, <2>2, <2>3, <3>1 DEF Boots, Has, files
    <3>2. CASE Writing
      BY <1>1, <1>3, <2>2, <3>2, SparesBoot DEF After
    <3> QED
      BY <1>7, <3>1, <3>2, Frame
  <2> QED
    BY <1>1, <1>3, <2>1, <2>2, <2>3, <2>4 DEF Boots, Has
<1> QED
  BY <1>4, <1>5, <1>6, <1>7

\* Activate does not warn only of what it has seen, and that stays so.
LEMMA VerifiedStep ==
  Restoring /\ ~EmptyShow /\ Grounded /\ Verified /\ [Next]_vars => Verified'
<1> SUFFICES ASSUME Restoring, ~EmptyShow, Grounded, Verified, [Next]_vars PROVE Verified'
  OBVIOUS
<1> DEFINE Looked == {"tidy", "compare", "returned"}
<1>1. Typed /\ Prepared /\ Fresh /\ IssuGoing /\ box' = box
  BY Frame DEF Grounded
<1>2. ASSUME pc' = "verify", line' PROVE ready' \/ box.kind = "ios"
  <2>1. ~Start /\ ~Reload /\ ~IssuDone /\ ~Reconnect /\ ~Switchover
    BY <1>2 DEF Start, First, Reload, IssuDone, Reconnect, Switchover, Goto
  <2>2. line /\ (ready => ready')
    <3>1. line' = line
      BY <2>1, SessionFrame
    <3>2. NodesUp => ready'
      BY DEF NodesUp
    <3>3. NodesUp \/ ready' = ready
      BY <2>1, ChassisFrame
    <3> QED
      BY <1>2, <3>1, <3>2, <3>3
  <2>3. CASE pc = "verify"
    BY <1>1, <2>2, <2>3 DEF Verified
  <2>4. CASE pc # "verify"
    <3>1. Poll
      BY <1>2, <2>1, <2>4, StepCases, QuietSteps
         DEF QuietGoes, Writing, Add, AddFails, CopyFails, RemoveActive, RemoveStandby, Clean,
             CleanStandby, CleanUp, CopyImage, DropConf, Expand, ExpandFails, CopyToStandby,
             CopyToStandbyFails, Tidy, Router, BootsUp, NodesUp, IssuStage, IssuFails, PreSave,
             PluginReturns, IosNoList, NoBoot, SetBoot, WriteMemory, WriteFails, IssuStart,
             Verify, Compare, Raise, Only, Goto
    <3> QED
      BY <1>2, <2>2, <3>1 DEF Poll, NodesValid, Goto
  <2> QED
    BY <2>3, <2>4
<1>3. ASSUME pc' \in Looked, job'.phase = "Activate", ~warned'
      PROVE  runs'["act"] = job'.pkg /\ (ready' \/ box.kind = "ios")
  <2>1. ~Start /\ job' = job
    <3>1. ~Start
      BY <1>3 DEF Start, First, Goto
    <3> QED
      BY <3>1, Frame
  <2>2. CASE pc \in Looked
    <3>1. ~warned
      BY <1>3, <2>1, <2>2, SessionFrame DEF IosNoList, Verify, Compare
    <3>2. runs["act"] = job.pkg /\ (ready \/ box.kind = "ios")
      BY <1>3, <2>1, <2>2, <3>1 DEF Verified
    <3>3. ~BootsUp /\ ~IssuStage /\ ~IssuFails /\ ~Switchover /\ ~Reload
      BY <1>1, <2>2, <3>2 DEF Typed, RouterKnown, BootsUp, IssuStage, IssuFails, Switchover,
         IssuGoing, Reload
    <3> QED
      BY <2>1, <3>2, <3>3, ChassisFrame DEF NodesUp
  <2>3. CASE pc \notin Looked
    <3>1. pc = "verify" \/ pc \in {"add", "remove", "removestby", "pre", "save", "config"}
      BY <1>3, <2>1, <2>3, LabelOrder DEF Follows, Preparing
    <3>2. Verify \/ IosVerify
      <4>1. pc \notin {"add", "remove", "removestby"}
        BY <1>1, <1>3, <2>1 DEF Fresh
      <4>2. CASE SendFails \/ NoPackageList \/ RemoveFails \/ CleanFails \/ PreFails
                 \/ CopyImageFails \/ IssuRefused \/ IssuError \/ NoReconnect \/ PollTimeout
                 \/ SlotMissing
        BY <1>3, <4>2 DEF SendFails, NoPackageList, RemoveFails, CleanFails, PreFails,
           CopyImageFails, IssuRefused, IssuError, NoReconnect, PollTimeout, SlotMissing,
           Raise, Only, Goto
      <4>3. CASE PreNoList \/ PreSave
        BY <1>3, <2>1, <4>3 DEF PreNoList, PreSave, PluginReturns, Goto
      <4>4. CASE PreStart \/ Space \/ Load \/ Backup \/ Configure \/ Ended \/ UNCHANGED vars
        BY <1>3, <2>3, <4>4 DEF PreStart, Space, Load, Backup, Configure, Ended, vars, Raise,
           Only, Goto
      <4>5. CASE Writing
        BY <3>1, <4>1, <4>5 DEF Writing, Add, AddFails, RemoveActive, RemoveStandby, Clean,
           CleanStandby, CopyImage, DropConf, Expand, ExpandFails, CopyToStandby,
           CopyToStandbyFails, Tidy
      <4>6. CASE Router
        BY <1>3, <2>3, <4>6 DEF Router, BootsUp, NodesUp, IssuStage, IssuFails, Switchover
      <4>7. CASE IosNoList
        BY <1>3, <4>7 DEF IosNoList
      <4>8. CASE NoBoot \/ SetBoot \/ WriteMemory \/ WriteFails \/ Reload \/ IssuStart
                 \/ IssuDone \/ Reconnect \/ Poll \/ Compare
        BY <3>1, <4>8 DEF NoBoot, SetBoot, WriteMemory, WriteFails, Reload, IssuStart,
           IssuDone, Reconnect, Poll, Compare
      <4> QED
        BY <2>1, <4>2, <4>3, <4>4, <4>5, <4>6, <4>7, <4>8, StepCases DEF Quiet
    <3>3. pc = "verify" /\ line /\ Target = job.pkg
      BY <1>1, <3>2, OwnTarget DEF Verify, IosVerify, Installing
    <3>4. ready \/ box.kind = "ios"
      BY <3>3 DEF Verified
    <3>5. runs["act"] = Target /\ UNCHANGED <<runs, ready>>
      <4>1. CASE Verify
        BY <1>3, <4>1 DEF Verify, Raise, Only, Goto, chassis
      <4>2. CASE IosVerify
        BY <1>3, <4>2 DEF IosVerify, Raise, Only, Goto, chassis
      <4> QED
        BY <3>2, <4>1, <4>2
    <3> QED
      BY <2>1, <3>3, <3>4, <3>5
  <2> QED
    BY <2>2, <2>3
<1> QED
  BY <1>1, <1>2, <1>3 DEF Verified

\* An Activate that returns without a warning leaves every RSP with the package running
\* and to be booted the next time, and all nodes up, if "show platform" prints its table
\* as soon as the session is open.
THEOREM ForGood == ASSUME Restoring, ~EmptyShow PROVE Spec => []ActivatedForGood
<1>1. Init => Landed /\ Verified
  BY DEF Init, Landed, Verified, After
<1>2. Grounded /\ Landed /\ Verified /\ [Next]_vars => Landed' /\ Verified'
  BY LandedStep, VerifiedStep
<1>3. Grounded /\ Landed /\ Verified => ActivatedForGood
  <2> SUFFICES ASSUME Grounded, Landed, Verified, pc = "returned", job.phase = "Activate",
                      ~warned
               PROVE  /\ \A s \in RSPs : runs[s] = job.pkg /\ Boots(s, nvram) = job.pkg
                      /\ ready \/ box.kind = "ios"
    BY DEF ActivatedForGood
  <2>1. router = "up"
    BY DEF Grounded, Typed, RouterKnown
  <2> QED
    BY <2>1 DEF Landed, Verified, After
<1> QED
  BY <1>1, <1>2, <1>3, InitGrounded, GroundedStep, PTL DEF Spec

=============================================================================
