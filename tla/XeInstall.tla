----------------------------- MODULE XeInstall -----------------------------
(***************************************************************************)
(* Add, Pre-Activate, Activate and Remove of an ASR900 under IOS XE, with  *)
(* one or two route processors (RSPs), and Add, Activate and Remove under  *)
(* IOS: csm_install_operations/ios_xe and /ios, dispatched by csm_pm.py.   *)
(* An operator runs one job after the other on the same router; each may   *)
(* raise at any send, and the next one finds what it left: images, the     *)
(* expanded sub-packages and packages.conf on each RSP, the boot variable  *)
(* and its saved copy, an ISSU under way.                                  *)
(*                                                                         *)
(* A send that changes something is a step; the looks before it are part   *)
(* of the step, because only a reload or an ISSU changes the router by     *)
(* itself.  A definition X_Word is X with a plausible bug.                 *)
(***************************************************************************)
EXTENDS Integers, FiniteSets

CONSTANTS
  Pkgs,        \* packages: each a consolidated image of a version of its own
  Old,         \* the one the router runs at first
  Boxes,       \* the routers of the run
  Persistent,  \* does the storage outlive a job, as with CSM Server?
  Flaky,       \* may any ctx.send raise?
  Garbled,     \* may an output be unreadable to the code?
  EmptyShow,   \* may "show platform" print no table yet?
  RollsBack,   \* does an ISSU that fails restore the standby?
  MaxRuns,     \* bound: jobs
  MaxPolls     \* 20 polls of wait_for_reload

Sides == {"act", "stby"}
None  == "none"

\* kind: by the platform, IOS XE in consolidated or sub-package mode, IOS, or
\* an unknown platform.  folder: where packages.conf lies, bootflash: itself or
\* a directory.  boot: what it runs from.  issu: SSO, and space for an ISSU.
\* partial: does a copy that fails leave a part of the file?
Box == [kind : {"con", "sub", "ios", "other"}, rsps : {1, 2}, folder : {"root", "image"},
        boot : {"bin", "conf"}, issu : BOOLEAN, partial : BOOLEAN]
Job == [phase : {"Add", "Pre-Activate", "Activate", "Remove"}, pkg : Pkgs,
        listed : BOOLEAN]

\* Whole and partial images in bootflash:, images copied to the folder, and
\* complete sets of sub-packages in the folder.
File == {"bin", "part", "img", "sub"} \X Pkgs
\* What the five keys xe_* hold; NoPlan when they were never saved.
NoPlan == [mode |-> None, pkg |-> None, rsps |-> 0]
Plans  == [mode : {"consolidated", "subpackage", "issu"}, pkg : Pkgs, rsps : {1, 2}]
            \cup {NoPlan}

ASSUME XeAssumption ==
  /\ None \notin Pkgs /\ "conf" \notin Pkgs /\ "down" \notin Pkgs
  /\ IsFiniteSet(Pkgs) /\ Old \in Pkgs
  /\ Boxes \subseteq Box
  /\ \A b \in Boxes : b.boot = "bin" => b.folder = "image"
  /\ \A b \in Boxes : b.kind \in {"con", "ios"} => b.rsps = 1 /\ b.boot = "bin"
  /\ {Persistent, Flaky, Garbled, EmptyShow, RollsBack} \subseteq BOOLEAN
  /\ MaxRuns \in Nat \ {0} /\ MaxPolls \in Nat \ {0}

VARIABLES
  \* the operator
  box, job, run,
  added,   \* packages whose Add returned, and that no Remove was begun for
  \* the plugin and its session
  pc,
  at,      \* the RSP a helper works on
  plan,    \* the storage
  warned,  \* has Activate warned?
  polls,
  line,    \* the connection
  \* the router
  flash,   \* files of each RSP
  conf,    \* the package that packages.conf of each RSP names
  boot,    \* boot variable of the running configuration
  nvram,   \* ... and of the saved one
  runs, via,
  router,
  issu,    \* stage of the ISSU under way; 5: provisioned, 0: none
  said,    \* its last word
  ready    \* are all nodes in a valid state?

operator == <<box, job, run, added>>
plugin   == <<at, plan, warned, polls>>
files    == <<flash, conf>>
bootvar  == <<boot, nvram>>
chassis  == <<runs, via, router, issu, said, ready>>
vars     == <<operator, pc, plugin, line, files, bootvar, chassis>>

Over    == {"idle", "returned", "raised"}
Goto(l) == pc' = l
Only(l) == Goto(l) /\ UNCHANGED <<operator, plugin, line, files, bootvar, chassis>>

RSPs == IF box.rsps = 2 THEN Sides ELSE {"act"}
\* number_of_rsp; 0 when the count is not found.
Counts == IF Garbled THEN {0, box.rsps} ELSE {box.rsps}
Has(s, kind, p) == <<kind, p>> \in flash[s]
Drop(s, S) == flash' = [flash EXCEPT ![s] = @ \ S]
Image(p)   == {<<"bin", p>>, <<"part", p>>}

\* The package that Activate installs, and how: IOS has no Pre-Activate.
Target == IF box.kind = "ios" THEN job.pkg ELSE plan.pkg
Mode   == IF box.kind = "ios" THEN "ios" ELSE plan.mode

\* What an RSP boots from boot variable b, or "down".
Boots(s, b) ==
  IF b = "conf"
  THEN IF conf[s] # None /\ Has(s, "sub", conf[s]) THEN conf[s] ELSE "down"
  ELSE IF b # None /\ Has(s, "bin", b) THEN b ELSE "down"

Init ==
  /\ box \in Boxes
  /\ job = [phase |-> "Add", pkg |-> Old, listed |-> TRUE] /\ run = 0 /\ added = {}
  /\ pc = "idle" /\ at = "act" /\ plan = NoPlan /\ warned = FALSE /\ polls = 0
  /\ line = FALSE
  /\ LET held == IF box.boot = "conf" THEN {<<"sub", Old>>} ELSE {<<"bin", Old>>}
     IN /\ flash = [s \in Sides |-> IF s \in RSPs THEN held ELSE {}]
        /\ conf = [s \in Sides |-> IF box.boot = "conf" /\ s \in RSPs THEN Old ELSE None]
        /\ boot = (IF box.boot = "conf" THEN "conf" ELSE Old) /\ nvram = boot
  /\ runs = [s \in Sides |-> IF s \in RSPs THEN Old ELSE "down"]
  /\ via = box.boot /\ router = "up" /\ issu = 0 /\ said = None /\ ready = TRUE

-----------------------------------------------------------------------------
(* The operator: a job, and the plugins that dispatch runs for it.  The    *)
(* operator upgrades: a package is activated after its Add has returned,   *)
(* and neither the running package nor the one to be booted next is        *)
(* removed or installed over; a job is begun when the router is up and no  *)
(* ISSU is under way.                                                      *)

\* Activate is preceded by Pre-Activate, for which IOS has no plugin.
First(phase) ==
  IF phase = "Add" THEN "add"
  ELSE IF phase = "Remove" THEN "remove"
  ELSE IF box.kind # "ios" THEN "pre"
  ELSE IF phase = "Activate" THEN "config" ELSE "returned"

Start ==
  /\ pc \in Over /\ run < MaxRuns /\ router = "up" /\ issu = 0
  /\ \E j \in Job :
       /\ j.pkg # runs["act"]
       /\ j.phase \in {"Activate", "Pre-Activate"} => j.pkg \in added
       /\ j.phase = "Remove" => nvram # j.pkg
       /\ job' = j /\ Goto(First(j.phase))
       /\ added' = IF j.phase = "Remove" THEN added \ {j.pkg} ELSE added
  /\ run' = run + 1 /\ line' = TRUE /\ warned' = FALSE /\ polls' = 0 /\ at' = "act"
  /\ plan' = IF Persistent THEN plan ELSE NoPlan
  /\ UNCHANGED <<box, files, bootvar, chassis>>

\* The next plugin of the dispatch, or its end.
PluginReturns ==
  Goto(IF pc \in {"pre", "save"} /\ job.phase = "Activate" THEN "load" ELSE "returned")

\* ctx.error, or an exception of the code itself: nothing but the line is lost.
Raise == Only("raised")

\* ctx.send raises at any command, and always when the session is closed.
Sending ==
  {"add", "remove", "removestby", "pre", "clean", "space", "cleanstby", "save",
   "copyimg", "backup", "drop", "expand", "copystby", "config", "noboot", "setboot",
   "write", "go", "issu", "poll", "verify", "tidy", "compare"}
SendFails == pc \in Sending /\ (Flaky \/ ~line) /\ Raise

-----------------------------------------------------------------------------
(* Add and Remove.                                                         *)

NoPackageList == pc \in {"add", "remove"} /\ ~job.listed /\ Raise

\* A file of that name, whole or not, is taken for the package.
AddExists == \E f \in Image(job.pkg) : f \in flash["act"]

Add ==
  /\ pc = "add" /\ line /\ job.listed
  /\ flash' = IF AddExists THEN flash
              ELSE [flash EXCEPT !["act"] = @ \cup {<<"bin", job.pkg>>}]
  /\ Goto("returned") /\ added' = added \cup {job.pkg}
  /\ UNCHANGED <<box, job, run, plugin, line, conf, bootvar, chassis>>

\* install_add_remove finds no "bytes copied".
CopyFails(s, p) ==
  /\ flash' = [flash EXCEPT ![s] =
       (@ \ Image(p)) \cup (IF box.partial THEN {<<"part", p>>} ELSE {})]
  /\ Goto("raised")
  /\ UNCHANGED <<operator, plugin, line, conf, bootvar, chassis>>

AddFails == pc = "add" /\ line /\ job.listed /\ ~AddExists /\ CopyFails("act", job.pkg)

\* remove_exist_image: deleted, or the second "del" still finds the file.
RemoveActive ==
  /\ pc = "remove" /\ line /\ job.listed /\ Drop("act", Image(job.pkg))
  /\ \E n \in Counts : Goto(IF n = 2 THEN "removestby" ELSE "returned")
  /\ UNCHANGED <<operator, plugin, line, conf, bootvar, chassis>>

RemoveStandby ==
  /\ pc = "removestby" /\ line /\ Drop("stby", Image(job.pkg)) /\ Goto("returned")
  /\ UNCHANGED <<operator, plugin, line, conf, bootvar, chassis>>

RemoveFails ==
  /\ \/ pc = "remove" /\ job.listed /\ flash["act"] \cap Image(job.pkg) # {}
     \/ pc = "removestby" /\ flash["stby"] \cap Image(job.pkg) # {}
  /\ line /\ Raise

-----------------------------------------------------------------------------
(* Pre-Activate.                                                           *)

\* Without a package list it returns, and nothing is saved.
PreNoList ==
  /\ pc = "pre" /\ ~job.listed /\ PluginReturns
  /\ UNCHANGED <<operator, plugin, line, files, bootvar, chassis>>

\* Platform, number of RSPs and the folder, which is created if need be.
PreStart ==
  /\ pc = "pre" /\ line /\ job.listed
  /\ \/ box.kind = "con" /\ Only("space")
     \/ box.kind = "sub" /\ box.rsps \in Counts /\ Only("clean")
     \/ (box.kind = "other" \/ 0 \in Counts) /\ Raise

PkgConfValid_Exists == conf["act"] # None
\* check_pkg_conf: packages.conf of the active RSP is of the running version.
PkgConfValid == conf["act"] # None /\ conf["act"] = runs["act"]

Residual_Version(s) ==
  IF conf[s] = None THEN {}
  ELSE {f \in flash[s] : f[1] = "sub" /\ f[2] # job.pkg}
\* What remove_exist_subpkgs deletes on an RSP: nothing without packages.conf;
\* images but the one to install; sub-packages of another than the running
\* version.  The folder of the standby is never named "bootflash:".
Residual(s) ==
  IF conf[s] = None THEN {}
  ELSE {f \in flash[s] :
         \/ f[1] = "sub" /\ f[2] # runs["act"]
         \/ box.folder = "image" /\ f[1] = "img"
         \/ box.folder = "root" /\ f[1] \in {"bin", "part"}
              /\ (s = "stby" \/ f[2] # job.pkg)}

\* A deletion that fails is passed over; an unreadable version stops them all.
CleanUp(s, next) ==
  /\ IF PkgConfValid
     THEN Drop(s, Residual(s)) \/ ((Garbled \/ Flaky) /\ UNCHANGED flash)
     ELSE UNCHANGED flash
  /\ Goto(next)
  /\ UNCHANGED <<operator, plugin, line, conf, bootvar, chassis>>

Clean == pc = "clean" /\ line /\ CleanUp("act", "space")

\* "dir" of the images prints nothing, which is an error only in bootflash:.
CleanFails ==
  /\ pc = "clean" /\ line /\ box.folder = "root" /\ PkgConfValid
  /\ \A p \in Pkgs : flash["act"] \cap Image(p) = {}
  /\ Raise

\* Space on bootflash:, and on stby-bootflash: after its own clean-up.
Space ==
  /\ pc = "space" /\ line
  /\ Raise \/ Only(IF box.kind = "sub" /\ box.rsps = 2 THEN "cleanstby" ELSE "save")
CleanStandby == pc = "cleanstby" /\ line /\ CleanUp("stby", "save")

\* check_issu_readiness: booted from packages.conf, the same version on both
\* RSPs, and the space and redundancy that ISSU needs, which may be missing now.
IssuReady == via = "conf" /\ runs["act"] = runs["stby"] /\ box.issu
BootModes ==
  IF box.kind = "con" THEN {"consolidated"}
  ELSE {"subpackage"} \cup
       {m \in {"issu"} : box.rsps = 2 /\ PkgConfValid /\ IssuReady}

\* The mode, "show platform" and the five keys; too little space on the standby,
\* or no table, raises.
PreSave ==
  /\ pc = "save" /\ line
  /\ \E m \in BootModes : plan' = [mode |-> m, pkg |-> job.pkg, rsps |-> box.rsps]
  /\ PluginReturns
  /\ UNCHANGED <<operator, at, warned, polls, line, files, bootvar, chassis>>

PreFails == pc = "save" /\ line /\ Raise

-----------------------------------------------------------------------------
(* Activate: the files, then the configuration.                            *)

\* int((None, None)) is a TypeError when nothing was saved.
Load ==
  /\ pc = "load"
  /\ IF plan = NoPlan THEN Raise
     ELSE Only(CASE plan.mode = "issu" -> "copyimg"
                 [] plan.mode = "subpackage" -> "backup"
                 [] OTHER -> "config")

\* ISSU: the image is copied to the folder; onto itself if that is bootflash:.
CopyImage ==
  /\ pc = "copyimg" /\ line /\ \E f \in Image(Target) : f \in flash["act"]
  /\ flash' = IF box.folder = "image" /\ Has("act", "bin", Target)
              THEN [flash EXCEPT !["act"] = @ \cup {<<"img", Target>>}] ELSE flash
  /\ Goto("config")
  /\ UNCHANGED <<operator, plugin, line, conf, bootvar, chassis>>

CopyImageFails == pc = "copyimg" /\ line /\ Raise

\* packages.conf is copied to packages.conf- ...
Backup ==
  /\ pc = "backup" /\ line
  /\ Raise \/ Only(IF conf[at] = None THEN "expand" ELSE "drop")
\* ... and deleted, because "expand" writes it only if there is none.
DropConf ==
  /\ pc = "drop" /\ line /\ conf' = [conf EXCEPT ![at] = None] /\ Goto("expand")
  /\ UNCHANGED <<operator, plugin, line, flash, bootvar, chassis>>

Expand_ActiveOnly ==
  /\ pc = "expand" /\ line /\ Has(at, "bin", Target)
  /\ flash' = [flash EXCEPT ![at] = @ \cup {<<"sub", Target>>}]
  /\ conf' = [conf EXCEPT ![at] = Target] /\ Goto("config")
  /\ UNCHANGED <<operator, plugin, line, bootvar, chassis>>
Expand ==
  /\ pc = "expand" /\ line /\ Has(at, "bin", Target)
  /\ flash' = [flash EXCEPT ![at] = @ \cup {<<"sub", Target>>}]
  /\ conf' = [conf EXCEPT ![at] = Target]
  /\ Goto(IF at = "act" /\ plan.rsps = 2 THEN "copystby" ELSE "config")
  /\ UNCHANGED <<operator, plugin, line, bootvar, chassis>>

\* No "SUCCESS": what was there of this package may be incomplete now.
ExpandFails ==
  /\ pc = "expand" /\ line /\ Drop(at, {<<"sub", Target>>}) /\ Goto("raised")
  /\ UNCHANGED <<operator, plugin, line, conf, bootvar, chassis>>

CopyToStandby ==
  /\ pc = "copystby" /\ line /\ Has("act", "bin", Target)
  /\ flash' = [flash EXCEPT !["stby"] = (@ \ Image(Target)) \cup {<<"bin", Target>>}]
  /\ at' = "stby" /\ Goto("backup")
  /\ UNCHANGED <<operator, plan, warned, polls, line, conf, bootvar, chassis>>
CopyToStandbyFails == pc = "copystby" /\ line /\ CopyFails("stby", Target)

\* IOS: without a package list, a warning and nothing else.
IosNoList ==
  /\ pc = "config" /\ box.kind = "ios" /\ ~job.listed
  /\ warned' = TRUE /\ Goto("returned")
  /\ UNCHANGED <<operator, at, plan, polls, line, files, bootvar, chassis>>

\* ISSU leaves the boot variable alone; else it is cleared and set.
Configure ==
  /\ pc = "config" /\ line /\ (box.kind = "ios" => job.listed)
  /\ Only(IF Mode = "issu" THEN "write" ELSE "noboot")
NoBoot ==
  /\ pc = "noboot" /\ line /\ boot' = None /\ Goto("setboot")
  /\ UNCHANGED <<operator, plugin, line, files, nvram, chassis>>
SetBoot ==
  /\ pc = "setboot" /\ line /\ Goto("write")
  /\ boot' = IF Mode = "subpackage" THEN "conf" ELSE Target
  /\ UNCHANGED <<operator, plugin, line, files, nvram, chassis>>

\* "write memory" is done, whether or not its dialog is understood.
WriteMemory ==
  /\ pc = "write" /\ line /\ nvram' = boot /\ Goto("go")
  /\ UNCHANGED <<operator, plugin, line, files, boot, chassis>>
WriteFails ==
  /\ pc = "write" /\ line /\ nvram' = boot /\ Goto("raised")
  /\ UNCHANGED <<operator, plugin, line, files, boot, chassis>>
-----------------------------------------------------------------------------
(* Activate: the reload or the ISSU, and the checks after it.              *)

\* ctx.reload, whose result is ignored: it may raise, or come back without a
\* reload.  Then wait_for_reload disconnects.
Reload ==
  /\ pc = "go" /\ line /\ Mode # "issu" /\ line' = FALSE
  /\ \/ /\ router' = "reloading" /\ ready' = FALSE
        /\ Goto("wait") \/ Goto("raised")
     \/ UNCHANGED <<router, ready>> /\ Goto("wait")
  /\ UNCHANGED <<operator, plugin, files, bootvar, runs, via, issu, said>>

ImageInFolder == Has("act", IF box.folder = "root" THEN "bin" ELSE "img", Target)

IssuStart ==
  /\ pc = "go" /\ line /\ Mode = "issu" /\ via = "conf" /\ ImageInFolder
  /\ issu' = 1 /\ said' = None /\ Goto("issu")
  /\ UNCHANGED <<operator, plugin, line, files, bootvar, runs, via, router, ready>>

\* "SYSTEM IS NOT BOOTED VIA PACKAGE FILE", or "FAILED:" at once.
IssuRefused == pc = "go" /\ line /\ Mode = "issu" /\ Raise

\* The last of the stages, "FAILED:" in any of them, or a timeout, after which
\* the ISSU goes on by itself.
IssuDone ==
  /\ pc = "issu" /\ said = "provisioned" /\ Goto("wait") /\ line' = FALSE
  /\ UNCHANGED <<operator, plugin, files, bootvar, chassis>>
IssuError == pc = "issu" /\ Raise

\* wait_for_reload: one reconnection, then the polls.
Reconnect ==
  /\ pc = "wait" /\ router = "up" /\ line' = TRUE /\ polls' = 0 /\ Goto("poll")
  /\ UNCHANGED <<operator, at, plan, warned, files, bootvar, chassis>>
NoReconnect == pc = "wait" /\ Raise

\* validate_node_state is true of an empty table; IOS only looks for an image.
NodesValid == ready \/ EmptyShow \/ box.kind = "ios"

Poll_Again ==
  /\ pc = "poll" /\ line /\ polls < MaxPolls
  /\ polls' = (polls + 1) % MaxPolls /\ Goto(IF NodesValid THEN "verify" ELSE "poll")
  /\ UNCHANGED <<operator, at, plan, warned, line, files, bootvar, chassis>>
Poll ==
  /\ pc = "poll" /\ line /\ polls < MaxPolls
  /\ polls' = polls + 1 /\ Goto(IF NodesValid THEN "verify" ELSE "poll")
  /\ UNCHANGED <<operator, at, plan, warned, line, files, bootvar, chassis>>
PollTimeout == pc = "poll" /\ polls = MaxPolls /\ Raise

Verify_TypeOnly ==
  /\ pc = "verify" /\ line /\ box.kind # "ios"
  /\ Only(IF Mode = "issu" THEN "tidy" ELSE "compare")
\* Version and image type.  IOS XE only warns, but None in "not in pkg" is a
\* TypeError when packages.conf has gone.
Verify ==
  /\ pc = "verify" /\ line /\ box.kind # "ios"
  /\ IF Mode # "consolidated" /\ conf["act"] = None THEN Raise
     ELSE /\ warned' = (runs["act"] # Target)
          /\ Goto(IF Mode = "issu" THEN "tidy" ELSE "compare")
          /\ UNCHANGED <<operator, at, plan, polls, line, files, bootvar, chassis>>

\* IOS: another image than the package is an error.
IosVerify ==
  /\ pc = "verify" /\ line /\ box.kind = "ios"
  /\ IF runs["act"] = Target THEN Only("returned") ELSE Raise

\* The image in the folder is removed on the RSPs; a deletion that fails is
\* passed over.
Tidy ==
  /\ pc = "tidy" /\ line /\ Goto("compare")
  /\ LET image == IF box.folder = "root" THEN Image(Target) ELSE {<<"img", Target>>}
     IN \E tidied \in SUBSET (IF plan.rsps = 2 THEN Sides ELSE {"act"}) :
          flash' = [s \in Sides |-> IF s \in tidied THEN flash[s] \ image ELSE flash[s]]
  /\ UNCHANGED <<operator, plugin, line, conf, bootvar, chassis>>

\* "show platform" against the saved one: no table, or a slot that changed, is a
\* warning, a slot that is missing a KeyError.
Compare ==
  /\ pc = "compare" /\ line
  /\ \E differs \in {warned \/ \E s \in RSPs : runs[s] = "down", TRUE} :
       warned' = (warned \/ differs)
  /\ Goto("returned")
  /\ UNCHANGED <<operator, at, plan, polls, line, files, bootvar, chassis>>
SlotMissing == pc = "compare" /\ line /\ Raise

-----------------------------------------------------------------------------
(* The router.                                                             *)

\* Every RSP boots from the saved boot variable.
BootsUp ==
  /\ router = "reloading"
  /\ runs' = [s \in Sides |-> IF s \in RSPs THEN Boots(s, nvram) ELSE "down"]
  /\ via' = (IF nvram = "conf" THEN "conf" ELSE "bin") /\ boot' = nvram
  /\ router' = IF Boots("act", nvram) = "down" THEN "dead" ELSE "up"
  /\ UNCHANGED <<operator, pc, plugin, line, files, nvram, issu, said, ready>>

NodesUp ==
  /\ router = "up" /\ ~ready /\ ready' = TRUE
  /\ UNCHANGED <<operator, pc, plugin, line, files, bootvar, runs, via, router, issu, said>>

\* Stage 1 installs on the standby, which stage 2 restarts; after stage 4 the
\* software is provisioned on the active RSP.
Install(s, p) ==
  /\ flash' = [flash EXCEPT ![s] = @ \cup {<<"sub", p>>}]
  /\ conf' = [conf EXCEPT ![s] = p]

IssuStage ==
  /\ issu \in 1 .. 4 /\ issu' = issu + 1
  /\ IF issu = 1 THEN Install("stby", plan.pkg)
     ELSE IF issu = 4 THEN Install("act", plan.pkg) ELSE UNCHANGED files
  /\ runs' = IF issu = 2 THEN [runs EXCEPT !["stby"] = plan.pkg] ELSE runs
  /\ said' = IF issu = 4 THEN "provisioned" ELSE said
  /\ UNCHANGED <<operator, pc, plugin, line, bootvar, via, router, ready>>

IssuFails ==
  /\ issu \in 1 .. 3 /\ issu' = 0 /\ said' = "failed"
  /\ IF RollsBack
     THEN /\ conf' = [conf EXCEPT !["stby"] = runs["act"]]
          /\ runs' = [runs EXCEPT !["stby"] = runs["act"]]
     ELSE UNCHANGED <<conf, runs>>
  /\ UNCHANGED <<operator, pc, plugin, line, flash, bootvar, via, router, ready>>

\* The active RSP restarts as the standby.
Swap(f) == [act |-> f["stby"], stby |-> f["act"]]
Switchover ==
  /\ issu = 5 /\ issu' = 0 /\ line' = FALSE /\ ready' = FALSE
  /\ flash' = Swap(flash) /\ conf' = Swap(conf)
  /\ runs' = [s \in Sides |-> plan.pkg]
  /\ UNCHANGED <<operator, pc, plugin, bootvar, via, router, said>>

Plugin ==
  \/ SendFails \/ NoPackageList \/ Add \/ AddFails
  \/ RemoveActive \/ RemoveStandby \/ RemoveFails
  \/ PreNoList \/ PreStart \/ Clean \/ CleanFails \/ Space \/ CleanStandby
  \/ PreSave \/ PreFails \/ Load \/ CopyImage \/ CopyImageFails \/ Backup
  \/ DropConf \/ Expand \/ ExpandFails \/ CopyToStandby \/ CopyToStandbyFails
  \/ IosNoList \/ Configure \/ NoBoot \/ SetBoot \/ WriteMemory \/ WriteFails
  \/ Reload \/ IssuStart \/ IssuRefused \/ IssuDone \/ IssuError
  \/ Reconnect \/ NoReconnect \/ Poll \/ PollTimeout
  \/ Verify \/ IosVerify \/ Tidy \/ Compare \/ SlotMissing

Router == BootsUp \/ NodesUp \/ IssuStage \/ IssuFails \/ Switchover

\* No further job.
Ended == pc \in Over /\ UNCHANGED vars

Next == Start \/ Plugin \/ Router \/ Ended

\* The plugin is sequential and every ctx.send has a timeout.
Spec == Init /\ [][Next]_vars /\ WF_vars(Plugin)

-----------------------------------------------------------------------------
(* Properties.                                                             *)

\* The type invariant.
TypeOK ==
  /\ box \in Boxes /\ job \in Job /\ run \in 0 .. MaxRuns /\ added \subseteq Pkgs
  /\ pc \in Over \cup Sending \cup {"load", "wait"}
  /\ at \in Sides /\ plan \in Plans
  /\ warned \in BOOLEAN /\ polls \in 0 .. MaxPolls /\ line \in BOOLEAN
  /\ flash \in [Sides -> SUBSET File] /\ conf \in [Sides -> Pkgs \cup {None}]
  /\ {boot, nvram} \subseteq Pkgs \cup {"conf", None}
  /\ runs \in [Sides -> Pkgs \cup {"down"}] /\ via \in {"bin", "conf"}
  /\ router \in {"up", "reloading", "dead"}
  /\ issu \in 0 .. 5 /\ said \in {None, "failed", "provisioned"} /\ ready \in BOOLEAN

\* When Activate reloads the router, what the saved configuration boots is, on
\* every RSP, complete and the package of this job.
ReloadsIntoPackage ==
  router = "reloading" => \A s \in RSPs : Boots(s, nvram) = job.pkg

\* An Activate that returns without a warning leaves every RSP with the package
\* running and to be booted the next time, and all nodes up; so an ISSU, which
\* saves the boot variable it finds, never finds one that an earlier job cleared.
ActivatedForGood ==
  pc = "returned" /\ job.phase = "Activate" /\ ~warned =>
    /\ \A s \in RSPs : runs[s] = job.pkg /\ Boots(s, nvram) = job.pkg
    /\ ready \/ box.kind = "ios"

\* No clean-up, removal or expansion takes the files an RSP runs from.
RunningFilesKept ==
  router = "up" => \A s \in RSPs : runs[s] # "down" =>
    Has(s, IF via = "conf" THEN "sub" ELSE "bin", runs[s])

\* The only step after which an RSP could no longer be booted is the deletion of
\* packages.conf before its new expansion.
BootLostOnlyByExpand ==
  [][\A s \in RSPs : Boots(s, nvram) # "down" /\ Boots(s, nvram)' = "down" =>
       pc = "drop" /\ at = s]_vars

\* Every job comes to an end.
JobsEnd == pc \notin Over ~> pc \in Over
=============================================================================
