----------------------------- MODULE Migration -----------------------------
(***************************************************************************)
(* The migration of an ASR9K from IOS XR to 64-bit IOS XR: Pre-Migrate     *)
(* (with the Migration Audit it runs), Migrate and Post-Migrate of         *)
(* csm_install_operations/ios_xr, run one after another by an operator     *)
(* who repeats a phase that raised.  What a run leaves behind is kept for  *)
(* the next one: files in csm_data, in the server repository and on the    *)
(* router, FPD versions, the boot mode.                                    *)
(*                                                                         *)
(* A file's content is the set of the configurations it was made from,     *)
(* pairs of a part and of the run that captured it.  Every ctx.send that   *)
(* can change something, every file operation and every event of a copy    *)
(* dialog is a step; read-only commands in a row are one.                  *)
(* A definition X_Word is X with a plausible bug.                          *)
(***************************************************************************)
EXTENDS Integers, Sequences, FiniteSets

CONSTANTS
  Locs,        \* card locations
  Fpds,        \* the router's FPDs: pairs of a subtype and a location
  Scenarios,   \* what was selected, the cards, the FPDs that need an upgrade
  BootStates,  \* FPD states after 64-bit IOS XR has booted
  Flaky,       \* may any ctx.send raise?
  Quiet,       \* may a tool fail without a text the code looks for?
  Settled,     \* is Post-Migrate begun only when no FPD is being upgraded or
               \* waits for a reload?
  MaxRuns,     \* bound: plugin runs
  MaxTurns     \* 40 transitions of a copy dialog, 75 and 320 polls

\* sftp or (t)ftp; with a custom XR configuration, a key generation file.
Job   == [sftp : BOOLEAN, custom : BOOLEAN, crypto : BOOLEAN, override : BOOLEAN]
Kinds == {"RP", "FC", "LC", "MPA", "FAN", "PEM", "other"}
Card  == [kind : Kinds, listed : BOOLEAN, ready : BOOLEAN]

LocalFiles == {"admin.cfg", "xr.cfg", "admin.cal", "admin.iox", "xr.iox", "merged"}
Files      == {"cal", "xr", "image", "crypto"}
Phases     == {"pre", "migrate", "post"}
FpdStates  == {"current", "need", "upgrading", "rload"}

Runs    == 1 .. MaxRuns
Content == SUBSET ({"adm", "xr", "op"} \X Runs)

ASSUME MigrationAssumption ==
  /\ Scenarios \subseteq [job : Job, cards : [Locs -> Card], need : SUBSET Fpds]
  /\ \A f \in Fpds : f[2] \in Locs
  /\ IsFiniteSet(Fpds)
  /\ BootStates \subseteq {"current", "need", "rload"}
  /\ {Flaky, Quiet, Settled} \subseteq BOOLEAN
  /\ MaxRuns \in Nat \ {0} /\ MaxTurns \in Nat \ {0}

VARIABLES
  \* the operator
  phase, run, job,
  preRun,    \* the run of the last Pre-Migrate
  progress,  \* the last phase that returned, since Pre-Migrate was begun
  \* the plugin and its session
  pc, after, mode, line,
  turns,     \* of the loop under way
  \* files
  local,     \* csm_data/migration/<hostname>
  repo,      \* the server repository
  disk,      \* the router: harddisk:/ and harddiskb:/
  whole,     \* which of them are complete
  \* _copy_files_to_device
  k, stage, fsm,
  \* FPDs
  cards, fpd,
  logged,    \* FPDs whose upgrade is reported in the router's log
  marks,     \* fpd_relevant_nodes with a 1
  todo,      \* subtype_to_locations_need_upgrade, as a set of FPDs
  subtype,   \* fpdtype
  num,       \* num_fpds
  \* the router
  os,
  boot,      \* the run whose script set the boot mode, or 0
  backup     \* are the configurations backed up?

campaign == <<phase, run, job, preRun, progress, cards>>
session  == <<mode, line>>
store    == <<local, repo>>
device   == <<disk, whole>>
dialog   == <<k, stage, fsm>>
fpds     == <<fpd, logged, todo, subtype, num>>
box      == <<os, boot, backup>>
world    == <<store, device, dialog, marks, fpds, box>>
vars     == <<campaign, pc, after, session, turns, world>>

NothingElse == UNCHANGED <<campaign, after, session, turns, world>>

Over    == {"idle", "returned", "raised"}
Goto(l) == pc' = l
Subtypes(S) == {f[1] : f \in S}

Init ==
  /\ phase = "pre" /\ run = 0 /\ preRun = 0 /\ progress = "none"
  /\ pc = "idle" /\ after = "none" /\ mode = "exec" /\ line = FALSE /\ turns = 0
  /\ local = [f \in LocalFiles |-> {}] /\ repo = [f \in Files |-> {}]
  /\ disk = [f \in Files |-> {}] /\ whole = {}
  /\ k = 1 /\ stage = "ask" /\ fsm = 0
  /\ \E s \in Scenarios :
       /\ job = s.job /\ cards = s.cards
       /\ fpd = [f \in Fpds |-> IF f \in s.need THEN "need" ELSE "current"]
  /\ logged \in IF Quiet THEN SUBSET Fpds ELSE {{}}
  /\ marks = {} /\ todo = {} /\ subtype = "none" /\ num = 0
  /\ os = "XR" /\ boot = 0 /\ backup = FALSE

-----------------------------------------------------------------------------
(* The operator, and the two ends of a run.                                *)

\* A phase may be begun when the one before it has returned.
Start(p, first) ==
  /\ pc \in Over /\ run < MaxRuns
  /\ phase' = p /\ run' = run + 1
  /\ mode' = "exec" /\ line' = TRUE /\ turns' = 0 /\ Goto(first)
  /\ UNCHANGED <<job, cards, local, device, dialog, marks, fpds, box>>

\* Image, key file and custom configuration are in the repository.
StartPre ==
  /\ os = "XR" /\ Start("pre", "audit")
  /\ preRun' = run' /\ progress' = "none" /\ UNCHANGED after
  /\ repo' = [f \in Files |->
       IF f \in {"image", "crypto"} \/ (f = "xr" /\ job.custom)
         THEN {<<"op", run'>>} ELSE repo[f]]

StartMigrate ==
  /\ progress = "pre" /\ Start("migrate", "ksh")
  /\ UNCHANGED <<preRun, progress, after, repo>>

StartPost ==
  /\ progress = "migrate" /\ os = "eXR" /\ Start("post", "band")
  /\ Settled => \A f \in Fpds : fpd[f] \in {"current", "need"}
  /\ after' = "configs" /\ UNCHANGED <<preRun, progress, repo>>

\* get_package and get_inventory.
Refresh ==
  /\ pc = "refresh" /\ line
  /\ progress' = phase /\ Goto("returned")
  /\ UNCHANGED <<phase, run, job, preRun, cards, after, session, turns, world>>

\* ctx.error: disconnect, raise PluginError.
RaiseError ==
  /\ pc = "error" /\ line' = FALSE /\ Goto("raised")
  /\ UNCHANGED <<campaign, after, mode, turns, world>>

Sends == {"audit", "checks", "ksh", "script", "unksh", "admincfg", "xrcfg",
          "dialog", "dir", "fpds", "upgrade", "fpdlog", "backups", "reload",
          "band", "admin", "nodes", "exit", "final", "configs", "platform",
          "fpdadmin", "table", "start", "poll", "fpdexit", "refresh"}

\* What ctx.send raises is not caught.  It raises at any time on a router that
\* does not answer, and for certain after a disconnect.
SendFails == pc \in Sends /\ Flaky /\ line /\ Goto("raised") /\ NothingElse
NoLine    == pc \in Sends /\ ~line /\ Goto("raised") /\ NothingElse

-----------------------------------------------------------------------------
(* Migration Audit and the prerequisites of Pre-Migrate.                   *)

\* _check_if_supported_and_in_valid_state: the card types that must be
\* supported, and the state of those that are.
Mandatory(c) ==
  c.kind \in {"RP", "FC", "MPA"} \/ (c.kind \in {"FAN", "PEM"} /\ ~job.override)
Unfit(c) == c.kind # "other" /\ IF c.listed THEN ~c.ready ELSE Mandatory(c)

\* fpd_relevant_nodes: 0 for fans and power modules, and for line cards that
\* are not supported.
Marked(c) == c.kind = "other" \/ (c.kind \notin {"FAN", "PEM"} /\ c.listed)

Audit ==
  /\ pc = "audit" /\ line
  /\ IF \E l \in Locs : Unfit(cards[l])
       THEN Goto("error") /\ UNCHANGED marks
       ELSE Goto("checks") /\ marks' = {l \in Locs : Marked(cards[l])}
  /\ UNCHANGED <<campaign, after, session, turns, store, device, dialog, fpds,
                 box>>

\* Release, ping, FPD package, NoX; any of them may be missing.
Checks ==
  /\ pc = "checks" /\ line /\ pc' \in {"ksh", "error"} /\ NothingElse

-----------------------------------------------------------------------------
(* The scripts: /pkg/bin/resize_eusb, and /pkg/bin/migrate_to_eXR.         *)

EnterKsh ==
  /\ pc = "ksh" /\ line /\ mode' = "ksh" /\ Goto("script")
  /\ UNCHANGED <<campaign, after, line, turns, world>>

\* The output is looked at after the shell was left.
Then == IF phase = "pre" THEN "clean" ELSE "backups"
AfterScript_Any(ok) == Then
AfterScript(ok) == IF ok THEN Then ELSE "error"

RunScript ==
  /\ pc = "script" /\ line /\ Goto("unksh")
  /\ \/ after' = AfterScript(FALSE) /\ UNCHANGED <<boot, backup>>
     \/ /\ os = "XR" /\ after' = AfterScript(TRUE)
        /\ IF phase = "pre" THEN UNCHANGED <<boot, backup>>
           ELSE \/ boot' = run /\ backup' \in {backup, TRUE}
                \/ Quiet /\ UNCHANGED <<boot, backup>>
  /\ UNCHANGED <<campaign, session, turns, store, device, dialog, marks, fpds,
                 os>>

LeaveKsh_Stays == mode
LeaveKsh == "exec"

ExitKsh ==
  /\ pc = "unksh" /\ line /\ mode' = LeaveKsh /\ Goto(after)
  /\ UNCHANGED <<campaign, after, line, turns, world>>

-----------------------------------------------------------------------------
(* _handle_configs: from the router through NoX to the repository.         *)

\* Files that cannot be removed stay, with a warning.
CleanUp ==
  /\ pc = "clean" /\ Goto("admincfg")
  /\ \E kept \in {{}, {"admin.cal", "admin.iox"}, LocalFiles} :
       local' = [f \in LocalFiles |-> IF f \in kept THEN local[f] ELSE {}]
  /\ UNCHANGED <<campaign, after, session, turns, repo, device, dialog, marks,
                 fpds, box>>

Capture(f, part, next) ==
  /\ line /\ local' = [local EXCEPT ![f] = {<<part, run>>}] /\ Goto(next)
  /\ UNCHANGED <<campaign, after, session, turns, repo, device, dialog, marks,
                 fpds, box>>

CaptureAdmin == pc = "admincfg" /\ Capture("admin.cfg", "adm", "xrcfg")
CaptureXr    == pc = "xrcfg" /\ Capture("xr.cfg", "xr", "noxadmin")

\* There are converted files, and NoX reports that it knows every line.
Converted_FileOnly(files, known) == \A f \in files : local'[f] # {}
Converted(files, known) == known /\ \A f \in files : local'[f] # {}

\* _run_migration_on_config: chmod and NoX start at the same time, NoX may
\* not be executable yet, may write nothing, or find unknown lines.
Nox(cfg, files, next) ==
  /\ \E wrote, known \in BOOLEAN :
       /\ known => wrote
       /\ local' = [f \in LocalFiles |->
                      IF wrote /\ f \in files THEN local[cfg] ELSE local[f]]
       /\ Goto(IF Converted(files, known) THEN next ELSE "error")
  /\ UNCHANGED <<campaign, after, session, repo, device, dialog, marks, fpds,
                 box>>

NoxAdmin ==
  /\ pc = "noxadmin" /\ turns' = 0
  /\ Nox("admin.cfg", {"admin.cal", "admin.iox"}, IF job.custom THEN "upload" ELSE "noxxr")

NoxXr ==
  /\ pc = "noxxr" /\ turns' = 0
  /\ Nox("xr.cfg", {"xr.iox"}, "merge")

Merge ==
  /\ pc = "merge" /\ Goto("upload")
  /\ local' = [local EXCEPT !["merged"] = local["admin.iox"] \cup local["xr.iox"]]
  /\ UNCHANGED <<campaign, after, session, turns, repo, device, dialog, marks,
                 fpds, box>>

\* _upload_files_to_server_repository: one after the other, the first that
\* fails is an error.
Upload ==
  /\ pc = "upload"
  /\ \/ /\ repo' = [repo EXCEPT !["cal"] = local["admin.cal"],
                                !["xr"] = IF job.custom THEN @ ELSE local["merged"]]
        /\ Goto("copy") /\ k' = 1
     \/ /\ repo' \in {repo, [repo EXCEPT !["cal"] = local["admin.cal"]]}
        /\ Goto("error") /\ UNCHANGED k
  /\ UNCHANGED <<campaign, after, session, turns, local, device, stage, fsm,
                 marks, fpds, box>>

-----------------------------------------------------------------------------
(* _copy_files_to_device: a dialog for each file, then a look at it.       *)

\* Transitions and polls are counted.
Turn_Same == turns
Turn      == turns + 1

CopyList == <<"cal", "xr", "image">> \o IF job.crypto THEN <<"crypto">> ELSE <<>>
File     == CopyList[k]

Copy ==
  /\ pc = "copy"
  /\ stage' = "ask" /\ fsm' = 0 /\ turns' = 0
  /\ Goto(IF k > Len(CopyList) THEN "fpds" ELSE "dialog")
  /\ UNCHANGED <<campaign, after, session, store, device, k, marks, fpds, box>>

\* What the router may show next.  An answer the tables do not know is a
\* prompt in the middle of the transfer.
Failures == {"timeout", "nosuch", "failed"}
Shows ==
  CASE stage = "ask"    -> Failures \cup {IF job.sftp THEN "password" ELSE "filename"}
    [] stage = "exists" -> {"overwrite"}
    [] stage = "moving" -> Failures \cup {"copied"}
                             \cup (IF job.sftp THEN {} ELSE {"data"})
                             \cup (IF Quiet THEN {"prompt"} ELSE {})
    [] OTHER            -> {"prompt"}

\* The transitions: -1 ends the dialog, -2 is an error, and an event that a
\* state has no transition for is passed over.
Stop == -1
Fail == -2
Ftp(e) ==
  CASE e = "filename"  /\ fsm = 0 -> 1
    [] e = "overwrite" /\ fsm = 1 -> 2
    [] e = "copied"    /\ fsm \in {1, 2} -> 3
    [] e = "data"      /\ fsm \in {1, 2} -> 2
    [] e = "prompt"    /\ fsm = 3 -> Stop
    [] e \in Failures -> Fail
    [] OTHER -> fsm
Sftp(e) ==
  CASE e = "password"  /\ fsm = 0 -> 1
    [] e = "overwrite" /\ fsm = 1 -> 2
    [] e \in {"copied", "prompt"} /\ fsm \in {1, 2} -> Stop
    [] e \in Failures -> Fail
    [] OTHER -> fsm

Transition_NoTimeout(e) ==
  IF e = "timeout" THEN Stop ELSE IF job.sftp THEN Sftp(e) ELSE Ftp(e)
Transition(e) == IF job.sftp THEN Sftp(e) ELSE Ftp(e)

\* A transfer that does not come to its end leaves the old file, or a part of
\* the new one.
Transferred(e) ==
  CASE e = "copied" ->
         disk' = [disk EXCEPT ![File] = repo[File]] /\ whole' = whole \cup {File}
    [] e # "copied" /\ stage = "moving" /\ e \notin {"data", "nosuch"} ->
         \/ UNCHANGED device
         \/ disk' = [disk EXCEPT ![File] = repo[File]] /\ whole' = whole \ {File}
    [] OTHER -> UNCHANGED device

DialogStep ==
  /\ pc = "dialog" /\ line /\ turns < MaxTurns
  /\ turns' = Turn
  /\ \E e \in Shows :
       /\ Transferred(e)
       /\ stage' = CASE stage = "ask" -> IF disk[File] # {} THEN "exists" ELSE "moving"
                     [] e = "copied" -> "ended"
                     [] OTHER -> "moving"
       /\ fsm' = IF Transition(e) \in {Stop, Fail} THEN fsm ELSE Transition(e)
       /\ Goto(CASE Transition(e) = Stop -> "dir"
                 [] Transition(e) = Fail -> "error"
                 [] OTHER -> "dialog")
  /\ UNCHANGED <<campaign, after, session, store, k, marks, fpds, box>>

\* max_transitions.
DialogEnds ==
  /\ pc = "dialog" /\ turns = MaxTurns /\ Goto("error")
  /\ NothingElse

\* "dir": is there such a file?
Dir ==
  /\ pc = "dir" /\ line
  /\ IF disk[File] = {} THEN Goto("error") /\ UNCHANGED k
                        ELSE Goto("copy") /\ k' = k + 1
  /\ UNCHANGED <<campaign, after, session, turns, store, device, stage, fsm,
                 marks, fpds, box>>

-----------------------------------------------------------------------------
(* _ensure_updated_fpd.                                                    *)

CheckFpd ==
  /\ pc = "fpds" /\ line
  /\ todo' = {f \in Fpds : fpd[f] = "need" /\ f[2] \in marks}
  /\ Goto(IF todo' = {} THEN "refresh" ELSE "upgrade")
  /\ UNCHANGED <<campaign, after, session, turns, store, device, dialog, marks,
                 fpd, logged, subtype, num, box>>

\* One subtype on all locations; the FPDs that were upgraded are logged.
UpgradeFpd ==
  /\ pc = "upgrade" /\ line
  /\ subtype' \in Subtypes(todo)
  /\ \E S \in SUBSET {f \in Fpds : f[1] = subtype' /\ fpd[f] = "need"} :
       /\ fpd' = [f \in Fpds |-> IF f \in S THEN "current" ELSE fpd[f]]
       /\ logged' = logged \cup S
  /\ pc' \in {"fpdlog", "error"}
  /\ UNCHANGED <<campaign, after, session, turns, store, device, dialog, marks,
                 todo, num, box>>

\* The log must report every location.
Reported_Any(S) == S \cap logged # {}
Reported(S) == S \subseteq logged

CheckLog ==
  /\ pc = "fpdlog" /\ line
  /\ LET S == {f \in todo : f[1] = subtype} IN
       IF Reported(S)
         THEN /\ todo' = todo \ S
              /\ Goto(IF todo' = {} THEN "refresh" ELSE "upgrade")
         ELSE Goto("error") /\ UNCHANGED todo
  /\ UNCHANGED <<campaign, after, session, turns, store, device, dialog, marks,
                 fpd, logged, subtype, num, box>>

-----------------------------------------------------------------------------
(* Migrate and Post-Migrate: backups, reload, FINAL Band, commands.        *)

CheckBackups ==
  /\ pc = "backups" /\ line /\ Goto(IF backup THEN "reload" ELSE "error")
  /\ NothingElse

\* What ctx.reload returns is not looked at.  A reload completes the FPD
\* upgrades that ask for it, and cuts off the others.
Reload ==
  /\ pc = "reload" /\ line /\ Goto("band") /\ turns' = 0
  /\ after' = "platform"
  /\ \/ UNCHANGED <<os, fpd>>
     \/ phase = "migrate" /\ boot # 0 /\ os' = "eXR" /\ fpd' \in [Fpds -> BootStates]
     \/ /\ phase = "post" /\ UNCHANGED os
        /\ fpd' = [f \in Fpds |-> CASE fpd[f] = "rload" -> "current"
                                    [] fpd[f] = "upgrading" -> "need"
                                    [] OTHER -> fpd[f]]
  /\ UNCHANGED <<campaign, session, store, device, dialog, marks, logged, todo,
                 subtype, num, boot, backup>>

\* wait_for_final_band: the release, the supported cards, the polls.
BandVersion ==
  /\ pc = "band" /\ line /\ pc' \in {"admin", "error"} /\ NothingElse

\* "admin" and "exit".
EnterAdmin(to) ==
  /\ line /\ mode' = "admin" /\ turns' = 0 /\ Goto(to)
  /\ UNCHANGED <<campaign, after, line, world>>

ExitAdmin(to) ==
  /\ line /\ mode' = "exec" /\ turns' = 0 /\ Goto(to)
  /\ UNCHANGED <<campaign, after, line, world>>

BandAdmin == pc = "admin" /\ EnterAdmin("nodes")

BandNodes ==
  /\ pc = "nodes" /\ line /\ pc' \in {"exit", "error"} /\ NothingElse

BandExit == pc = "exit" /\ ExitAdmin("final")

\* Not all nodes in FINAL Band is a warning.
BandPoll ==
  /\ pc = "final" /\ line /\ Turn < MaxTurns
  /\ turns' = Turn /\ pc' \in {"final", after}
  /\ UNCHANGED <<campaign, after, session, world>>

BandTimeout ==
  /\ pc = "final" /\ Turn >= MaxTurns /\ Goto(after)
  /\ NothingElse

\* run_additional_custom_commands: unless the operator's commands are run
\* anyway; a PluginError of the capture, which has disconnected, is a warning.
Commands ==
  /\ pc \in {"configs", "platform"}
  /\ Goto(IF pc = "configs" THEN "fpdadmin" ELSE "refresh")
  /\ \/ UNCHANGED line
     \/ line /\ line' = FALSE
  /\ UNCHANGED <<campaign, after, mode, turns, world>>

-----------------------------------------------------------------------------
(* Post-Migrate: _check_fpds_for_upgrade and _upgrade_all_fpds.            *)

InState(st) == Cardinality({f \in Fpds : fpd[f] = st})

\* num_fpds, counted in the text of the table.
Expected_Twice == 2 * InState("need") + InState("current")
Expected       == InState("need") + InState("current")

FpdAdmin == pc = "fpdadmin" /\ EnterAdmin("table")

FpdTable ==
  /\ pc = "table" /\ line
  /\ IF InState("need") > 0
       THEN num' = Expected /\ Goto("start") /\ UNCHANGED after
       ELSE Goto("fpdexit") /\ after' = "platform" /\ UNCHANGED num
  /\ UNCHANGED <<campaign, session, turns, store, device, dialog, marks, fpd, logged,
                 todo, subtype, box>>

FpdStart ==
  /\ pc = "start" /\ line /\ Goto("poll")
  /\ fpd' = [f \in Fpds |-> IF fpd[f] = "need" THEN "upgrading" ELSE fpd[f]]
  /\ UNCHANGED <<campaign, after, session, turns, store, device, dialog, marks,
                 logged, todo, subtype, num, box>>

Upgraded_CountStarted == InState("current") + InState("rload") + InState("upgrading") >= num
Upgraded == InState("current") + InState("rload") >= num

FpdPoll ==
  /\ pc = "poll" /\ line /\ Turn < MaxTurns
  /\ turns' = Turn
  /\ IF Upgraded
       THEN Goto("fpdexit") /\ after' = IF InState("rload") > 0 THEN "reload" ELSE "platform"
       ELSE UNCHANGED <<pc, after>>
  /\ UNCHANGED <<campaign, session, world>>

FpdTimeout ==
  /\ pc = "poll" /\ Turn >= MaxTurns /\ Goto("fpdexit") /\ after' = "error"
  /\ UNCHANGED <<campaign, session, turns, world>>

FpdExit == pc = "fpdexit" /\ ExitAdmin(after)

Plugin ==
  \/ Refresh \/ RaiseError \/ NoLine
  \/ Audit \/ Checks \/ EnterKsh \/ RunScript \/ ExitKsh
  \/ CleanUp \/ CaptureAdmin \/ CaptureXr \/ NoxAdmin \/ NoxXr \/ Merge \/ Upload
  \/ Copy \/ DialogStep \/ DialogEnds \/ Dir
  \/ CheckFpd \/ UpgradeFpd \/ CheckLog
  \/ CheckBackups \/ Reload \/ BandVersion \/ BandAdmin \/ BandNodes \/ BandExit
  \/ BandPoll \/ BandTimeout \/ Commands
  \/ FpdAdmin \/ FpdTable \/ FpdStart \/ FpdPoll \/ FpdTimeout \/ FpdExit

-----------------------------------------------------------------------------
(* The router by itself: an upgrade ends, with success or not.             *)

FpdEnds(f) ==
  /\ fpd[f] = "upgrading"
  /\ \E st \in {"current", "rload", "need"} : fpd' = [fpd EXCEPT ![f] = st]
  /\ UNCHANGED <<campaign, pc, after, session, turns, store, device, dialog, marks,
                 logged, todo, subtype, num, box>>

Operator == StartPre \/ StartMigrate \/ StartPost

\* The operator may leave it at that.
Idle == pc \in Over /\ UNCHANGED vars

Next == Plugin \/ SendFails \/ Operator \/ (\E f \in Fpds : FpdEnds(f)) \/ Idle

\* A plugin is a sequential program, and every send has a timeout.
Spec == Init /\ [][Next]_vars /\ WF_vars(Plugin)

-----------------------------------------------------------------------------
(* Properties.                                                             *)

\* Types of the variables.
TypeOK ==
  /\ phase \in Phases /\ run \in 0 .. MaxRuns /\ job \in Job
  /\ preRun \in 0 .. MaxRuns /\ progress \in Phases \cup {"none"}
  /\ pc \in Over \cup Sends \cup {"error", "clean", "noxadmin", "noxxr", "merge",
                                 "upload", "copy"}
  /\ after \in {"none", "clean", "backups", "error", "configs", "platform", "reload"}
  /\ mode \in {"exec", "ksh", "admin"} /\ line \in BOOLEAN
  /\ turns \in 0 .. MaxTurns
  /\ local \in [LocalFiles -> Content] /\ repo \in [Files -> Content]
  /\ disk \in [Files -> Content] /\ whole \subseteq Files
  /\ k \in 1 .. 5 /\ stage \in {"ask", "exists", "moving", "ended"} /\ fsm \in 0 .. 3
  /\ cards \in [Locs -> Card] /\ fpd \in [Fpds -> FpdStates] /\ logged \subseteq Fpds
  /\ marks \subseteq Locs /\ todo \subseteq Fpds
  /\ subtype \in Subtypes(Fpds) \cup {"none"} /\ num \in 0 .. Cardinality(Fpds)
  /\ os \in {"XR", "eXR"} /\ boot \in 0 .. MaxRuns /\ backup \in BOOLEAN

\* The phases in order: what a run may find is settled by the phase, and by what
\* the operator has seen return.
PhasesInOrder ==
  /\ pc # "idle" => run \in Runs
  /\ phase = "pre" => preRun = run /\ os = "XR" /\ progress \in {"none", "pre"}
  /\ phase = "migrate" => progress \in {"pre", "migrate"}
  /\ phase = "post" => os = "eXR" /\ progress \in {"migrate", "post"}
  /\ pc \notin Over /\ phase = "pre" => progress = "none"
  /\ pc \notin Over /\ phase = "migrate" => progress = "pre"

\* Labels of one phase only, and where a run goes on after a shell.
PreOnly  == {"audit", "checks", "clean", "admincfg", "xrcfg", "noxadmin", "noxxr", "merge",
             "upload", "copy", "dialog", "dir", "fpds", "upgrade", "fpdlog"}
InBand   == {"band", "admin", "nodes", "exit", "final"}
PostOnly == {"configs", "fpdadmin", "table", "start", "poll", "fpdexit"}

LabelsInPlace ==
  /\ pc \in PreOnly => phase = "pre"
  /\ pc \in {"ksh", "script", "unksh"} => phase # "post"
  /\ pc = "backups" => phase = "migrate"
  /\ pc \in InBand \cup {"reload", "platform"} => phase # "pre"
  /\ pc \in PostOnly => phase = "post"
  /\ pc = "unksh" => after \in {Then, "error"}
  /\ pc \in InBand => after = "platform" \/ (after = "configs" /\ phase = "post")
  /\ pc = "fpdexit" => after \in {"platform", "reload", "error"}
  /\ pc \in {"dialog", "dir"} => k <= Len(CopyList)

\* The prompt at each label; an error may come at any of them.
PromptKnown ==
  /\ pc \in {"script", "unksh"} => mode = "ksh"
  /\ pc \in {"nodes", "exit", "table", "start", "poll", "fpdexit"} => mode = "admin"
  /\ pc \notin {"script", "unksh", "nodes", "exit", "table", "start", "poll", "fpdexit",
                "error", "raised"} => mode = "exec"

\* The inductive invariant of Migration_proofs.
MInv == TypeOK /\ PhasesInOrder /\ LabelsInPlace /\ PromptKnown

\* From the return of Pre-Migrate on, whatever runs have failed before it or
\* fail after it, every file the router needs is complete and was made from
\* the configurations which that run captured: no file of an earlier attempt
\* is left, in csm_data, in the repository or on the router.
Made(f) ==
  CASE f = "cal" -> {"adm"}
    [] f = "xr" /\ ~job.custom -> {"adm", "xr"}
    [] OTHER -> {"op"}
Provisioned ==
  progress = "pre" =>
    \A i \in 1 .. Len(CopyList) :
      CopyList[i] \in whole /\ disk[CopyList[i]] = Made(CopyList[i]) \X {preRun}

\* After Pre-Migrate no FPD needs an upgrade on a card that is taken over: all
\* but the fans, the power modules and the unsupported line cards
\* (ios_xr/hardware_audit.py:75-79).
FpdsUpgraded ==
  progress = "pre" /\ os = "XR" =>
    \A f \in Fpds :
      fpd[f] = "need" => LET c == cards[f[2]] IN
                           c.kind \in {"FAN", "PEM"} \/ (c.kind = "LC" /\ ~c.listed)

\* Migrate reloads the router only when the script of this very run has set
\* the boot mode, and with everything that Pre-Migrate brings in its place.
ReloadsPrepared ==
  pc = "reload" /\ phase = "migrate" => boot = run /\ progress = "pre" /\ backup

\* Post-Migrate neither reloads nor returns while an FPD is being upgraded.
UpgradeFinished ==
  phase = "post" /\ pc \in {"reload", "platform", "refresh", "returned"} =>
    \A f \in Fpds : fpd[f] # "upgrading"

\* The shell and admin mode are left before anything that is meant for XR
\* exec, on every path.
LeavesAtExec ==
  pc \in {"returned", "clean", "backups", "reload", "configs", "platform",
          "refresh", "fpds", "final", "band"} => mode = "exec"

\* Every run comes to an end.
RunsEnd == (pc \notin Over) ~> (pc \in Over)

=============================================================================
