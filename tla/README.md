# A verification development of csmpe

csmpe ("CSM plugin engine") drives software upgrades of Cisco routers over a
terminal session. A test suite is a JSON file of test cases ("Add", "Activate",
"Commit", ... or a list of commands); the driver runs them one after another,
each as a plugin that types commands on the router, watches the router's
background install operations, and writes a verdict to `result.log`. This
directory holds TLA+ models of the parts with real control flow, the TLC runs
that check small instances of them, and TLAPS proofs of what holds for all
instances. Paths below are relative to `src/`.

## 1. Inventory

| Component | State it keeps | Operations | What is hard about it |
|---|---|---|---|
| **eXR install plugins**, `csmpe/core_plugins/csm_install_operations/exr/*.py` | operation id, session mode (XR exec or admin), watch loop (`time_tried`, `finish`), poll loop (`time_waited`) | Add, Remove, Remove Inactive (All), Activate, Deactivate, Prepare, Prepare Clean, Extract, Commit | the operation runs in the background, other users run theirs, completion texts come at any time, the router reloads, the connection drops, admin mode is entered and left in four places |
| **suite driver**, `csmpe/__main__.py` | `result.log`, `tc.json`, `session.log`, `results.xml`, the loop variables | run suites, run a test case, stamp, convert | `continue`, `break` and `finally` decide what reaches the files; placeholders must be replaced before they are used |
| **test case contract** | the status of a test case, how `run()` ended | report, return, raise | what the driver may rely on |
| **plugin manager**, `csmpe/csm_pm.py` | loaded plugins, filters | load, filter, dispatch | silently runs nothing, or several plugins of one name |
| **plugin context and storage**, `csmpe/context.py`, `csmpe/decorators.py` | connection, `_storage` shared by all test cases of the process | send, error, save_data, load_data | stale or missing data |
| **custom commands plugin** | status of the test case | one report per command | the last one wins |
| **IOS XR install plugins**, `.../ios_xr/*.py` | operation id, the command (repeated with `parallel-reload`), watch loops, poll loop | Add, Remove, Remove All Inactive, Activate, Deactivate, Commit; the choice of the packages that a command names | as eXR; a second command is sent by itself; Remove All Inactive guesses its id before it has one; packages are compared by an equality that is not transitive, with two looks at a router that others use |
| **IOS XE and IOS install plugins**, `.../ios_xe/*.py`, `.../ios/*.py` | five keys of the storage (mode, package, number of RSPs); on the router images, sub-packages, `packages.conf`, the boot variable and its saved copy, an ISSU under way | Add, Pre-Activate, Activate, Remove | which mode is chosen; a job that fails leaves files, partial copies or a cleared boot variable for the next; a reload cannot be taken back |
| **migration**, `.../ios_xr/hardware_audit.py`, `pre_migrate.py`, `migrate.py`, `post_migrate.py`, `migration_lib.py` | files in `csm_data`, in the server repository and on the router; FPD versions; boot mode | audit, pre-migrate, migrate, post-migrate | many steps, each may fail and leave something for the next attempt |
| **status checks** (nodes, redundancy, ISIS) | what was saved before the upgrade | check, compare | compare with data that was never saved, or of an earlier upgrade; run in an order left to chance, before an install plugin |
| **filesystem, core, startup and inventory checks; configuration capture** | none to speak of | one command, one look at its output | any of them may end the upgrade |
| **simulator boot**, `csmpe/boot_sunstone.py` | none | fixed commands and waits | nothing |

How they interact. The driver creates an `InstallContext` and a
`CSMPluginManager` (which connects) per test case; `dispatch` calls the
plugin's `run()`. Plugins talk to the driver through three files of the
suite's log directory: `report_log` writes the status of entry `tc_id - 1` of
`result.log`, `process_save_data` replaces placeholders such as `<id1>` in
`tc.json` by the operation id, and the connection writes `session.log`. An
exception is the only signal of failure; `ctx.error` disconnects and raises.
Plugins talk to the router only through `ctx.send` and `ctx.run_fsm`.

What makes each component correct: an install plugin must watch and judge *its
own* operation, in the domain it was started in, only after it ended, come
back from a reload only when every node is up, raise after every "Failed", and
always end; the driver must run the test cases of a suite in order up to the
first one that raises, with their placeholders replaced, and lose no verdict.

## 2. Modules

### `TestCase` — the contract

`phase` (running, returned, raised) and `verdict` (the status in
`result.log`). `ReportPassed` may happen several times (every nextlevel command
with a pattern reports), `ReportFailed` is final, `Return` needs "Passed",
`Raise` is always possible. The fairness says that a test case ends.

### `ExrInstall` — an eXR install test case against the router

The whole of one `run()`: the plugin, the terminal session, and the router.

| Variables | Code |
|---|---|
| `pc`, `job` | where `run()` and the helpers are; the test case of `tc.json` (operation, shell, pattern, nextlevel, save_data) and the kind of line |
| `reply`, `shown`, `opId`, `todo` | the event matched by `install_activate_deactivate`'s FSM or found in the output, the id the output names, `op_id`, the nextlevel entries left |
| `tried`, `finish`, `fault` | `watch_operation`'s `time_tried`, `finish` and `e` |
| `polls` | `wait_for_reload`'s `time_waited` in units of `poll_time` |
| `verdict`, `saved` | the status in `result.log`; have the placeholders been replaced |
| `depth`, `missed`, `unread` | the session: logged out, XR exec, admin mode; was the last "admin" passed over; completion texts in the terminal buffer |
| `op`, `dom`, `started`, `mine`, `pend`, `router`, `nodes` | the router (external) |

Every `ctx.send` and every look at the router is one step of its own, so that the
router and other users move between any two of them; code between two sends is
part of the step. Three places send in a row what is one step here: an "AdminBash" entry of
nextlevel and `save_package_names` ("admin", a command, "exit"), and the two "exit"s of
Extract. Which action is which code is listed in `PROJECT.json`. In short:
`EnterAdmin`, `Plain*`, `Fsm*` issue the command and read the answer (the ten
events of the FSM are the members of `AllReplies`); `Resolve`, `Confirm`, `AskId`
find the operation id; `NextLevel*` is `nextlevel_processing`; `Watch*` is
`watch_operation` with its three reconnections; `WaitReload`, `Poll`,
`PollTimeout` are `wait_for_reload`; `Peek`, `Report*`, `AdminReloadTail` and
`AdminPlatform` the verdict; `SaveData`, `Leave` the end; `RaiseError` is `ctx.error`,
`RaiseCrash` a NameError or TypeError of the code itself. `SwitchMode` is the "admin" that
`report_install_status`, each turn of `wait_for_reload` and the end of `handle_admin_reload`
send in the Admin shell in `try: ... except: pass` (`exr/install.py:388-393`, `264-269`,
`539-543`): it may fail, with or without the session, and the plugin goes on as if it had
not. `SendFails` is whatever `ctx.send` raises elsewhere, but for `watch_operation` and the
reconnection on the console, which catch it too.

Abstractions. "add" stands for the four plugins that call
`observe_install_add_remove`, "prepare" for Prepare and Deactivate. A pattern is
the set of outcomes of an operation whose log it matches. Sleeps, progress
messages and the closing `ctx.disconnect` (whose errors are passed over) are left
out. The scp and sftp dialogs of Add are one command.

Assumptions about the router, which is not in the repository and is modelled from
how the plugins use it and from the transcripts in their docstrings: one install
operation at a time in each domain; a refusal that is due to one names it;
"show install request" answers for the domain the session is in; completion
texts reach the terminal of a session in the operation's domain, and its log is shown there
only; a reload begins
some time after the operation that asks for it has succeeded, and closes the
session. An operation may also abort, nodes may stay down for ever, and a line
may fail at any command when `Faults` says so.

### `XrInstall` — an IOS XR install plugin against the router

The same for `ios_xr/`: one `run()`, the session and the router, one `ctx.send`
per step. `Prepare` is what precedes the command (repository, package lists);
`Accepted`, `FailsAtOnce`, `Refused` the answers to it. `Watch*` is
`watch_operation` and the copy of its loop in `install_remove_all` (`Guesses`), which
waits where the other reconnects; `ReadLog` with `Judge` and `AfterMethod` is what
the callers and `watch_install` make of the log; `Retry*` is the repetition with
`parallel-reload`; `WaitReload`, `Poll`, `PollTimeout` are `wait_for_reload`.
`ExpectId`, `Asked`, `Confirm`, `DialogFails` are the dialog of Remove All Inactive.
`opId` is `op_id`, `stored` is `ctx.operation_id`, `cmd` tells whether the command
was repeated, `seen` whether `output` is still `None`. `prior` and `mine` remember
the operations that the first and the repeated command started.

"install" stands for Activate and Deactivate. These plugins write no status, so they
have no `TestCase` to implement: what the driver sees of them is that `run()`
returns or raises.

About the router, beyond what is said above: a refusal names no operation, there is
one install domain, ids are given in order, and an operation whose method is Parallel
Reload reloads the router after it has completed, with or without failure. How an
operation may end (`Ends`: success, completed with failure, failed, failed for want
of a parallel installation, aborted) and whether the log of a failed one names an
install method (`FailedShowsMethod`) are constants.

### `Migration` — from IOS XR to 64-bit IOS XR, over several runs

An operator begins the phases in order, and begins one again that has raised, or
starts over with Pre-Migrate while the router still runs IOS XR. One run of a phase
is a plugin as above; what it leaves behind (files, FPD versions, boot mode, the
log) stays for the next.

| Variables | Code |
|---|---|
| `phase`, `run`, `job`, `preRun`, `progress` | the operator: the phase, the number of the run, the options of the install job, the last Pre-Migrate, the last phase that returned |
| `pc`, `after`, `mode`, `line`, `turns` | where `run()` is, where it goes once a shell is left, the prompt, the connection, the transitions or polls of the loop under way |
| `local`, `repo`, `disk`, `whole` | files in `csm_data/migration/<hostname>`, in the server repository, on the router, and those that are complete there |
| `k`, `stage`, `fsm` | the file being copied, the router's side of the dialog, the state of the FSM |
| `cards`, `fpd`, `logged`, `marks`, `todo`, `subtype`, `num` | the router's cards and FPDs, its log, `fpd_relevant_nodes`, `subtype_to_locations_need_upgrade`, `fpdtype`, `num_fpds` |
| `os`, `boot`, `backup` | the router: what it runs, the run that set the boot mode, whether the configurations are backed up |

A file's content is the set of configurations it was made from, each with the run
that captured it: that is all that the properties ask. `Audit`, `Checks` and the
shell script open Pre-Migrate; `CleanUp`, `Capture*`, `Nox*`, `Merge`, `Upload` are
`_handle_configs`; `Copy`, `DialogStep`, `DialogEnds`, `Dir` copy one file after the
other, with the transitions of the two dialogs as tables (`Ftp`, `Sftp`); `CheckFpd`,
`UpgradeFpd`, `CheckLog` are `_ensure_updated_fpd`, whose own dialog ends well or not.
`RunScript` is each of the two scripts; `CheckBackups` and `Reload` follow in Migrate.
`Band*` is `wait_for_final_band`, `Commands` is `run_additional_custom_commands`, `Fpd*`
are `_check_fpds_for_upgrade` and its poll loop. `FpdEnds` is the router.

Assumptions. The router has a file or a part of one after a transfer that fails; NoX
reports that it knows every line only when it has written its output; a script or a
transfer that fails says so in a form the code looks for. The last is the constant
`Quiet`. With `Quiet = TRUE` TLC finds `Provisioned`, `FpdsUpgraded` and
`ReloadsPrepared` violated: the sftp table takes the prompt after an error it does not
list for the end of the copy, and `dir` then sees an old file; `show log` may hold the
messages of an earlier upgrade; the script's output is only searched for two texts,
and the backups may be old.

In this repository the phases cannot run as they are: `get_host`, `load_job_data` and
some others are attributes of the job object of CSM Server, which is external. The
model takes what they return from how the plugins use it.

### `XrPackages` — which packages an IOS XR command names

Activate, Deactivate and Remove compare the list of the job with what the router shows,
by the sets and `__eq__` of `ios_xr/package_lib.py`. `XrInstall` leaves this out: its
`Prepare` goes on with a command, returns or raises; here that choice is made.

| Variables | Code |
|---|---|
| `inactive`, `active`, `moved` | what the router has; has another user moved a package since the job began? |
| `pc`, `kind`, `given` | where the plugin is, which one it is, `ctx.software_packages` |
| `read`, `pkgs` | the loop of `from_package_list` and its set |
| `seenInact`, `seenAct` | `installed_inact`, `installed_act` |
| `cmd` | the names in the command |

`ReadName` is one turn of `from_package_list`, `LookInactive` and `LookActive` the two
"admin show install", `Select` the set difference or intersection and what follows from
it; `Meet` is `&` of Python 2, which returns the elements of the smaller set, after `__eq__` has put
the disk before a name without one. `Raises` is `ctx.error`, a failed look, or a command that is refused
or whose operation fails; `Succeeds` the operation; `OtherMoves` another user.

Abstractions. A name is what the regular expressions read of it: `base` and the
subversion, which may be missing; that `subversion_re` reads only one digit at either end (1.0.1 for
1.0.10) is left out by letting no two packages be equal (`PkgAssumption`). There is one disk.
The set of a "show" has every package once. With an operation id nothing is selected.

### `XeInstall` — IOS XE and IOS, over several jobs

An operator has jobs run on one router, one after the other: Add, Pre-Activate,
Activate, Remove, for some package. `csm_pm.py` runs Pre-Activate before Activate. Each
job may raise at any `ctx.send`; what it leaves on the RSPs is where the next one starts.

| Variables | Code |
|---|---|
| `box`, `job`, `run`, `added` | the router; the operator's job, and the packages he has added and not removed |
| `pc`, `at`, `polls`, `line` | where the plugin is; the RSP that the helpers work on (`folder`, `stby_folder`); `time_waited`; the connection |
| `plan` | the keys `xe_boot_mode`, `xe_rsp_count`, ... of the storage |
| `warned` | has Activate warned? |
| `flash`, `conf` | the files of each RSP: whole and partial images, complete sets of sub-packages; what its `packages.conf` names |
| `boot`, `nvram` | the boot variable in the running and in the saved configuration |
| `runs`, `via`, `router`, `ready`, `issu`, `said` | what each RSP runs and from what, is it up, are the nodes up, the stage of the ISSU and its last output |

`Add`, `Remove*` are `install_add_remove` and `remove_exist_image`; `Pre*`, `Clean*`,
`Space` are Pre-Activate (`check_pkg_conf`, `remove_exist_subpkgs`, `check_issu_readiness`);
`CopyImage` is `install_add_remove` again, called by Activate; `Backup`, `DropConf`,
`Expand*`, `CopyToStandby*` are `expand_subpkgs` and `expand_subpkgs_exec` of
`ios_xe/install.py`; `Configure` to `WriteMemory` the boot variable, up to
`install_activate_write_memory`; `Reload` is `install_activate_reload`, `Issu*`
`install_activate_issu`, `Reconnect` and `Poll*` `wait_for_reload`; `Verify`, `Tidy`,
`Compare` what follows in Activate. The result of `ctx.reload` is not looked at, so a
`Reload` may leave the router as it is; a deletion of `Tidy` that fails is passed over.
`BootsUp`, `IssuStage`, `Switchover` are the router.

Abstractions. A job has one package; every package is an image of a version of its own.
Of the files in the folder only complete sets of sub-packages count; what the clean-up
does to `packages.conf-` and to other images is left out. Nothing else changes the
router, so that looks at it belong to the next step that changes something.
Assumptions: the operator activates only what he added, removes neither what runs nor
what is to be booted, and begins a job when the router is up and no ISSU is under way. An
output may be unreadable (`Garbled`), a send may fail (`Flaky`). On IOS and in
consolidated mode nothing looks at an image before it is booted; there a copy that fails
is taken to leave nothing (`partial`). With a storage that outlives the job
(`Persistent`), an ISSU that is not rolled back (`RollsBack`) or a "show platform" that
prints no table yet (`EmptyShow`) the properties do not all hold: see section 3.

### `UpgradeChecks` — the plugin manager and the checks around an install

`csm_pm.py` over the plugins of `setup.py`. A plugin is a record: its name, platforms,
systems, phases, and how its `run()` may end, from the code of that plugin (`Registry`). A
job is a phase, and a name if the driver of `__main__.py` gave one.

| Variables | Code |
|---|---|
| `host`, `job`, `jobs` | the router (family, system), where the storage is (CSM Server, or the process of the command line), the phase and the name filter |
| `pc`, `todo` | the loops of `dispatch` and `_dispatch`: the preliminary phase, the phase; the plugins still to be run |
| `fine` | the plugins of this job that returned |
| `saved`, `before`, `after`, `warned` | the stored ISIS neighbors; what the last Pre-Upgrade and this Post-Upgrade saw; the instances warned of |

`Loaded` is `load` with `_check_plugin`, `Selected` is `_dispatch` with `_filter_func`,
`Start`, `PreDone`, `NoPlugins`, `Done` are `dispatch`. `Returns` and `Fails` end a plugin as
its record allows; `Isis*` are the one plugin with a memory. The entry points of `setup.py`
are named by random ids, so the order in which plugins run is open. One plugin is one
step: nothing else runs in the meantime, and its outcome is chosen anew each time because
the router may have changed. The neighbors of an instance are a number (`Counts`): the
comparison asks whether an instance is gone or its number has changed.

On the command line, Commands always fails (`ctx.shell` is missing), and so does the node
check of eXR everywhere (a `TypeError` at `csm_node_status_check/exr/plugin.py:42`): both
are in the registry as they are.

### `SuiteRunner` — the driver

`jsonparser`'s two loops: `pc`, `s`, `i`; the plugin under way is an instance
of `TestCase` (`Promise`), weakened for the two kinds of test case that keep less
than the promise: custom commands, which may return after a "Failed", and Add in
the Admin shell, which may return without a verdict. `status` and `stamped` are
`result.log`, `bound` is `tc.json`, `logs` is `session.log`, `xml` is
`results.xml`.

### Composition

`ExrInstall` implements `TestCase` (property `ImplementsTestCase`, theorem
`RefinesTestCase`); `SuiteRunner` runs any plugin that does. What `SuiteRunner`
checks of suites therefore holds with the real install plugins in them.

## 3. What the runs check

| Run | Question | Bounds |
|---|---|---|
| `exr_verdicts` | All eXR plugins, in the Admin shell all but Add, with every reply, failing sends, late texts, another user: are verdicts right and always there, do only passed test cases hand on their id, is another user's operation ever taken for the own one while that runs, where does the session end? Is `IInv` an invariant? | 2 operations, 3 polls, nextlevel of up to 2 entries |
| `exr_watch` | XR shell: does the watch end only after its operation, is a reload waited for? | 3 operations |
| `exr_promise` | Does the plugin implement the contract, and always end? | 2 operations |
| `xr_install` | All IOS XR plugins: is the right operation watched, to its end, is the command repeated only for the one reason, does a return mean "installed" and "booted", does every plugin end? Is `XInv` an invariant? | 3 operations, 3 polls, 2 waits |
| `pkg_run` | Does an Activate, Deactivate or Remove that returns have done what its list asks for, is nothing active activated again, does the router know the names? Is `PInv` an invariant? | 3 packages, 10 names, lists of up to 2 |
| `mig_run` | The migration: after a Pre-Migrate that returned, is everything on the router, complete and of this attempt; does the router reload only when prepared; is no FPD upgrade cut off; is every shell left; does every run end? Is `MInv` an invariant? | 4 runs, 8 scenarios, 5 transitions or polls, 2 cards, 3 FPDs, 4 files |
| `xe_run` | IOS XE and IOS: over several jobs that fail anywhere, is the router only reloaded into the complete package of the job, does an Activate that returns without a warning mean that it runs and will be booted, is nothing deleted that runs or is to be booted, does every job end? | 5 jobs, 3 packages, 8 routers, 2 polls |
| `checks_run` | Plugin manager and checks: is an install plugin run only after the checks the router needs, one variant of each plugin, and are lost ISIS neighbors reported? | 3 jobs, 10 routers, 2 ISIS instances |
| `suite_mixed` | The driver: placeholders, break on a raise, nothing lost, `results.xml` written | 4 suites, 11 test cases, 2 placeholders |

Bounds. Two operations are the test case's own and one of another user; three
allow one before and one after it. The code looks at one operation id at a time and
keeps no list, so a further foreign operation repeats the situation. `MaxPolls`
is 120 in the code; the polls differ only in number, and three let the nodes come
up before, between and after polls, and never. The retries of the watch are the
code's own three; those of Remove All Inactive are 121 in the code (`MaxWaits` is
120) and differ only in number. In `XrInstall` the three operations are the first
command's, the repeated command's and one of another user. Two nextlevel entries let one change the mode and a later one
run in it. In `Migration`, four runs let a Pre-Migrate, or a later phase, fail anywhere and be run
again before the phases that follow; `MaxTurns` stands for 40 transitions, 75 polls of
`wait_for_final_band` and 320 of the FPD upgrade, and 5 is one more than the longest
dialog needs. Two FPDs of one subtype on two cards and one of another are what the two
loops over them need. The eight scenarios
are the kinds of copy on a router whose FPDs are current, and the kinds of card with one kind
of copy, because the two do not interact.

In `XeInstall` five jobs are two attempts, each with its Add, and one job more: enough for an Activate
that fails, another package, and an Activate that finds what the first left. The eight
routers are the kinds and modes, one and two RSPs, both places of `packages.conf`, with and
without ISSU. In `XrPackages` two subversions of one SMU
and a package without one are what the equality can confuse, and two names what one can
take from the other; the router starts in any state, so that one job stands for any
sequence of them. In `UpgradeChecks` three jobs are Pre-Upgrade, a job in between and
Post-Upgrade; the ten hosts are each family with each system it runs, one of them also
from the command line, two whose system is not known, and one there is no plugin for.

Conditions under which a run's properties hold are part of its `.cfg`: `exr_watch`
assumes that completion texts come at once (`LateMessages = FALSE`), that
the answer to an FSM command names its id (no reply `"prompt"` or `"noimpact"`), that a
`send` does not time out while the router is up, and that a reload begins within the
minutes `wait_for_reload` sleeps (`PromptReload`). `exr_verdicts` assumes that no pattern
matches the log of a running operation or a refusal without matching every log
(`PassedStaysTrue` fails otherwise), and that "admin" in admin mode starts no second one
(`LeavesAtExec`). `xr_install` assumes the last, that
no operation is aborted and that a failed one's log names no method. `mig_run` assumes
that no error goes unsaid (`Quiet = FALSE`) and that an operator who repeats Post-Migrate
first lets the FPDs come to rest (`Settled`). The other runs show what happens
without them or elsewhere. They are expected to find a violation, and each quotes
the line of the repository it contradicts in `PROJECT.json`:

- `exr_bad_late`: the expression `Install operation N completed|finished
  successfully` is an alternation; its second half is true of any operation, so a
  late text ends the watch.
- `xr_bad_guess`: Remove All Inactive expects the id after the last one in the install
  log. If another user's operation takes that id before the command is sent, it is
  that operation which is watched and whose log decides.
- `mig_bad_fpds`: Post-Migrate counts the FPDs that are current or need an upgrade, and
  polls until as many are current or wait for a reload. One that waited for a reload
  before stands in for one that is still being upgraded when the router is reloaded. It is
  the same in a repeated Post-Migrate whose predecessor failed after it had started the
  upgrades: the FPDs are then being upgraded, or wait for a reload, when the table is read
  (`Settled = TRUE` excludes both).

Other things met while modelling, without a run of their own. Driver: a suite of skipped
test cases has a `result.log` without `stop_time`, and disappears from `results.xml` under
the message "Failed to open". eXR: an Add that is refused because "Install operation 18 is
still in progress" takes 18 for its own id and passes with it, because it has no operation of its
own that runs; an Add in the
Admin shell whose output has an "Op Id", or none, returns before anything is watched or
reported, and its status stays "Not Run" (`ReturnReports` fails with such a test case); every
plugin in the Admin shell that saves the names of its packages sends "exit" twice and is
logged out by the second, and so is Extract in either shell (`ExitsTwice`); if the "admin"
of `report_install_status` (`exr/install.py:388-393`) fails after a reconnection or
an "AdminBash" command has left admin mode, the error is passed over, the log is asked for in
the wrong domain, and the "exit" of `run()` logs the session out (`LeavesAtExec` fails without `~missed`); four
timeouts of the watch are taken for the reload; `get_op_id` takes the id
of any operation in progress when the prompt comes first: once the own operation is over,
or was refused, that is another user's (`OwnWhileRunning` holds only while the own one
runs); a reconnection in the Admin shell makes the watch ask the
wrong domain, and so does an "AdminBash" nextlevel command, whose "exit" leaves admin mode
(`WatchEndsAfterOp` fails with Admin test cases and a connection error, or such a command;
after such a command `get_op_id` and the reload handlers ask the wrong domain too:
`BashLeaves`); `observe_install_add_remove` ends with an undefined `self`, and
`handle_admin_reload` with an undefined `ctx`; the loops that wait for an id in
`handle_issu_reload` and `handle_admin_reload` never end once the operation is over.
For the last reason the replies `"issu"` and `"adminreload"` are not in
`exr_promise`. IOS XR: an exception in the first iteration of `watch_operation`
reconnects and then ends in a `TypeError`, because `output` is still `None`; after
the retry with `parallel-reload` the log is not checked for a failure, so a failed
operation whose log named a method would pass; an aborted operation passes an Add, a
Remove or a Commit because its log does not say "failed" (`PassedMeansInstalled` fails
with `"aborted"` in `Ends`). Package names: a Remove or Deactivate that is given file names
sends them with "disk0:" before them when the list is shorter than what the router has,
and the router's names otherwise, because `&` of two sets returns the elements of the
smaller one (`OwnNames` fails without its condition; `test_intercection` in
`tests/ios_xr/test_package_lib.py` only tries the other order); a list with a name without
a subversion followed by one with it loses the second (`Fulfilled` fails without `Clear`); a name
without a subversion activates every inactive subversion; names that the router does not have are
passed over if another one is found; Remove takes an active package for one "already
removed". Migration: `load_job_data` wraps a missing key in a tuple, so
the checks at `pre_migrate.py:901` and `:926` never fire; `chmod` and NoX are started
at the same time (`pre_migrate.py:413`); the result of `ctx.reload` is not looked at
(`migrate.py:131`); the comma at `migration_lib.py:29` makes the card type a tuple, so
that a card is only waited for if its type is exactly a listed one; a failed capture in
`run_additional_custom_commands` is a warning, but `ctx.error` has disconnected, so that the
next command fails; a custom configuration is not merged with what NoX made of the admin
configuration, against item 6 of the docstring at `pre_migrate.py:756`. IOS XE: with
`RollsBack = FALSE`, the clean-up after an ISSU that failed deletes the sub-packages from
which the standby runs (`BootLostOnlyByExpand` fails); with `EmptyShow = TRUE` the polls end
at once, because the loop over an empty table falls into its `else` (`ActivatedForGood`
fails); with `Persistent = TRUE`, a job without a package list installs what an earlier one
planned (`ReloadsIntoPackage` fails); a partial image on a router in consolidated mode or
under IOS is taken for the package and booted (the same); Remove deletes an image without
looking at what runs; `packages.conf` is deleted before the expansion that writes it, so
that a failure in between leaves an RSP that cannot be booted. Checks: Pre-Upgrade saves
the neighbors only if it sees an active instance, so that a later upgrade may be compared
with an earlier one; a missing key comes back as a tuple and raises a `TypeError` instead of
the warning at `csm_check_isis_neighbors/ios_xr/plugin.py:116`; if "show isis" cannot be
read after the upgrade nothing is compared, and no warning says so; `dispatch` succeeds when
plugins are loaded but none has the phase (`csm_pm.py:154`); the redundancy check passes if
no standby is mentioned; Remove All Inactive has two plugins on eXR and Pre-Activate three
(extract, prepare, prepare clean), run in an order left to chance; with an unknown system
both variants run; custom commands overwrite the status of their test case.

### Properties

- `WatchEndsAfterOp`, `ReturnsAfterBoot`: between the two sends of
  a watch iteration the operation may end, another may start, the router may
  reload, and the connection may be replaced.
- `OwnWhileRunning`: where the answer names no id, or comes after a confirmation, the plugin
  asks which operation is in progress, some commands later; by then its own may have ended
  and another user's begun, in this domain or the other.
- `WatchEndsAfterOp` again in `XrInstall`, with `VerdictOnOwnOp`: there the id may change in
  the middle (`RetryId`) and a text of any operation may come at any time.
- `PassedMeansInstalled`, `RepeatedAfterFailure`: what a return says of the router,
  and that no second command is sent for an operation that may have installed something.
- `PassedStaysTrue`: the log is read once; nothing that happens to the operation later
  may contradict the recorded "Passed".
- `SavedWasPassed`, `ResolvedBeforeUse`: the two ends of the hand-over of operation ids
  through `tc.json`.
- `ReturnReports`, `ImplementsTestCase`, `Terminates`: the contract.
- `LeavesAtExec`: admin mode is entered and left by the plugin, the report, the saving
  of package names and the nextlevel commands, independently, and lost by a reconnection.
  The property says where the session ends: in XR exec, or logged out for the plugins that
  send one "exit" too many (`ExitsTwice`). In `Migration`, ksh and admin mode are left before the next
  command for XR exec, whatever was found there.
- `Provisioned`, `FpdsUpgraded`: what a returned Pre-Migrate says of the router, with the
  remains of failed attempts in three places and any step failing.
- `ReloadsPrepared`, `UpgradeFinished`: the two reloads of the migration, which nothing
  undoes.
- `ReloadsIntoPackage`: the reload cannot be taken back; what is booted was put together in
  several steps on two RSPs, over the remains of jobs that failed.
- `ActivatedForGood`, `RunningFilesKept`, `BootLostOnlyByExpand`: what runs, what the saved
  boot variable names and what lies on the flash of either RSP are three things that each
  job changes one after the other.
- `Fulfilled`: from the list of the job to the state of the router, through an equality
  that is not transitive and sets that keep one of two equal names.
- `NeverActive`, `OwnNames`: two looks at different times; names of the list, of the
  router, and mixtures of both.
- `InstallsChecked`, `OneVariant`: the order of the plugins is open and each may fail.
- `LostNeighborsWarned`: relates two looks at the router several jobs apart, through a
  storage that may be lost, or kept from an earlier upgrade.
- `NothingAfterRaise`, `VerdictsReachXml`, `Completes`: `break`, `finally` and the
  conversion.

`TypeOK` is the type invariant of each module; in `ExrInstall` it also says that
`time_tried` stays within the three retries. `exr_verdicts`, `xr_install`, `pkg_run` and
`mig_run` check it as a part of the inductive invariants `IInv`, `XInv`, `PInv` and `MInv`;
of the other modules it is proved (`TypeCorrect`).

`JobsEnd` and `RunsEnd` say that each job and each phase ends.

Each property is tested against a plausible bug: a definition `X_Word` is `X` with
one (one retry too many, a forgotten `exit`, a "Failed" that does not raise, ...), and
with it in the place of `X` the property is violated.

### Fairness

`ExrInstall`: the plugin is a sequential program and `ctx.send` has a timeout, so it
takes a step whenever one is possible (`WF_vars(Plugin)`); every install
operation ends; a reload that is due begins, and the router boots. Nothing is
assumed of the nodes, of other users, of printed texts or of the line. `Terminates` rests on the
retry counter and the poll limit. `SuiteRunner`: the driver is sequential, and a plugin ends because
`TestCase` promises it, which is what `exr_promise` checks; custom commands end with
their list. `XrInstall`: as `ExrInstall`. Other users may start only finitely many
operations (`MaxOps`): a router that is never without an install request would keep the
watch waiting for an operation that did not succeed. `Migration`: only that the plugin
takes steps; a send may fail (`Flaky`) but need not, FPD upgrades need not end, and
`RunsEnd` rests on the counted turns alone. `XeInstall`: the same; the router need not boot
and the ISSU need not go on, and `JobsEnd` rests on the polls. `UpgradeChecks` has safety
properties only.

## 4. What is proved

`ExrInstall_proofs`, for every set of test cases, replies and faults, any number
of operations and polls, under `ExrAssumption` (the constants have their types):

- `TypeCorrect`: `Spec => []TypeOK`. By cases over the actions; no strengthening
  is needed.
- `Invariance`: `Spec => []IInv`. `IInv` adds to the types what the control flow
  guarantees: an operation not started has no state (`FreshOps`), and the ids the plugin
  knows are of operations that were started (`IdsStarted`); no id is known before the
  command (`NoIdYet`); a "Failed" is only seen on the way to an
  exception, and what saves, leaves or has returned has passed, but for an Add in
  the Admin shell with no id (`VerdictFollowsReport`); the placeholders are
  replaced at the very end (`SavedAtEnd`). `NoIdYet` is needed because an Add
  with no answer goes straight to saving, `FreshOps` because the next operation
  of another user must not be the one a verdict was based on.
- `SavedIdsPassed`: `SavedWasPassed`, from `IInv`.
- `ReturnsReport`: `ReturnReports`, from `IInv`, when no Add runs in the Admin shell
  (with one, TLC finds it violated).
- `PassedForGood`: `PassedStaysTrue`, inductive together with `IInv`, when a pattern
  that accepts a running operation's log, or a refusal, accepts every log. Without it the property is
  false: the log may be read before the end.
- `RefinesTestCase`: every step of the plugin is a step or a stutter of `TestCase`,
  under the condition of `ReturnsReport`.
- `EndsInExec`: `LeavesAtExec` for `~AdminNests` ("admin" in admin mode starts no second
  one), for every plugin and shell. By `InMode`: the session is never deeper than the mode the
  plugin works in, and while the router is up it is open before the reconnections. By
  `AtHome`: at the report it is in that mode, unless it is closed or the last "admin" was
  passed over, because `report_install_status` enters admin mode again after a reconnection
  has left it; from there on the exits are counted.
- `WatchEnds`: `WatchEndsAfterOp` for `Watchable`, the conditions of `exr_watch`: the
  session is in the XR shell, an answer that accepts an activation names its id, and
  completions are printed at once. The invariant `Watching` adds to `IInv` and `InMode` that
  the id shown is the own one (`Answered`), that a domain runs one operation at a time
  (`OneAtATime`), that the watched operation was started (`Given`), that while it runs no
  completion is unread (`NothingUnread`), and that the watch has seen an end only if there
  was one (`EndSeen`). `OneAtATime` is why: the only other operation that can end meanwhile
  is in the other domain, and its text does not reach this terminal.
- `OwnOperation`: `OwnWhileRunning`, with no condition on shells, answers, lines or users.
  Besides `OneAtATime` it needs `SameDomain`: as long as the plugin may ask for its id, and
  its operation runs, the session is in the domain of that operation, so that what is in
  progress there can only be the own one. An "AdminBash" entry still ahead would break it in
  the Admin shell (`BashLeaves`); in the XR shell it returns to where it began.
- `OwnIdAlone`: when nobody else starts operations (`~Foreign`) the plugin has no other id
  than its own, running or not: whatever is in progress is the own one (`Alone`).
- `BootAwaited`: `ReturnsAfterBoot` for `Rebootable`: `Watchable`, a reload that begins before
  the first poll, and timeouts only of a line whose router is reloading. `Rebooting` follows
  the reload through the labels; `OwnReload` says that only the own operation reloads the
  router and that a timeout in the watch means that it has.

`XrInstall_proofs`, under `XrAssumption`, for every set of plugins, faults and ends:

- `TypeCorrect`, `Invariance`: `XInv` adds to the types that ids are given in order
  (`IdsInOrder`), that only a success is announced (`TextsTrue`), that nothing is
  known before the command (`NotYet`), that a watched id was given, and belongs to an
  operation that has ended if the text was seen (`WatchesGiven`), that only Add stores
  an id, and that the repetition follows a log that asks for it (`AgainAfterIncr`).
  `IdsInOrder` is what makes "no install requests in operation" conclusive: an id that
  was given and is not running has ended. For Remove All Inactive the guessed id is at
  most the next one, and once its command has been accepted it has been given, to
  whomever.
- `WatchedToTheEnd`, `OwnOperation`, `RepeatedRightly`: `WatchEndsAfterOp`,
  `VerdictOnOwnOp` and `RepeatedAfterFailure`, from `XInv`, with no condition on the
  router's texts, lines or users.
- `Installed`: `PassedMeansInstalled` for `PlainLogs` (no abort, a failed log names
  no method); `BootAwaited`: `ReturnsAfterBoot` for `PlainLogs` and `PromptReload`.
  Their invariants add to `XInv` that nothing was aborted (`NoAbort`), that the id is
  still the own one after the verdict (`JudgedOwn`), and that the reload has begun when
  the nodes are polled (`ReloadSeen`).

`SuiteRunner_proofs`, under `SuiteAssumption`, for all suites:

- `TypeCorrect`: the loops stay inside the plan and each file keeps one entry per test case.
- `StopsAtRaise`: `NothingAfterRaise`. The invariant `Ahead` says that everything ahead of the
  loops is blank and nothing behind them in the suite has raised.
- `NothingLost`: `VerdictsReachXml`, by `Stamping`: a suite with a verdict is stamped, unless
  the test case that gave it is the one under way.
- `PlaceholdersResolved`: `ResolvedBeforeUse`, by `Saving`: a placeholder is only ever bound to
  a later test case, and an install test case does not end without having saved. It uses
  `Ahead`: a test case that raised would not have saved, but nothing follows it.

`XeInstall_proofs`, under `XeAssumption`, for all packages, routers and any number of jobs:

- `TypeCorrect`: with `PlanKnown` (an Activate that goes on has a plan) and `RouterKnown`
  (only a plugin that waits finds the router down; an ISSU runs only once Activate started
  it), without which what the ISSU restores might be no package.
- `ReloadsComplete`: `ReloadsIntoPackage` for `NoRemains` (the storage ends with the job; a
  copy leaves no part where nothing looks at it again). Its invariant `Prepared` follows the
  files through Activate: the plan is of this job and this router (`OwnPlan`), the labels are
  reached in the right mode (`Course`), what was added is whole where nothing is expanded
  (`Images`), the active RSP is expanded before the standby and both before the
  configuration (`Expanded`), the boot variable is set before it is saved and saved before
  the reload (`Configured`). That an ISSU cannot change any of this comes from `RouterKnown`.
- `FilesKept`: `RunningFilesKept` for `Restoring` (`NoRemains`, and an ISSU that fails
  restores the standby). Inductive only together with `Grounded`: a job starts on another
  package than the one that runs, without a plan (`Fresh`); with no ISSU under way both RSPs
  run the same package, and a package whose expansion was begun is not taken for it
  (`Alike`); an ISSU is only planned where `packages.conf` is that of the running package
  (`IssuPlanned`), and at each of its stages the old package can still be run (`IssuGoing`).
- `BootLost`: the action property `BootLostOnlyByExpand`, from `Grounded`: the removals spare
  what boots (`SparesBoot`), and what is saved can be booted (`SavesBootable`).
- `ForGood`: `ActivatedForGood`, if also "show platform" prints its table at once
  (`~EmptyShow`). `Landed` says that a router that runs the package of its job boots it again;
  `Verified` which of the looks at the end have seen it run.

`Migration_proofs`, under the assumption on the constants, for all cards, FPDs, scenarios and any
number of runs, each of which may fail anywhere:

- `Invariance`: `MInv` adds to the types that the phases come in order (`PhasesInOrder`),
  which labels belong to which phase (`LabelsInPlace`), and the prompt at each label
  (`PromptKnown`). `ShellsLeft`, `LeavesAtExec`, follows.
- `FilesProvisioned`: `Provisioned`, if no error goes unsaid (`~Quiet`). `FilesMade` follows
  the configurations from the router to the repository, label by label, over whatever earlier
  runs left; `FilesCopied` from there to the router: the dialog reaches its end only by a
  transfer that is whole.
- `FpdsCurrent`: `FpdsUpgraded`, for `~Quiet`. `Listed`: what needs an upgrade on a card that
  the audit marked is on the list until the log names it; `XrQuiet`: under IOS XR the log only
  names what is current.
- `ReloadPrepared`: `ReloadsPrepared`, for `~Quiet`: between the script and the reload the boot
  mode is the one of this run (`ScriptRun`).
- `FpdsFinished`: `UpgradeFinished`, for `Settled`. If no FPD is being upgraded or waits for a
  reload at first, the number to reach counts all of them, and `PollEnds` says that so many
  are only current or waiting when none is being upgraded: a fact about cardinalities.
  `mig_bad_fpds` shows that the condition is needed.


`XrPackages_proofs`, under `PkgAssumption` (no two packages on the router are equal), for all
packages and all lists, of any length:

- `Invariance`: `PInv` adds to the types that the set stands for every valid name read so
  far (`ListRead`), that the looks are true until another user moves a package
  (`LooksTrue`), and that the command is what was chosen (`CommandChosen`).
- `JobsFulfilled`: `Fulfilled`. `AskedKept` gives for every clear name one in the set with the
  same subversion; `MeetNamed` says that an intersection whose names the router accepts
  names whatever it should, although its elements may come from either set.
- `ActiveLeftAlone`, `NamesShown`: `NeverActive` and `OwnNames`, from `PInv`.

`UpgradeChecks_proofs`, under `ChecksAssumption`, for all routers and any number of jobs:

- `TypeCorrect`: no strengthening is needed.
- `NeighborsCompared`: `LostNeighborsWarned`, by `Kept`: what the last Pre-Upgrade saw is what
  is stored, unless it named no instance or the storage was lost.
- `ChecksFirst`: `InstallsChecked`, by `Awaited`: as long as the preliminary phase runs, each
  check the router needs is still to be run or has returned. `NeededSelected` finds the
  plugin in the registry for every family and system.
- `VariantsExclude`: `OneVariant`. By cases over the registry: the systems or families of two
  plugins of one name exclude each other (`InstallShape`, `CheckShape`).

Only model-checked: `Terminates` (both), `Completes`, `RunsEnd`, `JobsEnd` and the fairness part of
`ImplementsTestCase`, because liveness is out of the prover's reach. Every safety property of a
run is a theorem, for every value of the constants within the conditions named above. The
invariants named here that no run lists (`Watching`, `Rebooting`, `Grounded`, `FilesMade`, ...) were
found with TLC on the same instances before they were proved.

## 5. Plan

1. (done) `TestCase`, `ExrInstall`, `SuiteRunner` and the first proofs.
2. (done) `XrInstall`, with the theorems about its watch, verdict and reload.
3. (done) `Migration`: the phases over what they leave behind; a failure
   between any two steps and another attempt; all its safety properties proved.
4. (done) `XeInstall`: Add, Pre-Activate, Activate, Remove and the choice of the install
   mode; ISSU and its switchover; all its safety properties proved.
5. (done) `UpgradeChecks`: the filters and `dispatch`, the checks, the ISIS comparison through the
   storage of `context.py` and its missing keys; proved.
6. (done) Proofs about the driver.
7. (done) `XrPackages`: the choice of the packages, with its theorems.
8. (done) The safety properties of `ExrInstall` about the watch, the id, the shell and the reload.
9. Left: the watch of `ExrInstall` in the Admin shell, where it holds only without
   reconnections and "AdminBash" commands; a condition on the answers for the reload that
   includes `handle_issu_reload`.

## 6. Not modelled, and why

Text: the wording of commands and outputs, and the parsing of tables, except for
what an expression confuses. `observe_install_remove_all`, `wait_for_prompt` and the
`get_tobe_*_pkg_list` methods of eXR have no caller. The simulator boot
(`csmpe/boot_sunstone.py`) and the command line are input and output with fixed
waits. Of the filesystem, core, startup and inventory checks and the configuration
capture only the outcome is modelled: they are one command and one look at its output. The
names of eXR packages (`exr/package_lib.py`) only serve the eXR `get_tobe_*` methods above. Condoor
(the connection) and stevedore (the plugin loader) are external: their behaviour is what the code relies on.
