---------------------------- MODULE MCExrInstall ----------------------------
(***************************************************************************)
(* Small instances of ExrInstall: the sets of test cases of its runs.  The *)
(* patterns are the ones of test_cases/*.json: none, "success", "abort".   *)
(***************************************************************************)
EXTENDS ExrInstall

Patterns == {Outcomes, {"success"}, {"aborted"}}

\* nextlevel: nothing; one command with a pattern; a sysadmin shell command
\* without one, then a command with one.
Plain == <<[bash |-> FALSE, check |-> TRUE]>>
Bash  == <<[bash |-> TRUE, check |-> FALSE], [bash |-> FALSE, check |-> TRUE]>>

JobsOf(kinds, shell, accepts, levels, saves, consoles) ==
  [kind : kinds, shell : {shell}, accepts : accepts, level : levels,
   saves : saves, console : consoles]

\* XR shell: the plugins that read the command's output, and the ones that
\* wait for one of the activation events.
ObserveJobs == JobsOf({"add"}, "XR", Patterns, {<<>>, Plain}, BOOLEAN, {FALSE})
  \cup JobsOf({"commit", "clean"}, "XR", Patterns, {<<>>}, {TRUE}, {FALSE})
FsmJobs == JobsOf({"activate"}, "XR", {{"success"}}, {<<>>, Plain, Bash}, {FALSE}, BOOLEAN)
  \cup JobsOf({"prepare"}, "XR", Patterns, {<<>>}, {TRUE}, {FALSE})
  \cup JobsOf({"extract"}, "XR", {{"success"}}, {<<>>}, {TRUE}, {FALSE})

\* One session kind, one pattern: for the runs about the watch and liveness.
WatchJobs == JobsOf({"add"}, "XR", {{"success"}}, {Plain}, {FALSE}, {FALSE})
  \cup JobsOf({"activate"}, "XR", {{"success"}, Outcomes}, {<<>>}, {FALSE}, BOOLEAN)
  \cup JobsOf({"commit"}, "XR", {{"success"}}, {<<>>}, {FALSE}, {FALSE})

\* Admin shell: every plugin but Add, which may return without a verdict.
AdminJobs ==
  JobsOf({"activate"}, "Admin", {Outcomes, {"success"}}, {<<>>, Plain, Bash}, {FALSE}, {FALSE})
    \cup JobsOf({"commit"}, "Admin", {Outcomes, {"success"}}, {<<>>}, {FALSE}, {FALSE})
    \cup JobsOf({"prepare"}, "Admin", {{"success"}}, {<<>>, Bash}, {TRUE}, {FALSE})
    \cup JobsOf({"extract", "clean"}, "Admin", {{"success"}}, {<<>>}, {TRUE}, {FALSE})
AllJobs == ObserveJobs \cup FsmJobs \cup AdminJobs

=============================================================================
