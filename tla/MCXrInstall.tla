---------------------------- MODULE MCXrInstall ----------------------------
(* Small instances of XrInstall: the plugins of its runs.                  *)
EXTENDS XrInstall

JobsOf(kinds, byIds, tars, consoles) ==
  [kind : kinds, byId : byIds, tar : tars, console : consoles]

\* Activate with and without an operation id, Add with and without a tar file.
AllJobs ==
  JobsOf({"install"}, BOOLEAN, {FALSE}, BOOLEAN)
    \cup JobsOf({"add"}, {FALSE}, BOOLEAN, {FALSE})
    \cup JobsOf({"remove", "commit", "removeall"}, {FALSE}, {FALSE}, {FALSE})

RemoveAllJobs == JobsOf({"removeall"}, {FALSE}, {FALSE}, {FALSE})

=============================================================================
