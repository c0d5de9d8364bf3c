---------------------------- MODULE SuiteRunner ----------------------------
(***************************************************************************)
(* The test-suite driver, jsonparser in csmpe/__main__.py: it runs the     *)
(* test cases of one suite after another, each with a plugin manager and a *)
(* connection of its own, and keeps per suite                              *)
(*   - result.log: the status of each test case, first "Blocked", written  *)
(*     by the plugins (report_log), and a stop_time stamped by the driver  *)
(*     after every test case it tried;                                     *)
(*   - tc.json: the test cases, read again before each of them because an  *)
(*     earlier one may have replaced a placeholder (process_save_data);    *)
(*   - session.log: written by the connection, copied after each test case.*)
(* At the end convert_result_to_xunit_xml turns the result.logs into       *)
(* results.xml.  What a plugin does between its start and its end is the   *)
(* promise of module TestCase, which ExrInstall implements; the custom     *)
(* commands plugin and the Admin shell promise less.                       *)
(* A definition X_Word is X with a plausible bug; nothing uses it.         *)
(***************************************************************************)
EXTENDS Integers, Sequences

CONSTANTS
  Plan,          \* the suites, a sequence of [parses, cases]
  Placeholders,  \* texts such as "<id1>"
  None,          \* no placeholder
  MaxReports,    \* bound: reports of one custom-commands test case
  LogMissing     \* may a failed connection leave no session.log?

\* kind: "install", a plugin that keeps TestCase's promise and processes
\* save_data; "activate", the same without save_data (Activate, Commit);
\* "admin", an install in the Admin shell, which may return with no verdict;
\* "command", custom commands; "unknown", no such operation or no command;
\* "noshell", no "shell" entry.
CaseKinds == {"install", "activate", "admin", "command", "unknown", "noshell"}
Case  == [kind : CaseKinds, saves : Placeholders \cup {None},
          uses : SUBSET Placeholders]
Suite == [parses : BOOLEAN, cases : Seq(Case)]

ASSUME SuiteAssumption ==
  /\ Plan \in Seq(Suite)
  /\ None \notin Placeholders
  /\ MaxReports \in Nat
  /\ LogMissing \in BOOLEAN

VARIABLES
  pc,        \* "suite", "case", "connect", "run", "finally", "convert",
             \* "done", or "aborted" by an exception nothing catches
  s, i,      \* the suite and the test case under way
  phase,     \* how the plugin's run() ended, as in TestCase
  verdict,   \* the status of the test case under way
  reports,   \* reports of the custom commands so far
  didSave,   \* has the test case under way replaced its placeholder?
  status,    \* result.log: the status of every test case
  stamped,   \* suites whose result.log has a stop_time
  opened,    \* suites that have a result.log at all
  bound,     \* tc.json: the test case that replaced a placeholder, 0 before
  logs,      \* suites that have a session.log
  ran,       \* how each test case was run: "no", "skipped" or its phase
  xml        \* the suites in results.xml

cursor == <<pc, s, i>>
run    == <<phase, verdict, reports, didSave>>
files  == <<status, stamped, opened, bound, logs, xml>>
vars   == <<cursor, run, files, ran>>

Suites   == 1 .. Len(Plan)
Cases(k) == 1 .. Len(Plan[k].cases)
Now      == Plan[s].cases[i]

Promise == INSTANCE TestCase

Init ==
  /\ pc = "suite" /\ s = 1 /\ i = 1
  /\ phase = "running" /\ verdict = "Blocked" /\ reports = 0
  /\ didSave = FALSE
  /\ status = [k \in Suites |-> [j \in Cases(k) |-> "Blocked"]]
  /\ stamped = {} /\ opened = {}
  /\ bound = [k \in Suites |-> [p \in Placeholders |-> 0]]
  /\ logs = {} /\ xml = {}
  /\ ran = [k \in Suites |-> [j \in Cases(k) |-> "no"]]

-----------------------------------------------------------------------------
(* The two loops.                                                          *)

NextSuite == pc' = "suite" /\ s' = s + 1 /\ i' = 1
NextCase  == pc' = "case" /\ i' = i + 1 /\ UNCHANGED s

\* A suite whose json does not parse has no result.log.
BeginSuite ==
  /\ pc = "suite" /\ s <= Len(Plan)
  /\ IF Plan[s].parses
       THEN opened' = opened \cup {s} /\ pc' = "case" /\ UNCHANGED <<s, i>>
       ELSE NextSuite /\ UNCHANGED opened
  /\ UNCHANGED <<run, status, stamped, bound, logs, xml, ran>>

EndSuites ==
  /\ pc = "suite" /\ s > Len(Plan)
  /\ pc' = "convert"
  /\ UNCHANGED <<s, i, run, files, ran>>

EndCases ==
  /\ pc = "case" /\ i > Len(Plan[s].cases) /\ NextSuite
  /\ UNCHANGED <<run, files, ran>>

\* "continue" and "break" before the try: nothing is stamped.
Skip ==
  /\ pc = "case" /\ i <= Len(Plan[s].cases)
  /\ \/ Now.kind = "unknown" /\ NextCase
     \/ Now.kind = "noshell" /\ NextSuite
  /\ UNCHANGED <<run, files, ran>>

BeginCase ==
  /\ pc = "case" /\ i <= Len(Plan[s].cases)
  /\ Now.kind \notin {"unknown", "noshell"}
  /\ pc' = "connect"
  /\ phase' = "running" /\ verdict' = "Blocked" /\ reports' = 0
  /\ didSave' = FALSE
  /\ UNCHANGED <<s, i, files, ran>>

\* CSMPluginManager(ctx) connects and discovers the device.
Connect ==
  /\ pc = "connect"
  /\ logs' = logs \cup {s} /\ pc' = "run"
  /\ UNCHANGED <<s, i, run, status, stamped, opened, bound, xml, ran>>

ConnectFails ==
  /\ pc = "connect"
  /\ \/ logs' = logs \cup {s}
     \/ LogMissing /\ UNCHANGED logs
  /\ phase' = "raised" /\ ran' = [ran EXCEPT ![s][i] = "raised"]
  /\ pc' = "finally"
  /\ UNCHANGED <<s, i, verdict, reports, didSave, status, stamped, opened,
                 bound, xml>>

\* No plugin of that name for the device: dispatch returns without running
\* anything and without an error.
NoPlugin ==
  /\ pc = "run" /\ verdict = "Blocked" /\ reports = 0
  /\ phase' = "returned" /\ ran' = [ran EXCEPT ![s][i] = "skipped"]
  /\ pc' = "finally"
  /\ UNCHANGED <<s, i, verdict, reports, didSave, files>>

-----------------------------------------------------------------------------
(* The plugin.                                                             *)

Promised == Now.kind \in {"install", "activate", "admin"}

\* report_log: the status goes to the entry tc_id - 1 of result.log.
Record == status' = [status EXCEPT ![s][i] = verdict']

Report ==
  /\ pc = "run" /\ Promised
  /\ Promise!ReportPassed \/ Promise!ReportFailed
  /\ ~didSave                \* save_data is processed after the last report
  /\ Record
  /\ UNCHANGED <<cursor, reports, didSave, stamped, opened, bound, logs, xml,
                 ran>>

\* The custom commands plugin reports after every command.
ReportCommand ==
  /\ pc = "run" /\ Now.kind = "command" /\ reports < MaxReports
  /\ reports' = reports + 1
  /\ verdict' \in {"Passed", "Failed"}
  /\ Record
  /\ UNCHANGED <<cursor, phase, didSave, stamped, opened, bound, logs, xml,
                 ran>>

\* process_save_data replaces the placeholder in the whole of tc.json, the
\* entries of later test cases that save to it included.
SavesData == Now.saves # None /\ Now.kind \in {"install", "admin"}

SaveData ==
  /\ pc = "run" /\ SavesData /\ ~didSave
  /\ verdict = "Passed"
  /\ bound' = [bound EXCEPT ![s][Now.saves] = i]
  /\ didSave' = TRUE
  /\ UNCHANGED <<cursor, phase, verdict, reports, status, stamped, opened,
                 logs, xml, ran>>

MayReturn_Unsaved == TRUE
MayReturn == SavesData => didSave

PluginReturns ==
  /\ pc = "run" /\ MayReturn
  /\ \/ Promised /\ Promise!Return
     \/ /\ Now.kind \in {"command", "admin"}
        /\ Now.kind = "admin" => verdict = "Blocked"
        /\ phase' = "returned" /\ UNCHANGED verdict
  /\ ran' = [ran EXCEPT ![s][i] = "returned"]
  /\ pc' = "finally"
  /\ UNCHANGED <<s, i, reports, didSave, files>>

PluginRaises ==
  /\ pc = "run" /\ Promise!Raise
  /\ ran' = [ran EXCEPT ![s][i] = "raised"]
  /\ pc' = "finally"
  /\ UNCHANGED <<s, i, reports, didSave, files>>

-----------------------------------------------------------------------------
(* After the plugin, and after the suites.                                 *)

\* except Exception: break; but the finally clause comes first.
AfterCase_GoOn == NextCase
AfterCase_Again ==
  IF phase = "raised" THEN pc' = "case" /\ UNCHANGED <<s, i>> ELSE NextCase
AfterCase == IF phase = "raised" THEN NextSuite ELSE NextCase

\* Copy session.log, then stamp result.log with a stop_time.
Stamp_NotOnRaise ==
  stamped' = IF phase = "raised" THEN stamped ELSE stamped \cup {s}
Stamp == stamped' = stamped \cup {s}

Finally ==
  /\ pc = "finally" /\ s \in logs
  /\ Stamp /\ AfterCase
  /\ UNCHANGED <<run, status, opened, bound, logs, xml, ran>>

\* open(session_filename) raises IOError, which leaves jsonparser.
FinallyRaises ==
  /\ pc = "finally" /\ s \notin logs
  /\ pc' = "aborted"
  /\ UNCHANGED <<s, i, run, files, ran>>

\* A result.log that cannot be opened, or has no 'stop_time', is left out.
Convert ==
  /\ pc = "convert"
  /\ xml' = opened \cap stamped
  /\ pc' = "done"
  /\ UNCHANGED <<s, i, run, status, stamped, opened, bound, logs, ran>>

Finished == pc \in {"done", "aborted"} /\ UNCHANGED vars

Driver ==
  \/ BeginSuite \/ EndSuites \/ EndCases \/ Skip \/ BeginCase
  \/ Connect \/ ConnectFails \/ NoPlugin
  \/ Finally \/ FinallyRaises \/ Convert

Plugin ==
  \/ Report \/ ReportCommand \/ SaveData \/ PluginReturns \/ PluginRaises

Next == Driver \/ Plugin \/ Finished

\* The driver is sequential, and TestCase promises that a plugin ends.
Spec == /\ Init /\ [][Next]_vars
        /\ WF_vars(Driver) /\ WF_vars(PluginReturns \/ PluginRaises)

-----------------------------------------------------------------------------
(* Properties.                                                             *)

\* Types of the variables.
TypeOK ==
  /\ pc \in {"suite", "case", "connect", "run", "finally", "convert", "done",
             "aborted"}
  /\ s \in 1 .. Len(Plan) + 1 /\ i \in Nat \ {0}
  /\ phase \in {"running", "returned", "raised"}
  /\ verdict \in {"Blocked", "Passed", "Failed"}
  /\ reports \in 0 .. MaxReports /\ didSave \in BOOLEAN
  /\ \A k \in Suites : \A j \in Cases(k) :
       /\ status[k][j] \in {"Blocked", "Passed", "Failed"}
       /\ ran[k][j] \in {"no", "skipped", "returned", "raised"}
       /\ \A p \in Placeholders : bound[k][p] \in 0 .. Len(Plan[k].cases)
  /\ stamped \cup opened \cup logs \cup xml \subseteq Suites

\* The placeholder test: before test case i of a suite runs, every
\* placeholder it uses that an earlier test case of the suite saves, and
\* whose plugin was found, has been replaced by that test case or by a later
\* one (__main__.py:361-363 reads tc.json again for this).
ResolvedBeforeUse ==
  pc = "run" =>
    \A j \in 1 .. i - 1 :
      LET c == Plan[s].cases[j] IN
      c.kind = "install" /\ c.saves \in Now.uses /\ ran[s][j] # "skipped"
        => bound[s][c.saves] >= j

\* The break at __main__.py:438: once a plugin raised, no later test case of
\* the suite runs or gets a status.
NothingAfterRaise ==
  \A k \in Suites : \A j, l \in Cases(k) :
    j < l /\ ran[k][j] = "raised" => ran[k][l] = "no" /\ status[k][l] = "Blocked"

\* A suite with a verdict is never missing from results.xml: the finally
\* clause stamps its result.log even when the plugin that gave the verdict
\* raised afterwards.
VerdictsReachXml ==
  pc = "done" =>
    \A k \in Suites : (\E j \in Cases(k) : status[k][j] # "Blocked") => k \in xml

\* results.xml gets written, whatever the test cases do, if every connection
\* leaves a session.log to copy (__main__.py:443).
Completes == [](pc = "finally" => s \in logs) => <>(pc = "done")

=============================================================================
