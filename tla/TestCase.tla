------------------------------ MODULE TestCase ------------------------------
(***************************************************************************)
(* What one test case promises the suite that runs it.  The suite runner   *)
(* (csmpe/__main__.py) sees two things of a plugin: how its run() ended,   *)
(* and the status the plugin left for the test case in result.log.  The    *)
(* status starts as "Blocked" ("Not Run"), a plugin may turn it into       *)
(* "Passed" several times, a "Failed" is final and is always followed by   *)
(* an exception, and run() returns normally only with "Passed".            *)
(***************************************************************************)

VARIABLES
  phase,    \* "running", then how run() ended: "returned" or "raised"
  verdict   \* tcs[tc_id - 1]['status'] in result.log

Init == phase = "running" /\ verdict = "Blocked"

ReportPassed ==
  /\ phase = "running"
  /\ verdict \in {"Blocked", "Passed"}
  /\ verdict' = "Passed"
  /\ UNCHANGED phase

ReportFailed ==
  /\ phase = "running"
  /\ verdict' = "Failed"
  /\ UNCHANGED phase

Return ==
  /\ phase = "running"
  /\ verdict = "Passed"
  /\ phase' = "returned"
  /\ UNCHANGED verdict

Raise ==
  /\ phase = "running"
  /\ phase' = "raised"
  /\ UNCHANGED verdict

Next == ReportPassed \/ ReportFailed \/ Return \/ Raise

vars == <<phase, verdict>>

Safety == Init /\ [][Next]_vars

\* A test case always ends: the suite runner has no timeout of its own.
Spec == Safety /\ WF_vars(Return \/ Raise)

=============================================================================
