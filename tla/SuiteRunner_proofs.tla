------------------------- MODULE SuiteRunner_proofs -------------------------
(***************************************************************************)
(* Theorems about SuiteRunner, for all suites and any number of them.  The *)
(* invariants say where the two loops are in the files; each property      *)
(* follows from one of them.                                               *)
(***************************************************************************)
EXTENDS SuiteRunner, TLAPS

Verdicts == {"Blocked", "Passed", "Failed"}
Ways     == {"no", "skipped", "returned", "raised"}

\* The plan, as the provers need it.
LEMMA PlanType ==
  /\ Len(Plan) \in Nat
  /\ \A k \in Suites : Len(Plan[k].cases) \in Nat
  /\ \A k \in Suites : \A j \in Cases(k) : Plan[k].cases[j] \in Case
<1>1. Plan \in Seq(Suite)
  BY SuiteAssumption
<1>2. \A k \in Suites : Plan[k] \in Suite
  BY <1>1 DEF Suites
<1>3. \A k \in Suites : Plan[k].cases \in Seq(Case)
  BY <1>2 DEF Suite
<1> QED
  BY <1>1, <1>3 DEF Cases

-----------------------------------------------------------------------------
(* Types, with the loops inside their bounds and one entry per test case.  *)

InSuite == {"case", "connect", "run", "finally"}
InCase  == {"connect", "run", "finally"}

Loops ==
  /\ pc \in {"suite", "convert", "done", "aborted"} \cup InSuite
  /\ s \in 1 .. Len(Plan) + 1 /\ i \in Nat \ {0}
  /\ pc \in InSuite => s \in Suites
  /\ pc = "suite" => i = 1
  /\ pc \in InCase => i \in Cases(s)

Run ==
  /\ phase \in {"running", "returned", "raised"} /\ verdict \in Verdicts
  /\ reports \in 0 .. MaxReports /\ didSave \in BOOLEAN

Entries ==
  /\ DOMAIN status = Suites /\ DOMAIN ran = Suites /\ DOMAIN bound = Suites
  /\ \A k \in Suites : /\ status[k] \in [Cases(k) -> Verdicts]
                       /\ ran[k] \in [Cases(k) -> Ways]
                       /\ bound[k] \in [Placeholders -> 0 .. Len(Plan[k].cases)]
  /\ opened \subseteq Suites /\ stamped \subseteq Suites
  /\ logs \subseteq Suites /\ xml \subseteq Suites

Typed == Loops /\ Run /\ Entries

\* At first nothing has run and no file has been opened.
LEMMA InitTyped == Init => Typed
<1> SUFFICES ASSUME Init PROVE Typed
  OBVIOUS
<1>1. Loops
  BY PlanType DEF Init, Loops, InSuite, InCase
<1>2. didSave \in BOOLEAN
  BY DEF Init
<1>3. Run
  BY SuiteAssumption, <1>2 DEF Init, Run, Verdicts
<1>4. \A k \in Suites : /\ status[k] \in [Cases(k) -> Verdicts]
                        /\ ran[k] \in [Cases(k) -> Ways]
                        /\ bound[k] \in [Placeholders -> 0 .. Len(Plan[k].cases)]
  BY PlanType DEF Init, Verdicts, Ways
<1>5. Entries
  BY <1>4 DEF Init, Entries
<1> QED
  BY <1>1, <1>3, <1>5 DEF Typed

\* The loops stay inside the plan.
LEMMA LoopsStep == Loops /\ [Next]_vars => Loops'
<1> SUFFICES ASSUME Loops, [Next]_vars PROVE Loops'
  OBVIOUS
<1> USE PlanType DEF Loops, InSuite, InCase, Suites, Cases, NextSuite, NextCase
<1>1. CASE BeginSuite
  BY <1>1 DEF BeginSuite
<1>2. CASE EndSuites \/ EndCases
  BY <1>2 DEF EndSuites, EndCases
<1>3. CASE Skip
  BY <1>3 DEF Skip
<1>4. CASE BeginCase
  BY <1>4 DEF BeginCase
<1>5. CASE Connect \/ ConnectFails \/ NoPlugin
  BY <1>5 DEF Connect, ConnectFails, NoPlugin
<1>6. CASE Finally
  BY <1>6 DEF Finally, AfterCase
<1>7. CASE FinallyRaises \/ Convert \/ Finished \/ UNCHANGED vars
  BY <1>7 DEF FinallyRaises, Convert, Finished, vars, cursor
<1>8. CASE Plugin
  BY <1>8 DEF Plugin, Report, ReportCommand, SaveData, PluginReturns, PluginRaises, cursor
<1> QED
  BY <1>1, <1>2, <1>3, <1>4, <1>5, <1>6, <1>7, <1>8 DEF Next, Driver

\* So does what is known of the plugin under way.
LEMMA RunStep == Run /\ [Next]_vars => Run'
<1> SUFFICES ASSUME Run, [Next]_vars PROVE Run'
  OBVIOUS
<1>1. phase' \in {"running", "returned", "raised"} /\ verdict' \in Verdicts
  BY DEF Run, Verdicts, Next, vars, run, Finished, Driver, BeginSuite, EndSuites, EndCases,
         Skip, BeginCase, Connect, ConnectFails, NoPlugin, Finally, FinallyRaises, Convert,
         Plugin, Report, ReportCommand, SaveData, PluginReturns, PluginRaises,
         Promise!ReportPassed, Promise!ReportFailed, Promise!Return, Promise!Raise
<1>2. reports' \in {0, reports} \/ ReportCommand
  BY DEF Next, vars, run, Finished, Driver, BeginSuite, EndSuites, EndCases,
         Skip, BeginCase, Connect, ConnectFails, NoPlugin, Finally, FinallyRaises, Convert,
         Plugin, Report, SaveData, PluginReturns, PluginRaises
<1>3. reports' \in 0 .. MaxReports
  BY <1>2, SuiteAssumption DEF Run, ReportCommand
<1>4. didSave' = didSave \/ didSave' = FALSE \/ didSave' = TRUE
  BY DEF Next, vars, run, Finished, Driver, BeginSuite, EndSuites, EndCases,
         Skip, BeginCase, Connect, ConnectFails, NoPlugin, Finally, FinallyRaises, Convert,
         Plugin, Report, ReportCommand, SaveData, PluginReturns, PluginRaises
<1>5. didSave' \in BOOLEAN
  BY <1>4 DEF Run
<1> QED
  BY <1>1, <1>3, <1>5 DEF Run

\* Every file keeps one entry per test case.
LEMMA EntriesStep == Typed /\ [Next]_vars => Entries'
<1> SUFFICES ASSUME Typed, [Next]_vars PROVE Entries'
  OBVIOUS
<1> USE PlanType DEF Typed, Entries, Loops, InSuite, InCase
<1>1. CASE EndSuites \/ EndCases \/ Skip \/ BeginCase
  BY <1>1 DEF EndSuites, EndCases, Skip, BeginCase, files
<1>9. CASE BeginSuite
  <2>1. s \in Suites
    BY <1>9 DEF BeginSuite, Suites
  <2> QED
    BY <1>9, <2>1 DEF BeginSuite
<1>2. CASE Connect \/ ConnectFails
  <2>1. s \in Suites /\ i \in Cases(s)
    BY <1>2 DEF Connect, ConnectFails
  <2>2. logs' \subseteq Suites
    BY <1>2, <2>1 DEF Connect, ConnectFails
  <2>3. DOMAIN ran' = Suites /\ \A k \in Suites : ran'[k] \in [Cases(k) -> Ways]
    <3>1. ran' = ran \/ ran' = [ran EXCEPT ![s][i] = "raised"]
      BY <1>2 DEF Connect, ConnectFails
    <3>2. DOMAIN ran' = Suites
      BY <3>1
    <3>3. ASSUME NEW k \in Suites PROVE ran'[k] \in [Cases(k) -> Ways]
      <4>1. ran[k] \in [Cases(k) -> Ways] /\ "raised" \in Ways
        BY DEF Ways
      <4>2. ran'[k] = ran[k] \/ (k = s /\ ran'[k] = [ran[k] EXCEPT ![i] = "raised"])
        BY <3>1
      <4> QED
        BY ONLY <2>1, <4>1, <4>2
    <3> QED
      BY <3>2, <3>3
  <2> QED
    BY <1>2, <2>2, <2>3 DEF Connect, ConnectFails
<1>10. CASE NoPlugin
  BY <1>10 DEF NoPlugin, files, Ways
<1>3. CASE Finally \/ FinallyRaises \/ Convert
  BY <1>3 DEF Finally, Stamp, FinallyRaises, Convert, files
<1>4. CASE Report
  <2>1. verdict' \in Verdicts
    BY <1>4, RunStep DEF Run
  <2> QED
    BY <1>4, <2>1 DEF Report, Record
<1>5. CASE ReportCommand
  BY <1>5 DEF ReportCommand, Record, Verdicts
<1>6. CASE SaveData
  <2>1. i \in Cases(s) /\ s \in Suites /\ pc = "run"
    BY <1>6 DEF SaveData
  <2>2. Now.saves \in Placeholders
    BY <1>6, <2>1 DEF SaveData, SavesData, Now, Case
  <2>3. i \in 0 .. Len(Plan[s].cases)
    BY <2>1 DEF Cases
  <2> QED
    BY <1>6, <2>1, <2>2, <2>3 DEF SaveData
<1>7. CASE PluginReturns \/ PluginRaises
  <2>1. PICK w \in {"returned", "raised"} : ran' = [ran EXCEPT ![s][i] = w]
    BY <1>7 DEF PluginReturns, PluginRaises
  <2>2. UNCHANGED files
    BY <1>7 DEF PluginReturns, PluginRaises
  <2>3. DOMAIN ran' = Suites /\ \A k \in Suites : ran'[k] \in [Cases(k) -> Ways]
    BY <2>1 DEF Ways
  <2> QED
    BY <2>2, <2>3 DEF files
<1>8. CASE Finished \/ UNCHANGED vars
  BY <1>8 DEF Finished, vars, files
<1> QED
  BY <1>1, <1>2, <1>3, <1>4, <1>5, <1>6, <1>7, <1>8, <1>9, <1>10
     DEF Next, Driver, Plugin

\* All three together are inductive ...
LEMMA TypedStep == Typed /\ [Next]_vars => Typed'
BY LoopsStep, RunStep, EntriesStep DEF Typed

\* ... and imply the type invariant.
LEMMA TypedSuffices == Typed => TypeOK
BY DEF Typed, Loops, Run, Entries, TypeOK, Verdicts, Ways, InSuite

\* The loops stay inside the plan, and no file has an entry too many or too few.
THEOREM TypeCorrect == Spec => []TypeOK
<1>1. Spec => []Typed
  BY InitTyped, TypedStep, PTL DEF Spec
<1> QED
  BY <1>1, TypedSuffices, PTL

-----------------------------------------------------------------------------
(* The break.                                                              *)

\* Nothing of suite k has run, or has a status, from test case n on.
Blank(k, n) == \A j \in Cases(k) : j >= n => ran[k][j] = "no" /\ status[k][j] = "Blocked"

\* What lies ahead of the loops is blank; of the test cases behind them in the
\* suite none raised; the one under way is recorded as its plugin ended.
Ahead ==
  /\ \A k \in Suites : k > s => Blank(k, 1)
  /\ pc \in {"suite", "case", "connect"} => \A k \in Suites : k = s => Blank(k, i)
  /\ pc \in {"run", "finally"} => Blank(s, i + 1)
  /\ pc = "run" => ran[s][i] = "no"
  /\ pc \in InSuite => \A j \in Cases(s) : j < i => ran[s][j] # "raised"
  /\ pc = "finally" => (ran[s][i] = "raised" <=> phase = "raised")

Broken == Ahead /\ NothingAfterRaise

\* At first everything is blank.
LEMMA InitBroken == Init => Broken
<1> SUFFICES ASSUME Init PROVE Broken
  OBVIOUS
<1>1. \A k \in Suites : \A j \in Cases(k) : ran[k][j] = "no" /\ status[k][j] = "Blocked"
  BY DEF Init
<1>2. pc = "suite"
  BY DEF Init
<1>3. Ahead
  BY <1>1, <1>2 DEF Ahead, Blank, InSuite
<1> QED
  BY <1>1, <1>3 DEF Broken, NothingAfterRaise

\* The steps of the loops, which write no entry.
LEMMA LoopBroken ==
  Typed /\ Broken /\ (BeginSuite \/ EndSuites \/ EndCases \/ Skip \/ BeginCase \/ Connect
                     \/ Finally \/ FinallyRaises \/ Convert \/ Finished \/ UNCHANGED vars)
    => Broken'
<1> SUFFICES ASSUME Typed, Broken,
                    BeginSuite \/ EndSuites \/ EndCases \/ Skip \/ BeginCase \/ Connect
                      \/ Finally \/ FinallyRaises \/ Convert \/ Finished \/ UNCHANGED vars
             PROVE  Broken'
  OBVIOUS
<1>1. UNCHANGED <<ran, status>>
  BY DEF BeginSuite, EndSuites, EndCases, Skip, BeginCase, Connect, Finally, FinallyRaises,
         Convert, Finished, vars, files
<1>2. NothingAfterRaise'
  BY <1>1 DEF Broken, NothingAfterRaise
<1> USE PlanType DEF Typed, Loops, Broken, Ahead, Blank, InSuite, InCase, Suites, Cases,
                     NextSuite, NextCase
<1>3. CASE BeginSuite
  <2>1. CASE Plan[s].parses
    <3>1. pc' = "case" /\ s' = s /\ i' = i
      BY <1>3, <2>1 DEF BeginSuite
    <3>2. i = 1
      BY <1>3 DEF BeginSuite
    <3> QED
      BY <1>1, <1>2, <1>3, <3>1, <3>2 DEF BeginSuite
  <2>2. CASE ~Plan[s].parses
    <3>1. pc' = "suite" /\ s' = s + 1 /\ i' = 1
      BY <1>3, <2>2 DEF BeginSuite
    <3> QED
      BY <1>1, <1>2, <1>3, <3>1
  <2> QED
    BY <2>1, <2>2
<1>8. CASE EndSuites
  BY <1>1, <1>2, <1>8 DEF EndSuites
<1>4. CASE EndCases \/ Skip
  BY <1>1, <1>2, <1>4 DEF EndCases, Skip
<1>5. CASE BeginCase \/ Connect
  BY <1>1, <1>2, <1>5 DEF BeginCase, Connect
<1>6. CASE Finally
  BY <1>1, <1>2, <1>6 DEF Finally, AfterCase
<1>7. CASE FinallyRaises \/ Convert \/ Finished \/ UNCHANGED vars
  BY <1>1, <1>2, <1>7 DEF FinallyRaises, Convert, Finished, vars, cursor, run
<1> QED
  BY <1>3, <1>4, <1>5, <1>6, <1>7, <1>8

\* The steps that write to the entry of the test case under way, and to no other.
Entry ==
  ConnectFails \/ NoPlugin \/ Report \/ ReportCommand \/ SaveData \/ PluginReturns
    \/ PluginRaises

\* They change no other entry.
LEMMA EntryOnly ==
  ASSUME Typed, Entry
  PROVE  /\ s' = s /\ i' = i /\ s \in Suites /\ i \in Cases(s) /\ pc \in {"connect", "run"}
         /\ \A k \in Suites : \A j \in Cases(k) : k # s \/ j # i =>
              ran'[k][j] = ran[k][j] /\ status'[k][j] = status[k][j]
<1>1. s' = s /\ i' = i /\ s \in Suites /\ i \in Cases(s) /\ pc \in {"connect", "run"}
  BY DEF Typed, Loops, InSuite, InCase, Entry, ConnectFails, NoPlugin, Report, ReportCommand,
         SaveData, PluginReturns, PluginRaises, cursor
<1>2. ran' = ran \/ \E w \in Ways : ran' = [ran EXCEPT ![s][i] = w]
  BY DEF Ways, Entry, ConnectFails, NoPlugin, Report, ReportCommand,
         SaveData, PluginReturns, PluginRaises
<1>3. status' = status \/ status' = [status EXCEPT ![s][i] = verdict']
  BY DEF Record, Entry, ConnectFails, NoPlugin, Report, ReportCommand,
         SaveData, PluginReturns, PluginRaises, files
<1>4. \A k \in Suites : \A j \in Cases(k) : k # s \/ j # i => ran'[k][j] = ran[k][j]
  BY <1>2 DEF Typed, Entries
<1>5. \A k \in Suites : \A j \in Cases(k) : k # s \/ j # i => status'[k][j] = status[k][j]
  BY <1>3 DEF Typed, Entries
<1> QED
  BY <1>1, <1>4, <1>5

\* They never follow a raise.
LEMMA EntryBroken == Typed /\ Broken /\ Entry => Broken'
<1> SUFFICES ASSUME Typed, Broken, Entry PROVE Broken'
  OBVIOUS
<1>1. /\ s' = s /\ i' = i /\ s \in Suites /\ i \in Cases(s) /\ pc \in {"connect", "run"}
      /\ \A k \in Suites : \A j \in Cases(k) : k # s \/ j # i =>
           ran'[k][j] = ran[k][j] /\ status'[k][j] = status[k][j]
  BY EntryOnly
<1>2. i \in Nat /\ \A k \in Suites : \A j \in Cases(k) : j \in Nat
  BY <1>1, PlanType DEF Cases
<1>3. \A j \in Cases(s) : j > i => ran[s][j] = "no" /\ status[s][j] = "Blocked"
  <2>1. Blank(s, i) \/ Blank(s, i + 1)
    BY <1>1 DEF Broken, Ahead
  <2>2. \A j \in Cases(s) : j > i => j >= i /\ j >= i + 1
    <3>1. Cases(s) \subseteq Nat /\ i \in Nat
      BY <1>1, <1>2
    <3> QED
      BY <3>1
  <2> QED
    BY <2>1, <2>2 DEF Blank
<1>4. \A j \in Cases(s) : j < i => ran[s][j] # "raised"
  BY <1>1 DEF Broken, Ahead, InSuite
<1>5. NothingAfterRaise'
  <2> SUFFICES ASSUME NEW k \in Suites, NEW j \in Cases(k), NEW l \in Cases(k),
                      j < l, ran'[k][j] = "raised"
               PROVE  ran'[k][l] = "no" /\ status'[k][l] = "Blocked"
    BY DEF NothingAfterRaise
  <2>1. CASE k # s
    BY <1>1, <2>1 DEF Broken, NothingAfterRaise
  <2>2. CASE k = s /\ j = i
    BY <1>1, <1>2, <1>3, <2>2
  <2>3. CASE k = s /\ j # i
    <3>1. ran[s][j] = "raised"
      BY <1>1, <2>3
    <3> QED
      BY <1>2, <1>3, <1>4, <2>3, <3>1
  <2> QED
    BY <2>1, <2>2, <2>3
<1>6. \A k \in Suites : k > s => Blank(k, 1)'
  <2>1. \A k \in Suites : k > s => Blank(k, 1)
    BY DEF Broken, Ahead
  <2>2. \A k \in Suites : k > s => k # s
    BY PlanType, <1>1 DEF Suites
  <2> QED
    BY <1>1, <2>1, <2>2 DEF Blank
<1>7. Blank(s, i + 1)'
  BY <1>1, <1>2, <1>3 DEF Blank
<1>8. \A j \in Cases(s) : j < i => ran'[s][j] # "raised"
  BY <1>1, <1>2, <1>4
<1>9. pc' \in {"run", "finally"}
  BY DEF Entry, ConnectFails, NoPlugin, Report, ReportCommand, SaveData, PluginReturns,
         PluginRaises, cursor
<1>10. pc' = "run" => ran'[s][i] = "no"
  <2>1. pc' = "run" => pc = "run" /\ ran' = ran
    BY DEF Entry, ConnectFails, NoPlugin, Report, ReportCommand, SaveData, PluginReturns,
           PluginRaises, cursor
  <2> QED
    BY <2>1 DEF Broken, Ahead
<1>11. pc' = "finally" => (ran'[s][i] = "raised" <=> phase' = "raised")
  BY <1>1 DEF Entry, ConnectFails, NoPlugin, Report, ReportCommand, SaveData, PluginReturns,
     PluginRaises, cursor, Promise!Return, Promise!Raise, Typed, Entries, Loops, InSuite, InCase
<1>12. Ahead'
  BY <1>1, <1>6, <1>7, <1>8, <1>9, <1>10, <1>11 DEF Ahead
<1> QED
  BY <1>5, <1>12 DEF Broken

\* Every step keeps the break.
LEMMA BrokenStep == Typed /\ Broken /\ [Next]_vars => Broken'
BY LoopBroken, EntryBroken DEF Next, Driver, Plugin, Entry

\* Once a plugin raised, no later test case of its suite runs or gets a status.
THEOREM StopsAtRaise == Spec => []NothingAfterRaise
<1>1. Spec => [](Typed /\ Broken)
  BY InitTyped, TypedStep, InitBroken, BrokenStep, PTL DEF Spec
<1>2. Broken => NothingAfterRaise
  BY DEF Broken
<1> QED
  BY <1>1, <1>2, PTL

-----------------------------------------------------------------------------
(* The xml.                                                                *)

Reported(k) == \E j \in Cases(k) : status[k][j] # "Blocked"

\* A suite with a verdict has a result.log, stamped unless the test case that gave
\* the verdict is the one under way, or the driver was aborted in it.
Stamping ==
  /\ \A k \in Suites : Reported(k) =>
       k \in opened /\ (k \in stamped \/ (k = s /\ pc \in {"run", "finally", "aborted"}))
  /\ pc \in InSuite => s \in opened
  /\ pc = "done" => xml = opened \cap stamped

\* At first there is no verdict.
LEMMA InitStamping == Init => Stamping
BY DEF Init, Stamping, Reported, InSuite

\* Only a report gives a verdict, and what follows it is the stamp or the end.
LEMMA StampingStep == Typed /\ Stamping /\ [Next]_vars => Stamping'
<1> SUFFICES ASSUME Typed, Stamping, [Next]_vars PROVE Stamping'
  OBVIOUS
<1>1. CASE status' = status
  <2>1. \A k \in Suites : Reported(k)' <=> Reported(k)
    BY <1>1 DEF Reported
  <2> USE PlanType DEF Stamping, InSuite, Typed, Loops
  <2>2. CASE BeginSuite \/ EndSuites \/ EndCases \/ Skip
    BY <2>1, <2>2 DEF BeginSuite, EndSuites, EndCases, Skip, NextSuite, NextCase, files
  <2>3. CASE BeginCase \/ Connect \/ ConnectFails \/ NoPlugin
    BY <2>1, <2>3 DEF BeginCase, Connect, ConnectFails, NoPlugin, files
  <2>4. CASE Finally \/ FinallyRaises \/ Convert
    BY <2>1, <2>4 DEF Finally, Stamp, AfterCase, NextSuite, NextCase, FinallyRaises, Convert,
                      files
  <2>5. CASE Plugin
    BY <2>1, <2>5 DEF Plugin, Report, ReportCommand, SaveData, PluginReturns, PluginRaises,
                      files, cursor
  <2>6. CASE Finished \/ UNCHANGED vars
    BY <2>1, <2>6 DEF Finished, vars, files, cursor
  <2> QED
    BY <2>2, <2>3, <2>4, <2>5, <2>6 DEF Next, Driver
<1>2. CASE status' # status
  <2>1. Report \/ ReportCommand
    BY <1>2 DEF Next, vars, Driver, BeginSuite, EndSuites, EndCases, Skip, BeginCase, Connect,
       ConnectFails, NoPlugin, Finally, FinallyRaises, Convert, Plugin, SaveData,
       PluginReturns, PluginRaises, Finished, files
  <2>2. pc = "run" /\ UNCHANGED <<cursor, opened, stamped, xml>>
    BY <2>1 DEF Report, ReportCommand
  <2>3. \A k \in Suites : k # s => (Reported(k)' <=> Reported(k))
    BY <2>1, EntryOnly DEF Entry, Reported
  <2> QED
    BY <2>2, <2>3 DEF Stamping, InSuite, cursor
<1> QED
  BY <1>1, <1>2

\* No suite with a verdict is missing from results.xml.
THEOREM NothingLost == Spec => []VerdictsReachXml
<1>1. Spec => [](Typed /\ Stamping)
  BY InitTyped, TypedStep, InitStamping, StampingStep, PTL DEF Spec
<1>2. Stamping => VerdictsReachXml
  BY DEF Stamping, Reported, VerdictsReachXml
<1> QED
  BY <1>1, <1>2, PTL

-----------------------------------------------------------------------------
(* The placeholders.                                                       *)

\* The install test cases of a suite that ended without a raise have saved what they
\* were to save; the one under way has, if it says so.
Ended(j) ==
  Plan[s].cases[j].kind = "install" =>
    \/ ran[s][j] \in {"skipped", "raised"}
    \/ Plan[s].cases[j].saves # None => bound[s][Plan[s].cases[j].saves] >= j

Saving ==
  /\ pc \in InSuite => \A j \in Cases(s) : j < i => Ended(j)
  /\ pc = "finally" => Ended(i)
  /\ pc = "connect" => ~didSave
  /\ pc = "run" /\ didSave => Now.saves \in Placeholders /\ bound[s][Now.saves] = i

\* At first no suite is under way.
LEMMA InitSaving == Init => Saving
BY DEF Init, Saving, InSuite

\* Test cases are numbered, and a placeholder is only bound to a later one.
LEMMA BoundGrows ==
  ASSUME Typed, SaveData
  PROVE  /\ i \in Cases(s) /\ s \in Suites /\ Now.saves \in Placeholders
         /\ bound'[s] = [bound[s] EXCEPT ![Now.saves] = i]
<1>1. i \in Cases(s) /\ s \in Suites
  BY DEF SaveData, Typed, Loops, InCase, InSuite
<1>2. Now.saves \in Placeholders
  BY <1>1, PlanType DEF SaveData, SavesData, Now, Case
<1> QED
  BY <1>1, <1>2 DEF SaveData, Typed, Entries

\* A test case that is to save returns only after it has.
LEMMA SavingStep == Typed /\ Broken /\ Saving /\ [Next]_vars => Saving'
<1> SUFFICES ASSUME Typed, Broken, Saving, [Next]_vars PROVE Saving'
  OBVIOUS
<1>1. CASE BeginSuite \/ EndSuites \/ EndCases \/ Convert
  <2>1. pc' # "connect" /\ pc' # "run" /\ pc' # "finally"
    BY <1>1 DEF BeginSuite, EndSuites, EndCases, NextSuite, Convert
  <2>2. pc' \in InSuite => i' = 1
    BY <1>1 DEF BeginSuite, EndSuites, EndCases, NextSuite, Convert, InSuite, Typed, Loops
  <2>3. \A j \in Cases(s') : ~(j < 1)
    BY DEF Cases
  <2> QED
    BY <2>1, <2>2, <2>3 DEF Saving, Cases
<1>2. CASE Skip
  <2>1. CASE Now.kind = "unknown" /\ NextCase
    <3>1. pc' = "case" /\ i' = i + 1 /\ UNCHANGED <<s, ran, bound>>
      BY <1>2, <2>1 DEF Skip, NextCase, files
    <3>2. s \in Suites /\ \A j \in Cases(s) : j < i + 1 => j < i \/ j = i
      BY <1>2, PlanType DEF Skip, Typed, Loops, InSuite, Cases
    <3>3. Ended(i)
      BY <2>1 DEF Ended, Now
    <3>4. \A j \in Cases(s) : j < i => Ended(j)
      BY <1>2 DEF Skip, Saving, InSuite
    <3>5. \A j \in Cases(s) : Ended(j)' <=> Ended(j)
      BY <3>1 DEF Ended
    <3> QED
      BY <3>1, <3>2, <3>3, <3>4, <3>5 DEF Saving, Cases
  <2>2. CASE NextSuite
    <3>1. pc' = "suite"
      BY <2>2 DEF NextSuite
    <3> QED
      BY <3>1 DEF Saving, InSuite
  <2> QED
    BY <1>2, <2>1, <2>2 DEF Skip
<1>3. CASE BeginCase \/ Connect \/ FinallyRaises \/ Finished \/ UNCHANGED vars
  <2>1. UNCHANGED <<s, i, ran, bound>>
    BY <1>3 DEF BeginCase, Connect, FinallyRaises, Finished, vars, cursor, files
  <2>2. /\ pc' \in InSuite => pc \in InSuite
        /\ pc' = "finally" => pc = "finally"
    BY <1>3 DEF BeginCase, Connect, FinallyRaises, Finished, vars, cursor, InSuite
  <2>3. pc' = "connect" => ~didSave'
    BY <1>3 DEF BeginCase, Connect, FinallyRaises, Finished, vars, cursor, run, Saving
  <2>4. pc' = "run" /\ didSave' => pc = "run" /\ didSave
    BY <1>3 DEF BeginCase, Connect, FinallyRaises, Finished, vars, cursor, run, Saving
  <2> QED
    BY <2>1, <2>2, <2>3, <2>4 DEF Saving, Ended, Cases, Now
<1>4. CASE Finally
  <2>1. UNCHANGED <<ran, bound>>
    BY <1>4 DEF Finally
  <2>2. CASE phase = "raised"
    <3>1. pc' = "suite"
      BY <1>4, <2>2 DEF Finally, AfterCase, NextSuite
    <3> QED
      BY <3>1 DEF Saving, InSuite
  <2>3. CASE phase # "raised"
    <3>1. pc' = "case" /\ i' = i + 1 /\ s' = s
      BY <1>4, <2>3 DEF Finally, AfterCase, NextCase
    <3>2. s \in Suites /\ \A j \in Cases(s) : j < i + 1 => j < i \/ j = i
      BY <1>4, PlanType DEF Finally, Typed, Loops, InSuite, Cases
    <3>3. Ended(i) /\ \A j \in Cases(s) : j < i => Ended(j)
      BY <1>4 DEF Finally, Saving, InSuite
    <3>4. \A j \in Cases(s) : Ended(j)' <=> Ended(j)
      BY <2>1, <3>1 DEF Ended
    <3> QED
      BY <3>1, <3>2, <3>3, <3>4 DEF Saving, Cases
  <2> QED
    BY <2>2, <2>3
<1>5. CASE SaveData
  <2>1. /\ i \in Cases(s) /\ s \in Suites /\ Now.saves \in Placeholders
        /\ bound'[s] = [bound[s] EXCEPT ![Now.saves] = i]
    BY <1>5, BoundGrows DEF Typed
  <2>2. UNCHANGED <<s, i, ran, pc>> /\ pc = "run"
    BY <1>5 DEF SaveData, cursor
  <2>3. bound[s] \in [Placeholders -> Nat]
    BY <2>1, PlanType DEF Typed, Entries
  <2>4. ASSUME NEW j \in Cases(s), j < i PROVE Ended(j)'
    <3>1. Ended(j)
      BY <2>2, <2>4 DEF Saving, InSuite
    <3>2. Plan[s].cases[j] \in Case
      BY <2>1, PlanType
    <3>3. Plan[s].cases[j].saves # None => Plan[s].cases[j].saves \in Placeholders
      BY <3>2 DEF Case
    <3>4. i \in Nat /\ j \in Nat
      BY <2>1, PlanType DEF Cases
    <3> QED
      BY <2>1, <2>2, <2>3, <2>4, <3>1, <3>3, <3>4 DEF Ended
  <2>5. bound'[s][Now.saves] = i
    BY <2>1, <2>3
  <2>6. Now' = Now
    BY <2>2 DEF Now
  <2> QED
    BY <2>1, <2>2, <2>4, <2>5, <2>6 DEF Saving, Cases
<1>6. CASE Report \/ ReportCommand
  BY <1>6 DEF Report, ReportCommand, cursor, Saving, Ended, Cases, Now, InSuite
<1>7. CASE ConnectFails \/ NoPlugin \/ PluginReturns \/ PluginRaises
  <2>1. pc \in {"connect", "run"} /\ pc' = "finally" /\ UNCHANGED <<s, i, bound, didSave>>
    BY <1>7 DEF ConnectFails, NoPlugin, PluginReturns, PluginRaises, files
  <2>2. i \in Cases(s) /\ s \in Suites
    BY <2>1 DEF Typed, Loops, InSuite, InCase
  <2>3. \A j \in Cases(s) : j < i => Ended(j) /\ ran'[s][j] = ran[s][j]
    BY <1>7, <2>1, <2>2, EntryOnly, PlanType DEF Entry, Saving, InSuite, Cases
  <2>4. \A j \in Cases(s) : j < i => Ended(j)'
    BY <2>1, <2>3 DEF Ended
  <2>5. CASE ConnectFails \/ NoPlugin \/ PluginRaises
    <3>1. ran'[s][i] \in {"skipped", "raised"}
      BY <2>2, <2>5 DEF ConnectFails, NoPlugin, PluginRaises, Typed, Entries
    <3> QED
      BY <2>1, <2>4, <3>1 DEF Saving, Ended, Cases
  <2>6. CASE PluginReturns
    <3>1. Now.kind = "install" /\ Now.saves # None => bound[s][Now.saves] >= i
      <4>1. SavesData => didSave
        BY <2>6 DEF PluginReturns, MayReturn
      <4>2. i \in Nat
        BY <2>2, PlanType DEF Cases
      <4> QED
        BY <2>6, <4>1, <4>2 DEF PluginReturns, SavesData, Saving
    <3> QED
      BY <2>1, <2>4, <3>1 DEF Saving, Ended, Cases, Now
  <2> QED
    BY <1>7, <2>5, <2>6
<1> QED
  BY <1>1, <1>2, <1>3, <1>4, <1>5, <1>6, <1>7 DEF Next, Driver, Plugin

\* Before a test case runs, its placeholders have been replaced by the test cases
\* that were to save them.
THEOREM PlaceholdersResolved == Spec => []ResolvedBeforeUse
<1>1. Spec => [](Typed /\ Broken /\ Saving)
  BY InitTyped, TypedStep, InitBroken, BrokenStep, InitSaving, SavingStep, PTL DEF Spec
<1>2. Typed /\ Broken /\ Saving => ResolvedBeforeUse
  <2> SUFFICES ASSUME Typed, Broken, Saving, pc = "run", NEW j \in 1 .. i - 1,
                      Plan[s].cases[j].kind = "install",
                      Plan[s].cases[j].saves \in Now.uses, ran[s][j] # "skipped"
               PROVE  bound[s][Plan[s].cases[j].saves] >= j
    BY DEF ResolvedBeforeUse
  <2>1. i \in Cases(s) /\ s \in Suites
    BY DEF Typed, Loops, InSuite, InCase
  <2>2. j \in Cases(s) /\ j < i
    BY <2>1, PlanType DEF Cases
  <2>3. Plan[s].cases[j].saves # None
    BY <2>1, PlanType, SuiteAssumption DEF Now, Case
  <2> QED
    BY <2>2, <2>3 DEF Saving, Ended, Broken, Ahead, InSuite
<1> QED
  BY <1>1, <1>2, PTL

=============================================================================
