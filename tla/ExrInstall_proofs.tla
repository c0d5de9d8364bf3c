-------------------------- MODULE ExrInstall_proofs --------------------------
(***************************************************************************)
(* Theorems about ExrInstall, for every set of test cases, every router    *)
(* behaviour and all bounds.  The inductive invariant IInv is proved one   *)
(* conjunct at a time; everything else follows from it.                    *)
(***************************************************************************)
EXTENDS ExrInstall, TLAPS

USE DEF AllKinds, AllReplies, Outcomes, Domains, PCs, NoOp, Ops, ReportAt, PollAt

-----------------------------------------------------------------------------
(* Types.                                                                  *)

\* The initial states have the right types.
LEMMA InitType == Init => TypeOK
<1> SUFFICES ASSUME Init PROVE TypeOK
  OBVIOUS
<1>1. job \in Jobs /\ todo \in Seq(Entry)
  BY ExrAssumption DEF Init, Job
<1>2. nodes \in BOOLEAN /\ missed \in BOOLEAN /\ finish \in BOOLEAN /\ saved \in BOOLEAN
  BY DEF Init
<1>3. op \in [Ops -> {"none", "running", "success", "aborted"}]
        /\ dom \in [Ops -> Domains]
  BY DEF Init
<1> QED
  BY <1>1, <1>2, <1>3, ExrAssumption DEF Init, TypeOK

\* The steps of the plugin keep the types.
LEMMA PluginType == TypeOK /\ Plugin => TypeOK'
<1> SUFFICES ASSUME TypeOK, Plugin PROVE TypeOK'
  OBVIOUS
<1> USE ExrAssumption DEF TypeOK, Goto, device, box, session, watch, result, input
<1>1. job \in Job
  OBVIOUS
<1>2. CASE EnterAdmin
  BY <1>2 DEF EnterAdmin, Enter
<1>3. CASE PlainAccepted
  BY <1>3 DEF PlainAccepted, StartOp, Here, NoIdGoto, AfterId, Read
<1>4. CASE PlainRefused
  BY <1>4 DEF PlainRefused, NoIdGoto, Read
<1>5. CASE FsmAccepted
  BY <1>5 DEF FsmAccepted, StartOp, Here, Read
<1>6. CASE FsmRefused
  BY <1>6 DEF FsmRefused, Read
<1>7. CASE Resolve
  <2>1. opId' \in Ops \cup {NoOp}
    BY <1>7 DEF Resolve, OpIdOf, InProgress
  <2>2. unread' \subseteq Ops /\ depth' \in Nat
    BY <1>7 DEF Resolve, Read
  <2>3. pc' \in PCs
    BY <1>7 DEF Resolve
  <2>4. missed' \in BOOLEAN
    BY <1>7 DEF Resolve, Read
  <2> QED
    BY <1>7, <2>1, <2>2, <2>3, <2>4 DEF Resolve
<1>8. CASE Confirm
  BY <1>8 DEF Confirm, Read
<1>9. CASE AskId
  BY <1>9 DEF AskId, InProgress, Read
<1>10. CASE NextLevelEntry
  <2>1. todo' \in Seq(Entry)
    BY <1>10 DEF NextLevelEntry
  <2>2. depth' \in Nat
    BY <1>10 DEF NextLevelEntry, LevelDepth, Enter, Exit
  <2> QED
    BY <1>10, <2>1, <2>2 DEF NextLevelEntry, AfterFailed
<1>11. CASE NextLevelDone
  BY <1>11 DEF NextLevelDone, AfterLevel
<1>12. CASE WatchPrompt
  <2>1. finish' \in BOOLEAN
    BY <1>12 DEF WatchPrompt
  <2>2. unread' \subseteq Ops /\ depth' \in Nat
    BY <1>12 DEF WatchPrompt, Read
  <2>3. missed' \in BOOLEAN
    BY <1>12 DEF WatchPrompt, Read
  <2> QED
    BY <1>12, <2>1, <2>2, <2>3 DEF WatchPrompt
<1>13. CASE WatchShow
  BY <1>13 DEF WatchShow, Read
<1>14. CASE WatchFault
  BY <1>14 DEF WatchFault
<1>15. CASE WatchGiveUp
  BY <1>15 DEF WatchGiveUp
<1>16. CASE WatchReconnect
  BY <1>16 DEF WatchReconnect, OutOfRetries, CountRetry, AfterReconnect
<1>17. CASE Watched
  BY <1>17 DEF Watched
<1>18. CASE WaitReload
  BY <1>18 DEF WaitReload
<1>19. CASE PollTimeout
  BY <1>19 DEF PollTimeout, AfterFailed
<1>20. CASE Poll
  BY <1>20 DEF Poll, InTime, Read
<1>21. CASE ReportStatus
  BY <1>21 DEF ReportStatus, Verdict, AfterReport, AfterFailed, Read
<1>22. CASE ReportNothing
  BY <1>22 DEF ReportNothing
<1>23. CASE AdminReloadTail \/ AdminPlatform
  <2>1. CASE AdminReloadTail
    BY <2>1 DEF AdminReloadTail, Verdict, AfterFailed, Read
  <2>2. CASE AdminPlatform
    BY <2>2 DEF AdminPlatform, Read
  <2> QED
    BY <1>23, <2>1, <2>2
<1>24. CASE SaveData
  <2>1. depth' \in Nat
    BY <1>24 DEF SaveData, SaveDepth, Enter, Exit
  <2>2. saved' \in BOOLEAN /\ pc' \in PCs
    BY <1>1, <1>24 DEF SaveData, Job
  <2> QED
    BY <1>24, <2>1, <2>2 DEF SaveData
<1>25. CASE Leave
  BY <1>25 DEF Leave, Exits
<1>26. CASE RaiseError
  BY <1>26 DEF RaiseError
<1>27. CASE RaiseCrash
  BY <1>27 DEF RaiseCrash
<1>28. CASE SendFails
  BY <1>28 DEF SendFails
<1>29. CASE PlainBusy
  BY <1>29 DEF PlainBusy, InProgress, AfterId, Read
<1>30. CASE Peek
  BY <1>30 DEF Peek, Read
<1>31. CASE SwitchMode
  <2>1. missed' \in BOOLEAN
    BY <1>31 DEF SwitchMode
  <2>2. depth' \in Nat /\ unread' \subseteq Ops
    BY <1>31 DEF SwitchMode, Enter
  <2>3. pc' \in PCs
    BY <1>31 DEF SwitchMode, Switches
  <2> QED
    BY <1>31, <2>1, <2>2, <2>3 DEF SwitchMode
<1> QED
  BY <1>2, <1>3, <1>4, <1>5, <1>6, <1>7, <1>8, <1>9, <1>10, <1>11, <1>12,
     <1>13, <1>14, <1>15, <1>16, <1>17, <1>18, <1>19, <1>20, <1>21, <1>22,
     <1>23, <1>24, <1>25, <1>26, <1>27,
     <1>28, <1>29, <1>30, <1>31 DEF Plugin

\* So do the steps of the router.
LEMMA RouterType == TypeOK /\ Router => TypeOK'
<1> SUFFICES ASSUME TypeOK, Router PROVE TypeOK'
  OBVIOUS
<1> USE ExrAssumption DEF TypeOK, device, box, watch, result, input, plugin
<1>1. ASSUME NEW d \in Domains, ForeignStart(d) PROVE TypeOK'
  BY <1>1 DEF ForeignStart
<1>2. ASSUME NEW i \in Ops, OpAborts(i) PROVE TypeOK'
  BY <1>2 DEF OpAborts
<1>3. ASSUME NEW i \in Ops, OpSucceeds(i) PROVE TypeOK'
  <2>1. pend' \subseteq Ops /\ unread' \subseteq Ops
    BY <1>3 DEF OpSucceeds, Printed
  <2>2. op' \in [Ops -> {"none", "running", "success", "aborted"}]
    BY <1>3 DEF OpSucceeds
  <2> QED
    BY <1>3, <2>1, <2>2 DEF OpSucceeds
<1>4. ASSUME NEW i \in Ops, Show(i) PROVE TypeOK'
  BY <1>4 DEF Show, Printed
<1>5. CASE ReloadBegins
  <2>1. nodes' \in BOOLEAN
    BY <1>5 DEF ReloadBegins
  <2> QED
    BY <1>5, <2>1 DEF ReloadBegins
<1>6. CASE BootDone \/ NodesUp
  <2>1. nodes' \in BOOLEAN
    BY <1>6 DEF BootDone, NodesUp
  <2>2. router' \in {"up", "booting", "back"}
    BY <1>6 DEF BootDone, NodesUp
  <2>3. UNCHANGED <<device, unread, plugin>>
    BY <1>6 DEF BootDone, NodesUp
  <2> QED
    BY <2>1, <2>2, <2>3
<1> QED
  BY <1>1, <1>2, <1>3, <1>4, <1>5, <1>6 DEF Router, OpEnds

\* Every step keeps the types.
LEMMA StepType == TypeOK /\ [Next]_vars => TypeOK'
<1> SUFFICES ASSUME TypeOK, UNCHANGED vars PROVE TypeOK'
  BY PluginType, RouterType DEF Next, Ended
<1> QED
  BY DEF TypeOK, vars, device, box, session, watch, result, input

\* Every variable keeps its type; in particular time_tried stays within the
\* three retries of watch_operation, and operation ids within the ids given.
THEOREM TypeCorrect == Spec => []TypeOK
  BY InitType, StepType, PTL DEF Spec

-----------------------------------------------------------------------------
(* The inductive invariant.                                                *)

\* Only a new operation, whose id is the next one, or one that is running
\* changes its state.
LEMMA StepFresh == TypeOK /\ FreshOps /\ [Next]_vars => FreshOps'
<1> SUFFICES ASSUME TypeOK, FreshOps, [Next]_vars PROVE FreshOps'
  OBVIOUS
<1> USE DEF TypeOK, FreshOps, device
<1>1. CASE UNCHANGED <<op, started>>
  BY <1>1
<1>2. ASSUME NEW st \in {"running", "aborted"}, StartOp(st) PROVE FreshOps'
  BY <1>2 DEF StartOp
<1>3. ASSUME NEW d \in Domains, ForeignStart(d) PROVE FreshOps'
  BY <1>3 DEF ForeignStart
<1>4. ASSUME NEW i \in Ops, OpEnds(i) PROVE FreshOps'
  BY <1>4 DEF OpEnds, OpAborts, OpSucceeds
<1>5. CASE PlainAccepted
  BY <1>2, <1>5 DEF PlainAccepted
<1>6. CASE FsmAccepted
  BY <1>2, <1>6 DEF FsmAccepted
<1>7. CASE Plugin
  BY <1>1, <1>5, <1>6, <1>7 DEF Plugin, EnterAdmin, PlainRefused, PlainBusy,
     FsmRefused, Peek, Resolve, Confirm, AskId, NextLevelEntry, NextLevelDone, WatchPrompt,
     WatchShow, WatchFault, WatchGiveUp, WatchReconnect, Watched, WaitReload,
     PollTimeout, Poll, ReportStatus, SwitchMode, ReportNothing, AdminReloadTail, AdminPlatform, SaveData,
     Leave, RaiseError, RaiseCrash, SendFails
<1>8. CASE Router
  BY <1>1, <1>3, <1>4, <1>8 DEF Router, Show, ReloadBegins, BootDone, NodesUp
<1> QED
  BY <1>1, <1>7, <1>8 DEF Next, Ended, vars

\* The steps of the plugin only learn the ids of operations that were started.
LEMMA PluginIds == TypeOK /\ IdsStarted /\ Plugin => IdsStarted'
<1> SUFFICES ASSUME TypeOK, IdsStarted, Plugin PROVE IdsStarted'
  OBVIOUS
<1> USE DEF TypeOK, IdsStarted, Outcome, device, input
<1>1. ASSUME NEW st \in {"running", "aborted"}, StartOp(st)
      PROVE  /\ mine' \in Ops /\ op'[mine'] = st
             /\ \A i \in Ops : op[i] # "none" => op'[i] # "none"
  BY <1>1, ExrAssumption DEF StartOp
<1>2. CASE PlainAccepted
  BY <1>1, <1>2 DEF PlainAccepted
<1>3. CASE FsmAccepted
  <2>1. PICK st \in {"running", "aborted"} : StartOp(st)
    BY <1>3 DEF FsmAccepted
  <2>2. shown' \in {mine', NoOp} /\ opId' = opId
    BY <1>3 DEF FsmAccepted
  <2> QED
    BY <1>1, <2>1, <2>2
<1>4. CASE PlainBusy \/ AskId
  BY <1>4 DEF PlainBusy, AskId, InProgress
<1>5. CASE Resolve
  BY <1>5 DEF Resolve, OpIdOf, InProgress
<1>6. CASE UNCHANGED <<op, mine, shown, opId>>
  BY <1>6
<1> QED
  BY <1>2, <1>3, <1>4, <1>5, <1>6 DEF Plugin, EnterAdmin, PlainRefused,
     FsmRefused, Peek, Confirm, NextLevelEntry, NextLevelDone, WatchPrompt,
     WatchShow, WatchFault, WatchGiveUp, WatchReconnect, Watched, WaitReload,
     PollTimeout, Poll, ReportStatus, SwitchMode, ReportNothing, AdminReloadTail,
     AdminPlatform, SaveData, Leave, RaiseError, RaiseCrash, SendFails

\* The router's steps do not touch the plugin.
LEMMA RouterQuiet ==
  Router \/ UNCHANGED vars => UNCHANGED <<missed, watch, result, input, pc, opId, todo>>
  BY DEF Router, ForeignStart, OpEnds, OpAborts, OpSucceeds, Show, ReloadBegins,
     BootDone, NodesUp, vars, session, plugin

\* No operation ever becomes one that was not started.
LEMMA StepIds == TypeOK /\ FreshOps /\ IdsStarted /\ [Next]_vars => IdsStarted'
<1> SUFFICES ASSUME TypeOK, FreshOps, IdsStarted, Router \/ UNCHANGED vars
             PROVE  IdsStarted'
  BY PluginIds DEF Next, Ended
<1>1. UNCHANGED <<mine, shown, opId>>
  BY RouterQuiet DEF input, Router, ForeignStart, OpEnds, OpAborts, OpSucceeds, Show,
     ReloadBegins, BootDone, NodesUp, device, vars
<1>2. \A i \in Ops : op[i] # "none" => op'[i] # "none"
  BY DEF TypeOK, FreshOps, Router, ForeignStart, OpEnds, OpAborts, OpSucceeds, Show,
     ReloadBegins, BootDone, NodesUp, device, vars
<1> QED
  BY <1>1, <1>2 DEF IdsStarted, Outcome, TypeOK

\* The plugin's steps keep what the control flow guarantees.
Flow == NoIdYet /\ VerdictFollowsReport /\ SavedAtEnd

\* No step of the plugin breaks the flow.
LEMMA PluginFlow == TypeOK /\ Flow /\ Plugin => Flow'
<1> SUFFICES ASSUME TypeOK, Flow, Plugin PROVE Flow'
  OBVIOUS
<1> USE DEF Flow, NoIdYet, VerdictFollowsReport, SavedAtEnd, NoVerdict,
     InAdminShell, Goto, TypeOK, watch, result, input
<1>1. CASE EnterAdmin
  BY <1>1 DEF EnterAdmin
<1>2. CASE PlainAccepted
  BY <1>2 DEF PlainAccepted, NoIdGoto, AfterId
<1>3. CASE PlainRefused
  BY <1>3 DEF PlainRefused, NoIdGoto
<1>4. CASE FsmAccepted
  BY <1>4 DEF FsmAccepted
<1>5. CASE FsmRefused
  BY <1>5 DEF FsmRefused
<1>6. CASE Resolve
  BY <1>6 DEF Resolve
<1>7. CASE Confirm
  BY <1>7 DEF Confirm
<1>8. CASE AskId
  BY <1>8 DEF AskId
<1>9. CASE NextLevelEntry
  BY <1>9 DEF NextLevelEntry, AfterFailed
<1>10. CASE NextLevelDone
  BY <1>10 DEF NextLevelDone, AfterLevel
<1>11. CASE WatchPrompt
  BY <1>11 DEF WatchPrompt
<1>12. CASE WatchShow
  BY <1>12 DEF WatchShow
<1>13. CASE WatchFault
  BY <1>13 DEF WatchFault
<1>14. CASE WatchGiveUp
  BY <1>14 DEF WatchGiveUp
<1>15. CASE WatchReconnect
  BY <1>15 DEF WatchReconnect, AfterReconnect
<1>16. CASE Watched
  BY <1>16 DEF Watched
<1>17. CASE WaitReload
  BY <1>17 DEF WaitReload
<1>18. CASE PollTimeout
  BY <1>18 DEF PollTimeout, AfterFailed
<1>19. CASE Poll
  BY <1>19 DEF Poll
<1>20. CASE ReportStatus
  BY <1>20 DEF ReportStatus, Verdict, AfterReport, AfterFailed
<1>21. CASE ReportNothing
  BY <1>21 DEF ReportNothing
<1>22. CASE AdminReloadTail \/ AdminPlatform
  BY <1>22 DEF AdminReloadTail, AdminPlatform, Verdict, AfterFailed
<1>23. CASE SaveData
  BY <1>23 DEF SaveData
<1>24. CASE Leave
  BY <1>24 DEF Leave
<1>25. CASE RaiseError
  BY <1>25 DEF RaiseError
<1>26. CASE RaiseCrash
  BY <1>26 DEF RaiseCrash
<1>27. CASE SendFails
  BY <1>27 DEF SendFails
<1>28. CASE PlainBusy
  BY <1>28 DEF PlainBusy, AfterId
<1>29. CASE Peek
  BY <1>29 DEF Peek
<1>30. CASE SwitchMode
  BY <1>30 DEF SwitchMode, Switches
<1> QED
  BY <1>1, <1>2, <1>3, <1>4, <1>5, <1>6, <1>7, <1>8, <1>9, <1>10, <1>11,
     <1>12, <1>13, <1>14, <1>15, <1>16, <1>17, <1>18, <1>19, <1>20, <1>21,
     <1>22, <1>23, <1>24, <1>25, <1>26, <1>27, <1>28, <1>29, <1>30 DEF Plugin

\* Nor does any other step break it.
LEMMA StepFlow == TypeOK /\ Flow /\ [Next]_vars => Flow'
<1> SUFFICES ASSUME Flow, UNCHANGED <<watch, result, input, pc, opId, todo>>
             PROVE  Flow'
  BY PluginFlow, RouterQuiet DEF Next, Ended
<1> QED
  BY DEF Flow, NoIdYet, VerdictFollowsReport, SavedAtEnd, NoVerdict,
     InAdminShell, result, input

\* IInv holds at the start ...
LEMMA InitInv == Init => IInv
<1>1. Init => FreshOps /\ IdsStarted /\ NoIdYet /\ VerdictFollowsReport /\ SavedAtEnd
  BY ExrAssumption DEF Init, FreshOps, IdsStarted, Outcome, NoIdYet,
     VerdictFollowsReport, SavedAtEnd
<1> QED
  BY <1>1, InitType DEF IInv

\* ... every step keeps it ...
LEMMA StepInv == IInv /\ [Next]_vars => IInv'
  BY StepType, StepFresh, StepIds, StepFlow DEF IInv, Flow

\* ... and so it always holds.
THEOREM Invariance == Spec => []IInv
  BY InitInv, StepInv, PTL DEF Spec

-----------------------------------------------------------------------------
(* What follows from it.                                                   *)

\* tc.json only ever gets the id of an operation whose test case passed.
THEOREM SavedIdsPassed == Spec => []SavedWasPassed
<1>1. IInv => SavedWasPassed
  BY DEF IInv, SavedAtEnd, SavedWasPassed
<1> QED
  BY <1>1, Invariance, PTL

\* Only an Add in the Admin shell may return without a verdict: when there
\* is none, every run() that returns has reported.
THEOREM ReturnsReport ==
  ASSUME \A j \in Jobs : j.kind = "add" => j.shell # "Admin"
  PROVE  Spec => []ReturnReports
<1>1. IInv => ReturnReports
  BY DEF IInv, TypeOK, VerdictFollowsReport, NoVerdict, InAdminShell, ReturnReports
<1> QED
  BY <1>1, Invariance, PTL

\* A pattern that matches the log of a running operation, or what is shown
\* of an operation in the other domain, matches every log, as "[]" does.
SettledPatterns ==
  \A j \in Jobs : {"running", "refused"} \cap j.accepts # {} => j.accepts = Outcomes

\* The plugin gets to save, leave and returned by a report or from there.
LEMMA PluginPassed ==
  SettledPatterns /\ TypeOK /\ IdsStarted /\ Flow /\ PassedStaysTrue /\ Plugin => PassedStaysTrue'
<1> SUFFICES ASSUME SettledPatterns, TypeOK, IdsStarted, Flow, PassedStaysTrue, Plugin PROVE PassedStaysTrue'
  OBVIOUS
<1> USE DEF PassedStaysTrue, Goto, Outcome, TypeOK, device, watch, result, input
<1>1. CASE PlainAccepted \/ PlainRefused
  <2>1. opId = NoOp
    BY <1>1 DEF Flow, NoIdYet, PlainAccepted, PlainRefused
  <2> QED
    BY <1>1, <2>1 DEF PlainAccepted, PlainRefused, NoIdGoto, AfterId
<1>2. CASE ReportStatus
  <2>1. Matched => verdict' = "Passed" /\ Outcome(opId) \in job.accepts
    <3>1. Outcome(opId) \in Outcomes
      BY DEF Outcome, IdsStarted
    <3> QED
      BY <1>2, <3>1 DEF ReportStatus, Matched, Logged, Verdict, SettledPatterns
  <2> QED
    BY <1>2, <2>1 DEF ReportStatus, AfterFailed
<1>3. CASE SaveData \/ Leave
  BY <1>3 DEF SaveData, Leave
<1>4. CASE pc' \notin {"save", "leave", "returned"}
  BY <1>4
<1>5. CASE SwitchMode
  BY <1>4, <1>5 DEF SwitchMode, Switches
<1> QED
  BY <1>1, <1>2, <1>3, <1>4, <1>5 DEF Plugin, EnterAdmin, PlainBusy, AfterId,
     FsmAccepted, FsmRefused, Peek, Resolve, Confirm, AskId, NextLevelEntry,
     NextLevelDone, AfterLevel, AfterFailed, WatchPrompt, WatchShow, WatchFault,
     WatchGiveUp, WatchReconnect,
     AfterReconnect, Watched, WaitReload, PollTimeout, Poll, ReportNothing,
     AdminReloadTail, AdminPlatform, RaiseError, RaiseCrash, SendFails

\* An operation that ends while its id is known was running.
LEMMA RouterPassed ==
  ASSUME SettledPatterns
  PROVE  TypeOK /\ FreshOps /\ PassedStaysTrue /\ Router => PassedStaysTrue'
<1> SUFFICES ASSUME TypeOK, FreshOps, PassedStaysTrue, Router,
                    pc \in {"save", "leave", "returned"}, opId # NoOp
             PROVE  op'[opId] \in job.accepts
  BY RouterQuiet DEF PassedStaysTrue, Outcome, result, input
<1>1. op[opId] \in job.accepts /\ job.accepts \subseteq Outcomes /\ opId \in Ops
  BY ExrAssumption DEF PassedStaysTrue, Outcome, TypeOK, Job
<1>2. CASE op'[opId] = op[opId]
  BY <1>1, <1>2
<1>3. CASE op'[opId] # op[opId]
  <2>1. ASSUME NEW d \in Domains, ForeignStart(d) PROVE FALSE
    <3>1. opId = started + 1
      BY <1>1, <1>3, <2>1 DEF ForeignStart, TypeOK
    <3>2. op[opId] = "none"
      BY <1>1, <3>1 DEF FreshOps, TypeOK
    <3> QED
      BY <1>1, <3>2
  <2>2. ASSUME NEW i \in Ops, OpEnds(i)
        PROVE  op[opId] = "running" /\ op'[opId] \in {"aborted", "success"}
    BY <1>1, <1>3, <2>2 DEF OpEnds, OpAborts, OpSucceeds, TypeOK
  <2>3. op[opId] = "running" /\ op'[opId] \in {"aborted", "success"}
    BY <1>3, <2>1, <2>2 DEF Router, Show, ReloadBegins, BootDone, NodesUp, device
  <2> QED
    BY <1>1, <2>3 DEF SettledPatterns, TypeOK
<1> QED
  BY <1>2, <1>3

\* A recorded "Passed" stays right: no later step of the operation, of the
\* router or of another user turns it into one the pattern would refuse.
THEOREM PassedForGood ==
  ASSUME SettledPatterns PROVE Spec => []PassedStaysTrue
<1>1. Init => PassedStaysTrue
  BY DEF Init, PassedStaysTrue
<1>2. IInv /\ PassedStaysTrue /\ [Next]_vars => PassedStaysTrue'
  <2>1. UNCHANGED vars /\ PassedStaysTrue => PassedStaysTrue'
    BY DEF vars, device, result, input, PassedStaysTrue, Outcome
  <2> QED
    BY <2>1, PluginPassed, RouterPassed DEF Next, Ended, IInv, Flow
<1> QED
  BY <1>1, <1>2, Invariance, PTL DEF Spec

\* The safety part of the refinement of TestCase: what a plugin reports and
\* how it ends are steps the suite runner allows for.
THEOREM RefinesTestCase ==
  ASSUME \A j \in Jobs : j.kind = "add" => j.shell # "Admin"
  PROVE  Spec => Promise!Safety
<1>1. Init => Promise!Init
  BY DEF Init, Promise!Init
<1>2. ASSUME IInv, Plugin PROVE [Promise!Next]_(Promise!vars)
  <2>1. pc \notin {"returned", "raised"}
    BY <1>2 DEF Switches, Plugin, EnterAdmin, PlainAccepted, PlainRefused, PlainBusy,
       FsmAccepted, FsmRefused, Peek, Resolve, Confirm, AskId, NextLevelEntry, NextLevelDone,
       WatchPrompt, WatchShow, WatchFault, WatchGiveUp, WatchReconnect, Watched,
       WaitReload, PollTimeout, Poll, ReportStatus, SwitchMode, ReportNothing,
       AdminReloadTail, AdminPlatform, SaveData, Leave, RaiseError, RaiseCrash, Sends, SendFails
  <2>2. CASE NextLevelEntry \/ PollTimeout \/ ReportStatus \/ ReportNothing
             \/ AdminReloadTail
    <3>1. pc' \notin {"returned", "raised"} /\ verdict \in {"Blocked", "Passed"}
      BY <1>2, <2>1, <2>2 DEF IInv, TypeOK, VerdictFollowsReport, Goto, AfterFailed,
         AfterReport, NextLevelEntry, PollTimeout, ReportStatus, ReportNothing,
         AdminReloadTail
    <3>2. verdict' \in {"Passed", "Failed"} \/ verdict' = verdict
      BY <2>2 DEF Verdict, NextLevelEntry, PollTimeout, ReportStatus, ReportNothing,
         AdminReloadTail
    <3> QED
      BY <2>1, <3>1, <3>2 DEF Promise!Next, Promise!ReportPassed,
         Promise!ReportFailed, Promise!vars
  <2>3. CASE Leave
    <3>1. verdict = "Passed" /\ verdict' = verdict
      BY <1>2, <2>3 DEF Leave, IInv, TypeOK, VerdictFollowsReport, NoVerdict,
         InAdminShell, result
    <3>2. pc' \in {"returned", "raised"}
      BY <2>3 DEF Leave
    <3> QED
      BY <2>1, <3>1, <3>2 DEF Promise!Next, Promise!Return, Promise!Raise
  <2>4. CASE verdict' = verdict /\ pc' # "returned"
    BY <2>1, <2>4 DEF Promise!Next, Promise!Raise, Promise!vars
  <2>5. \/ NextLevelEntry \/ PollTimeout \/ ReportStatus \/ ReportNothing
        \/ AdminReloadTail \/ Leave
        \/ verdict' = verdict /\ pc' # "returned"
    BY <1>2 DEF Plugin, Goto, result, EnterAdmin, PlainAccepted, PlainRefused,
       NoIdGoto, PlainBusy, AfterId, FsmAccepted, FsmRefused, Peek, Resolve, Confirm,
       AskId, NextLevelDone, AfterLevel, WatchPrompt, WatchShow, WatchFault, WatchGiveUp,
       WatchReconnect, AfterReconnect, Watched, WaitReload, Poll, SwitchMode, Switches,
       AdminPlatform, SaveData, RaiseError, RaiseCrash, SendFails
  <2> QED
    BY <2>2, <2>3, <2>4, <2>5
<1>3. Router \/ UNCHANGED vars => UNCHANGED Promise!vars
  BY RouterQuiet DEF Promise!vars, result
<1>4. IInv /\ [Next]_vars => [Promise!Next]_(Promise!vars)
  BY <1>2, <1>3 DEF Next, Ended
<1> QED
  BY <1>1, <1>4, Invariance, PTL DEF Spec, Promise!Safety

-----------------------------------------------------------------------------
(* The session.                                                            *)

\* "admin" in admin mode starts no second one.
Homing == \A j \in Jobs : j.shell = "Admin" => ~AdminNests

\* The mode the plugin works in when it is back from everything.
Home == IF InAdminShell THEN 2 ELSE 1

\* Where the plugin is before wait_for_reload or a tried "admin" may lose the session.
Early == {"enter", "command", "resolve", "confirm", "nextlevel", "askid", "watch",
          "watchshow", "retry", "watched", "reload"}
AtSwitch == DOMAIN Switches

\* The session is never deeper than that mode; it is open as long as nothing that is
\* passed over may have closed it.
InMode ==
  /\ pc \in AtSwitch \cup {"enter"} => InAdminShell
  /\ depth <= Home
  /\ router = "up" /\ pc \in Early => depth > 0
  /\ router = "up" /\ ~InAdminShell /\ pc \notin {"poll", "error", "crash", "raised", "returned"}
       => depth > 0

\* Before the watch, and again from report_install_status on, an open session is in its
\* mode, if the last "admin" has not been passed over; process_save_data leaves it.
AtHome ==
  /\ pc = "enter" /\ router = "up" => depth = 1
  /\ pc = "command" /\ router = "up" => depth = Home
  /\ pc = "save" => job.kind \notin {"activate", "commit"} /\ ~SkipsSave
  /\ depth > 0 /\ ~missed =>
       /\ router = "up" /\ pc \in {"report", "save"} => depth = Home
       /\ router = "up" /\ pc = "leave" => depth = IF SavesNames THEN 1 ELSE Home

\* What the plugin does to its session.
LEMMA PluginMode == Homing /\ TypeOK /\ InMode /\ Plugin => InMode'
<1> SUFFICES ASSUME Homing, TypeOK, InMode, Plugin PROVE InMode'
  OBVIOUS
<1> USE DEF InMode, Home, Goto, box, session, input, InAdminShell, Early, AtSwitch, Switches
<1>1. job.shell \in Domains /\ depth \in Nat /\ (job.shell = "Admin" => ~AdminNests)
  BY ExrAssumption DEF TypeOK, Homing, Job
<1>2. CASE EnterAdmin
  BY <1>1, <1>2 DEF EnterAdmin, Enter
<1>3. CASE PlainAccepted \/ PlainRefused
  BY <1>1, <1>3 DEF PlainAccepted, PlainRefused, NoIdGoto, AfterId, Read
<1>4. CASE PlainBusy \/ FsmAccepted \/ FsmRefused
  BY <1>1, <1>4 DEF PlainBusy, AfterId, FsmAccepted, FsmRefused, Read
<1>5. CASE Resolve \/ Confirm \/ AskId
  BY <1>1, <1>5 DEF Resolve, Confirm, AskId, Read
<1>6. CASE NextLevelEntry
  <2>1. UNCHANGED <<box, input>> /\ pc = "nextlevel" /\ pc' \in {"nextlevel", "error"}
        /\ depth >= 1 /\ depth' = LevelDepth(Head(todo), depth)
    BY <1>6 DEF NextLevelEntry, AfterFailed, Live
  <2>2. depth' \in Nat /\ depth' >= 1 /\ depth' <= Home
    BY <1>1, <2>1 DEF LevelDepth, Enter, Exit
  <2> QED
    BY <1>1, <2>1, <2>2
<1>7. CASE NextLevelDone
  BY <1>1, <1>7 DEF NextLevelDone, AfterLevel
<1>8. CASE WatchPrompt
  <2>1. UNCHANGED <<box, input, depth>> /\ pc = "watch" /\ pc' = "watchshow"
    BY <1>8 DEF WatchPrompt, Read
  <2> QED
    BY <1>1, <2>1
<1>9. CASE WatchShow \/ WatchFault \/ WatchGiveUp
  BY <1>1, <1>9 DEF WatchShow, WatchFault, WatchGiveUp, Read
<1>10. CASE WatchReconnect
  BY <1>1, <1>10 DEF WatchReconnect, AfterReconnect
<1>11. CASE Watched \/ Peek
  BY <1>1, <1>11 DEF Watched, Peek, Read
<1>12. CASE WaitReload
  BY <1>1, <1>12 DEF WaitReload
<1>13. CASE PollTimeout
  BY <1>1, <1>13 DEF PollTimeout, AfterFailed
<1>14. CASE Poll
  BY <1>1, <1>14 DEF Poll, Read, Live
<1>15. CASE SwitchMode
  <2>1. /\ UNCHANGED <<box, input>> /\ pc \in AtSwitch
        /\ pc' \in {"report", "poll", "tailswitch", "tail"}
        /\ depth' \in {depth, 0} \/ (Live /\ depth' = Enter(depth))
    BY <1>15 DEF SwitchMode
  <2>2. depth' <= Home
    BY <1>1, <2>1 DEF Enter, Live
  <2> QED
    BY <1>1, <2>1, <2>2
<1>16. CASE ReportStatus
  <2>1. /\ UNCHANGED <<box, input, depth>> /\ pc = "report"
        /\ pc' \in {"crash", "tail", "tailadmin", "leave", "save", "error"}
        /\ (pc' = "tailadmin" => InAdminShell)
    BY <1>16 DEF ReportStatus, AfterReport, AfterFailed, Read
  <2> QED
    BY <1>1, <2>1
<1>17. CASE ReportNothing \/ AdminReloadTail \/ AdminPlatform
  BY <1>1, <1>17 DEF ReportNothing, AdminReloadTail, AdminPlatform, AfterFailed, Read
<1>18. CASE SaveData
  <2>1. UNCHANGED <<box, input>> /\ pc = "save" /\ pc' \in {"raised", "leave"}
        /\ depth' = SaveDepth(depth)
    BY <1>18 DEF SaveData
  <2>2. depth' <= Home /\ (~InAdminShell => depth' = depth)
    BY <1>1, <2>1 DEF SaveDepth, Enter, Exit
  <2> QED
    BY <1>1, <2>1, <2>2
<1>19. CASE Leave
  BY <1>1, <1>19 DEF Leave, Exits
<1>20. CASE RaiseError \/ RaiseCrash \/ SendFails
  BY <1>1, <1>20 DEF RaiseError, RaiseCrash, SendFails
<1> QED
  BY <1>2, <1>3, <1>4, <1>5, <1>6, <1>7, <1>8, <1>9, <1>10, <1>11, <1>12, <1>13, <1>14,
     <1>15, <1>16, <1>17, <1>18, <1>19, <1>20 DEF Plugin

\* The router only ends a session by a reload.
LEMMA RouterMode == TypeOK /\ Router => (InMode => InMode') /\ (AtHome => AtHome')
<1> SUFFICES ASSUME TypeOK, Router PROVE (InMode => InMode') /\ (AtHome => AtHome')
  OBVIOUS
<1> USE DEF InMode, AtHome, Home, InAdminShell, SavesNames, SkipsSave, input, Early, AtSwitch,
     Switches
<1>1. UNCHANGED <<missed, input, pc, opId>>
  BY RouterQuiet
<1>2. CASE ReloadBegins
  BY <1>1, <1>2 DEF ReloadBegins
<1>3. CASE ~ReloadBegins
  <2>1. UNCHANGED depth /\ (router' = "up" => router = "up")
    BY <1>3 DEF Router, ForeignStart, OpEnds, OpAborts, OpSucceeds, Show, BootDone, NodesUp,
       box, plugin
  <2> QED
    BY <1>1, <2>1
<1> QED
  BY <1>2, <1>3

\* The plugin gets to its report in its mode, and leaves by one "exit" for each "admin".
LEMMA PluginHome == Homing /\ TypeOK /\ InMode /\ NoIdYet /\ AtHome /\ Plugin => AtHome'
<1> SUFFICES ASSUME Homing, TypeOK, InMode, NoIdYet, AtHome, Plugin PROVE AtHome'
  OBVIOUS
<1> USE DEF InMode, AtHome, Home, Goto, box, session, input, InAdminShell
<1>1. /\ job.shell \in Domains /\ depth \in Nat /\ (job.shell = "Admin" => ~AdminNests)
  BY ExrAssumption DEF TypeOK, Homing, Job
<1>2. CASE EnterAdmin
  BY <1>1, <1>2 DEF EnterAdmin, Enter
<1>3. CASE PlainAccepted \/ PlainRefused
  BY <1>1, <1>3 DEF PlainAccepted, PlainRefused, NoIdGoto, AfterId, Read, SkipsSave
<1>4. CASE SwitchMode
  <2>1. pc \in AtSwitch
    BY <1>4 DEF SwitchMode, AtSwitch
  <2>2. InAdminShell /\ ~AdminNests
    BY <1>1, <2>1
  <2>3. ~missed' => Live /\ depth' = Enter(depth)
    BY <1>4 DEF SwitchMode
  <2>4. pc' \in {"report", "poll", "tailswitch", "tail"} /\ UNCHANGED <<router, job>>
    BY <1>4 DEF SwitchMode, Switches
  <2>5. Live => depth \in {1, 2}
    BY <1>1, <2>2 DEF Live
  <2>6. ~missed' => depth' = 2
    BY <2>2, <2>3, <2>5 DEF Enter
  <2> QED
    BY <2>2, <2>4, <2>6
<1>5. CASE ReportStatus
  <2>1. /\ UNCHANGED <<box, input, opId, depth, missed>> /\ pc = "report"
        /\ pc' \in {"crash", "tail", "tailadmin", "leave", "save", "error"}
        /\ pc' = "leave" => job.kind \in {"activate", "commit"} \/ SkipsSave
        /\ pc' = "save" => job.kind \notin {"activate", "commit"} /\ ~SkipsSave
    BY <1>5 DEF ReportStatus, AfterReport, AfterFailed, Read
  <2>2. SkipsSave' = SkipsSave /\ SavesNames' = SavesNames
    BY <2>1 DEF SkipsSave, SavesNames
  <2>3. pc' = "leave" => ~SavesNames
    BY <2>1 DEF SavesNames
  <2> QED
    BY <1>1, <2>1, <2>2, <2>3
<1>6. CASE SaveData
  <2>1. /\ UNCHANGED <<box, input, opId, missed>> /\ pc = "save" /\ pc' \in {"raised", "leave"}
        /\ depth' = SaveDepth(depth) /\ (opId # NoOp => Live)
    BY <1>6 DEF SaveData
  <2>2. SavesNames' = SavesNames /\ (SavesNames <=> InAdminShell /\ opId # NoOp)
    BY <2>1 DEF SkipsSave, SavesNames
  <2>3. CASE SavesNames
    <3>1. depth \in {1, 2} /\ ~AdminNests
      BY <1>1, <2>1, <2>2, <2>3 DEF Live
    <3>2. depth' = 1
      BY <2>1, <2>2, <2>3, <3>1 DEF SaveDepth, Enter, Exit
    <3> QED
      BY <2>1, <2>2, <2>3, <3>2
  <2>4. CASE ~SavesNames
    <3>1. depth' = depth
      BY <2>1, <2>2, <2>4 DEF SaveDepth
    <3> QED
      BY <1>1, <2>1, <2>2, <2>4, <3>1
  <2> QED
    BY <2>3, <2>4
<1>7. CASE pc' \notin {"enter", "command", "report", "save", "leave"}
  BY <1>7
<1>8. CASE Resolve \/ NextLevelDone \/ WatchGiveUp \/ Watched \/ Peek \/ Poll
  <2>1. /\ UNCHANGED <<box, depth, missed, job>>
        /\ pc' \notin {"enter", "command", "save", "leave"}
        /\ pc' = "report" => ~InAdminShell
    BY <1>8 DEF Resolve, Read, NextLevelDone, AfterLevel, WatchGiveUp, Watched, Peek, Poll
  <2> QED
    BY <1>1, <2>1
<1> QED
  BY <1>2, <1>3, <1>4, <1>5, <1>6, <1>7, <1>8 DEF Plugin, PlainBusy, AfterId, FsmAccepted,
     FsmRefused, Confirm, AskId, NextLevelEntry, AfterFailed, WatchPrompt, WatchShow, WatchFault,
     WatchReconnect, AfterReconnect, WaitReload, PollTimeout, ReportNothing, AdminReloadTail,
     AdminPlatform, Leave, RaiseError, RaiseCrash, SendFails

\* A run() that returns leaves the session in XR exec, after any reconnections and with any
\* nextlevel commands, and logs it out exactly where one "exit" is sent too many; unless a
\* reload has closed the session or the last "admin" was passed over.
THEOREM EndsInExec == ASSUME ~AdminNests PROVE Spec => LeavesAtExec
<1> DEFINE Mode == IInv /\ InMode /\ AtHome
<1>1. Homing
  BY DEF Homing
<1>2. Init => InMode /\ AtHome
  BY ExrAssumption DEF Init, InMode, AtHome, Home, InAdminShell, AtSwitch, Switches, Job
<1>3. Mode /\ [Next]_vars => (InMode /\ AtHome)'
  <2>1. UNCHANGED vars /\ InMode /\ AtHome => (InMode /\ AtHome)'
    BY DEF vars, box, session, input, InMode, AtHome, Home, InAdminShell, SavesNames, SkipsSave
  <2> QED
    BY <1>1, <2>1, PluginMode, PluginHome, RouterMode DEF Next, Ended, IInv
<1>4. Mode /\ [Next]_vars =>
        [pc # "returned" /\ pc' = "returned" /\ router = "up" /\ ~missed
           => depth' = IF ExitsTwice THEN 0 ELSE 1]_vars
  <2> SUFFICES ASSUME Mode, Next, pc # "returned", pc' = "returned", router = "up", ~missed
               PROVE  depth' = IF ExitsTwice THEN 0 ELSE 1
    OBVIOUS
  <2>1. Leave
    BY RouterQuiet DEF Next, Ended, vars, Plugin, Goto, EnterAdmin, PlainAccepted,
       PlainRefused, NoIdGoto, PlainBusy, AfterId, FsmAccepted, FsmRefused, Resolve, Confirm,
       AskId, NextLevelEntry, NextLevelDone, AfterLevel, AfterFailed, WatchPrompt, WatchShow,
       WatchFault, WatchGiveUp, WatchReconnect, AfterReconnect, Watched, Peek, WaitReload,
       PollTimeout, Poll, ReportStatus, AfterReport, SwitchMode, Switches, ReportNothing,
       AdminReloadTail, AdminPlatform, SaveData, RaiseError, RaiseCrash, SendFails
  <2>2. depth \in Nat /\ depth > 0
    BY <2>1 DEF Leave, Live, Exits, InMode, IInv, TypeOK
  <2>3. depth = IF SavesNames THEN 1 ELSE Home
    BY <2>1, <2>2 DEF Leave, AtHome
  <2> QED
    BY <2>1, <2>2, <2>3 DEF Leave, Exits, ExitsTwice, SavesNames, Home
<1>5. Spec => [](InMode /\ AtHome)
  BY <1>2, <1>3, Invariance, PTL DEF Spec
<1> QED
  BY <1>4, <1>5, Invariance, PTL DEF Spec, LeavesAtExec

-----------------------------------------------------------------------------
(* The watch.                                                              *)

\* The session stays out of admin mode, and the router answers an activation with an id
\* or refuses it: otherwise get_op_id takes whatever operation is in progress.
Identified ==
  /\ \A j \in Jobs : j.shell = "XR"
  /\ Replies \subseteq {"background", "reboot", "aborted", "su", "notstart", "adminfailed"}

\* A completion is printed at once: a late one, of another user's operation, may end the
\* watch (the run exr_bad_late).
Watchable == Identified /\ ~LateMessages

\* The answers that accept the command and name its operation.
Named == {"background", "reboot", "aborted"}

\* The id in the answer is the command's own, and nothing is known before the answer; the
\* completion is looked for only in the watch, and no question is asked.
Answered ==
  /\ pc \in {"enter", "command"} => reply = "none" /\ mine = NoOp
  /\ reply \in AllReplies => reply \in Replies
  /\ reply \in Named => shown = mine /\ mine # NoOp /\ job.kind \in FsmKinds
  /\ pc = "resolve" => reply \in Named
  /\ pc \notin {"confirm", "askid", "tail", "platform"}
  /\ finish => pc \notin {"enter", "command", "resolve", "nextlevel"}

\* A domain runs one install operation at a time.
OneAtATime ==
  \A i, j \in Ops : op[i] = "running" /\ op[j] = "running" /\ dom[i] = dom[j] => i = j

\* The operations the plugin may watch were started.
Given == \A i \in {mine, opId} : Outcome(i) # "none"

\* While one of them is running, nothing on the terminal says one is over.
NothingUnread ==
  /\ pend = {}
  /\ \A i \in {mine, opId} : Outcome(i) = "running" => dom[i] = "XR" /\ unread = {}

\* watch_operation takes the operation for finished only when it is.
EndSeen == finish \/ pc = "watched" => Outcome(opId) # "running"

\* An open session is in XR exec mode.
LEMMA XrExec ==
  ASSUME Identified, TypeOK, InMode, Live
  PROVE  Here = "XR" /\ depth = 1
<1>1. ~InAdminShell
  BY DEF Identified, TypeOK, InAdminShell
<1>2. depth \in Nat /\ depth <= 1 /\ depth >= 1
  BY <1>1 DEF InMode, Home, TypeOK, Live
<1> QED
  BY <1>2 DEF Here

\* Only an accepted command changes the operations; no step of the plugin changes the
\* router's reload or the test case.
LEMMA PluginFrame ==
  ASSUME Plugin
  PROVE  /\ UNCHANGED <<box, pend, job>>
         /\ PlainAccepted \/ FsmAccepted \/ UNCHANGED device
  BY DEF Plugin, EnterAdmin, PlainAccepted, PlainRefused, PlainBusy, StartOp, FsmAccepted,
     FsmRefused, Peek, Resolve, Confirm, AskId, NextLevelEntry, NextLevelDone, WatchPrompt,
     WatchShow, WatchFault, WatchGiveUp, WatchReconnect, Watched, WaitReload, PollTimeout,
     Poll, ReportStatus, SwitchMode, ReportNothing, AdminReloadTail, AdminPlatform, SaveData, Leave, RaiseError,
     RaiseCrash, SendFails, device, input

\* The plugin's steps keep Answered.
LEMMA PluginAnswered ==
  ASSUME Identified, TypeOK, InMode, Answered, Plugin
  PROVE  Answered'
<1> USE DEF Answered, Named, Goto, device, watch, input
<1>1. /\ Replies \subseteq {"background", "reboot", "aborted", "su", "notstart", "adminfailed"}
      /\ job.shell # "Admin" /\ ~InAdminShell
  BY DEF Identified, TypeOK, InAdminShell
<1>2. ASSUME NEW st, StartOp(st) PROVE mine' # NoOp
  BY <1>2 DEF StartOp, TypeOK
<1>3. CASE PlainAccepted
  BY <1>1, <1>2, <1>3 DEF PlainAccepted, NoIdGoto, AfterId
<1>4. CASE PlainRefused
  BY <1>1, <1>4 DEF PlainRefused, NoIdGoto
<1>5. CASE PlainBusy
  BY <1>1, <1>5 DEF PlainBusy, AfterId
<1>6. CASE FsmAccepted
  <2>1. Here = "XR"
    BY <1>6, XrExec DEF FsmAccepted
  <2>2. PICK r \in Replies \ {"su", "notstart", "adminfailed"} :
          /\ reply' = r
          /\ StartOp(IF r = "aborted" THEN "aborted" ELSE "running")
          /\ shown' \in {mine'}
          /\ pc' \in {"nextlevel", "resolve"}
          /\ r = "aborted" => pc' = "nextlevel"
    BY <1>1, <1>6, <2>1 DEF FsmAccepted
  <2>3. mine' # NoOp /\ reply' \in Named
    BY <1>1, <1>2, <2>2
  <2>4. UNCHANGED finish /\ ~finish
    BY <1>6 DEF FsmAccepted
  <2> QED
    BY <1>6, <2>2, <2>3, <2>4 DEF FsmAccepted
<1>7. CASE FsmRefused
  BY <1>1, <1>7 DEF FsmRefused
<1>8. CASE NextLevelDone
  BY <1>1, <1>8 DEF NextLevelDone, AfterLevel
<1>9. CASE Peek
  BY <1>1, <1>9 DEF Peek
<1>10. CASE WatchPrompt \/ WatchShow \/ WatchFault \/ WatchGiveUp \/ WatchReconnect
  BY <1>1, <1>10 DEF WatchPrompt, WatchShow, WatchFault, WatchGiveUp, Swallowed,
     WatchReconnect, AfterReconnect
<1>11. CASE ReportStatus \/ ReportNothing \/ AdminReloadTail \/ AdminPlatform \/ SwitchMode
  BY <1>1, <1>11 DEF ReportStatus, AfterReport, AfterFailed, ReportNothing, AdminReloadTail,
     AdminPlatform, SwitchMode, InMode, AtSwitch
<1>12. CASE Resolve \/ NextLevelEntry
  BY <1>1, <1>12 DEF Resolve, NextLevelEntry, AfterFailed
<1> QED
  BY <1>1, <1>3, <1>4, <1>5, <1>6, <1>7, <1>8, <1>9, <1>10, <1>11, <1>12 DEF Plugin,
     InMode, EnterAdmin, Confirm, AskId, Watched, WaitReload, PollTimeout, AfterFailed, Poll,
     SaveData, Leave, RaiseError, RaiseCrash, SendFails

\* The router's steps keep Answered.
LEMMA QuietAnswered ==
  ASSUME Answered, UNCHANGED <<mine, watch, result, input, pc, opId, todo>>
  PROVE  Answered'
  BY DEF Answered, watch, input

\* An operation only starts where none is in progress.
LEMMA StepOneAtATime ==
  ASSUME TypeOK, FreshOps, OneAtATime, [Next]_vars
  PROVE  OneAtATime'
<1> USE DEF TypeOK, OneAtATime
<1>1. ASSUME UNCHANGED <<op, dom>> PROVE OneAtATime'
  BY <1>1
<1>2. ASSUME NEW d \in Domains, NEW st \in {"running", "aborted"},
             InProgress(d) = {}, started < MaxOps,
             op' = [op EXCEPT ![started + 1] = st], dom' = [dom EXCEPT ![started + 1] = d]
      PROVE  OneAtATime'
  <2>1. \A i \in Ops : op[i] = "running" => dom[i] # d
    BY <1>2 DEF InProgress
  <2>2. started + 1 \in Ops
    BY <1>2, ExrAssumption
  <2>3. \A i \in Ops : i # started + 1 => op'[i] = op[i] /\ dom'[i] = dom[i]
    BY <1>2
  <2>4. dom'[started + 1] = d
    BY <1>2, <2>2
  <2> QED
    BY <2>1, <2>2, <2>3, <2>4
<1>3. ASSUME NEW i \in Ops, OpEnds(i) PROVE OneAtATime'
  <2>1. \A j \in Ops : op'[j] = "running" => op[j] = "running"
    BY <1>3 DEF OpEnds, OpAborts, OpSucceeds
  <2>2. dom' = dom
    BY <1>3 DEF OpEnds, OpAborts, OpSucceeds
  <2> QED
    BY <2>1, <2>2
<1>4. ASSUME NEW d \in Domains, ForeignStart(d) PROVE OneAtATime'
  <2>1. started < MaxOps
    BY <1>4, ExrAssumption DEF ForeignStart
  <2> QED
    BY <1>2, <1>4, <2>1 DEF ForeignStart
<1>5. ASSUME NEW st \in {"running", "aborted"}, StartOp(st) PROVE OneAtATime'
  <2>1. Here \in Domains
    BY DEF Here
  <2> QED
    BY <1>2, <1>5, <2>1 DEF StartOp
<1>6. CASE PlainAccepted \/ FsmAccepted
  BY <1>5, <1>6 DEF PlainAccepted, FsmAccepted
<1>7. CASE Plugin
  BY <1>1, <1>6, <1>7, PluginFrame DEF device
<1>8. CASE Router
  BY <1>1, <1>3, <1>4, <1>8 DEF Router, Show, ReloadBegins, BootDone, NodesUp, device
<1> QED
  BY <1>1, <1>7, <1>8 DEF Next, Ended, vars, device

\* What the plugin knows of the operations it may watch.
Told == Given /\ NothingUnread /\ EndSeen

\* A step that leaves the operations and the id alone, reads at most what is printed, and
\* does not look for the completion keeps that.
LEMMA TellsNothing ==
  ASSUME Told, UNCHANGED <<device, opId>>, unread' \in {unread, {}},
         (finish' \/ pc' = "watched") => finish \/ pc = "watched"
  PROVE  Told'
  BY DEF Told, Given, NothingUnread, EndSeen, Outcome, device

\* A started operation is the next one, in XR exec mode, with a terminal just read.
LEMMA StartTold ==
  ASSUME Watchable, TypeOK, InMode, FreshOps, Answered, Told, Live,
         pc = "command", opId = NoOp, NEW st \in {"running", "aborted"}, StartOp(st),
         unread' = {}, opId' \in {NoOp, mine'}, finish' = finish, pc' # "watched"
  PROVE  Told'
<1>1. Here = "XR" /\ started + 1 \in Ops
  BY XrExec, ExrAssumption DEF StartOp, TypeOK, Watchable
<1>2. mine' = started + 1 /\ op'[started + 1] = st /\ dom'[started + 1] = "XR" /\ pend' = pend
  BY <1>1 DEF StartOp, TypeOK
<1>3. ~finish
  BY DEF Answered
<1>4. started + 1 # NoOp
  BY DEF TypeOK
<1>5. \A i \in {mine', opId'} : (i = NoOp) \/ (i = started + 1)
  BY <1>2
<1> QED
  BY <1>2, <1>3, <1>4, <1>5 DEF Told, Given, NothingUnread, EndSeen, Outcome

\* The plugin's steps keep Told.
LEMMA PluginTold ==
  ASSUME Watchable, TypeOK, InMode, FreshOps, NoIdYet, Answered, Told, Plugin
  PROVE  Told'
<1> USE DEF Goto, session, watch, input, result
<1>1. CASE PlainAccepted
  <2>1. /\ Live /\ pc = "command" /\ opId = NoOp /\ StartOp("running") /\ unread' = {}
        /\ opId' \in {NoOp, mine'} /\ finish' = finish /\ pc' # "watched"
    BY <1>1 DEF PlainAccepted, NoIdYet, Read, NoIdGoto, AfterId
  <2> QED
    BY <2>1, StartTold
<1>2. CASE FsmAccepted
  <2>1. /\ Live /\ pc = "command" /\ opId = NoOp /\ unread' = {} /\ opId' = opId
        /\ finish' = finish /\ pc' # "watched"
    BY <1>2 DEF FsmAccepted, NoIdYet, Read
  <2>2. PICK st \in {"running", "aborted"} : StartOp(st)
    BY <1>2 DEF FsmAccepted
  <2> QED
    BY <2>1, <2>2, StartTold
<1>3. ASSUME ~PlainAccepted, ~FsmAccepted PROVE UNCHANGED device
  BY <1>3, PluginFrame
<1>4. CASE PlainBusy
  <2>1. Here = "XR" /\ UNCHANGED device /\ unread' = {} /\ opId' \in InProgress(Here)
        /\ finish' = finish /\ ~finish /\ pc' # "watched"
    BY <1>4, XrExec DEF Watchable, PlainBusy, Read, AfterId, Answered
  <2>2. opId' \in Ops /\ op[opId'] = "running" /\ dom[opId'] = "XR"
    BY <2>1 DEF InProgress
  <2> QED
    BY <2>1, <2>2 DEF Told, Given, NothingUnread, EndSeen, Outcome, device
<1>5. CASE Resolve
  <2>1. shown = mine /\ mine # NoOp /\ ~finish
    BY <1>5 DEF Resolve, Answered
  <2>2. UNCHANGED device /\ unread' = unread /\ opId' = mine /\ finish' = finish
        /\ pc' # "watched"
    BY <1>5, <2>1 DEF Resolve, OpIdOf
  <2> QED
    BY <2>1, <2>2 DEF Told, Given, NothingUnread, EndSeen, Outcome, device
<1>6. CASE WatchPrompt
  <2>1. UNCHANGED <<device, opId>> /\ unread' \in {unread, {}} /\ pc' # "watched"
    BY <1>6 DEF WatchPrompt, Read
  <2>2. finish' => finish \/ unread # {}
    BY <1>6 DEF WatchPrompt
  <2>3. unread # {} => Outcome(opId) # "running"
    BY DEF Told, NothingUnread
  <2> QED
    BY <2>1, <2>2, <2>3 DEF Told, Given, NothingUnread, EndSeen, Outcome, device
<1>7. CASE WatchShow
  <2>1. UNCHANGED <<device, opId, finish>> /\ unread' = {} /\ Here = "XR"
        /\ (pc' = "watched" => finish \/ InProgress("XR") = {})
    BY <1>7, XrExec DEF Watchable, WatchShow, Read
  <2>2. Outcome(opId) = "running" => opId \in InProgress("XR")
    BY DEF Told, NothingUnread, Outcome, InProgress, TypeOK
  <2> QED
    BY <2>1, <2>2 DEF Told, Given, NothingUnread, EndSeen, Outcome, device
<1>8. CASE AskId
  BY <1>8 DEF AskId, Answered
<1>9. CASE EnterAdmin \/ PlainRefused \/ FsmRefused \/ Confirm
  BY <1>9, TellsNothing DEF EnterAdmin, PlainRefused, NoIdGoto, FsmRefused, Confirm, Read
<1>10. CASE NextLevelEntry \/ NextLevelDone \/ WatchFault \/ WatchGiveUp
  BY <1>10, TellsNothing DEF NextLevelEntry, AfterFailed, NextLevelDone, AfterLevel,
     WatchFault, WatchGiveUp
<1>11. CASE WatchReconnect \/ Watched \/ Peek \/ WaitReload
  BY <1>11, TellsNothing DEF WatchReconnect, AfterReconnect, Watched, Peek, WaitReload, Read
<1>12. CASE PollTimeout \/ Poll \/ ReportStatus \/ ReportNothing
  BY <1>12, TellsNothing DEF PollTimeout, AfterFailed, Poll, ReportStatus, AfterReport,
     Read, ReportNothing
<1>13. CASE AdminReloadTail \/ AdminPlatform \/ SaveData \/ Leave
  BY <1>13, TellsNothing DEF AdminReloadTail, AfterFailed, AdminPlatform, Read, SaveData, Leave
<1>14. CASE RaiseError \/ RaiseCrash \/ SendFails
  BY <1>14, TellsNothing DEF RaiseError, RaiseCrash, SendFails
<1>15. CASE SwitchMode
  BY <1>15, TellsNothing DEF SwitchMode, Switches
<1> QED
  BY <1>1, <1>2, <1>4, <1>5, <1>6, <1>7, <1>8, <1>9, <1>10, <1>11, <1>12, <1>13, <1>14,
     <1>15 DEF Plugin

\* The router prints a completion when the operation succeeds, and the only other
\* operation then running is in the other domain.
LEMMA RouterTold ==
  ASSUME Watchable, TypeOK, InMode, FreshOps, OneAtATime, Told, Router
  PROVE  Told'
<1>1. UNCHANGED <<finish, pc, opId>>
  BY RouterQuiet DEF watch
<1>2. mine \in Ops \cup {NoOp} /\ opId \in Ops \cup {NoOp}
  BY DEF TypeOK
<1>3. ASSUME NEW d \in Domains, ForeignStart(d) PROVE Told'
  <2>1. op[started + 1] = "none" \/ started + 1 \notin Ops
    BY DEF FreshOps, TypeOK
  <2>2. \A i \in {mine, opId} : i = NoOp \/ (i \in Ops /\ i # started + 1)
    BY <1>2, <2>1 DEF Told, Given, Outcome
  <2>3. \A i \in {mine, opId} : i # NoOp => op'[i] = op[i] /\ dom'[i] = dom[i]
    BY <1>3, <2>2 DEF ForeignStart, TypeOK
  <2>4. UNCHANGED <<mine, pend, unread>>
    BY <1>3 DEF ForeignStart
  <2> QED
    BY <1>1, <2>3, <2>4 DEF Told, Given, NothingUnread, EndSeen, Outcome
<1>4. ASSUME NEW i \in Ops, OpAborts(i) PROVE Told'
  <2>1. \A j \in Ops : op'[j] = (IF j = i THEN "aborted" ELSE op[j])
    BY <1>4 DEF OpAborts, TypeOK
  <2>2. UNCHANGED <<dom, mine, pend, unread>>
    BY <1>4 DEF OpAborts
  <2> QED
    BY <1>1, <1>2, <2>1, <2>2 DEF Told, Given, NothingUnread, EndSeen, Outcome
<1>5. ASSUME NEW i \in Ops, OpSucceeds(i) PROVE Told'
  <2>1. \A j \in Ops : op'[j] = (IF j = i THEN "success" ELSE op[j])
    BY <1>5 DEF OpSucceeds, TypeOK
  <2>2. UNCHANGED <<dom, mine, pend>> /\ unread' = Printed(i) /\ op[i] = "running"
    BY <1>5 DEF OpSucceeds, Watchable
  <2>3. unread' # unread => dom[i] = "XR"
    BY <2>2, XrExec DEF Watchable, Printed
  <2>4. ASSUME NEW j \in {mine, opId}, (Outcome(j))' = "running" PROVE unread' = unread
    <3>1. j \in Ops /\ op[j] = "running" /\ j # i
      BY <1>1, <1>2, <2>1, <2>2, <2>4 DEF Outcome
    <3>2. dom[j] = "XR"
      BY <3>1 DEF Told, NothingUnread, Outcome
    <3> QED
      BY <2>2, <2>3, <3>1, <3>2 DEF OneAtATime
  <2> QED
    BY <1>1, <1>2, <2>1, <2>2, <2>4 DEF Told, Given, NothingUnread, EndSeen, Outcome
<1>6. ASSUME NEW i \in Ops, Show(i) PROVE Told'
  BY <1>6 DEF Show, Told, NothingUnread
<1>7. CASE ReloadBegins \/ BootDone \/ NodesUp
  BY <1>1, <1>7, TellsNothing DEF ReloadBegins, BootDone, NodesUp
<1> QED
  BY <1>3, <1>4, <1>5, <1>6, <1>7, Zenon DEF Router, OpEnds

\* All of it.
Watching == IInv /\ InMode /\ Answered /\ OneAtATime /\ Told

\* The watch goes on with all of this true, whatever happens.
LEMMA StepWatching == ASSUME Watchable, Watching, [Next]_vars PROVE Watching'
<1> USE DEF Watching
<1>1. IInv'
  BY StepInv
<1>2. Homing /\ TypeOK /\ FreshOps /\ NoIdYet
  BY DEF Watchable, Identified, Homing, IInv
<1>3. CASE Plugin
  BY <1>1, <1>2, <1>3, PluginMode, PluginAnswered, StepOneAtATime, PluginTold
     DEF Watchable
<1>4. CASE Router
  <2>1. UNCHANGED <<mine, watch, result, input, pc, opId, todo>>
    BY <1>4, RouterQuiet DEF Router, ForeignStart, OpEnds, OpAborts, OpSucceeds, Show,
       ReloadBegins, BootDone, NodesUp, device
  <2> QED
    BY <1>1, <1>2, <1>4, <2>1, RouterMode, QuietAnswered, StepOneAtATime, RouterTold
<1>5. CASE UNCHANGED vars
  <2>1. Answered'
    BY <1>5, QuietAnswered DEF vars, device
  <2>2. Told'
    BY <1>5, TellsNothing DEF vars, session, watch
  <2>3. InMode'
    BY <1>5 DEF vars, box, session, input, InMode, Home, InAdminShell
  <2> QED
    BY <1>1, <1>2, <1>5, <2>1, <2>2, <2>3, StepOneAtATime
<1> QED
  BY <1>3, <1>4, <1>5 DEF Next, Ended

\* It holds from the start.
LEMMA WatchInvariance == ASSUME Watchable PROVE Spec => []Watching
<1>1. Init => InMode /\ Answered /\ OneAtATime /\ Told
  BY DEF Init, InMode, Home, InAdminShell, AtSwitch, Switches, Answered, Named, OneAtATime,
     Told, Given, NothingUnread, EndSeen, Outcome
<1> QED
  BY <1>1, InitInv, StepWatching, PTL DEF Spec, Watching

\* watch_operation comes back only after the operation it watches has ended, however
\* often the session is lost, whatever other users run, and in whichever order the
\* completion and the prompt are seen.
THEOREM WatchEnds == ASSUME Watchable PROVE Spec => []WatchEndsAfterOp
<1>1. Watching => WatchEndsAfterOp
  BY DEF Watching, Told, EndSeen, WatchEndsAfterOp
<1> QED
  BY <1>1, WatchInvariance, PTL

-----------------------------------------------------------------------------
(* The operation id.                                                       *)

\* Where the plugin may still ask for the id of its operation.
Asking == {"resolve", "confirm", "nextlevel", "askid"}

HasBash(l) == \E k \in DOMAIN l : l[k].bash

\* Until then its running operation is in the domain of the session: only a sysadmin
\* command in the Admin shell could change the domain before.
SameDomain ==
  /\ pc = "enter" => InAdminShell
  /\ pc \in {"enter", "command"} => mine = NoOp /\ shown = NoOp
  /\ shown \in {mine, NoOp}
  /\ pc \in Asking \cup {"command"} /\ ~InAdminShell => depth <= 1
  /\ HasBash(todo) => HasBash(job.level)
  /\ pc \in Asking /\ Outcome(mine) = "running" /\ ~BashLeaves => dom[mine] = Here

\* Then the only operation in progress there is that one.
LEMMA AskedIsMine ==
  ASSUME TypeOK, OneAtATime, SameDomain, Outcome(mine) = "running", ~BashLeaves, pc \in Asking
  PROVE  InProgress(Here) \subseteq {mine}
<1>1. mine \in Ops /\ op[mine] = "running" /\ dom[mine] = Here
  BY DEF TypeOK, Outcome, SameDomain
<1> QED
  BY <1>1 DEF InProgress, OneAtATime

\* The rest of nextlevel has no sysadmin command that the whole has not.
LEMMA TailHasBash ==
  ASSUME NEW l \in Seq(Entry), l # <<>>
  PROVE  /\ HasBash(Tail(l)) => HasBash(l)
         /\ Head(l).bash => HasBash(l)
<1>1. Len(l) \in Nat /\ Len(l) > 0 /\ DOMAIN l = 1 .. Len(l) /\ Head(l) = l[1]
  OBVIOUS
<1>2. ASSUME NEW k \in DOMAIN Tail(l) PROVE k + 1 \in DOMAIN l /\ Tail(l)[k] = l[k + 1]
  OBVIOUS
<1> QED
  BY <1>1, <1>2 DEF HasBash

\* A step that leaves the operations, the id and the session's mode alone, and neither asks
\* nor goes back to where it is asked, keeps all of it.
LEMMA KeepsDomain ==
  ASSUME SameDomain, OwnWhileRunning, UNCHANGED <<device, job, shown, opId, todo>>,
         pc' \notin {"enter", "command"},
         pc' \in Asking => pc \in Asking \cup {"command"} /\ Here' = Here /\ depth' = depth,
         pc = "command" => mine = NoOp
  PROVE  (SameDomain /\ OwnWhileRunning)'
<1>1. UNCHANGED <<op, dom, mine, job, shown, opId, todo>>
  BY DEF device
<1> QED
  BY <1>1 DEF SameDomain, OwnWhileRunning, Asking, Outcome, BashLeaves, InAdminShell

\* The steps of the plugin find out its own operation, or what there is without one.
LEMMA PluginDomain ==
  ASSUME TypeOK, NoIdYet, IdsStarted, OneAtATime, SameDomain, OwnWhileRunning, Plugin
  PROVE  (SameDomain /\ OwnWhileRunning)'
<1> USE DEF Goto, session, input, watch, Asking
<1>1. CASE EnterAdmin
  <2>1. /\ UNCHANGED <<op, dom, mine, job, shown, opId, todo>> /\ pc = "enter" /\ pc' = "command"
    BY <1>1 DEF EnterAdmin, device
  <2> QED
    BY <2>1 DEF SameDomain, OwnWhileRunning, NoIdYet, Outcome, BashLeaves, InAdminShell
<1>2. CASE PlainAccepted \/ FsmAccepted
  <2>1. /\ pc = "command" /\ opId = NoOp /\ shown = NoOp /\ Live
        /\ UNCHANGED <<depth, todo, job>> /\ pc' \notin {"enter", "command"}
        /\ opId' \in {NoOp, mine'} /\ shown' \in {NoOp, mine'}
    BY <1>2 DEF PlainAccepted, FsmAccepted, NoIdYet, SameDomain, Read, NoIdGoto, AfterId
  <2>2. PICK st \in {"running", "aborted"} : StartOp(st)
    BY <1>2 DEF PlainAccepted, FsmAccepted
  <2>3. mine' \in Ops /\ dom'[mine'] = Here
    BY <2>2, ExrAssumption DEF StartOp, TypeOK
  <2>4. Here' = Here
    BY <2>1 DEF Here
  <2> QED
    BY <2>1, <2>3, <2>4 DEF SameDomain, OwnWhileRunning, InAdminShell, BashLeaves
<1>3. ASSUME ~PlainAccepted, ~FsmAccepted PROVE UNCHANGED device /\ UNCHANGED job
  BY <1>3, PluginFrame
<1>4. CASE PlainBusy
  <2>1. /\ pc = "command" /\ pc' \notin {"enter", "command"}
        /\ UNCHANGED <<device, depth, job, shown, todo>>
    BY <1>4 DEF PlainBusy, Read, AfterId
  <2>2. mine = NoOp /\ mine' = NoOp
    BY <2>1 DEF SameDomain, device
  <2> QED
    BY <2>1, <2>2 DEF SameDomain, OwnWhileRunning, Outcome, InAdminShell
<1>5. CASE Resolve
  <2>1. /\ pc = "resolve" /\ pc' \notin {"enter", "command"}
        /\ UNCHANGED <<op, dom, mine, depth, job, shown, todo>> /\ opId' \in OpIdOf(shown)
    BY <1>5 DEF Resolve, Read, device
  <2>2. Here' = Here /\ BashLeaves' = BashLeaves
    BY <2>1 DEF Here, BashLeaves, InAdminShell
  <2>3. Outcome(mine) = "running" /\ ~BashLeaves => opId' \in {NoOp, mine}
    BY <2>1, AskedIsMine DEF OpIdOf, SameDomain
  <2> QED
    BY <2>1, <2>2, <2>3 DEF SameDomain, OwnWhileRunning, Outcome, InAdminShell
<1>6. CASE AskId
  <2>1. /\ pc = "askid" /\ pc' = "watch"
        /\ UNCHANGED <<op, dom, mine, job, shown, todo>> /\ opId' \in InProgress(Here)
    BY <1>6 DEF AskId, device
  <2>2. Outcome(mine) = "running" /\ ~BashLeaves => opId' \in {NoOp, mine}
    BY <2>1, AskedIsMine
  <2> QED
    BY <2>1, <2>2 DEF SameDomain, OwnWhileRunning, Outcome, InAdminShell, BashLeaves
<1>7. CASE NextLevelEntry
  <2>1. /\ pc = "nextlevel" /\ pc' \notin {"enter", "command"} /\ todo # <<>> /\ Live
        /\ todo' = Tail(todo) /\ depth' = LevelDepth(Head(todo), depth)
        /\ UNCHANGED <<op, dom, mine, job, shown, opId>>
    BY <1>7 DEF NextLevelEntry, AfterFailed, device
  <2>2. (HasBash(todo') => HasBash(job.level)) /\ (Head(todo).bash => HasBash(job.level))
    BY <2>1, TailHasBash DEF SameDomain, TypeOK
  <2>3. depth \in Nat /\ depth >= 1
    BY <2>1 DEF TypeOK, Live
  <2>4. CASE AdminNests \/ ~Head(todo).bash
    <3>1. depth' = depth
      BY <2>1, <2>3, <2>4 DEF LevelDepth, Enter, Exit
    <3> QED
      BY <2>1, <2>2, <3>1 DEF SameDomain, OwnWhileRunning, Outcome, InAdminShell, BashLeaves, Here
  <2>5. CASE ~AdminNests /\ Head(todo).bash /\ ~InAdminShell
    <3>1. depth = 1
      BY <2>1, <2>3, <2>5 DEF SameDomain
    <3>2. depth' = depth
      BY <2>1, <2>5, <3>1 DEF LevelDepth, Enter, Exit
    <3> QED
      BY <2>1, <2>2, <3>2 DEF SameDomain, OwnWhileRunning, Outcome, InAdminShell, BashLeaves, Here
  <2>6. CASE ~AdminNests /\ Head(todo).bash /\ InAdminShell
    <3>1. BashLeaves /\ BashLeaves' /\ InAdminShell'
      BY <2>1, <2>2, <2>6 DEF BashLeaves, HasBash, InAdminShell
    <3> QED
      BY <2>1, <2>2, <3>1 DEF SameDomain, OwnWhileRunning
  <2> QED
    BY <2>4, <2>5, <2>6
<1>8. CASE PlainRefused \/ FsmRefused
  <2>1. /\ pc = "command" /\ pc' \notin {"enter", "command"}
        /\ UNCHANGED <<device, depth, job, shown, opId, todo>>
    BY <1>8 DEF PlainRefused, NoIdGoto, FsmRefused, Read
  <2>2. mine = NoOp /\ Here' = Here
    BY <2>1 DEF SameDomain, Here
  <2> QED
    BY <2>1, <2>2, KeepsDomain
<1>9. CASE Confirm \/ NextLevelDone
  <2>1. /\ pc \in {"confirm", "nextlevel"} /\ pc' \notin {"enter", "command"}
        /\ UNCHANGED <<device, depth, job, shown, opId, todo>>
    BY <1>9 DEF Confirm, Read, NextLevelDone, AfterLevel
  <2>2. Here' = Here
    BY <2>1 DEF Here
  <2> QED
    BY <2>1, <2>2, KeepsDomain
<1>10. CASE SendFails \/ RaiseError \/ RaiseCrash
  <2>1. pc' = "raised" /\ UNCHANGED <<device, job, shown, opId, todo>>
    BY <1>10 DEF SendFails, RaiseError, RaiseCrash
  <2>2. pc = "command" => mine = NoOp
    BY DEF SameDomain
  <2> QED
    BY <2>1, <2>2, KeepsDomain
<1>11. CASE WatchPrompt \/ WatchShow \/ WatchFault \/ WatchGiveUp \/ WatchReconnect \/ Watched \/ Peek
  <2>1. /\ pc # "command" /\ pc' \notin {"enter", "command"} \cup Asking
        /\ UNCHANGED <<device, job, shown, opId, todo>>
    BY <1>11 DEF WatchPrompt, WatchShow, WatchFault, WatchGiveUp, WatchReconnect, AfterReconnect,
       Watched, Peek
  <2> QED
    BY <2>1, KeepsDomain
<1>12. CASE WaitReload \/ PollTimeout \/ Poll \/ SwitchMode \/ ReportStatus \/ ReportNothing
  <2>1. /\ pc # "command" /\ pc' \notin {"enter", "command"} \cup Asking
        /\ UNCHANGED <<device, job, shown, opId, todo>>
    BY <1>12 DEF WaitReload, PollTimeout, AfterFailed, Poll, SwitchMode, Switches, ReportStatus,
       AfterReport, ReportNothing
  <2> QED
    BY <2>1, KeepsDomain
<1>13. CASE AdminReloadTail \/ AdminPlatform \/ SaveData \/ Leave
  <2>1. /\ pc # "command" /\ pc' \notin {"enter", "command"} \cup Asking
        /\ UNCHANGED <<device, job, shown, opId, todo>>
    BY <1>13 DEF AdminReloadTail, AfterFailed, AdminPlatform, SaveData, Leave
  <2> QED
    BY <2>1, KeepsDomain
<1> QED
  BY <1>1, <1>2, <1>4, <1>5, <1>6, <1>7, <1>8, <1>9, <1>10, <1>11, <1>12, <1>13 DEF Plugin

\* The router leaves a session alone while its operation is running, and gives no id twice.
LEMMA RouterDomain ==
  ASSUME TypeOK, FreshOps, IdsStarted, SameDomain, OwnWhileRunning, Router
  PROVE  (SameDomain /\ OwnWhileRunning)'
<1>1. UNCHANGED <<job, shown, pc, opId, todo>> /\ BashLeaves' = BashLeaves
  BY RouterQuiet DEF input, BashLeaves, InAdminShell
<1>2. mine' = mine
  BY DEF Router, ForeignStart, OpEnds, OpAborts, OpSucceeds, Show, ReloadBegins, BootDone,
     NodesUp, device
<1>3. ASSUME Outcome(mine)' = "running"
      PROVE  Outcome(mine) = "running" /\ dom'[mine] = dom[mine] /\ depth' = depth
  <2>1. mine \in Ops /\ op[mine] # "none" /\ op'[mine] = "running"
    BY <1>2, <1>3 DEF Outcome, IdsStarted, TypeOK
  <2>2. ASSUME NEW d \in Domains, ForeignStart(d) PROVE <1>3!2
    <3>1. mine # started + 1
      BY <2>1 DEF FreshOps, TypeOK
    <3> QED
      BY <2>1, <2>2, <3>1 DEF ForeignStart, Outcome, TypeOK, plugin
  <2>3. ASSUME NEW i \in Ops, OpEnds(i) \/ Show(i) PROVE <1>3!2
    <3>1. UNCHANGED <<dom, depth>> /\ (op'[mine] = "running" => op[mine] = "running")
      BY <2>1, <2>3 DEF OpEnds, OpAborts, OpSucceeds, Show, TypeOK, plugin
    <3> QED
      BY <2>1, <3>1 DEF Outcome
  <2>4. CASE ReloadBegins
    BY <2>1, <2>4 DEF ReloadBegins, ReloadPending, Outcome, device
  <2>5. CASE BootDone \/ NodesUp
    BY <2>1, <2>5 DEF BootDone, NodesUp, Outcome, device, plugin
  <2> QED
    BY <2>2, <2>3, <2>4, <2>5 DEF Router
<1>4. depth' = depth \/ depth' = 0
  BY DEF Router, ForeignStart, OpEnds, OpAborts, OpSucceeds, Show, ReloadBegins, BootDone,
     NodesUp, plugin
<1> QED
  BY <1>1, <1>2, <1>3, <1>4 DEF SameDomain, OwnWhileRunning, InAdminShell, Here

\* get_op_id and the reload handlers never take another user's operation for their own while
\* their own is running: with any answers of the router, any other users and any sessions.
THEOREM OwnOperation == Spec => []OwnWhileRunning
<1> DEFINE Own == IInv /\ OneAtATime /\ SameDomain /\ OwnWhileRunning
<1>1. Init => Own
  BY InitInv, ExrAssumption DEF Init, OneAtATime, SameDomain, OwnWhileRunning, Asking, HasBash,
     Outcome, InAdminShell
<1>2. ASSUME Own, [Next]_vars PROVE Own'
  <2>1. IInv' /\ OneAtATime'
    BY <1>2, StepInv, StepOneAtATime DEF IInv
  <2>2. CASE UNCHANGED vars
    BY <1>2, <2>1, <2>2 DEF vars, device, session, input, SameDomain, OwnWhileRunning, Asking,
       Outcome, BashLeaves, InAdminShell, Here
  <2> QED
    BY <1>2, <2>1, <2>2, PluginDomain, RouterDomain DEF Next, Ended, IInv
<1>3. Own => OwnWhileRunning
  OBVIOUS
<1> QED
  BY <1>1, <1>2, <1>3, PTL DEF Spec

-----------------------------------------------------------------------------
(* The reload.                                                             *)

\* The router starts the reload of an operation before wait_for_reload's first poll, and
\* a send only times out on a console line whose router is reloading: a timeout in the
\* watch is what the reload handlers take for the reload.
Rebootable == Watchable /\ PromptReload /\ "timeout" \notin Faults

\* The steps of a reload, as the plugin finds them out one after the other.
AfterWatch == {"reload", "poll", "report", "save", "leave", "returned"}
AfterBegin == AfterWatch \ {"reload"}
AfterBoot  == AfterBegin \ {"poll"}

Rebooting ==
  LET own  == reply = "reboot"
      done == Outcome(mine) = "success"
  IN  /\ own /\ pc \notin {"resolve", "error", "raised"} => opId = mine
      /\ own /\ pc \in AfterWatch => Outcome(mine) # "running"
      /\ own /\ done /\ pc \in AfterBegin => router # "up"
      /\ own /\ done /\ pc \in AfterBoot => router = "back" /\ nodes

\* Only the test case's own successful operation reloads the router, and only the reload
\* makes the watch time out.
OwnReload ==
  /\ router # "up" => Outcome(mine) = "success"
  /\ fault = "timeout" => router # "up"

\* Once the operation has ended it stays as it is.
LEMMA MineKept ==
  ASSUME Watching, [Next]_vars, mine # NoOp
  PROVE  mine' = mine /\ (Outcome(mine) # "running" => Outcome(mine)' = Outcome(mine))
<1>1. mine \in Ops /\ op[mine] # "none" /\ TypeOK /\ FreshOps
  BY DEF Watching, Told, Given, Outcome, IInv, TypeOK
<1> SUFFICES mine' = mine /\ (op[mine] # "running" => op'[mine] = op[mine])
  BY <1>1 DEF Outcome
<1>2. CASE Plugin
  <2>1. UNCHANGED device
    BY <1>2, PluginFrame DEF PlainAccepted, FsmAccepted, Watching, Answered
  <2> QED
    BY <2>1 DEF device
<1>3. ASSUME NEW d \in Domains, ForeignStart(d) PROVE mine' = mine /\ op'[mine] = op[mine]
  <2>1. mine # started + 1
    BY <1>1 DEF FreshOps, TypeOK
  <2> QED
    BY <1>1, <1>3, <2>1 DEF ForeignStart, TypeOK
<1>4. ASSUME NEW i \in Ops, OpEnds(i)
      PROVE  mine' = mine /\ (op[mine] # "running" => op'[mine] = op[mine])
  BY <1>1, <1>4 DEF OpEnds, OpAborts, OpSucceeds, TypeOK
<1>5. ASSUME NEW i \in Ops, Show(i) PROVE mine' = mine /\ op' = op
  BY <1>5 DEF Show
<1>6. CASE ReloadBegins \/ BootDone \/ NodesUp \/ UNCHANGED vars
  BY <1>6 DEF ReloadBegins, BootDone, NodesUp, vars, device
<1> QED
  BY <1>2, <1>3, <1>4, <1>5, <1>6 DEF Next, Ended, Router

\* While the router is up its session is open, where the plugin watches.
LEMMA PluginOwnReload ==
  ASSUME Rebootable, Watching, OwnReload, Plugin
  PROVE  OwnReload'
<1>1. router' = router
  BY PluginFrame DEF box
<1>2. router' # "up" => (Outcome(mine) = "success")'
  <2>1. router # "up" => mine # NoOp
    BY DEF OwnReload, Outcome
  <2> QED
    BY <1>1, <2>1, MineKept DEF OwnReload, Next, Outcome
<1>3. CASE WatchFault
  <2>1. "timeout" \notin Faults /\ Homing /\ Identified
    BY DEF Rebootable, Watchable, Identified, Homing
  <2>2. router = "up" => depth > 0
    BY <1>3 DEF WatchFault, Watching, InMode, Early
  <2>3. depth \in Nat
    BY DEF Watching, IInv, TypeOK
  <2>4. router = "up" => Live
    BY <2>2, <2>3 DEF Live
  <2>5. fault' = "timeout" => router # "up"
    BY <1>3, <2>1, <2>4 DEF WatchFault
  <2> QED
    BY <1>1, <1>2, <2>5 DEF OwnReload
<1>4. ASSUME ~WatchFault PROVE fault' = fault
  BY <1>4 DEF Plugin, watch, EnterAdmin, PlainAccepted, PlainRefused, PlainBusy,
     FsmAccepted, FsmRefused, Peek, Resolve, Confirm, AskId, NextLevelEntry, NextLevelDone,
     WatchPrompt, WatchShow, WatchGiveUp, WatchReconnect, Watched, WaitReload, PollTimeout,
     Poll, ReportStatus, SwitchMode, ReportNothing, AdminReloadTail, AdminPlatform, SaveData, Leave, RaiseError,
     RaiseCrash, SendFails
<1> QED
  BY <1>1, <1>2, <1>3, <1>4 DEF OwnReload

\* A step from one stage of the reload to the next, whose facts are there already.
LEMMA KeepsRebooting ==
  ASSUME Watching, Rebooting, [Next]_vars, UNCHANGED <<router, nodes, reply, opId>>,
         reply = "reboot",
         pc \in {"resolve", "error", "raised"} => pc' \in {"resolve", "error", "raised"},
         pc' \in AfterWatch => pc \in AfterWatch,
         pc' \in AfterBegin => pc \in AfterBegin,
         pc' \in AfterBoot => pc \in AfterBoot
  PROVE  Rebooting'
<1>1. mine # NoOp
  BY DEF Watching, Answered, Named
<1>2. mine' = mine /\ (Outcome(mine) # "running" => Outcome(mine)' = Outcome(mine))
  BY <1>1, MineKept
<1> QED
  BY <1>2 DEF Rebooting, AfterWatch, AfterBegin, AfterBoot
\* The plugin's steps keep Rebooting.
LEMMA PluginRebooting ==
  ASSUME Rebootable, Watching, OwnReload, Rebooting, Plugin
  PROVE  Rebooting'
<1> SUFFICES ASSUME reply' = "reboot" PROVE Rebooting'
  BY DEF Rebooting
<1> USE DEF Goto, AfterWatch, AfterBegin, AfterBoot, input
<1>0. ~InAdminShell
  BY DEF Rebootable, Watchable, Identified, Watching, IInv, TypeOK, InAdminShell
<1>1. UNCHANGED <<router, nodes>> /\ Next
  BY PluginFrame DEF box, Next
<1>2. reply = "reboot" => shown = mine /\ mine # NoOp /\ job.kind \in FsmKinds
  BY DEF Watching, Answered, Named
<1>3. CASE pc \in {"enter", "command"}
  <2>1. reply = "none"
    BY <1>3 DEF Watching, Answered
  <2>2. pc' = "resolve"
    BY <1>3, <2>1 DEF Plugin, EnterAdmin, PlainAccepted, PlainRefused, PlainBusy, FsmAccepted,
       FsmRefused, Peek, Resolve, Confirm, AskId, NextLevelEntry, NextLevelDone, WatchPrompt,
       WatchShow, WatchFault, WatchGiveUp, WatchReconnect, Watched, WaitReload, PollTimeout,
       Poll, ReportStatus, SwitchMode, ReportNothing, AdminReloadTail, AdminPlatform, SaveData, Leave, RaiseError,
       RaiseCrash, SendFails
  <2> QED
    BY <2>2 DEF Rebooting
<1>4. CASE Resolve
  <2>1. UNCHANGED <<device, reply>> /\ opId' \in OpIdOf(shown)
    BY <1>4 DEF Resolve
  <2>2. opId' = mine /\ mine' = mine
    BY <1>2, <2>1 DEF OpIdOf, device
  <2>3. pc' = "nextlevel"
    BY <1>2, <1>4, <2>1, <2>2 DEF Resolve
  <2> QED
    BY <2>2, <2>3 DEF Rebooting
<1>5. CASE NextLevelEntry \/ NextLevelDone
  <2>1. pc = "nextlevel" /\ UNCHANGED <<reply, opId>>
    BY <1>5 DEF NextLevelEntry, NextLevelDone
  <2>2. opId # NoOp
    BY <1>2, <2>1 DEF Rebooting
  <2>3. pc' \in {"nextlevel", "error", "watch"}
    BY <1>5, <2>1, <2>2 DEF NextLevelEntry, AfterFailed, NextLevelDone, AfterLevel
  <2> QED
    BY <1>1, <2>1, <2>3, KeepsRebooting
<1>6. CASE WatchPrompt \/ WatchShow \/ WatchFault \/ WatchReconnect
  <2>1. pc \in {"watch", "watchshow", "retry"} /\ UNCHANGED <<reply, opId>>
        /\ pc' \in {"watch", "watchshow", "retry", "watched", "raised"}
    BY <1>6 DEF WatchPrompt, WatchShow, WatchFault, WatchReconnect, AfterReconnect
  <2> QED
    BY <1>1, <2>1, KeepsRebooting
<1>7. CASE WatchGiveUp \/ Watched
  <2>1. pc \in {"retry", "watched"} /\ pc' \in {"reload", "raised"}
        /\ UNCHANGED <<device, reply, opId>>
    BY <1>0, <1>7 DEF WatchGiveUp, Swallowed, Watched, ReloadReplies
  <2>2. WatchGiveUp /\ pc' = "reload" => fault = "timeout"
    BY DEF WatchGiveUp, Swallowed
  <2>3. opId = mine
    BY <2>1 DEF Rebooting
  <2>4. pc' = "reload" => Outcome(mine) # "running"
    BY <1>7, <2>2, <2>3 DEF OwnReload, Watched, Watching, Told, EndSeen
  <2> QED
    BY <2>1, <2>3, <2>4 DEF Rebooting, Outcome, device
<1>8. CASE WaitReload
  <2>1. pc = "reload" /\ pc' \in {"poll", "raised"} /\ UNCHANGED <<device, reply, opId>>
        /\ ~ReloadPending
    BY <1>0, <1>8 DEF WaitReload, Rebootable
  <2>2. Outcome(mine) = "success" => router \in {"booting", "back"}
    BY <1>2, <2>1 DEF ReloadPending, ReloadReplies, Watching, IInv, TypeOK
  <2> QED
    BY <1>1, <2>1, <2>2 DEF Rebooting, Outcome, device
<1>9. CASE Poll
  <2>1. pc = "poll" /\ pc' \in {"poll", "report"} /\ UNCHANGED <<device, reply, opId>>
        /\ router # "booting" /\ (pc' = "report" => nodes)
    BY <1>0, <1>9 DEF Poll, NodesValid, Live
  <2>2. router \in {"up", "back"}
    BY <2>1 DEF Watching, IInv, TypeOK
  <2> QED
    BY <1>1, <2>1, <2>2 DEF Rebooting, Outcome, device
<1>10. CASE ReportStatus \/ ReportNothing \/ SaveData \/ Leave
  <2>1. pc \in AfterBoot /\ UNCHANGED <<reply, opId>>
    BY <1>10 DEF ReportStatus, ReportNothing, SaveData, Leave
  <2>2. pc' \notin {"reload", "poll"}
    BY <1>10 DEF ReportStatus, AfterReport, AfterFailed, ReportNothing, SaveData, Leave
  <2> QED
    BY <1>1, <2>1, <2>2, KeepsRebooting
<1>11. CASE PollTimeout \/ RaiseError \/ RaiseCrash \/ SendFails
  <2>1. pc' \in {"error", "raised"}
    BY <1>11 DEF PollTimeout, AfterFailed, RaiseError, RaiseCrash, SendFails
  <2> QED
    BY <2>1 DEF Rebooting
<1>12. ~(Confirm \/ AskId \/ AdminReloadTail \/ AdminPlatform \/ SwitchMode)
  <2>1. ~SwitchMode
    BY <1>0 DEF SwitchMode, Watching, InMode, AtSwitch
  <2> QED
    BY <2>1 DEF Confirm, AskId, AdminReloadTail, AdminPlatform, Watching, Answered
<1>13. ~Peek
  BY <1>2 DEF Peek, FsmKinds, PeekKinds
<1>14. pc \in {"enter", "command"} \/ ~(EnterAdmin \/ PlainAccepted \/ PlainRefused \/ PlainBusy \/ FsmAccepted \/ FsmRefused)
  BY DEF EnterAdmin, PlainAccepted, PlainRefused, PlainBusy, FsmAccepted, FsmRefused
<1> QED
  BY <1>3, <1>4, <1>5, <1>6, <1>7, <1>8, <1>9, <1>10, <1>11, <1>12, <1>13, <1>14, Zenon DEF Plugin

\* So do the router's: it reloads once, and a node that is up stays up.
LEMMA RouterBoot ==
  ASSUME Watching, OwnReload, Rebooting, Router \/ UNCHANGED vars
  PROVE  (OwnReload /\ Rebooting)'
<1>1. UNCHANGED <<reply, pc, opId, fault>>
  BY RouterQuiet DEF watch, input
<1>2. [Next]_vars
  BY DEF Next
<1>3. ASSUME mine # NoOp
      PROVE  mine' = mine /\ (Outcome(mine) # "running" => Outcome(mine)' = Outcome(mine))
  BY <1>2, <1>3, MineKept
<1>4. reply = "reboot" => mine # NoOp
  BY DEF Watching, Answered, Named
<1>5. router # "up" => mine # NoOp
  BY DEF OwnReload, Outcome
<1>6. CASE UNCHANGED box
  BY <1>1, <1>3, <1>4, <1>5, <1>6 DEF OwnReload, Rebooting, AfterWatch, AfterBegin, AfterBoot, box
<1>7. CASE ReloadBegins
  <2>1. router = "up" /\ router' = "booting" /\ mine # NoOp /\ Outcome(mine) = "success"
    BY <1>7 DEF ReloadBegins, ReloadPending
  <2>2. mine' = mine /\ Outcome(mine)' = "success"
    BY <1>3, <2>1
  <2> QED
    BY <1>1, <2>1, <2>2 DEF OwnReload, Rebooting, AfterWatch, AfterBegin, AfterBoot
<1>8. CASE BootDone \/ NodesUp
  <2>1. router # "up" /\ router' = "back" /\ UNCHANGED device /\ (nodes => nodes')
    BY <1>8 DEF BootDone, NodesUp
  <2> QED
    BY <1>1, <2>1 DEF OwnReload, Rebooting, AfterWatch, AfterBegin, AfterBoot, Outcome, device
<1>9. ~ReloadBegins /\ ~BootDone /\ ~NodesUp => UNCHANGED box
  BY DEF Router, ForeignStart, OpEnds, OpAborts, OpSucceeds, Show, vars
<1> QED
  BY <1>6, <1>7, <1>8, <1>9

\* A test case whose operation succeeds and reloads the router returns only when the
\* router is back and every node is valid.
THEOREM BootAwaited == ASSUME Rebootable PROVE Spec => []ReturnsAfterBoot
<1> DEFINE Boot == Watching /\ OwnReload /\ Rebooting
<1>1. Watchable
  BY DEF Rebootable
<1>2. Init => OwnReload /\ Rebooting
  BY DEF Init, OwnReload, Rebooting
<1>3. Boot /\ [Next]_vars => (OwnReload /\ Rebooting)'
  BY PluginOwnReload, PluginRebooting, RouterBoot DEF Next, Ended
<1>4. Boot => ReturnsAfterBoot
  <2> SUFFICES ASSUME Boot, pc = "returned", reply \in ReloadReplies, Outcome(mine) = "success"
               PROVE  router = "back" /\ nodes
    BY DEF ReturnsAfterBoot
  <2>1. reply = "reboot"
    BY <1>1 DEF ReloadReplies, Watching, Answered, Watchable, Identified
  <2> QED
    BY <2>1 DEF Rebooting, AfterBoot, AfterBegin, AfterWatch
<1>5. Spec => []Watching
  BY <1>1, WatchInvariance
<1> QED
  BY <1>2, <1>3, <1>4, <1>5, PTL DEF Spec

-----------------------------------------------------------------------------
(* Without other users.                                                    *)

\* Every operation in progress is the one the command started, and there is none before.
Alone ==
  /\ pc \in {"enter", "command"} => mine = NoOp
  /\ shown \in {mine, NoOp} /\ opId \in {mine, NoOp}
  /\ \A i \in Ops : op[i] = "running" => i = mine

\* The plugin's steps keep Alone.
LEMMA PluginAlone == ASSUME TypeOK, NoIdYet, Alone, Plugin PROVE Alone'
<1> USE DEF Alone, NoIdYet, Goto, device, input
<1>1. CASE PlainAccepted \/ FsmAccepted
  <2>1. mine = NoOp /\ shown = NoOp /\ opId = NoOp /\ pc' \notin {"enter", "command"}
    BY <1>1 DEF PlainAccepted, NoIdGoto, AfterId, FsmAccepted
  <2>2. PICK st \in {"running", "aborted"} : StartOp(st)
    BY <1>1 DEF PlainAccepted, FsmAccepted
  <2>3. mine' = started + 1 /\ \A i \in Ops : i # started + 1 => op'[i] = op[i]
    BY <2>2 DEF StartOp, TypeOK
  <2>4. \A i \in Ops : op'[i] = "running" => i = mine'
    BY <2>1, <2>3
  <2>5. shown' \in {mine', NoOp} /\ opId' \in {mine', NoOp}
    BY <1>1, <2>1 DEF PlainAccepted, FsmAccepted
  <2> QED
    BY <2>1, <2>4, <2>5
<1>2. CASE PlainBusy
  BY <1>2 DEF PlainBusy, InProgress
<1>3. CASE Resolve
  BY <1>3 DEF Resolve, OpIdOf, InProgress
<1>4. CASE AskId
  BY <1>4 DEF AskId, InProgress
<1>5. CASE PlainRefused \/ FsmRefused
  BY <1>5 DEF PlainRefused, NoIdGoto, FsmRefused
<1>6. CASE UNCHANGED <<op, mine, shown, opId>> /\ (pc \in {"enter", "command"} \/ pc' \notin {"enter", "command"})
  BY <1>6
<1>7. CASE SwitchMode
  BY <1>6, <1>7 DEF SwitchMode, Switches
<1> QED
  BY <1>1, <1>2, <1>3, <1>4, <1>5, <1>6, <1>7 DEF Plugin, EnterAdmin, Confirm, NextLevelEntry,
     AfterFailed, NextLevelDone, AfterLevel, WatchPrompt, WatchShow, WatchFault, WatchGiveUp,
     WatchReconnect, AfterReconnect, Watched, Peek, WaitReload, PollTimeout, Poll,
     ReportStatus, AfterReport, ReportNothing, AdminReloadTail, AdminPlatform, SaveData,
     Leave, RaiseError, RaiseCrash, SendFails

\* With no other users the plugin never has another id than its own operation's, running or
\* not: what get_op_id or the reload handlers ask for can only be that one.
THEOREM OwnIdAlone == ASSUME ~Foreign PROVE Spec => [](opId \in {NoOp, mine})
<1>1. Init => Alone
  BY DEF Init, Alone
<1>2. ASSUME TypeOK, Alone, Router PROVE Alone'
  <2>1. \A i \in Ops : op'[i] = "running" => op[i] = "running"
    BY <1>2 DEF TypeOK, Router, ForeignStart, OpEnds, OpAborts, OpSucceeds, Show,
       ReloadBegins, BootDone, NodesUp, device
  <2>2. UNCHANGED <<mine, shown, opId, pc>>
    BY <1>2, RouterQuiet DEF Router, ForeignStart, OpEnds, OpAborts, OpSucceeds, Show,
       ReloadBegins, BootDone, NodesUp, device, input
  <2> QED
    BY <1>2, <2>1, <2>2 DEF Alone
<1>3. UNCHANGED vars /\ Alone => Alone'
  BY DEF vars, device, input, Alone
<1>4. IInv /\ Alone /\ [Next]_vars => Alone'
  BY <1>2, <1>3, PluginAlone DEF Next, Ended, IInv
<1>5. Alone => opId \in {NoOp, mine}
  BY DEF Alone
<1> QED
  BY <1>1, <1>4, <1>5, Invariance, PTL DEF Spec

=============================================================================
