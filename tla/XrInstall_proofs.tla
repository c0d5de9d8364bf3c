-------------------------- MODULE XrInstall_proofs --------------------------
(***************************************************************************)
(* Theorems about XrInstall, for every set of plugins, any number of       *)
(* operations, polls and retries.  XInv is inductive: the types are proved *)
(* first, then the rest of it one group of conjuncts at a time.            *)
(***************************************************************************)
EXTENDS XrInstall, TLAPS

USE DEF Kinds, Outcomes, Methods, PCs, NoOp, Ops, Good

-----------------------------------------------------------------------------
(* Types.                                                                  *)

\* The initial states have the right types.
LEMMA InitType == Init => TypeOK
<1> SUFFICES ASSUME Init PROVE TypeOK
  OBVIOUS
<1>1. op \in [Ops -> {"none", "running"} \cup Outcomes] /\ method \in [Ops -> Methods]
  BY DEF Init
<1>2. nodes \in BOOLEAN /\ line \in BOOLEAN /\ finish \in BOOLEAN /\ seen \in BOOLEAN
  BY DEF Init
<1> QED
  BY <1>1, <1>2, XrAssumption DEF Init, TypeOK, Guesses

\* An accepted command keeps the types of the router's variables.
LEMMA StartType ==
  ASSUME TypeOK, NEW st \in {"running", "failed"}, StartOp(st)
  PROVE  /\ op' \in [Ops -> {"none", "running"} \cup Outcomes]
         /\ method' \in [Ops -> Methods]
         /\ started' \in 1 .. MaxOps /\ mine' = started' /\ mine' \in Ops
         /\ prior' \in Ops \cup {NoOp} /\ pend' \subseteq Ops
<1>1. PICK m \in Methods : method' = [method EXCEPT ![started + 1] = m]
  BY DEF StartOp
<1>2. method' \in [Ops -> Methods]
  BY <1>1 DEF TypeOK
<1>3. op' \in [Ops -> {"none", "running"} \cup Outcomes]
  BY DEF TypeOK, StartOp
<1> QED
  BY <1>2, <1>3, XrAssumption DEF TypeOK, StartOp

\* So does the end of an operation.
LEMMA EndType ==
  ASSUME TypeOK, NEW i \in Ops, OpEnds(i)
  PROVE  /\ op' \in [Ops -> {"none", "running"} \cup Outcomes]
         /\ pend' \subseteq Ops /\ unread' \subseteq Ops
<1>1. PICK e \in Ends : op' = [op EXCEPT ![i] = e]
  BY DEF OpEnds
<1>2. e \in Outcomes
  BY XrAssumption
<1>3. op' \in [Ops -> {"none", "running"} \cup Outcomes]
  BY <1>1, <1>2 DEF TypeOK
<1>4. pend' \subseteq Ops /\ unread' \subseteq Ops
  BY DEF OpEnds, TypeOK, Printed
<1> QED
  BY <1>3, <1>4

\* A new watch starts its counter and its flags.
LEMMA BeginType ==
  ASSUME BeginWatch
  PROVE  /\ tried' = 0
         /\ finish' \in BOOLEAN /\ seen' \in BOOLEAN
BY DEF BeginWatch, Guesses

\* The steps of the plugin up to the watch keep the types.
LEMMA CommandType ==
  TypeOK /\ (Prepare \/ ExpectId \/ Accepted \/ FailsAtOnce \/ Refused
             \/ Asked \/ Confirm \/ DialogFails) => TypeOK'
<1> SUFFICES ASSUME TypeOK,
                    Prepare \/ ExpectId \/ Accepted \/ FailsAtOnce \/ Refused
                      \/ Asked \/ Confirm \/ DialogFails
             PROVE TypeOK'
  OBVIOUS
<1> USE XrAssumption DEF Goto, device, box, session, watch, ids, Read, Guesses
<1>1. CASE Prepare
  BY <1>1 DEF TypeOK, Prepare, PrepGoto
<1>2. CASE ExpectId
  BY <1>2 DEF TypeOK, ExpectId
<1>3. CASE Accepted
  BY <1>3, StartType, BeginType DEF TypeOK, Accepted
<1>4. CASE FailsAtOnce
  BY <1>4, StartType, BeginType DEF TypeOK, FailsAtOnce
<1>5. CASE Refused
  BY <1>5 DEF TypeOK, Refused
<1>6. CASE Asked
  BY <1>6, StartType DEF TypeOK, Asked
<1>7. CASE Confirm
  BY <1>7, BeginType DEF TypeOK, Confirm
<1>8. CASE DialogFails
  <2>1. CASE UNCHANGED device
    BY <1>8, <2>1 DEF TypeOK, DialogFails
  <2>2. CASE StartOp("failed")
    BY <1>8, <2>2, StartType DEF TypeOK, DialogFails
  <2> QED
    BY <1>8, <2>1, <2>2 DEF DialogFails
<1> QED
  BY <1>1, <1>2, <1>3, <1>4, <1>5, <1>6, <1>7, <1>8

\* So do the steps of the watch.
LEMMA WatchType ==
  TypeOK /\ (WatchPrompt \/ WatchShow \/ WatchFault \/ WatchGiveUp
             \/ WatchReconnect \/ WatchWait) => TypeOK'
<1> SUFFICES ASSUME TypeOK,
                    WatchPrompt \/ WatchShow \/ WatchFault \/ WatchGiveUp
                      \/ WatchReconnect \/ WatchWait
             PROVE TypeOK'
  OBVIOUS
<1> USE XrAssumption DEF TypeOK, Goto, device, box, session, watch, ids, Read,
        Guesses
<1>1. CASE WatchPrompt
  <2>1. finish' \in BOOLEAN /\ line' \in BOOLEAN
    BY <1>1 DEF WatchPrompt
  <2>2. unread' \subseteq Ops
    BY <1>1 DEF WatchPrompt
  <2> QED
    BY <1>1, <2>1, <2>2 DEF WatchPrompt
<1>2. CASE WatchShow
  BY <1>2 DEF WatchShow
<1>3. CASE WatchFault
  <2>1. line' \in BOOLEAN
    BY <1>3 DEF WatchFault
  <2> QED
    BY <1>3, <2>1 DEF WatchFault
<1>4. CASE WatchGiveUp
  BY <1>4 DEF WatchGiveUp
<1>5. CASE WatchReconnect
  <2>1. line' \in BOOLEAN /\ pc' \in PCs
    BY <1>5 DEF WatchReconnect, AfterFault
  <2> QED
    BY <1>5, <2>1 DEF WatchReconnect, OutOfRetries, CountRetry
<1>6. CASE WatchWait
  BY <1>6 DEF WatchWait, OutOfRetries, CountRetry, AfterFault
<1> QED
  BY <1>1, <1>2, <1>3, <1>4, <1>5, <1>6

\* And the ones that follow it.
LEMMA VerdictType ==
  TypeOK /\ (ReadLog \/ RetryAccepted \/ RetryRefused \/ WaitReload
             \/ PollTimeout \/ Poll \/ Refresh \/ RaiseError \/ SendFails) => TypeOK'
<1> SUFFICES ASSUME TypeOK,
                    ReadLog \/ RetryAccepted \/ RetryRefused \/ WaitReload
                      \/ PollTimeout \/ Poll \/ Refresh \/ RaiseError \/ SendFails
             PROVE TypeOK'
  OBVIOUS
<1> USE XrAssumption DEF Goto, device, box, session, watch, ids, Read, Guesses
<1>1. CASE ReadLog
  BY <1>1 DEF TypeOK, ReadLog, Judge, AfterMethod
<1>2. CASE RetryAccepted
  BY <1>2, StartType, BeginType DEF TypeOK, RetryAccepted, RetryId
<1>3. CASE RetryRefused
  <2>1. CASE UNCHANGED device /\ Goto("error")
    BY <1>3, <2>1 DEF TypeOK, RetryRefused
  <2>2. CASE StartOp("failed")
    BY <1>3, <2>2, StartType DEF TypeOK, RetryRefused, AfterMethod
  <2> QED
    BY <1>3, <2>1, <2>2 DEF RetryRefused
<1>4. CASE WaitReload
  <2>1. line' \in BOOLEAN
    BY <1>4 DEF WaitReload
  <2> QED
    BY <1>4, <2>1 DEF TypeOK, WaitReload
<1>5. CASE PollTimeout
  BY <1>5 DEF TypeOK, PollTimeout
<1>6. CASE Poll
  BY <1>6 DEF TypeOK, Poll
<1>7. CASE Refresh
  BY <1>7 DEF TypeOK, Refresh
<1>8. CASE RaiseError
  BY <1>8 DEF TypeOK, RaiseError
<1>9. CASE SendFails
  BY <1>9 DEF TypeOK, SendFails
<1> QED
  BY <1>1, <1>2, <1>3, <1>4, <1>5, <1>6, <1>7, <1>8, <1>9

\* The steps of the router keep them too.
LEMMA RouterType == TypeOK /\ Router => TypeOK'
<1> SUFFICES ASSUME TypeOK, Router PROVE TypeOK'
  OBVIOUS
<1> USE XrAssumption DEF device, box, watch, ids, plugin, Guesses
<1>1. CASE ForeignStart
  BY <1>1 DEF TypeOK, ForeignStart, Kept
<1>2. ASSUME NEW i \in Ops, OpEnds(i) PROVE TypeOK'
  <2>1. UNCHANGED <<method, started, mine, prior, box, plugin>>
    BY <1>2 DEF OpEnds
  <2> QED
    BY <1>2, <2>1, EndType DEF TypeOK
<1>3. ASSUME NEW i \in Ops, Show(i) PROVE TypeOK'
  BY <1>3 DEF TypeOK, Show, Printed
<1>4. CASE ReloadBegins
  <2>1. nodes' \in BOOLEAN /\ line' \in BOOLEAN
    BY <1>4 DEF ReloadBegins
  <2> QED
    BY <1>4, <2>1 DEF TypeOK, ReloadBegins
<1>5. CASE BootDone
  BY <1>5 DEF TypeOK, BootDone
<1>6. CASE NodesUp
  BY <1>6 DEF TypeOK, NodesUp
<1> QED
  BY <1>1, <1>2, <1>3, <1>4, <1>5, <1>6 DEF Router

\* Every step keeps the types.
LEMMA StepType == TypeOK /\ [Next]_vars => TypeOK'
<1> SUFFICES ASSUME TypeOK, UNCHANGED vars PROVE TypeOK'
  BY CommandType, WatchType, VerdictType, RouterType DEF Next, Plugin, Ended
<1> QED
  BY DEF TypeOK, vars, device, box, session, watch, ids, Guesses

\* Every variable keeps its type: the watch of a plugin never counts more
\* retries than it allows, and the ids it uses are ids.
THEOREM TypeCorrect == Spec => []TypeOK
  BY InitType, StepType, PTL DEF Spec

-----------------------------------------------------------------------------
(* What a step may do to the operations.                                   *)

\* Four kinds of step touch them: a command, another user's command, the end
\* of one, and the printing of a text.
LEMMA DeviceStep ==
  ASSUME [Next]_vars
  PROVE  \/ UNCHANGED <<op, method, started, mine, prior>>
         \/ StartOp("running") \/ StartOp("failed")
         \/ ForeignStart \/ \E i \in Ops : OpEnds(i)
<1> USE DEF device
<1>1. CASE Prepare \/ ExpectId \/ Accepted \/ FailsAtOnce \/ Refused \/ Asked
             \/ Confirm \/ DialogFails
  BY <1>1 DEF Prepare, ExpectId, Accepted, FailsAtOnce, Refused, Asked, Confirm,
     DialogFails
<1>2. CASE WatchPrompt \/ WatchShow \/ WatchFault \/ WatchGiveUp
             \/ WatchReconnect \/ WatchWait
  BY <1>2 DEF WatchPrompt, WatchShow, WatchFault, WatchGiveUp, WatchReconnect,
     WatchWait
<1>3. CASE ReadLog \/ RetryAccepted \/ RetryRefused \/ WaitReload
             \/ PollTimeout \/ Poll \/ Refresh \/ RaiseError \/ SendFails
  BY <1>3 DEF ReadLog, RetryAccepted, RetryRefused, WaitReload, PollTimeout,
     Poll, Refresh, RaiseError, SendFails
<1>4. CASE Router
  BY <1>4 DEF Router, Show, ReloadBegins, BootDone, NodesUp
<1>5. CASE UNCHANGED vars
  BY <1>5 DEF vars
<1> QED
  BY <1>1, <1>2, <1>3, <1>4, <1>5 DEF Next, Plugin, Ended

\* Only a new operation, whose id is the next one, and a running one change.
LEMMA Settled ==
  ASSUME TypeOK, IdsInOrder, [Next]_vars
  PROVE  /\ started' >= started /\ started' \in Nat
         /\ \A i \in Ops : op[i] \in Outcomes => op'[i] = op[i]
         /\ IdsInOrder'
<1> USE XrAssumption DEF TypeOK, IdsInOrder
<1>1. CASE UNCHANGED <<op, method, started, mine, prior>>
  BY <1>1
<1>2. ASSUME NEW st \in {"running", "failed"}, StartOp(st)
      PROVE  /\ started' >= started /\ started' \in Nat
             /\ \A i \in Ops : op[i] \in Outcomes => op'[i] = op[i]
             /\ IdsInOrder'
  BY <1>2 DEF StartOp
<1>3. CASE ForeignStart
  BY <1>3 DEF ForeignStart, Kept
<1>4. ASSUME NEW i \in Ops, OpEnds(i)
      PROVE  /\ started' >= started /\ started' \in Nat
             /\ \A j \in Ops : op[j] \in Outcomes => op'[j] = op[j]
             /\ IdsInOrder'
  <2>1. PICK e \in Ends : op' = [op EXCEPT ![i] = e]
    BY <1>4 DEF OpEnds
  <2>2. e \in Outcomes /\ op[i] = "running"
    BY <1>4 DEF OpEnds
  <2> QED
    BY <1>4, <2>1, <2>2 DEF OpEnds
<1> QED
  BY <1>1, <1>2, <1>3, <1>4, DeviceStep

\* A text is only printed for an operation that has succeeded.
LEMMA StepTexts == TypeOK /\ IdsInOrder /\ TextsTrue /\ [Next]_vars => TextsTrue'
<1> SUFFICES ASSUME TypeOK, IdsInOrder, TextsTrue, [Next]_vars PROVE TextsTrue'
  OBVIOUS
<1>1. \A i \in pend \cup unread : i \in Ops /\ op'[i] = "success"
  BY Settled DEF TextsTrue, TypeOK
<1>2. CASE pend' \subseteq pend /\ unread' \subseteq unread
  BY <1>1, <1>2 DEF TextsTrue
<1>3. CASE Plugin
  <2> USE DEF device, session, Read
  <2>1. pend' \subseteq pend
    BY <1>3 DEF Plugin, StartOp, Prepare, ExpectId, Accepted, FailsAtOnce, Refused,
       Asked, Confirm, DialogFails, WatchPrompt, WatchShow, WatchFault,
       WatchGiveUp, WatchReconnect, WatchWait, ReadLog, RetryAccepted,
       RetryRefused, WaitReload, PollTimeout, Poll, Refresh, RaiseError, SendFails
  <2>2. unread' \subseteq unread
    BY <1>3 DEF Plugin, Prepare, ExpectId, Accepted, FailsAtOnce, Refused,
       Asked, Confirm, DialogFails, WatchPrompt, WatchShow, WatchFault,
       WatchGiveUp, WatchReconnect, WatchWait, ReadLog, RetryAccepted,
       RetryRefused, WaitReload, PollTimeout, Poll, Refresh, RaiseError, SendFails
  <2> QED
    BY <1>2, <2>1, <2>2
<1>4. ASSUME NEW i \in Ops, OpEnds(i) PROVE TextsTrue'
  <2>1. PICK e \in Ends :
          /\ op' = [op EXCEPT ![i] = e]
          /\ IF e # "success" THEN UNCHANGED <<pend, unread>>
             ELSE IF LateMessages THEN pend' = pend \cup {i} /\ UNCHANGED unread
             ELSE unread' = Printed(i) /\ UNCHANGED pend
    BY <1>4 DEF OpEnds
  <2>2. CASE e # "success"
    BY <1>2, <2>1, <2>2
  <2>3. CASE e = "success"
    <3>1. op'[i] = "success"
      BY <2>1, <2>3 DEF TypeOK
    <3>2. pend' \subseteq pend \cup {i} /\ unread' \subseteq unread \cup {i}
      BY <2>1, <2>3 DEF Printed
    <3> QED
      BY <1>1, <3>1, <3>2 DEF TextsTrue
  <2> QED
    BY <2>2, <2>3
<1>5. ASSUME NEW i \in Ops, Show(i) PROVE TextsTrue'
  BY <1>1, <1>5 DEF Show, Printed, TextsTrue
<1>6. CASE Router
  BY <1>2, <1>4, <1>5, <1>6
     DEF Router, ForeignStart, ReloadBegins, BootDone, NodesUp, device
<1>7. CASE UNCHANGED vars
  BY <1>2, <1>7 DEF vars, device, session
<1> QED
  BY <1>3, <1>6, <1>7 DEF Next, Ended

-----------------------------------------------------------------------------
(* The control flow.                                                       *)

\* The conjuncts of XInv about where run() is.
Flow ==
  /\ NotYet /\ WatchesGiven /\ OnlyAddStores /\ AgainAfterIncr
  /\ WatchEndsAfterOp /\ VerdictOnOwnOp /\ RepeatedAfterFailure
XBase == TypeOK /\ IdsInOrder /\ TextsTrue

\* What an accepted command sees and does.
LEMMA StartEffect ==
  ASSUME TypeOK, IdsInOrder, NEW st \in {"running", "failed"}, StartOp(st)
  PROVE  /\ started' = started + 1 /\ started' \in Ops /\ op'[started'] = st
         /\ mine' = started' /\ prior' = mine
         /\ \A i \in 1 .. started : i \in Ops /\ op'[i] = op[i]
BY XrAssumption DEF TypeOK, IdsInOrder, StartOp

\* The ids a plugin may expect only grow.
LEMMA Widen == \A a, m, n \in Nat : n >= m /\ a \in 1 .. m + 1 => a \in 1 .. n + 1
OBVIOUS

\* The steps of the router and of other users leave run() where it is.
LEMMA RouterFlow == XBase /\ Flow /\ Router => Flow'
<1> SUFFICES ASSUME XBase, Flow, Router PROVE Flow'
  OBVIOUS
<1>1. [Next]_vars
  BY DEF Next
<1>2. /\ started' >= started /\ started' \in Nat
      /\ \A i \in Ops : op[i] \in Outcomes => op'[i] = op[i]
  BY <1>1, Settled DEF XBase
<1>3. UNCHANGED <<mine, prior, pc, job, opId, stored, finish>>
  BY DEF Router, ForeignStart, OpEnds, Show, ReloadBegins, BootDone, NodesUp,
     device, plugin, watch, ids
<1>4. opId \in 1 .. started => opId \in Ops
  BY XrAssumption DEF XBase, TypeOK
<1> USE DEF Flow, Guesses
<1>5. NotYet' /\ WatchesGiven'
  <2>1. /\ started \in Nat /\ opId \in Nat /\ opId' \in Nat /\ opId' = opId
        /\ started' \in Nat /\ started' >= started
    BY <1>2, <1>3, XrAssumption DEF XBase, TypeOK
  <2>2. opId \in 1 .. started + 1 => opId' \in 1 .. started' + 1
    BY <2>1, Widen
  <2>3. NotYet'
    BY <1>3, <2>2 DEF NotYet
  <2>4. WatchesGiven'
    BY <1>2, <1>3, <1>4, <2>1 DEF WatchesGiven
  <2> QED
    BY <2>3, <2>4
<1>6. OnlyAddStores' /\ AgainAfterIncr' /\ WatchEndsAfterOp'
  BY <1>2, <1>3, <1>4 DEF OnlyAddStores, AgainAfterIncr, WatchesGiven, WatchEndsAfterOp
<1>7. VerdictOnOwnOp' /\ RepeatedAfterFailure'
  BY <1>2, <1>3 DEF VerdictOnOwnOp, RepeatedAfterFailure, XBase, TypeOK
<1> QED
  BY <1>5, <1>6, <1>7

\* Steps that go to where nothing is known but what is known everywhere.
LEMMA QuietFlow ==
  ASSUME XBase, Flow, UNCHANGED <<op, started, mine, prior, job, opId, stored>>,
         pc # "prep", pc # "command" \/ pc' \in {"error", "raised"},
         pc' \in {"reload", "poll", "refresh", "error", "returned", "raised"},
         pc \notin {"error", "raised"} \/ pc' = "raised"
  PROVE  Flow'
BY DEF Flow, NotYet, WatchesGiven, OnlyAddStores, AgainAfterIncr,
   WatchEndsAfterOp, VerdictOnOwnOp, RepeatedAfterFailure, Guesses, XBase, TypeOK

\* Steps inside the watch loop that leave the flags alone.
LEMMA PlainFlow ==
  ASSUME XBase, Flow, UNCHANGED <<op, started, mine, prior, job, opId, stored, finish>>,
         pc \in {"watch", "watchshow", "retry"},
         pc' \in {"watch", "watchshow", "retry"}
  PROVE  Flow'
BY DEF Flow, NotYet, WatchesGiven, OnlyAddStores, AgainAfterIncr,
   WatchEndsAfterOp, VerdictOnOwnOp, RepeatedAfterFailure, Guesses

\* The step that ends the watch needs the operation's end.
LEMMA WatchedFlow ==
  ASSUME XBase, Flow, UNCHANGED <<op, started, mine, prior, job, opId, stored>>,
         pc \in {"watchshow", "retry"}, pc' = "watched",
         op[opId] \in Outcomes
  PROVE  Flow'
<1>1. opId \in 1 .. started /\ opId \in Ops
  BY XrAssumption DEF Flow, WatchesGiven, XBase, TypeOK
<1> QED
  BY <1>1 DEF Flow, NotYet, WatchesGiven, OnlyAddStores, AgainAfterIncr,
     WatchEndsAfterOp, VerdictOnOwnOp, RepeatedAfterFailure, Guesses

\* Up to the watch.
LEMMA CommandFlow ==
  XBase /\ Flow /\ (Prepare \/ ExpectId \/ Accepted \/ FailsAtOnce \/ Refused
                     \/ Asked \/ Confirm \/ DialogFails) => Flow'
<1> SUFFICES ASSUME XBase, Flow,
                    Prepare \/ ExpectId \/ Accepted \/ FailsAtOnce \/ Refused
                      \/ Asked \/ Confirm \/ DialogFails
             PROVE Flow'
  OBVIOUS
<1>a. /\ started \in Nat /\ opId \in Nat /\ mine \in Nat
      /\ TypeOK /\ IdsInOrder /\ job.kind \in Kinds
  BY XrAssumption DEF XBase, TypeOK, Job
<1> USE <1>a DEF Goto, device, ids
<1>1. CASE Prepare
  BY <1>1 DEF Prepare, PrepGoto, Flow, NotYet, WatchesGiven, OnlyAddStores,
     AgainAfterIncr, WatchEndsAfterOp, VerdictOnOwnOp, RepeatedAfterFailure, Guesses
<1>2. CASE ExpectId
  BY <1>2 DEF ExpectId, Flow, NotYet, WatchesGiven, OnlyAddStores,
     AgainAfterIncr, WatchEndsAfterOp, VerdictOnOwnOp, RepeatedAfterFailure, Guesses
<1>3. CASE Accepted
  <2>1. finish' = FALSE
    BY <1>3 DEF Accepted, BeginWatch
  <2> QED
    BY <1>3, <2>1, StartEffect DEF Accepted, Flow, NotYet, WatchesGiven, OnlyAddStores,
       AgainAfterIncr, WatchEndsAfterOp, VerdictOnOwnOp, RepeatedAfterFailure, Guesses
<1>4. CASE FailsAtOnce
  <2>1. finish' = FALSE
    BY <1>4 DEF FailsAtOnce, BeginWatch
  <2> QED
    BY <1>4, <2>1, StartEffect DEF FailsAtOnce, Flow, NotYet, WatchesGiven, OnlyAddStores,
       AgainAfterIncr, WatchEndsAfterOp, VerdictOnOwnOp, RepeatedAfterFailure, Guesses
<1>5. CASE Refused
  BY <1>5, QuietFlow DEF Refused
<1>6. CASE Asked
  BY <1>6, StartEffect DEF Asked, Flow, NotYet, WatchesGiven, OnlyAddStores,
     AgainAfterIncr, WatchEndsAfterOp, VerdictOnOwnOp, RepeatedAfterFailure, Guesses
<1>7. CASE Confirm
  <2>1. finish' = FALSE
    BY <1>7 DEF Confirm, BeginWatch
  <2> QED
    BY <1>7, <2>1 DEF Confirm, Flow, NotYet, WatchesGiven, OnlyAddStores,
       AgainAfterIncr, WatchEndsAfterOp, VerdictOnOwnOp, RepeatedAfterFailure, Guesses
<1>8. CASE DialogFails
  <2>1. CASE UNCHANGED device
    BY <1>8, <2>1, QuietFlow DEF DialogFails
  <2>2. CASE StartOp("failed")
    BY <1>8, <2>2, StartEffect DEF DialogFails, Flow, NotYet, WatchesGiven,
       OnlyAddStores, AgainAfterIncr, WatchEndsAfterOp, VerdictOnOwnOp,
       RepeatedAfterFailure, Guesses
  <2> QED
    BY <1>8, <2>1, <2>2 DEF DialogFails
<1> QED
  BY <1>1, <1>2, <1>3, <1>4, <1>5, <1>6, <1>7, <1>8

\* The watch: the text names the operation, and with no operation in progress
\* every id that was given is one of an operation that has ended.
LEMMA WatchFlow ==
  XBase /\ Flow /\ (WatchPrompt \/ WatchShow \/ WatchFault \/ WatchGiveUp
                     \/ WatchReconnect \/ WatchWait) => Flow'
<1> SUFFICES ASSUME XBase, Flow,
                    WatchPrompt \/ WatchShow \/ WatchFault \/ WatchGiveUp
                      \/ WatchReconnect \/ WatchWait
             PROVE Flow'
  OBVIOUS
<1>a. pc \in {"watch", "watchshow", "retry"} => opId \in 1 .. started /\ opId \in Ops
  BY XrAssumption DEF Flow, WatchesGiven, XBase, TypeOK
<1> USE DEF Goto, device, ids
<1>1. CASE WatchPrompt
  <2>1. CASE UNCHANGED finish
    BY <1>1, <2>1, PlainFlow DEF WatchPrompt
  <2>2. CASE \E i \in unread : SuccessMatches(i)
    <3>1. op[opId] = "success"
      BY <2>2 DEF SuccessMatches, XBase, TextsTrue
    <3>2. pc = "watch" /\ pc' = "watchshow"
          /\ UNCHANGED <<op, started, mine, prior, job, opId, stored>>
      BY <1>1 DEF WatchPrompt
    <3>3. (op[opId] \in Outcomes)'
      BY <3>1, <3>2
    <3> QED
      BY <3>2, <3>3 DEF Flow, NotYet, WatchesGiven, OnlyAddStores, AgainAfterIncr,
         WatchEndsAfterOp, VerdictOnOwnOp, RepeatedAfterFailure, Guesses
  <2> QED
    BY <1>1, <2>1, <2>2 DEF WatchPrompt
<1>2. CASE WatchShow
  <2>1. CASE finish
    BY <1>2, <2>1, WatchedFlow DEF WatchShow, Flow, WatchesGiven
  <2>2. CASE ~finish /\ InProgress = {}
    <3>1. op[opId] # "running" /\ op[opId] # "none"
      BY <1>2, <1>a, <2>2 DEF WatchShow, InProgress, XBase, IdsInOrder, TypeOK
    <3>2. op[opId] \in Outcomes
      BY <1>2, <1>a, <3>1 DEF WatchShow, XBase, TypeOK
    <3> QED
      BY <1>2, <2>2, <3>2, WatchedFlow DEF WatchShow
  <2>3. CASE ~finish /\ InProgress # {}
    BY <1>2, <2>3, PlainFlow DEF WatchShow
  <2> QED
    BY <2>1, <2>2, <2>3
<1>3. CASE WatchFault
  BY <1>3, PlainFlow DEF WatchFault
<1>4. CASE WatchGiveUp
  BY <1>4, QuietFlow DEF WatchGiveUp
<1>5. ASSUME pc = "retry", pc' = AfterFault,
             UNCHANGED <<op, started, mine, prior, job, opId, stored, finish>>
      PROVE  Flow'
  <2>1. CASE ~seen
    BY <1>5, <2>1, QuietFlow DEF AfterFault
  <2>2. CASE seen /\ finish
    BY <1>5, <2>2, WatchedFlow DEF AfterFault, Flow, WatchesGiven
  <2>3. CASE seen /\ ~finish
    BY <1>5, <2>3, PlainFlow DEF AfterFault
  <2> QED
    BY <2>1, <2>2, <2>3
<1>6. CASE WatchReconnect
  BY <1>5, <1>6, QuietFlow DEF WatchReconnect
<1>7. CASE WatchWait
  BY <1>5, <1>7 DEF WatchWait
<1> QED
  BY <1>1, <1>2, <1>3, <1>4, <1>6, <1>7

\* After the watch.
LEMMA VerdictFlow ==
  XBase /\ Flow /\ (ReadLog \/ RetryAccepted \/ RetryRefused \/ WaitReload
                     \/ PollTimeout \/ Poll \/ Refresh \/ RaiseError \/ SendFails)
    => Flow'
<1> SUFFICES ASSUME XBase, Flow,
                    ReadLog \/ RetryAccepted \/ RetryRefused \/ WaitReload
                      \/ PollTimeout \/ Poll \/ Refresh \/ RaiseError \/ SendFails
             PROVE Flow'
  OBVIOUS
<1>a. /\ TypeOK /\ IdsInOrder /\ opId \in Nat /\ started \in Nat
  BY XrAssumption DEF XBase, TypeOK
<1> USE DEF Goto, device, ids
<1>1. CASE ReadLog
  <2>1. CASE pc' = "again"
    <3>1. op[opId] = "incr" /\ job.kind = "install"
      BY <1>1, <2>1 DEF ReadLog, Judge, AfterMethod
    <3> QED
      BY <1>1, <2>1, <3>1 DEF ReadLog, Flow, NotYet, WatchesGiven, OnlyAddStores,
         AgainAfterIncr, WatchEndsAfterOp, VerdictOnOwnOp, RepeatedAfterFailure, Guesses
  <2>2. CASE pc' # "again"
    <3>1. pc' \in {"refresh", "error", "reload"}
      BY <1>1, <2>2 DEF ReadLog, Judge, AfterMethod
    <3> QED
      BY <1>1, <3>1, QuietFlow DEF ReadLog
  <2> QED
    BY <2>1, <2>2
<1>2. ASSUME pc = "again"
      PROVE  mine \in 1 .. started /\ opId = mine /\ op[mine] = "incr" /\ stored = NoOp
  BY <1>2, <1>a DEF Flow, WatchesGiven, AgainAfterIncr, VerdictOnOwnOp,
     OnlyAddStores, Guesses
<1>3. CASE RetryAccepted
  <2>1. finish' = FALSE
    BY <1>3 DEF RetryAccepted, BeginWatch
  <2> QED
    BY <1>2, <1>3, <1>a, <2>1, StartEffect DEF RetryAccepted, RetryId, Flow, NotYet,
       WatchesGiven, OnlyAddStores, AgainAfterIncr, WatchEndsAfterOp,
       VerdictOnOwnOp, RepeatedAfterFailure, Guesses
<1>4. CASE RetryRefused
  <2>1. CASE UNCHANGED device /\ Goto("error")
    BY <1>4, <2>1, QuietFlow DEF RetryRefused
  <2>2. CASE StartOp("failed")
    BY <1>2, <1>4, <1>a, <2>2, StartEffect DEF RetryRefused, AfterMethod, Flow, NotYet,
       WatchesGiven, OnlyAddStores, AgainAfterIncr, WatchEndsAfterOp,
       VerdictOnOwnOp, RepeatedAfterFailure, Guesses
  <2> QED
    BY <1>4, <2>1, <2>2 DEF RetryRefused
<1>5. CASE WaitReload
  BY <1>5, QuietFlow DEF WaitReload
<1>6. CASE PollTimeout
  BY <1>6, QuietFlow DEF PollTimeout
<1>7. CASE Poll
  BY <1>7, QuietFlow DEF Poll
<1>8. CASE Refresh
  BY <1>8, QuietFlow DEF Refresh
<1>9. CASE RaiseError
  BY <1>9, QuietFlow DEF RaiseError
<1>10. CASE SendFails
  <2>1. CASE pc = "prep"
    BY <1>10, <2>1 DEF SendFails, Flow, NotYet, WatchesGiven, OnlyAddStores,
       AgainAfterIncr, WatchEndsAfterOp, VerdictOnOwnOp, RepeatedAfterFailure, Guesses
  <2> QED
    BY <1>10, <2>1, QuietFlow DEF SendFails, Sends
<1> QED
  BY <1>1, <1>3, <1>4, <1>5, <1>6, <1>7, <1>8, <1>9, <1>10

\* XInv holds at the start.
LEMMA InitInv == Init => XInv
<1> SUFFICES ASSUME Init PROVE XInv
  OBVIOUS
<1>1. TypeOK
  BY InitType
<1>2. job.kind \in Kinds
  BY <1>1, XrAssumption DEF TypeOK, Job
<1> QED
  BY <1>1, <1>2, XrAssumption DEF Init, XInv, IdsInOrder, TextsTrue, NotYet,
     WatchesGiven, OnlyAddStores, AgainAfterIncr, WatchEndsAfterOp,
     VerdictOnOwnOp, RepeatedAfterFailure, Guesses

\* Every step keeps XInv.
LEMMA StepInv == XInv /\ [Next]_vars => XInv'
<1> SUFFICES ASSUME XInv, [Next]_vars PROVE XInv'
  OBVIOUS
<1>1. XBase /\ Flow
  BY DEF XInv, XBase, Flow
<1>2. TypeOK' /\ IdsInOrder' /\ TextsTrue'
  BY <1>1, StepType, Settled, StepTexts DEF XBase
<1>3. Flow'
  <2>1. CASE UNCHANGED vars
    BY <1>1, <2>1 DEF Flow, NotYet, WatchesGiven, OnlyAddStores, AgainAfterIncr,
       WatchEndsAfterOp, VerdictOnOwnOp, RepeatedAfterFailure, Guesses,
       vars, device, watch, ids
  <2> QED
    BY <1>1, <2>1, CommandFlow, WatchFlow, VerdictFlow, RouterFlow
       DEF Next, Plugin, Ended
<1> QED
  BY <1>2, <1>3 DEF XInv, Flow

\* The inductive invariant holds, with any other users, late texts and lost
\* connections.
THEOREM Invariance == Spec => []XInv
  BY InitInv, StepInv, PTL DEF Spec

\* The watch is left, and the log read, only after the operation has ended.
THEOREM WatchedToTheEnd == Spec => []WatchEndsAfterOp
<1>1. XInv => WatchEndsAfterOp
  BY DEF XInv
<1> QED
  BY <1>1, Invariance, PTL

\* Every plugin but Remove All Inactive watches, judges and stores the id of
\* the operation its own last command started.
THEOREM OwnOperation == Spec => []VerdictOnOwnOp
<1>1. XInv => VerdictOnOwnOp
  BY DEF XInv
<1> QED
  BY <1>1, Invariance, PTL

\* The command is repeated only after a failure that asks for it.
THEOREM RepeatedRightly == Spec => []RepeatedAfterFailure
<1>1. XInv => RepeatedAfterFailure
  BY DEF XInv
<1> QED
  BY <1>1, Invariance, PTL

-----------------------------------------------------------------------------
(* What a return means.                                                    *)

\* Operations are not aborted, and the log of a failed one names no method.
PlainLogs == "aborted" \notin Ends /\ FailedShowsMethod = FALSE

Late == {"reload", "poll", "refresh", "returned"}
NoAbort   == \A i \in Ops : op[i] # "aborted"
JudgedOwn == pc \in Late /\ mine # NoOp /\ ~Guesses => opId = mine

\* With the reload known to have begun before the first poll.
ReloadSeen ==
  job.kind = "install" /\ mine # NoOp /\ op[mine] \in Good /\ method[mine] = "reload" =>
    /\ pc = "poll" => router # "up"
    /\ pc \in {"refresh", "returned"} => router = "back" /\ nodes

\* run() gets past the log only by the log, or with nothing to do.
LEMMA Enters ==
  ASSUME PlainLogs, XInv, Plugin, pc' \in Late
  PROVE  /\ UNCHANGED <<op, method, mine, opId, job>>
         /\ \/ ReadLog /\ pc = "watched" /\ pc' = Judge(opId)
            \/ Prepare /\ mine = NoOp /\ opId = NoOp
            \/ pc \in Late
<1>1. ~RetryRefused
  <2>1. ASSUME StartOp("failed") PROVE AfterMethod(mine)' = "error"
    <3>1. mine' \in Ops /\ op'[mine'] = "failed"
      BY <2>1, StartEffect DEF XInv
    <3> QED
      BY <3>1 DEF AfterMethod, ShownMethod, PlainLogs
  <2> QED
    BY <2>1 DEF RetryRefused, Goto, Late
<1> QED
  BY <1>1 DEF Late, XInv, NotYet, Plugin, Goto, device, ids, Guesses,
   Prepare, ExpectId, Accepted, FailsAtOnce, Refused, Asked, Confirm, DialogFails,
   WatchPrompt, WatchShow, WatchFault, WatchGiveUp, WatchReconnect, WatchWait,
   AfterFault, ReadLog, RetryAccepted, WaitReload, PollTimeout,
   Poll, Refresh, RaiseError, SendFails

\* If no operation ends in an abort, none was aborted.
LEMMA StepNoAbort ==
  ASSUME PlainLogs, TypeOK, NoAbort, [Next]_vars PROVE NoAbort'
<1>1. ASSUME NEW i \in Ops, OpEnds(i) PROVE NoAbort'
  <2>1. PICK e \in Ends : op' = [op EXCEPT ![i] = e]
    BY <1>1 DEF OpEnds
  <2>2. e # "aborted"
    BY <2>1 DEF PlainLogs
  <2> QED
    BY <2>1, <2>2 DEF NoAbort, TypeOK
<1> QED
  BY <1>1, DeviceStep DEF NoAbort, TypeOK, StartOp, ForeignStart

\* After the verdict the id stays the one of the own operation.
LEMMA StepJudgedOwn == ASSUME PlainLogs, XInv, JudgedOwn, [Next]_vars PROVE JudgedOwn'
<1>1. CASE Plugin
  <2>1. CASE pc' \in Late
    <3>1. CASE pc = "watched"
      BY <1>1, <2>1, <3>1, Enters DEF XInv, WatchesGiven, VerdictOnOwnOp, JudgedOwn,
         Guesses
    <3> QED
      BY <1>1, <2>1, <3>1, Enters DEF JudgedOwn, Guesses
  <2> QED
    BY <2>1 DEF JudgedOwn
<1>2. CASE Router
  BY <1>2 DEF Router, ForeignStart, OpEnds, Show, ReloadBegins, BootDone, NodesUp,
     device, plugin, ids, JudgedOwn, Guesses
<1> QED
  BY <1>1, <1>2 DEF Next, Ended, vars, device, ids, JudgedOwn, Guesses

\* What a log that is not rejected says.
LEMMA JudgeGood ==
  ASSUME PlainLogs, TypeOK, NoAbort, NEW i \in Ops, op[i] \in Outcomes,
         Judge(i) \in Late
  PROVE  /\ op[i] \in IF Guesses THEN {"success"} ELSE Good
         /\ job.kind = "install" /\ Judge(i) = "refresh" => method[i] = "restart"
         /\ Judge(i) \notin {"poll", "returned"}
<1>1. op[i] # "aborted"
  BY DEF NoAbort
<1> QED
  BY <1>1 DEF PlainLogs, Judge, HasFailed, AfterMethod, ShownMethod, Guesses, Late

\* A step that makes the plugin return has seen its operation do what was asked.
LEMMA StepInstalled ==
  ASSUME PlainLogs, XInv, NoAbort, PassedMeansInstalled, [Next]_vars
  PROVE  PassedMeansInstalled'
<1>1. CASE Plugin
  <2>1. CASE pc' \in Late
    <3>1. CASE pc = "watched" /\ pc' = Judge(opId)
      BY <1>1, <2>1, <3>1, Enters, JudgeGood
         DEF XInv, WatchEndsAfterOp, PassedMeansInstalled, Guesses
    <3> QED
      BY <1>1, <2>1, <3>1, Enters DEF PassedMeansInstalled, Guesses, Late
  <2> QED
    BY <2>1 DEF PassedMeansInstalled, Late
<1>2. CASE Router
  <2>1. UNCHANGED <<mine, opId, pc, job>>
    BY <1>2 DEF Router, ForeignStart, OpEnds, Show, ReloadBegins, BootDone, NodesUp,
       device, plugin, ids
  <2>2. \A i \in Ops : op[i] \in Outcomes => op'[i] = op[i]
    BY Settled DEF XInv
  <2>3. mine \in Ops \cup {NoOp}
    BY DEF XInv, TypeOK
  <2> QED
    BY <2>1, <2>2, <2>3 DEF PassedMeansInstalled, Guesses
<1> QED
  BY <1>1, <1>2 DEF Next, Ended, vars, device, ids, PassedMeansInstalled, Guesses

\* When logs are plain, a plugin that returns has had its own operation
\* judged, and it did what was asked.
THEOREM Installed == ASSUME PlainLogs PROVE Spec => []PassedMeansInstalled
<1> DEFINE I == XInv /\ NoAbort /\ PassedMeansInstalled
<1>1. Init => I
  BY InitInv DEF Init, NoAbort, PassedMeansInstalled
<1>2. I /\ [Next]_vars => I'
  BY StepInv, StepNoAbort, StepInstalled DEF XInv
<1>3. I => PassedMeansInstalled
  OBVIOUS
<1> QED
  BY <1>1, <1>2, <1>3, PTL DEF Spec

\* Once the nodes are polled the reload has begun, and it is over when the plugin returns.
LEMMA StepReload ==
  ASSUME PlainLogs, PromptReload, XInv, NoAbort, JudgedOwn, PassedMeansInstalled,
         ReloadSeen, [Next]_vars
  PROVE  ReloadSeen'
<1> USE DEF ReloadSeen
<1>1. CASE Plugin
  <2>1. CASE pc' \in Late
    <3>1. UNCHANGED <<op, method, mine, opId, job>>
      BY <1>1, <2>1, Enters
    <3>2. CASE pc = "watched" /\ pc' = Judge(opId)
      <4>1. mine # NoOp /\ job.kind = "install" => opId = mine
        BY <3>2 DEF XInv, WatchEndsAfterOp, VerdictOnOwnOp, Guesses
      <4> QED
        BY <2>1, <3>1, <3>2, <4>1, JudgeGood DEF XInv, WatchEndsAfterOp
    <3>3. CASE mine = NoOp
      BY <3>1, <3>3
    <3>4. CASE pc \in Late
      <4>1. CASE WaitReload
        BY <4>1, <3>1 DEF WaitReload, ReloadPending, box, Goto
      <4>2. CASE Poll
        BY <4>2, <3>1 DEF Poll, NodesValid, Live, box, Goto, XInv, TypeOK
      <4>3. CASE Refresh
        BY <4>3, <3>1 DEF Refresh, box, Goto
      <4> QED
        BY <1>1, <2>1, <3>4, <4>1, <4>2, <4>3 DEF Late, Plugin, Goto, PollTimeout,
           SendFails, Prepare, ExpectId, Accepted, FailsAtOnce, Refused, Asked,
           Confirm, DialogFails, WatchPrompt, WatchShow, WatchFault, WatchGiveUp,
           WatchReconnect, WatchWait, ReadLog, RetryAccepted, RetryRefused, RaiseError
    <3> QED
      BY <1>1, <2>1, <3>2, <3>3, <3>4, Enters
  <2> QED
    BY <2>1 DEF Late
<1>2. CASE Router
  <2>1. UNCHANGED <<method, mine, opId, pc, job>>
    BY <1>2 DEF Router, ForeignStart, OpEnds, Show, ReloadBegins, BootDone, NodesUp,
       device, plugin, ids
  <2>2. pc \in Late /\ mine # NoOp /\ job.kind = "install" => op'[mine] = op[mine]
    <3>1. \A i \in Ops : op[i] \in Outcomes => op'[i] = op[i]
      BY Settled DEF XInv
    <3> QED
      BY <3>1 DEF JudgedOwn, PassedMeansInstalled, Guesses, Late, XInv, TypeOK
  <2>3. CASE UNCHANGED box
    BY <2>1, <2>2, <2>3 DEF box, Late
  <2>4. CASE ReloadBegins
    BY <2>1, <2>2, <2>4 DEF ReloadBegins, ReloadPending, Late
  <2>5. CASE BootDone \/ NodesUp
    BY <2>1, <2>2, <2>5 DEF BootDone, NodesUp, Late
  <2> QED
    BY <1>2, <2>3, <2>4, <2>5 DEF Router, ForeignStart, OpEnds, Show
<1>3. CASE UNCHANGED vars
  BY <1>3 DEF vars, device, box
<1> QED
  BY <1>1, <1>2, <1>3 DEF Next, Ended

\* If a reload that is due begins before the first poll, an Activate whose
\* operation reloads the router returns after the boot, with all nodes valid.
THEOREM BootAwaited ==
  ASSUME PlainLogs, PromptReload PROVE Spec => []ReturnsAfterBoot
<1> DEFINE I == XInv /\ NoAbort /\ JudgedOwn /\ PassedMeansInstalled /\ ReloadSeen
<1>1. Init => I
  BY InitInv DEF Init, NoAbort, JudgedOwn, PassedMeansInstalled, ReloadSeen
<1>2. I /\ [Next]_vars => I'
  BY StepInv, StepNoAbort, StepJudgedOwn, StepInstalled, StepReload DEF XInv
<1>3. I => ReturnsAfterBoot
  BY DEF ReloadSeen, ReturnsAfterBoot
<1> QED
  BY <1>1, <1>2, <1>3, PTL DEF Spec

=============================================================================
