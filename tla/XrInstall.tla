----------------------------- MODULE XrInstall -----------------------------
(***************************************************************************)
(* One install plugin on an IOS XR router: Add, Remove, Activate,          *)
(* Deactivate, Commit and Remove All Inactive of                           *)
(* csm_install_operations/ios_xr and the helpers of ios_xr/install.py      *)
(* (watch_operation, watch_install with its parallel-reload retry,         *)
(* wait_for_reload, install_remove_all with a watch loop of its own).      *)
(* These plugins write no status: run() returns or raises.                 *)
(*                                                                         *)
(* The router is external, modelled from how the plugins use it and from   *)
(* the transcripts in install_remove_all's docstring: one install          *)
(* operation at a time, ids given in order, a refusal names no operation,  *)
(* "Install operation N completed successfully" is printed on the terminal *)
(* at a time of its own, and an operation whose method is Parallel Reload  *)
(* reloads the router some time after its end.  Every ctx.send is one      *)
(* step; sleeps, progress messages and job information are left out.       *)
(* A definition X_Word is X with a plausible bug.                          *)
(***************************************************************************)
EXTENDS Integers

CONSTANTS
  Jobs,               \* the plugins that may be run, a set of Job
  Faults,             \* errors a send may raise although the router is up
  Ends,               \* how an operation may end
  Foreign,            \* do other users start install operations?
  FailedShowsMethod,  \* does the log of a failed operation name a method?
  LateMessages,       \* may a completion be printed some time after the fact?
  PromptReload,       \* does a reload begin before the first show platform?
  MaxOps,             \* bound: install operations the router ever starts
  MaxPolls,           \* polls of wait_for_reload: timeout / poll_time = 120
  MaxWaits            \* retries of install_remove_all: 120

\* "install" stands for Activate and Deactivate: the same control.
Kinds    == {"add", "remove", "install", "commit", "removeall"}
Outcomes == {"success", "failure", "failed", "incr", "aborted"}
Methods  == {"none", "restart", "reload"}

\* byId: ctx.operation_id is set.  tar: Add was given a tar file.
Job == [kind : Kinds, byId : BOOLEAN, tar : BOOLEAN, console : BOOLEAN]
PCs == {"prep", "command", "confirm", "watch", "watchshow", "retry",
        "watched", "again", "reload", "poll", "refresh", "error",
        "returned", "raised"}

Ops  == 1 .. MaxOps
NoOp == 0

ASSUME XrAssumption ==
  /\ Jobs \subseteq Job
  /\ Faults \subseteq {"conn", "timeout"}
  /\ Ends \subseteq Outcomes
  /\ {Foreign, FailedShowsMethod, LateMessages, PromptReload} \subseteq BOOLEAN
  /\ MaxOps \in Nat \ {0} /\ MaxPolls \in Nat \ {0} /\ MaxWaits \in Nat

VARIABLES
  \* the router
  op,       \* "none", "running" or how the operation ended
  method,   \* its install method
  started,  \* how many were started, by anyone
  mine,     \* the last one this plugin's command started, or NoOp
  prior,    \* the one before, if the command was repeated
  pend,     \* completions not printed yet
  router,   \* "up", "booting", "back"
  nodes,    \* is every CPU node in a valid state?
  \* the terminal session
  line,     \* is it connected?
  unread,   \* completions printed and not read yet
  \* the plugin
  pc, job,
  cmd,      \* "plain", or "parallel" with parallel-reload appended
  opId,     \* op_id
  stored,   \* ctx.operation_id as Add leaves it
  tried,    \* time_tried
  finish,   \* finish
  seen,     \* output # None in the watch loop
  polls     \* wait_for_reload's time_waited / poll_time

device  == <<op, method, started, mine, prior, pend>>
box     == <<router, nodes>>
session == <<line, unread>>
watch   == <<tried, finish, seen>>
ids     == <<cmd, opId, stored>>
vars    == <<device, box, session, watch, ids, pc, job, polls>>

Live       == router # "booting" /\ line
InProgress == {i \in Ops : op[i] = "running"}
Read       == unread' = {} /\ UNCHANGED line
Goto(l)    == pc' = l

Guesses == job.kind = "removeall"

Init ==
  /\ op = [i \in Ops |-> "none"] /\ method = [i \in Ops |-> "none"]
  /\ started = 0 /\ mine = NoOp /\ prior = NoOp /\ pend = {}
  /\ router = "up" /\ nodes = TRUE
  /\ line = TRUE /\ unread = {}
  /\ job \in Jobs /\ pc = "prep"
  /\ cmd = "plain" /\ opId = NoOp /\ stored = NoOp
  /\ tried = 0 /\ finish = FALSE /\ seen = FALSE
  /\ polls = 0

-----------------------------------------------------------------------------
(* Before the command: what to install, and the id to expect.              *)

\* Add may miss its repository, its package list or an acceptable file name;
\* the others ask the router what is active and inactive, and may find
\* nothing to do.  With an operation id there is nothing to ask.
PrepSends == job.kind = "remove" \/ (job.kind = "install" /\ ~job.byId)
PrepGoto  ==
  CASE job.kind = "add"    -> {"command", "error"}
    [] job.kind = "remove" -> {"command", "returned", "error"}
    [] job.kind = "install" /\ ~job.byId -> {"command", "returned", "error"}
    [] OTHER -> {"command"}

Prepare ==
  /\ pc = "prep" /\ ~Guesses
  /\ PrepSends => Live
  /\ pc' \in PrepGoto
  /\ IF PrepSends THEN Read ELSE UNCHANGED session
  /\ UNCHANGED <<device, box, watch, ids, job, polls>>

\* install_remove_all expects the id after the last one in the install log.
ExpectId ==
  /\ pc = "prep" /\ Guesses /\ Live /\ Read
  /\ \/ opId' = started + 1 /\ Goto("command")
     \/ UNCHANGED opId /\ Goto("error")
  /\ UNCHANGED <<device, box, watch, cmd, stored, job, polls>>

-----------------------------------------------------------------------------
(* The command.                                                            *)

\* The router accepts the command as an operation in state st.
StartOp(st) ==
  /\ InProgress = {} /\ started < MaxOps
  /\ started' = started + 1 /\ mine' = started + 1 /\ prior' = mine
  /\ op' = [op EXCEPT ![started + 1] = st]
  /\ method' \in {[method EXCEPT ![started + 1] = m] : m \in Methods}
  /\ UNCHANGED pend

\* A watch begins: watch_operation's locals, and install_remove_all's, whose
\* output is not None.
BeginWatch ==
  /\ tried' = 0 /\ finish' = FALSE /\ seen' = Guesses

\* The output names the operation and says that it continues asynchronously.
\* An Add with a tar file stores the id at once.
Accepted ==
  /\ pc = "command" /\ ~Guesses /\ Live /\ Read
  /\ StartOp("running") /\ BeginWatch /\ Goto("watch")
  /\ opId' = mine'
  /\ stored' = IF job.kind = "add" /\ job.tar THEN mine' ELSE stored
  /\ UNCHANGED <<box, cmd, job, polls>>

\* The output names the operation, which has failed already.  Commit does
\* not look at the rest of the output.
FailsAtOnce ==
  /\ pc = "command" /\ ~Guesses /\ Live /\ Read
  /\ StartOp("failed") /\ BeginWatch
  /\ Goto(IF job.kind = "commit" THEN "watch" ELSE "error")
  /\ opId' = mine'
  /\ stored' = IF job.kind = "add" /\ job.tar THEN mine' ELSE stored
  /\ UNCHANGED <<box, cmd, job, polls>>

\* "Cannot proceed with the operation": no id in the output.
Refused ==
  /\ pc = "command" /\ ~Guesses /\ Live /\ Read /\ Goto("error")
  /\ UNCHANGED <<device, box, watch, ids, job, polls>>

\* Remove All Inactive is a dialog: [confirm], "Y", the prompt ...
Asked ==
  /\ pc = "command" /\ Guesses /\ Live /\ Read
  /\ StartOp("running") /\ Goto("confirm")
  /\ UNCHANGED <<box, watch, ids, job, polls>>

Confirm ==
  /\ pc = "confirm" /\ Guesses /\ Live /\ Read /\ BeginWatch /\ Goto("watch")
  /\ UNCHANGED <<device, box, ids, job, polls>>

\* ... or one of two texts that raise a CommandError; a failure under another
\* id than the expected one matches nothing, and the dialog times out.
DialogFails ==
  /\ pc = "command" /\ Guesses /\ Live /\ Read
  /\ \/ UNCHANGED device /\ InProgress # {} /\ Goto("raised")
     \/ StartOp("failed") /\ Goto(IF opId = mine' THEN "raised" ELSE "error")
  /\ UNCHANGED <<box, watch, ids, job, polls>>

-----------------------------------------------------------------------------
(* watch_operation, and the same loop in install_remove_all.               *)

\* ctx.send("", wait_for_string="Install operation <op_id> completed
\* successfully"): seen, or a timeout that is passed over.
SuccessMatches_Any(i) == TRUE
SuccessMatches(i) == i = opId

WatchPrompt ==
  /\ pc = "watch"
  /\ \/ Live /\ Read /\ finish' = TRUE /\ \E i \in unread : SuccessMatches(i)
     \/ /\ Live \/ job.console
        /\ ~\E i \in unread : SuccessMatches(i)
        /\ UNCHANGED <<finish, session>>
  /\ Goto("watchshow")
  /\ UNCHANGED <<device, box, tried, seen, ids, job, polls>>

\* "admin show install request": over when the text was seen, or when there
\* are no install requests in operation.
WatchShow ==
  /\ pc = "watchshow" /\ Live /\ Read
  /\ seen' = TRUE
  /\ Goto(IF finish \/ InProgress = {} THEN "watched" ELSE "watch")
  /\ UNCHANGED <<device, box, tried, finish, ids, job, polls>>

\* Either send may raise.  A dead console line times out, a dead vty closes.
WatchFault ==
  /\ pc \in {"watch", "watchshow"}
  /\ \E f \in Faults \cup (IF Live THEN {}
                           ELSE {IF job.console THEN "timeout" ELSE "conn"}) :
       /\ f = "timeout" => pc = "watchshow"
       /\ line' = (line /\ f # "conn")
  /\ unread' = {} /\ Goto("retry")
  /\ UNCHANGED <<device, box, tried, finish, seen, ids, job, polls>>

OutOfRetries == tried > IF Guesses THEN MaxWaits ELSE 2

WatchGiveUp ==
  /\ pc = "retry" /\ OutOfRetries /\ Goto("raised")
  /\ UNCHANGED <<device, box, session, watch, ids, job, polls>>

CountRetry_Forgotten == UNCHANGED tried
CountRetry == tried' = tried + 1

\* "if no_install in output": a TypeError as long as nothing was output.
\* Else the loop goes on, unless the text was seen before the exception.
AfterFault_Break == "watched"
AfterFault ==
  IF ~seen THEN "raised" ELSE IF finish THEN "watched" ELSE "watch"

\* watch_operation disconnects and reconnects; what reconnect raises is not
\* caught.
WatchReconnect ==
  /\ pc = "retry" /\ ~Guesses /\ ~OutOfRetries
  /\ CountRetry /\ unread' = {}
  /\ \/ router # "booting" /\ line' = TRUE /\ Goto(AfterFault)
     \/ /\ router = "booting" \/ Faults # {}
        /\ line' = FALSE /\ Goto("raised")
  /\ UNCHANGED <<device, box, finish, seen, ids, job, polls>>

\* install_remove_all only waits.
WatchWait ==
  /\ pc = "retry" /\ Guesses /\ ~OutOfRetries
  /\ CountRetry /\ Goto(AfterFault)
  /\ UNCHANGED <<device, box, session, finish, seen, ids, job, polls>>

-----------------------------------------------------------------------------
(* The log of the operation decides.                                       *)

\* "Install operation N failed", and the part of it about incremental and
\* parallel installation.
HasFailed_OnlyIncr(st) == st = "incr"
HasFailed(st) == st \in {"failed", "incr"}

Good == {"success", "failure"}
ShownMethod(i) ==
  IF op[i] \in Good \/ FailedShowsMethod THEN method[i] ELSE "none"

\* watch_install: what it returns for the method, and what its caller does
\* with a FALSE.
AfterMethod(i) ==
  CASE ShownMethod(i) = "reload"  -> "reload"
    [] ShownMethod(i) = "restart" -> "refresh"
    [] OTHER -> "error"

\* The log is checked for a failure before the retry, not after it.
Judge_RetryAlways(i) ==
  CASE job.kind = "removeall" -> IF op[i] = "success" THEN "refresh" ELSE "error"
    [] job.kind = "install" /\ cmd = "plain" /\ HasFailed(op[i]) -> "again"
    [] job.kind = "install" -> AfterMethod(i)
    [] OTHER -> IF HasFailed(op[i]) THEN "error" ELSE "refresh"
Judge(i) ==
  CASE job.kind = "removeall" -> IF op[i] = "success" THEN "refresh" ELSE "error"
    [] job.kind = "install" /\ cmd = "plain" /\ HasFailed(op[i]) ->
         IF op[i] = "incr" THEN "again" ELSE "error"
    [] job.kind = "install" -> AfterMethod(i)
    [] OTHER -> IF HasFailed(op[i]) THEN "error" ELSE "refresh"

ReadLog ==
  /\ pc = "watched" /\ Live /\ Read /\ Goto(Judge(opId))
  /\ UNCHANGED <<device, box, watch, ids, job, polls>>

\* The id of the repeated command's operation.
RetryId_Old == opId
RetryId == mine'

\* The command again, with parallel-reload.
RetryAccepted ==
  /\ pc = "again" /\ Live /\ Read
  /\ StartOp("running") /\ BeginWatch /\ Goto("watch")
  /\ cmd' = "parallel" /\ opId' = RetryId
  /\ UNCHANGED <<box, stored, job, polls>>

\* Without "continue asynchronously" in its output, the output is searched for
\* a method.
RetryRefused ==
  /\ pc = "again" /\ Live /\ Read
  /\ \/ UNCHANGED device /\ Goto("error")
     \/ StartOp("failed") /\ Goto(AfterMethod(mine)')
  /\ cmd' = "parallel"
  /\ UNCHANGED <<box, watch, opId, stored, job, polls>>

-----------------------------------------------------------------------------
(* wait_for_reload.                                                        *)

ReloadPending ==
  /\ mine # NoOp /\ op[mine] \in Good /\ method[mine] = "reload"
  /\ router = "up" /\ job.kind = "install"

\* On a vty disconnect and reconnect, on the console ctx.reload without the
\* command; neither is guarded.
WaitReload ==
  /\ pc = "reload"
  /\ PromptReload => ~ReloadPending
  /\ unread' = {}
  /\ \/ router # "booting" /\ line' = TRUE /\ Goto("poll")
     \/ /\ router = "booting" \/ Faults # {} \/ job.console
        /\ line' = FALSE /\ Goto("raised")
  /\ UNCHANGED <<device, box, watch, ids, job, polls>>

\* validate_node_state on the CPU nodes of show platform.
NodesValid_AnyState == TRUE
NodesValid == nodes

PollTimeout ==
  /\ pc = "poll" /\ polls + 1 >= MaxPolls /\ Goto("error")
  /\ UNCHANGED <<device, box, session, watch, ids, job, polls>>

Poll ==
  /\ pc = "poll" /\ polls + 1 < MaxPolls /\ Live /\ Read
  /\ polls' = polls + 1
  /\ Goto(IF NodesValid THEN "refresh" ELSE "poll")
  /\ UNCHANGED <<device, box, watch, ids, job>>

-----------------------------------------------------------------------------
(* The end of run().                                                       *)

\* get_package and get_inventory.
Refresh ==
  /\ pc = "refresh" /\ Live /\ Read /\ Goto("returned")
  /\ UNCHANGED <<device, box, watch, ids, job, polls>>

\* ctx.error: disconnect, raise PluginError.
RaiseError ==
  /\ pc = "error" /\ line' = FALSE /\ unread' = {} /\ Goto("raised")
  /\ UNCHANGED <<device, box, watch, ids, job, polls>>

\* Outside the watch loops nothing catches what ctx.send raises.
Sends ==
  \/ pc \in {"command", "confirm", "watched", "again", "poll", "refresh"}
  \/ pc = "prep" /\ (PrepSends \/ Guesses)

SendFails ==
  /\ Sends /\ (Faults # {} \/ ~Live) /\ Goto("raised")
  /\ UNCHANGED <<device, box, session, watch, ids, job, polls>>

Plugin ==
  \/ Prepare \/ ExpectId \/ Accepted \/ FailsAtOnce \/ Refused
  \/ Asked \/ Confirm \/ DialogFails
  \/ WatchPrompt \/ WatchShow \/ WatchFault \/ WatchGiveUp \/ WatchReconnect
  \/ WatchWait \/ ReadLog \/ RetryAccepted \/ RetryRefused
  \/ WaitReload \/ PollTimeout \/ Poll \/ Refresh \/ RaiseError \/ SendFails

-----------------------------------------------------------------------------
(* The router and its other users.                                         *)

plugin == <<line, watch, ids, pc, job, polls>>

\* Ids kept for the plugin's command and its repetition.
Kept == IF mine = NoOp THEN 2 ELSE IF prior = NoOp THEN 1 ELSE 0

ForeignStart ==
  /\ Foreign /\ InProgress = {} /\ router # "booting" /\ ~ReloadPending
  /\ started + Kept < MaxOps
  /\ started' = started + 1
  /\ op' = [op EXCEPT ![started + 1] = "running"]
  /\ UNCHANGED <<method, mine, prior, pend, box, unread, plugin>>

Printed(i) == IF Live THEN unread \cup {i} ELSE unread

\* Only a success is announced in the text the watch waits for.  A plain
\* command may fail for want of a parallel installation.
OpEnds(i) ==
  /\ op[i] = "running" /\ ~(i = mine /\ pc = "confirm")
  /\ \E e \in Ends :
       /\ e = "incr" => cmd = "plain" /\ job.kind = "install"
       /\ op' = [op EXCEPT ![i] = e]
       /\ IF e # "success" THEN UNCHANGED <<pend, unread>>
          ELSE IF LateMessages THEN pend' = pend \cup {i} /\ UNCHANGED unread
          ELSE unread' = Printed(i) /\ UNCHANGED pend
  /\ UNCHANGED <<method, started, mine, prior, box, plugin>>

Show(i) ==
  /\ i \in pend
  /\ pend' = pend \ {i} /\ unread' = Printed(i)
  /\ UNCHANGED <<op, method, started, mine, prior, box, plugin>>

ReloadBegins ==
  /\ ReloadPending
  /\ router' = "booting" /\ nodes' = FALSE
  /\ line' = FALSE /\ unread' = {}
  /\ UNCHANGED <<device, watch, ids, pc, job, polls>>

BootDone ==
  /\ router = "booting" /\ router' = "back"
  /\ UNCHANGED <<nodes, device, unread, plugin>>

NodesUp ==
  /\ router = "back" /\ ~nodes /\ nodes' = TRUE
  /\ UNCHANGED <<router, device, unread, plugin>>

Router ==
  \/ ForeignStart
  \/ \E i \in Ops : OpEnds(i) \/ Show(i)
  \/ ReloadBegins \/ BootDone \/ NodesUp

\* run() is over.
Ended == pc \in {"returned", "raised"} /\ UNCHANGED vars

Next == Plugin \/ Router \/ Ended

\* As for eXR: the plugin runs on, every operation ends, and a reload that is
\* due begins and is survived.
Fairness ==
  /\ WF_vars(Plugin)
  /\ \A i \in Ops : WF_vars(OpEnds(i))
  /\ WF_vars(ReloadBegins) /\ WF_vars(BootDone)

Spec == Init /\ [][Next]_vars /\ Fairness

-----------------------------------------------------------------------------
(* Properties.                                                             *)

\* Types of the variables.  The id that install_remove_all expects may be one
\* the router never gives.
TypeOK ==
  /\ op \in [Ops -> {"none", "running"} \cup Outcomes]
  /\ method \in [Ops -> Methods]
  /\ started \in 0 .. MaxOps
  /\ mine \in Ops \cup {NoOp} /\ prior \in Ops \cup {NoOp}
  /\ pend \subseteq Ops /\ unread \subseteq Ops
  /\ router \in {"up", "booting", "back"} /\ nodes \in BOOLEAN
  /\ line \in BOOLEAN
  /\ pc \in PCs /\ job \in Jobs
  /\ cmd \in {"plain", "parallel"}
  /\ opId \in 0 .. MaxOps + 1 /\ stored \in Ops \cup {NoOp}
  /\ tried \in 0 .. (IF Guesses THEN MaxWaits + 1 ELSE 3)
  /\ finish \in BOOLEAN /\ seen \in BOOLEAN
  /\ polls \in 0 .. MaxPolls

\* watch_operation (ios_xr/install.py:50) is left only when the operation has
\* ended, however late completions are printed and however often the
\* connection is lost; install_remove_all's loop too.
WatchEndsAfterOp ==
  pc \in {"watched", "again"} => opId \in Ops /\ op[opId] \in Outcomes

\* The id that is watched, judged and stored is the one of the operation the
\* last command started: the refusals name no operation, and the repeated
\* command's id replaces the first one.
VerdictOnOwnOp ==
  ~Guesses /\ pc \in {"watch", "watchshow", "retry", "watched", "again"} =>
    opId = mine /\ stored \in {NoOp, mine}

\* run() returns only if the operation it judged did what was asked, if it is
\* the own one: a completion with failure only counts after the point of no
\* return, a failed operation only leads to a repetition.
PassedMeansInstalled ==
  pc \in {"reload", "poll", "refresh", "returned"} /\ opId # NoOp /\ opId = mine
    => op[mine] \in IF Guesses THEN {"success"} ELSE Good

\* The command is repeated at most once, and only when the first operation
\* failed for want of a parallel installation: nothing is installed twice.
RepeatedAfterFailure == prior # NoOp => op[prior] = "incr"

\* An Activate whose operation reloads the router returns only after the
\* router has booted and every CPU node is in a valid state.
ReturnsAfterBoot ==
  /\ pc = "returned" /\ job.kind = "install" /\ mine # NoOp
  /\ op[mine] \in Good /\ method[mine] = "reload"
  => router = "back" /\ nodes

\* The success condition of ios_xr/install.py:305-322: Remove All Inactive is
\* done when its operation has completed successfully.
RemovedAll == pc = "returned" /\ Guesses => mine # NoOp /\ op[mine] = "success"

\* What the theorems of XrInstall_proofs rest on, true in every reachable
\* state: ids are given in order, and only a success is ever announced; before
\* the command there is no operation; the id that is watched is one that was
\* given, and was seen to succeed if the loop says so; only Add stores an id;
\* the command is repeated after an "incr".
IdsInOrder ==
  /\ mine <= started /\ prior <= started
  /\ \A i \in Ops : op[i] = "none" <=> i > started
TextsTrue == \A i \in pend \cup unread : op[i] = "success"
NotYet ==
  pc \in {"prep", "command"} =>
    /\ mine = NoOp /\ prior = NoOp /\ stored = NoOp
    /\ IF Guesses /\ pc = "command" THEN opId \in 1 .. started + 1
                                    ELSE opId = NoOp
WatchesGiven ==
  /\ pc \in {"confirm", "watch", "watchshow", "retry", "watched", "again"}
       => opId \in 1 .. started
  /\ pc \in {"watch", "watchshow", "retry"} /\ finish => op[opId] \in Outcomes
OnlyAddStores == stored # NoOp => job.kind = "add"
AgainAfterIncr == pc = "again" => op[opId] = "incr" /\ job.kind = "install"

XInv ==
  /\ TypeOK /\ IdsInOrder /\ TextsTrue /\ NotYet /\ WatchesGiven
  /\ OnlyAddStores /\ AgainAfterIncr
  /\ WatchEndsAfterOp /\ VerdictOnOwnOp /\ RepeatedAfterFailure

\* The plugin comes to an end.
Terminates == <>(pc \in {"returned", "raised"})

=============================================================================
