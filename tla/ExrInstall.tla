----------------------------- MODULE ExrInstall -----------------------------
(***************************************************************************)
(* One install test case on an eXR router: the plugins of                  *)
(* csm_install_operations/exr and the helpers in exr/install.py they share *)
(* (watch_operation, wait_for_reload, the command-line state machine of    *)
(* install_activate_deactivate and its handlers, report_install_status,    *)
(* nextlevel_processing, process_save_data), against a router that runs    *)
(* install operations in the background, prints their completion on the    *)
(* terminal, reloads, and serves other users too.                          *)
(*                                                                         *)
(* The router is not part of the repository.  It is modelled from how the  *)
(* plugins use it and from the terminal transcripts in their docstrings:   *)
(*   - an XR and a sysadmin ("Admin") domain, each with at most one        *)
(*     install operation in progress ("Could not start this install        *)
(*     operation ...");                                                    *)
(*   - "show install request" answers for the domain the session is in;    *)
(*   - "Install operation N finished successfully" is printed on the       *)
(*     terminal by the operation itself, at a time of its own.             *)
(* Operation ids are unique over both domains, and a log is only shown in  *)
(* the domain of its operation.  Every ctx.send is one step, but for an    *)
(* "admin", a command and an "exit" sent in a row (nextlevel's AdminBash,  *)
(* save_package_names) and Extract's two exits; sleeps, progress messages  *)
(* and log texts are left out.                                             *)
(* A definition X_Word is X with a plausible bug; nothing uses it: it is   *)
(* there to show that the properties notice the bug.                       *)
(***************************************************************************)
EXTENDS Integers, Sequences

CONSTANTS
  Jobs,          \* the test cases that may be run, a set of Job
  Replies,       \* what the router may answer to an activate-like command
  Faults,        \* errors a send may raise although the router is up
  Foreign,       \* do other users start install operations?
  LateMessages,  \* may a completion be printed some time after the fact?
  AdminNests,    \* does "admin" nest when the session is in admin mode?
  PromptReload,  \* does a reload begin before wait_for_reload's first poll?
  MaxOps,        \* bound: install operations the router ever starts
  MaxPolls       \* polls of wait_for_reload: timeout / poll_time = 120

\* "add" stands for Add, Remove, Remove Inactive and Remove Inactive All,
\* "prepare" for Prepare and Deactivate: the same control.
AllKinds     == {"add", "activate", "prepare", "extract", "commit", "clean"}
FsmKinds     == {"activate", "prepare", "extract"}
PeekKinds    == {"commit", "clean"}
AllReplies   == {"background", "reboot", "aborted", "noimpact", "prompt",
                 "su", "notstart", "issu", "adminreload", "adminfailed"}
ReloadReplies == {"reboot", "issu"}
Outcomes     == {"running", "success", "aborted", "refused"}
Domains      == {"XR", "Admin"}

\* A test case as tc.json describes it.  accepts is its "pattern", the set of
\* outcomes it matches; level its "nextlevel" entries, in a sysadmin shell
\* (bash) and with a pattern (check) or not; saves, does it have "save_data";
\* console, is the session a console line?
Entry == [bash : BOOLEAN, check : BOOLEAN]
Job   == [kind : AllKinds, shell : Domains, accepts : SUBSET Outcomes,
          level : Seq(Entry), saves : BOOLEAN, console : BOOLEAN]
PCs          == {"enter", "command", "resolve", "confirm", "nextlevel",
                 "askid", "watch", "watchshow", "retry", "watched", "reload",
                 "pollswitch", "poll", "switch", "report", "tailadmin",
                 "tailswitch", "tail", "platform", "save", "leave", "error",
                 "crash", "returned", "raised"}

Ops  == 1 .. MaxOps
NoOp == 0               \* the code's -1: no operation id

ASSUME ExrAssumption ==
  /\ Jobs \subseteq Job
  /\ Replies \subseteq AllReplies
  /\ Faults \subseteq {"conn", "timeout"}
  /\ {Foreign, LateMessages, AdminNests, PromptReload} \subseteq BOOLEAN
  /\ MaxOps \in Nat \ {0}
  /\ MaxPolls \in Nat \ {0}

VARIABLES
  \* the router
  op,       \* state of each install operation, "none" before it starts
  dom,      \* the domain it runs in
  started,  \* how many were started, by anyone
  mine,     \* the one this test case's command started, or NoOp
  pend,     \* completions not printed yet
  router,   \* "up", "booting" (reload under way), "back" (booted again)
  nodes,    \* does show platform list every node in a valid state?
  \* the terminal session
  depth,    \* 0 none or logged out, 1 XR exec, 2 and more admin mode
  unread,   \* completions printed on the terminal and not read yet
  missed,   \* was the last tried "admin" passed over, to no effect?
  \* the plugin
  pc, job, reply, shown, opId, todo,
  tried,    \* watch_operation's time_tried
  finish,   \* watch_operation's finish
  fault,    \* the exception watch_operation is handling
  polls,    \* wait_for_reload's time_waited / poll_time
  verdict,  \* the test case's status in result.log
  saved     \* have the placeholders in tc.json been replaced?

device  == <<op, dom, started, mine, pend>>
box     == <<router, nodes>>
session == <<depth, unread, missed>>
watch   == <<tried, finish, fault, polls>>
result  == <<verdict, saved>>
input   == <<job, reply, shown>>
vars    == <<device, box, session, watch, result, input, pc, opId, todo>>

-----------------------------------------------------------------------------
(* The session.                                                            *)

Live == router # "booting" /\ depth >= 1
Here == IF depth >= 2 THEN "Admin" ELSE "XR"

\* Sending "admin" and "exit".
Enter(d) == IF d = 1 \/ AdminNests THEN d + 1 ELSE d
Exit(d)  == IF d > 0 THEN d - 1 ELSE 0

InAdminShell == job.shell = "Admin"
InProgress(d) == {i \in Ops : op[i] = "running" /\ dom[i] = d}

\* What the log of operation i, or the output of a refused command, shows.
Outcome(i) == IF i = NoOp THEN "refused" ELSE op[i]

\* What the plugin gets to see of it in the domain the session is in.
Logged(i) == IF i # NoOp /\ dom[i] # Here THEN "refused" ELSE Outcome(i)

Goto(l) == pc' = l

-----------------------------------------------------------------------------
Init ==
  /\ op = [i \in Ops |-> "none"] /\ dom = [i \in Ops |-> "XR"]
  /\ started = 0 /\ mine = NoOp /\ pend = {}
  /\ router = "up" /\ nodes = TRUE
  /\ depth = 1 /\ unread = {} /\ missed = FALSE
  /\ job \in Jobs
  /\ pc = IF job.shell = "Admin" THEN "enter" ELSE "command"
  /\ reply = "none" /\ shown = NoOp /\ opId = NoOp /\ todo = job.level
  /\ tried = 0 /\ finish = FALSE /\ fault = "none" /\ polls = 0
  /\ verdict = "Blocked" /\ saved = FALSE

-----------------------------------------------------------------------------
(* Issuing the install command.                                            *)

EnterAdmin ==
  /\ pc = "enter" /\ Live
  /\ depth' = Enter(depth) /\ unread' = {}
  /\ Goto("command")
  /\ UNCHANGED <<missed, device, box, watch, result, input, opId, todo>>

\* The router accepts the command as an operation in state st.
StartOp(st) ==
  /\ InProgress(Here) = {} /\ started < MaxOps
  /\ started' = started + 1
  /\ mine' = started + 1
  /\ op' = [op EXCEPT ![started + 1] = st]
  /\ dom' = [dom EXCEPT ![started + 1] = Here]
  /\ UNCHANGED pend

Read == unread' = {} /\ UNCHANGED <<depth, missed>>

\* report_install_status and each turn of wait_for_reload first try "admin"
\* in the Admin shell.
ReportAt_AsItIs == "report"
ReportAt == IF InAdminShell THEN "switch" ELSE "report"
PollAt   == IF InAdminShell THEN "pollswitch" ELSE "poll"

\* observe_install_add_remove when the output names no operation: in the
\* Admin shell it returns at once, else it reports the output.
NoIdGoto == IF job.kind = "add" /\ InAdminShell THEN "save" ELSE ReportAt

\* Only observe_install_add_remove processes nextlevel.
AfterId == IF job.kind = "add" THEN "nextlevel" ELSE "watch"

\* Add, Remove, Commit and Prepare Clean read the whole output of the command.
PlainAccepted ==
  /\ pc = "command" /\ job.kind \notin FsmKinds /\ Live
  /\ StartOp("running") /\ Read
  /\ \/ /\ reply' = "id" /\ opId' = mine'
        /\ Goto(AfterId)
     \/ /\ Here = "Admin"           \* sysadmin: "User admin, Op Id N"
        /\ reply' = "opid" /\ Goto(NoIdGoto)
        /\ UNCHANGED opId
  /\ UNCHANGED <<box, watch, result, job, shown, todo>>

PlainRefused ==
  /\ pc = "command" /\ job.kind \notin FsmKinds /\ Live
  /\ reply' = "noid" /\ Goto(NoIdGoto) /\ Read
  /\ UNCHANGED <<device, box, watch, result, job, shown, opId, todo>>

\* Refused because "Install operation N is still in progress": the expression
\* that looks for the id finds the one of the other operation.
PlainBusy ==
  /\ pc = "command" /\ job.kind \notin FsmKinds /\ Live
  /\ opId' \in InProgress(Here) /\ reply' = "busy"
  /\ Goto(AfterId) /\ Read
  /\ UNCHANGED <<device, box, watch, result, job, shown, todo>>

\* Activate, Deactivate, Prepare and Extract wait for the first text of
\* install_activate_deactivate's event list; "#" may come before the id.
FsmAccepted ==
  /\ pc = "command" /\ job.kind \in FsmKinds /\ Live
  /\ \E r \in Replies \ {"su", "notstart", "adminfailed"} :
       /\ reply' = r
       /\ StartOp(IF r = "aborted" THEN "aborted" ELSE "running")
       /\ shown' \in IF Here = "XR" /\ r \notin {"noimpact", "prompt"}
                       THEN {mine'} ELSE {mine', NoOp}
       /\ Goto(CASE r \in {"issu", "adminreload"} -> "confirm"
                 [] r = "aborted" -> "nextlevel"
                 [] OTHER -> "resolve")
  /\ Read
  /\ UNCHANGED <<box, watch, result, job, opId, todo>>

\* handle_not_start calls ctx.error before anything else; handle_op_after_su
\* and handle_admin_op_failure report the text that matched.
FsmRefused ==
  /\ pc = "command" /\ job.kind \in FsmKinds /\ Live
  /\ \E r \in Replies \cap {"prompt", "su", "notstart", "adminfailed"} :
       /\ r = "notstart" => InProgress(Here) # {}
       /\ reply' = r
       /\ Goto(CASE r = "notstart" -> "error"
                 [] r = "prompt"   -> "resolve"
                 [] OTHER          -> "nextlevel")
  /\ Read
  /\ UNCHANGED <<device, box, watch, result, job, shown, opId, todo>>

\* get_op_id: the id in the output, else whatever operation is in progress
\* where the session is, if "show install request" prints it recognisably.
OpIdOf(out) == IF out # NoOp THEN {out} ELSE InProgress(Here) \cup {NoOp}

Resolve ==
  /\ pc = "resolve"
  /\ shown = NoOp => Live
  /\ opId' \in OpIdOf(shown)
  /\ Goto(CASE opId' = NoOp /\ reply = "reboot" -> "error"  \* returns False
            [] reply = "aborted" -> ReportAt
            [] OTHER -> "nextlevel")
  /\ IF shown = NoOp THEN Read ELSE UNCHANGED session
  /\ UNCHANGED <<device, box, watch, result, input, todo>>

\* handle_issu_reload and handle_admin_reload answer "yes" ...
Confirm ==
  /\ pc = "confirm" /\ Live /\ Read
  /\ Goto(IF reply = "issu" THEN "nextlevel" ELSE "askid")
  /\ UNCHANGED <<device, box, watch, result, input, opId, todo>>

\* ... and then poll "show install request" until it names an operation.
AskId ==
  /\ pc = "askid" /\ Live /\ Read
  /\ opId' \in InProgress(Here) /\ Goto("watch")
  /\ UNCHANGED <<device, box, watch, result, input, todo>>

-----------------------------------------------------------------------------
(* nextlevel_processing: the commands to run while the operation goes on.  *)

\* An AdminBash entry is bracketed by "admin" and "exit".
LevelDepth_NoExit(e, d) == IF e.bash THEN Enter(d) ELSE d
LevelDepth(e, d) == IF e.bash THEN Exit(Enter(d)) ELSE d

\* Every report_log(FALSE) is followed by ctx.error, which raises.
AfterFailed_NoRaise == IF job.kind = "add" THEN "save" ELSE "leave"
AfterFailed == "error"

NextLevelEntry ==
  /\ pc = "nextlevel" /\ todo # <<>> /\ Live
  /\ todo' = Tail(todo)
  /\ depth' = LevelDepth(Head(todo), depth) /\ unread' = {}
  /\ \/ ~Head(todo).check /\ UNCHANGED <<pc, verdict>>
     \/ Head(todo).check /\ verdict' = "Passed" /\ UNCHANGED pc
     \/ Head(todo).check /\ verdict' = "Failed" /\ Goto(AfterFailed)
  /\ UNCHANGED <<missed, device, box, watch, saved, input, opId>>

AfterLevel_NoId ==
  CASE reply = "issu" -> "askid"
    [] reply = "aborted" -> "resolve"
    [] reply = "noimpact" -> ReportAt
    [] opId = NoOp -> "leave"
    [] OTHER -> "watch"
AfterLevel ==
  CASE reply = "issu" -> "askid"
    [] reply = "aborted" -> "resolve"
    [] reply = "noimpact" \/ opId = NoOp -> ReportAt
    [] OTHER -> "watch"

NextLevelDone ==
  /\ pc = "nextlevel" /\ todo = <<>> /\ Goto(AfterLevel)
  /\ UNCHANGED <<device, box, session, watch, result, input, opId, todo>>

-----------------------------------------------------------------------------
(* watch_operation.                                                        *)

\* The regular expression "Install operation N completed|finished
\* successfully": its second alternative names no operation.
SuccessMatches(i) == i \in Ops

\* ctx.send("", wait_for_string=success): the text is there, or is not
\* printed within 20 seconds (a CommandTimeoutError, passed over).
WatchPrompt ==
  /\ pc = "watch"
  /\ \/ /\ Live /\ \E i \in unread : SuccessMatches(i)
        /\ finish' = TRUE /\ Read
     \/ /\ Live \/ job.console
        /\ ~\E i \in unread : SuccessMatches(i)
        /\ UNCHANGED <<finish, session>>
  /\ Goto("watchshow")
  /\ UNCHANGED <<device, box, tried, fault, polls, result, input, opId, todo>>

\* "show install request": over when the text was seen, or when no install
\* operation is in progress.
WatchShow ==
  /\ pc = "watchshow" /\ Live /\ Read
  /\ Goto(IF finish \/ InProgress(Here) = {} THEN "watched" ELSE "watch")
  /\ UNCHANGED <<device, box, watch, result, input, opId, todo>>

\* Either send may raise.  A dead console line times out, a dead vty closes.
WatchFault ==
  /\ pc \in {"watch", "watchshow"}
  /\ \E f \in Faults \cup (IF Live THEN {}
                           ELSE {IF job.console THEN "timeout" ELSE "conn"}) :
       /\ f = "timeout" => pc = "watchshow"
       /\ fault' = f
  /\ Goto("retry")
  /\ UNCHANGED <<device, box, session, tried, finish, polls, result, input,
                 opId, todo>>

\* The fourth exception is raised; time_tried is never reset.
OutOfRetries_OneMore == tried > 3
OutOfRetries == tried > 2

\* The reload handlers pass over a CommandTimeoutError: "The device already
\* started the reload".
Swallowed == fault = "timeout" /\ reply \in ReloadReplies \cup {"adminreload"}

WatchGiveUp ==
  /\ pc = "retry" /\ OutOfRetries
  /\ Goto(IF ~Swallowed THEN "raised"
          ELSE IF reply = "adminreload" THEN ReportAt ELSE "reload")
  /\ UNCHANGED <<device, box, session, watch, result, input, opId, todo>>

\* time_tried += 1
CountRetry_Forgotten == UNCHANGED tried
CountRetry == tried' = tried + 1

\* The loop goes on unless the text was seen before the exception.
AfterReconnect_Break == "watched"
AfterReconnect == IF finish THEN "watched" ELSE "watch"

\* disconnect and reconnect: a new session, in XR exec.  An error raised by
\* the reconnect is not caught.
WatchReconnect ==
  /\ pc = "retry" /\ ~OutOfRetries
  /\ CountRetry
  /\ unread' = {}
  /\ \/ /\ router # "booting"
        /\ depth' = 1 /\ Goto(AfterReconnect)
     \/ /\ router = "booting" \/ Faults # {}
        /\ depth' = 0 /\ Goto("raised")
  /\ UNCHANGED <<missed, device, box, finish, fault, polls, result, input, opId, todo>>

Watched ==
  /\ pc = "watched" /\ job.kind \notin PeekKinds
  /\ Goto(IF reply \in ReloadReplies THEN "reload" ELSE ReportAt)
  /\ UNCHANGED <<device, box, session, watch, result, input, opId, todo>>

\* Commit and Prepare Clean first look whether the log says aborted or failed.
Peek ==
  /\ pc = "watched" /\ job.kind \in PeekKinds /\ Live /\ Read
  /\ reply' = IF Logged(opId) = "aborted" THEN "failed" ELSE reply
  /\ Goto(ReportAt)
  /\ UNCHANGED <<device, box, watch, result, job, shown, opId, todo>>

-----------------------------------------------------------------------------
(* wait_for_reload.                                                        *)

\* The reload of this test case's operation is due but has not begun.
ReloadPending ==
  mine # NoOp /\ Outcome(mine) = "success" /\ router = "up"
    /\ reply \in ReloadReplies \cup {"adminreload"}

\* On a vty a failing reconnect is raised; on the console every error of
\* ctx.reload, disconnect and connect is passed over.
WaitReload ==
  /\ pc = "reload"
  /\ PromptReload => ~ReloadPending
  /\ unread' = {}
  /\ \/ router # "booting" /\ depth' = 1 /\ Goto(PollAt)
     \/ /\ router = "booting" \/ Faults # {}
        /\ depth' = 0
        /\ Goto(IF job.console THEN PollAt ELSE "raised")
  /\ UNCHANGED <<missed, device, box, watch, result, input, opId, todo>>

\* validate_node_state on the output of show platform.
NodesValid_AnyState == TRUE
NodesValid == nodes

\* time_waited < timeout
InTime == polls + 1 < MaxPolls

PollTimeout ==
  /\ pc = PollAt /\ ~InTime
  /\ verdict' = "Failed" /\ Goto(AfterFailed)
  /\ UNCHANGED <<device, box, session, watch, saved, input, opId, todo>>

Poll ==
  /\ pc = "poll" /\ InTime /\ Live
  /\ polls' = polls + 1 /\ Read
  /\ Goto(IF NodesValid THEN ReportAt ELSE PollAt)
  /\ UNCHANGED <<device, box, tried, finish, fault, result, input, opId, todo>>

-----------------------------------------------------------------------------
(* The verdict: report_install_status, and what follows it.                *)

\* The "admin" that report_install_status, wait_for_reload and
\* handle_admin_reload send in try/except: pass, and where they go on
\* whether it succeeded or not.
Switches == [switch |-> "report", pollswitch |-> "poll",
             tailadmin |-> "tailswitch", tailswitch |-> "tail"]

\* After a timeout the router may be in admin mode or not; after a connection
\* error the session is closed.
SwitchMode ==
  /\ pc \in DOMAIN Switches
  /\ pc = "pollswitch" => InTime
  /\ \/ Live /\ depth' = Enter(depth)
     \/ Live /\ "timeout" \in Faults /\ UNCHANGED depth
     \/ "conn" \in Faults /\ depth' = 0
     \/ ~Live /\ UNCHANGED depth
  /\ missed' = ~(Live /\ depth' = Enter(depth))
  /\ unread' = {} /\ Goto(Switches[pc])
  /\ UNCHANGED <<device, box, watch, result, input, opId, todo>>

\* match_pattern(ctx.pattern, show install log N)
Matched_StillRunning == Logged(opId) \in job.accepts \cup {"running"}
Matched == Logged(opId) \in job.accepts

\* prepare_clean leaves without process_save_data when the log says aborted or
\* failed, or when there is no id.
SkipsSave == job.kind = "clean" /\ reply \in {"opid", "noid", "failed"}

\* observe_install_add_remove ends an id-less report with self.ctx, a
\* NameError.
AfterReport ==
  CASE job.kind = "add" /\ opId = NoOp -> "crash"
    [] reply = "adminreload" -> IF InAdminShell THEN "tailadmin" ELSE "tail"
    [] job.kind \in {"activate", "commit"} \/ SkipsSave -> "leave"
    [] OTHER -> "save"

Verdict == IF Matched THEN "Passed" ELSE "Failed"

\* handle_aborted passes report_install_status an id only.
NothingToReport == reply = "aborted" /\ opId = NoOp

ReportStatus ==
  /\ pc = "report" /\ ~NothingToReport
  /\ verdict' = Verdict
  /\ Goto(IF Matched THEN AfterReport ELSE AfterFailed)
  /\ IF opId = NoOp THEN UNCHANGED session ELSE Live /\ Read
  /\ UNCHANGED <<device, box, watch, saved, input, opId, todo>>

\* With neither id nor output, matching None is a TypeError, before report_log
\* if there is a pattern, in log_install_errors otherwise.
ReportNothing ==
  /\ pc = "report" /\ NothingToReport
  /\ verdict' = IF job.accepts = Outcomes THEN "Passed" ELSE verdict
  /\ Goto("crash")
  /\ UNCHANGED <<device, box, session, watch, saved, input, opId, todo>>

\* handle_admin_reload reports again ...
AdminReloadTail ==
  /\ pc = "tail" /\ Live /\ Read
  /\ verdict' = Verdict
  /\ Goto(IF Matched THEN "platform" ELSE AfterFailed)
  /\ UNCHANGED <<device, box, watch, saved, input, opId, todo>>

\* ... and then uses names that do not exist (NameError) if show platform
\* lists every node in a valid state, else returns False.
AdminPlatform ==
  /\ pc = "platform" /\ Live /\ Read
  /\ pc' \in {"crash", "error"}
  /\ UNCHANGED <<device, box, watch, result, input, opId, todo>>

\* process_save_data: save_package_names (only when ctx.operation_id exists),
\* then the placeholders of tc.json.  Saving an operation_id that does not
\* exist is an AttributeError.
SaveDepth(d) == IF InAdminShell /\ opId # NoOp THEN Exit(Enter(d)) ELSE d

SaveData ==
  /\ pc = "save"
  /\ opId # NoOp => Live
  /\ depth' = SaveDepth(depth) /\ unread' = {}
  /\ IF job.saves /\ opId = NoOp
       THEN Goto("raised") /\ UNCHANGED saved
       ELSE Goto("leave") /\ saved' = job.saves
  /\ UNCHANGED <<missed, device, box, watch, verdict, input, opId, todo>>

\* run() ends with "exit" in the Admin shell; Extract sends one more.
Exits == (IF InAdminShell THEN 1 ELSE 0) + (IF job.kind = "extract" THEN 1 ELSE 0)

\* "exit" in XR exec logs the session out: no prompt comes back.
Leave ==
  /\ pc = "leave"
  /\ Exits > 0 => Live
  /\ depth' = IF Exits > depth THEN 0 ELSE depth - Exits
  /\ unread' = {}
  /\ pc' \in IF depth' = 0 THEN {"returned", "raised"} ELSE {"returned"}
  /\ UNCHANGED <<missed, device, box, watch, result, input, opId, todo>>

\* ctx.error: exit, disconnect, raise PluginError.
RaiseError ==
  /\ pc = "error" /\ depth' = 0 /\ unread' = {} /\ Goto("raised")
  /\ UNCHANGED <<missed, device, box, watch, result, input, opId, todo>>

\* An exception of Python's own (NameError, TypeError) after a report.
RaiseCrash ==
  /\ pc = "crash" /\ Goto("raised")
  /\ UNCHANGED <<device, box, session, watch, result, input, opId, todo>>

\* What ctx.send raises is caught in watch_operation, in wait_for_reload's
\* reconnection on the console, and around the "admin"s of SwitchMode;
\* everywhere else it ends run().
Sends ==
  \/ pc \in {"enter", "command", "confirm", "askid", "tail", "platform"}
  \/ pc = "poll" /\ InTime
  \/ pc = "resolve" /\ shown = NoOp
  \/ pc = "nextlevel" /\ todo # <<>>
  \/ pc = "watched" /\ job.kind \in PeekKinds
  \/ pc \in {"report", "save"} /\ opId # NoOp
  \/ pc = "leave" /\ Exits > 0

SendFails ==
  /\ Sends
  /\ Faults # {} \/ ~Live
  /\ Goto("raised")
  /\ UNCHANGED <<device, box, session, watch, result, input, opId, todo>>

Plugin ==
  \/ EnterAdmin \/ PlainAccepted \/ PlainRefused \/ PlainBusy
  \/ FsmAccepted \/ FsmRefused
  \/ Resolve \/ Confirm \/ AskId \/ NextLevelEntry \/ NextLevelDone
  \/ WatchPrompt \/ WatchShow \/ WatchFault \/ WatchGiveUp \/ WatchReconnect
  \/ Watched \/ Peek \/ WaitReload \/ PollTimeout \/ Poll
  \/ SwitchMode \/ ReportStatus \/ ReportNothing
  \/ AdminReloadTail \/ AdminPlatform \/ SaveData \/ Leave
  \/ RaiseError \/ RaiseCrash \/ SendFails

-----------------------------------------------------------------------------
(* The router and its other users.                                         *)

plugin == <<depth, missed, watch, result, input, pc, opId, todo>>

\* Another user starts an operation.  One id is kept for the test case.
ForeignStart(d) ==
  /\ Foreign /\ InProgress(d) = {} /\ router # "booting"
  /\ started + (IF mine = NoOp THEN 1 ELSE 0) < MaxOps
  /\ started' = started + 1
  /\ op' = [op EXCEPT ![started + 1] = "running"]
  /\ dom' = [dom EXCEPT ![started + 1] = d]
  /\ UNCHANGED <<mine, pend, box, unread, plugin>>

\* A completion reaches the terminal of the session in its domain.
Printed(i) == IF Live /\ Here = dom[i] THEN unread \cup {i} ELSE unread

OpAborts(i) ==
  /\ op[i] = "running"
  /\ op' = [op EXCEPT ![i] = "aborted"]
  /\ UNCHANGED <<dom, started, mine, pend, box, unread, plugin>>

OpSucceeds(i) ==
  /\ op[i] = "running"
  /\ ~(i = mine /\ pc = "confirm")     \* it waits for the "yes"
  /\ op' = [op EXCEPT ![i] = "success"]
  /\ IF LateMessages THEN pend' = pend \cup {i} /\ UNCHANGED unread
                     ELSE unread' = Printed(i) /\ UNCHANGED pend
  /\ UNCHANGED <<dom, started, mine, box, plugin>>

Show(i) ==
  /\ i \in pend
  /\ pend' = pend \ {i} /\ unread' = Printed(i)
  /\ UNCHANGED <<op, dom, started, mine, box, plugin>>

ReloadBegins ==
  /\ ReloadPending
  /\ router' = "booting" /\ nodes' = FALSE
  /\ depth' = 0 /\ unread' = {}
  /\ UNCHANGED <<missed, device, watch, result, input, pc, opId, todo>>

BootDone ==
  /\ router = "booting" /\ router' = "back"
  /\ UNCHANGED <<nodes, device, unread, plugin>>

\* The last node comes up; a broken line card may never do.
NodesUp ==
  /\ router = "back" /\ ~nodes /\ nodes' = TRUE
  /\ UNCHANGED <<router, device, unread, plugin>>

OpEnds(i) == OpAborts(i) \/ OpSucceeds(i)

Router ==
  \/ \E d \in Domains : ForeignStart(d)
  \/ \E i \in Ops : OpEnds(i) \/ Show(i)
  \/ ReloadBegins \/ BootDone \/ NodesUp

\* The test case is over.
Ended == pc \in {"returned", "raised"} /\ UNCHANGED vars

Next == Plugin \/ Router \/ Ended

\* The plugin runs on, every operation ends, and a reload that is due begins
\* and is survived.  Nothing makes the nodes come up.
Fairness ==
  /\ WF_vars(Plugin)
  /\ \A i \in Ops : WF_vars(OpEnds(i))
  /\ WF_vars(ReloadBegins) /\ WF_vars(BootDone)

Spec == Init /\ [][Next]_vars /\ Fairness

-----------------------------------------------------------------------------
(* Properties.                                                             *)

\* Types of the variables; the session depth and the poll count are bounded
\* by the code, not here.
TypeOK ==
  /\ op \in [Ops -> {"none", "running", "success", "aborted"}]
  /\ dom \in [Ops -> Domains]
  /\ started \in 0 .. MaxOps /\ mine \in Ops \cup {NoOp}
  /\ pend \subseteq Ops /\ unread \subseteq Ops
  /\ router \in {"up", "booting", "back"} /\ nodes \in BOOLEAN
  /\ depth \in Nat /\ missed \in BOOLEAN
  /\ pc \in PCs
  /\ job \in Jobs
  /\ reply \in AllReplies \cup {"none", "id", "opid", "noid", "busy", "failed"}
  /\ shown \in Ops \cup {NoOp} /\ opId \in Ops \cup {NoOp}
  /\ todo \in Seq(Entry)
  /\ tried \in 0 .. 3 /\ finish \in BOOLEAN
  /\ fault \in {"none", "conn", "timeout"}
  /\ polls \in 0 .. MaxPolls
  /\ verdict \in {"Blocked", "Passed", "Failed"} /\ saved \in BOOLEAN

\* watch_operation's docstring (exr/install.py:88-90): it is done upon
\* completion of the operation it watches.
WatchEndsAfterOp == pc = "watched" => Outcome(opId) # "running"

\* In the Admin shell an AdminBash entry of nextlevel leaves admin mode.
BashLeaves ==
  InAdminShell /\ ~AdminNests /\ \E k \in DOMAIN job.level : job.level[k].bash

\* get_op_id and the reload handlers take for their own whatever operation
\* "show install request" names (exr/install.py:362-369, 493-495, 517-520).
\* It may be another user's, but not while their own operation is running.
OwnWhileRunning ==
  Outcome(mine) = "running" /\ ~BashLeaves => opId \in {NoOp, mine}

\* Once report_install_status has passed the test case, the operation it
\* looked at stays one the pattern accepts: nothing that happens later to
\* the operation can make the recorded "Passed" wrong.
PassedStaysTrue ==
  pc \in {"save", "leave", "returned"} /\ opId # NoOp
    => verdict = "Passed" /\ Outcome(opId) \in job.accepts

\* A later test case only gets the id of an operation through tc.json if the
\* test case that saved it was recorded as passed.
SavedWasPassed == saved => verdict = "Passed" /\ opId # NoOp

\* run() returns only with a verdict: the status "Blocked" ("Not Run",
\* __main__.py:352) stays only on test cases that were not run.
ReturnReports == pc = "returned" => verdict # "Blocked"

\* save_package_names leaves admin mode before run() sends its "exit", and
\* Extract sends one "exit" more.
SavesNames ==
  InAdminShell /\ opId # NoOp /\ job.kind \notin {"activate", "commit"} /\ ~SkipsSave
ExitsTwice == SavesNames \/ job.kind = "extract"

\* The last "exit" of run() leaves admin mode (exr/add.py:134, "Exiting from
\* admin mode"): the session ends in XR exec, also after reconnections
\* that have left admin mode before, and it is logged out only where one
\* "exit" is sent too many, if neither a reload has closed it nor the last
\* "admin" has been passed over.
LeavesAtExec ==
  [][pc # "returned" /\ pc' = "returned" /\ router = "up" /\ ~missed
       => depth' = IF ExitsTwice THEN 0 ELSE 1]_vars

\* A test case whose operation succeeded and reloads the router returns only
\* after the router has booted again and every node is valid.
ReturnsAfterBoot ==
  pc = "returned" /\ reply \in ReloadReplies /\ Outcome(mine) = "success"
    => router = "back" /\ nodes

\* Whatever the router and the connection do, the plugin comes to an end.
Terminates == <>(pc \in {"returned", "raised"})

\* What the theorems of ExrInstall_proofs rest on, true in every reachable
\* state: an operation that was not started has no state, and only the id of
\* one that was is known, none before the command is sent; a "Failed" is only
\* seen on the way to an exception, and only an Add in the Admin shell that
\* got no id goes on to its end without a "Passed"; the placeholders are
\* saved at the very end.
FreshOps   == \A i \in Ops : i > started => op[i] = "none"
IdsStarted == \A i \in {mine, shown, opId} : Outcome(i) # "none"
NoIdYet    == pc \in {"enter", "command"} => opId = NoOp
NoVerdict  == job.kind = "add" /\ InAdminShell /\ opId = NoOp
VerdictFollowsReport ==
  /\ verdict = "Failed" => pc \in {"error", "raised"}
  /\ pc \in {"save", "leave", "returned"} => verdict = "Passed" \/ NoVerdict
SavedAtEnd ==
  saved => pc \in {"leave", "returned", "raised"} /\ opId # NoOp /\ verdict = "Passed"

IInv == TypeOK /\ FreshOps /\ IdsStarted /\ NoIdYet /\ VerdictFollowsReport /\ SavedAtEnd

\* What the suite runner relies on.
Promise == INSTANCE TestCase
  WITH phase <- IF pc \in {"returned", "raised"} THEN pc ELSE "running"
ImplementsTestCase == Promise!Spec

=============================================================================
