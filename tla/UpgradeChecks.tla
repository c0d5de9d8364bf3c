--------------------------- MODULE UpgradeChecks ---------------------------
(***************************************************************************)
(* Which plugins csm_pm.py runs for a phase, and what the checks among     *)
(* them mean for an upgrade: the node, redundancy, ISIS, filesystem,       *)
(* configuration and log checks of core_plugins, with the storage of       *)
(* context.py that carries the ISIS neighbors from Pre-Upgrade to          *)
(* Post-Upgrade.  An operator requests phases on one router, in any order. *)
(*                                                                         *)
(* A plugin is one step: the router may change between any two of them, so *)
(* whatever a check finds is a choice of that step.  The names of the      *)
(* entry points are random (setup.py), so the order of plugins is open.    *)
(* A definition X_Word is X with a plausible bug.                          *)
(***************************************************************************)
EXTENDS Integers, FiniteSets

CONSTANTS
  Hosts,      \* routers, and where their jobs are run
  Instances,  \* ISIS instances
  Counts,     \* numbers of neighbors of an instance
  Names,      \* what a job may name: a plugin, or Unknown for all
  MaxJobs     \* bound: jobs

\* An empty set of platforms or operating systems, or an unknown one of the
\* router, is no restriction.
Unknown == "unknown"
XRs     == {"ASR9K", "CRS", "NCS", "IOS-XRv"}
X64     == {"ASR9K", "NCS", "IOS-XRv"}
Fams    == XRs \cup {"ASR900", "N6K"}
Systems == {"XR", "eXR", "XE", "IOS"}
Upgrade == {"Pre-Upgrade", "Post-Upgrade"}

\* The class of a plugin, and how its run() may end: "fine", in a return that
\* has found nothing wrong; "warn", in one that says nothing; or "fail".
P(name, platforms, os, phases, may) ==
  [name |-> name, platforms |-> platforms, os |-> os, phases |-> phases, may |-> may]

NodesXR  == P("nodes", {"ASR9K", "CRS"}, {"XR"}, Upgrade, {"fine", "fail"})
\* parse_show_platform is called without the context it asks for.
NodesX64 == P("nodes", X64, {"eXR"}, Upgrade, {"fail"})
NodesXE  == P("nodes", {"ASR900"}, {}, Upgrade, {"fine", "fail"})
\* A standby that is not mentioned is no error.
RedundancyXR ==
  P("redundancy", {"ASR9K", "CRS"}, {}, {"Pre-Upgrade", "Pre-Activate"}, {"fine", "fail"})
\* A redundancy that has not reached SSO is only a warning.
RedundancyXE == P("redundancy", {"ASR900"}, {}, Upgrade, {"fine", "warn", "fail"})
ConfigFs     == P("cfs", XRs, {}, {"Pre-Upgrade", "Pre-Activate", "Pre-Deactivate"},
                  {"fine", "fail"})
CoreErrors   == P("core", XRs, {}, {"Post-Upgrade"}, {"fine", "warn", "fail"})
FailedConfig == P("startup", XRs, {}, {"Post-Activate", "Post-Upgrade"},
                  {"fine", "warn", "fail"})
Writable     == P("rw", {"ASR9K", "CRS"}, {"XR"}, {"Pre-Upgrade"}, {"fine", "fail"})
DiskSpace    == P("space", {"ASR9K", "CRS"}, {"XR"}, {"Pre-Add"}, {"fine", "fail"})
Capture      == P("capture", Fams, {}, Upgrade, {"fine", "fail"})
Commands     == P("commands", Fams, {}, Upgrade, {"fine", "fail"})
Isis         == P("isis", XRs, {}, Upgrade, {})

\* A plugin named after its phase, for each system that has one.
Variants(phase, platforms, systems) ==
  {P(phase, platforms, {os}, {phase}, {"fine", "fail"}) : os \in systems}
Installs ==
  (UNION {Variants(phase, {"ASR9K", "CRS"}, {"XR"}) \cup Variants(phase, X64, {"eXR"}) :
            phase \in {"Add", "Activate", "Deactivate", "Commit", "Remove"}})
  \cup (UNION {Variants(phase, {"ASR900"}, {"XE", "IOS"}) :
                 phase \in {"Add", "Activate", "Remove"}})
  \cup Variants("Remove All Inactive", {"ASR9K", "CRS"}, {"XR"})
  \cup {P(name, X64, {"eXR"}, {"Remove All Inactive"}, {"fine", "fail"}) :
           name \in {"remove inactive", "remove inactive all"}}
  \cup {P(name, X64, {"eXR"}, {"Pre-Activate"}, {"fine", "fail"}) :
           name \in {"extract", "prepare", "prepare clean"}}
  \cup {P("plan", {"ASR900"}, {"XE"}, {"Pre-Activate"}, {"fine", "warn", "fail"})}

Registry ==
  {NodesXR, NodesX64, NodesXE, RedundancyXR, RedundancyXE, ConfigFs, CoreErrors,
   FailedConfig, Writable, DiskSpace, Capture, Commands, Isis} \cup Installs
PluginNames == {p.name : p \in Registry}

\* auto_pre_phases.
AutoPre == [Add |-> "Pre-Add", Activate |-> "Pre-Activate", Deactivate |-> "Pre-Deactivate"]

\* What "show isis neighbor summary" shows; NoLook: nothing the plugin can read.
Gone   == -1
Looks  == [Instances -> Counts \cup {Gone}]
NoLook == [i \in Instances |-> -2]
Active(look) == {i \in Instances : look[i] \in Counts}

\* server: does the storage outlive a job, and answer nothing for a missing key?
\* ftp: are there packages, and a repository the space check can ask?
Host == [platform : Fams \cup {"other", Unknown}, os : Systems \cup {Unknown},
         server : BOOLEAN]
Job  == [phase : Upgrade \cup DOMAIN AutoPre \cup {"Commit", "Remove", "Remove All Inactive"},
         name : Names, ftp : BOOLEAN]

ASSUME ChecksAssumption ==
  /\ Hosts \subseteq Host /\ Unknown \in Names /\ Names \subseteq PluginNames \cup {Unknown}
  /\ Counts \subseteq Nat /\ MaxJobs \in Nat \ {0}

VARIABLES
  host, job, jobs,
  pc,
  todo,    \* plugins that the map under way has not reached
  fine,    \* names of those of this job that have found nothing wrong
  saved,   \* isis_neighbors in the storage
  before,  \* what the last Pre-Upgrade saw
  after,   \* what this job saw
  warned   \* instances this job has warned of

vars == <<host, job, jobs, pc, todo, fine, saved, before, after, warned>>

Over == {"idle", "returned", "raised"}

-----------------------------------------------------------------------------
(* The plugin manager.                                                     *)

Matches_AnyOs(p) ==
  host.platform = Unknown \/ p.platforms = {} \/ host.platform \in p.platforms
\* _filter_func without phase and name, as the plugins are loaded.
Matches(p) ==
  /\ host.platform = Unknown \/ p.platforms = {} \/ host.platform \in p.platforms
  /\ host.os = Unknown \/ p.os = {} \/ host.os \in p.os
Loaded == {p \in Registry : Matches(p)}

Selected(phase, name) ==
  {p \in Loaded : phase \in p.phases /\ (name = Unknown \/ p.name = name)}

Init ==
  /\ host \in Hosts /\ jobs = 0 /\ pc = "idle" /\ todo = {} /\ fine = {} /\ warned = {}
  /\ job = [phase |-> "Pre-Upgrade", name |-> Unknown, ftp |-> FALSE]
  /\ saved = NoLook /\ before = NoLook /\ after = NoLook

\* dispatch, with the Pre- plugins first; the storage of the command line is
\* that of a process, which is one job.
Start ==
  /\ pc \in Over /\ jobs < MaxJobs /\ jobs' = jobs + 1
  /\ \E j \in Job :
       /\ job' = j
       /\ IF j.phase \in DOMAIN AutoPre
          THEN pc' = "pre" /\ todo' = Selected(AutoPre[j.phase], j.name)
          ELSE pc' = "main" /\ todo' = Selected(j.phase, j.name)
       /\ before' = IF j.phase = "Pre-Upgrade" THEN NoLook ELSE before
  /\ fine' = {} /\ warned' = {} /\ after' = NoLook
  /\ saved' = IF host.server THEN saved ELSE NoLook
  /\ UNCHANGED host

PreDone ==
  /\ pc = "pre" /\ todo = {} /\ Loaded # {}
  /\ pc' = "main" /\ todo' = Selected(job.phase, job.name)
  /\ UNCHANGED <<host, job, jobs, fine, saved, before, after, warned>>

Raise == pc' = "raised" /\ todo' = {}

\* NoMatches is only raised when nothing was loaded: a phase for which none of
\* the loaded plugins is meant succeeds.
NoPlugins ==
  /\ pc \in {"pre", "main"} /\ Loaded = {} /\ Raise
  /\ UNCHANGED <<host, job, jobs, fine, saved, before, after, warned>>

Done ==
  /\ pc = "main" /\ todo = {} /\ Loaded # {} /\ pc' = "returned"
  /\ UNCHANGED <<host, job, jobs, todo, fine, saved, before, after, warned>>

-----------------------------------------------------------------------------
(* The plugins.                                                            *)

\* The space check passes over other repositories than tftp and ftp; the shell of
\* the commands is not known on the command line.
Outcomes(p) ==
  IF p = DiskSpace /\ ~job.ftp THEN {"warn", "fail"}
  ELSE IF p = Commands /\ ~host.server THEN {"fail"}
  ELSE p.may

Returns ==
  \E p \in todo : \E how \in Outcomes(p) \ {"fail"} :
    /\ todo' = todo \ {p}
    /\ fine' = IF how = "fine" THEN fine \cup {p.name} ELSE fine
    /\ UNCHANGED <<host, job, jobs, pc, saved, before, after, warned>>

Fails_GoesOn ==
  \E p \in todo :
    /\ "fail" \in Outcomes(p) \/ p = Isis
    /\ todo' = todo \ {p}
    /\ UNCHANGED <<host, job, jobs, pc, fine, saved, before, after, warned>>
\* ctx.error, or any exception: map_method lets it through, and the job is over.
Fails ==
  \E p \in todo :
    /\ "fail" \in Outcomes(p) \/ p = Isis
    /\ Raise
    /\ UNCHANGED <<host, job, jobs, fine, saved, before, after, warned>>

\* No such command, as when the ISIS package is not installed, or no output.
IsisUnreadable ==
  /\ Isis \in todo /\ todo' = todo \ {Isis}
  /\ UNCHANGED <<host, job, jobs, pc, fine, saved, before, after, warned>>

\* Saved only if there is an instance: else older data stays.
IsisBefore ==
  /\ Isis \in todo /\ job.phase = "Pre-Upgrade" /\ todo' = todo \ {Isis}
  /\ \E look \in Looks :
       /\ saved' = IF Active(look) # {} THEN look ELSE saved
       /\ before' = look
  /\ UNCHANGED <<host, job, jobs, pc, fine, after, warned>>

\* Instances of the old data that have gone or have another number of neighbors.
Differs(old, new) == {i \in Active(old) : new[i] # old[i]}

IsisAfter_Saves ==
  /\ Isis \in todo /\ job.phase = "Post-Upgrade"
  /\ saved # NoLook \/ host.server
  /\ \E look \in Looks :
       /\ after' = look
       /\ saved' = IF Active(look) # {} THEN look ELSE saved
       /\ warned' = IF saved = NoLook THEN {} ELSE Differs(saved', look)
  /\ todo' = todo \ {Isis}
  /\ UNCHANGED <<host, job, jobs, pc, fine, before>>
\* compare_data: no data is a warning; on the command line load_data wraps what
\* is missing in a pair that is not None, and int(None) is a TypeError (Fails).
IsisAfter ==
  /\ Isis \in todo /\ job.phase = "Post-Upgrade"
  /\ saved # NoLook \/ host.server
  /\ \E look \in Looks :
       /\ after' = look
       /\ warned' = IF saved = NoLook THEN {} ELSE Differs(saved, look)
  /\ todo' = todo \ {Isis}
  /\ UNCHANGED <<host, job, jobs, pc, fine, saved, before>>

Ended == pc \in Over /\ UNCHANGED vars

Next ==
  \/ Start \/ PreDone \/ NoPlugins \/ Done \/ Returns \/ Fails
  \/ IsisUnreadable \/ IsisBefore \/ IsisAfter \/ Ended

Spec == Init /\ [][Next]_vars

-----------------------------------------------------------------------------
(* Properties.                                                             *)

\* The type invariant: only plugins loaded for the router are run.
TypeOK ==
  /\ host \in Hosts /\ job \in Job /\ jobs \in 0 .. MaxJobs
  /\ pc \in Over \cup {"pre", "main"}
  /\ todo \subseteq Loaded /\ fine \subseteq PluginNames
  /\ {saved, before, after} \subseteq Looks \cup {NoLook}
  /\ warned \subseteq Instances

\* What must have been found in order before an install plugin starts.
Needed ==
  IF job.phase = "Add"
  THEN IF job.ftp /\ host.platform \in {"ASR9K", "CRS"} /\ host.os = "XR"
       THEN {"space"} ELSE {}
  ELSE IF host.platform \in XRs
       THEN {"cfs"} \cup (IF job.phase = "Activate" /\ host.platform \in {"ASR9K", "CRS"}
                          THEN {"redundancy"} ELSE {})
       ELSE {}

\* In a job for all plugins, dispatch starts an install plugin only after each
\* check this router needs before it has been run in the same job and has passed,
\* in whatever order they come and whichever fails.
InstallsChecked ==
  pc = "main" /\ job.phase \in DOMAIN AutoPre /\ job.name = Unknown => Needed \subseteq fine

\* Of the variants of a plugin, dispatch runs one, if the router is known.
OneVariant ==
  Unknown \notin {host.platform, host.os} =>
    \A p, q \in todo : p.name = q.name => p = q

\* A Post-Upgrade that returns has warned of every instance that the last
\* Pre-Upgrade saw and that has gone or has lost or won neighbors, whatever jobs
\* came between, if it could read the neighbors at all.
LostNeighborsWarned ==
  pc = "returned" /\ job.phase = "Post-Upgrade" /\ NoLook \notin {before, after} =>
    Differs(before, after) \subseteq warned
=============================================================================
