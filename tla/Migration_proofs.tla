-------------------------- MODULE Migration_proofs --------------------------
(***************************************************************************)
(* Theorems about Migration, for every router, every selection of files,   *)
(* any number of runs and all bounds.  MInv is proved first; each of the   *)
(* other invariants is inductive on top of it.                             *)
(***************************************************************************)
EXTENDS Migration, FiniteSetTheorems, TLAPS

-----------------------------------------------------------------------------
(* What the steps may change.                                              *)

\* The steps that change where the run is, its prompt and its line, only.
Control ==
  \/ RaiseError \/ NoLine \/ SendFails \/ Checks \/ EnterKsh \/ ExitKsh \/ DialogEnds
  \/ CheckBackups \/ BandVersion \/ BandAdmin \/ BandNodes \/ BandExit \/ BandPoll
  \/ BandTimeout \/ Commands \/ FpdAdmin \/ FpdPoll \/ FpdTimeout \/ FpdExit \/ Idle
  \/ UNCHANGED vars

\* The steps of _handle_configs and of the copy.
Filing ==
  \/ CleanUp \/ CaptureAdmin \/ CaptureXr \/ NoxAdmin \/ NoxXr \/ Merge \/ Upload
  \/ Copy \/ DialogStep \/ Dir

\* The steps that read or write FPDs and their log.
Upgrading ==
  CheckFpd \/ UpgradeFpd \/ CheckLog \/ FpdTable \/ FpdStart \/ \E f \in Fpds : FpdEnds(f)

\* Every step is one of these.
LEMMA Steps ==
  [Next]_vars =>
    Control \/ Filing \/ Upgrading \/ Operator \/ Refresh \/ Audit \/ RunScript \/ Reload
BY DEF Next, Plugin, Control, Filing, Upgrading

-----------------------------------------------------------------------------
(* Where a run is.                                                         *)

\* The order of phases, the labels and the prompt at each.
Placed == PhasesInOrder /\ LabelsInPlace /\ PromptKnown

\* Steps that only move the run keep the order of phases, labels and prompts.
LEMMA ControlPlaced == MInv /\ Control => Placed'
<1> SUFFICES ASSUME MInv, Control PROVE Placed'
  OBVIOUS
<1>1. UNCHANGED <<campaign, world>>
  BY DEF Control, RaiseError, NoLine, SendFails, Checks, EnterKsh, ExitKsh, DialogEnds,
     CheckBackups, BandVersion, BandAdmin, BandNodes, BandExit, BandPoll, BandTimeout,
     Commands, FpdAdmin, FpdPoll, FpdTimeout, FpdExit, Idle, EnterAdmin, ExitAdmin,
     NothingElse, vars
<1> USE DEF MInv, Placed, PhasesInOrder, LabelsInPlace, PromptKnown, campaign, world, dialog,
        box, Over, PreOnly, InBand, PostOnly, Goto, session, Then
<1>2. CASE RaiseError \/ NoLine \/ SendFails \/ DialogEnds
  BY <1>1, <1>2 DEF RaiseError, NoLine, SendFails, DialogEnds, Sends, NothingElse
<1>3. CASE Checks \/ CheckBackups
  BY <1>1, <1>3 DEF Checks, CheckBackups, NothingElse
<1>4. CASE EnterKsh \/ ExitKsh
  BY <1>1, <1>4 DEF EnterKsh, ExitKsh, LeaveKsh, TypeOK, Phases
<1>5. CASE BandVersion \/ BandNodes
  BY <1>1, <1>5 DEF BandVersion, BandNodes, NothingElse
<1>6. CASE BandAdmin \/ BandExit
  BY <1>1, <1>6 DEF BandAdmin, BandExit, EnterAdmin, ExitAdmin
<1>7. CASE BandPoll \/ BandTimeout
  BY <1>1, <1>7 DEF BandPoll, BandTimeout, NothingElse
<1>8. CASE Commands
  BY <1>1, <1>8 DEF Commands
<1>9. CASE FpdAdmin \/ FpdExit
  BY <1>1, <1>9 DEF FpdAdmin, FpdExit, EnterAdmin, ExitAdmin
<1>10. CASE FpdPoll \/ FpdTimeout
  BY <1>1, <1>10 DEF FpdPoll, FpdTimeout
<1>11. CASE Idle \/ UNCHANGED vars
  BY <1>1, <1>11 DEF Idle, vars, CopyList
<1> QED
  BY <1>2, <1>3, <1>4, <1>5, <1>6, <1>7, <1>8, <1>9, <1>10, <1>11 DEF Control

\* Copying.
LEMMA FilingPlaced == MInv /\ Filing => Placed'
<1> SUFFICES ASSUME MInv, Filing PROVE Placed'
  OBVIOUS
<1>1. UNCHANGED <<campaign, after, session, os>>
  BY DEF Filing, CleanUp, CaptureAdmin, CaptureXr, Capture, NoxAdmin, NoxXr, Nox, Merge,
     Upload, Copy, DialogStep, Dir, box
<1>2. pc \in PreOnly \ {"audit"}
  BY DEF Filing, CleanUp, CaptureAdmin, CaptureXr, NoxAdmin, NoxXr, Merge, Upload, Copy,
     DialogStep, Dir, PreOnly
<1>3. pc' \in (PreOnly \ {"audit"}) \cup {"error"}
  BY DEF Filing, CleanUp, CaptureAdmin, CaptureXr, Capture, NoxAdmin, NoxXr, Nox, Merge,
     Upload, Copy, DialogStep, Dir, PreOnly, Goto
<1>4. pc' \in {"dialog", "dir"} => k' <= Len(CopyList)'
  <2>1. CopyList' = CopyList
    BY <1>1 DEF CopyList, campaign
  <2>2. Len(CopyList) \in Nat
    BY DEF CopyList
  <2>3. CASE Copy
    BY <2>1, <2>2, <2>3 DEF Copy, Goto, MInv, TypeOK
  <2>4. CASE DialogStep
    BY <2>1, <2>4 DEF DialogStep, MInv, LabelsInPlace
  <2>5. CASE ~Copy /\ ~DialogStep
    BY <2>5 DEF Filing, CleanUp, CaptureAdmin, CaptureXr, Capture, NoxAdmin, NoxXr, Nox,
       Merge, Upload, Dir, Goto
  <2> QED
    BY <2>3, <2>4, <2>5
<1> QED
  BY <1>1, <1>2, <1>3, <1>4 DEF MInv, Placed, PhasesInOrder, LabelsInPlace, PromptKnown,
     PreOnly, InBand, PostOnly, Over, campaign, session

\* FPDs.
LEMMA UpgradingPlaced == MInv /\ Upgrading => Placed'
<1> SUFFICES ASSUME MInv, Upgrading PROVE Placed'
  OBVIOUS
<1>1. UNCHANGED <<campaign, session, os, k>>
  BY DEF Upgrading, CheckFpd, UpgradeFpd, CheckLog, FpdTable, FpdStart, FpdEnds, box, dialog
<1> USE DEF MInv, Placed, PhasesInOrder, LabelsInPlace, PromptKnown, campaign, Over,
        PreOnly, InBand, PostOnly, Goto, session, Then, CopyList
<1>2. CASE CheckFpd \/ UpgradeFpd \/ CheckLog
  BY <1>1, <1>2 DEF CheckFpd, UpgradeFpd, CheckLog
<1>3. CASE FpdTable \/ FpdStart
  BY <1>1, <1>3 DEF FpdTable, FpdStart
<1>4. CASE \E f \in Fpds : FpdEnds(f)
  BY <1>1, <1>4 DEF FpdEnds
<1> QED
  BY <1>2, <1>3, <1>4 DEF Upgrading

\* The operator, the audit, the scripts, the reload and the end of a run.
LEMMA RestPlaced ==
  MInv /\ (Operator \/ Refresh \/ Audit \/ RunScript \/ Reload) => Placed'
<1> SUFFICES ASSUME MInv, Operator \/ Refresh \/ Audit \/ RunScript \/ Reload PROVE Placed'
  OBVIOUS
<1> USE MigrationAssumption DEF MInv, Placed, PhasesInOrder, LabelsInPlace, PromptKnown, campaign, Over, Runs,
        PreOnly, InBand, PostOnly, Goto, session, Then, CopyList, box, dialog
<1>1. CASE StartPre
  BY <1>1 DEF StartPre, Start, TypeOK
<1>2. CASE StartMigrate
  BY <1>2 DEF StartMigrate, Start, TypeOK
<1>3. CASE StartPost
  BY <1>3 DEF StartPost, Start, TypeOK
<1>4. CASE Refresh
  BY <1>4 DEF Refresh, world, TypeOK, Phases
<1>5. CASE Audit
  BY <1>5 DEF Audit
<1>6. CASE RunScript
  BY <1>6 DEF RunScript, AfterScript
<1>7. CASE Reload
  BY <1>7 DEF Reload, TypeOK, Phases
<1> QED
  BY <1>1, <1>2, <1>3, <1>4, <1>5, <1>6, <1>7 DEF Operator

-----------------------------------------------------------------------------
(* Types.                                                                  *)

\* What is counted are FPDs: each state is counted once, so that two counts
\* together are at most the number of FPDs, and reach it only if every FPD is
\* in one of the two states.
LEMMA Counted ==
  ASSUME NEW s, NEW t, s # t
  PROVE  /\ InState(s) \in Nat
         /\ InState(s) + InState(t) \in 0 .. Cardinality(Fpds)
         /\ InState(s) + InState(t) = Cardinality(Fpds) <=>
              \A f \in Fpds : fpd[f] \in {s, t}
<1> DEFINE S == {f \in Fpds : fpd[f] = s}
           T == {f \in Fpds : fpd[f] = t}
<1>1. IsFiniteSet(Fpds)
  BY MigrationAssumption
<1>2. IsFiniteSet(S) /\ IsFiniteSet(T) /\ IsFiniteSet(S \cup T)
  BY <1>1, FS_Subset
<1>3. S \cap T = {}
  OBVIOUS
<1>4. Cardinality(S \cup T) = Cardinality(S) + Cardinality(T) - Cardinality({})
  BY <1>2, <1>3, FS_Union
<1>5. Cardinality(S) \in Nat /\ Cardinality(T) \in Nat /\ Cardinality(Fpds) \in Nat
  BY <1>1, <1>2, FS_CardinalityType
<1>6. Cardinality({}) = 0
  BY FS_EmptySet
<1>7. /\ Cardinality(S \cup T) <= Cardinality(Fpds)
      /\ Cardinality(S \cup T) = Cardinality(Fpds) => S \cup T = Fpds
  BY <1>1, FS_Subset
<1>8. S \cup T = Fpds <=> \A f \in Fpds : fpd[f] \in {s, t}
  OBVIOUS
<1> HIDE DEF S, T
<1>9. InState(s) = Cardinality(S) /\ InState(t) = Cardinality(T)
  BY DEF InState, S, T
<1>10. Cardinality(S \cup T) = Cardinality(S) + Cardinality(T)
  BY <1>4, <1>5, <1>6
<1>11. Cardinality(S) + Cardinality(T) \in 0 .. Cardinality(Fpds)
  BY <1>5, <1>7, <1>10
<1>12. Cardinality(S) + Cardinality(T) = Cardinality(Fpds) <=> S \cup T = Fpds
  BY <1>7, <1>10
<1> QED
  BY <1>5, <1>8, <1>9, <1>11, <1>12

\* The initial states.
LEMMA InitMInv == Init => MInv
<1> SUFFICES ASSUME Init PROVE MInv
  OBVIOUS
<1>1. job \in Job /\ cards \in [Locs -> Card] /\ fpd \in [Fpds -> FpdStates]
  BY MigrationAssumption DEF Init, FpdStates
<1>2. logged \subseteq Fpds
  BY DEF Init
<1>3. line \in BOOLEAN /\ backup \in BOOLEAN
  BY DEF Init
<1>4. local \in [LocalFiles -> Content] /\ repo \in [Files -> Content] /\ disk \in [Files -> Content]
  BY DEF Init, Content
<1>5. 0 \in 0 .. Cardinality(Fpds) /\ 0 \in 0 .. MaxRuns /\ 0 \in 0 .. MaxTurns
  BY MigrationAssumption, FS_CardinalityType
<1>6. TypeOK
  BY <1>1, <1>2, <1>3, <1>4, <1>5 DEF Init, TypeOK, Phases, Over
<1>7. PhasesInOrder /\ LabelsInPlace /\ PromptKnown
  BY DEF Init, PhasesInOrder, LabelsInPlace, PromptKnown, Over, PreOnly, InBand, PostOnly
<1> QED
  BY <1>6, <1>7 DEF MInv

\* The steps within a run.
LEMMA ControlType == MInv /\ Control => TypeOK'
<1> SUFFICES ASSUME MInv, Control PROVE TypeOK'
  OBVIOUS
<1>1. UNCHANGED <<campaign, world>>
  BY DEF Control, RaiseError, NoLine, SendFails, Checks, EnterKsh, ExitKsh, DialogEnds,
     CheckBackups, BandVersion, BandAdmin, BandNodes, BandExit, BandPoll, BandTimeout,
     Commands, FpdAdmin, FpdPoll, FpdTimeout, FpdExit, Idle, EnterAdmin, ExitAdmin,
     NothingElse, vars
<1>2. /\ turns' \in 0 .. MaxTurns
      /\ mode' \in {"exec", "ksh", "admin"}
      /\ after' \in {"none", "clean", "backups", "error", "configs", "platform", "reload"}
  BY MigrationAssumption
     DEF MInv, TypeOK, Control, RaiseError, NoLine, SendFails, Checks, EnterKsh, ExitKsh,
     DialogEnds, CheckBackups, BandVersion, BandAdmin, BandNodes, BandExit, BandPoll,
     BandTimeout, Commands, FpdAdmin, FpdPoll, FpdTimeout, FpdExit, Idle, EnterAdmin,
     ExitAdmin, NothingElse, vars, session, Turn, LeaveKsh
<1>3. line' \in BOOLEAN
  BY DEF MInv, TypeOK, Control, RaiseError, NoLine, SendFails, Checks, EnterKsh, ExitKsh,
     DialogEnds, CheckBackups, BandVersion, BandAdmin, BandNodes, BandExit, BandPoll,
     BandTimeout, Commands, FpdAdmin, FpdPoll, FpdTimeout, FpdExit, Idle, EnterAdmin,
     ExitAdmin, NothingElse, vars, session
<1>4. pc' \in Over \cup Sends \cup {"error", "clean", "noxadmin", "noxxr", "merge",
                                    "upload", "copy"}
  BY DEF MInv, TypeOK, LabelsInPlace, Control, RaiseError, NoLine, SendFails, Checks, EnterKsh, ExitKsh,
     DialogEnds, CheckBackups, BandVersion, BandAdmin, BandNodes, BandExit, BandPoll,
     BandTimeout, Commands, FpdAdmin, FpdPoll, FpdTimeout, FpdExit, Idle, EnterAdmin,
     ExitAdmin, NothingElse, vars, session, Goto, Over, Sends, InBand, Then
<1>5. backup' \in BOOLEAN
  BY <1>1 DEF MInv, TypeOK, world, box
<1> QED
  BY <1>1, <1>2, <1>3, <1>4, <1>5 DEF MInv, TypeOK, campaign, world, store, device, dialog,
     fpds, box

\* A file made from one captured configuration.
LEMMA CapturedType ==
  MInv /\ pc # "idle" => \A part \in {"adm", "xr", "op"} : {<<part, run>>} \in Content
BY DEF MInv, PhasesInOrder, Content

\* The tables of the dialogs.
LEMMA TransitionType ==
  ASSUME fsm \in 0 .. 3, NEW e PROVE Transition(e) \in 0 .. 3 \cup {Stop, Fail}
<1>1. Ftp(e) \in 0 .. 3 \cup {Stop, Fail}
  BY DEF Ftp, Stop, Fail
<1>2. Sftp(e) \in 0 .. 3 \cup {Stop, Fail}
  BY DEF Sftp, Stop, Fail
<1> QED
  BY <1>1, <1>2 DEF Transition

\* What the files are made from.
LEMMA FilingType == MInv /\ Filing => TypeOK'
<1> SUFFICES ASSUME MInv, Filing PROVE TypeOK'
  OBVIOUS
<1>1. UNCHANGED <<campaign, after, session, marks, fpds, box>>
  BY DEF Filing, CleanUp, CaptureAdmin, CaptureXr, Capture, NoxAdmin, NoxXr, Nox, Merge,
     Upload, Copy, DialogStep, Dir
<1>2. line' \in BOOLEAN /\ backup' \in BOOLEAN
  BY <1>1 DEF MInv, TypeOK, session, box
<1>3. turns' \in 0 .. MaxTurns
  BY MigrationAssumption
     DEF MInv, TypeOK, Filing, CleanUp, CaptureAdmin, CaptureXr, Capture, NoxAdmin, NoxXr,
     Merge, Upload, Copy, DialogStep, Dir, Turn
<1>4. pc' \in Over \cup Sends \cup {"error", "clean", "noxadmin", "noxxr", "merge",
                                    "upload", "copy"}
  BY DEF Filing, CleanUp, CaptureAdmin, CaptureXr, Capture, NoxAdmin, NoxXr, Nox, Merge,
     Upload, Copy, DialogStep, Dir, Goto, Sends
<1>5. pc # "idle"
  BY DEF Filing, CleanUp, CaptureAdmin, CaptureXr, NoxAdmin, NoxXr, Merge, Upload, Copy,
     DialogStep, Dir
<1>6. local' \in [LocalFiles -> Content]
  <2> USE DEF MInv, TypeOK
  <2>1. {} \in Content
    BY DEF Content
  <2>2. CASE CleanUp
    BY <2>1, <2>2 DEF CleanUp
  <2>3. CASE CaptureAdmin \/ CaptureXr
    BY <1>5, <2>3, CapturedType DEF CaptureAdmin, CaptureXr, Capture
  <2>4. CASE NoxAdmin \/ NoxXr
    <3>1. local["admin.cfg"] \in Content /\ local["xr.cfg"] \in Content
      BY DEF LocalFiles
    <3> QED
      BY <2>4, <3>1 DEF NoxAdmin, NoxXr, Nox
  <2>5. CASE Merge
    <3>1. local["admin.iox"] \cup local["xr.iox"] \in Content
      BY DEF LocalFiles, Content
    <3> QED
      BY <2>5, <3>1 DEF Merge
  <2>6. CASE UNCHANGED local
    BY <2>6
  <2> QED
    BY <2>2, <2>3, <2>4, <2>5, <2>6 DEF Filing, Upload, Copy, DialogStep, Dir, store
<1>7. repo' \in [Files -> Content] /\ k' \in 1 .. 5
  <2> USE DEF MInv, TypeOK
  <2>1. CASE Upload
    <3>1. local["admin.cal"] \in Content /\ local["merged"] \in Content
      BY DEF LocalFiles
    <3> QED
      BY <2>1, <3>1 DEF Upload, Files
  <2>2. CASE Dir
    <3>1. k \in 1 .. 4
      BY <2>2 DEF Dir, LabelsInPlace, CopyList
    <3> QED
      BY <2>2, <3>1 DEF Dir, store
  <2>3. CASE UNCHANGED <<repo, k>>
    BY <2>3
  <2> QED
    BY <2>1, <2>2, <2>3 DEF Filing, CleanUp, CaptureAdmin, CaptureXr, Capture, NoxAdmin,
       NoxXr, Nox, Merge, Copy, DialogStep, store, dialog
<1>8. /\ disk' \in [Files -> Content] /\ whole' \subseteq Files
      /\ stage' \in {"ask", "exists", "moving", "ended"} /\ fsm' \in 0 .. 3
  <2> USE DEF MInv, TypeOK
  <2>1. CASE DialogStep
    <3>1. k \in 1 .. Len(CopyList)
      BY <2>1 DEF DialogStep, LabelsInPlace, CopyList
    <3>2. File \in Files
      BY <3>1 DEF File, CopyList, Files
    <3>3. PICK e \in Shows :
            /\ Transferred(e)
            /\ fsm' = IF Transition(e) \in {Stop, Fail} THEN fsm ELSE Transition(e)
      BY <2>1 DEF DialogStep
    <3>4. disk' \in [Files -> Content] /\ whole' \subseteq Files
      BY <3>2, <3>3 DEF Transferred, device
    <3>5. fsm' \in 0 .. 3
      BY <3>3, TransitionType
    <3>6. stage' \in {"ask", "exists", "moving", "ended"}
      BY <2>1 DEF DialogStep
    <3> QED
      BY <3>4, <3>5, <3>6
  <2>2. CASE Copy
    BY <2>2 DEF Copy, device
  <2>3. CASE UNCHANGED <<device, stage, fsm>>
    BY <2>3 DEF device
  <2> QED
    BY <2>1, <2>2, <2>3 DEF Filing, CleanUp, CaptureAdmin, CaptureXr, Capture, NoxAdmin,
       NoxXr, Nox, Merge, Upload, Dir, dialog
<1> QED
  BY <1>1, <1>2, <1>3, <1>4, <1>6, <1>7, <1>8 DEF MInv, TypeOK, campaign, session, fpds, box

\* The states of FPDs.
LEMMA UpgradingType == MInv /\ Upgrading => TypeOK'
<1> SUFFICES ASSUME MInv, Upgrading PROVE TypeOK'
  OBVIOUS
<1>1. UNCHANGED <<campaign, session, turns, store, device, dialog, marks, box>>
  BY DEF Upgrading, CheckFpd, UpgradeFpd, CheckLog, FpdTable, FpdStart, FpdEnds
<1>2. line' \in BOOLEAN /\ backup' \in BOOLEAN
  BY <1>1 DEF MInv, TypeOK, session, box
<1>3. /\ pc' \in Over \cup Sends \cup {"error", "clean", "noxadmin", "noxxr", "merge",
                                       "upload", "copy"}
      /\ after' \in {"none", "clean", "backups", "error", "configs", "platform", "reload"}
  BY DEF MInv, TypeOK, Upgrading, CheckFpd, UpgradeFpd, CheckLog, FpdTable, FpdStart,
     FpdEnds, Goto, Sends
<1>4. num' \in 0 .. Cardinality(Fpds)
  <2>1. Expected \in 0 .. Cardinality(Fpds)
    BY Counted DEF Expected
  <2> QED
    BY <2>1 DEF MInv, TypeOK, Upgrading, CheckFpd, UpgradeFpd, CheckLog, FpdTable, FpdStart,
       FpdEnds
<1>5. fpd' \in [Fpds -> FpdStates]
  BY DEF MInv, TypeOK, Upgrading, CheckFpd, UpgradeFpd, CheckLog, FpdTable, FpdStart,
     FpdEnds, FpdStates
<1>6. logged' \subseteq Fpds
  BY DEF MInv, TypeOK, Upgrading, CheckFpd, UpgradeFpd, CheckLog, FpdTable, FpdStart, FpdEnds
<1>7. todo' \subseteq Fpds
  BY DEF MInv, TypeOK, Upgrading, CheckFpd, UpgradeFpd, CheckLog, FpdTable, FpdStart, FpdEnds
<1>8. subtype' \in Subtypes(Fpds) \cup {"none"}
  BY DEF MInv, TypeOK, Upgrading, CheckFpd, UpgradeFpd, CheckLog, FpdTable, FpdStart, FpdEnds,
     Subtypes
<1> QED
  BY <1>1, <1>2, <1>3, <1>4, <1>5, <1>6, <1>7, <1>8
     DEF MInv, TypeOK, campaign, session, store, device, dialog, box

\* The other steps.
LEMMA RestType ==
  MInv /\ (Operator \/ Refresh \/ Audit \/ RunScript \/ Reload) => TypeOK'
<1> SUFFICES ASSUME MInv, Operator \/ Refresh \/ Audit \/ RunScript \/ Reload PROVE TypeOK'
  OBVIOUS
<1> USE MigrationAssumption DEF MInv, TypeOK, Goto, Over, Sends, Phases, campaign, session,
        store, device, dialog, fpds, box, world
<1>1. CASE Operator
  <2>1. UNCHANGED <<job, cards, local, device, dialog, marks, fpds, box>>
    BY <1>1 DEF Operator, StartPre, StartMigrate, StartPost, Start
  <2>2. line' \in BOOLEAN /\ backup' \in BOOLEAN
    BY <1>1 DEF Operator, StartPre, StartMigrate, StartPost, Start
  <2>3. /\ run' \in Runs /\ turns' = 0 /\ mode' = "exec" /\ phase' \in Phases
        /\ pc' \in {"audit", "ksh", "band"} /\ after' \in {after, "configs"}
        /\ progress' \in {progress, "none"}
    BY <1>1 DEF Operator, StartPre, StartMigrate, StartPost, Start, Runs
  <2>4. preRun' \in {preRun, run'}
    BY <1>1 DEF Operator, StartPre, StartMigrate, StartPost
  <2>5. repo' \in [Files -> Content]
    <3>1. {<<"op", run'>>} \in Content
      BY <2>3 DEF Content
    <3> QED
      BY <1>1, <3>1 DEF Operator, StartPre, StartMigrate, StartPost
  <2> QED
    BY <2>1, <2>2, <2>3, <2>4, <2>5 DEF Runs
<1>2. CASE Refresh
  <2>1. line' \in BOOLEAN /\ backup' \in BOOLEAN
    BY <1>2 DEF Refresh
  <2> QED
    BY <1>2, <2>1 DEF Refresh
<1>3. CASE Audit
  <2>1. line' \in BOOLEAN /\ backup' \in BOOLEAN
    BY <1>3 DEF Audit
  <2>2. marks' \subseteq Locs
    BY <1>3 DEF Audit
  <2> QED
    BY <1>3, <2>1, <2>2 DEF Audit
<1>4. CASE RunScript
  <2>1. line' \in BOOLEAN
    BY <1>4 DEF RunScript
  <2>2. backup' \in BOOLEAN
    BY <1>4 DEF RunScript
  <2>3. boot' \in 0 .. MaxRuns
    BY <1>4 DEF RunScript
  <2>4. after' \in {"clean", "backups", "error"}
    BY <1>4 DEF RunScript, AfterScript, Then
  <2> QED
    BY <1>4, <2>1, <2>2, <2>3, <2>4 DEF RunScript
<1>5. CASE Reload
  <2>1. line' \in BOOLEAN /\ backup' \in BOOLEAN
    BY <1>5 DEF Reload
  <2>2. fpd' \in [Fpds -> FpdStates]
    BY <1>5 DEF Reload, FpdStates
  <2>3. os' \in {"XR", "eXR"}
    BY <1>5 DEF Reload
  <2> QED
    BY <1>5, <2>1, <2>2, <2>3 DEF Reload
<1> QED
  BY <1>1, <1>2, <1>3, <1>4, <1>5

\* MInv is an invariant: types, the order of the phases, the labels of each, and
\* the prompt at each label, whatever fails and however often a phase is repeated.
THEOREM Invariance == Spec => []MInv
<1>1. MInv /\ [Next]_vars => MInv'
  <2>1. MInv /\ [Next]_vars => TypeOK'
    BY Steps, ControlType, FilingType, UpgradingType, RestType
  <2>2. MInv /\ [Next]_vars => Placed'
    BY Steps, ControlPlaced, FilingPlaced, UpgradingPlaced, RestPlaced
  <2> QED
    BY <2>1, <2>2 DEF MInv, Placed
<1> QED
  BY <1>1, InitMInv, PTL DEF Spec

\* Every shell and admin mode is left before the commands for XR exec.
THEOREM ShellsLeft == Spec => []LeavesAtExec
<1>1. MInv => LeavesAtExec
  BY DEF MInv, PromptKnown, LeavesAtExec
<1> QED
  BY <1>1, Invariance, PTL

-----------------------------------------------------------------------------
(* What Pre-Migrate brings to the router.                                  *)

\* A file made from one configuration of this run.
Own(part) == {<<part, run>>}

\* From the router to the repository: at each label of _handle_configs, the files
\* that the labels before it have made are of this run.
FilesMade ==
  phase = "pre" /\ pc # "idle" =>
    /\ repo["image"] = Own("op") /\ repo["crypto"] = Own("op")
    /\ job.custom => repo["xr"] = Own("op")
    /\ pc \in {"xrcfg", "noxadmin"} => local["admin.cfg"] = Own("adm")
    /\ pc \in {"noxadmin", "noxxr"} => local["xr.cfg"] = Own("xr")
    /\ pc \in {"noxxr", "merge", "upload"} => local["admin.cal"] = Own("adm")
    /\ pc \in {"noxxr", "merge"} => local["admin.iox"] = Own("adm") /\ ~job.custom
    /\ pc = "merge" => local["xr.iox"] = Own("xr")
    /\ pc = "upload" => job.custom \/ local["merged"] = Own("adm") \cup Own("xr")
    /\ pc \in {"copy", "dialog", "dir", "fpds", "upgrade", "fpdlog", "refresh"} =>
         repo["cal"] = Own("adm") /\ (job.custom \/ repo["xr"] = Own("adm") \cup Own("xr"))

\* The labels at which there is something to show for.
Making == {"xrcfg", "noxadmin", "noxxr", "merge", "upload", "copy", "dialog", "dir", "fpds",
           "upgrade", "fpdlog", "refresh"}

\* None of them is entered by a step that only moves the run.
LEMMA ControlStays ==
  MInv /\ Control =>
    /\ UNCHANGED <<campaign, world>>
    /\ phase = "pre" /\ pc' \in Making => pc' = pc
    /\ pc = "idle" => pc' = "idle"
<1> SUFFICES ASSUME MInv, Control
             PROVE  /\ UNCHANGED <<campaign, world>>
                    /\ phase = "pre" /\ pc' \in Making => pc' = pc
                    /\ pc = "idle" => pc' = "idle"
  OBVIOUS
<1> USE DEF MInv, LabelsInPlace, Making, InBand, PostOnly, Goto, NothingElse, Then, Over
<1>1. CASE RaiseError \/ NoLine \/ SendFails \/ Checks \/ EnterKsh \/ ExitKsh \/ DialogEnds
           \/ CheckBackups
  BY <1>1 DEF RaiseError, NoLine, SendFails, Checks, EnterKsh, ExitKsh, DialogEnds,
     CheckBackups, Sends
<1>2. CASE BandVersion \/ BandAdmin \/ BandNodes \/ BandExit \/ BandPoll \/ BandTimeout
           \/ Commands
  BY <1>2 DEF BandVersion, BandAdmin, BandNodes, BandExit, BandPoll, BandTimeout, Commands,
     EnterAdmin, ExitAdmin
<1>3. CASE FpdAdmin \/ FpdPoll \/ FpdTimeout \/ FpdExit
  BY <1>3 DEF FpdAdmin, FpdPoll, FpdTimeout, FpdExit, EnterAdmin, ExitAdmin
<1>4. CASE Idle \/ UNCHANGED vars
  BY <1>4 DEF Idle, vars
<1> QED
  BY <1>1, <1>2, <1>3, <1>4 DEF Control

\* NoX: no conversion goes on without having written all its files.
LEMMA NoxMakes ==
  ASSUME MInv, NEW cfg \in LocalFiles, NEW outs \in SUBSET LocalFiles, NEW next,
         next # "error", Nox(cfg, outs, next), pc' = next
  PROVE  local' = [f \in LocalFiles |-> IF f \in outs THEN local[cfg] ELSE local[f]]
<1>1. PICK wrote \in BOOLEAN, known \in BOOLEAN :
        /\ known => wrote
        /\ local' = [f \in LocalFiles |-> IF wrote /\ f \in outs THEN local[cfg] ELSE local[f]]
        /\ Goto(IF Converted(outs, known) THEN next ELSE "error")
  BY DEF Nox
<1>2. known
  BY <1>1 DEF Goto, Converted
<1>3. wrote
  BY <1>1, <1>2
<1> QED
  BY <1>1, <1>3

\* The files are made one from the other.
LEMMA FilingMade == MInv /\ FilesMade /\ Filing => FilesMade'
<1> SUFFICES ASSUME MInv, FilesMade, Filing PROVE FilesMade'
  OBVIOUS
<1>1. UNCHANGED <<phase, run, job>>
  BY DEF Filing, CleanUp, CaptureAdmin, CaptureXr, Capture, NoxAdmin, NoxXr, Nox, Merge,
     Upload, Copy, DialogStep, Dir, campaign
<1>2. local \in [LocalFiles -> Content] /\ repo \in [Files -> Content]
  BY DEF MInv, TypeOK
<1> USE <1>1, <1>2 DEF FilesMade, Own, Goto, LocalFiles, Files
<1>3. CASE CleanUp \/ CaptureAdmin \/ CaptureXr
  BY <1>3 DEF CleanUp, CaptureAdmin, CaptureXr, Capture
<1>4. CASE NoxAdmin
  <2>1. pc' \in {IF job.custom THEN "upload" ELSE "noxxr", "error"} /\ repo' = repo
    BY <1>4 DEF NoxAdmin, Nox
  <2>2. CASE pc' = "error"
    BY <1>4, <2>1, <2>2 DEF NoxAdmin
  <2>3. CASE pc' # "error"
    <3>1. local' = [f \in LocalFiles |->
                      IF f \in {"admin.cal", "admin.iox"} THEN local["admin.cfg"] ELSE local[f]]
      BY <1>4, <2>1, <2>3, NoxMakes DEF NoxAdmin
    <3> QED
      BY <1>4, <2>1, <2>3, <3>1 DEF NoxAdmin
  <2> QED
    BY <2>2, <2>3
<1>5. CASE NoxXr
  <2>1. pc' \in {"merge", "error"} /\ repo' = repo
    BY <1>5 DEF NoxXr, Nox
  <2>2. CASE pc' = "error"
    BY <1>5, <2>1, <2>2 DEF NoxXr
  <2>3. CASE pc' # "error"
    <3>1. local' = [f \in LocalFiles |-> IF f \in {"xr.iox"} THEN local["xr.cfg"] ELSE local[f]]
      BY <1>5, <2>1, <2>3, NoxMakes DEF NoxXr
    <3> QED
      BY <1>5, <2>1, <2>3, <3>1 DEF NoxXr
  <2> QED
    BY <2>2, <2>3
<1>6. CASE Merge
  BY <1>6 DEF Merge
<1>7. CASE Upload
  BY <1>7 DEF Upload
<1>8. CASE Copy \/ DialogStep \/ Dir
  <2>1. UNCHANGED <<local, repo>>
    BY <1>8 DEF Copy, DialogStep, Dir, store
  <2>2. pc \in {"copy", "dialog", "dir"} /\ pc' \in {"copy", "dialog", "dir", "fpds", "error"}
    BY <1>8 DEF Copy, DialogStep, Dir
  <2> QED
    BY <2>1, <2>2
<1> QED
  BY <1>3, <1>4, <1>5, <1>6, <1>7, <1>8 DEF Filing

\* Every step.
LEMMA StepMade == MInv /\ FilesMade /\ [Next]_vars => FilesMade'
<1> SUFFICES ASSUME MInv, FilesMade, [Next]_vars PROVE FilesMade'
  OBVIOUS
<1> USE DEF FilesMade, Own
<1>1. CASE Control
  <2>1. UNCHANGED <<phase, run, job, local, repo>>
    BY <1>1, ControlStays DEF campaign, world, store
  <2>2. /\ phase = "pre" /\ pc' \in Making => pc' = pc
        /\ pc = "idle" => pc' = "idle"
    BY <1>1, ControlStays
  <2> QED
    BY <2>1, <2>2 DEF Making
<1>2. CASE Filing
  BY <1>2, FilingMade
<1>3. CASE Upgrading
  <2>1. UNCHANGED <<phase, run, job, local, repo>>
    BY <1>3 DEF Upgrading, CheckFpd, UpgradeFpd, CheckLog, FpdTable, FpdStart, FpdEnds,
       campaign, store
  <2>2. \/ pc \in {"fpds", "upgrade", "fpdlog"} /\ pc' \in {"refresh", "upgrade", "fpdlog", "error"}
        \/ phase = "post"
        \/ pc' = pc
    BY <1>3 DEF Upgrading, CheckFpd, UpgradeFpd, CheckLog, FpdTable, FpdStart, FpdEnds,
       Goto, MInv, LabelsInPlace, PostOnly
  <2> QED
    BY <2>1, <2>2
<1>4. CASE Operator
  <2>1. job' = job
    BY <1>4 DEF Operator, StartPre, StartMigrate, StartPost, Start
  <2>2. CASE StartPre
    BY <2>1, <2>2 DEF StartPre, Start, Goto, Files
  <2>3. CASE StartMigrate \/ StartPost
    BY <2>3 DEF StartMigrate, StartPost, Start
  <2> QED
    BY <1>4, <2>2, <2>3 DEF Operator
<1>5. CASE Refresh \/ Audit \/ RunScript \/ Reload
  <2>1. UNCHANGED <<phase, run, job, local, repo>>
    BY <1>5 DEF Refresh, Audit, RunScript, Reload, campaign, world, store
  <2>2. pc # "idle" /\ (phase # "pre" \/ pc' \in {"returned", "error", "checks", "unksh"})
    BY <1>5 DEF Refresh, Audit, RunScript, Reload, Goto, MInv, LabelsInPlace
  <2> QED
    BY <2>1, <2>2
<1> QED
  BY <1>1, <1>2, <1>3, <1>4, <1>5, Steps

\* The files are copied one after the other, and each of them once.
LEMMA CopyOnce ==
  /\ Len(CopyList) \in Nat
  /\ \A i \in 1 .. Len(CopyList) : CopyList[i] \in Files
  /\ \A i, j \in 1 .. Len(CopyList) : i # j => CopyList[i] # CopyList[j]
<1>1. /\ Len(CopyList) = IF job.crypto THEN 4 ELSE 3
      /\ CopyList[1] = "cal" /\ CopyList[2] = "xr" /\ CopyList[3] = "image"
      /\ job.crypto => CopyList[4] = "crypto"
  BY DEF CopyList
<1>2. CASE job.crypto
  BY <1>1, <1>2 DEF Files
<1>3. CASE ~job.crypto
  BY <1>1, <1>3 DEF Files
<1> QED
  BY <1>2, <1>3

\* A file is on the router, whole and the one of the repository.
Arrived(f) == f \in whole /\ disk[f] = repo[f]

\* From the repository to the router: what has been copied has arrived.
FilesCopied ==
  phase = "pre" =>
    /\ pc \in {"copy", "dialog", "dir"} => \A i \in 1 .. k - 1 : Arrived(CopyList[i])
    /\ pc = "dir" \/ (pc = "dialog" /\ stage = "ended") => Arrived(File)
    /\ pc \in {"fpds", "upgrade", "fpdlog", "refresh"} =>
         \A i \in 1 .. Len(CopyList) : Arrived(CopyList[i])

\* A dialog ends only with the text of a copy that is done, or with the prompt after
\* it: there is no prompt before, unless a transfer fails without a word.
LEMMA DialogCopies ==
  ASSUME ~Quiet, MInv, FilesCopied, DialogStep PROVE FilesCopied'
<1>1. phase = "pre" /\ phase' = phase /\ job' = job /\ repo' = repo /\ k' = k
  BY DEF DialogStep, MInv, LabelsInPlace, PreOnly, campaign, store
<1>2. CopyList' = CopyList /\ File' = File
  BY <1>1 DEF CopyList, File
<1>3. k \in 1 .. Len(CopyList)
  BY CopyOnce DEF DialogStep, MInv, LabelsInPlace, TypeOK
<1>4. File \in Files /\ \A i \in 1 .. k - 1 : CopyList[i] # File
  BY <1>3, CopyOnce DEF File
<1>5. disk \in [Files -> Content] /\ stage \in {"ask", "exists", "moving", "ended"}
  BY DEF MInv, TypeOK
<1>6. PICK e \in Shows :
        /\ Transferred(e)
        /\ stage' = CASE stage = "ask" -> IF disk[File] # {} THEN "exists" ELSE "moving"
                      [] e = "copied" -> "ended"
                      [] OTHER -> "moving"
        /\ Goto(CASE Transition(e) = Stop -> "dir"
                  [] Transition(e) = Fail -> "error"
                  [] OTHER -> "dialog")
  BY DEF DialogStep
<1>7. e = "prompt" => stage = "ended"
  BY <1>5, <1>6 DEF Shows, Failures
<1>8. \A f \in Files \ {File} : disk'[f] = disk[f] /\ (f \in whole => f \in whole')
  BY <1>4, <1>5, <1>6 DEF Transferred, device
<1>9. e = "copied" => File \in whole' /\ disk'[File] = repo[File]
  BY <1>4, <1>5, <1>6 DEF Transferred
<1>10. e = "prompt" => UNCHANGED device
  BY <1>6, <1>7 DEF Transferred
<1>11. \A i \in 1 .. k - 1 : Arrived(CopyList[i])
  BY <1>1 DEF FilesCopied, DialogStep
<1>12. (\A i \in 1 .. k - 1 : Arrived(CopyList[i]))'
  <2> SUFFICES ASSUME NEW i \in 1 .. k - 1
               PROVE  CopyList[i] \in whole' /\ disk'[CopyList[i]] = repo[CopyList[i]]
    BY <1>1, <1>2 DEF Arrived
  <2>1. CopyList[i] \in Files \ {File}
    BY <1>3, <1>4, CopyOnce
  <2> QED
    BY <1>8, <1>11, <2>1 DEF Arrived
<1>13. ASSUME pc' = "dir" PROVE Arrived(File)'
  <2>1. Transition(e) = Stop
    BY <1>6, <1>13 DEF Goto
  <2>2. e \in {"copied", "prompt"}
    BY <2>1 DEF Transition, Ftp, Sftp, Stop, Fail, MInv, TypeOK
  <2>3. e = "prompt" => Arrived(File)
    BY <1>1, <1>7 DEF FilesCopied, DialogStep
  <2> QED
    BY <1>1, <1>2, <1>9, <1>10, <2>2, <2>3 DEF Arrived, device
<1>14. ASSUME stage' = "ended" PROVE Arrived(File)'
  <2>1. e = "copied"
    BY <1>6, <1>14
  <2> QED
    BY <1>1, <1>2, <1>9, <2>1 DEF Arrived
<1>15. pc' \in {"dialog", "dir", "error"}
  BY <1>6 DEF Goto
<1> QED
  BY <1>1, <1>2, <1>12, <1>13, <1>14, <1>15 DEF FilesCopied

\* The other steps of the copy.
LEMMA FilingCopied ==
  ASSUME ~Quiet PROVE MInv /\ FilesCopied /\ Filing => FilesCopied'
<1> SUFFICES ASSUME MInv, FilesCopied, Filing PROVE FilesCopied'
  OBVIOUS
<1>1. CASE DialogStep
  BY <1>1, DialogCopies
<1>2. CASE CleanUp \/ CaptureAdmin \/ CaptureXr \/ NoxAdmin \/ NoxXr \/ Merge
  BY <1>2 DEF CleanUp, CaptureAdmin, CaptureXr, Capture, NoxAdmin, NoxXr, Nox, Merge, Goto,
     FilesCopied
<1>3. CASE Upload
  BY <1>3 DEF Upload, Goto, FilesCopied
<1>4. CASE Copy \/ Dir
  <2>1. UNCHANGED <<disk, whole, repo, phase, CopyList>>
    BY <1>4 DEF Copy, Dir, device, store, campaign, CopyList
  <2>2. pc \in {"copy", "dir"} /\ phase = "pre" /\ k \in 1 .. 5
    BY <1>4 DEF Copy, Dir, MInv, LabelsInPlace, PreOnly, TypeOK
  <2>3. \A i \in 1 .. k - 1 : Arrived(CopyList[i])
    BY <2>2 DEF FilesCopied
  <2>4. CASE Copy
    <3>1. pc' = "dialog" => stage' = "ask" /\ k' = k
      BY <2>4 DEF Copy
    <3>2. pc' \in {"dialog", "fpds"} /\ (pc' = "fpds" => k > Len(CopyList))
      BY <2>4 DEF Copy, Goto
    <3> QED
      BY <2>1, <2>2, <2>3, <3>1, <3>2, CopyOnce DEF FilesCopied, Arrived
  <2>5. CASE Dir
    <3>1. Arrived(CopyList[k])
      BY <2>2, <2>5 DEF FilesCopied, Dir, File
    <3>2. pc' = "error" \/ (pc' = "copy" /\ k' = k + 1)
      BY <2>5 DEF Dir, Goto
    <3> QED
      BY <2>1, <2>2, <2>3, <3>1, <3>2 DEF FilesCopied, Arrived
  <2> QED
    BY <1>4, <2>4, <2>5
<1> QED
  BY <1>1, <1>2, <1>3, <1>4 DEF Filing

\* Every step.
LEMMA StepCopied ==
  ASSUME ~Quiet PROVE MInv /\ FilesCopied /\ [Next]_vars => FilesCopied'
<1> SUFFICES ASSUME MInv, FilesCopied, [Next]_vars PROVE FilesCopied'
  OBVIOUS
<1> USE DEF FilesCopied, Arrived, File, CopyList
<1>1. CASE Control
  <2>1. UNCHANGED <<phase, job, repo, disk, whole, k, stage>>
    BY <1>1, ControlStays DEF campaign, world, store, device, dialog
  <2>2. phase = "pre" /\ pc' \in Making => pc' = pc
    BY <1>1, ControlStays
  <2> QED
    BY <2>1, <2>2 DEF Making
<1>2. CASE Filing
  BY <1>2, FilingCopied
<1>3. CASE Upgrading
  <2>1. UNCHANGED <<phase, job, repo, disk, whole, k, stage>>
    BY <1>3 DEF Upgrading, CheckFpd, UpgradeFpd, CheckLog, FpdTable, FpdStart, FpdEnds,
       campaign, store, device, dialog
  <2>2. \/ pc \in {"fpds", "upgrade", "fpdlog"} /\ pc' \in {"refresh", "upgrade", "fpdlog", "error"}
        \/ phase = "post"
        \/ pc' = pc
    BY <1>3 DEF Upgrading, CheckFpd, UpgradeFpd, CheckLog, FpdTable, FpdStart, FpdEnds,
       Goto, MInv, LabelsInPlace, PostOnly
  <2> QED
    BY <2>1, <2>2
<1>4. CASE Operator
  BY <1>4 DEF Operator, StartPre, StartMigrate, StartPost, Start, Goto
<1>5. CASE Refresh \/ Audit \/ RunScript \/ Reload
  <2>1. phase' = phase
    BY <1>5 DEF Refresh, Audit, RunScript, Reload, campaign
  <2>2. phase # "pre" \/ pc' \in {"returned", "error", "checks", "unksh"}
    BY <1>5 DEF Refresh, Audit, RunScript, Reload, Goto, MInv, LabelsInPlace
  <2> QED
    BY <2>1, <2>2
<1> QED
  BY <1>1, <1>2, <1>3, <1>4, <1>5, Steps

\* What the repository has after the upload is what the files are to be made from.
LEMMA MadeFiles ==
  ASSUME MInv, FilesMade, phase = "pre", pc = "refresh"
  PROVE  \A i \in 1 .. Len(CopyList) : repo[CopyList[i]] = Made(CopyList[i]) \X {run}
<1>1. /\ repo["image"] = {<<"op", run>>} /\ repo["crypto"] = {<<"op", run>>}
      /\ job.custom => repo["xr"] = {<<"op", run>>}
      /\ repo["cal"] = {<<"adm", run>>}
      /\ job.custom \/ repo["xr"] = {<<"adm", run>>, <<"xr", run>>}
  BY DEF FilesMade, Own
<1>2. /\ {"op"} \X {run} = {<<"op", run>>} /\ {"adm"} \X {run} = {<<"adm", run>>}
      /\ {"adm", "xr"} \X {run} = {<<"adm", run>>, <<"xr", run>>}
  OBVIOUS
<1>3. \A f \in Files : repo[f] = Made(f) \X {run}
  BY <1>1, <1>2 DEF Made, Files
<1> QED
  BY <1>3, CopyOnce

\* Only a copy dialog writes to the router's disks, and only Pre-Migrate has them.
LEMMA DiskKept ==
  MInv /\ [Next]_vars /\ progress = "pre" => UNCHANGED <<disk, whole, job>>
<1> SUFFICES ASSUME MInv, [Next]_vars, progress = "pre" PROVE UNCHANGED <<disk, whole, job>>
  OBVIOUS
<1>1. ~DialogStep
  BY DEF DialogStep, MInv, LabelsInPlace, PhasesInOrder, PreOnly, Over
<1>2. CASE Control
  BY <1>2, ControlStays DEF campaign, world, device
<1>3. CASE Filing
  BY <1>1, <1>3 DEF Filing, CleanUp, CaptureAdmin, CaptureXr, Capture, NoxAdmin, NoxXr, Nox,
     Merge, Upload, Copy, Dir, device, campaign
<1>4. CASE Upgrading
  BY <1>4 DEF Upgrading, CheckFpd, UpgradeFpd, CheckLog, FpdTable, FpdStart, FpdEnds,
     campaign, device
<1>5. CASE Operator \/ Refresh \/ Audit \/ RunScript \/ Reload
  BY <1>5 DEF Operator, StartPre, StartMigrate, StartPost, Start, Refresh, Audit, RunScript,
     Reload, campaign, world, device
<1> QED
  BY <1>2, <1>3, <1>4, <1>5, Steps

\* "pre" is what the operator sees after the return of Pre-Migrate, and until Migrate
\* has returned or Pre-Migrate is begun again.
LEMMA ProgressMoves ==
  MInv /\ [Next]_vars /\ progress' = "pre" =>
    \/ progress = "pre" /\ preRun' = preRun /\ cards' = cards
    \/ Refresh /\ phase = "pre"
<1> SUFFICES ASSUME MInv, [Next]_vars, progress' = "pre", ~(Refresh /\ phase = "pre")
             PROVE  progress = "pre" /\ preRun' = preRun /\ cards' = cards
  OBVIOUS
<1>1. CASE Control
  BY <1>1, ControlStays DEF campaign
<1>2. CASE Filing
  BY <1>2 DEF Filing, CleanUp, CaptureAdmin, CaptureXr, Capture, NoxAdmin, NoxXr, Nox,
     Merge, Upload, Copy, DialogStep, Dir, campaign
<1>3. CASE Upgrading
  BY <1>3 DEF Upgrading, CheckFpd, UpgradeFpd, CheckLog, FpdTable, FpdStart, FpdEnds,
     campaign
<1>4. CASE Operator \/ Refresh \/ Audit \/ RunScript \/ Reload
  BY <1>4 DEF Operator, StartPre, StartMigrate, StartPost, Start, Refresh, Audit, RunScript,
     Reload, campaign
<1> QED
  BY <1>1, <1>2, <1>3, <1>4, Steps

\* Once Pre-Migrate has returned, the files on the router are those of the run that
\* returned, complete and made from its configurations, whatever earlier runs have left
\* in csm_data, in the repository and on the router, and whatever later ones do.
THEOREM FilesProvisioned ==
  ASSUME ~Quiet PROVE Spec => []Provisioned
<1>1. Init => FilesMade /\ FilesCopied /\ Provisioned
  BY DEF Init, FilesMade, FilesCopied, Provisioned
<1>2. MInv /\ FilesMade /\ FilesCopied /\ Provisioned /\ [Next]_vars => Provisioned'
  <2> SUFFICES ASSUME MInv, FilesMade, FilesCopied, Provisioned, [Next]_vars, progress' = "pre"
               PROVE  Provisioned'
    BY DEF Provisioned
  <2>1. CASE Refresh /\ phase = "pre"
    <3>1. UNCHANGED <<disk, whole, job, preRun>> /\ preRun = run
      BY <2>1 DEF Refresh, world, device, MInv, PhasesInOrder
    <3>2. \A i \in 1 .. Len(CopyList) :
            CopyList[i] \in whole /\ disk[CopyList[i]] = Made(CopyList[i]) \X {run}
      BY <2>1, MadeFiles DEF FilesCopied, Arrived, Refresh
    <3> QED
      BY <3>1, <3>2 DEF Provisioned, CopyList, Made
  <2>2. CASE progress = "pre" /\ preRun' = preRun
    <3>1. UNCHANGED <<disk, whole, job>>
      BY <2>2, DiskKept
    <3> QED
      BY <2>2, <3>1 DEF Provisioned, CopyList, Made
  <2> QED
    BY <2>1, <2>2, ProgressMoves
<1> QED
  BY <1>1, <1>2, StepMade, StepCopied, Invariance, PTL DEF Spec

-----------------------------------------------------------------------------
(* The FPDs before the migration, and the reload into 64-bit IOS XR.       *)

\* Labels at which nothing has been audited, or which a run does not come back from.
Unaudited == Over \cup {"audit", "error"}

\* They are left by the audit and the operator only.
LEMMA ControlAudited == Control /\ pc \in Unaudited => pc' \in Unaudited
<1> SUFFICES ASSUME Control, pc \in Unaudited PROVE pc' \in Unaudited
  OBVIOUS
<1> USE DEF Unaudited, Over, Goto
<1>1. CASE RaiseError \/ NoLine \/ SendFails
  BY <1>1 DEF RaiseError, NoLine, SendFails
<1>2. CASE Idle \/ UNCHANGED vars
  BY <1>2 DEF Idle, vars
<1> QED
  BY <1>1, <1>2 DEF Control, Checks, EnterKsh, ExitKsh, DialogEnds, CheckBackups, BandVersion,
     BandAdmin, BandNodes, BandExit, BandPoll, BandTimeout, Commands, FpdAdmin, FpdPoll,
     FpdTimeout, FpdExit

\* The audit found every card in order, and marked those that are taken over.
Fit == marks = {l \in Locs : Marked(cards[l])} /\ \A l \in Locs : ~Unfit(cards[l])

\* What the audit found stays true as long as the marks and the cards are the same.
LEMMA FitStays == UNCHANGED <<marks, cards, job>> /\ Fit => Fit'
BY DEF Fit, Marked, Unfit, Mandatory

\* Under IOS XR no upgrade goes on by itself, and the log tells of what is current.
XrQuiet ==
  os = "XR" => /\ \A f \in Fpds : fpd[f] \in {"current", "need"}
               /\ \A f \in logged : fpd[f] = "current"

\* What needs an upgrade on a marked card is on the list, until it is logged.
Listed ==
  /\ phase = "pre" /\ pc \notin Unaudited => Fit
  /\ phase = "pre" /\ pc \in {"upgrade", "fpdlog"} =>
       \A f \in Fpds : fpd[f] = "need" /\ f[2] \in marks => f \in todo
  /\ phase = "pre" /\ pc = "refresh" => \A f \in Fpds : fpd[f] = "need" => f[2] \notin marks

FpdsOfXr == XrQuiet /\ Listed

\* No step of IOS XR starts an upgrade that goes on.
LEMMA StepQuiet == MInv /\ XrQuiet /\ [Next]_vars => XrQuiet'
<1> SUFFICES ASSUME MInv, XrQuiet, [Next]_vars PROVE XrQuiet'
  OBVIOUS
<1>1. fpd \in [Fpds -> FpdStates] /\ logged \subseteq Fpds
  BY DEF MInv, TypeOK
<1>2. CASE UNCHANGED <<os, fpd, logged>>
  BY <1>2 DEF XrQuiet
<1>3. CASE UpgradeFpd
  <2>1. PICK S \in SUBSET Fpds :
          /\ fpd' = [f \in Fpds |-> IF f \in S THEN "current" ELSE fpd[f]]
          /\ logged' = logged \cup S
    BY <1>3 DEF UpgradeFpd
  <2>2. os = "XR"
    BY <1>3 DEF UpgradeFpd, MInv, LabelsInPlace, PhasesInOrder, PreOnly
  <2>3. \A f \in Fpds : fpd'[f] \in {"current", "need"}
    BY <2>1, <2>2 DEF XrQuiet
  <2>4. \A f \in logged' : fpd'[f] = "current"
    BY <1>1, <2>1, <2>2 DEF XrQuiet
  <2> QED
    BY <2>3, <2>4 DEF XrQuiet
<1>4. CASE FpdStart
  BY <1>4 DEF FpdStart, MInv, LabelsInPlace, PhasesInOrder, PostOnly, XrQuiet, box
<1>5. ASSUME NEW f \in Fpds, FpdEnds(f) PROVE XrQuiet'
  BY <1>5 DEF FpdEnds, XrQuiet, box
<1>6. CASE Reload
  <2>1. logged' = logged /\ (os' = "XR" => os = "XR" /\ fpd' = fpd)
    BY <1>6 DEF Reload, MInv, PhasesInOrder, LabelsInPlace
  <2> QED
    BY <2>1 DEF XrQuiet
<1>7. CASE Control
  BY <1>2, <1>7, ControlStays DEF world, fpds, box
<1>8. CASE Filing
  BY <1>2, <1>8 DEF Filing, CleanUp, CaptureAdmin, CaptureXr, Capture, NoxAdmin, NoxXr, Nox,
     Merge, Upload, Copy, DialogStep, Dir, fpds, box
<1>9. CASE Operator \/ Refresh \/ Audit \/ RunScript
  BY <1>2, <1>9 DEF Operator, StartPre, StartMigrate, StartPost, Start, Refresh, Audit,
     RunScript, world, fpds, box
<1>10. CASE CheckFpd \/ CheckLog \/ FpdTable
  BY <1>2, <1>10 DEF CheckFpd, CheckLog, FpdTable, box
<1> QED
  BY <1>3, <1>4, <1>5, <1>6, <1>7, <1>8, <1>9, <1>10, Steps DEF Upgrading

\* The steps of _ensure_updated_fpd and of the FPDs.
LEMMA UpgradingListed == MInv /\ FpdsOfXr /\ Upgrading => Listed'
<1> SUFFICES ASSUME MInv, FpdsOfXr, Upgrading PROVE Listed'
  OBVIOUS
<1>1. UNCHANGED <<phase, os, marks, cards, job>>
  BY DEF Upgrading, CheckFpd, UpgradeFpd, CheckLog, FpdTable, FpdStart, FpdEnds, campaign, box
<1>2. fpd \in [Fpds -> FpdStates] /\ logged \subseteq Fpds
  BY DEF MInv, TypeOK
<1>3. ASSUME phase = "pre" PROVE CheckFpd \/ UpgradeFpd \/ CheckLog
  <2>1. ~FpdTable /\ ~FpdStart
    BY <1>3 DEF FpdTable, FpdStart, MInv, LabelsInPlace, PostOnly
  <2>2. ASSUME NEW f \in Fpds, FpdEnds(f) PROVE FALSE
    BY <1>3, <2>2 DEF FpdEnds, FpdsOfXr, XrQuiet, MInv, PhasesInOrder
  <2> QED
    BY <2>1, <2>2 DEF Upgrading
<1>4. ASSUME phase = "pre" PROVE Fit'
  <2>1. pc \notin Unaudited
    BY <1>3, <1>4 DEF CheckFpd, UpgradeFpd, CheckLog, Unaudited, Over
  <2> QED
    BY <1>1, <1>4, <2>1, FitStays DEF FpdsOfXr, Listed
<1>5. CASE CheckFpd
  <2>1. /\ fpd' = fpd /\ todo' = {f \in Fpds : fpd[f] = "need" /\ f[2] \in marks}
        /\ pc' = IF todo' = {} THEN "refresh" ELSE "upgrade"
    BY <1>5 DEF CheckFpd, Goto
  <2>2. \A f \in Fpds : fpd[f] = "need" /\ f[2] \in marks => f \in todo'
    BY <2>1
  <2>3. pc' = "refresh" => \A f \in Fpds : fpd[f] = "need" => f[2] \notin marks
    BY <2>1, <2>2
  <2> QED
    BY <1>1, <1>4, <2>1, <2>2, <2>3 DEF Listed
<1>6. CASE UpgradeFpd
  <2>1. PICK S \in SUBSET Fpds :
          fpd' = [f \in Fpds |-> IF f \in S THEN "current" ELSE fpd[f]]
    BY <1>6 DEF UpgradeFpd
  <2>2. phase = "pre" /\ todo' = todo /\ pc = "upgrade" /\ pc' \in {"fpdlog", "error"}
    BY <1>6 DEF UpgradeFpd, MInv, LabelsInPlace, PreOnly
  <2>3. \A f \in Fpds : fpd[f] = "need" /\ f[2] \in marks => f \in todo
    BY <2>2 DEF FpdsOfXr, Listed
  <2>4. \A f \in Fpds : fpd'[f] = "need" /\ f[2] \in marks => f \in todo
    BY <2>1, <2>3
  <2> QED
    BY <1>1, <1>4, <2>2, <2>4 DEF Listed
<1>7. CASE CheckLog
  <2>1. phase = "pre" /\ os = "XR" /\ pc = "fpdlog" /\ UNCHANGED <<fpd, logged>>
    BY <1>7 DEF CheckLog, MInv, LabelsInPlace, PhasesInOrder, PreOnly
  <2>2. CASE pc' = "error"
    BY <1>1, <1>4, <2>1, <2>2 DEF Listed
  <2>3. CASE pc' # "error"
    <3> DEFINE S == {f \in todo : f[1] = subtype}
    <3>1. Reported(S) /\ todo' = todo \ S /\ pc' = (IF todo' = {} THEN "refresh" ELSE "upgrade")
      BY <1>7, <2>3 DEF CheckLog, Goto
    <3>2. \A f \in S : fpd[f] = "current"
      BY <2>1, <3>1 DEF Reported, FpdsOfXr, XrQuiet
    <3>3. \A f \in Fpds : fpd[f] = "need" /\ f[2] \in marks => f \in todo
      BY <2>1 DEF FpdsOfXr, Listed
    <3> HIDE DEF S
    <3>4. \A f \in Fpds : fpd[f] = "need" /\ f[2] \in marks => f \in todo'
      BY <3>1, <3>2, <3>3
    <3>5. pc' = "refresh" => \A f \in Fpds : fpd[f] = "need" => f[2] \notin marks
      BY <3>1, <3>4
    <3> QED
      BY <1>1, <1>4, <2>1, <3>1, <3>4, <3>5 DEF Listed
  <2> QED
    BY <2>2, <2>3
<1> QED
  BY <1>1, <1>3, <1>5, <1>6, <1>7 DEF Listed

\* Every step.
LEMMA StepOfXr == MInv /\ FpdsOfXr /\ [Next]_vars => FpdsOfXr'
<1> SUFFICES ASSUME MInv, FpdsOfXr, [Next]_vars PROVE Listed'
  BY StepQuiet DEF FpdsOfXr
<1>1. CASE Control
  <2>1. UNCHANGED <<phase, cards, job, marks, fpd, todo>>
    BY <1>1, ControlStays DEF campaign, world, fpds
  <2>2. phase = "pre" /\ pc' \in Making => pc' = pc
    BY <1>1, ControlStays
  <2>3. pc' \notin Unaudited => pc \notin Unaudited
    BY <1>1, ControlAudited
  <2>4. phase = "pre" /\ pc' \notin Unaudited => Fit'
    BY <2>1, <2>3, FitStays DEF FpdsOfXr, Listed
  <2> QED
    BY <2>1, <2>2, <2>4 DEF FpdsOfXr, Listed, Making
<1>2. CASE Filing
  <2>1. UNCHANGED <<phase, cards, job, marks>>
    BY <1>2 DEF Filing, CleanUp, CaptureAdmin, CaptureXr, Capture, NoxAdmin, NoxXr, Nox,
       Merge, Upload, Copy, DialogStep, Dir, campaign, fpds, box
  <2>2. pc \notin Unaudited /\ pc' \notin {"upgrade", "fpdlog", "refresh"}
    BY <1>2 DEF Filing, CleanUp, CaptureAdmin, CaptureXr, Capture, NoxAdmin, NoxXr, Nox,
       Merge, Upload, Copy, DialogStep, Dir, Goto, Unaudited, Over
  <2> QED
    BY <2>1, <2>2, FitStays DEF FpdsOfXr, Listed
<1>3. CASE Upgrading
  BY <1>3, UpgradingListed
<1>4. CASE Operator
  <2>1. phase' # "pre" \/ pc' = "audit"
    BY <1>4 DEF Operator, StartPre, StartMigrate, StartPost, Start, Goto
  <2> QED
    BY <2>1 DEF Listed, Unaudited
<1>5. CASE Refresh \/ RunScript
  <2>1. UNCHANGED <<phase, cards, job, marks>>
    BY <1>5 DEF Refresh, RunScript, campaign, world
  <2>2. pc \notin Unaudited /\ pc' \in {"returned", "unksh"}
    BY <1>5 DEF Refresh, RunScript, Goto, Unaudited, Over
  <2> QED
    BY <2>1, <2>2, FitStays DEF FpdsOfXr, Listed
<1>6. CASE Audit
  <2>1. pc' \in {"error", "checks"}
    BY <1>6 DEF Audit, Goto
  <2>2. pc' = "checks" => Fit'
    BY <1>6 DEF Audit, campaign, Goto, Fit, Unfit, Marked, Mandatory
  <2> QED
    BY <2>1, <2>2 DEF Listed, Unaudited
<1>7. CASE Reload
  BY <1>7 DEF Reload, MInv, LabelsInPlace, campaign, Listed
<1> QED
  BY <1>1, <1>2, <1>3, <1>4, <1>5, <1>6, <1>7, Steps

\* After Pre-Migrate no FPD of a card that is taken over needs an upgrade: each was
\* logged as upgraded by this attempt or was current, and none changes until the
\* router runs another system.
THEOREM FpdsCurrent ==
  ASSUME ~Quiet PROVE Spec => []FpdsUpgraded
<1>1. Init => FpdsOfXr /\ FpdsUpgraded
  <2> SUFFICES ASSUME Init PROVE FpdsOfXr /\ FpdsUpgraded
    OBVIOUS
  <2>1. \A f \in Fpds : fpd[f] \in {"current", "need"}
    BY DEF Init
  <2>2. logged = {} /\ pc = "idle" /\ progress = "none"
    BY DEF Init
  <2> QED
    BY <2>1, <2>2 DEF FpdsOfXr, XrQuiet, Listed, FpdsUpgraded, Unaudited, Over
<1>2. MInv /\ FpdsOfXr /\ FpdsUpgraded /\ [Next]_vars => FpdsUpgraded'
  <2> SUFFICES ASSUME MInv, FpdsOfXr, FpdsUpgraded, [Next]_vars,
                      progress' = "pre", os' = "XR", NEW f \in Fpds, fpd'[f] = "need"
               PROVE  LET c == cards'[f[2]] IN
                        c.kind \in {"FAN", "PEM"} \/ (c.kind = "LC" /\ ~c.listed)
    BY DEF FpdsUpgraded
  <2>1. CASE Refresh /\ phase = "pre"
    <3>1. UNCHANGED <<fpd, cards>> /\ Fit /\ f[2] \notin marks
      BY <2>1 DEF Refresh, world, fpds, FpdsOfXr, Listed, Unaudited, Over
    <3>2. f[2] \in Locs /\ cards[f[2]] \in Card
      BY MigrationAssumption DEF MInv, TypeOK
    <3> QED
      BY <3>1, <3>2 DEF Fit, Marked, Unfit, Mandatory, Card, Kinds
  <2>2. CASE progress = "pre" /\ cards' = cards
    <3>1. os = "XR" /\ fpd[f] = "need"
      <4>1. CASE Control \/ Filing \/ Operator \/ Refresh \/ Audit \/ RunScript
        BY <4>1, ControlStays
           DEF Filing, CleanUp, CaptureAdmin, CaptureXr, Capture, NoxAdmin, NoxXr, Nox, Merge,
           Upload, Copy, DialogStep, Dir, Operator, StartPre, StartMigrate, StartPost, Start,
           Refresh, Audit, RunScript, world, fpds, box
      <4>2. CASE Upgrading
        BY <2>2, <4>2
           DEF Upgrading, CheckFpd, UpgradeFpd, CheckLog, FpdTable, FpdStart, FpdEnds, box,
           FpdsOfXr, XrQuiet, MInv, TypeOK, LabelsInPlace, PhasesInOrder, PostOnly
      <4>3. CASE Reload
        BY <4>3 DEF Reload, MInv, PhasesInOrder
      <4> QED
        BY <4>1, <4>2, <4>3, Steps
    <3> QED
      BY <2>2, <3>1 DEF FpdsUpgraded
  <2> QED
    BY <2>1, <2>2, ProgressMoves
<1> QED
  BY <1>1, <1>2, StepOfXr, Invariance, PTL DEF Spec

\* From the script on, the boot mode that counts is the one this run has set.
ScriptRun ==
  phase = "migrate" =>
    /\ pc \in {"backups", "reload"} \/ (pc = "unksh" /\ after = "backups") => boot = run
    /\ pc = "reload" => backup

\* Migrate gets to the reload by its script and the check of the backups only.
LEMMA StepScript ==
  ASSUME ~Quiet PROVE MInv /\ ScriptRun /\ [Next]_vars => ScriptRun'
<1> SUFFICES ASSUME MInv, ScriptRun, [Next]_vars PROVE ScriptRun'
  OBVIOUS
<1> USE DEF ScriptRun, campaign, Goto
<1>1. CASE Control
  <2>1. UNCHANGED <<phase, run, boot, backup>>
    BY <1>1, ControlStays DEF world, box
  <2>2. CASE ExitKsh \/ CheckBackups
    BY <2>1, <2>2 DEF ExitKsh, CheckBackups, NothingElse, session, MInv, LabelsInPlace, Then
  <2>3. CASE Idle \/ UNCHANGED vars
    BY <2>1, <2>3 DEF Idle, vars
  <2>4. CASE pc' \notin {"backups", "reload", "unksh"}
    BY <2>1, <2>4
  <2>5. CASE FpdExit \/ BandPoll \/ BandTimeout
    BY <2>1, <2>5 DEF FpdExit, ExitAdmin, BandPoll, BandTimeout, MInv, LabelsInPlace, InBand,
       PostOnly
  <2> QED
    BY <1>1, <2>2, <2>3, <2>4, <2>5
       DEF Control, RaiseError, NoLine, SendFails, Checks, EnterKsh, DialogEnds, BandVersion,
       BandAdmin, BandNodes, BandExit, Commands, FpdAdmin, FpdPoll, FpdTimeout, EnterAdmin,
       ExitAdmin
<1>2. CASE Filing
  BY <1>2 DEF Filing, CleanUp, CaptureAdmin, CaptureXr, Capture, NoxAdmin, NoxXr, Nox,
     Merge, Upload, Copy, DialogStep, Dir
<1>3. CASE Upgrading
  <2>1. UNCHANGED <<phase, run, boot, backup>>
    BY <1>3 DEF Upgrading, CheckFpd, UpgradeFpd, CheckLog, FpdTable, FpdStart, FpdEnds, box
  <2>2. pc' \notin {"backups", "reload", "unksh"} \/ UNCHANGED <<pc, after>>
    BY <1>3 DEF Upgrading, CheckFpd, UpgradeFpd, CheckLog, FpdTable, FpdStart, FpdEnds
  <2> QED
    BY <2>1, <2>2
<1>4. CASE Operator \/ Refresh \/ Audit \/ Reload
  BY <1>4 DEF Operator, StartPre, StartMigrate, StartPost, Start, Refresh, Audit, Reload
<1>5. CASE RunScript
  BY <1>5 DEF RunScript, AfterScript, Then
<1> QED
  BY <1>1, <1>2, <1>3, <1>4, <1>5, Steps

\* The reload that cannot be undone comes only after Pre-Migrate has returned and this
\* very run of Migrate has set the boot mode and seen the backups.
THEOREM ReloadPrepared ==
  ASSUME ~Quiet PROVE Spec => []ReloadsPrepared
<1>1. Init => ScriptRun
  BY DEF Init, ScriptRun
<1>2. MInv /\ ScriptRun => ReloadsPrepared
  BY DEF MInv, PhasesInOrder, Over, ScriptRun, ReloadsPrepared
<1> QED
  BY <1>1, <1>2, StepScript, Invariance, PTL DEF Spec

-----------------------------------------------------------------------------
(* The FPDs after the migration.                                           *)

\* No upgrade is known to be under way until the plugin starts one; it starts them
\* all and counts them all; and it goes on when none is under way any more.
Unstarted == (pc \in InBand /\ after = "configs") \/ pc \in {"configs", "fpdadmin", "table", "start"}
Done ==
  \/ pc \in {"reload", "platform", "refresh", "returned"}
  \/ pc \in InBand /\ after = "platform"
  \/ pc = "fpdexit" /\ after # "error"
FpdsOfExr ==
  phase = "post" =>
    /\ Unstarted => \A f \in Fpds : fpd[f] \in {"current", "need"}
    /\ pc \in {"start", "poll"} => num = Cardinality(Fpds)
    /\ Done => \A f \in Fpds : fpd[f] # "upgrading"

\* What is counted says that no upgrade is under way.
LEMMA PollEnds ==
  ASSUME MInv, FpdsOfExr, phase = "post", pc = "poll", Upgraded
  PROVE  \A f \in Fpds : fpd[f] # "upgrading"
<1>1. num = Cardinality(Fpds)
  BY DEF FpdsOfExr
<1>2. InState("current") + InState("rload") \in 0 .. Cardinality(Fpds)
  BY Counted
<1>3. Cardinality(Fpds) \in Nat
  BY MigrationAssumption, FS_CardinalityType
<1>4. InState("current") + InState("rload") = Cardinality(Fpds)
  BY <1>1, <1>2, <1>3 DEF Upgraded
<1>5. \A f \in Fpds : fpd[f] \in {"current", "rload"}
  BY <1>4, Counted
<1> QED
  BY <1>5

\* The steps that do not touch an FPD.
LEMMA ControlOfExr == MInv /\ FpdsOfExr /\ Control => FpdsOfExr'
<1> SUFFICES ASSUME MInv, FpdsOfExr, Control, phase = "post" PROVE FpdsOfExr'
  BY ControlStays DEF FpdsOfExr, campaign
<1>1. UNCHANGED <<phase, fpd, num>>
  BY ControlStays DEF campaign, world, fpds
<1>2. CASE FpdPoll
  <2>1. \/ pc' = "fpdexit" /\ Upgraded
        \/ UNCHANGED <<pc, after>>
    BY <1>2 DEF FpdPoll, Goto
  <2>2. CASE pc' = "fpdexit" /\ Upgraded
    BY <1>1, <1>2, <2>2, PollEnds DEF FpdPoll, FpdsOfExr, Unstarted, InBand
  <2>3. CASE UNCHANGED <<pc, after>>
    BY <1>1, <2>3 DEF FpdsOfExr, Unstarted, Done
  <2> QED
    BY <2>1, <2>2, <2>3
<1> DEFINE Moves ==
      /\ Unstarted' => Unstarted
      /\ pc' \in {"start", "poll"} => pc' = pc
      /\ Done' => Done
<1>3. ASSUME ~FpdPoll PROVE Moves
  <2>1. CASE RaiseError \/ NoLine \/ SendFails \/ DialogEnds \/ FpdTimeout
    BY <2>1 DEF RaiseError, NoLine, SendFails, DialogEnds, FpdTimeout, Unstarted, Done, InBand,
       Goto
  <2>2. CASE Checks \/ EnterKsh \/ ExitKsh \/ CheckBackups
    BY <2>2 DEF Checks, EnterKsh, ExitKsh, CheckBackups, MInv, LabelsInPlace, PreOnly
  <2>3. CASE BandVersion \/ BandNodes
    BY <2>3 DEF BandVersion, BandNodes, NothingElse, Unstarted, Done, InBand
  <2>4. CASE BandAdmin \/ BandExit
    BY <2>4 DEF BandAdmin, BandExit, EnterAdmin, ExitAdmin, Goto, Unstarted, Done, InBand
  <2>5. CASE BandPoll \/ BandTimeout
    BY <2>5 DEF BandPoll, BandTimeout, NothingElse, Goto, Unstarted, Done, InBand, MInv,
       LabelsInPlace
  <2>6. CASE Commands \/ FpdAdmin
    BY <2>6 DEF Commands, FpdAdmin, EnterAdmin, Goto, Unstarted, Done, InBand
  <2>7. CASE FpdExit
    BY <2>7 DEF FpdExit, ExitAdmin, Goto, Unstarted, Done, InBand, MInv, LabelsInPlace
  <2>8. CASE Idle \/ UNCHANGED vars
    BY <2>8 DEF Idle, vars, Unstarted, Done
  <2> QED
    BY <1>3, <2>1, <2>2, <2>3, <2>4, <2>5, <2>6, <2>7, <2>8 DEF Control
<1>4. CASE Moves
  BY <1>1, <1>4 DEF FpdsOfExr
<1> QED
  BY <1>2, <1>3, <1>4

\* The table, the start of the upgrades, and their ends.
LEMMA UpgradingOfExr == MInv /\ FpdsOfExr /\ Upgrading => FpdsOfExr'
<1> SUFFICES ASSUME MInv, FpdsOfExr, Upgrading, phase = "post" PROVE FpdsOfExr'
  BY DEF FpdsOfExr, Upgrading, CheckFpd, UpgradeFpd, CheckLog, FpdTable, FpdStart, FpdEnds,
     campaign
<1>1. fpd \in [Fpds -> FpdStates]
  BY DEF MInv, TypeOK
<1>2. CASE CheckFpd \/ UpgradeFpd \/ CheckLog
  BY <1>2 DEF CheckFpd, UpgradeFpd, CheckLog, MInv, LabelsInPlace, PreOnly
<1>3. CASE FpdTable
  <2>1. fpd' = fpd /\ \A f \in Fpds : fpd[f] \in {"current", "need"}
    BY <1>3 DEF FpdTable, FpdsOfExr, Unstarted
  <2>2. Expected = Cardinality(Fpds)
    BY <2>1, Counted DEF Expected
  <2>3. (pc' = "start" /\ num' = Expected) \/ pc' = "fpdexit"
    BY <1>3 DEF FpdTable, Goto
  <2> QED
    BY <2>1, <2>2, <2>3 DEF FpdsOfExr, Unstarted, Done
<1>4. CASE FpdStart
  BY <1>4 DEF FpdStart, FpdsOfExr, Unstarted, Done, Goto, InBand
<1>5. ASSUME NEW f \in Fpds, FpdEnds(f) PROVE FpdsOfExr'
  <2>1. UNCHANGED <<pc, after, num, phase>> /\ fpd[f] = "upgrading"
    BY <1>5 DEF FpdEnds, campaign
  <2>2. ~Unstarted /\ ~Done
    BY <2>1 DEF FpdsOfExr
  <2> QED
    BY <2>1, <2>2 DEF FpdsOfExr, Unstarted, Done
<1> QED
  BY <1>2, <1>3, <1>4, <1>5 DEF Upgrading

\* Every step.
LEMMA StepOfExr ==
  ASSUME Settled PROVE MInv /\ FpdsOfExr /\ [Next]_vars => FpdsOfExr'
<1> SUFFICES ASSUME MInv, FpdsOfExr, [Next]_vars PROVE FpdsOfExr'
  OBVIOUS
<1>1. CASE Control
  BY <1>1, ControlOfExr
<1>2. CASE Filing \/ Audit \/ RunScript
  <2>1. phase # "post" /\ phase' = phase
    BY <1>2 DEF Filing, CleanUp, CaptureAdmin, CaptureXr, Capture, NoxAdmin, NoxXr, Nox,
       Merge, Upload, Copy, DialogStep, Dir, Audit, RunScript, campaign, MInv,
       LabelsInPlace, PreOnly
  <2> QED
    BY <2>1 DEF FpdsOfExr
<1>3. CASE Upgrading
  BY <1>3, UpgradingOfExr
<1>4. CASE StartPre \/ StartMigrate
  BY <1>4 DEF StartPre, StartMigrate, Start, FpdsOfExr
<1>5. CASE StartPost
  BY <1>5 DEF StartPost, Start, Goto, FpdsOfExr, Unstarted, Done, InBand, fpds
<1>6. CASE Refresh
  BY <1>6 DEF Refresh, Goto, campaign, world, fpds, FpdsOfExr, Unstarted, Done, InBand
<1>7. CASE Reload
  <2>1. phase' = phase /\ pc = "reload" /\ pc' = "band" /\ after' = "platform"
    BY <1>7 DEF Reload, campaign, Goto
  <2>2. phase = "post" => \A f \in Fpds : fpd'[f] # "upgrading"
    <3> SUFFICES ASSUME phase = "post", NEW f \in Fpds PROVE fpd'[f] # "upgrading"
      OBVIOUS
    <3>1. fpd[f] # "upgrading"
      BY <2>1 DEF FpdsOfExr, Done
    <3>2. \/ fpd' = fpd
          \/ fpd' = [g \in Fpds |-> CASE fpd[g] = "rload" -> "current"
                                      [] fpd[g] = "upgrading" -> "need"
                                      [] OTHER -> fpd[g]]
      BY <1>7 DEF Reload
    <3> QED
      BY <3>1, <3>2
  <2> QED
    BY <2>1, <2>2 DEF FpdsOfExr, Unstarted, Done
<1> QED
  BY <1>1, <1>2, <1>3, <1>4, <1>5, <1>6, <1>7, Steps DEF Operator

\* Post-Migrate goes on to its reload, or to its end, only when every upgrade it has
\* started is over - if none was under way, or waited for a reload, when it was begun.
THEOREM FpdsFinished ==
  ASSUME Settled PROVE Spec => []UpgradeFinished
<1>1. Init => FpdsOfExr
  BY DEF Init, FpdsOfExr
<1>2. FpdsOfExr => UpgradeFinished
  BY DEF FpdsOfExr, Done, UpgradeFinished
<1> QED
  BY <1>1, <1>2, StepOfExr, Invariance, PTL DEF Spec
=============================================================================
