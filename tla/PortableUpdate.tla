--------------------------- MODULE PortableUpdate ---------------------------
(* The portable self-update: the dialog that launches zarya-updater and      *)
(* quits (updater/installers/PortableUpdateInstaller.cpp), the updater with  *)
(* its backup, replacement, check and rollback                               *)
(* (updater/runner/PortableUpdateApplier.cpp, UpdateRollback.cpp) and the    *)
(* notices of the next start (updater/AppUpdateStateManager.cpp).  The       *)
(* application directory is a function from files to the version they come   *)
(* from; one step handles one file, so the updater can fail or be killed     *)
(* between any two.                                                          *)
EXTENDS Integers, Sequences

CONSTANTS AppFiles,   \* files of a release, at the top of the directory or below
          NestedFiles, \* those under a directory's own data, runtime or cores
          UserFiles,  \* files under the preserved paths
          Exe,        \* the main executable, one of AppFiles
          MaxVersion, \* bound: the releases are 0 .. MaxVersion
          MaxBackups, \* bound: backups at the start of an update
          Retention,  \* appUpdateBackupRetentionCount
          UpdFaults   \* which failures may happen, see UpdFaultKinds

\* "copy", "remove": a file cannot be copied, removed (on Windows the updater cannot
\* remove its own executable).  "check": the new version does not start or names
\* another version.  "launch": the updater is missing or does not start.  "plan": the
\* updater cannot read the plan, which may have been cut off when it was written.
\* "wait": Zarya does not quit in time.  "probe": the list of processes
\* cannot be read, which counts as gone.  "start": the user starts Zarya while the
\* updater works.  "restart": it cannot be started again.  "kill": the updater is killed.
UpdFaultKinds ==
  {"copy", "remove", "check", "launch", "plan", "wait", "probe", "start", "restart", "kill"}

Mine == -1     \* the content of the user's files
Absent == -2
Versions == 0 .. MaxVersion
AllFiles == AppFiles \cup UserFiles

ASSUME FilesAssumption ==
  Exe \in AppFiles \ NestedFiles /\ NestedFiles \subseteq AppFiles /\ AppFiles \cap UserFiles = {}
ASSUME BoundsAssumption ==
  MaxVersion \in Nat /\ MaxBackups \in Nat \ {0} /\ Retention \in Nat
ASSUME UpdFaultsAssumption == UpdFaults \subseteq UpdFaultKinds

VARIABLES app,      \* the application directory
          backups,  \* the backup folders, the newest last
          phase,    \* what the updater is at
          todo,     \* the files its present loop has left
          target,   \* the version of the staged release
          mainUp,   \* Zarya runs
          files     \* the state files that exist

vars == <<app, backups, phase, todo, target, mainUp, files>>

UpdPhases == {"off", "wait", "backup", "remove", "copy", "check", "undoRemove", "undoCopy"}
StateFiles == {"pending", "success", "failed", "critical"}

UpdTypeOK ==
  /\ app \in [AllFiles -> Versions \cup {Mine, Absent}]
  /\ backups \in Seq([AppFiles -> Versions \cup {Absent}])
  /\ phase \in UpdPhases
  /\ todo \subseteq AppFiles
  /\ target \in Versions
  /\ mainUp \in BOOLEAN
  /\ files \subseteq StateFiles

UpdInit ==
  /\ app = [f \in AllFiles |-> IF f \in UserFiles THEN Mine ELSE 0]
  /\ backups = <<>>
  /\ phase = "off"
  /\ todo = {}
  /\ target = 0
  /\ mainUp = TRUE
  /\ files = {}

-----------------------------------------------------------------------------

\* isPreservedRelativePath: what is under a preserved path is not the updater's.
Preserved == UserFiles

\* Mutant of Entries: the preserved paths are listed too.
EverythingIn(directory) == {f \in DOMAIN directory : directory[f] # Absent}

\* The files of a directory that a loop goes through.
Entries(directory) == {f \in DOMAIN directory \ Preserved : directory[f] # Absent}

\* createBackup copies directory by directory, and takes the preserved paths for relative to
\* each.  The loops that remove and restore do not.
BackedUp == AppFiles \ NestedFiles

\* A release may ship files under the preserved paths.
Staged == [f \in AllFiles |-> target]

Backup == backups[Len(backups)]

Goes(to, list) == phase' = to /\ todo' = list
Ends == Goes("off", {})

\* The loop is over and the next one begins with its list of files.
LoopEnds(from, to, list) ==
  /\ phase = from
  /\ todo = {}
  /\ Goes(to, list)
  /\ UNCHANGED <<app, backups, target, mainUp, files>>

\* One file after the other; a failure ends the updater there and then.
LoopFails(from, fault) ==
  /\ phase = from
  /\ todo # {}
  /\ fault \in UpdFaults
  /\ Ends
  /\ UNCHANGED <<app, backups, target, mainUp, files>>

-----------------------------------------------------------------------------
(* Zarya                                                                     *)

\* The dialog offers a verified, staged release newer than the one that runs; the plan
\* is written, the updater launched, and only then Zarya quits.
Launch ==
  /\ phase = "off"
  /\ mainUp
  /\ Len(backups) < MaxBackups
  /\ target' \in {v \in Versions : v > app[Exe]}
  /\ files' = files \cup {"pending"}
  /\ Goes("wait", {})
  /\ UNCHANGED <<app, backups, mainUp>>

\* launchUpdaterAndQuit leaves the plan it wrote, and Zarya goes on.
LaunchFails ==
  /\ "launch" \in UpdFaults
  /\ phase = "off"
  /\ mainUp
  /\ files' = files \cup {"pending"}
  /\ UNCHANGED <<app, backups, phase, todo, target, mainUp>>

MainQuits ==
  /\ mainUp
  /\ mainUp' = FALSE
  /\ UNCHANGED <<app, backups, phase, todo, target, files>>

\* showStartupNotice: a success is announced and then forgotten with the plan; a failure is
\* announced again and again.
Announced(found) == IF "success" \in found THEN found \ {"success", "pending"} ELSE found

\* The user starts Zarya, if there is something to start.
UserStartsMain ==
  /\ phase = "off" \/ "start" \in UpdFaults
  /\ ~mainUp
  /\ app[Exe] # Absent
  /\ mainUp' = TRUE
  /\ files' = Announced(files)
  /\ UNCHANGED <<app, backups, phase, todo, target>>

-----------------------------------------------------------------------------
(* The updater                                                               *)

\* waitForMainProcessExit; then createBackup makes the folder of this update.
WaitEnds ==
  /\ phase = "wait"
  /\ ~mainUp \/ "probe" \in UpdFaults
  /\ Goes("backup", Entries(app) \cap BackedUp)
  /\ backups' = Append(backups, [f \in AppFiles |-> Absent])
  /\ UNCHANGED <<app, target, mainUp, files>>

\* UpdatePlan::readFile refuses a plan that is no JSON or lacks a field; nothing is
\* restarted.
PlanRefused ==
  /\ "plan" \in UpdFaults
  /\ phase = "wait"
  /\ Ends
  /\ UNCHANGED <<app, backups, target, mainUp, files>>

WaitTimesOut ==
  /\ "wait" \in UpdFaults
  /\ phase = "wait"
  /\ mainUp
  /\ Ends
  /\ UNCHANGED <<app, backups, target, mainUp, files>>

BackUpFile ==
  /\ phase = "backup"
  /\ \E f \in todo :
       /\ backups' = [backups EXCEPT ![Len(backups)][f] = app[f]]
       /\ todo' = todo \ {f}
  /\ UNCHANGED <<app, phase, target, mainUp, files>>

\* Mutant of BackupFails: what could not be backed up is skipped.
SkipsInBackup ==
  /\ phase = "backup"
  /\ todo # {}
  /\ "copy" \in UpdFaults
  /\ \E f \in todo : todo' = todo \ {f}
  /\ UNCHANGED <<app, backups, phase, target, mainUp, files>>

BackupFails == LoopFails("backup", "copy")
BackupEnds == LoopEnds("backup", "remove", Entries(app))

RemoveFile ==
  /\ phase \in {"remove", "undoRemove"}
  /\ \E f \in todo :
       /\ app' = [app EXCEPT ![f] = Absent]
       /\ todo' = todo \ {f}
  /\ UNCHANGED <<backups, phase, target, mainUp, files>>

RemoveFails == LoopFails("remove", "remove")
RemoveEnds == LoopEnds("remove", "copy", Entries(Staged))

CopyFile ==
  /\ phase = "copy"
  /\ \E f \in todo :
       /\ app' = [app EXCEPT ![f] = target]
       /\ todo' = todo \ {f}
  /\ UNCHANGED <<backups, phase, target, mainUp, files>>

CopyFails == LoopFails("copy", "copy")
CopyEnds == LoopEnds("copy", "check", {})

\* Zarya is restarted, or cannot be.
Restarts(ok) == (ok \/ "restart" \in UpdFaults) /\ mainUp' = (ok \/ mainUp)

\* pruneOldBackups keeps the newest ones, and the one of this update.
Pruned ==
  IF Retention = 0 \/ Len(backups) <= Retention
  THEN backups
  ELSE SubSeq(backups, Len(backups) - Retention + 1, Len(backups))

\* The restarted Zarya announces the success and removes the file and the plan.
CheckPasses ==
  /\ phase = "check"
  /\ backups' = Pruned
  /\ \E ok \in BOOLEAN :
       /\ Restarts(ok)
       /\ files' = (files \ {"pending"}) \cup (IF ok THEN {} ELSE {"success"})
  /\ Ends
  /\ UNCHANGED <<app, target>>

CheckFails ==
  /\ phase = "check"
  /\ "check" \in UpdFaults
  /\ Goes("undoRemove", Entries(app))
  /\ UNCHANGED <<app, backups, target, mainUp, files>>

UndoRemoveEnds == LoopEnds("undoRemove", "undoCopy", Entries(Backup))

\* Mutant of UndoCopyFile: the release is copied once more.
CopiesAgain ==
  /\ phase = "undoCopy"
  /\ \E f \in todo :
       /\ app' = [app EXCEPT ![f] = target]
       /\ todo' = todo \ {f}
  /\ UNCHANGED <<backups, phase, target, mainUp, files>>

UndoCopyFile ==
  /\ phase = "undoCopy"
  /\ \E f \in todo :
       /\ app' = [app EXCEPT ![f] = Backup[f]]
       /\ todo' = todo \ {f}
  /\ UNCHANGED <<backups, phase, target, mainUp, files>>

RollbackFails ==
  /\ todo # {}
  /\ \/ phase = "undoRemove" /\ "remove" \in UpdFaults
     \/ phase = "undoCopy" /\ "copy" \in UpdFaults
  /\ files' = files \cup {"critical"}
  /\ Ends
  /\ UNCHANGED <<app, backups, target, mainUp>>

RollbackEnds ==
  /\ phase = "undoCopy"
  /\ todo = {}
  /\ files' = files \cup {"failed"}
  /\ \E ok \in BOOLEAN : Restarts(ok)
  /\ Ends
  /\ UNCHANGED <<app, backups, target>>

UpdaterKilled ==
  /\ "kill" \in UpdFaults
  /\ phase # "off"
  /\ Ends
  /\ UNCHANGED <<app, backups, target, mainUp, files>>

Next ==
  \/ Launch
  \/ LaunchFails
  \/ MainQuits
  \/ UserStartsMain
  \/ WaitEnds
  \/ PlanRefused
  \/ WaitTimesOut
  \/ BackUpFile
  \/ BackupFails
  \/ BackupEnds
  \/ RemoveFile
  \/ RemoveFails
  \/ RemoveEnds
  \/ CopyFile
  \/ CopyFails
  \/ CopyEnds
  \/ CheckPasses
  \/ CheckFails
  \/ UndoRemoveEnds
  \/ UndoCopyFile
  \/ RollbackFails
  \/ RollbackEnds
  \/ UpdaterKilled

UpdateSpec == UpdInit /\ [][Next]_vars

-----------------------------------------------------------------------------
(* Properties                                                                *)

\* These files of one release.
Whole(directory, parts) == \E v \in Versions : \A f \in parts : directory[f] = v

\* Through failures at any file, kills and retries, some release is left on disk: the whole
\* application itself, or a backup with all of it that backups ever hold, without the files
\* below a directory's own data, runtime or cores (apply backs up before it removes).
SomeReleaseIsWhole ==
  Whole(app, AppFiles) \/ \E i \in 1 .. Len(backups) : Whole(backups[i], BackedUp)

\* Nothing under data, runtime, cores or portable.flag is ever removed or overwritten
\* (isPreservedRelativePath in every loop).
UserFilesStay == \A f \in UserFiles : app[f] = Mine

\* The application directory is not touched while the old Zarya still runs
\* (waitForMainProcessExit).
UntouchedWhileRunning == [][app' # app => ~mainUp]_vars

\* The updater reports success, and forgets the plan, for nothing less than the whole
\* new release (copyStagedFiles, runPostUpdateCheck).
SuccessIsWhole == [][CheckPasses => \A f \in AppFiles : app[f] = target]_vars

\* A rollback that says it is complete leaves exactly the files of its backup, the nested
\* ones not among them (UpdateRollback::rollback).
RollbackIsExact == [][RollbackEnds => \A f \in AppFiles : app[f] = Backup[f]]_vars

\* What the updater says of its end is so: success means the whole new release, a
\* complete rollback the exact files of the backup.
OutcomeIsExact == SuccessIsWhole /\ RollbackIsExact

\* An application that is not whole has its plan on disk, so that a later start can tell
\* (the stale-plan notice of checkStartupState).
BrokenIsNoticed == Whole(app, AppFiles) \/ "pending" \in files

=============================================================================
