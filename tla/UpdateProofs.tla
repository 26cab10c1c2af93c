---------------------------- MODULE UpdateProofs -----------------------------
(* Proofs about both halves of an update.  The dialog (UpdateCheck), for all *)
(* manifests, archives and settings: what the updater is launched with is    *)
(* verified, and one update suffices.  The updater (PortableUpdate), for     *)
(* every set of files, every number of releases and backups and every        *)
(* retention count.  Unless a theorem says otherwise they hold with all      *)
(* failures.                                                                 *)
EXTENDS UpdateCheck, PortableUpdate, SequenceTheorems, TLAPS

-----------------------------------------------------------------------------
(* The order of versions                                                     *)

LEMMA RankFacts == \A suffix : Rank(suffix) \in 0 .. 3
BY DEF Rank

\* isLessThan is a strict order, and versions that compare equal have the same place.
LEMMA LessFacts ==
  ASSUME NEW a \in AppVersions, NEW b \in AppVersions, NEW c \in AppVersions
  PROVE  /\ Less(a, b) /\ Less(b, c) => Less(a, c)
         /\ Same(a, b) /\ Less(a, c) => Less(b, c)
         /\ Same(a, b) /\ Less(c, a) => Less(c, b)
         /\ ~Less(a, a)
<1> DEFINE ra == Rank(a.suffix)
           rb == Rank(b.suffix)
           rc == Rank(c.suffix)
<1>1. ra \in Int /\ rb \in Int /\ rc \in Int
  BY RankFacts
<1>2. /\ a.major \in Int /\ a.minor \in Int /\ a.patch \in Int
      /\ b.major \in Int /\ b.minor \in Int /\ b.patch \in Int
      /\ c.major \in Int /\ c.minor \in Int /\ c.patch \in Int
  BY DEF AppVersions
<1> HIDE DEF ra, rb, rc
<1> QED
  BY <1>1, <1>2 DEF Less, Same, ra, rb, rc

-----------------------------------------------------------------------------
(* The planner                                                               *)

\* A version on a channel of a manifest is one, if the channel has any.
LEMMA LatestFacts ==
  ASSUME NEW m \in Manifests, NEW version, NEW key, Newer(m, version, key)
  PROVE  m[key].latest \in AppVersions
BY UpdateCheckAssumption DEF Newer, ChannelEntries

\* What is offered is newer than what runs and as new as all that the user may see.
LEMMA PlanFacts ==
  ASSUME NEW m \in Manifests, NEW version, NEW s, Plan(m, version, s).available
  PROVE  /\ Plan(m, version, s).latest \in AppVersions
         /\ Less(version, Plan(m, version, s).latest)
         /\ \A j \in DOMAIN Allowed(s.channel) :
              Newer(m, version, Allowed(s.channel)[j]) =>
                ~Less(Plan(m, version, s).latest, m[Allowed(s.channel)[j]].latest)
<1> DEFINE keys == Allowed(s.channel)
           best == CHOOSE i \in Chosen(m, version, keys) : TRUE
<1>1. Chosen(m, version, keys) # {}
  BY DEF Plan, NoPlan
<1>2. best \in Chosen(m, version, keys)
  BY <1>1
<1>3. Plan(m, version, s).latest = m[keys[best]].latest
  BY <1>1 DEF Plan, NoPlan
<1>4. /\ Newer(m, version, keys[best])
      /\ \A j \in DOMAIN keys :
           Newer(m, version, keys[j]) => ~Less(m[keys[best]].latest, m[keys[j]].latest)
  BY <1>2 DEF Chosen
<1>5. m[keys[best]].latest \in AppVersions
  BY <1>4, LatestFacts
<1> HIDE DEF best, keys
<1> QED
  BY <1>3, <1>4, <1>5 DEF Newer, keys

\* Once that version runs, or one that compares equal, there is nothing newer.
LEMMA PlannedOnce ==
  ASSUME NEW m \in Manifests, NEW version \in AppVersions, NEW s,
         Plan(m, version, s).available,
         NEW updated \in AppVersions, Same(updated, Plan(m, version, s).latest)
  PROVE  ~Plan(m, updated, s).available
<1> DEFINE keys == Allowed(s.channel)
           offered == Plan(m, version, s).latest
<1>1. /\ offered \in AppVersions /\ Less(version, offered)
      /\ \A j \in DOMAIN keys :
           Newer(m, version, keys[j]) => ~Less(offered, m[keys[j]].latest)
  BY PlanFacts
<1>2. ASSUME NEW j \in DOMAIN keys, Newer(m, updated, keys[j]) PROVE FALSE
  <2>1. m[keys[j]].latest \in AppVersions /\ Less(updated, m[keys[j]].latest)
    BY <1>2, LatestFacts DEF Newer
  <2>2. Less(offered, m[keys[j]].latest)
    BY <2>1, <1>1, LessFacts
  <2>3. Less(version, m[keys[j]].latest)
    BY <2>1, <2>2, <1>1, LessFacts
  <2>4. Newer(m, version, keys[j])
    BY <2>3, <1>2 DEF Newer
  <2> QED
    BY <2>2, <2>4, <1>1
<1>3. Chosen(m, updated, keys) = {}
  BY <1>2 DEF Chosen
<1> QED
  BY <1>3 DEF Plan, NoPlan

-----------------------------------------------------------------------------
(* The dialog                                                                *)

\* What a staging directory holds is what the plan asks for.
FitsPlan(content) ==
  /\ content \in Contents /\ content.whole
  /\ Same(content.version, plan.latest)
  /\ Matches(content)

PlanInv == hasPlan => source \in Manifests /\ plan = Plan(source, current, setup)

StagedInv ==
  stagingReady =>
    /\ hasPlan /\ plan.available /\ dialog # "check"
    /\ \A s \in StagedFor(plan.latest) : FitsPlan(s.content)

DialogPhaseInv ==
  /\ dialog \in DialogStates
  /\ dialog \in {"download", "confirmInDownload"} => hasPlan /\ plan.available
  /\ dialog \in {"confirm", "confirmInDownload"} =>
       hasPlan /\ stagingReady /\ plan.asset.sha256 # None
  /\ launched # None => dialog = "quit"
  /\ dialog = "quit" => hasPlan /\ plan.available /\ FitsPlan(launched)

DialogInv == current \in AppVersions /\ PlanInv /\ StagedInv /\ DialogPhaseInv

LEMMA NoneFacts == None \notin Contents /\ \A c \in Contents : c \in Archives /\ c.version \in AppVersions
BY UpdateCheckAssumption DEF Archives

LEMMA DialogInitially == UpdateCheckInit => DialogInv
BY UpdateCheckAssumption
   DEF UpdateCheckInit, DialogInv, PlanInv, StagedInv, DialogPhaseInv, DialogStates, NoPlan

LEMMA DialogStep == DialogInv /\ [UpdateCheckNext]_checkVars => DialogInv'
<1> SUFFICES ASSUME DialogInv, [UpdateCheckNext]_checkVars PROVE DialogInv'
  OBVIOUS
<1> USE DEF DialogInv, members
<1>1. CASE CheckNow
  BY <1>1 DEF CheckNow, PlanInv, StagedInv, DialogPhaseInv, DialogStates
<1>2. CASE CheckFinishes
  BY <1>2 DEF CheckFinishes, PlanInv, StagedInv, DialogPhaseInv, DialogStates
<1>3. CASE ManifestFails
  BY <1>3 DEF ManifestFails, PlanInv, StagedInv, DialogPhaseInv, DialogStates
<1>4. CASE Download
  BY <1>4 DEF Download, PlanInv, StagedInv, DialogPhaseInv, DialogStates, StagedFor, FitsPlan, Matches
<1>5. CASE DownloadFails
  BY <1>5 DEF DownloadFails, PlanInv, StagedInv, DialogPhaseInv, DialogStates, StagedFor, FitsPlan, Matches
<1>6. CASE VerifyFails
  BY <1>6 DEF VerifyFails, PlanInv, StagedInv, DialogPhaseInv, DialogStates, StagedFor, FitsPlan, Matches
<1>7. CASE StagingRefused
  BY <1>7 DEF StagingRefused, PlanInv, StagedInv, DialogPhaseInv, DialogStates
<1>8. CASE StagingFails
  BY <1>8 DEF StagingFails, PlanInv, StagedInv, DialogPhaseInv, DialogStates
<1>9. CASE Stage
  <2> PICK content \in Contents :
        /\ Matches(content) /\ Complete(content)
        /\ staging' = WithoutStaged(plan.latest) \cup {[for |-> plan.latest, content |-> content]}
    BY <1>9 DEF Stage, StagedNow
  <2>1. FitsPlan(content)' /\ FitsPlan(content)
    BY <1>9 DEF Stage, FitsPlan, Complete, Matches
  <2>2. \A s \in StagedFor(plan.latest)' : s.content = content
    BY <1>9 DEF Stage, StagedNow, StagedFor, WithoutStaged
  <2>3. StagedInv'
    BY <1>9, <2>1, <2>2 DEF Stage, StagedInv, DialogPhaseInv, FitsPlan, Matches
  <2> QED
    BY <1>9, <2>3 DEF Stage, PlanInv, DialogPhaseInv, DialogStates
<1>10. CASE ClickInstall
  BY <1>10 DEF ClickInstall, CanInstall, PlanInv, StagedInv, DialogPhaseInv, DialogStates, StagedFor,
               FitsPlan, Matches
<1>11. CASE Decline
  BY <1>11 DEF Decline, Declined, PlanInv, StagedInv, DialogPhaseInv, DialogStates, StagedFor, FitsPlan, Matches
<1>12. CASE LaunchRefused
  BY <1>12 DEF LaunchRefused, Declined, PlanInv, StagedInv, DialogPhaseInv, DialogStates, StagedFor, FitsPlan,
               Matches
<1>13. CASE LaunchUpdater
  <2>1. hasPlan /\ plan.available /\ FitsPlan(launched')
    BY <1>13 DEF LaunchUpdater, StagedInv, DialogPhaseInv
  <2> QED
    BY <1>13, <2>1 DEF LaunchUpdater, PlanInv, StagedInv, DialogPhaseInv, DialogStates, StagedFor, FitsPlan, Matches
<1>14. CASE StartsAgain
  BY <1>14, NoneFacts DEF StartsAgain, PlanInv, StagedInv, DialogPhaseInv, DialogStates, FitsPlan
<1>15. CASE Reopen
  BY <1>15 DEF Reopen, PlanInv, StagedInv, DialogPhaseInv, DialogStates
<1>16. CASE UseChanges
  BY <1>16 DEF UseChanges, PlanInv, StagedInv, DialogPhaseInv, DialogStates, StagedFor, FitsPlan, Matches
<1>17. CASE UNCHANGED checkVars
  BY <1>17 DEF checkVars, PlanInv, StagedInv, DialogPhaseInv, DialogStates, StagedFor, FitsPlan, Matches
<1> QED
  BY <1>1, <1>2, <1>3, <1>4, <1>5, <1>6, <1>7, <1>8, <1>9, <1>10, <1>11, <1>12, <1>13, <1>14,
     <1>15, <1>16, <1>17 DEF UpdateCheckNext

\* The dialog's members, the staging directories and the plan always fit together
\* (AppUpdateDialog).
THEOREM DialogAlwaysInv == UpdateCheckSpec => []DialogInv
<1> QED
  BY DialogInitially, DialogStep, PTL DEF UpdateCheckSpec

\* For every set of manifests and archives, with every failure and every order of checks
\* and downloads: the updater is launched for a whole, verified, newer release only
\* (AppUpdateDialog::onInstallAndRestart).
THEOREM LaunchesAreVerified == UpdateCheckSpec => LaunchedIsVerified
<1> DEFINE Verified ==
      launched = None /\ launched' # None =>
        /\ plan = Plan(source, current, setup)
        /\ plan.asset.sha256 = launched'
        /\ launched'.whole /\ Same(launched'.version, plan.latest)
        /\ Less(current, launched'.version)
<1>1. DialogInv /\ [UpdateCheckNext]_checkVars => [Verified]_checkVars
  <2> SUFFICES ASSUME DialogInv, UpdateCheckNext, launched = None, launched' # None
               PROVE  Verified
    BY DEF checkVars
  <2>1. LaunchUpdater
    BY DEF UpdateCheckNext, CheckNow, CheckFinishes, ManifestFails, Download, DownloadFails,
           VerifyFails, StagingRefused, StagingFails, Stage, ClickInstall, Decline, LaunchRefused,
           StartsAgain, Reopen, UseChanges
  <2>2. /\ FitsPlan(launched') /\ plan = Plan(source, current, setup) /\ source \in Manifests
        /\ plan.available /\ plan.asset.sha256 # None
    BY <2>1 DEF LaunchUpdater, DialogInv, PlanInv, StagedInv, DialogPhaseInv
  <2>3. Less(current, plan.latest) /\ plan.latest \in AppVersions
    BY <2>2, PlanFacts
  <2>4. Same(plan.latest, launched'.version)
    BY <2>2 DEF FitsPlan, Same
  <2>5. Less(current, launched'.version)
    BY <2>2, <2>3, <2>4, LessFacts, NoneFacts DEF FitsPlan, DialogInv
  <2> QED
    BY <2>2, <2>5 DEF FitsPlan, Matches
<1> QED
  BY <1>1, DialogAlwaysInv, PTL DEF UpdateCheckSpec, LaunchedIsVerified

\* For every manifest: after an update there is none left in it
\* (AppUpdatePlanner::buildPlan, AppUpdateStager::verifyReleaseManifest).
THEOREM OneUpdateAlwaysSuffices == UpdateCheckSpec => []OneUpdateSuffices
<1>1. DialogInv => OneUpdateSuffices
  <2> SUFFICES ASSUME DialogInv, launched # None
               PROVE  ~Plan(source, launched.version, setup).available
    BY DEF OneUpdateSuffices
  <2>1. /\ FitsPlan(launched) /\ plan = Plan(source, current, setup) /\ source \in Manifests
        /\ plan.available /\ current \in AppVersions
    BY DEF DialogInv, PlanInv, DialogPhaseInv
  <2> QED
    BY <2>1, PlannedOnce, NoneFacts DEF FitsPlan
<1> QED
  BY <1>1, DialogAlwaysInv, PTL

-----------------------------------------------------------------------------
(* The updater                                                               *)

\* The updater never finds Zarya running: it can read the list of processes, and the
\* user does not start Zarya while it works.
NoOverlap == UpdFaults \cap {"probe", "start"} = {}

\* The files of a release never have the content of the user's.
ReleaseFiles == \A f \in AppFiles : app[f] \in Versions \cup {Absent}

\* From the backup on there is the folder of this update.
AfterBackup == {"remove", "copy", "check", "undoRemove", "undoCopy"}
Working == AfterBackup \cup {"backup"}
FolderExists == phase \in Working => backups # <<>>

Folder == [AppFiles -> Versions \cup {Absent}]

TypeInv == UpdTypeOK /\ ReleaseFiles /\ FolderExists

\* What the loop that runs has done so far: outside todo its work is done.
LoopInv ==
  /\ phase = "backup" => \A f \in BackedUp \ todo : Backup[f] = app[f]
  /\ phase = "copy" => \A f \in AppFiles \ todo : app[f] = target
  /\ phase = "check" => \A f \in AppFiles : app[f] = target
  /\ phase = "undoRemove" => \A f \in AppFiles \ todo : app[f] = Absent
  /\ phase = "undoCopy" => \A f \in AppFiles \ todo : app[f] = Backup[f]

\* Which release is whole: while the newest backup is being made only an older one
\* counts, once it is made some backup is whole whatever becomes of the application.
WholeAmong(n) == \E i \in 1 .. n : Whole(backups[i], BackedUp)

WholeInv ==
  /\ phase \in {"off", "wait"} => SomeReleaseIsWhole
  /\ phase = "backup" => Whole(app, AppFiles) \/ WholeAmong(Len(backups) - 1)
  /\ phase \in AfterBackup => WholeAmong(Len(backups))

\* Who runs, and what the state files say.
NoticeInv ==
  /\ phase \in Working => ~mainUp
  /\ phase # "off" => "pending" \in files
  /\ "success" \in files => phase = "off" /\ ~mainUp /\ Whole(app, AppFiles)
  /\ BrokenIsNoticed

-----------------------------------------------------------------------------
(* Lemmas on the operators                                                   *)

\* A version is never the mark of a file that is absent.
LEMMA VersionsPresent == Versions \subseteq Nat /\ Absent \notin Versions /\ Mine \notin Versions
BY BoundsAssumption DEF Versions, Absent, Mine

\* The loops over the application, a backup and a release go through its own files.
LEMMA AppEntries ==
  ASSUME UpdTypeOK
  PROVE  Entries(app) = {f \in AppFiles : app[f] # Absent}
BY FilesAssumption DEF UpdTypeOK, Entries, Preserved, AllFiles

LEMMA FolderType ==
  ASSUME UpdTypeOK, backups # <<>>
  PROVE  /\ Len(backups) \in Nat \ {0}
         /\ Backup \in Folder
         /\ Entries(Backup) = {f \in AppFiles : Backup[f] # Absent}
<1>1. Len(backups) \in Nat \ {0} /\ Len(backups) \in 1 .. Len(backups)
  BY DEF UpdTypeOK
<1>2. Backup \in Folder
  BY <1>1 DEF UpdTypeOK, Backup, Folder
<1>3. DOMAIN Backup = AppFiles
  BY <1>2 DEF Folder
<1> QED
  BY <1>1, <1>2, <1>3, FilesAssumption DEF Entries, Preserved

LEMMA StagedEntries ==
  ASSUME UpdTypeOK
  PROVE  Entries(Staged) = AppFiles
<1>1. target # Absent
  BY VersionsPresent DEF UpdTypeOK
<1> QED
  BY <1>1, FilesAssumption DEF Entries, Staged, Preserved, AllFiles

\* A new folder comes behind the others.
LEMMA NewFolder ==
  ASSUME UpdTypeOK, backups' = Append(backups, [f \in AppFiles |-> Absent])
  PROVE  /\ backups' \in Seq(Folder)
         /\ Len(backups') = Len(backups) + 1
         /\ \A i \in 1 .. Len(backups) : backups'[i] = backups[i]
         /\ backups'[Len(backups')] = [f \in AppFiles |-> Absent]
<1>1. backups \in Seq(Folder)
  BY DEF UpdTypeOK, Folder
<1>2. [f \in AppFiles |-> Absent] \in Folder
  BY DEF Folder
<1> QED
  BY <1>1, <1>2, AppendProperties

\* A file that is backed up changes its entry of the newest folder only.
LEMMA FileBackedUp ==
  ASSUME UpdTypeOK, ReleaseFiles, backups # <<>>, NEW g \in AppFiles,
         backups' = [backups EXCEPT ![Len(backups)][g] = app[g]]
  PROVE  /\ backups' \in Seq(Folder)
         /\ Len(backups') = Len(backups)
         /\ \A i \in 1 .. Len(backups) - 1 : backups'[i] = backups[i]
         /\ backups'[Len(backups)] = [Backup EXCEPT ![g] = app[g]]
<1>1. backups \in Seq(Folder) /\ Len(backups) \in 1 .. Len(backups)
  BY FolderType DEF UpdTypeOK, Folder
<1> DEFINE changed == [Backup EXCEPT ![g] = app[g]]
<1>2. changed \in Folder
  BY FolderType DEF Folder, ReleaseFiles
<1>3. backups' = [backups EXCEPT ![Len(backups)] = changed]
  BY DEF Backup
<1> HIDE DEF changed
<1>4. backups' \in Seq(Folder) /\ Len(backups') = Len(backups)
  BY <1>1, <1>2, <1>3, ExceptSeq
<1>5. backups'[Len(backups)] = changed
  BY <1>1, <1>3
<1>6. \A i \in 1 .. Len(backups) - 1 : backups'[i] = backups[i]
  BY <1>1, <1>3
<1> QED
  BY <1>4, <1>5, <1>6 DEF changed

\* Pruning keeps folders.
LEMMA PrunedType ==
  ASSUME UpdTypeOK
  PROVE  Pruned \in Seq(Folder)
<1>1. backups \in Seq(Folder)
  BY DEF UpdTypeOK, Folder
<1>2. CASE Retention = 0 \/ Len(backups) <= Retention
  BY <1>1, <1>2 DEF Pruned
<1>3. CASE ~(Retention = 0 \/ Len(backups) <= Retention)
  <2>1. Len(backups) \in Nat /\ Retention \in Nat \ {0} /\ Len(backups) > Retention
    BY <1>1, <1>3, BoundsAssumption
  <2>2. Len(backups) - Retention + 1 \in 1 .. Len(backups) + 1
    BY <2>1
  <2>3. SubSeq(backups, Len(backups) - Retention + 1, Len(backups)) \in Seq(Folder)
    BY <1>1, <2>1, <2>2, SubSeqProperties
  <2> QED
    BY <1>3, <2>3 DEF Pruned
<1> QED
  BY <1>2, <1>3


-----------------------------------------------------------------------------
(* Types                                                                     *)

LEMMA TypeInit == UpdInit => TypeInv
<1> SUFFICES ASSUME UpdInit PROVE TypeInv
  OBVIOUS
<1>1. 0 \in Versions
  BY BoundsAssumption DEF Versions
<1> QED
  BY <1>1, FilesAssumption
     DEF UpdInit, TypeInv, UpdTypeOK, ReleaseFiles, FolderExists, UpdPhases, StateFiles,
         AllFiles, Working, AfterBackup

\* What the steps that write no file of the application must show.
LEMMA TypeUntouched ==
  ASSUME TypeInv, UNCHANGED app, backups' \in Seq(Folder), phase' \in UpdPhases,
         todo' \subseteq AppFiles, target' \in Versions, mainUp' \in BOOLEAN,
         files' \subseteq StateFiles, phase' \in Working => backups' # <<>>
  PROVE  TypeInv'
BY DEF TypeInv, UpdTypeOK, ReleaseFiles, FolderExists, Folder

\* What the steps that write one file must show.
LEMMA TypeTouched ==
  ASSUME TypeInv, NEW f \in AppFiles, NEW v \in Versions \cup {Absent},
         app' = [app EXCEPT ![f] = v], todo' = todo \ {f},
         UNCHANGED <<backups, phase, target, mainUp, files>>
  PROVE  TypeInv'
<1>1. f \in AllFiles
  BY DEF AllFiles
<1>2. app' \in [AllFiles -> Versions \cup {Mine, Absent}]
  BY <1>1 DEF TypeInv, UpdTypeOK
<1>3. ReleaseFiles'
  BY <1>1 DEF TypeInv, UpdTypeOK, ReleaseFiles, AllFiles
<1> QED
  BY <1>2, <1>3 DEF TypeInv, UpdTypeOK, FolderExists

LEMMA TypeStep ==
  ASSUME TypeInv, [Next]_vars
  PROVE  TypeInv'
<1> USE DEF Goes, Ends, UpdPhases, StateFiles, Working, AfterBackup
<1>0. /\ backups \in Seq(Folder) /\ todo \subseteq AppFiles /\ target \in Versions
      /\ mainUp \in BOOLEAN /\ files \subseteq StateFiles /\ phase \in UpdPhases
      /\ phase \in Working => backups # <<>>
      /\ UpdTypeOK
  BY DEF TypeInv, UpdTypeOK, Folder, FolderExists
<1>1. CASE \/ Launch \/ LaunchFails \/ MainQuits \/ UserStartsMain
          \/ PlanRefused \/ WaitTimesOut \/ UpdaterKilled
  BY <1>0, <1>1, TypeUntouched
     DEF Launch, MainQuits, UserStartsMain, Announced, WaitTimesOut, PlanRefused,
         LaunchFails, UpdaterKilled
<1>2. CASE WaitEnds
  <2>1. Entries(app) \subseteq AppFiles
    BY <1>0, AppEntries
  <2>2. backups' \in Seq(Folder) /\ backups' # <<>>
    BY <1>0, <1>2, NewFolder, FolderType DEF WaitEnds
  <2> QED
    BY <1>0, <1>2, <2>1, <2>2, TypeUntouched DEF WaitEnds
<1>3. CASE BackUpFile
  <2>1. PICK f \in AppFiles : /\ backups' = [backups EXCEPT ![Len(backups)][f] = app[f]]
                              /\ todo' = todo \ {f}
    BY <1>0, <1>3 DEF BackUpFile
  <2>2. backups # <<>> /\ ReleaseFiles
    BY <1>0, <1>3 DEF BackUpFile, TypeInv
  <2>3. backups' \in Seq(Folder) /\ Len(backups') = Len(backups)
    BY <1>0, <2>1, <2>2, FileBackedUp
  <2>4. backups' # <<>>
    BY <1>0, <2>2, <2>3, FolderType
  <2> QED
    BY <1>0, <1>3, <2>1, <2>3, <2>4, TypeUntouched DEF BackUpFile
<1>4. CASE BackupFails \/ RemoveFails \/ CopyFails \/ RollbackFails
  BY <1>0, <1>4, TypeUntouched
     DEF BackupFails, RemoveFails, CopyFails, LoopFails, RollbackFails
<1>5. CASE BackupEnds \/ RemoveEnds \/ CopyEnds \/ UndoRemoveEnds
  <2>1. phase \in Working /\ backups # <<>>
    BY <1>0, <1>5 DEF BackupEnds, RemoveEnds, CopyEnds, UndoRemoveEnds, LoopEnds
  <2>2. Entries(app) \subseteq AppFiles /\ Entries(Staged) \subseteq AppFiles
          /\ Entries(Backup) \subseteq AppFiles
    BY <1>0, <2>1, AppEntries, StagedEntries, FolderType
  <2> QED
    BY <1>0, <1>5, <2>1, <2>2, TypeUntouched
       DEF BackupEnds, RemoveEnds, CopyEnds, UndoRemoveEnds, LoopEnds
<1>6. CASE RemoveFile
  <2>1. PICK f \in AppFiles : app' = [app EXCEPT ![f] = Absent] /\ todo' = todo \ {f}
    BY <1>0, <1>6 DEF RemoveFile
  <2> QED
    BY <1>6, <2>1, TypeTouched DEF RemoveFile
<1>7. CASE CopyFile
  <2>1. PICK f \in AppFiles : app' = [app EXCEPT ![f] = target] /\ todo' = todo \ {f}
    BY <1>0, <1>7 DEF CopyFile
  <2> QED
    BY <1>0, <1>7, <2>1, TypeTouched DEF CopyFile
<1>8. CASE UndoCopyFile
  <2>1. PICK f \in AppFiles : app' = [app EXCEPT ![f] = Backup[f]] /\ todo' = todo \ {f}
    BY <1>0, <1>8 DEF UndoCopyFile
  <2>2. Backup[f] \in Versions \cup {Absent}
    BY <1>0, <1>8, FolderType DEF UndoCopyFile, Folder
  <2> QED
    BY <1>8, <2>1, <2>2, TypeTouched DEF UndoCopyFile
<1>9. CASE CheckPasses
  <2>1. backups' \in Seq(Folder)
    BY <1>0, <1>9, PrunedType DEF CheckPasses
  <2> QED
    BY <1>0, <1>9, <2>1, TypeUntouched DEF CheckPasses, Restarts
<1>10. CASE CheckFails
  BY <1>0, <1>10, AppEntries, TypeUntouched DEF CheckFails
<1>11. CASE RollbackEnds
  BY <1>0, <1>11, TypeUntouched DEF RollbackEnds, Restarts
<1>12. CASE UNCHANGED vars
  BY <1>12 DEF vars, TypeInv, UpdTypeOK, ReleaseFiles, FolderExists
<1> QED
  BY <1>1, <1>2, <1>3, <1>4, <1>5, <1>6, <1>7, <1>8, <1>9, <1>10, <1>11, <1>12 DEF Next

-----------------------------------------------------------------------------
(* The loops                                                                 *)

LEMMA LoopStep ==
  ASSUME TypeInv, LoopInv, [Next]_vars
  PROVE  LoopInv'
<1> USE DEF Goes, Ends
<1>0. /\ UpdTypeOK /\ ReleaseFiles /\ FolderExists
      /\ todo \subseteq AppFiles /\ AppFiles \subseteq AllFiles
      /\ app \in [AllFiles -> Versions \cup {Mine, Absent}]
  BY DEF TypeInv, UpdTypeOK, AllFiles
<1>1. CASE phase' \in {"off", "wait", "remove"}
  BY <1>1 DEF LoopInv
<1>2. CASE UNCHANGED <<app, backups, phase, todo, target>>
  BY <1>2 DEF LoopInv, Backup
<1>3. CASE WaitEnds
  <2>1. backups' # <<>> /\ Backup' = [f \in AppFiles |-> Absent]
    BY <1>0, <1>3, NewFolder, FolderType DEF WaitEnds, Backup
  <2>2. phase' = "backup" /\ todo' = {f \in BackedUp : app[f] # Absent} /\ UNCHANGED app
    BY <1>0, <1>3, AppEntries DEF WaitEnds, BackedUp
  <2> QED
    BY <2>1, <2>2 DEF LoopInv, BackedUp
<1>4. CASE BackUpFile
  <2>1. PICK g \in AppFiles : /\ backups' = [backups EXCEPT ![Len(backups)][g] = app[g]]
                              /\ todo' = todo \ {g}
    BY <1>0, <1>4 DEF BackUpFile
  <2>2. backups # <<>> /\ Backup \in Folder
    BY <1>0, <1>4, FolderType DEF BackUpFile, FolderExists, Working
  <2>3. Backup' = [Backup EXCEPT ![g] = app[g]]
    BY <1>0, <2>1, <2>2, FileBackedUp DEF Backup
  <2>4. \A f \in BackedUp \ todo' : Backup'[f] = app[f]
    BY <1>4, <2>1, <2>2, <2>3 DEF LoopInv, BackUpFile, Folder, BackedUp
  <2> QED
    BY <1>4, <2>4 DEF LoopInv, BackUpFile
<1>5. CASE RemoveFile
  <2>1. PICK g \in AppFiles : app' = [app EXCEPT ![g] = Absent] /\ todo' = todo \ {g}
    BY <1>0, <1>5 DEF RemoveFile
  <2> QED
    BY <1>0, <1>5, <2>1 DEF LoopInv, RemoveFile
<1>6. CASE CopyFile
  <2>1. PICK g \in AppFiles : app' = [app EXCEPT ![g] = target] /\ todo' = todo \ {g}
    BY <1>0, <1>6 DEF CopyFile
  <2> QED
    BY <1>0, <1>6, <2>1 DEF LoopInv, CopyFile
<1>7. CASE UndoCopyFile
  <2>1. PICK g \in AppFiles : app' = [app EXCEPT ![g] = Backup[g]] /\ todo' = todo \ {g}
    BY <1>0, <1>7 DEF UndoCopyFile
  <2>2. UNCHANGED Backup
    BY <1>7 DEF UndoCopyFile, Backup
  <2> QED
    BY <1>0, <1>7, <2>1, <2>2 DEF LoopInv, UndoCopyFile
<1>8. CASE RemoveEnds
  BY <1>0, <1>8, StagedEntries DEF LoopInv, RemoveEnds, LoopEnds
<1>9. CASE CopyEnds
  BY <1>9 DEF LoopInv, CopyEnds, LoopEnds
<1>10. CASE CheckFails
  BY <1>0, <1>10, AppEntries DEF LoopInv, CheckFails
<1>11. CASE UndoRemoveEnds
  <2>1. phase = "undoRemove" /\ todo = {} /\ phase' = "undoCopy" /\ UNCHANGED <<app, backups>>
    BY <1>11 DEF UndoRemoveEnds, LoopEnds
  <2>2. todo' = {f \in AppFiles : Backup[f] # Absent}
    BY <1>0, <1>11, <2>1, FolderType DEF UndoRemoveEnds, LoopEnds, FolderExists, Working, AfterBackup
  <2>3. \A f \in AppFiles : app[f] = Absent
    BY <2>1 DEF LoopInv
  <2> QED
    BY <2>1, <2>2, <2>3 DEF LoopInv, Backup
<1> QED
  BY <1>1, <1>2, <1>3, <1>4, <1>5, <1>6, <1>7, <1>8, <1>9, <1>10, <1>11
     DEF Next, vars, Launch, MainQuits, UserStartsMain, WaitTimesOut, PlanRefused,
         LaunchFails, BackupFails, BackupEnds,
         RemoveFails, CopyFails, LoopFails, LoopEnds, CheckPasses, RollbackFails,
         RollbackEnds, UpdaterKilled

-----------------------------------------------------------------------------
(* A whole release                                                           *)

LEMMA WholeStep ==
  ASSUME TypeInv, LoopInv, WholeInv, [Next]_vars
  PROVE  WholeInv'
<1> USE DEF Goes, Ends
<1>0. UpdTypeOK /\ ReleaseFiles /\ FolderExists /\ phase \in UpdPhases /\ Exe \in AppFiles
  BY FilesAssumption DEF TypeInv, UpdTypeOK
<1>1. ASSUME phase \in {"off", "wait"}, phase' \in {"off", "wait"}, UNCHANGED <<app, backups>>
      PROVE  WholeInv'
  BY <1>1 DEF WholeInv, SomeReleaseIsWhole, Whole, AfterBackup
<1>2. ASSUME phase \in AfterBackup, phase' \in AfterBackup \cup {"off"}, UNCHANGED backups
      PROVE  WholeInv'
  BY <1>2 DEF WholeInv, WholeAmong, SomeReleaseIsWhole, Whole, AfterBackup
<1>3. ASSUME phase = "backup", phase' \in {"backup", "off"}, UNCHANGED <<app, backups>>
      PROVE  WholeInv'
  <2>1. Whole(app, AppFiles) \/ WholeAmong(Len(backups) - 1)
    BY <1>3 DEF WholeInv
  <2>2. WholeAmong(Len(backups) - 1) => WholeAmong(Len(backups))
    BY <1>0, <1>3, FolderType DEF WholeAmong, FolderExists, Working
  <2> QED
    BY <1>3, <2>1, <2>2 DEF WholeInv, SomeReleaseIsWhole, WholeAmong, Whole, AfterBackup
<1>4. CASE WaitEnds
  <2>1. /\ Len(backups) \in Nat /\ Len(backups') = Len(backups) + 1
        /\ \A i \in 1 .. Len(backups) : backups'[i] = backups[i]
    BY <1>0, <1>4, NewFolder DEF WaitEnds, UpdTypeOK
  <2>2. SomeReleaseIsWhole /\ phase' = "backup" /\ UNCHANGED app
    BY <1>4 DEF WaitEnds, WholeInv
  <2> QED
    BY <2>1, <2>2 DEF WholeInv, SomeReleaseIsWhole, WholeAmong, Whole, AfterBackup
<1>5. CASE BackUpFile
  <2>1. PICK g \in AppFiles : backups' = [backups EXCEPT ![Len(backups)][g] = app[g]]
    BY <1>0, <1>5 DEF BackUpFile, UpdTypeOK
  <2>2. backups # <<>>
    BY <1>5 DEF BackUpFile, TypeInv, FolderExists, Working
  <2>3. Len(backups') = Len(backups) /\ \A i \in 1 .. Len(backups) - 1 : backups'[i] = backups[i]
    BY <1>0, <2>1, <2>2, FileBackedUp
  <2> QED
    BY <1>5, <2>3 DEF BackUpFile, WholeInv, WholeAmong, Whole, AfterBackup
<1>6. CASE BackupEnds
  <2>1. phase = "backup" /\ todo = {} /\ phase' = "remove" /\ UNCHANGED <<app, backups>>
    BY <1>6 DEF BackupEnds, LoopEnds
  <2>2. Len(backups) \in Nat \ {0}
    BY <1>0, <2>1, FolderType DEF FolderExists, Working
  <2>3. Whole(app, AppFiles) => Whole(backups[Len(backups)], BackedUp)
    BY <2>1 DEF LoopInv, Whole, Backup, BackedUp
  <2>4. WholeAmong(Len(backups))
    BY <2>1, <2>2, <2>3 DEF WholeInv, WholeAmong
  <2> QED
    BY <2>1, <2>4 DEF WholeInv, WholeAmong, Whole, AfterBackup
<1>7. CASE CheckPasses
  <2>1. Whole(app, AppFiles)
    BY <1>0, <1>7 DEF CheckPasses, LoopInv, Whole, UpdTypeOK
  <2> QED
    BY <1>7, <2>1 DEF CheckPasses, WholeInv, SomeReleaseIsWhole, Whole, AfterBackup
<1>8. CASE Launch \/ LaunchFails \/ PlanRefused \/ WaitTimesOut
  BY <1>1, <1>8 DEF Launch, LaunchFails, PlanRefused, WaitTimesOut
<1>9. CASE MainQuits \/ UserStartsMain \/ UNCHANGED vars
  BY <1>0, <1>1, <1>2, <1>3, <1>9
     DEF MainQuits, UserStartsMain, vars, UpdPhases, AfterBackup
<1>10. CASE BackupFails
  BY <1>3, <1>10 DEF BackupFails, LoopFails
<1>11. CASE UpdaterKilled
  BY <1>0, <1>1, <1>2, <1>3, <1>11 DEF UpdaterKilled, UpdPhases, AfterBackup
<1>12. CASE RemoveFile \/ CopyFile \/ UndoCopyFile
  BY <1>2, <1>12 DEF RemoveFile, CopyFile, UndoCopyFile, AfterBackup
<1>13. CASE RemoveFails \/ RemoveEnds \/ CopyFails \/ CopyEnds \/ UndoRemoveEnds
  BY <1>2, <1>13
     DEF RemoveFails, RemoveEnds, CopyFails, CopyEnds, UndoRemoveEnds, LoopFails,
         LoopEnds, AfterBackup
<1>14. CASE CheckFails \/ RollbackFails \/ RollbackEnds
  BY <1>2, <1>14 DEF CheckFails, RollbackFails, RollbackEnds, AfterBackup
<1> QED
  BY <1>4, <1>5, <1>6, <1>7, <1>8, <1>9, <1>10, <1>11, <1>12, <1>13, <1>14 DEF Next

-----------------------------------------------------------------------------
(* The files of the user                                                     *)

LEMMA UserFilesStep ==
  ASSUME TypeInv, UserFilesStay, [Next]_vars
  PROVE  UserFilesStay'
<1>0. todo \subseteq AppFiles /\ app \in [AllFiles -> Versions \cup {Mine, Absent}]
  BY DEF TypeInv, UpdTypeOK
<1>1. ASSUME NEW g \in AppFiles, NEW v, app' = [app EXCEPT ![g] = v]
      PROVE  UserFilesStay'
  BY <1>0, <1>1, FilesAssumption DEF UserFilesStay, AllFiles
<1>2. CASE RemoveFile \/ CopyFile \/ UndoCopyFile
  BY <1>0, <1>1, <1>2 DEF RemoveFile, CopyFile, UndoCopyFile
<1>3. CASE UNCHANGED app
  BY <1>3 DEF UserFilesStay
<1> QED
  BY <1>2, <1>3
     DEF Next, vars, Launch, MainQuits, UserStartsMain, WaitEnds, WaitTimesOut,
         PlanRefused, LaunchFails, BackUpFile,
         BackupFails, BackupEnds, RemoveFails, RemoveEnds, CopyFails, CopyEnds, LoopFails,
         LoopEnds, CheckPasses, CheckFails, UndoRemoveEnds, RollbackFails, RollbackEnds,
         UpdaterKilled

-----------------------------------------------------------------------------
(* What runs and what is announced                                           *)

LEMMA NoticeStep ==
  ASSUME NoOverlap, TypeInv, LoopInv, NoticeInv, [Next]_vars
  PROVE  NoticeInv'
<1> USE DEF Goes, Ends, Working, AfterBackup, UpdPhases
<1>0. phase \in UpdPhases /\ target \in Versions /\ mainUp \in BOOLEAN
  BY DEF TypeInv, UpdTypeOK
<1>1. CASE RemoveFile \/ CopyFile \/ UndoCopyFile
  BY <1>1 DEF RemoveFile, CopyFile, UndoCopyFile, NoticeInv, BrokenIsNoticed
<1>2. CASE CheckPasses
  <2>1. Whole(app, AppFiles) /\ ~mainUp /\ "success" \notin files
    BY <1>0, <1>2 DEF CheckPasses, LoopInv, NoticeInv, Whole
  <2> QED
    BY <1>2, <2>1 DEF CheckPasses, Restarts, NoticeInv, BrokenIsNoticed, Whole
<1>3. CASE UserStartsMain
  <2>1. phase = "off" /\ UNCHANGED <<app, phase>>
    BY <1>3 DEF UserStartsMain, NoOverlap
  <2>2. CASE "success" \in files
    BY <1>3, <2>1, <2>2 DEF UserStartsMain, Announced, NoticeInv, BrokenIsNoticed, Whole
  <2>3. CASE "success" \notin files
    BY <1>3, <2>1, <2>3 DEF UserStartsMain, Announced, NoticeInv, BrokenIsNoticed, Whole
  <2> QED
    BY <2>2, <2>3
<1>4. CASE Launch \/ LaunchFails
  BY <1>4 DEF Launch, LaunchFails, NoticeInv, BrokenIsNoticed
<1>5. CASE WaitEnds
  BY <1>5 DEF WaitEnds, NoOverlap, NoticeInv, BrokenIsNoticed
<1>6. CASE RollbackFails \/ RollbackEnds
  BY <1>6 DEF RollbackFails, RollbackEnds, NoticeInv, BrokenIsNoticed, Whole
<1>7. CASE MainQuits \/ UNCHANGED vars
  BY <1>7 DEF MainQuits, vars, NoticeInv, BrokenIsNoticed, Whole
<1>8. CASE \/ PlanRefused \/ WaitTimesOut \/ UpdaterKilled \/ BackupFails
          \/ RemoveFails \/ CopyFails
  BY <1>8 DEF WaitTimesOut, PlanRefused, UpdaterKilled, BackupFails, RemoveFails,
              CopyFails, LoopFails,
              NoticeInv, BrokenIsNoticed
<1>9. CASE BackUpFile \/ CheckFails
  BY <1>9 DEF BackUpFile, CheckFails, NoticeInv, BrokenIsNoticed
<1>10. CASE BackupEnds \/ RemoveEnds \/ CopyEnds \/ UndoRemoveEnds
  BY <1>10 DEF BackupEnds, RemoveEnds, CopyEnds, UndoRemoveEnds, LoopEnds, NoticeInv,
               BrokenIsNoticed
<1> QED
  BY <1>1, <1>2, <1>3, <1>4, <1>5, <1>6, <1>7, <1>8, <1>9, <1>10 DEF Next

-----------------------------------------------------------------------------
(* The theorems                                                              *)

LEMMA StartInv == UpdInit => LoopInv /\ WholeInv /\ NoticeInv /\ UserFilesStay
<1> SUFFICES ASSUME UpdInit PROVE LoopInv /\ WholeInv /\ NoticeInv /\ UserFilesStay
  OBVIOUS
<1>1. \A f \in AppFiles : app[f] = 0
  BY FilesAssumption DEF UpdInit, AllFiles
<1>2. Whole(app, AppFiles)
  BY <1>1, BoundsAssumption DEF Whole, Versions
<1>3. UserFilesStay
  BY DEF UpdInit, AllFiles, UserFilesStay
<1>4. phase = "off" /\ files = {}
  BY DEF UpdInit
<1> QED
  BY <1>2, <1>3, <1>4
     DEF LoopInv, WholeInv, NoticeInv, SomeReleaseIsWhole, BrokenIsNoticed, Working,
         AfterBackup

LEMMA LoopAlways == UpdateSpec => [](TypeInv /\ LoopInv)
<1>1. TypeInv /\ LoopInv /\ [Next]_vars => (TypeInv /\ LoopInv)'
  BY TypeStep, LoopStep
<1> QED
  BY <1>1, TypeInit, StartInv, PTL DEF UpdateSpec

LEMMA WholeAlways == UpdateSpec => []WholeInv
<1>1. TypeInv /\ LoopInv /\ WholeInv /\ [Next]_vars => WholeInv'
  BY WholeStep
<1> QED
  BY <1>1, LoopAlways, StartInv, PTL DEF UpdateSpec

LEMMA NoticeAlways == ASSUME NoOverlap PROVE UpdateSpec => []NoticeInv
<1>1. TypeInv /\ LoopInv /\ NoticeInv /\ [Next]_vars => NoticeInv'
  BY NoticeStep
<1> QED
  BY <1>1, LoopAlways, StartInv, PTL DEF UpdateSpec

\* The directory, the backups and the state of the updater keep their types.
THEOREM UpdateTypes == UpdateSpec => []UpdTypeOK
BY LoopAlways, PTL DEF TypeInv

\* Through failures at any file, kills anywhere, overlaps and retries, some whole
\* release is left on disk (PortableUpdateApplier::apply, createBackup,
\* pruneOldBackups).
THEOREM SomeReleaseStaysWhole == UpdateSpec => []SomeReleaseIsWhole
<1>1. TypeInv /\ LoopInv /\ WholeInv => SomeReleaseIsWhole
  <2> SUFFICES ASSUME TypeInv, LoopInv, WholeInv PROVE SomeReleaseIsWhole
    OBVIOUS
  <2>1. CASE phase \in {"off", "wait"}
    BY <2>1 DEF WholeInv
  <2>2. CASE phase = "backup"
    <3>1. Len(backups) \in Nat
      BY DEF TypeInv, UpdTypeOK
    <3> QED
      BY <2>2, <3>1 DEF WholeInv, WholeAmong, SomeReleaseIsWhole
  <2>3. CASE phase \in AfterBackup
    BY <2>3 DEF WholeInv, WholeAmong, SomeReleaseIsWhole
  <2> QED
    BY <2>1, <2>2, <2>3 DEF TypeInv, UpdTypeOK, UpdPhases, AfterBackup
<1> QED
  BY <1>1, LoopAlways, WholeAlways, PTL

\* No loop of the updater removes or overwrites a file of the user
\* (isPreservedRelativePath).
THEOREM UserFilesAlwaysStay == UpdateSpec => []UserFilesStay
<1>1. TypeInv /\ UserFilesStay /\ [Next]_vars => UserFilesStay'
  BY UserFilesStep
<1>2. TypeInv /\ LoopInv => TypeInv
  OBVIOUS
<1> QED
  BY <1>1, <1>2, LoopAlways, StartInv, PTL DEF UpdateSpec

\* Success is reported for a whole new release only (copyStagedFiles,
\* runPostUpdateCheck).
THEOREM SuccessAlwaysWhole == UpdateSpec => SuccessIsWhole
<1>1. TypeInv /\ LoopInv /\ [Next]_vars
        => [CheckPasses => \A f \in AppFiles : app[f] = target]_vars
  BY DEF CheckPasses, LoopInv
<1> QED
  BY <1>1, LoopAlways, PTL DEF UpdateSpec, SuccessIsWhole

\* A rollback that reports to be complete is exact (UpdateRollback::rollback).
THEOREM RollbackAlwaysExact == UpdateSpec => RollbackIsExact
<1>1. TypeInv /\ LoopInv /\ [Next]_vars
        => [RollbackEnds => \A f \in AppFiles : app[f] = Backup[f]]_vars
  BY DEF RollbackEnds, LoopInv
<1> QED
  BY <1>1, LoopAlways, PTL DEF UpdateSpec, RollbackIsExact

\* What the updater says of its end is so: both facts together
\* (PortableUpdateApplier::apply, UpdateRollback::rollback).
THEOREM OutcomeAlwaysExact == UpdateSpec => OutcomeIsExact
  BY SuccessAlwaysWhole, RollbackAlwaysExact DEF OutcomeIsExact

\* A directory that is not whole has its plan on disk, provided that the updater never
\* overlaps with Zarya (checkStartupState).
THEOREM BrokenAlwaysNoticed ==
  ASSUME NoOverlap PROVE UpdateSpec => []BrokenIsNoticed
BY NoticeAlways, PTL DEF NoticeInv

\* Nor does it touch the directory under a running Zarya then
\* (waitForMainProcessExit).
THEOREM NeverUnderRunning ==
  ASSUME NoOverlap PROVE UpdateSpec => UntouchedWhileRunning
<1>1. NoticeInv /\ [Next]_vars => [app' # app => ~mainUp]_vars
  <2> SUFFICES ASSUME NoticeInv, Next, app' # app PROVE ~mainUp
    OBVIOUS
  <2>1. phase \in AfterBackup
    BY DEF Next, Launch, MainQuits, UserStartsMain, WaitEnds, WaitTimesOut,
           PlanRefused, LaunchFails, BackUpFile,
           BackupFails, BackupEnds, RemoveFile, RemoveFails, RemoveEnds, CopyFile,
           CopyFails, CopyEnds, LoopFails, LoopEnds, CheckPasses, CheckFails,
           UndoRemoveEnds, UndoCopyFile, RollbackFails, RollbackEnds, UpdaterKilled,
           AfterBackup
  <2> QED
    BY <2>1 DEF NoticeInv, Working
<1> QED
  BY <1>1, NoticeAlways, PTL DEF UpdateSpec, UntouchedWhileRunning
=============================================================================
