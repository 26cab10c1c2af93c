----------------------------- MODULE UpdateCheck -----------------------------
(* The check for a new release of Zarya and what leads up to its             *)
(* installation: the manifest and the plan (updater/AppUpdateChecker.cpp,    *)
(* AppUpdatePlanner.cpp, AppUpdatePolicy.cpp, AppVersion.cpp), the download, *)
(* its verification and staging (AppUpdateVerifier.cpp, AppUpdateStager.cpp) *)
(* and the dialog that goes from one to the next (ui/AppUpdateDialog.cpp).   *)
(* The check and the download wait in event loops of their own, in which the *)
(* dialog's enabled buttons still work.  What the updater then does is       *)
(* PortableUpdate.                                                           *)
EXTENDS Integers, Sequences

CONSTANTS Manifests,    \* manifests that may be found at the configured place
          Contents,     \* archives that a server may send
          Start,        \* the version that runs at first
          Setups,       \* user's channel, kind of installation and settings
          None,         \* nothing
          CheckFaults   \* which failures may happen, see CheckFaultKinds

\* "manifest", "download": it cannot be read or fetched.  "list": the first listing of an
\* archive fails and the next ones do not.  "extract": an archive cannot be unpacked or
\* its folder renamed.  "launch": the updater cannot be started.
CheckFaultKinds == {"manifest", "download", "list", "extract", "launch"}

ChannelKeys == {"dev", "beta", "rc", "stable"}
Suffixes == {"", "beta", "dev", "alpha", "rc.1", "rc.2"}
AppVersions == [major: Nat, minor: Nat, patch: Nat, suffix: Suffixes]

\* An asset either fits platform and architecture or not; its sha256 stands for the
\* archive that has it.
Assets == [fits: BOOLEAN, mode: {"portable", "installed"}, valid: BOOLEAN,
           sha256: Contents \cup {None}]
ChannelEntries == [latest: AppVersions \cup {None}, minSupported: AppVersions \cup {None},
            assets: Seq(Assets)]

\* An archive: the version in its release manifest, all required files, no bad path.
Archives == [id: Nat, version: AppVersions, whole: BOOLEAN, clean: BOOLEAN]

ASSUME UpdateCheckAssumption ==
  /\ Contents \subseteq Archives /\ Start \in AppVersions /\ None \notin Contents
  /\ None \notin AppVersions /\ None \notin Assets
  /\ \A m \in Manifests : DOMAIN m \subseteq ChannelKeys /\ \A k \in DOMAIN m : m[k] \in ChannelEntries
  /\ Setups \subseteq [channel: ChannelKeys, portable: BOOLEAN, allowUnsigned: BOOLEAN,
                       enabled: BOOLEAN]
  /\ CheckFaults \subseteq CheckFaultKinds

-----------------------------------------------------------------------------
(* Versions and plans                                                        *)

\* prereleaseRank: every suffix that is not known ranks lowest, those of candidates too.
Rank(suffix) ==
  CASE suffix = "" -> 3 [] suffix = "beta" -> 2 [] suffix \in {"dev", "alpha"} -> 1 [] OTHER -> 0

\* compare is lexicographic: Less is isLessThan, Same is compare = 0.
Less(a, b) ==
  \/ a.major < b.major
  \/ a.major = b.major /\ a.minor < b.minor
  \/ a.major = b.major /\ a.minor = b.minor /\ a.patch < b.patch
  \/ /\ a.major = b.major /\ a.minor = b.minor /\ a.patch = b.patch
     /\ Rank(a.suffix) < Rank(b.suffix)
Same(a, b) == ~Less(a, b) /\ ~Less(b, a)

\* allowedManifestChannelKeys.
Allowed(channel) ==
  CASE channel = "dev" -> <<"dev", "beta", "stable">>
    [] channel = "beta" -> <<"beta", "stable">>
    [] channel = "rc" -> <<"rc", "stable">>
    [] OTHER -> <<"stable">>

Newer(m, current, key) ==
  key \in DOMAIN m /\ m[key].latest # None /\ Less(current, m[key].latest)

\* Mutant of Chosen: the first allowed channel with something newer.
ChosenFirst(m, current, keys) ==
  {i \in DOMAIN keys : Newer(m, current, keys[i]) /\ \A j \in 1 .. i - 1 : ~Newer(m, current, keys[j])}

\* selectBestChannelEntry: the newest, among equals the first.  The set has one index or none.
Chosen(m, current, keys) ==
  {i \in DOMAIN keys :
     /\ Newer(m, current, keys[i])
     /\ \A j \in DOMAIN keys :
          Newer(m, current, keys[j]) =>
            /\ ~Less(m[keys[i]].latest, m[keys[j]].latest)
            /\ j < i => Less(m[keys[j]].latest, m[keys[i]].latest)}

\* installationModeScore.
Score(asset, setup) ==
  IF asset.mode = IF setup.portable THEN "portable" ELSE "installed" THEN 2
  ELSE IF setup.portable THEN 1 ELSE 0

\* selectAsset: the best that fits, among equals the first.
ChosenAsset(assets, setup) ==
  {i \in DOMAIN assets :
     /\ assets[i].fits
     /\ \A j \in DOMAIN assets :
          assets[j].fits =>
            /\ Score(assets[j], setup) <= Score(assets[i], setup)
            /\ j < i => Score(assets[j], setup) < Score(assets[i], setup)}

\* buildBlockers and the one that buildPlan adds.
Blocked(entry, current, setup, asset) ==
  \/ entry.minSupported # None /\ Less(current, entry.minSupported)
  \/ ~asset.valid
  \/ ~setup.portable /\ asset.mode = "portable"

NoPlan == [available |-> FALSE, blocked |-> FALSE, latest |-> None, asset |-> None]

\* buildPlan: without an asset there is no update, whatever the other channels have.
Plan(m, current, setup) ==
  LET keys == Allowed(setup.channel)
  IN IF Chosen(m, current, keys) = {} THEN NoPlan
     ELSE LET entry == m[keys[CHOOSE i \in Chosen(m, current, keys) : TRUE]]
              fitting == ChosenAsset(entry.assets, setup)
          IN IF fitting = {} THEN [NoPlan EXCEPT !.latest = entry.latest, !.blocked = TRUE]
             ELSE LET asset == entry.assets[CHOOSE i \in fitting : TRUE]
                  IN [available |-> asset.valid,
                      blocked |-> Blocked(entry, current, setup, asset),
                      latest |-> entry.latest, asset |-> asset]

-----------------------------------------------------------------------------
(* The dialog                                                                *)

VARIABLES current,   \* the version that runs
          setup,     \* fixed
          dialog,    \* what the dialog waits for
          source,    \* history: the manifest of the last check
          hasPlan, plan, verified, stagingReady,   \* the members of the dialog
          staging,   \* the staging directories: the archive unpacked for a version
          status,    \* m_statusLabel
          inUse,     \* a core, tests or the kill switch are running
          launched   \* the updater works, with this archive

members == <<hasPlan, plan, verified, stagingReady>>
checkVars == <<current, setup, dialog, source, members, staging, status, inUse, launched>>

DialogStates == {"idle", "check", "download", "confirm", "confirmInDownload", "quit"}
Statuses == {"none", "checking", "checkFailed", "checked", "downloading", "downloadFailed",
             "mismatch", "stagingFailed", "ready"}

UpdateCheckInit ==
  /\ current = Start
  /\ setup \in Setups
  /\ dialog = "idle" /\ status = "none"
  /\ source = None /\ hasPlan = FALSE /\ plan = NoPlan
  /\ verified = FALSE /\ stagingReady = FALSE
  /\ staging = {}
  /\ inUse = FALSE
  /\ launched = None

\* stagingDirForVersion: a directory per text of a version.
StagedFor(version) == {s \in staging : s.for = version}
WithoutStaged(version) == staging \ StagedFor(version)

\* Mutant of CheckNow: what was verified and staged for the last plan stays so.
CheckNowKeeps ==
  /\ dialog = "idle"
  /\ dialog' = "check" /\ status' = "checking"
  /\ UNCHANGED <<current, setup, source, members, staging, inUse, launched>>

\* onCheckNow, and onChooseLocalManifest with a file of the user's.
CheckNow ==
  /\ dialog = "idle"
  /\ verified' = FALSE /\ stagingReady' = FALSE
  /\ dialog' = "check" /\ status' = "checking"
  /\ UNCHANGED <<current, setup, source, hasPlan, plan, staging, inUse, launched>>

\* updateCheckFinished, after loadManifestFromUrl or loadManifestFromFile.
CheckFinishes ==
  /\ dialog = "check"
  /\ source' \in Manifests
  /\ hasPlan' = TRUE
  /\ plan' = Plan(source', current, setup)
  /\ dialog' = "idle" /\ status' = "checked"
  /\ UNCHANGED <<current, setup, verified, stagingReady, staging, inUse, launched>>

ManifestFails ==
  /\ dialog = "check"
  /\ "manifest" \in CheckFaults
  /\ hasPlan' = FALSE /\ verified' = FALSE /\ stagingReady' = FALSE
  /\ dialog' = "idle" /\ status' = "checkFailed"
  /\ UNCHANGED <<current, setup, source, plan, staging, inUse, launched>>

\* canDownloadAsset.
CanDownload(asset) == asset.sha256 # None \/ setup.allowUnsigned

\* onDownloadAndVerify up to the event loop of the download.
Download ==
  /\ dialog = "idle"
  /\ hasPlan /\ plan.available /\ ~plan.blocked
  /\ CanDownload(plan.asset)
  /\ dialog' = "download" /\ status' = "downloading"
  /\ UNCHANGED <<current, setup, source, members, staging, inUse, launched>>

DownloadFails ==
  /\ dialog = "download"
  /\ "download" \in CheckFaults
  /\ dialog' = "idle" /\ status' = "downloadFailed"
  /\ UNCHANGED <<current, setup, source, members, staging, inUse, launched>>

\* verifySha256, if there is something to compare with.
Matches(content) == plan.asset.sha256 \in {None, content}

VerifyFails ==
  /\ dialog = "download"
  /\ \E content \in Contents : ~Matches(content)
  /\ dialog' = "idle" /\ status' = "mismatch"
  /\ UNCHANGED <<current, setup, source, members, staging, inUse, launched>>

\* stageArchive returns early for every archive whose entries are good: the answer of
\* hasPathTraversal is taken the wrong way round.  An archive that passes has to be listed
\* twice more by extractZip and extract, so only a listing that fails once lets it through.
RefusedFirst(content) == content.clean
ListedLater(content) == content.clean

StagingRefused ==
  /\ dialog = "download"
  /\ \E content \in Contents : Matches(content) /\ RefusedFirst(content)
  /\ verified' = TRUE /\ stagingReady' = FALSE
  /\ dialog' = "idle" /\ status' = "stagingFailed"
  /\ UNCHANGED <<current, setup, source, hasPlan, plan, staging, inUse, launched>>

\* verifyReleaseManifest and verifyRequiredFiles.
Complete(content) == Same(content.version, plan.latest) /\ content.whole

\* The old folder goes before the archive is unpacked and looked at.
StagingFails ==
  /\ dialog = "download"
  /\ \E content \in Contents :
       /\ Matches(content)
       /\ ~RefusedFirst(content) \/ "list" \in CheckFaults
       /\ ~ListedLater(content) \/ ~Complete(content) \/ "extract" \in CheckFaults
  /\ verified' = TRUE /\ stagingReady' = FALSE
  /\ staging' = WithoutStaged(plan.latest)
  /\ dialog' = "idle" /\ status' = "stagingFailed"
  /\ UNCHANGED <<current, setup, source, hasPlan, plan, inUse, launched>>

\* stageArchive: what was staged for the version before is removed first.
StagedNow(content) ==
  WithoutStaged(plan.latest) \cup {[for |-> plan.latest, content |-> content]}

Stage ==
  /\ dialog = "download"
  /\ \E content \in Contents :
       /\ Matches(content)
       /\ "list" \in CheckFaults /\ ListedLater(content)
       /\ Complete(content)
       /\ staging' = StagedNow(content)
  /\ verified' = TRUE /\ stagingReady' = TRUE
  /\ dialog' = "idle" /\ status' = "ready"
  /\ UNCHANGED <<current, setup, source, hasPlan, plan, inUse, launched>>

\* canInstallPortableUpdate.
CanInstall ==
  /\ hasPlan /\ verified /\ stagingReady
  /\ setup.enabled /\ setup.portable
  /\ plan.asset # None /\ plan.asset.mode = "portable" /\ plan.asset.sha256 # None
  /\ ~inUse

\* onInstallAndRestart: the button is not taken away while a second download runs.
ClickInstall ==
  /\ CanInstall
  /\ \/ dialog = "idle" /\ dialog' = "confirm"
     \/ dialog = "download" /\ dialog' = "confirmInDownload"
  /\ UNCHANGED <<current, setup, source, members, staging, status, inUse, launched>>

Declined ==
  \/ dialog = "confirm" /\ dialog' = "idle"
  \/ dialog = "confirmInDownload" /\ dialog' = "download"

Decline == Declined /\ UNCHANGED <<current, setup, source, members, staging, status, inUse, launched>>

LaunchRefused ==
  /\ "launch" \in CheckFaults
  /\ Declined
  /\ UNCHANGED <<current, setup, source, members, staging, status, inUse, launched>>

\* launchUpdaterAndQuit and requestQuitForUpdate; what is running is not looked at again.
LaunchUpdater ==
  /\ dialog \in {"confirm", "confirmInDownload"}
  /\ \E s \in StagedFor(plan.latest) : launched' = s.content
  /\ dialog' = "quit"
  /\ UNCHANGED <<current, setup, source, members, staging, status, inUse>>

\* The updater is done, with or without success, and Zarya is started again.
StartsAgain ==
  /\ dialog = "quit"
  /\ current' \in {current, launched.version}
  /\ dialog' = "idle" /\ status' = "none"
  /\ hasPlan' = FALSE /\ plan' = NoPlan /\ verified' = FALSE /\ stagingReady' = FALSE
  /\ source' = None /\ launched' = None /\ inUse' = FALSE
  /\ UNCHANGED <<setup, staging>>

\* The dialog is closed and opened again: all its members are new.
Reopen ==
  /\ dialog = "idle"
  /\ hasPlan' = FALSE /\ plan' = NoPlan /\ verified' = FALSE /\ stagingReady' = FALSE
  /\ source' = None /\ status' = "none"
  /\ UNCHANGED <<current, setup, dialog, staging, inUse, launched>>

\* A profile, tests or the kill switch start or end, from the tray or by themselves.
UseChanges ==
  /\ dialog # "quit"
  /\ inUse' = ~inUse
  /\ UNCHANGED <<current, setup, dialog, source, members, staging, status, launched>>

UpdateCheckNext ==
  \/ CheckNow \/ CheckFinishes \/ ManifestFails
  \/ Download \/ DownloadFails \/ VerifyFails
  \/ StagingRefused \/ StagingFails \/ Stage
  \/ ClickInstall \/ Decline \/ LaunchRefused \/ LaunchUpdater
  \/ StartsAgain \/ Reopen \/ UseChanges

UpdateCheckSpec == UpdateCheckInit /\ [][UpdateCheckNext]_checkVars

-----------------------------------------------------------------------------
(* Properties                                                                *)

\* The updater is only ever launched for an archive that has the checksum of the plan
\* shown, is a whole release of the version offered, newer than the one that runs, and
\* the plan is that of the last manifest read, however often the user checked, chose
\* other manifests and downloaded again in between (AppUpdateDialog's flags).
LaunchedIsVerified ==
  [][launched = None /\ launched' # None =>
       /\ plan = Plan(source, current, setup)
       /\ plan.asset.sha256 = launched'
       /\ launched'.whole /\ Same(launched'.version, plan.latest)
       /\ Less(current, launched'.version)]_checkVars

\* An update is not followed by another from the same manifest: the planner offers the
\* newest of all the channels that the user may see, and what the updater was launched
\* with counts as that version (selectBestChannelEntry, verifyReleaseManifest).
OneUpdateSuffices ==
  launched # None => ~Plan(source, launched.version, setup).available

\* A download is staged unless the archive is not what the plan asks for, is not whole
\* or has an entry outside its folder (stageArchive).
SoundArchiveIsStaged ==
  [][dialog = "download" /\ status' = "stagingFailed" =>
       \E content \in Contents : Matches(content) /\ ~(content.clean /\ Complete(content))]_checkVars
=============================================================================
