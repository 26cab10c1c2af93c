# A verification project for Zarya

Zarya is a desktop client for proxy cores (C++/Qt, with Xray and sing-box embedded
through Go bridges). What makes it hard to get right is that it changes things
outside itself - the proxy settings of the desktop, firewall rules, its own
installation, the files of the user - and has to put them back or keep them whole after
failures, kills and quits in the middle of a step; and that its handlers wait in nested
event loops, in which the user and the other parts go on. This directory holds TLA+
models of those parts, translated from the code under `src/`, the TLC runs that check
them, and theorems that TLAPS proves about them.

Paths below are relative to `src/src` of the tree unless they begin with `docs`,
`tests` or `README.md`.

## 1. Inventory

| Component | State | Operations | What is hard | Correct when |
|---|---|---|---|---|
| System proxy controller, snapshot store (`platform/SystemProxyController.cpp`, `SystemProxyStateStore.cpp`) | snapshot in memory and in `proxy-previous-state.json`, "enabled by Zarya" | enable, restore (automatic, manual), recover a persisted snapshot, clear an owned proxy | failures of any backend call, kills between writes, edits by the user | the user's configuration is never lost |
| Desktop proxy backends (`platform/linux`, `macos`, `windows`) | the settings of the desktop | read, apply, restore | several writes without a transaction; KDE rolls back by itself | each restore undoes each apply |
| Start-up recovery (`recovery/StartupRecovery.cpp`) | none of its own | detect, apply | runs on what a kill left | a start repairs what a crash left |
| Xray host and bridge (`runtime/embedded/xray`), coordinator (`runtime/core/CoreRuntimeCoordinator.cpp`) | Go instance, ABI state, host state, the slot of the one core | validate, start, stop, drain logs | a core that dies unnoticed, failing starts and stops | the slot is taken exactly while there is an instance |
| Application controller, proxy sessions (`app/AppController.cpp`, callers in `ui/`) | runtime state, readiness timer, dialogs | start, stop, switch, check readiness, enable, restore, quit | timers and nested event loops between the steps | the proxy points at a core or is restored |
| Application controller, TUN sessions; TUN backend (`runtime/singbox/SingBoxTunRuntimeBackend.cpp`) | backend state, session flag of the kill switch | start in four commands, stop, "Disable Now", quit | every command waits in an event loop; replies get lost | no tunnel without its guard; a failed start leaves an open network |
| Helper (`helper/`), its connection (`helperclient/`), IPC (`ipc/`), its service (`service/`) | bridge, connection, socket, token, child or service | the commands, start and end of a helper, install and remove the service | requests nest and lose replies; a helper dies, or outlives the application | each call gets its own answer or none; the mirror follows the helper |
| Kill switch manager, marker, backends (`killswitch/`) | rules in the kernel, marker on disk, status in memory | enable, disable, recover, shutdown, start-up status | three places that must agree over failures, kills, reboots and a second manager | a blocked network is marked and can be opened |
| Update check, planner, verification, dialog (`updater/AppUpdate*.cpp`, `ui/AppUpdateDialog.cpp`) | plan, flags, downloaded archive | check, choose a manifest, download, verify, stage, launch | version order, channels, flags of several downloads | only what was verified is launched; an update ends |
| Portable updater (`updater/runner`) and notices | application directory, backups, plan and state files | wait, back up, remove, copy, check, roll back, prune | fails or is killed at any file; is tried again from the wreck | some whole release is left; success means whole |
| Profile tests (`testing/`, their handlers in `ui/MainWindow.cpp`) | thread pool, cancel flag, counters, queued results, ports, worker processes | start, cancel, a job begins and ends, report | workers report with queued calls while the user cancels and starts again; ports are guessed | a cancelled job begins no test; every batch ends once; a delay is that of its own server |
| Profiles and subscriptions (`subscription/`, `ui/SubscriptionManagerDialog.cpp`, `ui/MainWindow.cpp`) | two lists, two files | update, merge, edit, delete, results of tests | an update waits in an event loop with references into the lists | identity and other people's profiles survive |
| Backup (`backup/`), stores and migration (`storage/`, `migration/`) | four lists, settings, rule sets, files | load, save, export, import category by category, migrate | an import fails or is killed half way; damaged and old files | a backup gives back what it was made from; an import does what was chosen |
| Settings, autostart, wizard (`storage/AppSettings.cpp`, `ui/SettingsDialog.cpp`, `ui/onboarding`, `platform/*/*Autostart*`) | keys, login entry, active routing and DNS profile | edit, save, import, start-up checks | saves that stop half way, nested windows, writes to several files | nothing risky without consent; the choices survive |
| Geo data (`geodata/`) | two files, temporary and backup copies, a thread | check, update, cancel | renames that fail, a silent publisher, kills, a reopened dialog | files are whole and never older |
| Configuration (`core/Xray*`, `routing/`, `dns/`, `rulesets/`, `runtime/singbox/SingBox*Generator.cpp`) | rule-set catalogue and files | generate for two engines, detect required rule sets, import | two generators for one intent; strict mode over changing files | the engines agree; strict means local; encryption is kept |
| Share links (`subscription/ShareLinkParser.cpp`, `ui/ProfileDialog.cpp`, `storage/ProfileStore.cpp`) | | parse, edit, store | fields lost on the way | a link is reached as it asks |
| Core installer (`cores/`), external core process (`core/CoreManager.cpp`), diagnostics (`diagnostics/`, `logging/`) | | | not reachable, or no behaviour over time (section 6) | |

Interactions. The window and the tray call the application controller. It drives
either the Xray host (same process, GUI thread) with the system proxy controller, or
the TUN backend, which sends commands through the IPC client to `zarya-helper`, a
separate privileged process that runs the sing-box bridge and the kill switch
manager. Start-up recovery runs before any of it, on managers of its own which share
the snapshot file and the kill switch marker with the others. `zarya-updater` is a
third process that shares the installation directory and the state files of the
update with the application. Tests run on a thread pool, with worker processes; geo
data on a thread of its own. Everything else is on the GUI thread and is concurrent
only through event loops that handlers run: downloads, dialogs and requests to the
helper. `PROJECT.json` lists every component with its status and every hazard at its
line.

## 2. Modules

| Module | Models | Uses |
|---|---|---|
| `ProxyBackend` | the desktop backends as pure operators | |
| `SystemProxy` | controller, store, start-up recovery of the proxy | `ProxyBackend` |
| `XrayHost` | bridge, host, coordinator | |
| `XraySession` | the application controller's proxy sessions, composed with the two | `SystemProxy`, `XrayHost` |
| `KillSwitch` | manager, marker, nftables and WFP | |
| `TunSession` | TUN backend, connection, helper, application, composed with it | `KillSwitch` |
| `HelperIpc` | requests, replies, events; the helper's commands; its service | |
| `PortableUpdate` | launch, updater, notices | |
| `UpdateCheck` | versions, planner, verification, the update dialog | |
| `ProfileTests` | test manager, pool, ports, workers, the window's handlers | |
| `ListOps` | places in lists and the items that pass a test, as operators | |
| `ProfileList` | profiles, subscriptions, their updates and files | `ListOps` |
| `Backup` | stores, export, import, migration of old files | `ListOps` |
| `Settings` | settings, their windows, active profiles, login entry | |
| `ReplacedFiles` | abstract: what may happen to a file fetched for a core | |
| `GeoData` | the updates of such files; implements `ReplacedFiles` | `ReplacedFiles` |
| `ShareLink` | what a link becomes as a profile | |
| `ProxyOutbound` | the two outbound generators | |
| `EngineConfig` | routes, DNS and rule sets of both engines, the starts | `ProxyOutbound`, `ShareLink`, `ListOps` |
| `ListOpsProofs` | lemmas on lists and on induction over them | `ListOps` |
| `XraySessionProofs` | proofs about the proxy controller and its sessions | `SystemProxy`, `XraySession` |
| `TunSessionProofs` | proofs about kill switch, TUN sessions and the helper's requests | `KillSwitch`, `TunSession`, `HelperIpc` |
| `UpdateProofs` | proofs about the update dialog and the updater | `UpdateCheck`, `PortableUpdate` |
| `GeoDataProofs` | proofs about the updates of geo files | `GeoData` |
| `SettingsProofs` | proofs about the settings and what they select | `Settings` |
| `ProfileProofs` | proofs about tests and lists of profiles | `ProfileTests`, `ProfileList`, `ListOpsProofs` |
| `ConfigurationProofs` | proofs about generated configurations and about backups | `EngineConfig`, `Backup`, `ListOpsProofs` |
| `MC...` | instances for TLC | |

Three specifications are abstract ones that another is shown to implement.
`SystemProxy` and `KillSwitch` (`ProxySpec`, `KillSwitchSpec`) say what a client of the
component may do to it in any order; the sessions, which add the client with its
guards, timers, dialogs and processes, implement them (the specification is a PROPERTY
of the session's run, and proved; the mapping is the identity on the shared variables).
`ReplacedFiles` knows nothing of threads, temporary files or renames: a file is
replaced in one step by a published version that is not older. `GeoData` implements it
with the mapping `content <- Recoverable`, the file in place or else the one set aside,
checked by TLC and proved.

### How state and actions correspond to the code

**ProxyBackend.** A configuration of the desktop is reduced to three groups of keys:
mode, endpoint, bypass list. The platforms differ in the order in which they write
the groups (`ApplyOrder`, `RestoreOrder`), in what is left when a write fails
(`FailedWrites`: a prefix; for KDE what its own roll-back makes of it; for Windows
possibly everything, because it is `sync` that reports), and in which fields of a
snapshot a restore consults (`DisabledCopy`, `MacRestoreOrder`).

**SystemProxy.** `saved`, `store` and `enabledByZarya` are `m_savedState`, the file
and `m_enabledByZarya`; `os` is the desktop; `userCfg` is a history variable, what
the user last chose. `Enable` is `enableLocalHttpProxy`; `StopRestores` and
`MenuRestores` are `restorePreviousProxy` in its two modes; `StartUp` is the recovery,
including the fall-back to `tryClearZaryaOwnedProxy`. A kill inside a handler is an
action that performs the writes up to the kill (`KilledInEnable`,
`KilledInRestore`, `KilledInRecovery`).

**XrayHost.** `available` says whether the bridge was loaded; `instance` is the Go
side's instance, which may be dead without anybody knowing; `bridgeState` and
`hostState` are the two copies of its state; `activeCore` and `acquired` the two halves
of the coordinator's slot. Every bridge call holds the bridge's mutex to its end and
runs on the GUI thread, so the transitional states are not visible and are left out.

**XraySession.** One handler is one step, as the GUI thread runs them, except where it
opens a dialog: `gui` names the dialog or the point a longer handler is at, and while
it is open the timers (`CheckSystemProxyReady`, `DrainCoreLogs`) go on. The readiness
check is the code's: a single shot, then a repeating timer until the port accepts or
five seconds are over (`ReadyTicks` checks). Quits are of two kinds: `RequestQuit`, which a
failed restore turns into a question, and `RequestQuitForUpdate`, the quit of the update
dialog, which goes on.

**KillSwitch.** `rules` (the kernel), `marker` (the file) and `status` (the memory of
the helper) are three variables because they have three lifetimes. `Enable` and
`Disable` are the manager's; `RecoverElsewhere` is `recover` in another process;
`KilledInEnable`, `KilledInDisable` and `Reboot` are what can come in between. The
second installation of rules differs by backend (`NftInForce`, `WfpInForce`). `cutOff` is
history: the rules in force come from an enable that did not get to its marker, because it
was killed, answered too late or could not write (`Remembers`).

**TunSession.** `phase` is the command that the start waits for. The helper executes a
command as one step (its commands are handled one after the other); between commands
the application's event loop runs, so the user (`DisableNow`, `QuitInStart`), the
helper (`HelperDies`, `HelperStops`) and the system interleave there. `connected` is
what `HelperProcessManager` believes, `socket` is the truth. Names are resolved and the
bridge is loaded where the code does so, and both may fail.

**HelperIpc.** `calls` is the stack of `sendRequest` frames that wait in one another's
event loops; `toHelper` and `toClient` are the lines on the socket. A line is taken
either by the innermost wait (`ReadReply`) or by the slot of `readyRead` (`SlotReads`), which keeps
events and drops replies. `served` and `returned` are history: what the helper answered
to each id and what the last call returned. A child helper outlives an application that is
killed, and a connect is a new one whatever the state was (`ConnectHelper`,
`ConnectFails`).

**PortableUpdate.** `app` maps every file to the release it comes from; `backups` are
the backup folders. One step handles one file of the loop the updater is in
(`todo`), so it can fail or be killed between any two. A launch that fails and a plan
that is refused are steps of their own (`LaunchFails`, `PlanRefused`). `NestedFiles` are
files of a release below a directory's own `data`, `runtime` or `cores`: the preserve list,
applied inside each entry, keeps them out of every backup (`BackedUp`).

**UpdateCheck.** Versions are records compared as `AppVersion::isLessThan` does
(`Less`); `Plan` is the planner with the channels a user may see. The dialog's members
are `hasPlan`, `plan`, `verified` and `stagingReady`, each changed where its field is;
`dialog` is the event loop the dialog waits in; every check may find another manifest.

**ProfileTests.** `pool` and `running` are the thread pool, `calls` the event queue of the
GUI thread, in which the reports of all jobs arrive in the order in which they were made. A
job reads the cancel flag where the code does, and what follows is a step of its own
(`DelayStarts` starts the worker of a job that has read the flag): a cancel fits in between.
A test of the real delay takes a port, gives it back, starts a worker that binds it or
fails, and is measured through whoever holds the port (`Probed`). `batch`, `cancelled` and
`overlapped` are history: they name the batch a job belongs to, which the code does not
know.

**ProfileList.** `stack` is the call stack of handlers that wait in event loops: the
subscription dialog, an edit with its copy, an update. An update's reference into the
list of subscriptions is an index turned into what it denotes now (`ref`), which the
deletion of an earlier subscription changes. `jobs` carry the copies of profiles that
tests write back.

**Backup.** `disk`, `mem` and `active` are the files, the lists of the window and
managers, and the selected profiles; an import is a sequence of categories (`Steps`),
each a step, with its mode, and a kill may come between any two. The settings are keys, in
five kinds by what an export leaves out and an import skips (`NotExported`, `Skipped`); an
import sets the keys that the archive has and removes none. `copy` is the pre-import backup
together with what was on disk, and `source` what the archive was made from if it is one of
this installation (history).

**Settings.** `stored` are the keys that other parts rely on, `widgets` what the
settings dialog shows; saving goes through `validateAndSave` in its order, stopping
where a warning is declined. `lib`, `file` and `active` are the routing and DNS
managers. The login entry is written before its key, and a kill may come between
(`CrashAtLoginEntry`). A value that was set counts as stored, although QSettings writes its
file a moment later. `agreed`, `entryTouched` (the entry was changed from outside, or by a
save that was killed before the key) and `unsaved` are history.

**GeoData.** `worker.pc` is the statement of `runUpdate`, `updateFile` or the check the
thread is at; `final`, `temp` and `bak` are the three files of a kind. Each rename or
removal is one step and may fail. Signals of the thread are `posted` to the GUI
thread; the dialog may be closed and opened while it runs.

**EngineConfig, ProxyOutbound, ShareLink.** The generators are operators from abstract
profiles to what an engine would do: a sequence of rules, each a set of values and an
outbound, behind the tunnel's rule for hijacked DNS; the DNS servers in order; the security
and transport of the outbound. The actions are the two starts, with the detector, the
confirmation and the backend's second generation, the user who cancels at a question that
the start asks (about geo data, DNS, unusual values or the generated configuration), and
what changes the rule-set files meanwhile, also imports that fail at the removal, the copy
or the rename. Whether a geo file is missing is not part of the state, so the question about
it may always come.

The definition-by-definition correspondence, with lines, is the `map` of
`PROJECT.json`.

## 3. Runs

| Run | Question | Properties |
|---|---|---|
| `XraySessionCore` | Is the user's proxy configuration safe on four platforms, with applies and reads that fail and kills between any two writes? Does a session hold what it took, and use the proxy only as `ProxySpec` allows? | `SnapshotCoversChange`, `SessionHoldsWhatItTook`, `RecoveryRestoresUser`, `ProxySpec` |
| `XraySessionQuit` | With failing restores, edits, kills, slow cores, dialogs and the quit of an update: when is the snapshot dropped, what does a quit leave on, are starts decided? | `SnapshotDroppedOnlyWhenRestored`, `SafeExitRestores`, `ReadinessDecided` |
| `TunSession` | Is a block always known, a tunnel always guarded, the network open after a failed start, the kill switch used as `KillSwitchSpec` allows? | `BlockIsKnown`, `GuardedTunnel`, `NetworkReopens`, `KillSwitchSpec` |
| `HelperIpc` | Does each request get its own answer or none, however requests nest and replies get lost? | `AnswerIsOwn`, `MirrorFollows`, `CallsReturn` |
| `PortableUpdate` | Is a whole release left, and is what the updater reports so, through failures, kills and retries? | `SomeReleaseIsWhole`, `UserFilesStay`, `OutcomeIsExact` |
| `UpdateCheck` | Is only that launched which was verified, and does an update end? | `LaunchedIsVerified`, `OneUpdateSuffices` |
| `ProfileTests` | Do counters, window and results agree with the jobs there are, with cancels and overlapping batches? Is a delay its server's own? | `CountersAgree`, `MeasuredOwn`, `CancelStops`, `BatchEnds` |
| `ProfileList` | Do updates, edits, deletions and late results in nested event loops keep the lists right? | `OneProfilePerServer`, `UpdateIsExact`, `DeletedStaysDeleted` |
| `Backup` | Does an import of this installation's own backup bring back what it was made from, whatever was written since and whatever failed or was killed before it? Does a merge keep what is local? | `ActiveProfileExists`, `BackupRestores`, `MergeKeepsLocal` |
| `Settings` | Is anything risky in effect without consent, and do choices and profiles survive? | `RisksAreAgreed`, `LoginEntryAgrees`, `ActiveProfileIsSelected`, `ProfilesSurvive` |
| `GeoData` | Are files replaced whole, is success up to date, does everybody who waits go on? | `FilesAreReplaced`, `SuccessIsUpToDate`, `WaitsEnd` |
| `EngineConfig` | Do both engines do what the profile means, stay local in strict mode, and keep encryption and transport? | `EnginesAgree`, `StrictIsLocal`, `OutboundIsMeant`, `LinkIsMeant` |

All twelve pass. A run leaves out those failures for which its properties are false of
the code, and only those; section 7 lists what they do. They are named by the
`...Faults` constants, so that one cfg line brings them back:

* `XraySessionCore` leaves out "restore", "save", "edit", "toggle" and "slow": a snapshot that
  cannot be written is lost with the process (the controller ignores the result of `save`);
  a restore that fails in start-up recovery may be the last; with the setting "restore proxy
  on exit" off, the proxy of Zarya stays by design, and the next session takes it for the
  user's. Dialogs are off, because the confirmation is not followed by a second look at the
  core. `XraySessionQuit` has all of these but "save".
* `TunSession` leaves out only "outside": a second manager makes the helper's status stale.
* `PortableUpdate` has all its faults, also "probe" (an unreadable process list counts as
  "Zarya is gone") and "start" (the user starts Zarya from the half-replaced directory).
  Two invariants that need them left out are proved and have no run (section 4).
* `HelperIpc` leaves out a service manager whose query fails, which counts as "not
  installed" and would give two helpers.
* The others have no failures left out.

Where a property is conditional, the condition is in the property, since what it excludes
is false of the code:

* `SnapshotDroppedOnlyWhenRestored`: the start-up whose restore failed on a desktop that
  reads as Zarya's.
* `SafeExitRestores` speaks of every quit; the proxy may stay on, with its snapshot on disk, if
  the setting says so, the user answered "exit anyway", or the quit is for an update.
* `BlockIsKnown`, `NetworkReopens`: rules that an enable left without a marker (`cutOff`), for
  as long as they stand.
* `CancelStops`: a cancelled batch over which another was started, and the worker of a job
  that had read the flag before the cancel.
* `OneProfilePerServer`: a profile that a late result gave back to a subscription.
  `UpdateIsExact`: an update whose reference was moved.
* `BackupRestores` speaks of the categories that the import replaces and of the keys that an
  export contains. `SuccessIsUpToDate`: files that somebody changed during the update.
* `LoginEntryAgrees`: an entry that was touched from outside or by a save killed in its middle.
* `EnginesAgree`: on Xray, flows of protocol rules and a "Proxy All" profile with rules; on
  sing-box, values that a remark in the log or a dialog announces as dropped or unusual.
* `StrictIsLocal`: names natively only in the configuration that the backend generates, and
  only tags whose rule sets are on disk; imports that failed.

### Bounds

* Proxy: two endpoints and one bypass list of the user in addition to Zarya's own, so
  that edits and stale values show; all four backends, in `XraySessionCore` (6,604
  states). `XraySessionQuit` (237,752) needs one configuration of the user and two backends,
  of those that restore raw values and those that restore parsed ones: what it adds is the
  order of calls, with failing restores, dialogs and liveness. `ReadyTicks = 2` gives a check
  that waits, one that waits again and one that gives up; the code makes about 33 checks
  of the same form.
* TUN (130,108 states): two servers, so that rules of the wrong one can be in force; the
  rules of a third would be those of a second. Both backends.
* IPC (1,661,765): three requests, two nested. A reply can then be dropped, late for its
  own call, and read within another; a fourth request finds the same cases. `MaxRequests`
  and `MaxDepth` are guards of `Send`.
* Update (2,200,536): four application files (the executable, the updater, another, and a
  nested one that no backup has) and one of the user; `MaxVersion = 2` gives updates after
  updates; at most three backups with a retention of one, so that pruning removes some.
  `MaxVersion` and `MaxBackups` are guards of `Launch`.
* Update check (18,344): ten manifests, each for a case of the planner - a rebuilt
  release, a newer beta beside the stable one, a candidate that compares equal, a missing
  checksum, a torn archive, one with an entry outside its folder, a minimum version,
  nothing that fits. Unbounded otherwise.
* Tests (303,228): two enabled profiles and a disabled one, two threads, two ports, two
  batches (`MaxBatches`, a guard of `StartsBatch`). Two batches may overlap in every way; a
  third over both finds the same state as the second.
* Lists (656,463): two subscriptions, two servers (symmetric), three ids, four acts of the
  user, three nested handlers, two links in a list (`MaxIds`, `MaxActs`, `MaxDepth`,
  `MaxLinks`, all guards). The shortest histories that break a property by a mutant take
  three acts.
* Backup (12,050,470): one list without built-in profiles (subscriptions, whose merge is the
  harder one) and one with (routing); one key of each kind; two values of everything; five
  acts, enough to export, change, import in part, be killed and import again.
* Settings (4,578,330): both libraries with one custom profile, one release channel of each
  kind, three settings files from elsewhere, one fault from outside, three changes.
* Geo data (862,930): one file; the files of an update are handled one after the other and
  share only the flag of success, and the proofs are for any number. Three releases, so
  that one can come out during a check and one during an update; two changes from outside;
  two posted signals, so that one can be stale.
* Configuration (668,474): every server type with every security and transport that the
  generators tell apart; pairs of ten rules of all types, whose order and overlap is what can
  differ; five DNS profiles; one fault. Choices vary one part at a time, since the parts
  of a configuration are generated independently.

Deadlock checking is off where the system may stop: an application that is not running
and is not started again, and models whose acts are bounded. It is on in `GeoData`,
`HelperIpc`, `Settings` and `UpdateCheck`.

### Fairness

* `ReadinessDecided` (`Fairness` in `XraySession`): `SF(CheckSystemProxyReady)`, as Qt
  delivers a due timer whenever the event loop runs; dialogs and handlers can disable the
  action in between, so weak fairness would not say that. `WF` of `QuitRestores`, of
  `Start` in the middle of a restart and of `Quit`: a handler that has begun goes on to its
  next statement.
* `BatchEnds` (`Fairness` in `ProfileTests`): a thread pool with a free thread takes its
  next job; *some* running job goes on, as every wait in a test has a time limit
  (`TcpPingTester.cpp:22`, `RealDelayTesterWorker.cpp:112`); the event loop delivers
  queued calls.
* `WaitsEnd` (`GeoFairness`): the thread runs, where the downloader's two timers end a
  silent transfer (`GeoDataDownloader.cpp:52-86`); the event loop delivers; a destructor
  that waits for an ended thread returns.
* `CallsReturn` (`WF(TimesOut)`): the elapsed time of the innermost wait reaches its limit
  (`IpcClient.cpp`, the loop in `sendRequest`). Nothing is assumed of the helper.

Nothing is assumed of the user, of failures or of the core.

## 4. Proofs

The proofs hold for every value of the constants: any set of user configurations,
servers, files, releases, manifests, profiles and rule sets, and any bound.

**Proxy controller (`XraySessionProofs`).** The first part is about `ProxySpec`, in two
environments. Under `SaveWorks` (the snapshot file can be written; everything else may fail,
the user may edit the desktop and switch the setting at any time) it proves `ProxyTypeOK`,
`HeldSnapshotOnDisk`, a part of `SessionHoldsWhatItTook`, and
`SnapshotDroppedOnlyWhenRestored`, from `HeldInv`: what memory holds is on disk, and what is
enabled is held. Under `SafeFaults` (applies and reads may fail and the process may be killed
anywhere; the faults of `XraySessionCore`, outside of which the properties are false) it proves
`SnapshotCoversChange` and `RecoveryRestoresUser`. `SnapshotCoversChange` is not inductive: a
restore ends well only if what is held in memory is what is on disk, and a kill is harmless
only if memory holds nothing that the disk does not. `SnapshotInv` adds where the snapshot
lives (`UpHoldsStore`: while the application is up memory and file agree;
`DownHoldsNothing`), what it is (`SnapshotIsUsers`) and what is true without one
(`NoSnapshotIsUsers`). The lemmas about `ProxyBackend` show, per backend, that partial and
rolled-back writes yield configurations, and that a restore that reports success yields the
proxy of its snapshot, also on macOS, which does not write back the endpoint of a proxy that
was off.

**Kill switch (`TunSessionProofs`).** The first part proves `BlockIsKnown` and its parts of
`KillSwitchSpec`, for both backends and every fault; `EnabledIsInForce`, and so `BlockIsKnown`,
also need one manager at a time (`OneManager`). The invariant (`MarkInv`) adds to the parts
`CutOffIsUnmarked` (the history is given up as soon as the rules are gone or marked) and
`HelperDownIsDisabled`, which makes a recovery in another process harmless.

**Proxy sessions (`XraySessionProofs`).** The second part proves that the sessions implement
`ProxySpec`, with no assumption: every handler and kill maps to a step of the controller or a
stutter (`SessionUsesProxy`). With it the properties above hold of the sessions in the same
environments (`SessionDropsOnlyRestored` under `SaveWorks`; `SessionSnapshotCovers` and
`SessionRecoveryRestores` under `SafeFaults`). Of the composition itself it proves
`SafeExitRestores` under `SaveWorks` (`QuitInv`: a quit that nobody forced has nothing left to
restore), `CoordinatorTracksInstance` with no assumption (`HostInv` adds what the host says
of the instance to what the coordinator says of the host), and `SessionHoldsWhatItTook`
under `SafeFaults` and `PromptCore`: a core that runs accepts connections at once, as in the
run. It holds whether the user is asked or not, since `HoldInv` adds to `HostInv` that a
question is open only while there is an instance. Outside of `PromptCore` the property is
false: the readiness timeout stops a slow core under a proxy enabled by hand.

**TUN sessions (`TunSessionProofs`).** The second part proves that the sessions implement
`KillSwitchSpec` with no assumption, from `HelperHolds` (a tunnel and a socket end with the
helper), so that `BlockIsKnown` holds of them under `OneManager`. `GuardedTunnel` follows
under `OneManager` from `StartIsGuarded`: a start that is past its enable has rules in force
at each of its waits, whatever the event loop ran meanwhile. `NetworkReopens` follows, with
no assumption, from `StartKnowsItsBlock`: a start that fails without an undo has blocked
nothing, since the flag of the session is set exactly when there is something to undo.

**Updater (`UpdateProofs`).** Proved are all properties of the run with all faults, and
`BrokenIsNoticed` (an application that is not whole has its plan on disk) and
`UntouchedWhileRunning` under `NoOverlap`, that is without "probe" and "start". None but
the types is inductive by itself. `LoopInv` says what the loop that runs has achieved
outside `todo`: the newest backup agrees with the application, the application with the
release or with the backup. `WholeInv` says which release is whole: while the newest
backup is being made only the application or an *older* backup counts - the reason why
killing a backup half way is harmless - and once it is complete, some backup, whatever
becomes of the application. `NoticeInv` ties the state files to who runs.

**Update dialog (`UpdateProofs`).** Proved are `LaunchedIsVerified` and `OneUpdateSuffices`. That
versions with unknown suffixes compare equal makes `Less` a strict order of classes
(`LessFacts`); `PlanFacts` says that an offer is newer than what runs and as new as all
that the user may see, from which one update suffices (`PlannedOnce`). `DialogInv` ties
the dialog's flags to its plan at each point where its event loops let the user act.

**Geo data (`GeoDataProofs`).** Proved is that `GeoSpec` implements `ReplacedFiles`
(`GeoInitMaps`, `GeoStepMaps`: every step of the thread, the dialog and the world maps to a
replacement, a publication, a change from outside or a stutter) and that after a reported
success every file in place is up to date and the one whose hash is remembered. The hard
step is the removal of an old backup before the next one is made: it loses nothing only
because something is in place then. `GeoInv` says for each statement of the thread what is
where (`PlaceInv`), that what it fetched is not older than what is on disk (`ExpectInv`) and
what is in place of the files done so far (`DoneInv`).

**Configuration (`ConfigurationProofs`).** All four properties of `EngineConfig` are proved.
`OutboundIsMeant` needs that the support checks, which run before, refuse each server for
which the generator would fall through to a plain outbound. `StrictIsLocal` needs the
detector and the generator to come across the same tags: what the generator declares is in
the catalogue's files (`RouteRefersToLocal`, `DnsRefersToLocal`), and what it resolves
natively is reported missing (`SingBoxConfigParts`), upon which a start in strict mode is
refused. `StrictInv` carries what the confirmed configuration was made from, and
`NamedIsRequired` says the same of the one that the backend generates without rule sets: it
names natively nothing but tags that the detector asked for. For `EnginesAgree`, the sort of
both generators puts the rules in the order block, direct, proxy whatever their number
(`SortedRules`), in such a list the first rule that takes a flow is one of the strongest
action any rule has for it (`FirstHitWins`), and what each generator makes of a rule takes
what the rule names (`XrayRouteIsMeant`, `SingBoxRouteIsMeant`); a "Proxy All" profile leaves the
tunnel's route empty (`SingBoxProxyAll`), and hijacked DNS comes before every rule
(`HijackComesFirst`). `LinkIsMeant` follows what a
link says through parsing, editing and the file (`FromLinkKeeps`) to the outbound.

**Backups (`ConfigurationProofs`).** All three properties of `Backup` are proved, for any lists,
archives and data directories. `ActiveProfileExists` needs that a load, a merge and a replace
keep the built-in profiles (`LoadAllGives`, `MergedKeeps`, `ActiveInv`), which is so since
their ids are fixed and those of others are generated (`BackupAssumption`). `BackupRestores`
and `MergeKeepsLocal` need `ImportInv`: a backup of this installation is exactly what was on
disk when it was made (`OwnInv`), and of an import under way the categories behind it are as
their modes and the archive say, and those before it untouched (`ProgressInv`).

**Settings (`SettingsProofs`).** All four properties of `Settings` are proved. `RisksAreAgreed`
is not inductive, since a stored value is only as safe as the widget it is saved from: `RiskInv`
adds that a warning is recorded before TUN is, and that the dialog shows a risky channel only
with the tick that was agreed to. `FileInv` says when a manager and its file agree;
`ProfilesSurvive` and, over reloads, `ActiveProfileIsSelected` rest on it. `ImportsAssumption` is
what an exported settings file may hold: channel and tick are written together
(`ui/SettingsDialog.cpp:979-980`), a warning is written when it is accepted
(`SettingsDialog.cpp:782-783`, `MainWindow.cpp:995-998`) and TUN only after it, and the
login key belongs to the machine (`backup/BackupImporter.cpp:27-30`). A file edited by hand
is outside of it.

**Profile tests (`ProfileProofs`).** All three safety properties are proved, for any finite set of
profiles, any ports, threads and batches. `JobsInv` says that each job is in one place (pool,
thread or with its end posted); from it `CountInv` counts. That a window which shows "testing"
still has somebody who will change it needs the order of the queued calls: `ShownInv` says that a
result is posted right before the end of its job. `WorkerInv` says that at most one worker listens
on a port, although two may be given the same; so a measurement goes through its own.
`FlagInv` ties the flag of the manager to the batches that were cancelled, for `CancelStops`,
which a job between its look at the flag and the start of its worker makes delicate.

**Profile lists (`ProfileProofs`).** All three properties of `ProfileList` are proved, for
lists of any length and handlers nested to any depth. `ListsInv` adds to the types: ids are
unique and were issued, in memory and on disk, and so is a server within its subscription
unless a late result gave a profile back (`ListsSound`); a profile keeps its server in the
list, the file and every copy that an edit or a test holds (`ServersStay`); and while a
profile is edited nothing but results of tests happens (`EditsLast`), which is why an edit
cannot bring back a deleted profile or undo an update. `ListFollows` says of each step that
it loads the file or keeps and makes profiles; `DeletedStaysDeleted` is a consequence. The
merge of a download is a loop over its links, in which each pass reads what the last one
wrote: `MergeLinksGives` says, by induction over the links, what it makes of a list, and
`UpdateIsExact` follows. `FoundAssumption` takes the files to be written by this program. An
import of a backup, which could bring a second profile for a server, belongs to `Backup` and
not to this model.

**Requests (`TunSessionProofs`).** The last part is about `HelperIpc`, for any number of requests
nested to any depth. `AnswerIsOwn` needs `AnswerInv`: a request is answered once, an id that
was not given is not answered, and no reply on its way says more than the helper answered,
so that a reply dropped, late or read within another call cannot be taken for that of another.
`MirrorFollows` needs `MirrorInv`: the *last* line on its way that tells a status tells the
helper's present one. The theorem excludes the command `killSwitchCheckSupport`, as does the run,
because the code passes its answer to `updateKillSwitchState` although it is none.

**Lemmas (`ListOpsProofs`).** An induction theorem of the library takes an operator as a
parameter, which the provers cannot instantiate. `SmallestNat` (every set of
naturals has a least element, from the well-foundedness of `<`) gives induction without one:
`AllNumbers` for properties stated as sets, `RunExists` for the states of a loop over a list.
`ListOps` states what passes a test (`Kept`) by places and ranks and not by the recursion of
`SelectSeq`; its lemmas say that order, members and counts are what one expects.

## 5. Only model-checked

Liveness: `ReadinessDecided`, `BatchEnds`, `WaitsEnd` and `CallsReturn`. Temporal reasoning with
fairness and ENABLED is out of the prover's reach. Every other property of every run is proved,
under the assumptions that section 4 states. The proofs do not replace the runs: these show
that the interesting cases happen, and that every property can be broken by a plausible change
of the code (`mutants` in `PROJECT.json`).

## 6. Not modelled

* `cores/`: `CoreBinaryManager::canManage` (`cores/CoreBinaryManager.cpp:164-188`) refuses
  every core in this build, so installing and rolling back cores cannot be reached.
* `core/CoreManager.cpp` and `ProcessCoreRuntimeHost`: both engines are embedded; only
  left-over paths start a core process.
* `diagnostics/`, `security/`, `logging/`, `errors/`: wording of reports, on which nothing
  depends. Most preferences of `AppSettings`, widgets, themes and translations likewise.
* Within modelled parts: redaction, manifest and checksums of backups (an archive that
  does not pass changes nothing); framing of the IPC; path policy of the helper; the
  Windows service wrapper; single firewall filters; inbounds and log levels of the
  generated configurations; unit files and plists of the services; escapes and base64 of
  share links; `killSwitchCheckSupport` of the settings dialog; closing the update dialog
  while it downloads, which leaves a nested loop running.
* The downloads, additions and removals of single rule sets (`RuleSetManager.cpp:230-354`:
  `downloadItem`, `installDownloadedFile`, `addCustomItem`, `removeCustomItem`) and
  `HelperProcessManager::disconnectFromHelper`: nothing in the application calls them.

What could be added next: a composition of `HelperIpc` with `TunSession`, in which the lost
replies of the one are the "reply" fault of the other; and of `ProfileList` with `Backup`, whose
imports replace the lists that an update or an edit has copies of.

## 7. What the models show of the code

Met while modelling; where TLC gave a counterexample to a stronger property, it is said.

System proxy and sessions

* `StartupRecovery.cpp:112`: a restore that fails in start-up recovery is followed by
  `tryClearZaryaOwnedProxy`, which succeeds without doing anything and deletes the
  snapshot, if the desktop reads as Zarya's: the exception in
  `SnapshotDroppedOnlyWhenRestored` (counterexample without it).
* `AppController.cpp:1088-1101`: the quit of the update dialog
  (`ui/AppUpdateDialog.cpp:396`) goes on after a restore that failed, without asking, and
  leaves the proxy on a core that ends; the next start has the snapshot (`SafeExitRestores`
  says that much).
* `AppController.cpp:987`: a stop after the core died by itself finds nothing running and
  returns before the proxy is restored; `README.md:505` says "**Stop** restores system
  proxy (if Zarya changed it)" (counterexample).
* `EmbeddedXrayRuntimeHost.cpp:159`: after a failed start every validation is refused, as
  a host that is Failed counts as busy although it has no instance (counterexample).
* `SystemProxyController.cpp:123`: after an enable that failed, the snapshot stays in
  memory; if the user then changes his proxy, the next enable does not take a new one
  and Stop restores the older configuration. A snapshot taken under another Linux desktop
  is refused at the restore and overwritten by the next enable.
* `AppController.cpp:228`: the readiness timeout stops the core; a proxy enabled by hand
  meanwhile stays (`docs/embedded-xray.md:27` says otherwise).
* `MainWindow.cpp:1552`: the core and its port are looked at before the confirmation
  dialog and not after it. `MainWindow.cpp:2363`: the menu's "Enable system proxy" asks the
  manager of external cores; the tray's asks the right one, and is the one modelled.
* `SystemProxyController.cpp:290`: `docs/recovery.md:14` says that recovery can clear an
  owned proxy "if no snapshot exists". The clear changes `proxyEnabled` and `proxyServer`
  of the state it read; GNOME, KDE and macOS restore from the raw values instead, and
  the server that Windows reports never equals the one expected. No platform ends with
  the proxy cleared.

Kill switch, TUN and helper

* `KillSwitchManager.cpp:137`: a kill between the rules and the marker leaves a blocked
  network that recovery does not look for; the result of taking rules back when the marker
  cannot be written is ignored; a reply that comes too late leaves rules as well. The run has
  all three, and `BlockIsKnown` allows for that block and for no other.
* `LinuxNftKillSwitchManager.cpp:173`: rules of a new server are appended behind the reject
  of the old ones, so the selected server is blocked (counterexample;
  `docs/kill-switch-design.md:5`). `:109`: only TCP to the server is let through.
* `WindowsWfpFilterBuilder.cpp:108` and `:192` swap addresses to network order although
  WFP takes host order; `allowLan` is not used there, and the TUN interface does not exist
  yet when the filters are built, so it gets none.
* `AppController.cpp:1118`: a quit during a start finds nothing running, and the start goes
  on behind it (counterexample; `docs/privileged-helper-design.md:97`). `GuardedTunnel`
  therefore excludes quits.
* A reply to `startTun` that is lost leaves the tunnel up while the application says Failed;
  `NetworkReopens` allows for this and for nothing else.
* `SingBoxTunRuntimeBackend.cpp:81`: the backend generates the configuration again with an
  empty rule-set context, so the local rule sets of the preview are not used and a start in
  strict mode uses native geo data (counterexample; `docs/sing-box-rule-sets.md:54-62`).
  `StrictIsLocal` says of it only that each tag so used has its rule set on disk.
* `IpcClient.cpp:97`: `waitForReadyRead` emits `readyRead`, whose slot drops the reply the
  caller waits for; a nested request drops the one of the outer. The call then times out
  although the command was executed.
* `HelperProcessManager.cpp:377`: the answer to `killSwitchCheckSupport`, which says whether a kill
  switch is possible (`HelperCommandServer.cpp:158`), is taken for the status of the one there is.
* `HelperCommandServer.cpp:112`: the active client is not reset when it disconnects
  (`StaleClientUsed` ends the helper). `HelperProcessManager.cpp:150`: the token is kept for
  ever, also when another kind of helper takes over.

Updates

* `PortableUpdateApplier.cpp:356`: an update whose removal or copy fails gives up without
  rollback; `docs/updater/portable-update-implementation.md:37` says "On failure, rollback
  restores the backup" (counterexample). `docs/updater/recovery.md:19` sends the user to
  the newest backup, which after a retried update is one of the wreck;
  `SomeReleaseIsWhole` says that an older one is whole.
* `PortableUpdateApplier.cpp:179`: the preserve list is applied inside each top-level entry, so
  files of a release below an entry's own `data`, `runtime` or `cores` are removed (`:210`) and
  in no backup; a rollback that reports completion loses them (counterexample).
* With an unreadable plan the updater ends without restarting Zarya and without a report;
  this and a failed launch leave the plan behind.
* `AppUpdateStager.cpp:148`: the answer of `hasPathTraversal` is used the wrong way round: an
  archive without unsafe entries is refused, and one is only staged if listing it failed the
  first time and worked the second (counterexample to
  `docs/updater/portable-update-implementation.md:32`). `UpdateCheck` reaches a launch only
  through such a failure ("list"); `PortableUpdate` starts from a staged release however it
  came to be staged.
* Candidates compare equal among each other and rank below dev builds, so rc.2 is never
  offered to rc.1. The newest channel without a fitting asset hides an older one with one.
  What is in use is not looked at again after the confirmation.

Tests and lists

* `TestManager.cpp:186`: a new batch over a cancelled one clears the shared flag, and its
  queued jobs run (counterexample; `README.md:269`); those end as "failed", not cancelled.
* `TestManager.cpp:83` reads the flag and `RealDelayTesterWorker.cpp:98` starts the worker: after a
  cancel in between a worker starts (counterexample), which the next look at the flag kills.
* `TestManager.cpp:181`: a batch of disabled profiles takes the window's test actions away
  and does not give them back.
* `MainWindow.cpp:2576`: a result replaces the whole profile by the copy taken when the
  batch was started: edits are lost, and a profile kept "as manual" when its subscription
  was deleted goes back to it (counterexample). `MainWindow.cpp:2579`: "testing" reaches
  `profiles.json`, where a kill leaves it.
* `SubscriptionManager.cpp:58`: a subscription deleted during an update makes the held
  reference denote the next one, whose status is then written, or freed memory.
* An unreadable `profiles.json` loads as an empty list, which the next save writes.

Stores, backup and settings

* `PortableMigration.cpp:108`: the import of a portable folder lays the files out in a way
  the importer does not look for, so it reports completion and brings nothing
  (`README.md:108`).
* The safety copy is made from the disk and not of unsaved changes in the window. A merge of
  subscriptions by URL drops the local id, so its profiles lose their subscription; a
  subscription placed by URL can be overwritten by one placed by id
  (`docs/backup-import-export.md:52`). `BackupImporter.cpp:366-375`: an import of settings,
  also one that replaces the lists, sets the keys of the archive and keeps all others. Rule
  sets and geo files are not in the safety copy and are removed before they are copied.
* `RoutingManager.cpp:166`: an unreadable file leaves the built-in profiles only, and the
  next save overwrites it.
* `SettingsDialog.cpp:944` and `:963`: a declined warning leaves the first half of the
  settings saved, and TUN without the kill switch that was asked for; Cancel undoes neither.
  `:916-925`: a kill between the login entry and its key leaves them apart (counterexample).
  `DnsManagerDialog.cpp:252` stores the id of a new profile at once but the profile only
  when the window closes.

Geo data and configuration

* `GeoDataManager.cpp:199` and `:298`: a stale `finished` signal deletes the running thread or
  dereferences null (`DeliverStale`). A crash between two renames leaves a `.bak` that nobody
  takes back; `ReplacedFiles` counts it as still to be had.
* An update that is refused because a check runs leaves the buttons waiting until the
  dialog is opened anew; `WaitsEnd` speaks of updates that run.
* Xray ignores mode "proxy all" if the profile has rules (`README.md:287`; counterexample), sing-box
  ignores the rules. Rules by protocol (`README.md:291`) never match on Xray, since no inbound
  that is generated sniffs (counterexample). Custom DNS on sing-box keeps only the
  first domain matcher, and edited servers of the fixed modes are not used.
* sing-box drops a transport silently, and a VMess server of unknown security goes without
  TLS; `OutboundIsMeant` speaks of the securities it knows and of Xray's transports.
* `ProfileDialog`: saving a profile drops its plugin, obfuscation, pre-shared key, allowed
  addresses and ALPN and turns an unknown security into "none". A trojan link without
  security on another port than 443 goes plain. An empty network becomes "tcp" only by a
  restart, so sing-box refuses a VLESS server before it and takes it after.
