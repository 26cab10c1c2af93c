----------------------------- MODULE SystemProxy -----------------------------
(* The system proxy controller with its persisted snapshot                   *)
(* (platform/SystemProxyController.cpp, platform/SystemProxyStateStore.cpp)  *)
(* and the start-up recovery that runs after an unclean exit                 *)
(* (recovery/StartupRecovery.cpp).  The process may be killed between any    *)
(* two writes; memory is lost then, the desktop configuration and the        *)
(* snapshot file survive.                                                    *)
EXTENDS ProxyBackend

CONSTANTS Backends,    \* the platforms considered, a subset of AllBackends
          Faults,      \* which environment failures may happen, see FaultKinds
          NoSnapshot   \* stands for "there is no snapshot"

\* "apply", "restore", "read": the manager's call fails.  "save": the snapshot
\* file cannot be written.  "crash": the process is killed inside a handler.
\* "edit": the user changes the desktop proxy while a snapshot exists that is
\* not in force.  "toggle": the user switches "restore proxy on exit" in a session.
FaultKinds == {"apply", "restore", "read", "save", "crash", "edit", "toggle"}

ASSUME BackendsAssumption == Backends \subseteq AllBackends
ASSUME FaultsAssumption == Faults \subseteq FaultKinds
ASSUME NoSnapshotAssumption == NoSnapshot \notin Configs

VARIABLES backend,         \* the platform, fixed
          os,              \* the desktop's proxy configuration
          store,           \* proxy-previous-state.json
          saved,           \* m_savedState, NoSnapshot while !m_hasSavedState
          enabledByZarya,  \* m_enabledByZarya
          restoreOnExit,   \* the setting proxy/restoreProxyOnExit
          app,             \* "up" after start-up recovery, "down" otherwise
          userCfg          \* history: the configuration the user last chose

proxyVars ==
  <<backend, os, store, saved, enabledByZarya, restoreOnExit, app, userCfg>>

ProxyTypeOK ==
  /\ backend \in Backends
  /\ os \in Configs
  /\ store \in Configs \cup {NoSnapshot}
  /\ saved \in Configs \cup {NoSnapshot}
  /\ enabledByZarya \in BOOLEAN
  /\ restoreOnExit \in BOOLEAN
  /\ app \in {"up", "down"}
  /\ userCfg \in UserConfigs

ProxyInit ==
  /\ backend \in Backends
  /\ userCfg \in UserConfigs
  /\ os = userCfg
  /\ store = NoSnapshot
  /\ saved = NoSnapshot
  /\ enabledByZarya = FALSE
  /\ restoreOnExit = TRUE
  /\ app = "down"

Allowed(outcomes, fault) == {o \in outcomes : o.ok \/ fault \in Faults}

-----------------------------------------------------------------------------
(* enableLocalHttpProxy                                                      *)

\* Mutant of SnapshotTaken: the guard on what is already held is missing.
SnapshotRetaken == saved' = os /\ store' = os

\* ensurePreviousStateSaved reads the desktop only while nothing is held; the
\* result of writing the snapshot file is ignored.
SnapshotTaken ==
  IF saved # NoSnapshot \/ enabledByZarya
  THEN UNCHANGED <<saved, store>>
  ELSE /\ saved' = os
       /\ \/ store' = os
          \/ "save" \in Faults /\ UNCHANGED store

SnapshotReadFails ==
  /\ "read" \in Faults
  /\ saved = NoSnapshot /\ ~enabledByZarya
  /\ UNCHANGED <<os, saved, store, enabledByZarya>>

\* A refused write keeps the snapshot that was just taken.
EnableLocalHttpProxy ==
  \/ SnapshotReadFails
  \/ /\ SnapshotTaken
     /\ \E o \in Allowed(ApplyHttpProxy(backend, os), "apply") :
          /\ os' = o.os
          /\ enabledByZarya' = (enabledByZarya \/ o.ok)

(* restorePreviousProxy: Automatic on stop and exit, Manual from the menu    *)

ClearRuntimeState ==
  /\ saved' = NoSnapshot
  /\ enabledByZarya' = FALSE
  /\ store' = NoSnapshot

RestoreRefused == UNCHANGED <<os, saved, store, enabledByZarya>>

\* Mutant of RestoreHeldSnapshot: what a failed restore left to do is forgotten.
RestoreForgets(ok) ==
  /\ saved # NoSnapshot
  /\ \E o \in Allowed(RestoreState(backend, os, saved), "restore") :
       /\ o.ok = ok
       /\ os' = o.os
       /\ ClearRuntimeState

RestoreHeldSnapshot(ok) ==
  /\ saved # NoSnapshot
  /\ \E o \in Allowed(RestoreState(backend, os, saved), "restore") :
       /\ o.ok = ok
       /\ os' = o.os
       /\ IF ok THEN ClearRuntimeState ELSE UNCHANGED <<saved, store, enabledByZarya>>

RestoreAutomatic(ok) ==
  \/ ~enabledByZarya /\ ok /\ RestoreRefused
  \/ enabledByZarya /\ saved = NoSnapshot /\ ~ok /\ RestoreRefused
  \/ enabledByZarya /\ RestoreHeldSnapshot(ok)

RestoreManual(ok) ==
  \/ saved = NoSnapshot /\ ~ok /\ RestoreRefused
  \/ RestoreHeldSnapshot(ok)

-----------------------------------------------------------------------------
(* StartupRecovery::detect and apply, on a controller of its own             *)

\* Mutant of SystemProxyMayBeEnabled: the snapshot file alone is no reason.
LeftoversOnly(leftovers) == restoreOnExit /\ leftovers

\* plan.systemProxyMayBeEnabled; leftovers stands for a TUN session not marked
\* clean or for configuration files of an earlier release.
SystemProxyMayBeEnabled(leftovers) ==
  restoreOnExit /\ (leftovers \/ store # NoSnapshot)

\* restorePersistedPreviousProxy, which needs the file.
PersistedRestores ==
  IF store = NoSnapshot
  THEN {[ok |-> FALSE, os |-> os]}
  ELSE Allowed(RestoreState(backend, os, store), "restore")

\* tryClearZaryaOwnedProxy on the configuration the failed restore left.
OwnedProxyClears(cfg) ==
  IF ReadsAsZaryaEndpoint(backend, cfg)
  THEN Allowed(RestoreState(backend, cfg, DisabledCopy(backend, cfg)), "restore")
         \cup (IF "read" \in Faults THEN {[ok |-> FALSE, os |-> cfg]} ELSE {})
  ELSE {[ok |-> FALSE, os |-> cfg]}

RecoveryOutcomes ==
  {r \in PersistedRestores : r.ok}
    \cup UNION {OwnedProxyClears(r.os) : r \in {p \in PersistedRestores : ~p.ok}}

\* The controller the window keeps starts empty whatever recovery did.
StartUp(leftovers) ==
  /\ app = "down"
  /\ app' = "up"
  /\ saved' = NoSnapshot
  /\ enabledByZarya' = FALSE
  /\ IF SystemProxyMayBeEnabled(leftovers)
     THEN \E r \in RecoveryOutcomes :
            /\ os' = r.os
            /\ store' = IF r.ok THEN NoSnapshot ELSE store
     ELSE UNCHANGED <<os, store>>
  /\ UNCHANGED <<backend, restoreOnExit, userCfg>>

-----------------------------------------------------------------------------
(* Kills                                                                     *)

MemoryLost ==
  /\ app' = "down"
  /\ saved' = NoSnapshot
  /\ enabledByZarya' = FALSE

\* Killed while no proxy handler runs, or a quit: both lose the memory only.
ProcessEnds ==
  /\ app = "up"
  /\ MemoryLost
  /\ UNCHANGED <<backend, os, store, restoreOnExit, userCfg>>

\* Killed after the snapshot was written, between two writes of the apply.
KilledInEnable ==
  /\ "crash" \in Faults
  /\ app = "up"
  /\ os' \in PartialWrites(os, ZaryaConfig, ApplyOrder[backend])
  /\ store' = IF saved # NoSnapshot \/ enabledByZarya THEN store ELSE os
  /\ MemoryLost
  /\ UNCHANGED <<backend, restoreOnExit, userCfg>>

\* Killed between two writes of a restore, or before the file is removed.
KilledInRestore ==
  /\ "crash" \in Faults
  /\ app = "up"
  /\ saved # NoSnapshot
  /\ os' \in PartialWrites(os, saved, RestoreOrder(backend, saved))
  /\ MemoryLost
  /\ UNCHANGED <<backend, store, restoreOnExit, userCfg>>

KilledInRecovery(leftovers) ==
  /\ "crash" \in Faults
  /\ app = "down"
  /\ SystemProxyMayBeEnabled(leftovers)
  /\ store # NoSnapshot
  /\ os' \in PartialWrites(os, store, RestoreOrder(backend, store))
  /\ UNCHANGED <<backend, store, saved, enabledByZarya, restoreOnExit, app, userCfg>>

-----------------------------------------------------------------------------
(* The controller's clients and the user                                     *)

Enable ==
  /\ app = "up"
  /\ EnableLocalHttpProxy
  /\ UNCHANGED <<backend, restoreOnExit, app, userCfg>>

\* restoreSystemProxyAutomatic asks the setting first.
StopRestores ==
  /\ app = "up"
  /\ restoreOnExit
  /\ \E ok \in BOOLEAN : RestoreAutomatic(ok)
  /\ UNCHANGED <<backend, restoreOnExit, app, userCfg>>

MenuRestores ==
  /\ app = "up"
  /\ \E ok \in BOOLEAN : RestoreManual(ok)
  /\ UNCHANGED <<backend, restoreOnExit, app, userCfg>>

UserSetsProxy ==
  /\ ~enabledByZarya
  /\ "edit" \in Faults \/ (store = NoSnapshot /\ saved = NoSnapshot)
  /\ \E cfg \in UserConfigs : os' = cfg /\ userCfg' = cfg
  /\ UNCHANGED <<backend, store, saved, enabledByZarya, restoreOnExit, app>>

\* The settings dialog.
UserTogglesRestoreOnExit ==
  /\ "toggle" \in Faults
  /\ app = "up"
  /\ restoreOnExit' = ~restoreOnExit
  /\ UNCHANGED <<backend, os, store, saved, enabledByZarya, app, userCfg>>

ProxyNext ==
  \/ Enable
  \/ StopRestores
  \/ MenuRestores
  \/ ProcessEnds
  \/ KilledInEnable
  \/ KilledInRestore
  \/ \E leftovers \in BOOLEAN : StartUp(leftovers) \/ KilledInRecovery(leftovers)
  \/ UserSetsProxy
  \/ UserTogglesRestoreOnExit

ProxySpec == ProxyInit /\ [][ProxyNext]_proxyVars

-----------------------------------------------------------------------------
(* Properties                                                                *)

\* As long as the desktop differs from what the user chose, the snapshot on
\* disk is what the user chose: a kill at any moment, inside a handler or
\* outside, leaves the next start-up all it needs
\* (platform/SystemProxyController.cpp ensurePreviousStateSaved saves before
\* applyHttpProxy; clearRuntimeState removes only after restoreState).
SnapshotCoversChange ==
  SameProxy(os, userCfg) \/ (store # NoSnapshot /\ SameProxy(store, userCfg))

\* What the controller holds in memory is on disk too, so a kill loses nothing of
\* it (ensurePreviousStateSaved, clearRuntimeState).
HeldSnapshotOnDisk == saved # NoSnapshot => store = saved

\* An enabled proxy can be taken back: the branch "Previous proxy state is missing"
\* of restorePreviousProxy is never reached, whatever failed before.
EnabledHoldsSnapshot == enabledByZarya => saved # NoSnapshot

\* The snapshot file is removed by a step that put the desktop back to it, whatever
\* applies, restores and reads fail before, in and after that step; the one exception is
\* a start-up whose restore failed on a desktop that reads as Zarya's: there the clear
\* hands the backend what it has just read, is told that it worked and removes the file
\* (clearRuntimeState, called from restorePreviousProxy and from tryClearZaryaOwnedProxy).
SnapshotDroppedOnlyWhenRestored ==
  [][(store # NoSnapshot /\ store' = NoSnapshot) =>
       \/ SameProxy(os', store)
       \/ app = "down" /\ ReadsAsZaryaEndpoint(backend, os')]_proxyVars

\* A start-up that finds a snapshot and may restore ends with the user's own
\* configuration (StartupRecovery::apply, restorePersistedPreviousProxy).
RecoveryRestoresUser ==
  [][(app = "down" /\ app' = "up" /\ restoreOnExit) => SameProxy(os', userCfg)]_proxyVars

=============================================================================
