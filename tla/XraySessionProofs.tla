-------------------------- MODULE XraySessionProofs --------------------------
(* Proofs about SystemProxy and about XraySession, for every set of user     *)
(* configurations, every set of backends and every set of the harmless       *)
(* faults.  First the proxy controller by itself: its snapshot is never      *)
(* lost.  Then the sessions, which use the controller as SystemProxy allows, *)
(* so what is proved of it holds of them, and which can give back what they  *)
(* took.                                                                     *)
EXTENDS XraySession, TLAPS

\* The environment in which the snapshot is safe: the snapshot file can be
\* written, a restore that is tried succeeds, nobody else edits the desktop
\* while a snapshot is held.  Applies and reads
\* may fail, and the process may be killed at any point.
SafeFaults == Faults \subseteq {"apply", "read", "crash"}

\* The inductive invariant: where the snapshot lives, and what it is.
SnapshotIsUsers == store # NoSnapshot => SameProxy(store, userCfg)
NoSnapshotIsUsers == store = NoSnapshot => SameProxy(os, userCfg)
DownHoldsNothing == app = "down" => saved = NoSnapshot /\ ~enabledByZarya
UpHoldsStore == app = "up" => saved = store

SnapshotInv ==
  /\ ProxyTypeOK
  /\ restoreOnExit = TRUE
  /\ EnabledHoldsSnapshot
  /\ DownHoldsNothing
  /\ UpHoldsStore
  /\ SnapshotIsUsers
  /\ NoSnapshotIsUsers

-----------------------------------------------------------------------------
(* Lemmas on the backends                                                    *)

\* A write of some of the groups yields a configuration again.
LEMMA OverwriteType ==
  ASSUME NEW cfg \in Configs, NEW target \in Configs, NEW keys
  PROVE  Overwrite(cfg, target, keys) \in Configs
BY DEF Overwrite, Configs

\* Zarya's own configuration and the user's are configurations.
LEMMA ConfigTypes == ZaryaConfig \in Configs /\ UserConfigs \subseteq Configs
BY DEF ZaryaConfig, UserConfigs, Configs, Endpoints, Bypasses

\* Interrupted writes yield configurations.
LEMMA PartialType ==
  ASSUME NEW cfg \in Configs, NEW target \in Configs, NEW order,
         NEW left \in PartialWrites(cfg, target, order)
  PROVE  left \in Configs
BY OverwriteType DEF PartialWrites

\* So does a failed write on every backend, KDE's write back included.
LEMMA FailedType ==
  ASSUME NEW b \in AllBackends, NEW cfg \in Configs, NEW target \in Configs,
         NEW order, NEW left \in FailedWrites(b, cfg, target, order)
  PROVE  left \in Configs
<1>1. InterruptedWrites(cfg, target, order) \subseteq Configs
  BY OverwriteType DEF InterruptedWrites
<1>2. PartialWrites(cfg, target, order) \subseteq Configs
  BY PartialType
<1>3. KdeRolledBack(cfg, target, order) \subseteq Configs
  BY <1>2, PartialType DEF KdeRolledBack
<1> QED
  BY <1>1, <1>2, <1>3 DEF FailedWrites, AllBackends, LinuxBackends

LEMMA OutcomeType ==
  ASSUME NEW b \in AllBackends, NEW cfg \in Configs, NEW target \in Configs,
         NEW order, NEW o \in Outcomes(b, cfg, target, order)
  PROVE  o.os \in Configs /\ o.ok \in BOOLEAN
<1>1. CASE o = [ok |-> TRUE, os |-> Overwrite(cfg, target, ToSet(order))]
  BY <1>1, OverwriteType
<1>2. CASE \E left \in FailedWrites(b, cfg, target, order) :
             o = [ok |-> FALSE, os |-> left]
  BY <1>2, FailedType
<1> QED
  BY <1>1, <1>2 DEF Outcomes

\* A restore that reports success leaves the proxy of the snapshot, also on macOS
\* where the endpoint of a switched off proxy is not written back.
LEMMA RestoredIsSnapshot ==
  ASSUME NEW b \in AllBackends, NEW cfg \in Configs, NEW snapshot \in Configs,
         NEW o \in RestoreState(b, cfg, snapshot), o.ok
  PROVE  SameProxy(o.os, snapshot)
<1> DEFINE order == RestoreOrder(b, snapshot)
<1>1. o.os = Overwrite(cfg, snapshot, ToSet(order))
  BY DEF RestoreState, Outcomes
<1>2. snapshot.mode \in {"off", "manual"}
  BY DEF Configs
<1>3. "mode" \in ToSet(order)
  <2>1. order[1] = "mode" \/ order[2] = "mode" \/ order[3] = "mode"
    BY DEF RestoreOrder, MacRestoreOrder, AllBackends, LinuxBackends
  <2>2. order[1] = "mode" => "mode" \in ToSet(order)
    BY DEF RestoreOrder, MacRestoreOrder, AllBackends, LinuxBackends, ToSet
  <2> QED
    BY <2>1 DEF RestoreOrder, MacRestoreOrder, AllBackends, LinuxBackends, ToSet
<1>4. CASE snapshot.mode = "off"
  BY <1>1, <1>3, <1>4 DEF Overwrite, SameProxy
<1>5. CASE snapshot.mode = "manual"
  <2>1. "endpoint" \in ToSet(order) /\ "bypass" \in ToSet(order)
    BY <1>5 DEF RestoreOrder, MacRestoreOrder, AllBackends, LinuxBackends, ToSet
  <2> QED
    BY <1>1, <1>3, <2>1 DEF Overwrite, SameProxy, Configs
<1> QED
  BY <1>2, <1>4, <1>5

-----------------------------------------------------------------------------
(* The invariant                                                             *)

\* Looking the same to an application is an equivalence.
LEMMA SameProxyTransitive ==
  ASSUME NEW a \in Configs, NEW b \in Configs, NEW c \in Configs,
         SameProxy(a, b), SameProxy(b, c)
  PROVE  SameProxy(a, c)
BY DEF SameProxy

LEMMA InitInv == ProxyInit => SnapshotInv
BY BackendsAssumption, ConfigTypes
   DEF ProxyInit, SnapshotInv, ProxyTypeOK, EnabledHoldsSnapshot, DownHoldsNothing,
       UpHoldsStore, SnapshotIsUsers, NoSnapshotIsUsers, SameProxy

\* The snapshot is taken from the user's configuration, and kept.
LEMMA EnableInv ==
  ASSUME SafeFaults, SnapshotInv, Enable
  PROVE  SnapshotInv'
<1> USE NoSnapshotAssumption DEF SnapshotInv, ProxyTypeOK
<1>1. backend \in AllBackends
  BY BackendsAssumption
<1>2. CASE SnapshotReadFails
  BY <1>2 DEF Enable, SnapshotReadFails, EnabledHoldsSnapshot, DownHoldsNothing,
              UpHoldsStore, SnapshotIsUsers, NoSnapshotIsUsers
<1>3. CASE /\ SnapshotTaken
           /\ \E o \in Allowed(ApplyHttpProxy(backend, os), "apply") :
                /\ os' = o.os
                /\ enabledByZarya' = (enabledByZarya \/ o.ok)
  <2>1. os' \in Configs /\ enabledByZarya' \in BOOLEAN
    BY <1>1, <1>3, ConfigTypes, OutcomeType DEF Allowed, ApplyHttpProxy
  <2>2. saved' = store' /\ saved' \in Configs /\ SameProxy(saved', userCfg)
    <3>1. "save" \notin Faults
      BY DEF SafeFaults
    <3>2. app = "up" /\ saved = store
      BY DEF Enable, UpHoldsStore
    <3> QED
      BY <1>3, <3>1, <3>2 DEF SnapshotTaken, EnabledHoldsSnapshot, SnapshotIsUsers,
                              NoSnapshotIsUsers
  <2> QED
    BY <2>1, <2>2 DEF Enable, EnabledHoldsSnapshot, DownHoldsNothing, UpHoldsStore,
                      SnapshotIsUsers, NoSnapshotIsUsers
<1> QED
  BY <1>2, <1>3 DEF Enable, EnableLocalHttpProxy

\* A restore of the held snapshot ends with the user's configuration.
LEMMA RestoreInv ==
  ASSUME SafeFaults, SnapshotInv, app = "up", NEW ok \in BOOLEAN,
         RestoreHeldSnapshot(ok) \/ RestoreRefused,
         UNCHANGED <<backend, restoreOnExit, app, userCfg>>
  PROVE  SnapshotInv'
<1> USE NoSnapshotAssumption DEF SnapshotInv, ProxyTypeOK
<1>1. CASE RestoreRefused
  BY <1>1 DEF RestoreRefused, EnabledHoldsSnapshot, DownHoldsNothing, UpHoldsStore,
              SnapshotIsUsers, NoSnapshotIsUsers
<1>2. CASE RestoreHeldSnapshot(ok)
  <2>1. backend \in AllBackends /\ saved \in Configs
    BY <1>2, BackendsAssumption DEF RestoreHeldSnapshot
  <2>2. PICK o \in RestoreState(backend, os, saved) :
          /\ o.ok \/ "restore" \in Faults
          /\ o.ok = ok /\ os' = o.os
          /\ IF ok THEN ClearRuntimeState ELSE UNCHANGED <<saved, store, enabledByZarya>>
    BY <1>2 DEF RestoreHeldSnapshot, Allowed
  <2>3. o.ok /\ ok
    BY <2>2 DEF SafeFaults
  <2>4. os' \in Configs
    BY <2>1, <2>2, OutcomeType DEF RestoreState
  <2>5. SameProxy(os', saved)
    BY <2>1, <2>2, <2>3, RestoredIsSnapshot
  <2>6. SameProxy(saved, userCfg)
    BY <2>1 DEF UpHoldsStore, SnapshotIsUsers
  <2>7. SameProxy(os', userCfg)
    BY <2>1, <2>4, <2>5, <2>6, ConfigTypes, SameProxyTransitive
  <2> QED
    BY <2>2, <2>3, <2>4, <2>7 DEF ClearRuntimeState, EnabledHoldsSnapshot,
       DownHoldsNothing, UpHoldsStore, SnapshotIsUsers, NoSnapshotIsUsers
<1> QED
  BY <1>1, <1>2

\* Recovery from a held snapshot ends with the user's configuration; without one
\* there is nothing to take back, and clearing leaves the desktop as it was.
LEMMA StartUpInv ==
  ASSUME SafeFaults, SnapshotInv, NEW leftovers \in BOOLEAN, StartUp(leftovers)
  PROVE  SnapshotInv'
<1> USE NoSnapshotAssumption DEF SnapshotInv, ProxyTypeOK
<1>1. backend \in AllBackends /\ "restore" \notin Faults
  BY BackendsAssumption DEF SafeFaults
<1>2. CASE store = NoSnapshot
  <2>1. SameProxy(os, userCfg)
    BY <1>2 DEF NoSnapshotIsUsers
  <2>2. ASSUME NEW r \in RecoveryOutcomes
        PROVE  r.os \in Configs /\ SameProxy(r.os, os)
    <3>1. r \in OwnedProxyClears(os)
      BY <1>2 DEF RecoveryOutcomes, PersistedRestores
    <3>2. CASE r = [ok |-> FALSE, os |-> os]
      BY <3>2 DEF SameProxy
    <3>3. CASE /\ ReadsAsZaryaEndpoint(backend, os)
               /\ r \in Allowed(RestoreState(backend, os, DisabledCopy(backend, os)), "restore")
      <4>1. DisabledCopy(backend, os) = os
        BY <3>3 DEF DisabledCopy, ReadsAsZaryaEndpoint
      <4>2. r \in RestoreState(backend, os, os) /\ r.ok
        BY <1>1, <3>3, <4>1 DEF Allowed
      <4>3. r.os \in Configs
        BY <1>1, <4>2, OutcomeType DEF RestoreState
      <4>4. SameProxy(r.os, os)
        BY <1>1, <4>2, RestoredIsSnapshot
      <4> QED
        BY <4>3, <4>4
    <3> QED
      BY <3>1, <3>2, <3>3 DEF OwnedProxyClears
  <2>3. os' \in Configs /\ store' = NoSnapshot /\ SameProxy(os', os)
    BY <1>2, <2>2 DEF StartUp, SameProxy
  <2>4. SameProxy(os', userCfg)
    BY <2>1, <2>3, ConfigTypes, SameProxyTransitive
  <2> QED
    BY <2>3, <2>4 DEF StartUp, EnabledHoldsSnapshot, DownHoldsNothing, UpHoldsStore,
                      SnapshotIsUsers, NoSnapshotIsUsers
<1>3. CASE store # NoSnapshot
  <2>1. store \in Configs /\ SystemProxyMayBeEnabled(leftovers)
    BY <1>3 DEF SystemProxyMayBeEnabled
  <2>2. ASSUME NEW r \in RecoveryOutcomes
        PROVE  r.ok /\ r.os \in Configs /\ SameProxy(r.os, store)
    <3>1. \A p \in PersistedRestores : p.ok /\ p \in RestoreState(backend, os, store)
      BY <1>1, <1>3 DEF PersistedRestores, Allowed
    <3>2. r.ok /\ r \in RestoreState(backend, os, store)
      BY <3>1 DEF RecoveryOutcomes
    <3>3. r.os \in Configs
      BY <1>1, <2>1, <3>2, OutcomeType DEF RestoreState
    <3>4. SameProxy(r.os, store)
      BY <1>1, <2>1, <3>2, RestoredIsSnapshot
    <3> QED
      BY <3>2, <3>3, <3>4
  <2>3. os' \in Configs /\ store' = NoSnapshot /\ SameProxy(os', store)
    BY <2>1, <2>2 DEF StartUp
  <2>4. SameProxy(store, userCfg)
    BY <1>3 DEF SnapshotIsUsers
  <2>5. SameProxy(os', userCfg)
    BY <2>1, <2>3, <2>4, ConfigTypes, SameProxyTransitive
  <2> QED
    BY <2>3, <2>5 DEF StartUp, EnabledHoldsSnapshot, DownHoldsNothing, UpHoldsStore,
                      SnapshotIsUsers, NoSnapshotIsUsers
<1> QED
  BY <1>2, <1>3

\* A kill leaves some configuration on the desktop and the user's in the file.
LEMMA KillInv ==
  ASSUME SafeFaults, SnapshotInv,
         \/ KilledInEnable
         \/ KilledInRestore
         \/ \E leftovers \in BOOLEAN : KilledInRecovery(leftovers)
  PROVE  SnapshotInv'
<1> USE NoSnapshotAssumption, ConfigTypes DEF SnapshotInv, ProxyTypeOK
<1>1. CASE KilledInEnable
  <2>1. os' \in Configs
    BY <1>1, PartialType DEF KilledInEnable
  <2>2. store' \in Configs /\ SameProxy(store', userCfg)
    BY <1>1 DEF KilledInEnable, EnabledHoldsSnapshot, UpHoldsStore, SnapshotIsUsers,
                NoSnapshotIsUsers
  <2> QED
    BY <1>1, <2>1, <2>2 DEF KilledInEnable, MemoryLost, EnabledHoldsSnapshot,
       DownHoldsNothing, UpHoldsStore, SnapshotIsUsers, NoSnapshotIsUsers
<1>2. CASE KilledInRestore
  <2>1. os' \in Configs /\ store = saved
    BY <1>2, PartialType DEF KilledInRestore, UpHoldsStore
  <2> QED
    BY <1>2, <2>1 DEF KilledInRestore, MemoryLost, EnabledHoldsSnapshot,
       DownHoldsNothing, UpHoldsStore, SnapshotIsUsers, NoSnapshotIsUsers
<1>3. CASE \E leftovers \in BOOLEAN : KilledInRecovery(leftovers)
  <2>1. os' \in Configs
    BY <1>3, PartialType DEF KilledInRecovery
  <2> QED
    BY <1>3, <2>1 DEF KilledInRecovery, EnabledHoldsSnapshot,
       DownHoldsNothing, UpHoldsStore, SnapshotIsUsers, NoSnapshotIsUsers
<1> QED
  BY <1>1, <1>2, <1>3

\* Every step of the controller, its clients, the user and the system.
LEMMA StepInv ==
  ASSUME SafeFaults, SnapshotInv, [ProxyNext]_proxyVars
  PROVE  SnapshotInv'
<1> USE DEF SnapshotInv
<1>1. CASE Enable
  BY <1>1, EnableInv
<1>2. CASE StopRestores
  <2>1. PICK ok \in BOOLEAN : RestoreAutomatic(ok)
    BY <1>2 DEF StopRestores
  <2>2. RestoreHeldSnapshot(ok) \/ RestoreRefused
    BY <2>1 DEF RestoreAutomatic
  <2> QED
    BY <1>2, <2>2, RestoreInv DEF StopRestores
<1>3. CASE MenuRestores
  <2>1. PICK ok \in BOOLEAN : RestoreManual(ok)
    BY <1>3 DEF MenuRestores
  <2>2. RestoreHeldSnapshot(ok) \/ RestoreRefused
    BY <2>1 DEF RestoreManual
  <2> QED
    BY <1>3, <2>2, RestoreInv DEF MenuRestores
<1>4. CASE ProcessEnds
  BY <1>4 DEF ProcessEnds, MemoryLost, ProxyTypeOK, EnabledHoldsSnapshot,
     DownHoldsNothing, UpHoldsStore, SnapshotIsUsers, NoSnapshotIsUsers
<1>5. CASE KilledInEnable \/ KilledInRestore
           \/ \E leftovers \in BOOLEAN : KilledInRecovery(leftovers)
  BY <1>5, KillInv
<1>6. CASE \E leftovers \in BOOLEAN : StartUp(leftovers)
  BY <1>6, StartUpInv
<1>7. CASE UserSetsProxy
  <2>1. "edit" \notin Faults
    BY DEF SafeFaults
  <2>2. store = NoSnapshot /\ os' \in UserConfigs /\ userCfg' = os'
    BY <1>7, <2>1 DEF UserSetsProxy
  <2> QED
    BY <1>7, <2>2, ConfigTypes
       DEF UserSetsProxy, ProxyTypeOK, EnabledHoldsSnapshot, DownHoldsNothing,
           UpHoldsStore, SnapshotIsUsers, NoSnapshotIsUsers, SameProxy
<1>8. CASE UNCHANGED proxyVars
  BY <1>8 DEF proxyVars, ProxyTypeOK, EnabledHoldsSnapshot, DownHoldsNothing,
              UpHoldsStore, SnapshotIsUsers, NoSnapshotIsUsers
<1>9. ~UserTogglesRestoreOnExit
  BY DEF UserTogglesRestoreOnExit, SafeFaults
<1> QED
  BY <1>1, <1>2, <1>3, <1>4, <1>5, <1>6, <1>7, <1>8, <1>9 DEF ProxyNext

\* The invariant implies what the runs check.
LEMMA InvImplies ==
  SnapshotInv => ProxyTypeOK /\ SnapshotCoversChange /\ HeldSnapshotOnDisk
BY DEF SnapshotInv, SnapshotCoversChange, HeldSnapshotOnDisk, ProxyTypeOK,
       DownHoldsNothing, UpHoldsStore, SnapshotIsUsers, NoSnapshotIsUsers

\* A start-up with the restore setting on ends with the user's configuration.
LEMMA RecoveryStep ==
  ASSUME SafeFaults, SnapshotInv, [ProxyNext]_proxyVars,
         app = "down", app' = "up"
  PROVE  SameProxy(os', userCfg')
<1>1. PICK leftovers \in BOOLEAN : StartUp(leftovers)
  BY DEF ProxyNext, proxyVars, Enable, StopRestores, MenuRestores, ProcessEnds,
     KilledInEnable, KilledInRestore, KilledInRecovery, StartUp, UserSetsProxy,
     UserTogglesRestoreOnExit
<1>2. SnapshotInv' /\ saved' = NoSnapshot
  BY <1>1, StepInv DEF StartUp
<1>3. store' = NoSnapshot
  BY <1>2 DEF SnapshotInv, UpHoldsStore
<1> QED
  BY <1>2, <1>3 DEF SnapshotInv, NoSnapshotIsUsers

-----------------------------------------------------------------------------
(* The snapshot under every fault but one                                    *)

\* The snapshot file can be written; everything else may fail, the user may edit the
\* desktop and switch the setting at any time.
SaveWorks == "save" \notin Faults

\* What then still relates the file and the memory.
HeldInv ==
  /\ ProxyTypeOK
  /\ EnabledHoldsSnapshot
  /\ DownHoldsNothing
  /\ HeldSnapshotOnDisk

\* A restore that was tried either leaves the snapshot or drops what it restored.
LEMMA HeldRestore ==
  ASSUME HeldInv, NEW ok \in BOOLEAN, app = "up",
         RestoreHeldSnapshot(ok) \/ RestoreRefused,
         UNCHANGED <<backend, restoreOnExit, app, userCfg>>
  PROVE  /\ HeldInv'
         /\ (store # NoSnapshot /\ store' = NoSnapshot) => SameProxy(os', store)
<1> USE NoSnapshotAssumption DEF HeldInv, ProxyTypeOK, EnabledHoldsSnapshot, DownHoldsNothing,
                                 HeldSnapshotOnDisk
<1>1. CASE RestoreRefused
  BY <1>1 DEF RestoreRefused
<1>2. CASE RestoreHeldSnapshot(ok)
  <2>1. backend \in AllBackends /\ saved \in Configs /\ store = saved
    BY <1>2, BackendsAssumption DEF RestoreHeldSnapshot
  <2>2. PICK o \in RestoreState(backend, os, saved) :
          /\ o.ok = ok /\ os' = o.os
          /\ IF ok THEN ClearRuntimeState ELSE UNCHANGED <<saved, store, enabledByZarya>>
    BY <1>2 DEF RestoreHeldSnapshot, Allowed
  <2>3. os' \in Configs
    BY <2>1, <2>2, OutcomeType DEF RestoreState
  <2>4. ok => SameProxy(os', saved)
    BY <2>1, <2>2, RestoredIsSnapshot
  <2> QED
    BY <2>1, <2>2, <2>3, <2>4 DEF ClearRuntimeState
<1> QED
  BY <1>1, <1>2

\* A start-up drops the file for a restore that worked, or for a clear that changed nothing
\* on a desktop that reads as Zarya's.
LEMMA HeldStartUp ==
  ASSUME HeldInv, NEW leftovers \in BOOLEAN, StartUp(leftovers)
  PROVE  /\ HeldInv'
         /\ (store # NoSnapshot /\ store' = NoSnapshot) =>
              SameProxy(os', store) \/ ReadsAsZaryaEndpoint(backend, os')
<1> USE NoSnapshotAssumption DEF HeldInv, ProxyTypeOK
<1>1. backend \in AllBackends
  BY BackendsAssumption
<1>2. ASSUME NEW p \in PersistedRestores
      PROVE  /\ p.os \in Configs
             /\ store # NoSnapshot /\ p.ok => SameProxy(p.os, store)
  <2>1. CASE store = NoSnapshot
    BY <1>2, <2>1 DEF PersistedRestores
  <2>2. CASE store # NoSnapshot
    <3>1. p \in RestoreState(backend, os, store) /\ store \in Configs
      BY <1>2, <2>2 DEF PersistedRestores, Allowed
    <3>2. p.os \in Configs
      BY <1>1, <3>1, OutcomeType DEF RestoreState
    <3>3. p.ok => SameProxy(p.os, store)
      BY <1>1, <3>1, RestoredIsSnapshot
    <3> QED
      BY <3>2, <3>3
  <2> QED
    BY <2>1, <2>2
<1>3. ASSUME NEW cfg \in Configs, NEW r \in OwnedProxyClears(cfg)
      PROVE  r.os \in Configs /\ (r.ok => ReadsAsZaryaEndpoint(backend, r.os))
  <2>1. CASE r = [ok |-> FALSE, os |-> cfg]
    BY <1>3, <2>1
  <2>2. CASE /\ ReadsAsZaryaEndpoint(backend, cfg)
             /\ r \in Allowed(RestoreState(backend, cfg, DisabledCopy(backend, cfg)), "restore")
    <3>1. DisabledCopy(backend, cfg) = cfg
      BY <2>2 DEF DisabledCopy, ReadsAsZaryaEndpoint
    <3>2. r \in RestoreState(backend, cfg, cfg)
      BY <2>2, <3>1 DEF Allowed
    <3>3. r.os \in Configs
      BY <1>1, <1>3, <3>2, OutcomeType DEF RestoreState
    <3>4. r.ok => r.os = Overwrite(cfg, cfg, ToSet(RestoreOrder(backend, cfg)))
      BY <3>2 DEF RestoreState, Outcomes
    <3>5. Overwrite(cfg, cfg, ToSet(RestoreOrder(backend, cfg))) = cfg
      BY <1>3 DEF Overwrite, Configs
    <3> QED
      BY <2>2, <3>3, <3>4, <3>5
  <2> QED
    BY <1>3, <2>1, <2>2 DEF OwnedProxyClears
<1>4. ASSUME NEW r \in RecoveryOutcomes
      PROVE  /\ r.os \in Configs
             /\ store # NoSnapshot /\ r.ok =>
                  SameProxy(r.os, store) \/ ReadsAsZaryaEndpoint(backend, r.os)
  <2>1. CASE r \in PersistedRestores
    BY <1>2, <2>1
  <2>2. CASE \E p \in PersistedRestores : r \in OwnedProxyClears(p.os)
    BY <1>2, <1>3, <2>2
  <2> QED
    BY <1>4, <2>1, <2>2 DEF RecoveryOutcomes
<1>5. os' \in Configs /\ store' \in {store, NoSnapshot}
  BY <1>4 DEF StartUp
<1>6. (store # NoSnapshot /\ store' = NoSnapshot) =>
        SameProxy(os', store) \/ ReadsAsZaryaEndpoint(backend, os')
  BY <1>4 DEF StartUp
<1> QED
  BY <1>5, <1>6 DEF StartUp, EnabledHoldsSnapshot, DownHoldsNothing, HeldSnapshotOnDisk

LEMMA HeldStep ==
  ASSUME SaveWorks, HeldInv, [ProxyNext]_proxyVars
  PROVE  /\ HeldInv'
         /\ (store # NoSnapshot /\ store' = NoSnapshot) =>
              \/ SameProxy(os', store)
              \/ app = "down" /\ ReadsAsZaryaEndpoint(backend, os')
<1> USE NoSnapshotAssumption, ConfigTypes
<1>1. CASE Enable
  <2>1. CASE SnapshotReadFails
    BY <1>1, <2>1 DEF Enable, SnapshotReadFails, HeldInv, ProxyTypeOK, EnabledHoldsSnapshot,
       DownHoldsNothing, HeldSnapshotOnDisk
  <2>2. CASE /\ SnapshotTaken
             /\ \E o \in Allowed(ApplyHttpProxy(backend, os), "apply") :
                  /\ os' = o.os
                  /\ enabledByZarya' = (enabledByZarya \/ o.ok)
    <3>1. os' \in Configs /\ enabledByZarya' \in BOOLEAN
      BY <2>2, BackendsAssumption, OutcomeType DEF Allowed, ApplyHttpProxy, HeldInv, ProxyTypeOK
    <3>2. saved' # NoSnapshot /\ saved' = store' /\ saved' \in Configs
      BY <2>2 DEF SaveWorks, SnapshotTaken, HeldInv, ProxyTypeOK, EnabledHoldsSnapshot,
         HeldSnapshotOnDisk
    <3> QED
      BY <1>1, <3>1, <3>2 DEF Enable, HeldInv, ProxyTypeOK, EnabledHoldsSnapshot,
         DownHoldsNothing, HeldSnapshotOnDisk
  <2> QED
    BY <1>1, <2>1, <2>2 DEF Enable, EnableLocalHttpProxy
<1>2. CASE StopRestores
  BY <1>2, HeldRestore DEF StopRestores, RestoreAutomatic
<1>3. CASE MenuRestores
  BY <1>3, HeldRestore DEF MenuRestores, RestoreManual
<1>4. CASE \E leftovers \in BOOLEAN : StartUp(leftovers)
  BY <1>4, HeldStartUp DEF StartUp
<1>5. CASE KilledInEnable
  BY <1>5, PartialType DEF KilledInEnable, MemoryLost, HeldInv, ProxyTypeOK,
     EnabledHoldsSnapshot, DownHoldsNothing, HeldSnapshotOnDisk
<1>6. CASE KilledInRestore
  BY <1>6, PartialType DEF KilledInRestore, MemoryLost, HeldInv, ProxyTypeOK,
     EnabledHoldsSnapshot, DownHoldsNothing, HeldSnapshotOnDisk
<1>7. CASE \E leftovers \in BOOLEAN : KilledInRecovery(leftovers)
  BY <1>7, PartialType DEF KilledInRecovery, HeldInv, ProxyTypeOK,
     EnabledHoldsSnapshot, DownHoldsNothing, HeldSnapshotOnDisk
<1>8. CASE UNCHANGED proxyVars
  BY <1>8 DEF proxyVars, HeldInv, ProxyTypeOK, EnabledHoldsSnapshot, DownHoldsNothing,
     HeldSnapshotOnDisk
<1>11. CASE ProcessEnds
  BY <1>11 DEF ProcessEnds, MemoryLost, HeldInv, ProxyTypeOK, EnabledHoldsSnapshot,
     DownHoldsNothing, HeldSnapshotOnDisk
<1>9. CASE UserSetsProxy
  BY <1>9 DEF UserSetsProxy, HeldInv, ProxyTypeOK, EnabledHoldsSnapshot, DownHoldsNothing,
     HeldSnapshotOnDisk
<1>10. CASE UserTogglesRestoreOnExit
  <2>1. restoreOnExit' \in BOOLEAN
    BY <1>10 DEF UserTogglesRestoreOnExit
  <2> QED
    BY <1>10, <2>1 DEF UserTogglesRestoreOnExit, HeldInv, ProxyTypeOK, EnabledHoldsSnapshot,
       DownHoldsNothing, HeldSnapshotOnDisk
<1> QED
  BY <1>1, <1>2, <1>3, <1>4, <1>5, <1>6, <1>7, <1>8, <1>9, <1>10, <1>11 DEF ProxyNext

LEMMA HeldInit == ProxyInit => HeldInv
BY ConfigTypes DEF ProxyInit, HeldInv, ProxyTypeOK, EnabledHoldsSnapshot, DownHoldsNothing,
   HeldSnapshotOnDisk

LEMMA HeldAlways == ASSUME SaveWorks PROVE ProxySpec => []HeldInv
<1>1. HeldInv /\ [ProxyNext]_proxyVars => HeldInv'
  BY HeldStep
<1> QED
  BY <1>1, HeldInit, PTL DEF ProxySpec

-----------------------------------------------------------------------------
(* The theorems                                                              *)

\* In every reachable state the file, the memory and the desktop agree.
LEMMA InvAlways == ASSUME SafeFaults PROVE ProxySpec => []SnapshotInv
<1>1. SnapshotInv /\ [ProxyNext]_proxyVars => SnapshotInv'
  BY StepInv
<1> QED
  BY <1>1, InitInv, PTL DEF ProxySpec

\* The controller's variables keep their types.
THEOREM TypeCorrect == ASSUME SaveWorks PROVE ProxySpec => []ProxyTypeOK
BY HeldAlways, PTL DEF HeldInv

\* A kill at any moment leaves on disk what the user's configuration was, on every
\* backend (ensurePreviousStateSaved, clearRuntimeState).
THEOREM SnapshotAlwaysCovers ==
  ASSUME SafeFaults PROVE ProxySpec => []SnapshotCoversChange
BY InvAlways, InvImplies, PTL

\* What the controller holds is what the file holds, whatever else fails.
THEOREM HeldAlwaysOnDisk ==
  ASSUME SaveWorks PROVE ProxySpec => []HeldSnapshotOnDisk
BY HeldAlways, PTL DEF HeldInv

\* With failing applies, restores and reads, kills and edits: the snapshot file is removed
\* by a step that put the desktop back to it, or by the clear of a start-up whose restore
\* failed and that left the desktop reading as Zarya's.
THEOREM DroppedOnlyWhenRestored ==
  ASSUME SaveWorks PROVE ProxySpec => SnapshotDroppedOnlyWhenRestored
<1>1. HeldInv /\ [ProxyNext]_proxyVars
        => [(store # NoSnapshot /\ store' = NoSnapshot) =>
              \/ SameProxy(os', store)
              \/ app = "down" /\ ReadsAsZaryaEndpoint(backend, os')]_proxyVars
  BY HeldStep
<1> QED
  BY <1>1, HeldAlways, PTL DEF ProxySpec, SnapshotDroppedOnlyWhenRestored

\* Start-up recovery ends with the user's own configuration.
THEOREM RecoveryAlwaysRestores ==
  ASSUME SafeFaults PROVE ProxySpec => RecoveryRestoresUser
<1>1. SnapshotInv /\ [ProxyNext]_proxyVars
        => [(app = "down" /\ app' = "up" /\ restoreOnExit) => SameProxy(os', userCfg)]_proxyVars
  <2> SUFFICES ASSUME SnapshotInv, ProxyNext, app = "down", app' = "up"
               PROVE  SameProxy(os', userCfg)
    OBVIOUS
  <2>1. SameProxy(os', userCfg')
    BY RecoveryStep
  <2>2. userCfg' = userCfg
    BY DEF ProxyNext, Enable, StopRestores, MenuRestores, ProcessEnds,
       KilledInEnable, KilledInRestore, KilledInRecovery, StartUp, UserSetsProxy,
     UserTogglesRestoreOnExit
  <2> QED
    BY <2>1, <2>2
<1> QED
  BY <1>1, InvAlways, PTL DEF ProxySpec, RecoveryRestoresUser

-----------------------------------------------------------------------------
(* The sessions implement SystemProxy                                        *)

\* What a stop does to the proxy is the automatic restore or nothing.
LEMMA StopUsesProxy ==
  ASSUME NEW ok \in BOOLEAN, app = "up", StopCurrentProfile(ok), UNCHANGED Settings
  PROVE  [ProxyNext]_proxyVars
<1>1. CASE UNCHANGED ProxyState
  BY <1>1 DEF ProxyState, Settings, proxyVars
<1>2. CASE restoreOnExit /\ \E done \in BOOLEAN : RestoreAutomatic(done)
  BY <1>2 DEF StopRestores, ProxyNext, Settings
<1> QED
  BY <1>1, <1>2 DEF StopCurrentProfile, RestoreOnStop

\* Every handler, kill and start-up does to the proxy what one step of SystemProxy does.
LEMMA SessionUsesProxy ==
  ASSUME [Next]_vars
  PROVE  [ProxyNext]_proxyVars
<1>1. CASE UNCHANGED vars
  BY <1>1 DEF vars, proxyVars
<1>2. CASE StopThenStart \/ Stop \/ RequestQuit \/ AnswerExitAnyway
  <2>1. ASSUME NEW ok \in BOOLEAN, app = "up", StopCurrentProfile(ok), UNCHANGED Settings
        PROVE [ProxyNext]_proxyVars
    BY <2>1, StopUsesProxy
  <2>2. CASE UNCHANGED <<ProxyState, Settings>>
    BY <2>2 DEF ProxyState, Settings, proxyVars
  <2> QED
    BY <1>2, <2>1, <2>2 DEF StopThenStart, Stop, RequestQuit, AnswerExitAnyway, Idle
<1>3. CASE Start
  BY <1>3 DEF Start, ProxyState, Settings, proxyVars
<1>4. CASE CheckSystemProxyReady
  <2>1. app = "up" /\ UNCHANGED Settings
    BY <1>4 DEF CheckSystemProxyReady, EventLoopRuns
  <2>2. UNCHANGED ProxyState \/ EnableLocalHttpProxy
    BY <1>4 DEF CheckSystemProxyReady, ReadyCheckIdle, ReadyCheckConnects, ReadyCheckWaits,
       ReadyCheckTimesOut, AutoEnableProxy
  <2> QED
    BY <2>1, <2>2 DEF Enable, ProxyNext, ProxyState, Settings, proxyVars
<1>5. CASE EnableManual \/ AnswerConfirm
  <2>1. app = "up" /\ UNCHANGED Settings
    BY <1>5 DEF EnableManual, AnswerConfirm, Idle
  <2>2. UNCHANGED ProxyState \/ EnableLocalHttpProxy
    BY <1>5 DEF EnableManual, AnswerConfirm
  <2> QED
    BY <2>1, <2>2 DEF Enable, ProxyNext, ProxyState, Settings, proxyVars
<1>6. CASE RestoreFromMenu
  BY <1>6 DEF RestoreFromMenu, Idle, MenuRestores, ProxyNext, Settings
<1>7. CASE QuitRestores \/ RequestQuitForUpdate
  <2>1. app = "up" /\ UNCHANGED Settings
    BY <1>7 DEF QuitRestores, RequestQuitForUpdate, Idle
  <2>2. \/ UNCHANGED ProxyState
        \/ restoreOnExit /\ \E ok \in BOOLEAN : RestoreAutomatic(ok)
    BY <1>7 DEF QuitRestores, RequestQuitForUpdate
  <2> QED
    BY <2>1, <2>2 DEF StopRestores, ProxyNext, ProxyState, Settings, proxyVars
<1>8. CASE AnswerRetry \/ AnswerCancel \/ CoreDies \/ DrainCoreLogs
  BY <1>8 DEF AnswerRetry, AnswerCancel, CoreDies, DrainCoreLogs
<1>9. CASE Quit \/ Kill \/ KillInEnable \/ KillInRestore \/ BeginSession
  BY <1>9 DEF Quit, Kill, KillInEnable, KillInRestore, BeginSession, ProxyNext
<1>10. CASE UserActs
  BY <1>10 DEF UserActs, ProxyNext
<1> QED
  BY <1>1, <1>2, <1>3, <1>4, <1>5, <1>6, <1>7, <1>8, <1>9, <1>10 DEF Next

\* A session is a client of the proxy controller that does nothing else to it
\* (app/AppController.cpp calls enableLocalHttpProxy and restorePreviousProxy only).
THEOREM SessionsImplementProxy == SessionSpec => ProxySpec
<1>1. SessionInit => ProxyInit
  BY DEF SessionInit
<1>2. [Next]_vars => [ProxyNext]_proxyVars
  BY SessionUsesProxy
<1> QED
  BY <1>1, <1>2, PTL DEF SessionSpec, ProxySpec

-----------------------------------------------------------------------------
(* What is proved of the proxy controller holds of the sessions              *)

\* Through starts, restarts, stops, readiness checks, dialogs and quits, with applies and
\* reads that fail and kills between any two writes, the desktop is as the user left it or
\* the snapshot on disk is (AppController, SystemProxyController).
THEOREM SessionSnapshotCovers ==
  ASSUME SafeFaults PROVE SessionSpec => []SnapshotCoversChange
BY SessionsImplementProxy, SnapshotAlwaysCovers, PTL

\* Neither does a session lose the snapshot, with every failure but one of writing it.
THEOREM SessionDropsOnlyRestored ==
  ASSUME SaveWorks PROVE SessionSpec => SnapshotDroppedOnlyWhenRestored
BY SessionsImplementProxy, DroppedOnlyWhenRestored, PTL

\* Whatever a session left, a start that may restore gives the user back his proxy.
THEOREM SessionRecoveryRestores ==
  ASSUME SafeFaults PROVE SessionSpec => RecoveryRestoresUser
BY SessionsImplementProxy, RecoveryAlwaysRestores, PTL

\* A quit that nobody forced has nothing left to restore.
QuitInv == gui = "quitDone" /\ restoreOnExit => ~enabledByZarya

\* An automatic restore that says it worked leaves nothing of Zarya's enabled.
LEMMA RestoredDisables == RestoreAutomatic(TRUE) => ~enabledByZarya'
BY DEF RestoreAutomatic, RestoreRefused, RestoreHeldSnapshot, ClearRuntimeState

LEMMA QuitStep == QuitInv /\ [Next]_vars => QuitInv'
<1> SUFFICES ASSUME QuitInv, [Next]_vars, gui' = "quitDone", restoreOnExit' PROVE ~enabledByZarya'
  BY DEF QuitInv
<1>1. CASE QuitRestores
  BY <1>1, RestoredDisables DEF QuitRestores, Settings
<1>2. CASE CoreDies \/ UNCHANGED vars
  BY <1>2 DEF CoreDies, vars, proxyVars, sessionOnly, QuitInv
<1>3. CASE BeginSession
  BY <1>3 DEF BeginSession, StartUp, KilledInRecovery, sessionOnly, QuitInv
<1> QED
  BY <1>1, <1>2, <1>3 DEF Next, StopThenStart, Start, Stop, CheckSystemProxyReady,
     ReadyCheckIdle, ReadyCheckConnects, ReadyCheckWaits, ReadyCheckTimesOut, AutoEnableProxy,
     EnableManual, AnswerConfirm, RestoreFromMenu, RequestQuit, RequestQuitForUpdate,
     AnswerRetry, AnswerExitAnyway, AnswerCancel, Quit, Kill, KillInEnable, KillInRestore,
     DrainCoreLogs, UserActs, SessionReset, sessionOnly, Idle, EventLoopRuns, Dialogs

\* Every quit, safe, forced or for an update, after whatever failed: Zarya's proxy is left
\* on only where the setting, the user or an update has it so, and the snapshot that undoes
\* it is on disk (requestQuit, requestQuitForUpdate, safeShutdownWithOptions).
THEOREM SafeExitsRestore == ASSUME SaveWorks PROVE SessionSpec => SafeExitRestores
<1>1. ASSUME HeldInv, QuitInv, [Next]_vars, gui \in QuitPoints, app' = "down", enabledByZarya
      PROVE  (restoreOnExit => gui = "quitForced") /\ saved # NoSnapshot /\ store' = saved
  <2>1. (restoreOnExit => gui = "quitForced") /\ saved # NoSnapshot /\ store = saved
    BY <1>1 DEF QuitInv, QuitPoints, HeldInv, EnabledHoldsSnapshot, HeldSnapshotOnDisk
  <2>2. store' = store
    BY <1>1, <2>1 DEF Next, StopThenStart, Start, Stop, CheckSystemProxyReady,
       EnableManual, AnswerConfirm, RestoreFromMenu, RequestQuit, RequestQuitForUpdate,
       QuitRestores, AnswerRetry, AnswerExitAnyway, AnswerCancel, Quit, Kill, KillInEnable,
       KillInRestore, KilledInEnable, KilledInRestore, ProcessEnds, BeginSession, StartUp,
       KilledInRecovery, CoreDies, DrainCoreLogs, UserActs, Idle, EventLoopRuns, Dialogs,
       QuitPoints, Settings, proxyVars, vars, HeldInv, EnabledHoldsSnapshot
  <2> QED
    BY <2>1, <2>2
<1>2. HeldInv /\ QuitInv /\ [Next]_vars =>
        [(gui \in QuitPoints /\ app' = "down" /\ enabledByZarya) =>
           /\ restoreOnExit => gui = "quitForced"
           /\ saved # NoSnapshot /\ store' = saved]_vars
  BY <1>1
<1>3. SessionInit => QuitInv
  BY DEF SessionInit, QuitInv
<1>4. SessionSpec => []HeldInv
  BY SessionsImplementProxy, HeldAlways, PTL
<1> QED
  BY <1>2, <1>3, <1>4, QuitStep, PTL DEF SessionSpec, SafeExitRestores

-----------------------------------------------------------------------------
(* The slot of the coordinator                                               *)

\* The bridge's state and the slot, each against the instance.
HostInv ==
  /\ instance \in {"none", "up", "dead"}
  /\ activeCore \in BOOLEAN /\ acquired \in BOOLEAN
  /\ CoordinatorTracksInstance
  /\ instance = "up" => bridgeState = "running"
  /\ bridgeState = "running" => instance # "none"

\* A start takes the slot with an instance or leaves neither.
LEMMA StartKeepsHost ==
  ASSUME HostInv, NEW ok \in BOOLEAN, HostStart(ok)
  PROVE  HostInv' /\ (ok => instance' = "up") /\ (instance' = "none" => instance = "none")
<1>1. CASE activeCore
  BY <1>1 DEF HostStart, Acquire, HostInv, CoordinatorTracksInstance
<1>2. CASE ~activeCore
  BY <1>2 DEF HostStart, BridgeStarts, Acquire, HostInv, CoordinatorTracksInstance
<1> QED
  BY <1>1, <1>2

\* A stop, also one that fails, gives back both.
LEMMA StopKeepsHost ==
  ASSUME HostInv, NEW ok \in BOOLEAN, HostStop(ok)
  PROVE  HostInv'
<1>1. CASE AbiState = "stopped"
  <2>1. instance = "none"
    BY <1>1 DEF AbiState, HostInv
  <2> QED
    BY <1>1, <2>1 DEF HostStop, Release, HostInv, CoordinatorTracksInstance
<1>2. CASE AbiState # "stopped"
  BY <1>2 DEF HostStop, BridgeStop, Release, HostInv, CoordinatorTracksInstance
<1> QED
  BY <1>1, <1>2

\* A stop of a profile stops the core, or touches nothing.
LEMMA ProfileStopKeepsHost ==
  ASSUME HostInv, NEW ok \in BOOLEAN, StopCurrentProfile(ok)
  PROVE  HostInv'
<1>1. CASE UNCHANGED hostVars
  BY <1>1 DEF hostVars, coordinatorVars, HostInv, CoordinatorTracksInstance
<1>2. CASE HostStop(ok)
  BY <1>2, StopKeepsHost
<1> QED
  BY <1>1, <1>2 DEF StopCurrentProfile

LEMMA HostStep == HostInv /\ [Next]_vars => HostInv'
<1> SUFFICES ASSUME HostInv, [Next]_vars PROVE HostInv'
  OBVIOUS
<1>1. ASSUME UNCHANGED hostVars PROVE HostInv'
  BY <1>1 DEF hostVars, coordinatorVars, HostInv, CoordinatorTracksInstance
<1>2. ASSUME NEW ok \in BOOLEAN, HostStop(ok) PROVE HostInv'
  BY <1>2, StopKeepsHost
<1>3. ASSUME NEW ok \in BOOLEAN, StopCurrentProfile(ok) PROVE HostInv'
  BY <1>3, ProfileStopKeepsHost
<1>4. CASE StopThenStart \/ Stop \/ RequestQuit \/ AnswerExitAnyway
  BY <1>1, <1>3, <1>4 DEF StopThenStart, Stop, RequestQuit, AnswerExitAnyway
<1>5. CASE Start
  BY <1>1, <1>5, StartKeepsHost DEF Start
<1>6. CASE CheckSystemProxyReady
  BY <1>1, <1>2, <1>6 DEF CheckSystemProxyReady, ReadyCheckIdle, ReadyCheckConnects,
     ReadyCheckWaits, ReadyCheckTimesOut
<1>7. CASE Quit \/ Kill \/ KillInEnable \/ KillInRestore
  BY <1>7 DEF Quit, Kill, KillInEnable, KillInRestore, SessionReset, HostReset, HostInv,
     CoordinatorTracksInstance
<1>8. CASE CoreDies
  BY <1>8 DEF CoreDies, InstanceDies, coordinatorVars, HostInv, CoordinatorTracksInstance
<1>9. CASE DrainCoreLogs
  BY <1>9 DEF DrainCoreLogs, DrainLogs, coordinatorVars, HostInv, CoordinatorTracksInstance
<1>10. CASE \/ EnableManual \/ AnswerConfirm \/ RestoreFromMenu \/ QuitRestores
            \/ RequestQuitForUpdate \/ AnswerRetry \/ AnswerCancel \/ BeginSession \/ UserActs \/ UNCHANGED vars
  BY <1>1, <1>10 DEF EnableManual, AnswerConfirm, RestoreFromMenu, QuitRestores,
     RequestQuitForUpdate, AnswerRetry, AnswerCancel, BeginSession, UserActs, vars
<1> QED
  BY <1>4, <1>5, <1>6, <1>7, <1>8, <1>9, <1>10 DEF Next

\* No failure of a start or a stop, no death of the core and no kill leaks the slot or frees
\* it early (CoreRuntimeCoordinator, EmbeddedXrayRuntimeHost).
THEOREM SlotAlwaysTracksInstance == SessionSpec => []CoordinatorTracksInstance
<1>1. SessionInit => HostInv
  BY DEF SessionInit, HostInit, HostInv, CoordinatorTracksInstance
<1>2. HostInv => CoordinatorTracksInstance
  BY DEF HostInv
<1> QED
  BY <1>1, <1>2, HostStep, PTL DEF SessionSpec

-----------------------------------------------------------------------------
(* A proxy that is enabled has a core behind it                              *)

\* The environment in which that is so: a core that runs accepts connections at once (the
\* faults of SystemProxy's proofs aside).
PromptCore == "slow" \notin HostFaults

\* A question whether to enable the proxy is open only while there is a core.
AskedHasInstance == gui \in {"confirmAuto", "confirmManual"} => instance # "none"

HoldInv ==
  /\ HostInv
  /\ EnabledHasInstance
  /\ AskedHasInstance

\* An automatic restore that no fault makes fail leaves the proxy not enabled.
LEMMA RestoreDisables ==
  ASSUME SafeFaults, EnabledHoldsSnapshot, NEW ok \in BOOLEAN, RestoreAutomatic(ok)
  PROVE  ~enabledByZarya'
<1>1. CASE ~enabledByZarya
  BY <1>1 DEF RestoreAutomatic, RestoreRefused, RestoreHeldSnapshot
<1>2. CASE enabledByZarya
  <2>1. RestoreHeldSnapshot(ok)
    BY <1>2 DEF RestoreAutomatic, EnabledHoldsSnapshot
  <2>2. ok
    BY <2>1 DEF RestoreHeldSnapshot, Allowed, SafeFaults
  <2> QED
    BY <2>1, <2>2 DEF RestoreHeldSnapshot, ClearRuntimeState
<1> QED
  BY <1>1, <1>2

\* A core that is seen running has an instance.
LEMMA RunningHasInstance == HostInv /\ CoreRunning => instance = "up"
BY DEF HostInv, CoreRunning, AbiState

\* A stop gives back the proxy before it takes the core away.
LEMMA StopHolds ==
  ASSUME SafeFaults, EnabledHoldsSnapshot, restoreOnExit = TRUE,
         NEW ok \in BOOLEAN, StopCurrentProfile(ok)
  PROVE  ~enabledByZarya' \/ UNCHANGED <<enabledByZarya, instance>>
<1>1. CASE ~CoreRunning
  BY <1>1 DEF StopCurrentProfile, ProxyState, hostVars
<1>2. CASE CoreRunning
  BY <1>2, RestoreDisables DEF StopCurrentProfile, RestoreOnStop
<1> QED
  BY <1>1, <1>2

LEMMA HoldStep ==
  ASSUME SafeFaults, PromptCore, SnapshotInv, HoldInv, [Next]_vars
  PROVE  HoldInv'
<1>1. HostInv'
  BY HostStep DEF HoldInv
<1>2. EnabledHoldsSnapshot /\ restoreOnExit = TRUE
  BY DEF SnapshotInv
<1> SUFFICES EnabledHasInstance' /\ AskedHasInstance'
  BY <1>1 DEF HoldInv
<1> USE DEF AskedHasInstance, QuitPoints
<1>3. ASSUME NEW ok \in BOOLEAN, StopCurrentProfile(ok), gui \notin QuitPoints
      PROVE  EnabledHasInstance'
  BY <1>2, <1>3, StopHolds DEF HoldInv, EnabledHasInstance
<1>4. CASE StopThenStart \/ Stop \/ AnswerExitAnyway
  BY <1>3, <1>4 DEF StopThenStart, Stop, AnswerExitAnyway, Idle, HoldInv
<1>5. CASE RequestQuit
  <2>1. gui \notin QuitPoints /\ gui' \in {"quitRestore", "quitForced"}
    BY <1>5 DEF RequestQuit, Idle
  <2>2. CASE UNCHANGED <<ProxyState, hostVars, runtimeState>>
    BY <2>1, <2>2 DEF ProxyState, hostVars, HoldInv, EnabledHasInstance
  <2> QED
    BY <1>3, <1>5, <2>1, <2>2 DEF RequestQuit
<1>6. CASE Start
  <2>1. gui \notin QuitPoints /\ gui' = "idle" /\ UNCHANGED ProxyState
    BY <1>6 DEF Start
  <2>2. instance' = "none" => instance = "none"
    BY <1>6, StartKeepsHost DEF Start, HoldInv, hostVars
  <2> QED
    BY <2>1, <2>2 DEF ProxyState, HoldInv, EnabledHasInstance
<1>7. CASE CheckSystemProxyReady
  <2>1. gui \notin QuitPoints
    BY <1>7 DEF CheckSystemProxyReady, EventLoopRuns, Dialogs
  <2>2. CASE ReadyCheckIdle \/ ReadyCheckWaits
    BY <2>1, <2>2 DEF ReadyCheckIdle, ReadyCheckWaits, ProxyState, hostVars, HoldInv,
       EnabledHasInstance
  <2>3. CASE ReadyCheckConnects
    BY <2>1, <2>3 DEF ReadyCheckConnects, PortAccepts, AutoEnableProxy, PromptCore, hostVars,
       HoldInv, EnabledHasInstance
  <2>4. CASE ReadyCheckTimesOut
    BY <2>4, RunningHasInstance DEF ReadyCheckTimesOut, PortRefuses, PromptCore, HoldInv
  <2> QED
    BY <1>7, <2>2, <2>3, <2>4 DEF CheckSystemProxyReady
<1>8. CASE EnableManual
  BY <1>8, RunningHasInstance DEF EnableManual, PromptCore, hostVars, HoldInv, EnabledHasInstance
<1>9. CASE AnswerConfirm
  BY <1>9 DEF AnswerConfirm, hostVars, HoldInv, EnabledHasInstance
<1>10. CASE RestoreFromMenu \/ QuitRestores \/ RequestQuitForUpdate
  <2>1. /\ gui \notin QuitPoints /\ UNCHANGED hostVars
        /\ gui' \notin {"confirmAuto", "confirmManual"}
    BY <1>10 DEF RestoreFromMenu, QuitRestores, RequestQuitForUpdate, Idle, sessionOnly, HoldInv
  <2>2. enabledByZarya' => enabledByZarya
    BY <1>10 DEF RestoreFromMenu, QuitRestores, RequestQuitForUpdate, RestoreManual, RestoreAutomatic,
       RestoreHeldSnapshot, RestoreRefused, ClearRuntimeState, ProxyState
  <2> QED
    BY <2>1, <2>2 DEF hostVars, HoldInv, EnabledHasInstance
<1>11. CASE AnswerRetry \/ AnswerCancel
  BY <1>11 DEF AnswerRetry, AnswerCancel, proxyVars, hostVars, HoldInv, EnabledHasInstance
<1>12. CASE Quit \/ Kill \/ KillInEnable \/ KillInRestore
  BY <1>12 DEF Quit, Kill, KillInEnable, KillInRestore, ProcessEnds, KilledInEnable,
     KilledInRestore, MemoryLost, SessionReset, EnabledHasInstance
<1>13. CASE BeginSession
  <2>1. UNCHANGED <<hostVars, sessionOnly>>
    BY <1>13 DEF BeginSession
  <2>2. enabledByZarya' => enabledByZarya
    BY <1>13 DEF BeginSession, StartUp, KilledInRecovery
  <2> QED
    BY <2>1, <2>2 DEF hostVars, sessionOnly, HoldInv, EnabledHasInstance
<1>14. CASE CoreDies \/ DrainCoreLogs
  BY <1>14 DEF CoreDies, InstanceDies, DrainCoreLogs, DrainLogs, proxyVars, sessionOnly, HoldInv,
     EnabledHasInstance
<1>15. CASE UserActs
  BY <1>15 DEF UserActs, UserSetsProxy, UserTogglesRestoreOnExit, hostVars, sessionOnly, HoldInv,
     EnabledHasInstance
<1>16. CASE UNCHANGED vars
  BY <1>16 DEF vars, proxyVars, hostVars, sessionOnly, HoldInv, EnabledHasInstance
<1> QED
  BY <1>4, <1>5, <1>6, <1>7, <1>8, <1>9, <1>10, <1>11, <1>12, <1>13, <1>14, <1>15, <1>16 DEF Next

\* What a session took it can give back: the snapshot, the proxy and the slot, whatever
\* failed on the way (SystemProxyController, stopCurrentProfile, EmbeddedXrayRuntimeHost).
THEOREM SessionsHoldWhatTheyTook ==
  ASSUME SafeFaults, PromptCore PROVE SessionSpec => []SessionHoldsWhatItTook
<1>1. SessionSpec => []SnapshotInv
  BY SessionsImplementProxy, InvAlways, PTL
<1>2. SessionInit => HoldInv
  BY DEF SessionInit, HostInit, ProxyInit, HoldInv, HostInv, CoordinatorTracksInstance,
     EnabledHasInstance, AskedHasInstance
<1>3. SnapshotInv /\ HoldInv /\ [Next]_vars => HoldInv'
  BY HoldStep
<1>4. SnapshotInv /\ HoldInv => SessionHoldsWhatItTook
  BY InvImplies DEF SnapshotInv, HoldInv, HostInv, SessionHoldsWhatItTook
<1> QED
  BY <1>1, <1>2, <1>3, <1>4, PTL DEF SessionSpec

=============================================================================
