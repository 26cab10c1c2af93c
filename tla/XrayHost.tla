------------------------------ MODULE XrayHost ------------------------------
(* The embedded Xray core: the Go bridge that owns the instance              *)
(* (runtime/embedded/xray/bridge/main.go), the host that drives it           *)
(* (runtime/embedded/xray/EmbeddedXrayRuntimeHost.cpp) and the coordinator   *)
(* that admits one core (runtime/core/CoreRuntimeCoordinator.cpp).           *)
(* The host runs on the GUI thread and every bridge call holds the bridge's  *)
(* mutex to its end, so Starting and Stopping are seen by nobody.            *)

CONSTANT HostFaults  \* which failures of the core may happen

HostFaultKinds == {"die", "start", "stop", "slow"}

ASSUME HostFaultsAssumption == HostFaults \subseteq HostFaultKinds

VARIABLES available,   \* m_available: the bridge's library was loaded
          instance,    \* runtimeState.instance: "none", "up", or "dead" (!IsRunning)
          bridgeState, \* runtimeState.state
          hostState,   \* EmbeddedXrayRuntimeHost::m_state
          activeCore,  \* the coordinator's m_activeCore holds Xray
          acquired,    \* m_coordinatorAcquired
          logTimer     \* m_logTimer is active

coordinatorVars == <<activeCore, acquired>>
hostVars == <<available, instance, bridgeState, hostState, coordinatorVars, logTimer>>

CoreStates == {"stopped", "running", "failed"}

HostTypeOK ==
  /\ available \in BOOLEAN
  /\ instance \in {"none", "up", "dead"}
  /\ bridgeState \in CoreStates
  /\ hostState \in CoreStates
  /\ activeCore \in BOOLEAN
  /\ acquired \in BOOLEAN
  /\ logTimer \in BOOLEAN

HostInit ==
  /\ available \in BOOLEAN
  /\ instance = "none"
  /\ bridgeState = "stopped"
  /\ hostState = "stopped"
  /\ activeCore = FALSE
  /\ acquired = FALSE
  /\ logTimer = FALSE

\* A library that is missing, incomplete or of another ABI stays so for the process.
LoadBridge == available' \in BOOLEAN

HostReset ==
  /\ LoadBridge
  /\ instance' = "none"
  /\ bridgeState' = "stopped"
  /\ hostState' = "stopped"
  /\ activeCore' = FALSE
  /\ acquired' = FALSE
  /\ logTimer' = FALSE

\* ZaryaXrayState turns the state to failed when it finds the instance dead.
AbiState == IF instance = "dead" THEN "failed" ELSE bridgeState

\* The readings of state() that AppController::isCoreRunning counts as running.
CoreRunning == AbiState = "running"

-----------------------------------------------------------------------------
\* CoreRuntimeCoordinator: one core at a time; a slot is given back by its owner only.
Acquire(ok) ==
  /\ ok = ~activeCore
  /\ activeCore' = TRUE
  /\ acquired' = (acquired \/ ok)

Release ==
  /\ acquired' = FALSE
  /\ activeCore' = (activeCore /\ ~acquired)

\* EmbeddedXrayRuntimeHost::validate: an instance of its own is built and closed.
Validates == available /\ AbiState = "stopped" /\ instance = "none"

\* A start that fails leaves no instance.  It reads failed, unless it is the asset
\* directory that cannot be set.
BridgeStarts(ok) ==
  /\ instance = "none"
  /\ ok \/ "start" \in HostFaults
  /\ instance' = IF ok THEN "up" ELSE "none"
  /\ bridgeState' \in IF ok THEN {"running"} ELSE {"failed", bridgeState}

\* Mutant of HostStart: the slot is not given back when the bridge fails.
HostStartLeaksSlot(ok) ==
  /\ available /\ ~activeCore
  /\ BridgeStarts(ok)
  /\ Acquire(TRUE)
  /\ hostState' = IF ok THEN "running" ELSE "failed"
  /\ logTimer' = (logTimer \/ ok)
  /\ UNCHANGED available

\* start: refused by the coordinator without a trace, or the slot is given back when
\* the bridge fails.
HostStart(ok) ==
  /\ available
  /\ IF activeCore
     THEN Acquire(FALSE) /\ ~ok /\ UNCHANGED <<instance, bridgeState, hostState, logTimer>>
     ELSE /\ BridgeStarts(ok)
          /\ IF ok THEN Acquire(TRUE) ELSE acquired' = FALSE /\ UNCHANGED activeCore
          /\ hostState' = IF ok THEN "running" ELSE "failed"
          /\ logTimer' = (logTimer \/ ok)
  /\ UNCHANGED available

\* The bridge forgets the instance before it closes it, so the next stop finds
\* none and succeeds.
BridgeStop(ok) ==
  /\ ok \/ (instance # "none" /\ "stop" \in HostFaults)
  /\ instance' = "none"
  /\ bridgeState' = IF ok THEN "stopped" ELSE "failed"

\* stop: nothing but the release when the bridge already reads stopped.
HostStop(ok) ==
  /\ Release
  /\ \/ /\ AbiState = "stopped"
        /\ ok
        /\ UNCHANGED <<instance, bridgeState, hostState, logTimer>>
     \/ /\ AbiState # "stopped"
        /\ BridgeStop(ok)
        /\ logTimer' = FALSE
        /\ hostState' = IF ok THEN "stopped" ELSE "failed"
  /\ UNCHANGED available

\* The core stops on its own, behind the host's back.
InstanceDies ==
  /\ "die" \in HostFaults
  /\ instance = "up"
  /\ instance' = "dead"
  /\ UNCHANGED <<available, bridgeState, hostState, coordinatorVars, logTimer>>

\* drainLogs on the log timer: the only place where the host notices.
DrainLogs ==
  /\ logTimer
  /\ hostState = "running" /\ AbiState = "failed"
  /\ logTimer' = FALSE
  /\ hostState' = "failed"
  /\ UNCHANGED <<available, instance, bridgeState, coordinatorVars>>

-----------------------------------------------------------------------------
\* The coordinator's slot is taken exactly while the bridge owns an instance, alive
\* or dead: no failure path leaks it, which would refuse every later start, and
\* none frees it early, which would admit a second core.
CoordinatorTracksInstance ==
  /\ activeCore <=> instance # "none"
  /\ acquired <=> activeCore

=============================================================================
