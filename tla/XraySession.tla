----------------------------- MODULE XraySession -----------------------------
(* A session of the embedded Xray core as the application drives it          *)
(* (app/AppController.cpp, with the callers in ui/MainWindow.cpp and         *)
(* ui/TrayController.cpp): start, the readiness check, the automatic and the *)
(* manual system proxy, stop, and the safe shutdown.                         *)
(* All of it runs on the GUI thread: a handler is one step, unless it opens a*)
(* dialog, whose nested event loop lets timers run, or the handler has two   *)
(* fallible parts, which follow each other with nothing in between.          *)
EXTENDS SystemProxy, XrayHost

CONSTANTS AutoEnable,     \* setting: enable the proxy when the core is ready
          ConfirmChange,  \* setting: ask before the system proxy is changed
          ReadyTicks      \* checks until kSystemProxyReadyTimeoutMs is over

ASSUME SessionAssumption ==
  /\ AutoEnable \in BOOLEAN
  /\ ConfirmChange \in BOOLEAN
  /\ ReadyTicks \in Nat

VARIABLES runtimeState,  \* m_runtimeState
          readyShot,     \* the single shot of waitForSystemProxyReady is pending
          readyTimer,    \* m_systemProxyReadyTimer is active
          readyTicks,    \* m_systemProxyReadyElapsed, in timer intervals
          gui            \* what the GUI thread is in the middle of

sessionOnly == <<runtimeState, readyShot, readyTimer, readyTicks, gui>>
vars == <<proxyVars, hostVars, sessionOnly>>

Dialogs == {"confirmAuto", "confirmManual", "askExit"}

\* A quit is through: as the settings ask, or with the proxy left to itself by choice of
\* the user or for an update.
QuitPoints == {"quitDone", "quitForced"}
GuiStates == {"idle", "restart", "quitRestore"} \cup QuitPoints \cup Dialogs

SessionTypeOK ==
  /\ ProxyTypeOK
  /\ HostTypeOK
  /\ runtimeState \in CoreStates
  /\ readyShot \in BOOLEAN
  /\ readyTimer \in BOOLEAN
  /\ readyTicks \in 0..ReadyTicks
  /\ gui \in GuiStates

SessionInit ==
  /\ ProxyInit
  /\ HostInit
  /\ runtimeState = "stopped"
  /\ readyShot = FALSE
  /\ readyTimer = FALSE
  /\ readyTicks = 0
  /\ gui = "idle"

Idle == app = "up" /\ gui = "idle"
EventLoopRuns == app = "up" /\ gui \in {"idle", "restart"} \cup Dialogs

\* What the handlers below never touch.
Settings == <<backend, restoreOnExit, app, userCfg>>
ProxyState == <<os, saved, store, enabledByZarya>>
ReadyState == <<readyShot, readyTimer, readyTicks>>

-----------------------------------------------------------------------------
(* Stop                                                                      *)

\* restoreSystemProxyAutomatic; its result does not stop the stop.
RestoreOnStop ==
  IF restoreOnExit
  THEN \E ok \in BOOLEAN : RestoreAutomatic(ok)
  ELSE UNCHANGED ProxyState

\* stopCurrentProfile: nothing at all is undone when no core is seen running.
StopCurrentProfile(ok) ==
  IF ~CoreRunning
  THEN /\ ok
       /\ runtimeState' = "stopped"
       /\ UNCHANGED <<ProxyState, hostVars>>
  ELSE /\ RestoreOnStop
       /\ HostStop(ok)
       /\ runtimeState' = IF ok THEN "stopped" ELSE "failed"

Stop ==
  /\ Idle
  /\ \E ok \in BOOLEAN : StopCurrentProfile(ok)
  /\ UNCHANGED <<Settings, ReadyState, gui>>

-----------------------------------------------------------------------------
(* Start                                                                     *)

\* startProfile while a profile runs: stop first, give up if that fails.
StopThenStart ==
  /\ Idle
  /\ CoreRunning
  /\ \E ok \in BOOLEAN :
       /\ StopCurrentProfile(ok)
       /\ gui' = IF ok THEN "restart" ELSE "idle"
  /\ UNCHANGED <<Settings, ReadyState>>

\* startProfileSystemProxyXray: a core that is not there, an invalid profile and a
\* refused validation return before anything changes; waitForSystemProxyReady restarts
\* the wait.
Start ==
  /\ app = "up"
  /\ gui = "restart" \/ (gui = "idle" /\ ~CoreRunning)
  /\ gui' = "idle"
  /\ \/ UNCHANGED <<hostVars, runtimeState, ReadyState>>
     \/ /\ Validates
        /\ HostStart(FALSE)
        /\ runtimeState' = "failed"
        /\ UNCHANGED ReadyState
     \/ /\ Validates
        /\ HostStart(TRUE)
        /\ runtimeState' = "running"
        /\ readyShot' = TRUE
        /\ readyTimer' = FALSE
        /\ readyTicks' = 0
  /\ UNCHANGED <<ProxyState, Settings>>

-----------------------------------------------------------------------------
(* The readiness check and the system proxy                                  *)

\* Only a live core listens on the mixed port; "slow" is one that does not yet.
PortAccepts == instance = "up"
PortRefuses == instance # "up" \/ "slow" \in HostFaults

\* Mutant of ReadyCheckIdle: with the core gone the proxy is taken for restored.
IdleForgetsProxy ==
  /\ ~CoreRunning
  /\ ClearRuntimeState
  /\ UNCHANGED <<readyTimer, readyTicks, os, hostVars, runtimeState, gui>>

\* checkSystemProxyReady when nothing runs: the repeating timer is left alone.
ReadyCheckIdle ==
  /\ ~CoreRunning
  /\ UNCHANGED <<readyTimer, readyTicks, ProxyState, hostVars, runtimeState, gui>>

\* tryAutoEnableSystemProxy, with the question first when the setting asks for it.
\* A question over another dialog is answered before that one is.
AutoEnableProxy ==
  \/ /\ ~AutoEnable \/ (ConfirmChange /\ gui # "idle")
     /\ UNCHANGED <<ProxyState, gui>>
  \/ /\ AutoEnable /\ ConfirmChange /\ gui = "idle"
     /\ gui' = "confirmAuto"
     /\ UNCHANGED ProxyState
  \/ /\ AutoEnable /\ (ConfirmChange => gui # "idle")
     /\ EnableLocalHttpProxy
     /\ UNCHANGED gui

ReadyCheckConnects ==
  /\ CoreRunning
  /\ PortAccepts
  /\ readyTimer' = FALSE
  /\ AutoEnableProxy
  /\ UNCHANGED <<readyTicks, hostVars, runtimeState>>

ReadyCheckWaits ==
  /\ CoreRunning
  /\ PortRefuses
  /\ readyTicks < ReadyTicks
  /\ readyTicks' = readyTicks + 1
  /\ readyTimer' = TRUE
  /\ UNCHANGED <<ProxyState, hostVars, runtimeState, gui>>

\* Mutant of ReadyCheckTimesOut: the wait begins anew.
WaitsAnew ==
  /\ CoreRunning
  /\ PortRefuses
  /\ readyTicks = ReadyTicks
  /\ readyTicks' = 0
  /\ readyTimer' = TRUE
  /\ UNCHANGED <<ProxyState, hostVars, runtimeState, gui>>

\* The time is over: stop the core.  The system proxy is not looked at.
ReadyCheckTimesOut ==
  /\ CoreRunning
  /\ PortRefuses
  /\ readyTicks = ReadyTicks
  /\ readyTimer' = FALSE
  /\ \E ok \in BOOLEAN : HostStop(ok)
  /\ runtimeState' = "failed"
  /\ UNCHANGED <<readyTicks, ProxyState, gui>>

CheckSystemProxyReady ==
  /\ EventLoopRuns
  /\ readyShot \/ readyTimer
  /\ readyShot' = FALSE
  /\ \/ ReadyCheckIdle
     \/ ReadyCheckConnects
     \/ ReadyCheckWaits
     \/ ReadyCheckTimesOut
  /\ UNCHANGED Settings

\* enableSystemProxyManual from the tray: the core is looked at before the
\* question is asked.
EnableManual ==
  /\ Idle
  /\ CoreRunning
  /\ IF ConfirmChange
     THEN gui' = "confirmManual" /\ UNCHANGED ProxyState
     ELSE EnableLocalHttpProxy /\ UNCHANGED gui
  /\ UNCHANGED <<Settings, hostVars, runtimeState, ReadyState>>

\* The answer to the question; nothing is looked at again.
AnswerConfirm ==
  /\ app = "up"
  /\ gui \in {"confirmAuto", "confirmManual"}
  /\ gui' = "idle"
  /\ EnableLocalHttpProxy \/ UNCHANGED ProxyState
  /\ UNCHANGED <<Settings, hostVars, runtimeState, ReadyState>>

RestoreFromMenu ==
  /\ Idle
  /\ \E ok \in BOOLEAN : RestoreManual(ok)
  /\ UNCHANGED <<Settings, hostVars, sessionOnly>>

-----------------------------------------------------------------------------
(* Quit                                                                      *)

\* requestQuit up to the restore: the dialog offers to keep the core running and
\* to leave the proxy alone.  A stop that fails does not stop the quit.
RequestQuit ==
  /\ Idle
  /\ \/ \E ok \in BOOLEAN : StopCurrentProfile(ok)
     \/ CoreRunning /\ UNCHANGED <<ProxyState, hostVars, runtimeState>>
  /\ gui' \in {"quitRestore"} \cup (IF CoreRunning THEN {"quitForced"} ELSE {})
  /\ UNCHANGED <<Settings, ReadyState>>

\* Mutant of QuitRestores: the result of the restore is ignored.
QuitsAnyway ==
  /\ app = "up"
  /\ gui = "quitRestore"
  /\ gui' = "quitDone"
  /\ IF restoreOnExit
     THEN \E ok \in BOOLEAN : RestoreAutomatic(ok)
     ELSE UNCHANGED ProxyState
  /\ UNCHANGED <<Settings, hostVars, runtimeState, ReadyState>>

\* attemptProxyRestoreOnShutdown of safeShutdownWithOptions.
QuitRestores ==
  /\ app = "up"
  /\ gui = "quitRestore"
  /\ IF restoreOnExit
     THEN \E ok \in BOOLEAN :
            /\ RestoreAutomatic(ok)
            /\ gui' = IF ok THEN "quitDone" ELSE "askExit"
     ELSE gui' = "quitDone" /\ UNCHANGED ProxyState
  /\ UNCHANGED <<Settings, hostVars, runtimeState, ReadyState>>

\* requestQuitForUpdate, after the updater was launched: no update is installed while a
\* core runs, so there is none to stop, and a restore that fails is only logged.
RequestQuitForUpdate ==
  /\ Idle
  /\ ~CoreRunning
  /\ gui' = "quitForced"
  /\ IF restoreOnExit
     THEN \E ok \in BOOLEAN : RestoreAutomatic(ok)
     ELSE UNCHANGED ProxyState
  /\ UNCHANGED <<Settings, hostVars, runtimeState, ReadyState>>

\* Retry, Exit Anyway, Cancel.  A retry that succeeds runs the shutdown again,
\* which finds nothing left to restore.
AnswerRetry ==
  /\ app = "up"
  /\ gui = "askExit"
  /\ gui' = "quitRestore"
  /\ UNCHANGED <<proxyVars, hostVars, runtimeState, ReadyState>>

AnswerExitAnyway ==
  /\ app = "up"
  /\ gui = "askExit"
  /\ gui' = "quitForced"
  /\ \E ok \in BOOLEAN : StopCurrentProfile(ok)
  /\ UNCHANGED <<Settings, ReadyState>>

AnswerCancel ==
  /\ app = "up"
  /\ gui = "askExit"
  /\ gui' = "idle"
  /\ UNCHANGED <<proxyVars, hostVars, runtimeState, ReadyState>>

-----------------------------------------------------------------------------
(* The process and its environment                                           *)

\* The core lives in the process, so it goes with it.
SessionReset ==
  /\ HostReset
  /\ runtimeState' = "stopped"
  /\ readyShot' = FALSE
  /\ readyTimer' = FALSE
  /\ readyTicks' = 0
  /\ gui' = "idle"

Quit == gui \in QuitPoints /\ ProcessEnds /\ SessionReset

Kill ==
  /\ "crash" \in Faults
  /\ ProcessEnds
  /\ SessionReset

KillInEnable ==
  /\ CoreRunning \/ gui \in {"confirmAuto", "confirmManual"}
  /\ KilledInEnable
  /\ SessionReset

KillInRestore == KilledInRestore /\ SessionReset

BeginSession ==
  /\ \E leftovers \in BOOLEAN : StartUp(leftovers) \/ KilledInRecovery(leftovers)
  /\ UNCHANGED <<hostVars, sessionOnly>>

CoreDies ==
  /\ InstanceDies
  /\ UNCHANGED <<proxyVars, sessionOnly>>

DrainCoreLogs ==
  /\ EventLoopRuns
  /\ DrainLogs
  /\ UNCHANGED <<proxyVars, sessionOnly>>

\* The desktop's settings and Zarya's own, while nothing of Zarya's is open.
UserActs ==
  /\ gui = "idle"
  /\ UserSetsProxy \/ UserTogglesRestoreOnExit
  /\ UNCHANGED <<hostVars, sessionOnly>>

Next ==
  \/ StopThenStart
  \/ Start
  \/ Stop
  \/ CheckSystemProxyReady
  \/ EnableManual
  \/ AnswerConfirm
  \/ RestoreFromMenu
  \/ RequestQuit
  \/ RequestQuitForUpdate
  \/ QuitRestores
  \/ AnswerRetry
  \/ AnswerExitAnyway
  \/ AnswerCancel
  \/ Quit
  \/ Kill
  \/ KillInEnable
  \/ KillInRestore
  \/ BeginSession
  \/ CoreDies
  \/ DrainCoreLogs
  \/ UserActs

SessionSpec == SessionInit /\ [][Next]_vars

\* The event loop delivers every due timer when it comes to run again, so a check
\* that is due time and again is made; a handler that has begun goes on.
Fairness ==
  /\ SF_vars(CheckSystemProxyReady)
  /\ WF_vars(QuitRestores)
  /\ WF_vars(gui = "restart" /\ Start)
  /\ WF_vars(Quit)

FairSessionSpec == SessionSpec /\ Fairness

-----------------------------------------------------------------------------
(* Properties                                                                *)

\* No handler takes the core away from under an enabled proxy, across stops that
\* fail, restarts, cores that die, quits that are cancelled and kills
\* (stopCurrentProfile restores before it stops; the readiness timeout does not look
\* at the proxy, so it is left out of the runs of this property).
EnabledHasInstance == enabledByZarya /\ gui \notin QuitPoints => instance # "none"

\* What a session took it can give back: a held snapshot is on disk, an enabled proxy
\* has a snapshot and a core behind it, and the coordinator's slot goes with the
\* instance, whatever failed on the way (SystemProxyController, stopCurrentProfile,
\* EmbeddedXrayRuntimeHost::start and stop).
SessionHoldsWhatItTook ==
  /\ HeldSnapshotOnDisk
  /\ EnabledHoldsSnapshot
  /\ EnabledHasInstance
  /\ CoordinatorTracksInstance

\* The end of a session by any quit, with stops and restores that fail, timers that enable
\* the proxy while a question is open, retries and cancelled quits before it: Zarya's proxy
\* is left on only if the setting, the user or an update has it so, and then with the
\* snapshot that undoes it on disk (requestQuit, requestQuitForUpdate,
\* safeShutdownWithOptions).
SafeExitRestores ==
  [][(gui \in QuitPoints /\ app' = "down" /\ enabledByZarya) =>
       /\ restoreOnExit => gui = "quitForced"
       /\ saved # NoSnapshot /\ store' = saved]_vars

\* Every start is decided: the check finds the port open, or gives up and stops the
\* core; it does not go on for ever (checkSystemProxyReady, the 5 s limit).
StartPending == CoreRunning /\ (readyShot \/ readyTimer)
ReadinessDecided == StartPending ~> ~StartPending

=============================================================================
