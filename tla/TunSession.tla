----------------------------- MODULE TunSession -----------------------------
(* A sing-box TUN session over the privileged helper: the application's      *)
(* backend (runtime/singbox/SingBoxTunRuntimeBackend.cpp), its connection to *)
(* the helper (helperclient/HelperProcessManager.cpp, ipc/IpcClient.cpp) and *)
(* the helper's commands (helper/HelperCommandServer.cpp,                    *)
(* helper/HelperRuntimeManager.cpp), with the kill switch they drive.        *)
(* The helper executes a command as one step.  The application waits for the *)
(* reply in a loop that runs the event loop, so the user can act between the *)
(* commands of one start; the reply may be lost while the command was done.  *)
EXTENDS KillSwitch

CONSTANT TunFaults  \* which failures may happen, see TunFaultKinds

\* "config", "start", "stop": sing-box refuses the configuration, the start, the
\* close.  "reply": a command is executed and its reply is not seen.  "die": the
\* helper or the system goes down.  "appKill": the application is killed.
\* "quitInStart": the user quits while a start waits for the helper.  "resolve": the
\* server's name has no address.
TunFaultKinds ==
  {"config", "start", "stop", "reply", "die", "appKill", "quitInStart", "resolve"}

ASSUME TunFaultsAssumption == TunFaults \subseteq TunFaultKinds

VARIABLES tun,          \* the helper's bridge: "none", "up", or "failed" with no instance
          ownHelper,    \* the helper is a child of the application
          connected,    \* HelperProcessManager's m_state is Connected
          socket,       \* the socket is connected to the helper that runs
          tunState,     \* SingBoxTunRuntimeBackend's m_state
          phase,        \* the command the start or the quit is at
          sessionActive,\* m_killSwitchSessionActive
          server,       \* the server of the profile being started
          prefs,        \* the settings and the kind of installation, fixed
          declined,     \* history: the user disabled the switch since the last start
          quitting      \* the quit is approved; the process ends with the handler

tunOnly == <<tun, ownHelper, connected, socket, tunState, phase, sessionActive,
             server, prefs, declined, quitting>>
vars == <<ksVars, tunOnly>>

TunStates == {"stopped", "starting", "running", "stopping", "failed"}
Phases == {"down", "recover", "idle", "enable", "validate", "undo", "startTun", "quit"}
StartPhases == {"enable", "validate", "undo", "startTun"}
Preferences ==
  [wantsKillSwitch : BOOLEAN, autoDisable : BOOLEAN, service : BOOLEAN, bridge : BOOLEAN]

TunTypeOK ==
  /\ KsTypeOK
  /\ tun \in {"none", "up", "failed"}
  /\ ownHelper \in BOOLEAN
  /\ connected \in BOOLEAN
  /\ socket \in BOOLEAN
  /\ tunState \in TunStates
  /\ phase \in Phases
  /\ sessionActive \in BOOLEAN
  /\ server \in Servers
  /\ prefs \in Preferences
  /\ declined \in BOOLEAN
  /\ quitting \in BOOLEAN
  /\ tun # "none" => helperUp
  /\ socket => helperUp

TunInit ==
  /\ KsInit
  /\ tun = "none"
  /\ ownHelper = FALSE
  /\ connected = FALSE
  /\ socket = FALSE
  /\ tunState = "stopped"
  /\ phase = "down"
  /\ sessionActive = FALSE
  /\ server \in Servers
  /\ prefs \in Preferences
  /\ declined = FALSE
  /\ quitting = FALSE

Connection == <<ownHelper, connected, socket>>

-----------------------------------------------------------------------------
(* Commands                                                                  *)

\* A request on a closed socket fails at once.  Else the helper executes it, and
\* says ok; the application may see a timeout all the same.
Unsent == ~socket /\ UNCHANGED <<ksVars, tun>>
Seen(ok, seen) == seen = ok \/ (ok /\ ~seen /\ "reply" \in TunFaults)

\* KillSwitchPayloadBuilder::build, before anything is sent.
Unresolved == "resolve" \in TunFaults /\ UNCHANGED <<ksVars, tun>>

KsEnableRequest(seen) ==
  \/ ~seen /\ (Unresolved \/ Unsent)
  \/ /\ socket
     /\ \E ok \in BOOLEAN : Enable(server, ok) /\ Seen(ok, seen)
     /\ UNCHANGED tun

KsDisableRequest(seen) ==
  \/ ~seen /\ Unsent
  \/ /\ socket
     /\ \E ok \in BOOLEAN : Disable(ok) /\ Seen(ok, seen)
     /\ UNCHANGED tun

\* loadBridge: the library of the bridge is found, complete and of the expected version.
\* It comes with the installation, so every helper loads it or none does.
BridgeLoads == prefs.bridge

\* The bridge forgets an instance before it closes it; with none, its state is failed only
\* after a start or a close that failed.
BridgeStarts(ok) ==
  /\ ok \/ "start" \in TunFaults
  /\ tun' = IF ok THEN "up" ELSE "failed"

BridgeStops(ok) ==
  /\ ok \/ (tun = "up" /\ "stop" \in TunFaults)
  /\ tun' = IF ok THEN "none" ELSE "failed"

\* The host validates when its state is Stopped, and so when the bridge has no instance.
HostValidates(ok) ==
  /\ ok => BridgeLoads /\ tun = "none"
  /\ ~ok => ~BridgeLoads \/ tun # "none" \/ "config" \in TunFaults
  /\ UNCHANGED tun

\* A host without a bridge has nothing to stop, and its state stays Stopped.
HostStops(ok) == IF tun = "none" THEN ok /\ UNCHANGED tun ELSE BridgeStops(ok)

\* HelperRuntimeManager::startTun: refused while sing-box runs and without the bridge,
\* validated, and started.
RunsTun(ok) ==
  \/ ~ok /\ HostValidates(FALSE)
  \/ BridgeLoads /\ tun = "none" /\ BridgeStarts(ok)

ValidateRequest(seen) ==
  \/ ~seen /\ Unsent
  \/ /\ socket
     /\ \E ok \in BOOLEAN : HostValidates(ok) /\ Seen(ok, seen)
     /\ UNCHANGED ksVars

\* The kill switch goes with the tunnel if the request says so.
DisabledWithTunnel ==
  IF prefs.autoDisable THEN \E ok \in BOOLEAN : Disable(ok) ELSE UNCHANGED ksVars

\* Mutant of StartRequest: the switch is left alone when the start fails.
StartRequestKeeps(seen) ==
  \/ ~seen /\ Unsent
  \/ socket /\ RunsTun(TRUE) /\ Seen(TRUE, seen) /\ UNCHANGED ksVars
  \/ socket /\ ~seen /\ RunsTun(FALSE) /\ UNCHANGED ksVars

\* A start that fails counts as the end of the tunnel.
StartRequest(seen) ==
  \/ ~seen /\ Unsent
  \/ socket /\ RunsTun(TRUE) /\ Seen(TRUE, seen) /\ UNCHANGED ksVars
  \/ socket /\ ~seen /\ RunsTun(FALSE) /\ DisabledWithTunnel

\* A stop that fails leaves the switch as it is.
StopRequest(seen) ==
  \/ ~seen /\ Unsent
  \/ socket /\ HostStops(TRUE) /\ Seen(TRUE, seen) /\ DisabledWithTunnel
  \/ socket /\ ~seen /\ HostStops(FALSE) /\ UNCHANGED ksVars

\* connectToHelper, to whatever helper listens.
Connect ==
  /\ socket' = helperUp
  /\ connected' = helperUp
  /\ UNCHANGED ownHelper

-----------------------------------------------------------------------------
(* Start                                                                     *)

\* start and ensureHelperConnected: a connection that reads Connected is taken at its
\* word, else an installed service or the child is connected to, or a child started.
ReachHelper ==
  \/ connected /\ UNCHANGED <<ksVars, Connection>>
  \/ ~connected /\ helperUp /\ Connect /\ UNCHANGED ksVars
  \/ /\ ~connected /\ ~helperUp /\ ~prefs.service
     /\ HelperStarts
     /\ ownHelper' = TRUE /\ connected' = TRUE /\ socket' = TRUE

StartTun ==
  /\ phase = "idle" /\ ~quitting
  /\ tunState # "running"
  /\ server' \in Servers
  /\ declined' = FALSE
  /\ \/ /\ ReachHelper
        /\ tunState' = "starting"
        /\ phase' = IF prefs.wantsKillSwitch THEN "enable" ELSE "validate"
     \/ /\ ~connected /\ ~helperUp /\ prefs.service
        /\ tunState' = "failed"
        /\ UNCHANGED <<ksVars, Connection, phase>>
  /\ UNCHANGED <<tun, sessionActive, prefs, quitting>>

\* How a start ends: without a quit in between the application is idle again.
StartEnds(outcome) ==
  /\ tunState' = outcome
  /\ phase' = "idle"

\* Mutant of StartEnables: the start goes on without the switch.
StartEnablesAnyway ==
  /\ phase = "enable"
  /\ \E seen \in BOOLEAN : KsEnableRequest(seen) /\ sessionActive' = (sessionActive \/ seen)
  /\ phase' = "validate"
  /\ UNCHANGED <<Connection, tunState, server, prefs, declined, quitting>>

StartEnables ==
  /\ phase = "enable"
  /\ \E seen \in BOOLEAN :
       /\ KsEnableRequest(seen)
       /\ sessionActive' = (sessionActive \/ seen)
       /\ IF seen THEN phase' = "validate" /\ UNCHANGED tunState ELSE StartEnds("failed")
  /\ UNCHANGED <<Connection, server, prefs, declined, quitting>>

\* disableKillSwitchViaHelper does nothing for a session that did not enable.
StartValidates ==
  /\ phase = "validate"
  /\ \E seen \in BOOLEAN :
       /\ ValidateRequest(seen)
       /\ IF seen
          THEN phase' = "startTun" /\ UNCHANGED tunState
          ELSE IF prefs.wantsKillSwitch /\ prefs.autoDisable /\ sessionActive
               THEN phase' = "undo" /\ UNCHANGED tunState
               ELSE StartEnds("failed")
  /\ UNCHANGED <<Connection, sessionActive, server, prefs, declined, quitting>>

StartUndoes ==
  /\ phase = "undo"
  /\ \E seen \in BOOLEAN : KsDisableRequest(seen) /\ sessionActive' = ~seen
  /\ StartEnds("failed")
  /\ UNCHANGED <<Connection, server, prefs, declined, quitting>>

StartRuns ==
  /\ phase = "startTun"
  /\ \E seen \in BOOLEAN :
       /\ StartRequest(seen)
       /\ StartEnds(IF seen THEN "running" ELSE "failed")
  /\ UNCHANGED <<Connection, sessionActive, server, prefs, declined, quitting>>

-----------------------------------------------------------------------------
(* Stop, "Disable Now" and quit                                              *)

Stopping(seen) ==
  /\ \/ connected /\ StopRequest(seen)
     \/ ~connected /\ ~seen /\ UNCHANGED <<ksVars, tun>>
  /\ tunState' = IF seen THEN "stopped" ELSE "stopping"
  /\ sessionActive' = (sessionActive /\ ~(seen /\ prefs.autoDisable))

StopTun ==
  /\ phase = "idle" /\ ~quitting
  /\ tunState = "running"
  /\ \E seen \in BOOLEAN : Stopping(seen)
  /\ UNCHANGED <<Connection, phase, server, prefs, declined, quitting>>

\* Mutant of ConnectAndDisable: without a helper, the marker at least is removed.
ConnectAndUnmark ==
  /\ Connect
  /\ IF helperUp
     THEN \E ok \in BOOLEAN : Disable(ok)
     ELSE marker' = FALSE /\ UNCHANGED <<ksBackend, rules, status, selected, helperUp>> /\ Remembers(FALSE)

\* onDisableKillSwitchNow and the tray: at any time, also while a start waits.
ConnectAndDisable ==
  /\ Connect
  /\ IF helperUp THEN \E ok \in BOOLEAN : Disable(ok) ELSE UNCHANGED ksVars

DisableNow ==
  /\ phase \in {"idle"} \cup StartPhases
  /\ ~quitting
  /\ ConnectAndDisable
  /\ declined' = TRUE
  /\ UNCHANGED <<tun, tunState, phase, sessionActive, server, prefs, quitting>>

\* requestQuit: with TUN running a dialog offers to keep it and the switch.  A stop
\* that fails is ignored.
RequestQuit ==
  /\ phase = "idle" /\ ~quitting
  /\ \/ tunState = "running" /\ \E seen \in BOOLEAN : Stopping(seen)
     \/ UNCHANGED <<ksVars, tun, tunState, sessionActive>>
  /\ \/ phase' = "quit" /\ UNCHANGED quitting
     \/ tunState = "running" /\ quitting' = TRUE /\ UNCHANGED phase
  /\ UNCHANGED <<Connection, server, prefs, declined>>

QuitDisables ==
  /\ phase = "quit" /\ ~quitting
  /\ quitting' = TRUE
  /\ phase' = "idle"
  /\ ConnectAndDisable
  /\ UNCHANGED <<tun, tunState, sessionActive, server, prefs, declined>>

\* Nothing runs yet by isRunning, so nothing is stopped; the start goes on.
QuitInStart ==
  /\ "quitInStart" \in TunFaults
  /\ phase \in StartPhases /\ ~quitting
  /\ quitting' = TRUE
  /\ ConnectAndDisable
  /\ UNCHANGED <<tun, tunState, phase, sessionActive, server, prefs, declined>>

AppReset ==
  /\ connected' = FALSE
  /\ socket' = FALSE
  /\ ownHelper' = FALSE
  /\ tunState' = "stopped"
  /\ phase' = "down"
  /\ sessionActive' = FALSE
  /\ quitting' = FALSE

\* The QProcess of a helper that is a child kills it.
AppExits ==
  /\ phase = "idle" /\ quitting
  /\ AppReset
  /\ IF ownHelper
     THEN HelperKilled /\ tun' = "none"
     ELSE UNCHANGED <<ksVars, tun>>
  /\ UNCHANGED <<server, prefs, declined>>

\* A child outlives an application that is killed.
AppKilled ==
  /\ "appKill" \in TunFaults
  /\ phase # "down"
  /\ AppReset
  /\ UNCHANGED <<ksVars, tun, server, prefs, declined>>

\* StartupRecovery runs a manager in the application's process.
AppStarts ==
  /\ phase = "down"
  /\ phase' = "recover"
  /\ RecoverElsewhere \/ UNCHANGED ksVars
  /\ UNCHANGED <<tun, Connection, tunState, sessionActive, server, prefs, declined, quitting>>

\* checkKillSwitchRecoveryOnStartup: asks when there is a marker or the status says so.
AppChecksMarker ==
  /\ phase = "recover"
  /\ phase' = "idle"
  /\ \/ Connect /\ UNCHANGED ksVars
     \/ /\ helperUp /\ (marker \/ status = "needsRecovery")
        /\ ConnectAndDisable
  /\ UNCHANGED <<tun, tunState, sessionActive, server, prefs, declined, quitting>>

-----------------------------------------------------------------------------
(* The helper and the system                                                 *)

\* The application hears of the end of a child, of that of a service it does not.
HelperGone ==
  /\ tun' = "none"
  /\ socket' = FALSE
  /\ connected' = (connected /\ ~ownHelper)
  /\ ownHelper' = FALSE
  /\ UNCHANGED <<tunState, phase, sessionActive, server, prefs, declined, quitting>>

HelperDies ==
  /\ "die" \in TunFaults
  /\ \/ HelperKilled
     \/ KilledInDisable
     \/ phase = "enable" /\ socket /\ KilledInEnable(server)
  /\ HelperGone

\* The service is stopped, or the helper is asked to shut down.
HelperStops ==
  /\ "die" \in TunFaults
  /\ HelperShutsDown
  /\ HelperGone

ServiceStarts ==
  /\ prefs.service
  /\ HelperStarts
  /\ UNCHANGED tunOnly

RecoverByHand ==
  /\ RecoverElsewhere
  /\ UNCHANGED tunOnly

SystemRestarts ==
  /\ "die" \in TunFaults
  /\ Reboot
  /\ AppReset
  /\ tun' = "none"
  /\ UNCHANGED <<server, prefs, declined>>

Next ==
  \/ StartTun
  \/ StartEnables
  \/ StartValidates
  \/ StartUndoes
  \/ StartRuns
  \/ StopTun
  \/ DisableNow
  \/ RequestQuit
  \/ QuitDisables
  \/ QuitInStart
  \/ AppExits
  \/ AppKilled
  \/ AppStarts
  \/ AppChecksMarker
  \/ HelperDies
  \/ HelperStops
  \/ ServiceStarts
  \/ RecoverByHand
  \/ SystemRestarts

TunSpec == TunInit /\ [][Next]_vars

-----------------------------------------------------------------------------
(* Properties                                                                *)

\* The tunnel never comes up before the network is blocked, whatever the helper, the
\* connection or the switch did since the start began, unless the user disabled the
\* switch or quits meanwhile (startViaHelper enables first and gives up on failure).
GuardedTunnel ==
  [][(tun = "none" /\ tun' = "up" /\ prefs.wantsKillSwitch /\ ~declined /\ ~quitting)
       => rules # NoRules]_vars

\* What is blocked is opened again: a disable that reports success leaves no rules in
\* force but those that an enable left without a marker, and a start that fails after the
\* switch was enabled, with the helper connected, leaves none, unless the helper reports
\* that it could not or the tunnel is up and only the reply was lost
\* (KillSwitchManager::disable, startViaHelper, the auto-disable of the command server).
NetworkReopens ==
  [][/\ Disable(TRUE) => rules' = NoRules \/ cutOff
     /\ (phase # "enable" /\ tunState = "starting" /\ tunState' = "failed" /\ socket
           /\ prefs.autoDisable)
          => rules' = NoRules \/ tun' = "up" \/ status' \in {"failed", "unsupported"}]_vars

=============================================================================
