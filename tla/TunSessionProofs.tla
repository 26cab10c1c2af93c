-------------------------- MODULE TunSessionProofs --------------------------
(* Proofs about KillSwitch and about TunSession, for every set of servers,   *)
(* both backends and every kind of installation, and about HelperIpc.  First *)
(* the manager of the kill switch by itself: a block is always marked.  Then *)
(* the commands of the helper, which use the kill switch as KillSwitch       *)
(* allows: no tunnel comes up on an open network, and no failed start leaves *)
(* it blocked.  Last the requests and replies between the two programs.      *)
EXTENDS TunSession, HelperIpc, SequenceTheorems, TLAPS

\* A second manager acts only while no helper runs.
OneManager == "outside" \notin KsFaults

\* The inductive invariant: the rules and the status, each against the marker, and the
\* history of the enables that did not get to it.
HelperDownIsDisabled == ~helperUp => status = "disabled"
CutOffIsUnmarked == cutOff => rules # NoRules /\ ~marker

MarkInv ==
  /\ KsTypeOK
  /\ BlockedIsMarked
  /\ DisabledIsOpen
  /\ HelperDownIsDisabled
  /\ CutOffIsUnmarked

-----------------------------------------------------------------------------
(* Lemmas on the backends and the marker                                     *)

\* What an installation leaves in force is the rules of one server.
LEMMA InForceIsServer ==
  ASSUME KsTypeOK, NEW proxy \in Servers
  PROVE  InForce(proxy) \in Servers
BY DEF KsTypeOK, InForce, NftInForce, WfpInForce

\* A disable, done or failed, keeps every block marked that was, and one that reports
\* success opens the network but for a block that an enable left without a marker.
LEMMA UninstallKeepsMark ==
  ASSUME KsTypeOK, BlockedIsMarked, CutOffIsUnmarked, NEW ok \in BOOLEAN, Uninstalled(ok)
  PROVE  /\ rules' \in {rules, NoRules}
         /\ marker' \in BOOLEAN /\ cutOff' \in BOOLEAN
         /\ BlockedIsMarked'
         /\ CutOffIsUnmarked'
         /\ cutOff' => cutOff
         /\ ok => rules' = NoRules \/ cutOff'
         /\ ~ok => marker /\ marker'
<1>1. rules' \in {rules, NoRules}
  BY DEF Uninstalled, BackendDisables, NftDeletes, WfpDeletes
<1>2. marker' \in BOOLEAN
  BY DEF Uninstalled, KsTypeOK
<1>3. cutOff' = (rules' # NoRules /\ ~marker' /\ cutOff)
  BY DEF Uninstalled, Remembers, KsTypeOK
<1>4. ~ok => marker /\ marker'
  BY DEF Uninstalled
<1>5. ok /\ marker => rules' = NoRules
  BY DEF Uninstalled, BackendDisables, NftDeletes, WfpDeletes
<1>6. ok /\ ~marker => UNCHANGED rules /\ ~marker'
  BY DEF Uninstalled
<1>7. ok => rules' = NoRules \/ cutOff'
  BY <1>3, <1>5, <1>6 DEF BlockedIsMarked
<1>8. BlockedIsMarked'
  BY <1>4, <1>7 DEF BlockedIsMarked
<1> QED
  BY <1>1, <1>2, <1>3, <1>4, <1>7, <1>8 DEF CutOffIsUnmarked

-----------------------------------------------------------------------------
(* The invariant                                                             *)

LEMMA MarkInit == KsInit => MarkInv
BY DEF KsInit, MarkInv, KsTypeOK, BlockedIsMarked, DisabledIsOpen,
       HelperDownIsDisabled, CutOffIsUnmarked, Statuses

LEMMA EnableKeepsMark ==
  ASSUME MarkInv, helperUp,
         NEW proxy \in Servers, NEW ok \in BOOLEAN, Enable(proxy, ok)
  PROVE  MarkInv'
<1> USE DEF MarkInv, KsTypeOK, BlockedIsMarked, DisabledIsOpen,
            HelperDownIsDisabled, CutOffIsUnmarked, Statuses
<1>0. UNCHANGED <<ksBackend, helperUp>>
  BY DEF Enable
<1>1. CASE EnableSucceeds(proxy)
  BY <1>0, <1>1, InForceIsServer, KsRulesAssumption DEF EnableSucceeds, Remembers
<1>2. CASE EnableUnsupported
  BY <1>0, <1>2 DEF EnableUnsupported
<1>3. CASE EnableFails(proxy)
  <2>1. rules' \in {rules, InForce(proxy)}
    BY <1>3 DEF EnableFails, BackendFails, NoAddressLeft, NftFails, WfpFails, InForce
  <2>2. status' = "failed" /\ UNCHANGED <<marker, selected>>
    BY <1>3 DEF EnableFails
  <2>3. cutOff' = (rules' # NoRules /\ ~marker' /\ (rules' # rules \/ cutOff))
    BY <1>3 DEF EnableFails, Remembers
  <2>4. CASE UNCHANGED rules
    BY <1>0, <2>2, <2>3, <2>4
  <2>5. CASE rules' # rules
    BY <1>0, <2>1, <2>2, <2>3, <2>5, InForceIsServer
  <2> QED
    BY <2>4, <2>5
<1>4. CASE EnableUnmarked(proxy)
  <2>1. rules' \in {NoRules, InForce(proxy)}
    BY <1>4 DEF EnableUnmarked
  <2>2. status' = "failed" /\ UNCHANGED <<marker, selected>>
    BY <1>4 DEF EnableUnmarked
  <2>3. cutOff' = (rules' # NoRules /\ ~marker')
    BY <1>4 DEF EnableUnmarked, Remembers
  <2> QED
    BY <1>0, <2>1, <2>2, <2>3, InForceIsServer
<1> QED
  BY <1>1, <1>2, <1>3, <1>4 DEF Enable

LEMMA DisableKeepsMark ==
  ASSUME MarkInv, helperUp, NEW ok \in BOOLEAN, Disable(ok)
  PROVE  MarkInv'
<1> USE DEF MarkInv, KsTypeOK, BlockedIsMarked, DisabledIsOpen,
            HelperDownIsDisabled, CutOffIsUnmarked, Statuses
<1>1. Uninstalled(ok) /\ UNCHANGED <<ksBackend, selected, helperUp>>
  BY DEF Disable
<1>2. status' = IF ok THEN "disabled" ELSE "failed"
  BY DEF Disable
<1> QED
  BY <1>1, <1>2, UninstallKeepsMark

LEMMA MarkStep ==
  ASSUME MarkInv, [KsNext]_ksVars
  PROVE  MarkInv'
<1> USE DEF MarkInv, KsTypeOK, BlockedIsMarked, DisabledIsOpen,
            HelperDownIsDisabled, CutOffIsUnmarked, Statuses
<1>1. CASE \E proxy \in Servers, ok \in BOOLEAN : helperUp /\ Enable(proxy, ok)
  BY <1>1, EnableKeepsMark
<1>2. CASE \E ok \in BOOLEAN : helperUp /\ Disable(ok)
  BY <1>2, DisableKeepsMark
<1>3. CASE HelperStarts
  BY <1>3 DEF HelperStarts
<1>4. CASE HelperKilled
  BY <1>4 DEF HelperKilled, HelperEnds
<1>5. CASE HelperShutsDown
  <2>1. PICK ok \in BOOLEAN : Uninstalled(ok)
    BY <1>5 DEF HelperShutsDown
  <2>2. helperUp' = FALSE /\ status' = "disabled" /\ UNCHANGED <<ksBackend, selected>>
    BY <1>5 DEF HelperShutsDown, HelperEnds
  <2> QED
    BY <2>1, <2>2, UninstallKeepsMark
<1>6. CASE \E proxy \in Servers : KilledInEnable(proxy)
  <2>1. PICK proxy \in Servers : KilledInEnable(proxy)
    BY <1>6
  <2>2. rules' = InForce(proxy) /\ cutOff' = (rules' # NoRules /\ ~marker')
    BY <2>1 DEF KilledInEnable, Remembers
  <2>3. helperUp' = FALSE /\ status' = "disabled" /\ UNCHANGED <<ksBackend, marker, selected>>
    BY <2>1 DEF KilledInEnable, HelperEnds
  <2> QED
    BY <2>2, <2>3, InForceIsServer
<1>7. CASE KilledInDisable
  BY <1>7 DEF KilledInDisable, HelperEnds, Remembers
<1>8. CASE RecoverElsewhere
  <2>1. PICK ok \in BOOLEAN : Uninstalled(ok)
    BY <1>8 DEF RecoverElsewhere
  <2>2. UNCHANGED <<ksBackend, status, selected, helperUp>>
    BY <1>8 DEF RecoverElsewhere
  <2> QED
    BY <2>1, <2>2, UninstallKeepsMark
<1>9. CASE Reboot
  BY <1>9 DEF Reboot, HelperEnds, Remembers
<1>10. CASE UNCHANGED ksVars
  BY <1>10 DEF ksVars
<1> QED
  BY <1>1, <1>2, <1>3, <1>4, <1>5, <1>6, <1>7, <1>8, <1>9, <1>10 DEF KsNext

\* With one manager at a time a status of Enabled is true as well.
LEMMA EnabledStep ==
  ASSUME OneManager, MarkInv, EnabledIsInForce, [KsNext]_ksVars
  PROVE  EnabledIsInForce'
<1> USE DEF EnabledIsInForce
<1>1. ASSUME NEW proxy \in Servers, NEW ok \in BOOLEAN, Enable(proxy, ok)
      PROVE  EnabledIsInForce'
  <2>1. InForce(proxy) # NoRules
    BY InForceIsServer, KsRulesAssumption DEF MarkInv
  <2> QED
    BY <1>1, <2>1 DEF Enable, EnableSucceeds, EnableUnsupported, EnableFails, EnableUnmarked
<1>2. CASE \E ok \in BOOLEAN : Disable(ok)
  BY <1>2 DEF Disable
<1>3. CASE HelperStarts
  BY <1>3 DEF HelperStarts
<1>4. CASE \/ HelperKilled \/ HelperShutsDown \/ KilledInDisable \/ Reboot
           \/ \E proxy \in Servers : KilledInEnable(proxy)
  BY <1>4 DEF HelperKilled, HelperShutsDown, KilledInDisable, Reboot, KilledInEnable,
              HelperEnds
<1>5. CASE RecoverElsewhere
  <2>1. ~helperUp /\ UNCHANGED status
    BY <1>5 DEF RecoverElsewhere, OneManager
  <2> QED
    BY <2>1 DEF MarkInv, HelperDownIsDisabled
<1>6. CASE UNCHANGED ksVars
  BY <1>6 DEF ksVars
<1> QED
  BY <1>1, <1>2, <1>3, <1>4, <1>5, <1>6 DEF KsNext

-----------------------------------------------------------------------------
(* The theorems                                                              *)

LEMMA MarkAlways == KillSwitchSpec => []MarkInv
<1>1. MarkInv /\ [KsNext]_ksVars => MarkInv'
  BY MarkStep
<1> QED
  BY <1>1, MarkInit, PTL DEF KillSwitchSpec

\* The rules, the marker and the status keep their types (KillSwitchManager).
THEOREM KsTypeCorrect == KillSwitchSpec => []KsTypeOK
BY MarkAlways, PTL DEF MarkInv

\* A block is never without the marker that start-up recovery, the next helper and
\* "Disable Now" go by, unless an enable that was killed, late or unable to write left
\* it so: whatever else fails, nothing takes the marker of a block away.
THEOREM BlockedAlwaysMarked == KillSwitchSpec => []BlockedIsMarked
BY MarkAlways, PTL DEF MarkInv

\* A helper that reports Disabled has no rules in force but those that an enable left
\* without a marker (refreshStartupState, disable).
THEOREM DisabledAlwaysOpen == KillSwitchSpec => []DisabledIsOpen
BY MarkAlways, PTL DEF MarkInv

\* A helper that reports Enabled has rules in force and the marker written.
THEOREM EnabledAlwaysInForce ==
  ASSUME OneManager PROVE KillSwitchSpec => []EnabledIsInForce
<1>1. KsInit => EnabledIsInForce
  BY DEF KsInit, EnabledIsInForce
<1>2. MarkInv /\ EnabledIsInForce /\ [KsNext]_ksVars => EnabledIsInForce'
  BY EnabledStep
<1> QED
  BY <1>1, <1>2, MarkAlways, PTL DEF KillSwitchSpec

\* With one manager, through every failure and kill, a block is known to whoever may have
\* to lift it, marked on disk and reported as what it is, unless it is one that an enable
\* left before it got to the marker (KillSwitchManager, KillSwitchMarker).
THEOREM BlockAlwaysKnown ==
  ASSUME OneManager PROVE KillSwitchSpec => []BlockIsKnown
BY BlockedAlwaysMarked, DisabledAlwaysOpen, EnabledAlwaysInForce, PTL DEF BlockIsKnown

-----------------------------------------------------------------------------
(* The sessions: their inductive invariants                                  *)

\* The inductive invariants.  What runs in the helper or is connected to it ends with it.
HelperHolds ==
  /\ server \in Servers
  /\ socket => helperUp
  /\ tun # "none" => helperUp

\* A start that goes on behind its enable has its block, unless the user lifted it or the
\* helper is gone.
StartIsGuarded ==
  phase \in {"validate", "startTun"} /\ socket /\ prefs.wantsKillSwitch /\ ~declined
    /\ ~quitting => rules # NoRules

\* The backend says that it starts only while it does; a session without the switch never
\* blocks; a start behind its enable knows that it has to undo it, and has its marker.
StartKnowsItsBlock ==
  /\ tunState = "starting" => phase \in StartPhases
  /\ ~prefs.wantsKillSwitch => rules = NoRules /\ phase # "enable"
  /\ phase \in {"validate", "undo", "startTun"} /\ prefs.wantsKillSwitch
       => sessionActive /\ ~cutOff

-----------------------------------------------------------------------------
(* What the commands do to the kill switch                                   *)

\* Every command of a start, a stop or a quit enables or disables, or leaves the switch
\* alone, and the helper lives on.
LEMMA StartRequestUses ==
  ASSUME NEW seen \in BOOLEAN, StartRequest(seen)
  PROVE  (socket /\ \E ok \in BOOLEAN : Disable(ok)) \/ UNCHANGED ksVars
BY DEF StartRequest, Unsent, DisabledWithTunnel, ksVars

LEMMA StoppingUses ==
  ASSUME NEW seen \in BOOLEAN, Stopping(seen)
  PROVE  (socket /\ \E ok \in BOOLEAN : Disable(ok)) \/ UNCHANGED ksVars
BY DEF Stopping, StopRequest, Unsent, DisabledWithTunnel, ksVars

LEMMA ConnectAndDisableUses ==
  ASSUME ConnectAndDisable
  PROVE  (helperUp /\ \E ok \in BOOLEAN : Disable(ok)) \/ UNCHANGED ksVars
BY DEF ConnectAndDisable, ksVars

\* Every step of the application, the helper or the system does to the kill switch what
\* one step of KillSwitch does.
LEMMA TunUsesKillSwitch ==
  ASSUME HelperHolds, [Next]_vars
  PROVE  [KsNext]_ksVars
<1> USE DEF HelperHolds
<1>1. CASE UNCHANGED ksVars
  BY <1>1
<1>2. CASE \E ok \in BOOLEAN : helperUp /\ Disable(ok)
  BY <1>2 DEF KsNext
<1>3. CASE StartTun
  BY <1>1, <1>3 DEF StartTun, ReachHelper, KsNext, ksVars
<1>4. CASE StartEnables
  BY <1>1, <1>4 DEF StartEnables, KsEnableRequest, Unresolved, Unsent, KsNext
<1>5. CASE StartValidates
  BY <1>1, <1>5 DEF StartValidates, ValidateRequest, Unsent
<1>6. CASE StartUndoes
  BY <1>1, <1>2, <1>6 DEF StartUndoes, KsDisableRequest, Unsent
<1>7. CASE StartRuns
  BY <1>1, <1>2, <1>7, StartRequestUses DEF StartRuns
<1>8. CASE StopTun \/ RequestQuit
  BY <1>1, <1>2, <1>8, StoppingUses DEF StopTun, RequestQuit
<1>9. CASE DisableNow \/ QuitDisables \/ QuitInStart \/ AppChecksMarker
  BY <1>1, <1>2, <1>9, ConnectAndDisableUses
     DEF DisableNow, QuitDisables, QuitInStart, AppChecksMarker
<1>10. CASE AppExits \/ AppKilled \/ AppStarts
  BY <1>1, <1>10 DEF AppExits, AppKilled, AppStarts, KsNext
<1>11. CASE HelperDies \/ HelperStops
  BY <1>11 DEF HelperDies, HelperStops, KsNext
<1>12. CASE ServiceStarts \/ RecoverByHand \/ SystemRestarts
  BY <1>12 DEF ServiceStarts, RecoverByHand, SystemRestarts, KsNext
<1>13. CASE UNCHANGED vars
  BY <1>1, <1>13 DEF vars
<1> QED
  BY <1>3, <1>4, <1>5, <1>6, <1>7, <1>8, <1>9, <1>10, <1>11, <1>12, <1>13 DEF Next

-----------------------------------------------------------------------------
(* A session implements KillSwitch                                           *)

LEMMA HelperHoldsStep ==
  ASSUME HelperHolds, [Next]_vars
  PROVE  HelperHolds'
<1> USE DEF HelperHolds
<1>0. ASSUME NEW ok \in BOOLEAN, Disable(ok) PROVE UNCHANGED helperUp
  BY <1>0 DEF Disable
<1>1. ASSUME UNCHANGED ksVars PROVE UNCHANGED helperUp
  BY <1>1 DEF ksVars
<1>2. CASE StartTun
  BY <1>1, <1>2 DEF StartTun, ReachHelper, Connect, Connection, HelperStarts
<1>3. CASE StartEnables
  <2>1. UNCHANGED <<helperUp, tun>>
    BY <1>1, <1>3 DEF StartEnables, KsEnableRequest, Unresolved, Unsent, Enable
  <2> QED
    BY <1>3, <2>1 DEF StartEnables, Connection
<1>4. CASE StartValidates
  <2>1. UNCHANGED <<helperUp, tun>>
    BY <1>1, <1>4 DEF StartValidates, ValidateRequest, HostValidates, Unsent
  <2> QED
    BY <1>4, <2>1 DEF StartValidates, Connection
<1>5. CASE StartUndoes
  <2>1. UNCHANGED <<helperUp, tun>>
    BY <1>0, <1>1, <1>5 DEF StartUndoes, KsDisableRequest, Unsent
  <2> QED
    BY <1>5, <2>1 DEF StartUndoes, Connection
<1>6. CASE StartRuns
  <2>1. UNCHANGED helperUp
    BY <1>0, <1>1, <1>6, StartRequestUses DEF StartRuns
  <2>2. socket \/ UNCHANGED tun
    BY <1>6 DEF StartRuns, StartRequest, Unsent
  <2> QED
    BY <1>6, <2>1, <2>2 DEF StartRuns, Connection
<1>7. CASE StopTun \/ RequestQuit
  <2>1. UNCHANGED helperUp
    BY <1>0, <1>1, <1>7, StoppingUses DEF StopTun, RequestQuit
  <2>2. socket \/ UNCHANGED tun
    BY <1>7 DEF StopTun, RequestQuit, Stopping, StopRequest, Unsent
  <2> QED
    BY <1>7, <2>1, <2>2 DEF StopTun, RequestQuit, Connection
<1>8. CASE DisableNow \/ QuitDisables \/ QuitInStart \/ AppChecksMarker
  <2>1. UNCHANGED <<helperUp, tun, server>> /\ Connect
    BY <1>0, <1>1, <1>8, ConnectAndDisableUses
       DEF DisableNow, QuitDisables, QuitInStart, AppChecksMarker, ConnectAndDisable
  <2> QED
    BY <2>1 DEF Connect
<1>9. CASE AppExits \/ AppKilled
  BY <1>1, <1>9 DEF AppExits, AppKilled, AppReset
<1>10. CASE AppStarts
  BY <1>1, <1>10 DEF AppStarts, RecoverElsewhere, Connection
<1>11. CASE HelperDies \/ HelperStops
  BY <1>11 DEF HelperDies, HelperStops, HelperGone
<1>12. CASE ServiceStarts
  BY <1>12 DEF ServiceStarts, HelperStarts, tunOnly
<1>13. CASE RecoverByHand
  BY <1>13 DEF RecoverByHand, RecoverElsewhere, tunOnly
<1>14. CASE SystemRestarts
  BY <1>14 DEF SystemRestarts, AppReset
<1>15. CASE UNCHANGED vars
  BY <1>1, <1>15 DEF vars, tunOnly
<1> QED
  BY <1>2, <1>3, <1>4, <1>5, <1>6, <1>7, <1>8, <1>9, <1>10, <1>11, <1>12, <1>13, <1>14, <1>15
  DEF Next

LEMMA HelperAlwaysHolds == TunSpec => []HelperHolds
<1>1. TunInit => HelperHolds
  BY DEF TunInit, HelperHolds
<1>2. HelperHolds /\ [Next]_vars => HelperHolds'
  BY HelperHoldsStep
<1> QED
  BY <1>1, <1>2, PTL DEF TunSpec

\* The application and the helper's commands are a client of the kill switch's manager
\* that does nothing else to its rules and its marker (helper/HelperCommandServer.cpp).
THEOREM SessionsImplementKillSwitch == TunSpec => KillSwitchSpec
<1>1. TunInit => KsInit
  BY DEF TunInit
<1>2. HelperHolds /\ [Next]_vars => [KsNext]_ksVars
  BY TunUsesKillSwitch
<1> QED
  BY <1>1, <1>2, HelperAlwaysHolds, PTL DEF TunSpec, KillSwitchSpec

\* Through starts, stops, quits, lost replies, helpers and applications that die at any
\* point and restarts of the system, what is blocked is marked and reported as what it
\* is, unless an enable left it before it got to the marker.
THEOREM SessionBlockKnown ==
  ASSUME OneManager PROVE TunSpec => []BlockIsKnown
BY SessionsImplementKillSwitch, BlockAlwaysKnown, PTL

-----------------------------------------------------------------------------
(* No tunnel on an open network                                              *)

\* What an enable that succeeds leaves in force is some server's rules.
LEMMA EnableBlocks ==
  ASSUME server \in Servers, Enable(server, TRUE)
  PROVE  rules' # NoRules
BY KsRulesAssumption DEF Enable, EnableSucceeds, InForce, NftInForce, WfpInForce

LEMMA GuardedStep ==
  ASSUME OneManager, HelperHolds, StartIsGuarded, [Next]_vars
  PROVE  StartIsGuarded'
<1> USE DEF StartIsGuarded, StartPhases
<1>1. CASE StartTun
  BY <1>1 DEF StartTun
<1>2. CASE StartEnables
  <2>1. PICK seen \in BOOLEAN :
          /\ KsEnableRequest(seen)
          /\ IF seen THEN phase' = "validate" /\ UNCHANGED tunState ELSE StartEnds("failed")
    BY <1>2 DEF StartEnables
  <2>2. CASE seen
    BY <2>1, <2>2, EnableBlocks DEF KsEnableRequest, Seen, HelperHolds
  <2>3. CASE ~seen
    BY <2>1, <2>3 DEF StartEnds
  <2> QED
    BY <2>2, <2>3
<1>3. CASE StartValidates
  <2>1. UNCHANGED <<socket, prefs, declined, quitting, rules>> /\ phase = "validate"
    BY <1>3 DEF StartValidates, ValidateRequest, Unsent, Connection, ksVars
  <2> QED
    BY <2>1
<1>4. CASE StartUndoes \/ StartRuns
  BY <1>4 DEF StartUndoes, StartRuns, StartEnds
<1>5. CASE StopTun \/ RequestQuit \/ QuitDisables
  BY <1>5 DEF StopTun, RequestQuit, QuitDisables
<1>6. CASE DisableNow \/ QuitInStart
  BY <1>6 DEF DisableNow, QuitInStart
<1>7. CASE AppExits \/ AppKilled \/ AppStarts \/ AppChecksMarker \/ SystemRestarts
  BY <1>7 DEF AppExits, AppKilled, AppStarts, AppChecksMarker, SystemRestarts, AppReset
<1>8. CASE HelperDies \/ HelperStops
  BY <1>8 DEF HelperDies, HelperStops, HelperGone
<1>9. CASE ServiceStarts
  BY <1>9 DEF ServiceStarts, HelperStarts, tunOnly
<1>10. CASE RecoverByHand
  <2>1. ~helperUp /\ UNCHANGED socket
    BY <1>10 DEF RecoverByHand, RecoverElsewhere, OneManager, tunOnly
  <2> QED
    BY <2>1 DEF HelperHolds
<1>11. CASE UNCHANGED vars
  BY <1>11 DEF vars, tunOnly, ksVars
<1> QED
  BY <1>1, <1>2, <1>3, <1>4, <1>5, <1>6, <1>7, <1>8, <1>9, <1>10, <1>11 DEF Next

\* Only the last command of a start brings a tunnel up.
LEMMA OnlyStartRunsStarts ==
  ASSUME Next, tun = "none", tun' = "up"
  PROVE  StartRuns /\ socket
<1>1. ASSUME NEW seen \in BOOLEAN, Stopping(seen) PROVE FALSE
  BY <1>1 DEF Stopping, StopRequest, Unsent, HostStops
<1>2. ~StopTun /\ ~RequestQuit
  BY <1>1 DEF StopTun, RequestQuit
<1>3. ~StartTun /\ ~StartEnables /\ ~StartValidates /\ ~StartUndoes
  BY DEF StartTun, StartEnables, StartValidates, StartUndoes, KsEnableRequest,
     KsDisableRequest, ValidateRequest, HostValidates, Unresolved, Unsent
<1>4. ~DisableNow /\ ~QuitDisables /\ ~QuitInStart /\ ~AppExits /\ ~AppKilled /\ ~AppStarts
        /\ ~AppChecksMarker
  BY DEF DisableNow, QuitDisables, QuitInStart, AppExits, AppKilled, AppStarts,
     AppChecksMarker
<1>5. ~HelperDies /\ ~HelperStops /\ ~ServiceStarts /\ ~RecoverByHand /\ ~SystemRestarts
  BY DEF HelperDies, HelperStops, HelperGone, ServiceStarts, RecoverByHand, SystemRestarts,
     tunOnly
<1>6. StartRuns
  BY <1>2, <1>3, <1>4, <1>5 DEF Next
<1> QED
  BY <1>6 DEF StartRuns, StartRequest, Unsent

\* Whatever the helper, the connection or the switch did since the start began, the tunnel
\* comes up behind a block, unless the user lifted it or quits (startViaHelper).
THEOREM TunnelsAreGuarded == ASSUME OneManager PROVE TunSpec => GuardedTunnel
<1>1. TunInit => StartIsGuarded
  BY DEF TunInit, StartIsGuarded
<1>2. HelperHolds /\ StartIsGuarded /\ [Next]_vars => StartIsGuarded'
  BY GuardedStep
<1>3. StartIsGuarded /\ [Next]_vars
        => [tun = "none" /\ tun' = "up" /\ prefs.wantsKillSwitch /\ ~declined /\ ~quitting
              => rules # NoRules]_vars
  BY OnlyStartRunsStarts DEF StartIsGuarded, StartRuns
<1> QED
  BY <1>1, <1>2, <1>3, HelperAlwaysHolds, PTL DEF TunSpec, GuardedTunnel

-----------------------------------------------------------------------------
(* No block behind a start that failed                                       *)

LEMMA KnowsItsBlockStep ==
  ASSUME StartKnowsItsBlock, [Next]_vars
  PROVE  StartKnowsItsBlock'
<1> USE DEF StartKnowsItsBlock, StartPhases
<1> DEFINE Opens == (rules = NoRules => rules' = NoRules) /\ (cutOff' => cutOff)
<1>0. ASSUME NEW ok \in BOOLEAN, Uninstalled(ok) PROVE Opens
  <2>1. rules = NoRules => rules' = NoRules
    BY <1>0 DEF Uninstalled, BackendDisables, NftDeletes, WfpDeletes
  <2>2. cutOff' => cutOff
    BY <1>0 DEF Uninstalled, Remembers
  <2> QED
    BY <2>1, <2>2
<1>1. ASSUME NEW ok \in BOOLEAN, Disable(ok) PROVE Opens
  BY <1>0, <1>1 DEF Disable
<1>2. ASSUME UNCHANGED ksVars PROVE UNCHANGED <<rules, cutOff>>
  BY <1>2 DEF ksVars
<1>3. CASE StartTun
  <2>1. UNCHANGED <<rules, cutOff, prefs>>
    BY <1>2, <1>3 DEF StartTun, ReachHelper, HelperStarts
  <2> QED
    BY <1>3, <2>1 DEF StartTun
<1>4. CASE StartEnables
  <2>1. prefs.wantsKillSwitch /\ UNCHANGED prefs
    BY <1>4 DEF StartEnables
  <2>2. PICK seen \in BOOLEAN :
          /\ KsEnableRequest(seen)
          /\ sessionActive' = (sessionActive \/ seen)
          /\ IF seen THEN phase' = "validate" /\ UNCHANGED tunState ELSE StartEnds("failed")
    BY <1>4 DEF StartEnables
  <2>3. seen => ~cutOff'
    BY <2>2 DEF KsEnableRequest, Seen, Enable, EnableSucceeds, Remembers
  <2> QED
    BY <1>4, <2>1, <2>2, <2>3 DEF StartEnables, StartEnds
<1>5. CASE StartValidates
  <2>1. UNCHANGED <<rules, cutOff, prefs, sessionActive>>
    BY <1>2, <1>5 DEF StartValidates, ValidateRequest, Unsent
  <2> QED
    BY <1>5, <2>1 DEF StartValidates, StartEnds
<1>6. CASE StartUndoes
  <2>1. Opens
    BY <1>1, <1>2, <1>6 DEF StartUndoes, KsDisableRequest, Unsent
  <2> QED
    BY <1>6, <2>1 DEF StartUndoes, StartEnds
<1>7. CASE StartRuns
  <2>1. Opens
    BY <1>1, <1>2, <1>7, StartRequestUses DEF StartRuns
  <2>2. PICK outcome \in {"running", "failed"} : StartEnds(outcome)
    BY <1>7 DEF StartRuns
  <2> QED
    BY <1>7, <2>1, <2>2 DEF StartRuns, StartEnds
<1>8. CASE StopTun \/ RequestQuit
  <2>1. Opens
    BY <1>1, <1>2, <1>8, StoppingUses DEF StopTun, RequestQuit
  <2>2. phase' \in {"idle", "quit"} /\ UNCHANGED prefs
    BY <1>8 DEF StopTun, RequestQuit
  <2>3. tunState' # "starting"
    BY <1>8 DEF StopTun, RequestQuit, Stopping
  <2> QED
    BY <2>1, <2>2, <2>3
<1>9. CASE DisableNow \/ QuitDisables \/ QuitInStart \/ AppChecksMarker
  <2>1. Opens
    BY <1>1, <1>2, <1>9, ConnectAndDisableUses
       DEF DisableNow, QuitDisables, QuitInStart, AppChecksMarker
  <2> QED
    BY <1>9, <2>1 DEF DisableNow, QuitDisables, QuitInStart, AppChecksMarker
<1>10. CASE AppExits \/ AppKilled
  <2>1. UNCHANGED <<rules, cutOff>>
    BY <1>2, <1>10 DEF AppExits, AppKilled, HelperKilled
  <2> QED
    BY <1>10, <2>1 DEF AppExits, AppKilled, AppReset
<1>11. CASE AppStarts
  <2>1. Opens
    BY <1>0, <1>2, <1>11 DEF AppStarts, RecoverElsewhere
  <2> QED
    BY <1>11, <2>1 DEF AppStarts
<1>12. CASE HelperDies \/ HelperStops
  <2>1. CASE HelperStops
    <3>1. Opens
      BY <1>0, <2>1 DEF HelperStops, HelperShutsDown
    <3> QED
      BY <2>1, <3>1 DEF HelperStops, HelperGone
  <2>2. CASE HelperDies /\ phase # "enable"
    <3>1. HelperKilled \/ KilledInDisable
      BY <2>2 DEF HelperDies
    <3>2. HelperKilled => Opens
      BY DEF HelperKilled
    <3>3. KilledInDisable => rules' = NoRules /\ ~cutOff'
      BY DEF KilledInDisable, Remembers
    <3> QED
      BY <2>2, <3>1, <3>2, <3>3 DEF HelperDies, HelperGone
  <2>3. CASE HelperDies /\ phase = "enable"
    BY <2>3 DEF HelperDies, HelperGone
  <2> QED
    BY <1>12, <2>1, <2>2, <2>3
<1>13. CASE ServiceStarts \/ RecoverByHand
  <2>1. Opens
    BY <1>0, <1>13 DEF ServiceStarts, HelperStarts, RecoverByHand, RecoverElsewhere
  <2> QED
    BY <1>13, <2>1 DEF ServiceStarts, RecoverByHand, tunOnly
<1>14. CASE SystemRestarts
  BY <1>14 DEF SystemRestarts, AppReset, Reboot, Remembers
<1>15. CASE UNCHANGED vars
  BY <1>2, <1>15 DEF vars, tunOnly
<1> QED
  BY <1>3, <1>4, <1>5, <1>6, <1>7, <1>8, <1>9, <1>10, <1>11, <1>12, <1>13, <1>14, <1>15
  DEF Next

\* A start that fails with the helper connected has opened the network, says that it could
\* not, or has its tunnel up with the reply lost.
LEMMA FailedStartReopens ==
  ASSUME MarkInv, StartKnowsItsBlock, Next, phase # "enable", tunState = "starting",
         tunState' = "failed", socket, prefs.autoDisable
  PROVE  rules' = NoRules \/ tun' = "up" \/ status' \in {"failed", "unsupported"}
<1>1. phase \in {"validate", "undo", "startTun"}
  BY DEF StartKnowsItsBlock, StartPhases
<1>2. ASSUME NEW ok \in BOOLEAN, Disable(ok)
      PROVE  rules' = NoRules \/ status' = "failed"
  <2>1. ok => rules' = NoRules \/ cutOff
    BY <1>2, UninstallKeepsMark DEF Disable, MarkInv
  <2>2. rules = NoRules => rules' = NoRules
    BY <1>2 DEF Disable, Uninstalled, BackendDisables, NftDeletes, WfpDeletes
  <2>3. prefs.wantsKillSwitch => ~cutOff
    BY <1>1 DEF StartKnowsItsBlock
  <2>4. ~prefs.wantsKillSwitch => rules = NoRules
    BY DEF StartKnowsItsBlock
  <2>5. ~ok => status' = "failed"
    BY <1>2 DEF Disable
  <2> QED
    BY <2>1, <2>2, <2>3, <2>4, <2>5
<1>3. StartValidates \/ StartUndoes \/ StartRuns
  BY <1>1 DEF Next, StartTun, StartEnables, StopTun, DisableNow, RequestQuit, QuitDisables,
     QuitInStart, AppExits, AppKilled, AppReset, AppStarts, AppChecksMarker, HelperDies,
     HelperStops, HelperGone, ServiceStarts, RecoverByHand, SystemRestarts, tunOnly
<1>4. CASE StartValidates
  <2>1. ~prefs.wantsKillSwitch
    BY <1>1, <1>4 DEF StartValidates, StartKnowsItsBlock
  <2>2. rules = NoRules /\ UNCHANGED rules
    BY <1>4, <2>1 DEF StartValidates, ValidateRequest, Unsent, ksVars, StartKnowsItsBlock
  <2> QED
    BY <2>2
<1>5. CASE StartUndoes
  BY <1>2, <1>5 DEF StartUndoes, KsDisableRequest, Unsent
<1>6. CASE StartRuns
  <2>1. PICK seen \in BOOLEAN :
          StartRequest(seen) /\ StartEnds(IF seen THEN "running" ELSE "failed")
    BY <1>6 DEF StartRuns
  <2>2. ~seen
    BY <2>1 DEF StartEnds
  <2>3. CASE RunsTun(TRUE)
    BY <2>3 DEF RunsTun, BridgeStarts
  <2>4. CASE RunsTun(FALSE) /\ DisabledWithTunnel
    BY <1>2, <2>4 DEF DisabledWithTunnel
  <2> QED
    BY <2>1, <2>2, <2>3, <2>4 DEF StartRequest, Unsent
<1> QED
  BY <1>3, <1>4, <1>5, <1>6

\* What is blocked is opened again: by every disable that reports success, but for a block
\* that an enable left without a marker, and by every start that fails with the helper
\* connected (KillSwitchManager::disable, startViaHelper, the auto-disable of the command
\* server).
THEOREM NetworkAlwaysReopens == TunSpec => NetworkReopens
<1>1. TunInit => StartKnowsItsBlock
  BY DEF TunInit, KsInit, StartKnowsItsBlock
<1>2. StartKnowsItsBlock /\ [Next]_vars => StartKnowsItsBlock'
  BY KnowsItsBlockStep
<1>3. MarkInv => (Disable(TRUE) => rules' = NoRules \/ cutOff)
  BY UninstallKeepsMark DEF Disable, MarkInv
<1>4. MarkInv /\ StartKnowsItsBlock /\ [Next]_vars
        => [/\ Disable(TRUE) => rules' = NoRules \/ cutOff
            /\ (phase # "enable" /\ tunState = "starting" /\ tunState' = "failed" /\ socket
                  /\ prefs.autoDisable)
                 => rules' = NoRules \/ tun' = "up" \/ status' \in {"failed", "unsupported"}]_vars
  BY <1>3, FailedStartReopens
<1> QED
  BY <1>1, <1>2, <1>4, SessionsImplementKillSwitch, MarkAlways, PTL
  DEF TunSpec, NetworkReopens

-----------------------------------------------------------------------------
(* The conversation with the helper (HelperIpc), for every set of commands   *)
(* and faults and any number of requests, nested as deep as one likes:       *)
(* replies go to their own request, and the application ends up believing of *)
(* the kill switch what the helper does.                                     *)

Tokens == Kinds \cup {"none"}
RequestLines == [id : Ids, command : Commands, token : Tokens]
ReplyLines == [type : {"response"}, id : Ids, ok : BOOLEAN, status : KnownStatuses]
EventLines == [type : {"killSwitchState"}, id : {0}, ok : {TRUE}, status : KnownStatuses]
Messages == ReplyLines \cup EventLines \cup {ExitEvent}

\* What the variables of the conversation hold.
IpcTypeOK ==
  /\ link \in BOOLEAN /\ state \in States /\ token \in Tokens /\ mirror \in KnownStatuses
  /\ calls \in Seq([id : Ids, command : Commands])
  /\ nextId \in 0 .. MaxRequests
  /\ toHelper \in Seq(RequestLines) /\ toClient \in Seq(Messages)
  /\ helper \in Helpers /\ installed \in BOOLEAN /\ process \in BOOLEAN
  /\ active \in {"none", "client", "gone"}
  /\ ks \in KnownStatuses /\ running \in BOOLEAN
  /\ served \in [Ids -> [ok : BOOLEAN, status : KnownStatuses \cup {"none"}]]
  /\ returned \in [id : 0 .. MaxRequests, ok : BOOLEAN]
  /\ informed \in BOOLEAN

-----------------------------------------------------------------------------
(* Replies                                                                   *)

\* Nobody has answered these requests yet, and no two have an id in common.
Unanswered(requests, answers) ==
  /\ \A i \in 1 .. Len(requests) : ~answers[requests[i].id].ok
  /\ \A i, j \in 1 .. Len(requests) : i # j => requests[i].id # requests[j].id

\* Ids are given in order.
Given(requests, last) == \A i \in 1 .. Len(requests) : requests[i].id <= last

\* A reply says what the helper answered.
Truthful(messages, answers) ==
  \A i \in 1 .. Len(messages) :
    messages[i].type = "response" /\ messages[i].ok => answers[messages[i].id].ok

AnswerInv ==
  /\ Unanswered(toHelper, served) /\ Given(toHelper, nextId)
  /\ \A id \in Ids : id > nextId => ~served[id].ok
  /\ Truthful(toClient, served)
  /\ returned.ok => returned.id \in Ids /\ served[returned.id].ok

-----------------------------------------------------------------------------
(* The status of the kill switch                                             *)

Untold(messages) == \A i \in 1 .. Len(messages) : messages[i].type # "killSwitchState"

\* The last event of the kill switch, and every reply after it, tell its status.
TellsLast(messages, value) ==
  \A i \in 1 .. Len(messages) :
    /\ messages[i].type # "runtimeExited"
    /\ \A j \in 1 .. Len(messages) : j > i => messages[j].type # "killSwitchState"
    => messages[i].status = value

MirrorInv ==
  /\ link => helper # "none"
  /\ link => TellsLast(toClient, ks)
  /\ link /\ informed /\ Untold(toClient) => mirror = ks

-----------------------------------------------------------------------------
(* Lines that are read and written                                           *)

\* What is true of the lines on their way stays true when the first is read.
LEMMA LineRead ==
  ASSUME NEW lines0 \in Seq(Messages), lines0 # <<>>, NEW answers, NEW value
  PROVE  /\ Head(lines0) \in Messages /\ Head(lines0) = lines0[1]
         /\ Tail(lines0) \in Seq(Messages)
         /\ Truthful(lines0, answers) => Truthful(Tail(lines0), answers)
         /\ TellsLast(lines0, value) => TellsLast(Tail(lines0), value)
         /\ Head(lines0).type # "killSwitchState" /\ Untold(Tail(lines0)) => Untold(lines0)
         /\ TellsLast(lines0, value) /\ Untold(Tail(lines0))
              /\ Head(lines0).type # "runtimeExited" => Head(lines0).status = value
<1> DEFINE rest == Tail(lines0)
<1>1. /\ Len(lines0) \in Nat \ {0} /\ Head(lines0) \in Messages /\ Head(lines0) = lines0[1]
      /\ rest \in Seq(Messages) /\ Len(rest) = Len(lines0) - 1
      /\ \A i \in 1 .. Len(rest) : rest[i] = lines0[i + 1]
  BY HeadTailProperties, EmptySeq
<1>2. Truthful(lines0, answers) => Truthful(rest, answers)
  BY <1>1 DEF Truthful
<1>3. ASSUME TellsLast(lines0, value), NEW i \in 1 .. Len(rest),
             rest[i].type # "runtimeExited",
             \A j \in 1 .. Len(rest) : j > i => rest[j].type # "killSwitchState"
      PROVE  rest[i].status = value
  <2>1. ASSUME NEW j \in 1 .. Len(lines0), j > i + 1
        PROVE  lines0[j].type # "killSwitchState"
    <3>1. j - 1 \in 1 .. Len(rest) /\ j - 1 > i
      BY <1>1, <2>1
    <3> QED BY <1>1, <1>3, <3>1
  <2> QED BY <1>1, <1>3, <2>1 DEF TellsLast
<1>4. ASSUME NEW j \in 1 .. Len(lines0), j > 1, Untold(rest)
      PROVE  lines0[j].type # "killSwitchState"
  <2>1. j - 1 \in 1 .. Len(rest)
    BY <1>1, <1>4
  <2>2. rest[j - 1] = lines0[j]
    BY <1>1, <2>1
  <2> HIDE DEF rest
  <2> QED BY <1>4, <2>1, <2>2 DEF Untold
<1>5. Head(lines0).type # "killSwitchState" /\ Untold(rest) => Untold(lines0)
  BY <1>1, <1>4 DEF Untold
<1>6. TellsLast(lines0, value) /\ Untold(rest) /\ Head(lines0).type # "runtimeExited"
        => Head(lines0).status = value
  BY <1>1, <1>4 DEF TellsLast
<1> HIDE DEF rest
<1>7. TellsLast(lines0, value) => TellsLast(rest, value)
  BY <1>3 DEF TellsLast
<1> QED BY <1>1, <1>2, <1>5, <1>6, <1>7 DEF rest

\* What a line that is written adds.
LEMMA LineWritten ==
  ASSUME NEW lines0 \in Seq(Messages), NEW line \in Messages, NEW answers, NEW value
  PROVE  /\ lines0 \o <<line>> \in Seq(Messages) /\ lines0 \o <<line>> # <<>>
         /\ Truthful(lines0, answers)
              /\ (line.type = "response" /\ line.ok => answers[line.id].ok)
              => Truthful(lines0 \o <<line>>, answers)
         /\ TellsLast(lines0, value) /\ (line.type = "runtimeExited" \/ line.status = value)
              => TellsLast(lines0 \o <<line>>, value)
         /\ line.type = "killSwitchState" /\ line.status = value
              => TellsLast(lines0 \o <<line>>, value)
         /\ Untold(lines0 \o <<line>>) => Untold(lines0) /\ line.type # "killSwitchState"
<1> DEFINE more == lines0 \o <<line>>
<1>1. /\ Len(lines0) \in Nat
      /\ more \in Seq(Messages) /\ Len(more) = Len(lines0) + 1
      /\ \A i \in 1 .. Len(lines0) : more[i] = lines0[i]
      /\ more[Len(lines0) + 1] = line
  <2>1. <<line>> \in Seq(Messages) /\ Len(<<line>>) = 1 /\ <<line>>[1] = line
    OBVIOUS
  <2>2. Len(lines0) \in Nat
    BY LenProperties
  <2>3. /\ more \in Seq(Messages) /\ Len(more) = Len(lines0) + 1
        /\ \A i \in 1 .. Len(lines0) + 1 :
             more[i] = IF i <= Len(lines0) THEN lines0[i] ELSE <<line>>[i - Len(lines0)]
    BY <2>1, ConcatProperties
  <2> QED BY <2>1, <2>2, <2>3
<1> HIDE DEF more
<1>2. more # <<>>
  BY <1>1
<1>3. Truthful(lines0, answers) /\ (line.type = "response" /\ line.ok => answers[line.id].ok)
        => Truthful(more, answers)
  BY <1>1 DEF Truthful
<1>4. TellsLast(lines0, value) /\ (line.type = "runtimeExited" \/ line.status = value)
        => TellsLast(more, value)
  <2> SUFFICES ASSUME TellsLast(lines0, value),
                      line.type = "runtimeExited" \/ line.status = value,
                      NEW i \in 1 .. Len(more), more[i].type # "runtimeExited",
                      \A j \in 1 .. Len(more) : j > i => more[j].type # "killSwitchState"
               PROVE  more[i].status = value
    BY DEF TellsLast
  <2>1. CASE i = Len(more)
    BY <1>1, <2>1
  <2>2. CASE i # Len(more)
    <3>1. /\ i \in 1 .. Len(lines0) /\ lines0[i] = more[i]
          /\ \A j \in 1 .. Len(lines0) : j > i => lines0[j].type # "killSwitchState"
      BY <1>1, <2>2
    <3> QED BY <3>1 DEF TellsLast
  <2> QED BY <2>1, <2>2
<1>5. line.type = "killSwitchState" /\ line.status = value => TellsLast(more, value)
  BY <1>1 DEF TellsLast
<1>6. Untold(more) => Untold(lines0) /\ line.type # "killSwitchState"
  BY <1>1 DEF Untold
<1> QED BY <1>1, <1>2, <1>3, <1>4, <1>5, <1>6 DEF more

\* What it takes to be a line of each kind.
LEMMA LineKinds ==
  /\ \A id \in Ids, ok \in BOOLEAN, value \in KnownStatuses :
       Reply(id, ok, value) \in Messages
  /\ \A value \in KnownStatuses : KsEvent(value) \in Messages
  /\ ExitEvent \in Messages
  /\ \A line \in Messages :
       /\ line.type = "response" =>
            line.id \in Ids /\ line.ok \in BOOLEAN /\ line.status \in KnownStatuses
       /\ line.type = "killSwitchState" => line.status \in KnownStatuses
<1>1. \A id \in Ids, ok \in BOOLEAN, value \in KnownStatuses : Reply(id, ok, value) \in Messages
  BY DEF Reply, Messages, ReplyLines
<1>2. \A value \in KnownStatuses : KsEvent(value) \in Messages
  BY DEF KsEvent, Messages, EventLines
<1>3. ExitEvent \in Messages /\ ExitEvent.type = "runtimeExited"
  BY DEF ExitEvent, Messages
<1>4. \A line \in ReplyLines :
        /\ line.type = "response"
        /\ line.id \in Ids /\ line.ok \in BOOLEAN /\ line.status \in KnownStatuses
  BY DEF ReplyLines
<1>5. \A line \in EventLines : line.type = "killSwitchState" /\ line.status \in KnownStatuses
  BY DEF EventLines
<1> QED BY <1>1, <1>2, <1>3, <1>4, <1>5 DEF Messages

\* Whatever the helper does with a request, it writes one reply, after at most one event,
\* and both tell the status that its kill switch has then.
LEMMA ServeAnswers ==
  ASSUME IpcTypeOK, Serve
  PROVE  /\ toHelper # <<>> /\ toHelper' = Tail(toHelper)
         /\ Head(toHelper) \in RequestLines
         /\ helper # "none" /\ UNCHANGED <<client, helper, installed, returned, informed>>
         /\ active' \in {"none", "client", "gone"} /\ ks' \in KnownStatuses /\ running' \in BOOLEAN
         /\ \E ok \in BOOLEAN, value \in KnownStatuses, events \in {<<>>, <<KsEvent(ks')>>} :
              /\ Answer(Head(toHelper), ok, value, events)
              /\ events = <<>> => ks' = ks
              /\ Head(toHelper).command # "killSwitchCheckSupport" => value = ks'
<1> DEFINE request == Head(toHelper)
<1>1. toHelper # <<>> /\ request \in RequestLines
  BY HeadTailProperties DEF Serve, IpcTypeOK
<1>2. /\ toHelper' = Tail(toHelper) /\ helper # "none"
      /\ UNCHANGED <<client, helper, installed, returned, informed>>
  BY DEF Serve
<1> DEFINE Answered ==
      /\ active' \in {"none", "client", "gone"} /\ ks' \in KnownStatuses /\ running' \in BOOLEAN
      /\ \E ok \in BOOLEAN, value \in KnownStatuses, events \in {<<>>, <<KsEvent(ks')>>} :
           /\ Answer(request, ok, value, events)
           /\ events = <<>> => ks' = ks
           /\ request.command # "killSwitchCheckSupport" => value = ks'
<1>3. ASSUME Refuse(request) PROVE Answered
  BY <1>3 DEF Refuse, IpcTypeOK
<1>4. ASSUME Handle(request) PROVE Answered
  <2>1. active' \in {"none", "client", "gone"}
    BY <1>4 DEF Handle
  <2>2. CASE Asks(request)
    BY <2>1, <2>2 DEF Asks, IpcTypeOK, KnownStatuses
  <2>3. CASE Enables(request)
    BY <2>1, <2>3 DEF Enables, IpcTypeOK, KnownStatuses
  <2>4. CASE Disables(request)
    BY <2>1, <2>4 DEF Disables, Off, IpcTypeOK, KnownStatuses
  <2>5. CASE Starts(request)
    BY <2>1, <2>5 DEF Starts, Off, IpcTypeOK, KnownStatuses
  <2>6. CASE Stops(request)
    BY <2>1, <2>6 DEF Stops, Off, IpcTypeOK, KnownStatuses
  <2> QED BY <1>4, <2>2, <2>3, <2>4, <2>5, <2>6 DEF Handle
<1>5. Answered
  BY <1>3, <1>4 DEF Serve
<1> QED BY <1>1, <1>2, <1>5

\* What serving a request does to the lines and to the answers.
LEMMA ServeWrites ==
  ASSUME IpcTypeOK, Serve
  PROVE  \E ok \in BOOLEAN, value \in KnownStatuses :
           LET request == Head(toHelper) IN
           /\ served' = [served EXCEPT ![request.id] = [ok |-> ok, status |-> value]]
           /\ toClient' \in Seq(Messages) /\ toClient' # <<>>
           /\ ~served[request.id].ok =>
                (Truthful(toClient, served) => Truthful(toClient', served'))
           /\ request.command # "killSwitchCheckSupport" =>
                /\ TellsLast(toClient, ks) => TellsLast(toClient', ks')
                /\ Untold(toClient') => Untold(toClient) /\ ks' = ks
<1> DEFINE request == Head(toHelper)
<1>1. /\ request \in RequestLines /\ request.id \in Ids /\ ks' \in KnownStatuses
      /\ toClient \in Seq(Messages)
      /\ served \in [Ids -> [ok : BOOLEAN, status : KnownStatuses \cup {"none"}]]
  BY ServeAnswers DEF RequestLines, IpcTypeOK
<1>2. PICK ok \in BOOLEAN, value \in KnownStatuses, events \in {<<>>, <<KsEvent(ks')>>} :
        /\ Answer(request, ok, value, events)
        /\ events = <<>> => ks' = ks
        /\ request.command # "killSwitchCheckSupport" => value = ks'
  BY ServeAnswers
<1> DEFINE reply == Reply(request.id, ok, value)
           told == toClient \o events
<1> HIDE DEF request
<1>3. /\ toClient' = told \o <<reply>>
      /\ served' = [served EXCEPT ![request.id] = [ok |-> ok, status |-> value]]
  BY <1>2 DEF Answer
<1>4. /\ reply \in Messages /\ reply.type = "response" /\ reply.id = request.id
      /\ reply.ok = ok /\ reply.status = value
  BY <1>1, LineKinds DEF Reply
<1>5. /\ KsEvent(ks') \in Messages /\ KsEvent(ks').type = "killSwitchState"
      /\ KsEvent(ks').status = ks'
  BY <1>1, LineKinds DEF KsEvent
<1>6. /\ told \in Seq(Messages)
      /\ Truthful(toClient, served') => Truthful(told, served')
      /\ TellsLast(toClient, ks) => TellsLast(told, ks')
      /\ Untold(told) => Untold(toClient) /\ ks' = ks
  <2>1. CASE events = <<>>
    BY <1>1, <1>2, <2>1, ConcatEmptySeq
  <2>2. CASE events = <<KsEvent(ks')>>
    BY <1>1, <1>5, <2>2, LineWritten
  <2> QED BY <1>2, <2>1, <2>2
<1> HIDE DEF reply, told
<1>7. /\ toClient' \in Seq(Messages) /\ toClient' # <<>>
      /\ Truthful(told, served') /\ (reply.ok => served'[request.id].ok)
           => Truthful(toClient', served')
      /\ TellsLast(told, ks') /\ value = ks' => TellsLast(toClient', ks')
      /\ Untold(toClient') => Untold(told)
  BY <1>3, <1>4, <1>6, LineWritten
<1>8. served'[request.id].ok = ok
  BY <1>1, <1>3
<1>9. ~served[request.id].ok /\ Truthful(toClient, served) => Truthful(toClient, served')
  <2> SUFFICES ASSUME ~served[request.id].ok, Truthful(toClient, served),
                      NEW i \in 1 .. Len(toClient),
                      toClient[i].type = "response", toClient[i].ok
               PROVE  served'[toClient[i].id].ok
    BY DEF Truthful
  <2>1. served[toClient[i].id].ok /\ toClient[i] \in Messages
    BY <1>1, ElementOfSeq DEF Truthful
  <2>2. toClient[i].id \in Ids /\ toClient[i].id # request.id
    BY <2>1, LineKinds
  <2> QED BY <1>1, <1>3, <2>1, <2>2
<1>10. ~served[request.id].ok => (Truthful(toClient, served) => Truthful(toClient', served'))
  BY <1>4, <1>6, <1>7, <1>8, <1>9
<1>11. request.command # "killSwitchCheckSupport" =>
         /\ TellsLast(toClient, ks) => TellsLast(toClient', ks')
         /\ Untold(toClient') => Untold(toClient) /\ ks' = ks
  BY <1>2, <1>6, <1>7
<1> QED BY <1>3, <1>7, <1>10, <1>11 DEF request

\* A request that is sent has an id that nobody used.
LEMMA RequestWritten ==
  ASSUME NEW requests \in Seq(RequestLines), NEW last \in Nat, NEW answers,
         NEW request \in RequestLines, request.id = last + 1,
         Unanswered(requests, answers), Given(requests, last), ~answers[last + 1].ok
  PROVE  /\ Unanswered(Append(requests, request), answers)
         /\ Given(Append(requests, request), last + 1)
<1> DEFINE more == Append(requests, request)
<1>1. /\ Len(requests) \in Nat /\ Len(more) = Len(requests) + 1
      /\ \A i \in 1 .. Len(requests) : more[i] = requests[i] /\ requests[i].id \in Nat
      /\ more[Len(requests) + 1] = request
  <2>1. \A i \in 1 .. Len(requests) : requests[i] \in RequestLines
    BY ElementOfSeq
  <2>2. \A line \in RequestLines : line.id \in Nat
    BY IpcAssumption DEF RequestLines, Ids
  <2> QED BY <2>1, <2>2, LenProperties, AppendProperties
<1> HIDE DEF more
<1>2. \A i \in 1 .. Len(more) : i = Len(more) \/ i \in 1 .. Len(requests)
  BY <1>1
<1>3. \A i \in 1 .. Len(requests) :
        ~answers[requests[i].id].ok /\ requests[i].id <= last /\ requests[i].id # last + 1
  BY <1>1 DEF Unanswered, Given
<1>4. more[Len(more)] = request
  BY <1>1
<1>5. \A i \in 1 .. Len(more) : ~answers[more[i].id].ok
  BY <1>1, <1>2, <1>3, <1>4
<1>6. \A i \in 1 .. Len(more) : more[i].id <= last + 1
  BY <1>1, <1>2, <1>3, <1>4
<1>7. ASSUME NEW i \in 1 .. Len(more), NEW j \in 1 .. Len(more), i # j
      PROVE  more[i].id # more[j].id
  <2>1. CASE i = Len(more)
    BY <1>1, <1>2, <1>3, <1>4, <1>7, <2>1
  <2>2. CASE j = Len(more)
    BY <1>1, <1>2, <1>3, <1>4, <1>7, <2>2
  <2>3. CASE i \in 1 .. Len(requests) /\ j \in 1 .. Len(requests)
    BY <1>1, <1>7, <2>3 DEF Unanswered
  <2> QED BY <1>2, <2>1, <2>2, <2>3
<1>8. Unanswered(more, answers) /\ Given(more, last + 1)
  BY <1>5, <1>6, <1>7 DEF Unanswered, Given
<1> QED BY <1>8 DEF more

\* A request that is read is the only one with its id.
LEMMA RequestRead ==
  ASSUME NEW requests \in Seq(RequestLines), requests # <<>>, NEW last \in Nat,
         NEW answers \in [Ids -> [ok : BOOLEAN, status : KnownStatuses \cup {"none"}]],
         NEW answer,
         Unanswered(requests, answers), Given(requests, last)
  PROVE  LET id == Head(requests).id IN
         /\ id \in Ids /\ id <= last /\ ~answers[id].ok
         /\ Unanswered(Tail(requests), [answers EXCEPT ![id] = answer])
         /\ Given(Tail(requests), last)
<1> DEFINE rest == Tail(requests)
           id == Head(requests).id
           later == [answers EXCEPT ![id] = answer]
<1>1. /\ Len(requests) \in Nat \ {0} /\ Head(requests) = requests[1]
      /\ Len(rest) = Len(requests) - 1
      /\ \A i \in 1 .. Len(rest) : rest[i] = requests[i + 1]
      /\ \A i \in 1 .. Len(requests) : requests[i].id \in Ids
  <2>1. \A i \in 1 .. Len(requests) : requests[i] \in RequestLines
    BY ElementOfSeq
  <2>2. \A line \in RequestLines : line.id \in Ids
    BY DEF RequestLines
  <2> QED BY <2>1, <2>2, HeadTailProperties, EmptySeq
<1>2. id \in Ids /\ id <= last /\ ~answers[id].ok
  BY <1>1 DEF Unanswered, Given
<1>3. \A i \in 1 .. Len(rest) :
        rest[i].id # id /\ rest[i].id \in Ids /\ later[rest[i].id] = answers[rest[i].id]
  BY <1>1 DEF Unanswered
<1>4. Given(rest, last)
  BY <1>1 DEF Given
<1> HIDE DEF later
<1>5. \A i \in 1 .. Len(rest) : i + 1 \in 1 .. Len(requests)
  BY <1>1
<1>6. Unanswered(rest, later)
  BY <1>1, <1>3, <1>5 DEF Unanswered
<1> QED BY <1>2, <1>4, <1>6 DEF later

-----------------------------------------------------------------------------
(* Types                                                                     *)

\* What a call that comes back leaves of the others.
LEMMA CallsLeft ==
  ASSUME NEW S, NEW waiting \in Seq(S), waiting # <<>>
  PROVE  /\ waiting[Len(waiting)] \in S
         /\ SubSeq(waiting, 1, Len(waiting) - 1) \in Seq(S)
<1>1. Len(waiting) \in Nat \ {0}
  BY EmptySeq
<1>2. \A i \in 1 .. Len(waiting) - 1 : waiting[i] \in S
  BY <1>1, ElementOfSeq
<1> QED BY <1>1, <1>2, ElementOfSeq, SubSeqProperties

LEMMA TypesStart == IpcInit => IpcTypeOK
<1> SUFFICES ASSUME IpcInit PROVE IpcTypeOK
  OBVIOUS
<1>1. MaxRequests \in Nat
  BY IpcAssumption
<1>2. /\ calls \in Seq([id : Ids, command : Commands]) /\ toHelper \in Seq(RequestLines)
      /\ toClient \in Seq(Messages)
  BY EmptySeq DEF IpcInit
<1>3. served \in [Ids -> [ok : BOOLEAN, status : KnownStatuses \cup {"none"}]]
  BY DEF IpcInit, NotServed
<1>4. returned \in [id : 0 .. MaxRequests, ok : BOOLEAN] /\ nextId \in 0 .. MaxRequests
  BY <1>1 DEF IpcInit
<1>5. helper \in Helpers /\ installed \in BOOLEAN /\ process \in BOOLEAN
  BY DEF IpcInit, Helpers, Kinds
<1> QED BY <1>2, <1>3, <1>4, <1>5 DEF IpcInit, IpcTypeOK, States, KnownStatuses, Tokens

\* A request that is sent keeps the types of what it changes.
LEMMA RequestTypes ==
  ASSUME IpcTypeOK, NEW command \in Commands, NEW auth \in Tokens, Requests(command, auth)
  PROVE  /\ nextId' \in 0 .. MaxRequests /\ nextId' \in Ids
         /\ calls' \in Seq([id : Ids, command : Commands])
         /\ toHelper' \in Seq(RequestLines)
<1>1. nextId' \in 0 .. MaxRequests /\ nextId' \in Ids
  BY IpcAssumption DEF IpcTypeOK, Requests, Ids
<1>2. /\ [id |-> nextId', command |-> command] \in [id : Ids, command : Commands]
      /\ [id |-> nextId', command |-> command, token |-> auth] \in RequestLines
  BY <1>1 DEF RequestLines
<1> QED BY <1>1, <1>2, AppendProperties DEF IpcTypeOK, Requests

LEMMA TypesStep == IpcTypeOK /\ [IpcNext]_ipcVars => IpcTypeOK'
<1> SUFFICES ASSUME IpcTypeOK, [IpcNext]_ipcVars PROVE IpcTypeOK'
  OBVIOUS
<1> USE DEF client, lines, helperVars, history
<1>0. /\ <<>> \in Seq(Messages) /\ <<>> \in Seq(RequestLines)
      /\ <<>> \in Seq([id : Ids, command : Commands])
      /\ "hello" \in Commands
  BY EmptySeq, IpcAssumption
<1>t. Token \in Tokens
  BY DEF IpcTypeOK, Token, Tokens, Kinds
<1>h. ASSUME toClient # <<>> PROVE Head(toClient) \in Messages /\ Tail(toClient) \in Seq(Messages)
  BY <1>h, HeadTailProperties DEF IpcTypeOK
<1>c. ASSUME toClient # <<>>, Handled(Head(toClient)) PROVE mirror' \in KnownStatuses /\ informed' \in BOOLEAN
  <2>1. Head(toClient).type = "killSwitchState" => Head(toClient).status \in KnownStatuses
    BY <1>c, <1>h, LineKinds
  <2>2. mirror \in KnownStatuses /\ informed \in BOOLEAN
    BY DEF IpcTypeOK
  <2> QED BY <1>c, <2>1, <2>2 DEF Handled
<1>r. ASSUME calls # <<>>, NEW ok \in BOOLEAN, Returns(ok)
      PROVE  /\ calls' \in Seq([id : Ids, command : Commands])
             /\ returned' \in [id : 0 .. MaxRequests, ok : BOOLEAN]
             /\ state' \in States
  <2>1. Top \in [id : Ids, command : Commands] /\ Popped \in Seq([id : Ids, command : Commands])
    BY <1>r, CallsLeft DEF IpcTypeOK, Top, Popped
  <2>2. Top.id \in 0 .. MaxRequests
    BY <2>1 DEF Ids
  <2> QED BY <1>r, <2>1, <2>2 DEF Returns, IpcTypeOK, States
<1>f. ASSUME StartsChild \/ FindsHelper \/ UNCHANGED <<process, helperVars>>
      PROVE  /\ helper' \in Helpers /\ active' \in {"none", "client", "gone"}
             /\ ks' \in KnownStatuses /\ running' \in BOOLEAN /\ process' \in BOOLEAN
  <2>1. CASE StartsChild
    BY <2>1 DEF StartsChild, IpcTypeOK, KnownStatuses, Helpers, Kinds
  <2>2. CASE FindsHelper
    <3>1. process' \in BOOLEAN
      BY <2>2 DEF FindsHelper, IpcTypeOK
    <3> QED BY <2>2, <3>1 DEF FindsHelper, IpcTypeOK
  <2>3. CASE UNCHANGED <<process, helperVars>>
    BY <2>3 DEF IpcTypeOK
  <2> QED BY <1>f, <2>1, <2>2, <2>3
<1>1. CASE Send
  <2>1. PICK command \in Commands : Requests(command, token)
    BY <1>1 DEF Send
  <2>2. token \in Tokens
    BY DEF IpcTypeOK
  <2> QED BY <1>1, <2>1, <2>2, RequestTypes DEF Send, IpcTypeOK
<1>2. CASE ConnectHelper
  <2>1. Requests("hello", Token)
    BY <1>2 DEF ConnectHelper
  <2>2. /\ nextId' \in 0 .. MaxRequests /\ calls' \in Seq([id : Ids, command : Commands])
        /\ toHelper' \in Seq(RequestLines)
    BY <1>0, <1>t, <2>1, RequestTypes
  <2>3. StartsChild \/ FindsHelper
    BY <1>2 DEF ConnectHelper
  <2> QED BY <1>0, <1>t, <1>2, <1>f, <2>2, <2>3 DEF ConnectHelper, IpcTypeOK
<1>3. CASE ConnectAgain
  <2>1. Requests("hello", Token)
    BY <1>3 DEF ConnectAgain
  <2>2. process' \in BOOLEAN
    BY <1>3 DEF ConnectAgain, IpcTypeOK
  <2> QED BY <1>0, <1>t, <1>3, <2>1, <2>2, RequestTypes DEF ConnectAgain, IpcTypeOK
<1>4. CASE ConnectFails
  <2>1. StartsChild \/ UNCHANGED <<process, helperVars>>
    BY <1>4 DEF ConnectFails, NobodyAnswers, CannotStartChild
  <2> QED BY <1>t, <1>4, <1>f, <2>1 DEF ConnectFails, IpcTypeOK, States
<1>5. CASE ReadReply
  <2>1. /\ Head(toClient) \in Messages /\ Head(toClient).type = "response"
        /\ Tail(toClient) \in Seq(Messages)
    BY <1>h, <1>5 DEF ReadReply, TakesReply
  <2>2. Head(toClient).ok \in BOOLEAN /\ Head(toClient).status \in KnownStatuses
    BY <2>1, LineKinds
  <2> QED BY <1>r, <1>5, <2>1, <2>2 DEF ReadReply, IpcTypeOK
<1>6. CASE ReadOther
  BY <1>h, <1>c, <1>6 DEF ReadOther, IpcTypeOK
<1>7. CASE SlotReads
  BY <1>h, <1>c, <1>7 DEF SlotReads, IpcTypeOK
<1>8. CASE TimesOut
  BY <1>r, <1>8 DEF TimesOut, IpcTypeOK
<1>9. CASE Serve
  <2>1. toHelper' \in Seq(RequestLines) /\ Head(toHelper).id \in Ids
    <3>1. /\ toHelper # <<>> /\ toHelper' = Tail(toHelper)
          /\ Head(toHelper) \in RequestLines
      BY <1>9, ServeAnswers
    <3>2. toHelper \in Seq(RequestLines)
      BY DEF IpcTypeOK
    <3> QED BY <3>1, <3>2, HeadTailProperties DEF RequestLines
  <2>2. toClient' \in Seq(Messages)
    BY <1>9, ServeWrites
  <2>3. served' \in [Ids -> [ok : BOOLEAN, status : KnownStatuses \cup {"none"}]]
    <3>1. PICK ok \in BOOLEAN, value \in KnownStatuses :
            served' = [served EXCEPT ![Head(toHelper).id] = [ok |-> ok, status |-> value]]
      BY <1>9, ServeWrites
    <3>2. [ok |-> ok, status |-> value] \in [ok : BOOLEAN, status : KnownStatuses \cup {"none"}]
      OBVIOUS
    <3> QED BY <2>1, <3>1, <3>2 DEF IpcTypeOK
  <2> QED BY <1>9, <2>1, <2>2, <2>3, ServeAnswers DEF IpcTypeOK
<1>10. CASE RuntimeExits
  <2>1. toClient' \in Seq(Messages)
    <3>1. ks \in KnownStatuses /\ toClient \in Seq(Messages)
      BY DEF IpcTypeOK
    <3>2. toClient \o <<ExitEvent>> \in Seq(Messages)
      BY <3>1, LineKinds, LineWritten
    <3>3. /\ (toClient \o <<ExitEvent>>) \o <<KsEvent(ks)>> \in Seq(Messages)
          /\ (toClient \o <<ExitEvent>>) \o <<>> = toClient \o <<ExitEvent>>
      BY <3>1, <3>2, LineKinds, LineWritten, ConcatEmptySeq
    <3> QED BY <1>10, <3>1, <3>2, <3>3 DEF RuntimeExits
  <2> QED BY <1>10, <2>1 DEF RuntimeExits, IpcTypeOK
<1>g. ASSUME HelperLost, state' \in States, toClient' \in Seq(Messages), process' \in BOOLEAN
      PROVE  IpcTypeOK'
  BY <1>0, <1>g DEF HelperLost, IpcTypeOK, KnownStatuses, Helpers
<1>11. CASE ChildDies
  BY <1>0, <1>g, <1>11 DEF ChildDies, States
<1>12. CASE UnwatchedDies
  BY <1>g, <1>12 DEF UnwatchedDies, IpcTypeOK
<1>13. CASE StaleClientUsed
  BY <1>g, <1>13 DEF StaleClientUsed, IpcTypeOK
<1>14. CASE InstallService
  BY <1>14 DEF InstallService, IpcTypeOK
<1>15. CASE UninstallService
  <2>1. installed' \in BOOLEAN
    BY <1>15 DEF UninstallService, ScOutcomes
  <2>2. /\ helper' \in Helpers /\ active' \in {"none", "client", "gone"}
        /\ ks' \in KnownStatuses /\ running' \in BOOLEAN /\ link' \in BOOLEAN
        /\ toHelper' \in Seq(RequestLines)
    BY <1>0, <1>15 DEF UninstallService, IpcTypeOK, Helpers, KnownStatuses
  <2> QED BY <1>15, <2>1, <2>2 DEF UninstallService, IpcTypeOK
<1>16. CASE StartService
  BY <1>16 DEF StartService, IpcTypeOK, Helpers, Kinds, KnownStatuses
<1>17. CASE StopService
  BY <1>g, <1>17 DEF StopService, IpcTypeOK
<1>18. CASE KillApplication
  <2>1. /\ helper' \in Helpers /\ active' \in {"none", "client", "gone"}
        /\ ks' \in KnownStatuses /\ running' \in BOOLEAN
    BY <1>18 DEF KillApplication, IpcTypeOK, Helpers, KnownStatuses
  <2> QED BY <1>0, <1>18, <2>1 DEF KillApplication, IpcTypeOK, Tokens, KnownStatuses, States
<1>19. CASE SpareChildDies
  BY <1>0, <1>19 DEF SpareChildDies, IpcTypeOK, States
<1>20. CASE UNCHANGED ipcVars
  BY <1>20 DEF ipcVars, IpcTypeOK
<1> QED BY <1>1, <1>2, <1>3, <1>4, <1>5, <1>6, <1>7, <1>8, <1>9, <1>10, <1>11, <1>12, <1>13,
           <1>14, <1>15, <1>16, <1>17, <1>18, <1>19, <1>20 DEF IpcNext

-----------------------------------------------------------------------------
(* Answers                                                                   *)

LEMMA AnswerStart == IpcInit => AnswerInv
<1> SUFFICES ASSUME IpcInit PROVE AnswerInv
  OBVIOUS
<1>1. toHelper = <<>> /\ toClient = <<>> /\ ~returned.ok
  BY DEF IpcInit
<1>2. \A id \in Ids : ~served[id].ok
  BY DEF IpcInit, NotServed
<1>3. Unanswered(toHelper, served) /\ Given(toHelper, nextId) /\ Truthful(toClient, served)
  BY <1>1, EmptySeq DEF Unanswered, Given, Truthful
<1> QED BY <1>1, <1>2, <1>3 DEF AnswerInv

\* A request that is sent is new to the helper.
LEMMA SentIsNew ==
  ASSUME IpcTypeOK, AnswerInv, NEW command \in Commands, NEW auth \in Tokens,
         Requests(command, auth)
  PROVE  /\ Unanswered(toHelper', served) /\ Given(toHelper', nextId')
         /\ \A id \in Ids : id > nextId' => ~served[id].ok
<1>1. /\ nextId \in Nat /\ nextId' = nextId + 1 /\ nextId' \in Ids
      /\ [id |-> nextId', command |-> command, token |-> auth] \in RequestLines
  BY IpcAssumption DEF IpcTypeOK, Requests, Ids, RequestLines
<1>2. ~served[nextId + 1].ok
  BY <1>1 DEF AnswerInv
<1>3. Unanswered(toHelper, served) /\ Given(toHelper, nextId) /\ toHelper \in Seq(RequestLines)
  BY DEF AnswerInv, IpcTypeOK
<1>4. toHelper' = Append(toHelper, [id |-> nextId', command |-> command, token |-> auth])
  BY DEF Requests
<1>5. Unanswered(toHelper', served) /\ Given(toHelper', nextId')
  BY <1>1, <1>2, <1>3, <1>4, RequestWritten
<1>6. \A id \in Ids : id > nextId' => ~served[id].ok
  BY <1>1, IpcAssumption DEF AnswerInv, Ids
<1> QED BY <1>5, <1>6

LEMMA AnswerStep == IpcTypeOK /\ AnswerInv /\ [IpcNext]_ipcVars => AnswerInv'
<1> SUFFICES ASSUME IpcTypeOK, AnswerInv, [IpcNext]_ipcVars PROVE AnswerInv'
  OBVIOUS
<1> USE DEF client, lines, helperVars, history
<1>0. /\ Truthful(<<>>, served) /\ Unanswered(<<>>, served) /\ Given(<<>>, nextId)
      /\ \A last : Given(<<>>, last)
  BY EmptySeq DEF Truthful, Unanswered, Given
<1>s. ASSUME NEW command \in Commands, NEW auth \in Tokens, Requests(command, auth),
             UNCHANGED <<served, returned>>, toClient' \in {toClient, <<>>}
      PROVE  AnswerInv'
  BY <1>0, <1>s, SentIsNew DEF AnswerInv
<1>t. Token \in Tokens /\ token \in Tokens /\ "hello" \in Commands
  BY IpcAssumption DEF IpcTypeOK, Token, Tokens, Kinds
<1>h. ASSUME toClient # <<>> PROVE Truthful(Tail(toClient), served)
  BY <1>h, LineRead DEF AnswerInv, IpcTypeOK
<1>1. CASE Send
  BY <1>s, <1>t, <1>1 DEF Send
<1>2. CASE ConnectHelper
  BY <1>s, <1>t, <1>2 DEF ConnectHelper
<1>3. CASE ConnectAgain
  BY <1>s, <1>t, <1>3 DEF ConnectAgain
<1>4. CASE ReadReply
  <2> DEFINE message == Head(toClient)
  <2>1. /\ toClient # <<>> /\ message.type = "response" /\ message.id = Top.id
        /\ returned' = [id |-> Top.id, ok |-> message.ok]
        /\ toClient' = Tail(toClient)
        /\ UNCHANGED <<nextId, toHelper, served>>
    BY <1>4 DEF ReadReply, TakesReply, Returns
  <2>2. message \in Messages /\ message = toClient[1] /\ 1 \in 1 .. Len(toClient)
    BY <2>1, LineRead, EmptySeq DEF IpcTypeOK
  <2>3. message.ok => message.id \in Ids /\ served[message.id].ok
    BY <2>1, <2>2, LineKinds DEF AnswerInv, Truthful
  <2> QED BY <1>h, <2>1, <2>3 DEF AnswerInv
<1>5. CASE ReadOther
  BY <1>h, <1>5 DEF ReadOther, AnswerInv
<1>6. CASE SlotReads
  BY <1>h, <1>6 DEF SlotReads, AnswerInv
<1>7. CASE TimesOut
  BY <1>7 DEF TimesOut, Returns, AnswerInv
<1>8. CASE Serve
  <2> DEFINE id == Head(toHelper).id
  <2>1. /\ toHelper # <<>> /\ toHelper' = Tail(toHelper)
        /\ UNCHANGED <<nextId, returned>>
    BY <1>8, ServeAnswers
  <2>2. PICK ok \in BOOLEAN, value \in KnownStatuses :
          /\ served' = [served EXCEPT ![id] = [ok |-> ok, status |-> value]]
          /\ ~served[id].ok => (Truthful(toClient, served) => Truthful(toClient', served'))
    BY <1>8, ServeWrites
  <2>3. /\ nextId \in Nat /\ toHelper \in Seq(RequestLines)
        /\ served \in [Ids -> [ok : BOOLEAN, status : KnownStatuses \cup {"none"}]]
    BY DEF IpcTypeOK
  <2>4. /\ id \in Ids /\ id <= nextId /\ ~served[id].ok
        /\ Unanswered(toHelper', served') /\ Given(toHelper', nextId)
    BY <2>1, <2>2, <2>3, RequestRead DEF AnswerInv
  <2>5. \A other \in Ids : other # id => served'[other] = served[other]
    BY <2>2, <2>3
  <2>6. \A other \in Ids : other > nextId => other # id
    BY <2>3, <2>4, IpcAssumption DEF Ids
  <2> HIDE DEF id
  <2> QED BY <2>1, <2>2, <2>4, <2>5, <2>6 DEF AnswerInv
<1>9. CASE RuntimeExits
  <2>1. ks \in KnownStatuses /\ toClient \in Seq(Messages) /\ Truthful(toClient, served)
    BY DEF IpcTypeOK, AnswerInv
  <2>2. ExitEvent.type # "response" /\ KsEvent(ks).type # "response"
    BY DEF ExitEvent, KsEvent
  <2>3. /\ toClient \o <<ExitEvent>> \in Seq(Messages)
        /\ Truthful(toClient \o <<ExitEvent>>, served)
    BY <2>1, <2>2, LineKinds, LineWritten
  <2>4. /\ Truthful((toClient \o <<ExitEvent>>) \o <<KsEvent(ks)>>, served)
        /\ (toClient \o <<ExitEvent>>) \o <<>> = toClient \o <<ExitEvent>>
    BY <2>1, <2>2, <2>3, LineKinds, LineWritten, ConcatEmptySeq
  <2>5. Truthful(toClient', served)
    BY <1>9, <2>1, <2>3, <2>4 DEF RuntimeExits
  <2> QED BY <1>9, <2>5 DEF RuntimeExits, AnswerInv
<1>10. CASE ChildDies \/ SpareChildDies \/ UnwatchedDies \/ StaleClientUsed \/ StopService
  BY <1>0, <1>10 DEF ChildDies, SpareChildDies, UnwatchedDies, StaleClientUsed, StopService,
                     HelperLost, AnswerInv
<1>11. CASE UninstallService
  BY <1>0, <1>11 DEF UninstallService, AnswerInv
<1>12. CASE KillApplication
  BY <1>0, <1>12 DEF KillApplication, AnswerInv
<1>13. CASE ConnectFails \/ InstallService \/ StartService \/ UNCHANGED ipcVars
  BY <1>13 DEF ConnectFails, InstallService, StartService, ipcVars, AnswerInv
<1> QED BY <1>1, <1>2, <1>3, <1>4, <1>5, <1>6, <1>7, <1>8, <1>9, <1>10, <1>11, <1>12,
           <1>13 DEF IpcNext

-----------------------------------------------------------------------------
(* The mirror                                                                *)

LEMMA MirrorStart == IpcInit => MirrorInv
  BY DEF IpcInit, MirrorInv

\* Reading a line that is no reply to the innermost call, or one that nobody waits for.
LEMMA EventRead ==
  ASSUME IpcTypeOK, MirrorInv, toClient # <<>>, Handled(Head(toClient)),
         toClient' = Tail(toClient), UNCHANGED <<link, helper, ks>>
  PROVE  MirrorInv'
<1> DEFINE message == Head(toClient)
<1>1. /\ message.type # "killSwitchState" /\ Untold(toClient') => Untold(toClient)
      /\ TellsLast(toClient, ks) => TellsLast(toClient', ks)
      /\ TellsLast(toClient, ks) /\ Untold(toClient') /\ message.type # "runtimeExited"
           => message.status = ks
  BY LineRead DEF IpcTypeOK
<1> HIDE DEF message
<1>2. CASE message.type = "killSwitchState"
  <2>1. mirror' = message.status
    BY <1>2 DEF Handled, message
  <2> QED BY <1>1, <1>2, <2>1 DEF MirrorInv
<1>3. CASE message.type # "killSwitchState"
  <2>1. UNCHANGED <<mirror, informed>>
    BY <1>3 DEF Handled, message
  <2> QED BY <1>1, <1>3, <2>1 DEF MirrorInv
<1> QED BY <1>2, <1>3

LEMMA MirrorStep ==
  ASSUME "killSwitchCheckSupport" \notin Commands
  PROVE  IpcTypeOK /\ MirrorInv /\ [IpcNext]_ipcVars => MirrorInv'
<1> SUFFICES ASSUME IpcTypeOK, MirrorInv, [IpcNext]_ipcVars PROVE MirrorInv'
  OBVIOUS
<1> USE DEF client, lines, helperVars, history
<1>0. TellsLast(<<>>, ks') /\ Untold(<<>>)
  BY EmptySeq DEF TellsLast, Untold
<1>1. CASE Send
  BY <1>1 DEF Send, MirrorInv
<1>2. CASE ConnectHelper
  <2>1. helper' # "none"
    BY <1>2 DEF ConnectHelper, StartsChild, FindsHelper, Answers
  <2> QED BY <1>0, <1>2, <2>1 DEF ConnectHelper, MirrorInv
<1>3. CASE ConnectAgain
  BY <1>3 DEF ConnectAgain, MirrorInv
<1>4. CASE ReadReply
  <2> DEFINE message == Head(toClient)
  <2>1. /\ toClient # <<>> /\ message.type = "response" /\ toClient' = Tail(toClient)
        /\ \/ mirror' = message.status
           \/ UNCHANGED <<mirror, informed>>
        /\ UNCHANGED <<link, helper, ks>>
    BY <1>4 DEF ReadReply, TakesReply
  <2>2. /\ Untold(toClient') => Untold(toClient)
        /\ TellsLast(toClient, ks) => TellsLast(toClient', ks)
        /\ TellsLast(toClient, ks) /\ Untold(toClient') => message.status = ks
    BY <2>1, LineRead DEF IpcTypeOK
  <2> HIDE DEF message
  <2> QED BY <2>1, <2>2 DEF MirrorInv
<1>5. CASE ReadOther
  BY <1>5, EventRead DEF ReadOther
<1>6. CASE SlotReads
  BY <1>6, EventRead DEF SlotReads
<1>7. CASE TimesOut
  BY <1>7 DEF TimesOut, MirrorInv
<1>8. CASE Serve
  <2>1. /\ Head(toHelper).command # "killSwitchCheckSupport"
        /\ UNCHANGED <<link, mirror, helper, informed>>
    BY <1>8, ServeAnswers DEF RequestLines
  <2>2. /\ TellsLast(toClient, ks) => TellsLast(toClient', ks')
        /\ Untold(toClient') => Untold(toClient) /\ ks' = ks
    BY <1>8, <2>1, ServeWrites
  <2> QED BY <2>1, <2>2 DEF MirrorInv
<1>9. CASE RuntimeExits
  <2>1. ks \in KnownStatuses /\ toClient \in Seq(Messages)
    BY DEF IpcTypeOK
  <2>2. ExitEvent.type = "runtimeExited" /\ KsEvent(ks).status = ks
    BY DEF ExitEvent, KsEvent
  <2>3. /\ toClient \o <<ExitEvent>> \in Seq(Messages)
        /\ TellsLast(toClient, ks) => TellsLast(toClient \o <<ExitEvent>>, ks)
        /\ Untold(toClient \o <<ExitEvent>>) => Untold(toClient)
    BY <2>1, <2>2, LineKinds, LineWritten
  <2>4. /\ TellsLast(toClient \o <<ExitEvent>>, ks)
             => TellsLast((toClient \o <<ExitEvent>>) \o <<KsEvent(ks)>>, ks)
        /\ Untold((toClient \o <<ExitEvent>>) \o <<KsEvent(ks)>>)
             => Untold(toClient \o <<ExitEvent>>)
        /\ (toClient \o <<ExitEvent>>) \o <<>> = toClient \o <<ExitEvent>>
    BY <2>1, <2>2, <2>3, LineKinds, LineWritten, ConcatEmptySeq
  <2>5. /\ TellsLast(toClient, ks) => TellsLast(toClient', ks)
        /\ Untold(toClient') => Untold(toClient)
    BY <1>9, <2>1, <2>3, <2>4 DEF RuntimeExits
  <2> QED BY <1>9, <2>5 DEF RuntimeExits, MirrorInv
<1>10. CASE ChildDies \/ SpareChildDies \/ UnwatchedDies \/ StaleClientUsed \/ StopService
  BY <1>10 DEF ChildDies, SpareChildDies, UnwatchedDies, StaleClientUsed, StopService,
               HelperLost, MirrorInv
<1>11. CASE UninstallService
  BY <1>11 DEF UninstallService, MirrorInv
<1>12. CASE StartService
  BY <1>12 DEF StartService, MirrorInv
<1>13. CASE KillApplication
  BY <1>13 DEF KillApplication, MirrorInv
<1>14. CASE ConnectFails
  <2>1. UNCHANGED <<link, mirror, toClient, informed>>
    BY <1>14 DEF ConnectFails
  <2>2. (StartsChild /\ ~link) \/ UNCHANGED helperVars
    BY <1>14 DEF ConnectFails, NobodyAnswers, CannotStartChild
  <2> QED BY <2>1, <2>2 DEF MirrorInv
<1>15. CASE InstallService \/ UNCHANGED ipcVars
  BY <1>15 DEF InstallService, ipcVars, MirrorInv
<1> QED BY <1>1, <1>2, <1>3, <1>4, <1>5, <1>6, <1>7, <1>8, <1>9, <1>10, <1>11, <1>12,
           <1>13, <1>14, <1>15 DEF IpcNext

-----------------------------------------------------------------------------
(* Theorems                                                                  *)

\* The variables of the conversation keep their types, through lost connections, late
\* replies and restarts of either side.
THEOREM IpcTypeCorrect == IpcSpec => []IpcTypeOK
  BY TypesStart, TypesStep, PTL DEF IpcSpec

\* A call of sendRequest succeeds only with the answer that the helper gave to that very
\* request (IpcClient::sendRequest): AnswerInv says that an id is answered once, and that
\* no reply on its way claims more than was answered.
THEOREM AnswersAreOwn == IpcSpec => []AnswerIsOwn
<1>1. AnswerInv => AnswerIsOwn
  BY DEF AnswerInv, AnswerIsOwn
<1> QED BY <1>1, TypesStart, TypesStep, AnswerStart, AnswerStep, PTL DEF IpcSpec

\* With every line read, the application believes of the kill switch what the helper does
\* (HelperProcessManager::updateKillSwitchState).  The answer to killSwitchCheckSupport is
\* excluded: the code takes it for a status though it is none.
THEOREM MirrorAlwaysFollows ==
  ASSUME "killSwitchCheckSupport" \notin Commands
  PROVE  IpcSpec => []MirrorFollows
<1>1. MirrorInv => MirrorFollows
  BY EmptySeq DEF MirrorInv, MirrorFollows, Untold
<1>2. IpcTypeOK /\ MirrorInv /\ [IpcNext]_ipcVars => MirrorInv'
  BY MirrorStep
<1> QED BY <1>1, <1>2, TypesStart, TypesStep, MirrorStart, PTL DEF IpcSpec

=============================================================================
