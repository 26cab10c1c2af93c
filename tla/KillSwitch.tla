----------------------------- MODULE KillSwitch -----------------------------
(* The kill switch of zarya-helper: the manager with its platform backend    *)
(* (killswitch/KillSwitchManager.cpp, linux/LinuxNftKillSwitchManager.cpp,   *)
(* windows/WindowsWfpKillSwitchManager.cpp) and the recovery marker          *)
(* (killswitch/KillSwitchMarker.cpp).  The rules live in the kernel and the  *)
(* marker on disk: both outlive the helper, the manager's status does not.   *)
(* The GUI's start-up recovery and the helper's --recover-killswitch run a   *)
(* manager of their own on the same rules and the same marker.               *)

CONSTANTS Servers,     \* proxy servers whose addresses the rules let through
          NoRules,     \* stands for "no Zarya rules in force"
          KsBackends,  \* the backends considered, a subset of AllKsBackends
          KsFaults     \* which failures may happen, see KsFaultKinds

\* macOS and the stub backend refuse every enable.
AllKsBackends == {"nft", "wfp"}

\* "enable", "disable": the backend refuses and nothing changes.  "address": no address
\* of the server is one that the backend can let through.  "enableLate",
\* "disableLate": nft does its work, yet later than the 15 s that runNft waits.
\* "write", "unlink": the marker cannot be written, removed.  "kill": a kill between
\* the rules and the marker of an enable.  "outside": a recovery elsewhere while a
\* helper runs.
KsFaultKinds ==
  {"enable", "disable", "address", "enableLate", "disableLate", "write", "unlink", "kill",
   "outside"}

ASSUME KsRulesAssumption == NoRules \notin Servers
ASSUME KsBackendsAssumption == KsBackends \subseteq AllKsBackends
ASSUME KsFaultsAssumption == KsFaults \subseteq KsFaultKinds

VARIABLES ksBackend,  \* the platform's backend, fixed
          rules,      \* the server the rules in force let through, or NoRules
          marker,     \* killswitch-active.json exists
          status,     \* m_state.status of the helper's manager
          selected,   \* history: the server of the last enable that succeeded
          cutOff,     \* history: the rules were left by an enable that did not get to
                      \* its marker
          helperUp    \* a helper process runs

ksVars == <<ksBackend, rules, marker, status, selected, cutOff, helperUp>>

Statuses == {"disabled", "enabled", "failed", "unsupported", "needsRecovery"}

KsTypeOK ==
  /\ ksBackend \in KsBackends
  /\ rules \in Servers \cup {NoRules}
  /\ marker \in BOOLEAN
  /\ status \in Statuses
  /\ selected \in Servers \cup {NoRules}
  /\ cutOff \in BOOLEAN
  /\ helperUp \in BOOLEAN

KsInit ==
  /\ ksBackend \in KsBackends
  /\ rules = NoRules
  /\ marker = FALSE
  /\ status = "disabled"
  /\ selected = NoRules
  /\ cutOff = FALSE
  /\ helperUp = FALSE

\* The history of a step: rules that it leaves without a marker are remembered if an
\* enable installed them in it, and were remembered before otherwise.
Remembers(installed) ==
  cutOff' = (rules' # NoRules /\ ~marker' /\ (installed \/ cutOff))

-----------------------------------------------------------------------------
(* The backends                                                              *)

\* nft -f adds to the table that is there, behind its final reject, so the rules
\* that came first decide.
NftInForce(server) == IF rules = NoRules THEN server ELSE rules

\* One transaction deletes Zarya's filters, and adds those that let the server through
\* and the ones that block the rest.
WfpInForce(server) == server

InForce(server) == IF ksBackend = "nft" THEN NftInForce(server) ELSE WfpInForce(server)

\* Addresses that are none are skipped, and a rule set that has none left is refused.
NoAddressLeft == "address" \in KsFaults /\ UNCHANGED rules

\* runNft waits for 15 s; nft may be done later.
NftFails(server) ==
  \/ "enable" \in KsFaults /\ UNCHANGED rules
  \/ "enableLate" \in KsFaults /\ rules' = NftInForce(server)

\* The transaction is aborted, by the session's end at the latest.
WfpFails == "enable" \in KsFaults /\ UNCHANGED rules

BackendFails(server) ==
  \/ NoAddressLeft
  \/ IF ksBackend = "nft" THEN NftFails(server) ELSE WfpFails

\* A table that is not there is a success.
NftDeletes(ok) ==
  \/ ok /\ rules' = NoRules
  \/ ~ok /\ "disable" \in KsFaults /\ UNCHANGED rules
  \/ ~ok /\ "disableLate" \in KsFaults /\ rules' = NoRules

\* All keys that Zarya ever uses are deleted, in a transaction.
WfpDeletes(ok) ==
  \/ ok /\ rules' = NoRules
  \/ ~ok /\ "disable" \in KsFaults /\ UNCHANGED rules

BackendDisables(ok) == IF ksBackend = "nft" THEN NftDeletes(ok) ELSE WfpDeletes(ok)

-----------------------------------------------------------------------------
(* KillSwitchManager                                                         *)

EnableUnsupported ==
  /\ status' = "unsupported"
  /\ UNCHANGED <<rules, marker, selected, cutOff>>

EnableFails(server) ==
  /\ BackendFails(server)
  /\ status' = "failed"
  /\ UNCHANGED <<marker, selected>>
  /\ Remembers(rules' # rules)

\* The rules are taken back when the marker cannot be written; the result of that
\* is ignored.
EnableUnmarked(server) ==
  /\ "write" \in KsFaults
  /\ rules' \in {NoRules} \cup (IF "disable" \in KsFaults THEN {InForce(server)} ELSE {})
  /\ status' = "failed"
  /\ UNCHANGED <<marker, selected>>
  /\ Remembers(TRUE)

EnableSucceeds(server) ==
  /\ rules' = InForce(server)
  /\ marker' = TRUE
  /\ status' = "enabled"
  /\ selected' = server
  /\ Remembers(FALSE)

Enable(server, ok) ==
  /\ \/ ok /\ EnableSucceeds(server)
     \/ ~ok /\ (EnableUnsupported \/ EnableFails(server) \/ EnableUnmarked(server))
  /\ UNCHANGED <<ksBackend, helperUp>>

\* Mutant of Uninstalled: the marker goes first, whatever becomes of the rules.
UnmarksFirst(ok) ==
  /\ IF marker THEN BackendDisables(ok) ELSE ok /\ UNCHANGED rules
  /\ marker' = FALSE
  /\ Remembers(FALSE)

\* What disable does to the rules and the marker.  Only the marker says that there is
\* something to do: the status reads Disabling by the time it is compared with
\* Enabled.  A marker that cannot be removed is no failure.
Uninstalled(ok) ==
  /\ IF marker THEN BackendDisables(ok) ELSE ok /\ UNCHANGED rules
  /\ IF ok
     THEN marker' \in {FALSE} \cup (IF "unlink" \in KsFaults THEN {marker} ELSE {})
     ELSE UNCHANGED marker
  /\ Remembers(FALSE)

Disable(ok) ==
  /\ Uninstalled(ok)
  /\ status' = IF ok THEN "disabled" ELSE "failed"
  /\ UNCHANGED <<ksBackend, selected, helperUp>>

\* refreshStartupState.
HelperStarts ==
  /\ ~helperUp
  /\ helperUp' = TRUE
  /\ status' = IF marker THEN "needsRecovery" ELSE "disabled"
  /\ UNCHANGED <<ksBackend, rules, marker, selected, cutOff>>

\* A helper that ends takes the manager with it.
HelperEnds ==
  /\ helperUp' = FALSE
  /\ status' = "disabled"

HelperKilled ==
  /\ helperUp
  /\ HelperEnds
  /\ UNCHANGED <<ksBackend, rules, marker, selected, cutOff>>

\* HelperCommandServer::shutdown ignores the result of the disable.
HelperShutsDown ==
  /\ helperUp
  /\ \E ok \in BOOLEAN : Uninstalled(ok)
  /\ HelperEnds
  /\ UNCHANGED <<ksBackend, selected>>

KilledInEnable(server) ==
  /\ "kill" \in KsFaults
  /\ helperUp
  /\ rules' = InForce(server)
  /\ HelperEnds
  /\ UNCHANGED <<ksBackend, marker, selected>>
  /\ Remembers(TRUE)

\* Killed between the rules and the marker of a disable.
KilledInDisable ==
  /\ helperUp
  /\ marker
  /\ rules' = NoRules
  /\ HelperEnds
  /\ UNCHANGED <<ksBackend, marker, selected>>
  /\ Remembers(FALSE)

\* recover in another process, which has a status of its own.
RecoverElsewhere ==
  /\ ~helperUp \/ "outside" \in KsFaults
  /\ marker
  /\ \E ok \in BOOLEAN : Uninstalled(ok)
  /\ UNCHANGED <<ksBackend, status, selected, helperUp>>

\* Neither backend's rules outlive a restart of the system; the file does.
Reboot ==
  /\ rules' = NoRules
  /\ HelperEnds
  /\ UNCHANGED <<ksBackend, marker, selected>>
  /\ Remembers(FALSE)

KsNext ==
  \/ \E server \in Servers, ok \in BOOLEAN : helperUp /\ Enable(server, ok)
  \/ \E ok \in BOOLEAN : helperUp /\ Disable(ok)
  \/ HelperStarts
  \/ HelperKilled
  \/ HelperShutsDown
  \/ \E server \in Servers : KilledInEnable(server)
  \/ KilledInDisable
  \/ RecoverElsewhere
  \/ Reboot

KillSwitchSpec == KsInit /\ [][KsNext]_ksVars

-----------------------------------------------------------------------------
(* Properties                                                                *)

\* A block is never without the marker that start-up recovery, the helper and "Disable
\* Now" go by, unless an enable left it so: no disable, shutdown, recovery, kill or
\* restart takes the marker of a block away (KillSwitchManager, KillSwitchMarker).
BlockedIsMarked == rules # NoRules => marker \/ cutOff

\* A helper that reports Enabled has rules in force and the marker written, through
\* failed enables and disables (KillSwitchManager's m_state).
EnabledIsInForce == status = "enabled" => rules # NoRules /\ marker

\* The helper, or the next one, knows of every marked block: a status of Disabled means
\* that the rules are gone already, or that an enable left them without a marker
\* (refreshStartupState, disable).
DisabledIsOpen == helperUp /\ status = "disabled" => rules = NoRules \/ cutOff

\* A block is known to whoever may have to lift it, marked on disk and reported as what
\* it is by the helper, through every failure and kill.  The one that an enable left
\* when it was killed, late or unable to write before its marker is the only exception,
\* as long as it stands.
BlockIsKnown ==
  /\ BlockedIsMarked
  /\ EnabledIsInForce
  /\ DisabledIsOpen

=============================================================================
