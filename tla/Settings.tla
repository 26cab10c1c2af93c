------------------------------ MODULE Settings ------------------------------
(***************************************************************************)
(* The settings of Zarya and the windows that change them: the settings    *)
(* dialog, the first-run wizard, the routing and DNS profile managers, the *)
(* import of settings, the checks made at every start and what decides     *)
(* from the settings whether TUN mode is in effect.  The windows are modal *)
(* and nest: a manager opens over the settings dialog, and both open over  *)
(* the wizard; a start asked for from the tray can report over any of them.*)
(*                                                                         *)
(* Of the settings the model keeps those that other parts rely on.  A      *)
(* routing or DNS profile is its id and the version of its content; the    *)
(* built-in ones, which nothing can change or delete, are always there.    *)
(***************************************************************************)
EXTENDS Naturals, FiniteSets

CONSTANTS
  Kinds,            \* the two libraries: "routing" and "dns", or one of them
  Custom,           \* ids of profiles a user may make
  BuiltIns,         \* ids of the built-in profiles, in both libraries
  Fallback,         \* the built-in profile that stands in for a lost one
  Versions,         \* contents a user may give a profile
  BuiltInContent,   \* content of the built-in profiles
  Channels,         \* release channels
  StableLike,       \* those whose builds hide experimental features
  BuildChannel,     \* the channel this build was made for
  Imports,          \* settings files another installation may have exported
  MaxFaults,        \* bound on what goes wrong outside Zarya in one history
  MaxChanges        \* bound on the edits a user makes in one history

ASSUME SettingsAssumption ==
  /\ Kinds \subseteq {"routing", "dns"}
  /\ Custom \cap BuiltIns = {}
  /\ Fallback \in BuiltIns
  /\ StableLike \subseteq Channels
  /\ BuildChannel \in Channels
  /\ "unset" \notin Channels
  /\ MaxChanges \in Nat
  /\ MaxFaults \in Nat

(* A settings file has the keys that were written where it was exported.   *)
(* The dialog writes channel and tick together; an accepted warning is     *)
(* only ever written as accepted, before TUN is switched on; the login key *)
(* belongs to the machine.                                                 *)
ASSUME ImportsAssumption ==
  \A i \in Imports :
    /\ "login" \notin DOMAIN i
    /\ "mode" \in DOMAIN i => i.mode \in {"proxy", "tun"}
    /\ "tun" \in DOMAIN i => i.tun \in BOOLEAN
    /\ "warned" \in DOMAIN i => i.warned = TRUE
    /\ "kill" \in DOMAIN i => i.kill \in BOOLEAN
    /\ "priv" \in DOMAIN i => i.priv \in {"gui", "helper"}
    /\ "channel" \in DOMAIN i => i.channel \in Channels /\ "show" \in DOMAIN i
    /\ "show" \in DOMAIN i => i.show \in {"yes", "no"}
    /\ ("mode" \in DOMAIN i /\ i.mode = "tun") \/ ("tun" \in DOMAIN i /\ i.tun)
         => "warned" \in DOMAIN i

VARIABLES
  stored,      \* the settings as QSettings keeps them
  entry,       \* the start-at-login entry of the desktop
  lib,         \* the custom profiles each manager holds in memory
  file,        \* {what each manager's file holds}, or {} if it cannot be read
  active,      \* each manager's active profile
  windows,     \* the open windows
  widgets,     \* what the settings dialog shows, while it is open
  \* history only:
  entryTouched, \* the login entry was changed since a save, by somebody else or by a
                \* save that was killed before it wrote the setting
  unsaved,     \* managers whose last write failed
  agreed,      \* the user agreed to see experimental features
  used,        \* ids of profiles ever made
  faults,      \* number of things that went wrong
  changes      \* number of edits made in the windows

vars == <<stored, entry, lib, file, active, windows, widgets,
          entryTouched, unsaved, agreed, used, faults, changes>>
libraryVars == <<lib, file, active, unsaved, used, faults, changes>>

Unset == "unset"
Closed == "closed"
Managers == {"routing", "dns"}

-----------------------------------------------------------------------------
(* What the settings mean: AppSettings, FeaturePolicy, FeatureGate. *)

Channel(s) == IF s.channel = Unset THEN BuildChannel ELSE s.channel

ShownByDefault(channel) == channel \notin StableLike

ShowsExperimental(s) ==
  IF s.show = Unset THEN ShownByDefault(Channel(s)) ELSE s.show = "yes"

TunFeatureEnabled(s) == ShowsExperimental(s) /\ s.tun

EffectiveMode(s) == IF TunFeatureEnabled(s) THEN s.mode ELSE "proxy"

(* What a fresh installation has. *)
DefaultStored ==
  [mode |-> "proxy", tun |-> FALSE, warned |-> FALSE, kill |-> FALSE,
   priv |-> "gui", channel |-> Unset, show |-> Unset, login |-> FALSE,
   selected |-> [k \in Kinds |-> Unset]]

-----------------------------------------------------------------------------
(* The managers of routing and DNS profiles and their stores. *)

Known(k, id) == id \in BuiltIns \cup DOMAIN lib[k]

(* Loading: an unreadable file counts as an empty one, the built-in        *)
(* profiles are put back and a selection that names nothing falls back.    *)
Loaded(f) == IF f = {} THEN <<>> ELSE CHOOSE profiles \in f : TRUE

\* Mutant of Resolved: the selection is taken as it is.
ResolvedBlindly(selected, profiles) == IF selected = Unset THEN Fallback ELSE selected

Resolved(selected, profiles) ==
  IF selected \in BuiltIns \cup DOMAIN profiles THEN selected ELSE Fallback

(* The managers of ks write what they hold; the writes of failing come to  *)
(* nothing, and nobody looks at the result.                                *)
Write(ks, profiles, failing) ==
  /\ failing \subseteq ks
  /\ file' = [k \in Kinds |-> IF k \in ks \ failing THEN {profiles[k]} ELSE file[k]]
  /\ unsaved' = (unsaved \ ks) \cup failing
  /\ faults' = faults + Cardinality(failing)
  /\ faults' <= MaxFaults

(* The routing manager's window writes after every change; that of the DNS *)
(* manager leaves it to whoever opened the window.                         *)
WrittenByWindow(k) == {k} \cap {"routing"}

ManagerIsOpen == windows \cap Managers # {}

OpenManager(k) ==
  /\ ~ManagerIsOpen
  /\ windows' = windows \cup {k}
  /\ UNCHANGED <<stored, entry, widgets, entryTouched, agreed>>
  /\ UNCHANGED libraryVars

Changing(k) ==
  /\ k \in windows
  /\ changes < MaxChanges
  /\ changes' = changes + 1
  /\ UNCHANGED <<entry, windows, widgets, entryTouched, agreed>>

(* upsertProfile and removeProfile on a manager's profiles. *)
Put(k, id, v) == [x \in DOMAIN lib[k] \cup {id} |-> IF x = id THEN v ELSE lib[k][x]]

Without(k, id) == [x \in DOMAIN lib[k] \ {id} |-> lib[k][x]]

(* A manager makes a profile active and writes its id to the settings. *)
Select(k, id) ==
  /\ active' = [active EXCEPT ![k] = id]
  /\ stored' = [stored EXCEPT !.selected[k] = id]

(* What an editor can hand back of a profile: any content the user makes   *)
(* of its rules or servers, and nothing of a built-in profile, which it    *)
(* shows read-only.  Cancelled, it hands back nothing either.              *)
RoutingEditorResults(id) == IF id \in BuiltIns THEN {} ELSE Versions

(* The editor of DNS profiles also asks to go on in spite of warnings. *)
DnsEditorResults(id) == IF id \in BuiltIns THEN {} ELSE Versions

EditorResults(k, id) ==
  IF k = "routing" THEN RoutingEditorResults(id) ELSE DnsEditorResults(id)

NewProfile(k, id, v, failing) ==
  /\ Changing(k)
  /\ id \in Custom \ used
  /\ v \in EditorResults(k, id)
  /\ used' = used \cup {id}
  /\ lib' = [lib EXCEPT ![k] = Put(k, id, v)]
  /\ Write(WrittenByWindow(k), lib', failing)
  /\ UNCHANGED <<stored, active>>

EditProfile(k, id, v, failing) ==
  /\ Changing(k)
  /\ Known(k, id)
  /\ v \in EditorResults(k, id) \ {lib[k][id]}
  /\ lib' = [lib EXCEPT ![k] = Put(k, id, v)]
  /\ Write(WrittenByWindow(k), lib', failing)
  /\ UNCHANGED <<stored, active, used>>

(* The copy of a built-in profile has a content of its own to begin with. *)
DuplicateProfile(k, source, id, failing) ==
  /\ Changing(k)
  /\ Known(k, source)
  /\ id \in Custom \ used
  /\ used' = used \cup {id}
  /\ lib' = [lib EXCEPT ![k] =
       Put(k, id, IF source \in BuiltIns THEN BuiltInContent ELSE lib[k][source])]
  /\ Write(WrittenByWindow(k), lib', failing)
  /\ UNCHANGED <<stored, active>>

(* Deleting the active profile makes the fallback active; a built-in one   *)
(* is refused.                                                             *)
DeleteProfile(k, id, failing) ==
  /\ Changing(k)
  /\ id \in DOMAIN lib[k]
  /\ lib' = [lib EXCEPT ![k] = Without(k, id)]
  /\ IF active[k] = id THEN Select(k, Fallback) ELSE UNCHANGED <<active, stored>>
  /\ Write(WrittenByWindow(k), lib', failing)
  /\ UNCHANGED used

SetActive(k, id, failing) ==
  /\ Changing(k)
  /\ Known(k, id)
  /\ id # active[k]
  /\ Select(k, id)
  /\ Write(WrittenByWindow(k), lib, failing)
  /\ UNCHANGED <<lib, used>>

\* Mutant of CloseManager: only the settings dialog writes.
CloseManagerUnwritten(k, failing) ==
  /\ k \in windows
  /\ windows' = windows \ {k}
  /\ Write({k} \cap {x \in Kinds : "settings" \in windows}, lib, failing)
  /\ widgets' = IF "settings" \in windows
                THEN [widgets EXCEPT !.chosen[k] = active[k]] ELSE widgets
  /\ UNCHANGED <<stored, entry, lib, active, entryTouched, agreed, used, changes>>

(* Whoever opened the manager writes once it closes, and the settings      *)
(* dialog then shows the active profile, whatever was chosen in it before. *)
CloseManager(k, failing) ==
  /\ k \in windows
  /\ windows' = windows \ {k}
  /\ Write({k}, lib, failing)
  /\ widgets' = IF "settings" \in windows
                THEN [widgets EXCEPT !.chosen[k] = active[k]] ELSE widgets
  /\ UNCHANGED <<stored, entry, lib, active, entryTouched, agreed, used, changes>>

-----------------------------------------------------------------------------
(* The settings dialog. *)

Widgets(s) ==
  [mode |-> s.mode, tun |-> s.tun, kill |-> s.kill, priv |-> s.priv,
   channel |-> Channel(s), show |-> ShowsExperimental(s),
   login |-> s.login /\ entry,
   chosen |-> [k \in Kinds |-> active[k]]]

OpenSettings ==
  /\ windows \subseteq {"wizard"}
  /\ windows' = windows \cup {"settings"}
  /\ widgets' = Widgets(stored)
  /\ UNCHANGED <<stored, entry, entryTouched, agreed>>
  /\ UNCHANGED libraryVars

Editing ==
  /\ "settings" \in windows /\ ~ManagerIsOpen
  /\ changes < MaxChanges
  /\ changes' = changes + 1
  /\ UNCHANGED <<stored, entry, windows, entryTouched>>
  /\ UNCHANGED <<lib, file, active, unsaved, used, faults>>

(* The group of experimental controls, hidden unless experimental features *)
(* are shown.  Mode and privilege can be changed while TUN is ticked, and  *)
(* keep what was chosen when it is unticked.                               *)
EditTunGroup ==
  /\ Editing
  /\ widgets.show
  /\ \E tun, kill \in BOOLEAN, mode \in {"proxy", "tun"}, priv \in {"gui", "helper"} :
       widgets' = [widgets EXCEPT !.tun = tun, !.kill = kill, !.mode = mode, !.priv = priv]
  /\ UNCHANGED agreed

EditLogin ==
  /\ Editing
  /\ widgets' = [widgets EXCEPT !.login = ~@]
  /\ UNCHANGED agreed

ChooseProfile(k, id) ==
  /\ Editing
  /\ Known(k, id)
  /\ widgets' = [widgets EXCEPT !.chosen[k] = id]
  /\ UNCHANGED agreed

(* Changing the channel resets the tick to the channel's default. *)
EditChannel(c) ==
  /\ Editing
  /\ c # widgets.channel
  /\ widgets' = [widgets EXCEPT !.channel = c, !.show = ShownByDefault(c)]
  /\ UNCHANGED agreed

(* The tick itself is visible only for channels that are not stable-like;  *)
(* for those there is a button, whose warning the user has to accept.      *)
TickShow ==
  /\ Editing
  /\ widgets.channel \notin StableLike
  /\ widgets' = [widgets EXCEPT !.show = ~@]
  /\ UNCHANGED agreed

AgreeToShow ==
  /\ Editing
  /\ ~widgets.show
  /\ widgets' = [widgets EXCEPT !.show = TRUE]
  /\ agreed' = TRUE

(***************************************************************************)
(* Save writes the settings one group after another and can stop between   *)
(* two groups, with what was written before left in place.                 *)
(***************************************************************************)
Saving == "settings" \in windows /\ ~ManagerIsOpen

(* The login entry is written whenever the tick is set, and removed only   *)
(* when it is there.                                                       *)
LoginEntryChanges == widgets.login \/ entry

WithLogin(s) == [s EXCEPT !.login = widgets.login]

(* The manager refuses an id it does not know. *)
Chosen == [k \in Kinds |-> IF Known(k, widgets.chosen[k]) THEN widgets.chosen[k]
                                                         ELSE active[k]]

WithProfiles(s) == [s EXCEPT !.selected = Chosen]

WithTun(s) == [s EXCEPT !.tun = widgets.tun, !.mode = widgets.mode,
                        !.priv = widgets.priv]

WithRest(s) == [s EXCEPT !.kill = widgets.kill, !.channel = widgets.channel,
                         !.show = IF widgets.show THEN "yes" ELSE "no"]

NeedsTunWarning == (widgets.tun \/ widgets.mode = "tun") /\ ~stored.warned
NeedsKillSwitchWarning == widgets.kill /\ ~stored.kill

(* The login entry, the active profiles and the managers' files: what has  *)
(* been done when the first warning is asked.  A kill in between is an     *)
(* action below.                                                           *)
FirstHalfSaved(failing) ==
  /\ entry' = widgets.login
  /\ entryTouched' = FALSE
  /\ active' = Chosen
  /\ Write(Kinds, lib, failing)
  /\ UNCHANGED <<lib, used, changes>>

\* Mutant of SaveStopsAtLoginEntry: the setting is written before the entry.
LoginEntryLast ==
  /\ Saving
  /\ LoginEntryChanges
  /\ stored' = WithLogin(stored)
  /\ UNCHANGED <<entry, lib, file, active, windows, widgets, entryTouched,
                 unsaved, agreed, used, faults, changes>>

(* The entry cannot be written or removed: the dialog stays open, and what *)
(* the model keeps of the settings is as it was.                           *)
SaveStopsAtLoginEntry ==
  /\ Saving
  /\ LoginEntryChanges
  /\ UNCHANGED vars

\* Mutant of BeforeTunWarning: the TUN settings are written before the warning.
AfterTunSettings(s) == WithTun(WithProfiles(WithLogin(s)))

BeforeTunWarning(s) == WithProfiles(WithLogin(s))

(* The TUN warning: "Switch to Xray system proxy" changes the dialog but   *)
(* does not save it; anything but "Continue" leaves the dialog open.       *)
SaveStopsAtTunWarning(answer, failing) ==
  /\ Saving
  /\ NeedsTunWarning
  /\ FirstHalfSaved(failing)
  /\ stored' = BeforeTunWarning(stored)
  /\ widgets' = IF answer = "switch"
                THEN [widgets EXCEPT !.tun = FALSE, !.mode = "proxy"] ELSE widgets
  /\ UNCHANGED <<windows, agreed>>

TunAccepted(s) == IF NeedsTunWarning THEN [s EXCEPT !.warned = TRUE] ELSE s

SaveStopsAtKillSwitchWarning(failing) ==
  /\ Saving
  /\ NeedsKillSwitchWarning
  /\ FirstHalfSaved(failing)
  /\ stored' = WithTun(TunAccepted(BeforeTunWarning(stored)))
  /\ UNCHANGED <<windows, widgets, agreed>>

SaveSettings(failing) ==
  /\ Saving
  /\ FirstHalfSaved(failing)
  /\ stored' = WithRest(WithTun(TunAccepted(BeforeTunWarning(stored))))
  /\ windows' = windows \ {"settings"}
  /\ widgets' = Closed
  /\ UNCHANGED agreed

CancelSettings ==
  /\ Saving
  /\ windows' = windows \ {"settings"}
  /\ widgets' = Closed
  /\ UNCHANGED <<stored, entry, entryTouched, agreed>>
  /\ UNCHANGED libraryVars

-----------------------------------------------------------------------------
(* The first-run wizard, which offers only built-in profiles. *)

OpenWizard ==
  /\ windows = {}
  /\ windows' = {"wizard"}
  /\ UNCHANGED <<stored, entry, widgets, entryTouched, agreed>>
  /\ UNCHANGED libraryVars

(* applyFirstRunState. *)
WithWizard(s, mode, ticked, id) ==
  [s EXCEPT !.selected = [k \in Kinds |-> id],
            !.mode = mode,
            !.tun = IF mode = "tun" THEN TRUE ELSE @,
            !.warned = IF mode = "tun" THEN ticked \/ @ ELSE @]

(* TUN gets past the runtime page only with its tick set. *)
FinishWizard(mode, ticked, id, failing) ==
  /\ windows = {"wizard"}
  /\ mode = "tun" => ticked
  /\ windows' = {}
  /\ active' = [k \in Kinds |-> id]
  /\ stored' = WithWizard(stored, mode, ticked, id)
  /\ Write(Kinds, lib, failing)
  /\ UNCHANGED <<entry, lib, widgets, entryTouched, agreed, used, changes>>

SkipWizard ==
  /\ windows = {"wizard"}
  /\ windows' = {}
  /\ UNCHANGED <<stored, entry, widgets, entryTouched, agreed>>
  /\ UNCHANGED libraryVars

-----------------------------------------------------------------------------
(* Everything else that changes the settings. *)

(* "Switch to Xray system proxy" in the error a failed start reports, which *)
(* may come while a window is open, the start having been asked for in the  *)
(* tray menu.                                                               *)
SwitchToSystemProxy ==
  /\ EffectiveMode(stored) = "tun"
  /\ stored' = [stored EXCEPT !.mode = "proxy", !.tun = FALSE]
  /\ UNCHANGED <<entry, windows, widgets, entryTouched, agreed>>
  /\ UNCHANGED libraryVars

(* Whenever the managers load, the settings get the id that came of it.    *)
Load(s) ==
  /\ lib' = [k \in Kinds |-> Loaded(file'[k])]
  /\ active' = [k \in Kinds |-> Resolved(s.selected[k], lib'[k])]
  /\ stored' = [s EXCEPT !.selected = active']

(* An imported settings file writes the keys it has over the present ones; *)
(* those that belong to a machine, such as the login entry, are left out   *)
(* of it.  Then the managers load again.                                   *)
Merged(s, i) == [key \in DOMAIN s |-> IF key \in DOMAIN i THEN i[key] ELSE s[key]]

ImportSettings(i) ==
  /\ windows \subseteq {"wizard"}
  /\ UNCHANGED file
  /\ Load(Merged(stored, i))
  /\ agreed' = (agreed \/ ("show" \in DOMAIN i /\ i.show = "yes"))
  /\ UNCHANGED <<entry, windows, widgets, entryTouched, unsaved, used, faults, changes>>

(* Somebody else adds or removes the login entry. *)
OtherChangesEntry ==
  /\ faults < MaxFaults
  /\ faults' = faults + 1
  /\ entry' = ~entry
  /\ entryTouched' = TRUE
  /\ UNCHANGED <<stored, windows, widgets, agreed>>
  /\ UNCHANGED <<lib, file, active, unsaved, used, changes>>

(* A start: the kill switch without the helper is switched off, and the    *)
(* managers load.                                                          *)
Fixed(s) == IF s.priv # "helper" THEN [s EXCEPT !.kill = FALSE] ELSE s

Start ==
  /\ Load(Fixed(stored))
  /\ windows' = {}
  /\ widgets' = Closed
  /\ UNCHANGED <<agreed, used, changes>>

(* An orderly end writes everything first. *)
QuitAndStart(failing) ==
  /\ windows = {}
  /\ Write(Kinds, lib, failing)
  /\ Start
  /\ UNCHANGED <<entry, entryTouched>>

CrashAndStart ==
  /\ UNCHANGED <<file, unsaved, faults>>
  /\ Start
  /\ UNCHANGED <<entry, entryTouched>>

(* A kill after a save wrote the login entry and before it wrote the       *)
(* setting and the rest.                                                   *)
CrashAtLoginEntry ==
  /\ Saving
  /\ LoginEntryChanges
  /\ entry' = widgets.login
  /\ entryTouched' = TRUE
  /\ UNCHANGED <<file, unsaved, faults>>
  /\ Start

(* Something makes a file unreadable. *)
DamageFile(k) ==
  /\ file[k] # {}
  /\ faults < MaxFaults
  /\ faults' = faults + 1
  /\ file' = [file EXCEPT ![k] = {}]
  /\ unsaved' = unsaved \cup {k}
  /\ UNCHANGED <<stored, entry, lib, active, windows, widgets, entryTouched,
                 agreed, used, changes>>

-----------------------------------------------------------------------------
Init ==
  /\ stored = [DefaultStored EXCEPT !.selected = [k \in Kinds |-> Fallback]]
  /\ entry = FALSE
  /\ lib = [k \in Kinds |-> <<>>]
  /\ file = [k \in Kinds |-> {<<>>}]
  /\ active = stored.selected
  /\ windows = {}
  /\ widgets = Closed
  /\ entryTouched = FALSE
  /\ unsaved = {}
  /\ agreed = FALSE
  /\ used = {}
  /\ faults = 0
  /\ changes = 0

ManagerNext ==
  \E k \in Kinds :
    \/ OpenManager(k)
    \/ \E failing \in SUBSET {k} :
         \/ \E id \in Custom, v \in Versions :
              \/ NewProfile(k, id, v, failing)
              \/ EditProfile(k, id, v, failing)
         \/ \E source \in Custom \cup BuiltIns, id \in Custom :
              DuplicateProfile(k, source, id, failing)
         \/ \E id \in Custom : DeleteProfile(k, id, failing)
         \/ \E id \in Custom \cup BuiltIns : SetActive(k, id, failing)
         \/ CloseManager(k, failing)

DialogNext ==
  \/ OpenSettings
  \/ EditTunGroup
  \/ EditLogin
  \/ \E k \in Kinds, id \in Custom \cup BuiltIns : ChooseProfile(k, id)
  \/ \E c \in Channels : EditChannel(c)
  \/ TickShow
  \/ AgreeToShow
  \/ SaveStopsAtLoginEntry
  \/ \E failing \in SUBSET Kinds :
       \/ \E answer \in {"switch", "cancel"} : SaveStopsAtTunWarning(answer, failing)
       \/ SaveStopsAtKillSwitchWarning(failing)
       \/ SaveSettings(failing)
  \/ CancelSettings

WizardNext ==
  \/ OpenWizard
  \/ \E mode \in {"proxy", "tun"}, ticked \in BOOLEAN, id \in BuiltIns,
        failing \in SUBSET Kinds : FinishWizard(mode, ticked, id, failing)
  \/ SkipWizard

OtherNext ==
  \/ SwitchToSystemProxy
  \/ \E i \in Imports : ImportSettings(i)
  \/ OtherChangesEntry
  \/ \E failing \in SUBSET Kinds : QuitAndStart(failing)
  \/ CrashAndStart
  \/ CrashAtLoginEntry
  \/ \E k \in Kinds : DamageFile(k)

Next == ManagerNext \/ DialogNext \/ WizardNext \/ OtherNext

Spec == Init /\ [][Next]_vars

-----------------------------------------------------------------------------
(* TUN mode is never in effect unless somebody accepted its warning: in    *)
(* the settings dialog, in the wizard or where the settings came from,     *)
(* wherever a save stopped and whatever was imported or switched since.    *)
TunIsWarned == EffectiveMode(stored) = "tun" => stored.warned

(* A stable-like channel shows experimental features only to who asked for *)
(* them, whatever channel was chosen and left before.                      *)
StableIsAgreed ==
  Channel(stored) \in StableLike /\ ShowsExperimental(stored) => agreed

(* Nothing that may harm is in effect for somebody who was not asked.       *)
RisksAreAgreed == TunIsWarned /\ StableIsAgreed

(* The setting and the desktop agree about starting at login, through      *)
(* entries that cannot be written, warnings that are declined and crashes, *)
(* unless somebody else changed the entry since, or a crash came between   *)
(* entry and setting; the next save mends it.                              *)
LoginEntryAgrees == entryTouched \/ stored.login = entry

(* The profile in use is one its manager has and the one the settings      *)
(* name, after deletions, reloads and restarts too.                        *)
ActiveProfileIsSelected ==
  \A k \in Kinds : Known(k, active[k]) /\ stored.selected[k] = active[k]

(* With the DNS window closed and the last writes done, an end of any kind *)
(* loses neither a profile nor the choice of one.                          *)
ProfilesSurvive ==
  [][(CrashAndStart \/ CrashAtLoginEntry \/ \E failing \in SUBSET Kinds : QuitAndStart(failing))
       /\ "dns" \notin windows /\ unsaved = {} => UNCHANGED <<lib, active>>]_vars
=============================================================================
