---------------------------- MODULE SettingsProofs ----------------------------
(* Proofs about Settings, for every set of profiles, release channels and     *)
(* settings files of other installations, and any number of faults and edits. *)
EXTENDS Settings, FiniteSetTheorems, SequenceTheorems, TLAPS

Ids == Custom \cup BuiltIns
Contents == Versions \cup {BuiltInContent}
Libraries == UNION {[some -> Contents] : some \in SUBSET Custom}
Files == {{}} \cup {{profiles} : profiles \in Libraries}
Modes == {"proxy", "tun"}
Privileges == {"gui", "helper"}

\* What QSettings and the settings dialog hold.
StoredSettings ==
  [mode : Modes, tun : BOOLEAN, warned : BOOLEAN, kill : BOOLEAN, priv : Privileges,
   channel : Channels \cup {Unset}, show : {"yes", "no", Unset}, login : BOOLEAN,
   selected : [Kinds -> Ids]]

ShownSettings ==
  [mode : Modes, tun : BOOLEAN, kill : BOOLEAN, priv : Privileges,
   channel : Channels, show : BOOLEAN, login : BOOLEAN, chosen : [Kinds -> Ids]]

SettingsTypeOK ==
  /\ stored \in StoredSettings
  /\ entry \in BOOLEAN
  /\ lib \in [Kinds -> Libraries]
  /\ file \in [Kinds -> Files]
  /\ active \in [Kinds -> Ids]
  /\ windows \subseteq Managers \cup {"settings", "wizard"}
  /\ "settings" \in windows => widgets \in ShownSettings
  /\ entryTouched \in BOOLEAN
  /\ unsaved \subseteq Kinds
  /\ agreed \in BOOLEAN
  /\ used \subseteq Custom
  /\ faults \in Nat
  /\ changes \in Nat

\* The warning was accepted before either half of TUN mode was stored; neither the
\* settings nor the open dialog show experimental features in a stable-like channel to
\* somebody who did not ask.
RiskInv ==
  /\ stored.tun \/ stored.mode = "tun" => stored.warned
  /\ StableIsAgreed
  /\ "settings" \in windows /\ widgets.channel \in StableLike /\ widgets.show => agreed

\* What a manager holds is in its file, unless a write failed, somebody damaged the file
\* or the DNS window has changes that its opener writes later.
FileInv ==
  \A k \in Kinds :
    /\ file[k] = {} => k \in unsaved
    /\ k \notin unsaved /\ ~(k = "dns" /\ "dns" \in windows) => file[k] = {lib[k]}

SettingsInv ==
  SettingsTypeOK /\ RiskInv /\ LoginEntryAgrees /\ ActiveProfileIsSelected /\ FileInv

-----------------------------------------------------------------------------
(* Libraries, files and loading *)

LEMMA EmptyLibrary == <<>> \in Libraries /\ DOMAIN <<>> = {}
<1>1. <<>> \in [{} -> Contents]
  OBVIOUS
<1>2. {} \in SUBSET Custom
  OBVIOUS
<1> QED BY <1>1, <1>2 DEF Libraries

\* Whoever has a content for each of some custom profiles has a library.
LEMMA LibraryMade ==
  ASSUME NEW some \in SUBSET Custom, NEW profiles \in [some -> Contents]
  PROVE  profiles \in Libraries
  BY DEF Libraries

LEMMA LibraryHeld ==
  ASSUME NEW profiles \in Libraries
  PROVE  /\ DOMAIN profiles \subseteq Custom
         /\ profiles \in [DOMAIN profiles -> Contents]
  BY DEF Libraries

LEMMA LibraryPut ==
  ASSUME lib \in [Kinds -> Libraries], NEW k \in Kinds, NEW id \in Custom, NEW v \in Contents
  PROVE  Put(k, id, v) \in Libraries /\ DOMAIN lib[k] \subseteq DOMAIN Put(k, id, v)
<1>1. DOMAIN lib[k] \subseteq Custom /\ lib[k] \in [DOMAIN lib[k] -> Contents]
  BY LibraryHeld
<1>2. Put(k, id, v) \in [DOMAIN lib[k] \cup {id} -> Contents]
  BY <1>1 DEF Put
<1>3. Put(k, id, v) \in Libraries
  BY <1>1, <1>2, LibraryMade
<1> QED BY <1>3 DEF Put

LEMMA LibraryWithout ==
  ASSUME lib \in [Kinds -> Libraries], NEW k \in Kinds, NEW id
  PROVE  Without(k, id) \in Libraries /\ DOMAIN Without(k, id) = DOMAIN lib[k] \ {id}
<1>1. DOMAIN lib[k] \subseteq Custom /\ lib[k] \in [DOMAIN lib[k] -> Contents]
  BY LibraryHeld
<1>2. Without(k, id) \in [DOMAIN lib[k] \ {id} -> Contents]
  BY <1>1 DEF Without
<1>3. Without(k, id) \in Libraries
  BY <1>1, <1>2, LibraryMade
<1> QED BY <1>3 DEF Without

\* A write that comes to nothing is remembered as unsaved, any other as what is in the file.
LEMMA WriteFacts ==
  ASSUME NEW ks \in SUBSET Kinds, NEW profiles \in [Kinds -> Libraries], NEW failing,
         file \in [Kinds -> Files], unsaved \subseteq Kinds, faults \in Nat,
         Write(ks, profiles, failing)
  PROVE  /\ file' \in [Kinds -> Files] /\ unsaved' \subseteq Kinds /\ faults' \in Nat
         /\ \A k \in Kinds : k \in ks /\ k \notin unsaved' => file'[k] = {profiles[k]}
         /\ \A k \in Kinds : k \notin ks => file'[k] = file[k] /\ (k \in unsaved' <=> k \in unsaved)
         /\ \A k \in Kinds : file'[k] = {} => file[k] = {} /\ (k \in unsaved => k \in unsaved')
         /\ \A k \in Kinds : file'[k] = {profiles[k]} \/ file'[k] = file[k]
<1>1. failing \subseteq ks /\ failing \subseteq {"routing", "dns"}
  BY SettingsAssumption DEF Write
<1>2. Cardinality(failing) \in Nat
  <2>1. IsFiniteSet({"routing", "dns"})
    <3>1. IsFiniteSet({"routing"}) /\ IsFiniteSet({"dns"})
      BY FS_Singleton
    <3>2. {"routing", "dns"} = {"routing"} \cup {"dns"}
      OBVIOUS
    <3>3. IsFiniteSet({"routing"} \cup {"dns"})
      BY ONLY <3>1, FS_Union
    <3> QED BY <3>2, <3>3
  <2> QED BY <1>1, <2>1, FS_Subset, FS_CardinalityType
<1>3. \A k \in Kinds : file'[k] = IF k \in ks \ failing THEN {profiles[k]} ELSE file[k]
  BY DEF Write
<1>4. file' \in [Kinds -> Files]
  <2>1. \A k \in Kinds : {profiles[k]} \in Files
    BY DEF Files
  <2> QED BY <2>1 DEF Write
<1>5. unsaved' = (unsaved \ ks) \cup failing /\ faults' \in Nat
  BY <1>2 DEF Write
<1>6. \A k \in Kinds :
        /\ file'[k] = {profiles[k]} \/ file'[k] = file[k]
        /\ file'[k] = {} => file[k] = {} /\ (k \in unsaved => k \in unsaved')
  BY <1>1, <1>3, <1>5
<1> QED BY <1>1, <1>3, <1>4, <1>5, <1>6

\* Loading takes what a readable file holds and an active profile that is there.
LEMMA LoadFacts ==
  ASSUME NEW s, Load(s), file' \in [Kinds -> Files]
  PROVE  /\ lib' \in [Kinds -> Libraries] /\ active' \in [Kinds -> Ids]
         /\ stored' = [s EXCEPT !.selected = active']
         /\ \A k \in Kinds : file'[k] # {} => file'[k] = {lib'[k]}
         /\ \A k \in Kinds :
              /\ active'[k] \in BuiltIns \cup DOMAIN lib'[k]
              /\ s.selected[k] \in BuiltIns \cup DOMAIN lib'[k] => active'[k] = s.selected[k]
<1>1. ASSUME NEW k \in Kinds
      PROVE  Loaded(file'[k]) \in Libraries /\ (file'[k] # {} => file'[k] = {Loaded(file'[k])})
  BY EmptyLibrary DEF Files, Loaded
<1>2. lib' = [k \in Kinds |-> Loaded(file'[k])]
  BY DEF Load
<1>3. lib' \in [Kinds -> Libraries] /\ \A k \in Kinds : file'[k] # {} => file'[k] = {lib'[k]}
  BY <1>1, <1>2
<1>4. active' = [k \in Kinds |-> Resolved(s.selected[k], lib'[k])]
  BY DEF Load
<1>5. ASSUME NEW k \in Kinds
      PROVE  /\ active'[k] \in BuiltIns \cup DOMAIN lib'[k]
             /\ s.selected[k] \in BuiltIns \cup DOMAIN lib'[k] => active'[k] = s.selected[k]
             /\ active'[k] \in Ids
  <2>1. DOMAIN lib'[k] \subseteq Custom
    BY <1>3, LibraryHeld
  <2> QED BY <1>4, <2>1, SettingsAssumption DEF Resolved, Ids
<1> QED BY <1>3, <1>4, <1>5 DEF Load

\* What a change in the window of a manager leaves behind.
LEMMA ChangeFacts ==
  ASSUME SettingsTypeOK, NEW k \in Kinds, NEW failing, NEW library \in Libraries,
         Changing(k), lib' = [lib EXCEPT ![k] = library],
         Write(WrittenByWindow(k), lib', failing)
  PROVE  /\ UNCHANGED <<entry, windows, widgets, entryTouched, agreed>>
         /\ lib' \in [Kinds -> Libraries] /\ changes' \in Nat
         /\ file' \in [Kinds -> Files] /\ unsaved' \subseteq Kinds /\ faults' \in Nat
         /\ FileInv => FileInv'
<1>1. /\ UNCHANGED <<entry, windows, widgets, entryTouched, agreed>>
      /\ k \in windows /\ changes' \in Nat
  BY DEF Changing, SettingsTypeOK
<1>2. /\ lib' \in [Kinds -> Libraries]
      /\ \A x \in Kinds : x # k => lib'[x] = lib[x]
  BY DEF SettingsTypeOK
<1>3. WrittenByWindow(k) \in SUBSET Kinds /\ (k \in WrittenByWindow(k) <=> k # "dns")
      /\ \A x \in Kinds : x \in WrittenByWindow(k) => x = k
  BY SettingsAssumption DEF WrittenByWindow
<1>4. /\ file' \in [Kinds -> Files] /\ unsaved' \subseteq Kinds /\ faults' \in Nat
      /\ \A x \in Kinds : x \in WrittenByWindow(k) /\ x \notin unsaved' => file'[x] = {lib'[x]}
      /\ \A x \in Kinds : x \notin WrittenByWindow(k) =>
           file'[x] = file[x] /\ (x \in unsaved' <=> x \in unsaved)
      /\ \A x \in Kinds : file'[x] = {} => file[x] = {} /\ (x \in unsaved => x \in unsaved')
  <2>1. /\ WrittenByWindow(k) \in SUBSET Kinds /\ lib' \in [Kinds -> Libraries]
        /\ file \in [Kinds -> Files] /\ unsaved \subseteq Kinds /\ faults \in Nat
        /\ Write(WrittenByWindow(k), lib', failing)
    BY <1>2, <1>3 DEF SettingsTypeOK
  <2> QED BY ONLY <2>1, WriteFacts
<1>5. FileInv => FileInv'
  BY <1>1, <1>2, <1>3, <1>4 DEF FileInv
<1> QED BY <1>1, <1>2, <1>4, <1>5

-----------------------------------------------------------------------------
(* Types *)

LEMMA ChosenKnown ==
  ASSUME SettingsTypeOK, "settings" \in windows
  PROVE  /\ Chosen \in [Kinds -> Ids]
         /\ ActiveProfileIsSelected => \A k \in Kinds : Known(k, Chosen[k])
  BY DEF SettingsTypeOK, ShownSettings, Chosen, ActiveProfileIsSelected

\* The settings that a save has written when it stops, at each of its stops.
LEMMA SaveTypes ==
  ASSUME SettingsTypeOK, "settings" \in windows
  PROVE  LET half == BeforeTunWarning(stored) IN
         /\ half \in StoredSettings
         /\ WithTun(TunAccepted(half)) \in StoredSettings
         /\ WithRest(WithTun(TunAccepted(half))) \in StoredSettings
<1> DEFINE half == BeforeTunWarning(stored)
<1>1. widgets \in ShownSettings /\ stored \in StoredSettings /\ Chosen \in [Kinds -> Ids]
  BY ChosenKnown DEF SettingsTypeOK
<1>2. half \in StoredSettings
  BY <1>1 DEF BeforeTunWarning, WithProfiles, WithLogin, StoredSettings, ShownSettings
<1>3. TunAccepted(half) \in StoredSettings
  BY <1>2 DEF TunAccepted, StoredSettings
<1>4. WithTun(TunAccepted(half)) \in StoredSettings
  BY <1>1, <1>3 DEF WithTun, StoredSettings, ShownSettings
<1>5. WithRest(WithTun(TunAccepted(half))) \in StoredSettings
  BY <1>1, <1>4 DEF WithRest, StoredSettings, ShownSettings
<1> QED BY <1>2, <1>4, <1>5

\* What is done of a save before its first question.
LEMMA FirstHalfFacts ==
  ASSUME SettingsTypeOK, Saving, NEW failing, FirstHalfSaved(failing)
  PROVE  /\ entry' = widgets.login /\ entry' \in BOOLEAN /\ entryTouched' = FALSE
         /\ active' = Chosen /\ active' \in [Kinds -> Ids]
         /\ UNCHANGED <<lib, used, changes>>
         /\ file' \in [Kinds -> Files] /\ unsaved' \subseteq Kinds /\ faults' \in Nat
         /\ windows' \subseteq windows => FileInv'
<1>1. "settings" \in windows
  BY DEF Saving
<1>2. /\ entry' = widgets.login /\ entry' \in BOOLEAN /\ entryTouched' = FALSE
      /\ active' = Chosen /\ active' \in [Kinds -> Ids] /\ UNCHANGED <<lib, used, changes>>
  BY <1>1, ChosenKnown DEF FirstHalfSaved, SettingsTypeOK, ShownSettings
<1>3. /\ file' \in [Kinds -> Files] /\ unsaved' \subseteq Kinds /\ faults' \in Nat
      /\ \A k \in Kinds : k \notin unsaved' => file'[k] = {lib[k]}
  BY WriteFacts DEF FirstHalfSaved, SettingsTypeOK
<1>4. FileInv'
  BY <1>2, <1>3 DEF FileInv
<1> QED BY <1>2, <1>3, <1>4

\* What an import makes of the settings.
LEMMA MergedFacts ==
  ASSUME SettingsTypeOK, NEW i \in Imports
  PROVE  /\ \A chosen \in [Kinds -> Ids] :
              [Merged(stored, i) EXCEPT !.selected = chosen] \in StoredSettings
         /\ Merged(stored, i).login = stored.login
         /\ \A chosen : LET s == [Merged(stored, i) EXCEPT !.selected = chosen] IN
              /\ s.login = stored.login
              /\ (stored.tun \/ stored.mode = "tun" => stored.warned)
                   => (s.tun \/ s.mode = "tun" => s.warned)
              /\ s.show = "yes" => stored.show = "yes" \/ ("show" \in DOMAIN i /\ i.show = "yes")
              /\ \/ s.channel = stored.channel /\ s.show = stored.show
                 \/ s.show \in {"yes", "no"}
<1> DEFINE s == Merged(stored, i)
<1>1. stored \in StoredSettings
  BY DEF SettingsTypeOK
<1>2. /\ s.mode = IF "mode" \in DOMAIN i THEN i.mode ELSE stored.mode
      /\ s.tun = IF "tun" \in DOMAIN i THEN i.tun ELSE stored.tun
      /\ s.warned = IF "warned" \in DOMAIN i THEN i.warned ELSE stored.warned
      /\ s.kill = IF "kill" \in DOMAIN i THEN i.kill ELSE stored.kill
      /\ s.priv = IF "priv" \in DOMAIN i THEN i.priv ELSE stored.priv
      /\ s.channel = IF "channel" \in DOMAIN i THEN i.channel ELSE stored.channel
      /\ s.show = IF "show" \in DOMAIN i THEN i.show ELSE stored.show
      /\ s.login = IF "login" \in DOMAIN i THEN i.login ELSE stored.login
  BY <1>1 DEF Merged, StoredSettings
<1>3. s = [mode |-> s.mode, tun |-> s.tun, warned |-> s.warned, kill |-> s.kill,
           priv |-> s.priv, channel |-> s.channel, show |-> s.show, login |-> s.login,
           selected |-> s.selected]
  BY <1>1 DEF Merged, StoredSettings
<1>4. /\ s.mode \in Modes /\ s.tun \in BOOLEAN /\ s.warned \in BOOLEAN /\ s.kill \in BOOLEAN
      /\ s.priv \in Privileges /\ s.channel \in Channels \cup {Unset}
      /\ s.show \in {"yes", "no", Unset} /\ s.login \in BOOLEAN /\ s.login = stored.login
  BY <1>1, <1>2, ImportsAssumption DEF StoredSettings, Modes, Privileges
<1> HIDE DEF s
<1>5. \A chosen \in [Kinds -> Ids] : [s EXCEPT !.selected = chosen] \in StoredSettings
  BY <1>3, <1>4 DEF StoredSettings
<1>6. \A chosen :
        /\ [s EXCEPT !.selected = chosen].login = s.login
        /\ [s EXCEPT !.selected = chosen].tun = s.tun
        /\ [s EXCEPT !.selected = chosen].mode = s.mode
        /\ [s EXCEPT !.selected = chosen].warned = s.warned
        /\ [s EXCEPT !.selected = chosen].show = s.show
        /\ [s EXCEPT !.selected = chosen].channel = s.channel
  BY <1>3
<1>7. (stored.tun \/ stored.mode = "tun" => stored.warned) => (s.tun \/ s.mode = "tun" => s.warned)
  BY <1>1, <1>2, ImportsAssumption DEF StoredSettings
<1>8. /\ s.show = "yes" => stored.show = "yes" \/ ("show" \in DOMAIN i /\ i.show = "yes")
      /\ (s.channel = stored.channel /\ s.show = stored.show) \/ s.show \in {"yes", "no"}
  BY <1>2, ImportsAssumption
<1> QED BY <1>4, <1>5, <1>6, <1>7, <1>8 DEF s

-----------------------------------------------------------------------------
(* Steps *)

LEMMA SettingsStart == Init => SettingsInv
<1> SUFFICES ASSUME Init PROVE SettingsInv
  OBVIOUS
<1>1. Fallback \in Ids
  BY SettingsAssumption DEF Ids
<1>2. stored \in StoredSettings /\ active = [k \in Kinds |-> Fallback]
      /\ stored.selected = active /\ stored.login = FALSE
      /\ stored.tun = FALSE /\ stored.mode = "proxy" /\ stored.show = Unset
      /\ stored.channel = Unset
  BY <1>1 DEF Init, DefaultStored, StoredSettings, Modes, Privileges
<1>3. /\ lib = [k \in Kinds |-> <<>>] /\ lib \in [Kinds -> Libraries]
      /\ file = [k \in Kinds |-> {<<>>}] /\ file \in [Kinds -> Files]
  BY EmptyLibrary DEF Init, Files
<1>4. SettingsTypeOK
  BY <1>1, <1>2, <1>3 DEF Init, SettingsTypeOK
<1>5. RiskInv
  BY <1>2, SettingsAssumption
     DEF Init, RiskInv, StableIsAgreed, ShowsExperimental, ShownByDefault
<1>6. LoginEntryAgrees /\ ActiveProfileIsSelected
  BY <1>2, SettingsAssumption DEF Init, LoginEntryAgrees, ActiveProfileIsSelected, Known
<1>7. FileInv
  BY <1>3 DEF FileInv
<1> QED BY <1>4, <1>5, <1>6, <1>7 DEF SettingsInv

\* A manager's change that leaves every profile it knew.
LEMMA GrowthKeeps ==
  ASSUME SettingsInv, NEW k \in Kinds, NEW failing, NEW library \in Libraries,
         Changing(k), lib' = [lib EXCEPT ![k] = library],
         Write(WrittenByWindow(k), lib', failing),
         DOMAIN lib[k] \subseteq DOMAIN library, used' \subseteq Custom,
         UNCHANGED <<stored, active>>
  PROVE  SettingsInv'
<1>1. SettingsTypeOK /\ FileInv
  BY DEF SettingsInv
<1>2. /\ UNCHANGED <<entry, windows, widgets, entryTouched, agreed, stored, active>>
      /\ lib' \in [Kinds -> Libraries] /\ changes' \in Nat
      /\ file' \in [Kinds -> Files] /\ unsaved' \subseteq Kinds /\ faults' \in Nat
      /\ FileInv'
  BY <1>1, ChangeFacts
<1>3. \A x \in Kinds : DOMAIN lib[x] \subseteq DOMAIN lib'[x]
  BY <1>1 DEF SettingsTypeOK
<1>4. SettingsTypeOK'
  BY <1>1, <1>2 DEF SettingsTypeOK
<1>5. ActiveProfileIsSelected'
  BY <1>2, <1>3 DEF SettingsInv, ActiveProfileIsSelected, Known
<1>6. RiskInv' /\ LoginEntryAgrees'
  BY <1>2 DEF SettingsInv, RiskInv, LoginEntryAgrees, StableIsAgreed, ShowsExperimental, Channel
<1> QED BY <1>2, <1>4, <1>5, <1>6 DEF SettingsInv

\* Making a profile active changes nothing else of the settings.
LEMMA SelectFacts ==
  ASSUME SettingsInv, NEW k \in Kinds, NEW id \in Ids, Select(k, id)
  PROVE  /\ stored' \in StoredSettings /\ active' \in [Kinds -> Ids]
         /\ active'[k] = id /\ \A x \in Kinds : x # k => active'[x] = active[x]
         /\ \A x \in Kinds : stored'.selected[x] = active'[x]
         /\ stored'.login = stored.login /\ stored'.tun = stored.tun
         /\ stored'.mode = stored.mode /\ stored'.warned = stored.warned
         /\ stored'.show = stored.show /\ stored'.channel = stored.channel
  BY DEF SettingsInv, SettingsTypeOK, StoredSettings, Select, ActiveProfileIsSelected

LEMMA ManagerSteps ==
  ASSUME SettingsInv, ManagerNext
  PROVE  SettingsInv'
<1> USE DEF libraryVars
<1>0. SettingsTypeOK /\ RiskInv /\ LoginEntryAgrees /\ ActiveProfileIsSelected /\ FileInv
  BY DEF SettingsInv
<1>1. ASSUME NEW k \in Kinds, OpenManager(k) PROVE SettingsInv'
  <2>1. windows' = windows \cup {k} /\ k \in Managers
    BY <1>1, SettingsAssumption DEF OpenManager, Managers
  <2>2. SettingsTypeOK' /\ FileInv'
    BY <1>0, <1>1, <2>1 DEF OpenManager, SettingsTypeOK, FileInv, Managers
  <2>3. RiskInv' /\ LoginEntryAgrees' /\ ActiveProfileIsSelected'
    BY <1>0, <1>1, <2>1 DEF OpenManager, RiskInv, LoginEntryAgrees, ActiveProfileIsSelected,
       StableIsAgreed, ShowsExperimental, Channel, Known, Managers
  <2> QED BY <2>2, <2>3 DEF SettingsInv
<1>l. /\ lib \in [Kinds -> Libraries]
      /\ \A v \in Versions : v \in Contents
  BY <1>0 DEF SettingsTypeOK, Contents
<1>2. ASSUME NEW k \in Kinds, NEW failing, NEW id \in Custom, NEW v \in Versions,
             NewProfile(k, id, v, failing)
      PROVE  SettingsInv'
  <2>1. Put(k, id, v) \in Libraries /\ DOMAIN lib[k] \subseteq DOMAIN Put(k, id, v)
    <3>1. v \in Contents
      BY <1>l
    <3> QED BY <1>l, <3>1, LibraryPut
  <2>2. used' \subseteq Custom
    BY <1>0, <1>2 DEF NewProfile, SettingsTypeOK
  <2> QED BY <1>2, <2>1, <2>2, GrowthKeeps DEF NewProfile
<1>3. ASSUME NEW k \in Kinds, NEW failing, NEW id \in Custom, NEW v \in Versions,
             EditProfile(k, id, v, failing)
      PROVE  SettingsInv'
  <2>1. Put(k, id, v) \in Libraries /\ DOMAIN lib[k] \subseteq DOMAIN Put(k, id, v)
    <3>1. v \in Contents
      BY <1>l
    <3> QED BY <1>l, <3>1, LibraryPut
  <2>2. used' \subseteq Custom
    BY <1>0, <1>3 DEF EditProfile, SettingsTypeOK
  <2> QED BY <1>3, <2>1, <2>2, GrowthKeeps DEF EditProfile
<1>4. ASSUME NEW k \in Kinds, NEW failing, NEW source \in Ids, NEW id \in Custom,
             DuplicateProfile(k, source, id, failing)
      PROVE  SettingsInv'
  <2> DEFINE v == IF source \in BuiltIns THEN BuiltInContent ELSE lib[k][source]
  <2>1. v \in Contents
    BY <1>4, <1>l, LibraryHeld DEF DuplicateProfile, Known, Contents
  <2>2. Put(k, id, v) \in Libraries /\ DOMAIN lib[k] \subseteq DOMAIN Put(k, id, v)
    BY <1>l, <2>1, LibraryPut
  <2>3. used' \subseteq Custom
    BY <1>0, <1>4 DEF DuplicateProfile, SettingsTypeOK
  <2> QED BY <1>4, <2>2, <2>3, GrowthKeeps DEF DuplicateProfile
<1>5. ASSUME NEW k \in Kinds, NEW failing, NEW id \in Custom, DeleteProfile(k, id, failing)
      PROVE  SettingsInv'
  <2>1. /\ Changing(k) /\ lib' = [lib EXCEPT ![k] = Without(k, id)]
        /\ Write(WrittenByWindow(k), lib', failing) /\ UNCHANGED used
        /\ Without(k, id) \in Libraries /\ DOMAIN Without(k, id) = DOMAIN lib[k] \ {id}
    BY <1>5, <1>l, LibraryWithout DEF DeleteProfile
  <2>2. /\ UNCHANGED <<entry, windows, widgets, entryTouched, agreed>>
        /\ lib' \in [Kinds -> Libraries] /\ changes' \in Nat
        /\ file' \in [Kinds -> Files] /\ unsaved' \subseteq Kinds /\ faults' \in Nat
        /\ FileInv'
    BY <1>0, <2>1, ChangeFacts
  <2>3. \A x \in Kinds : DOMAIN lib'[x] = IF x = k THEN DOMAIN lib[x] \ {id} ELSE DOMAIN lib[x]
    BY <1>l, <2>1
  <2>4. CASE active[k] = id
    <3>1. Select(k, Fallback) /\ Fallback \in Ids /\ Fallback \in BuiltIns
      BY <1>5, <2>4, SettingsAssumption DEF DeleteProfile, Ids
    <3>2. /\ stored' \in StoredSettings /\ active' \in [Kinds -> Ids]
          /\ active'[k] = Fallback /\ \A x \in Kinds : x # k => active'[x] = active[x]
          /\ \A x \in Kinds : stored'.selected[x] = active'[x]
          /\ stored'.login = stored.login /\ stored'.tun = stored.tun
          /\ stored'.mode = stored.mode /\ stored'.warned = stored.warned
          /\ stored'.show = stored.show /\ stored'.channel = stored.channel
      BY <3>1, SelectFacts
    <3>3. SettingsTypeOK'
      BY <1>0, <2>1, <2>2, <3>2 DEF SettingsTypeOK
    <3>4. ActiveProfileIsSelected'
      BY <1>0, <2>3, <3>1, <3>2 DEF ActiveProfileIsSelected, Known
    <3>5. RiskInv' /\ LoginEntryAgrees'
      BY <1>0, <2>2, <3>2 DEF RiskInv, LoginEntryAgrees, StableIsAgreed, ShowsExperimental, Channel
    <3> QED BY <2>2, <3>3, <3>4, <3>5 DEF SettingsInv
  <2>5. CASE active[k] # id
    <3>1. UNCHANGED <<active, stored>>
      BY <1>5, <2>5 DEF DeleteProfile
    <3>2. SettingsTypeOK'
      BY <1>0, <2>1, <2>2, <3>1 DEF SettingsTypeOK
    <3>3. ActiveProfileIsSelected'
      BY <1>0, <2>3, <2>5, <3>1 DEF ActiveProfileIsSelected, Known
    <3>4. RiskInv' /\ LoginEntryAgrees'
      BY <1>0, <2>2, <3>1 DEF RiskInv, LoginEntryAgrees, StableIsAgreed, ShowsExperimental, Channel
    <3> QED BY <2>2, <3>2, <3>3, <3>4 DEF SettingsInv
  <2> QED BY <2>4, <2>5
<1>6. ASSUME NEW k \in Kinds, NEW failing, NEW id \in Ids, SetActive(k, id, failing)
      PROVE  SettingsInv'
  <2>1. /\ Changing(k) /\ lib' = [lib EXCEPT ![k] = lib[k]] /\ lib[k] \in Libraries
        /\ Write(WrittenByWindow(k), lib', failing) /\ UNCHANGED <<lib, used>>
    BY <1>6, <1>l DEF SetActive
  <2>2. /\ UNCHANGED <<entry, windows, widgets, entryTouched, agreed>>
        /\ lib' \in [Kinds -> Libraries] /\ changes' \in Nat
        /\ file' \in [Kinds -> Files] /\ unsaved' \subseteq Kinds /\ faults' \in Nat
        /\ FileInv'
    BY <1>0, <2>1, ChangeFacts
  <2>3. /\ stored' \in StoredSettings /\ active' \in [Kinds -> Ids]
        /\ active'[k] = id /\ \A x \in Kinds : x # k => active'[x] = active[x]
        /\ \A x \in Kinds : stored'.selected[x] = active'[x]
        /\ stored'.login = stored.login /\ stored'.tun = stored.tun
        /\ stored'.mode = stored.mode /\ stored'.warned = stored.warned
        /\ stored'.show = stored.show /\ stored'.channel = stored.channel
    BY <1>6, SelectFacts DEF SetActive
  <2>4. SettingsTypeOK'
    BY <1>0, <2>1, <2>2, <2>3 DEF SettingsTypeOK
  <2>5. ActiveProfileIsSelected'
    BY <1>0, <1>6, <2>1, <2>3 DEF ActiveProfileIsSelected, SetActive, Known
  <2>6. RiskInv' /\ LoginEntryAgrees'
    BY <1>0, <2>2, <2>3 DEF RiskInv, LoginEntryAgrees, StableIsAgreed, ShowsExperimental, Channel
  <2> QED BY <2>2, <2>4, <2>5, <2>6 DEF SettingsInv
<1>7. ASSUME NEW k \in Kinds, NEW failing, CloseManager(k, failing) PROVE SettingsInv'
  <2>1. /\ windows' = windows \ {k} /\ Write({k}, lib, failing) /\ k # "settings"
        /\ UNCHANGED <<stored, entry, lib, active, entryTouched, agreed, used, changes>>
    BY <1>7, SettingsAssumption DEF CloseManager
  <2>2. /\ file' \in [Kinds -> Files] /\ unsaved' \subseteq Kinds /\ faults' \in Nat
        /\ \A x \in Kinds : x = k /\ x \notin unsaved' => file'[x] = {lib[x]}
        /\ \A x \in Kinds : x # k => file'[x] = file[x] /\ (x \in unsaved' <=> x \in unsaved)
        /\ \A x \in Kinds : file'[x] = {} => file[x] = {} /\ (x \in unsaved => x \in unsaved')
    <3>1. {k} \in SUBSET Kinds /\ file \in [Kinds -> Files] /\ unsaved \subseteq Kinds /\ faults \in Nat
      BY <1>0 DEF SettingsTypeOK
    <3>2. lib \in [Kinds -> Libraries] /\ Write({k}, lib, failing)
      BY <1>l, <2>1
    <3>3. /\ file' \in [Kinds -> Files] /\ unsaved' \subseteq Kinds /\ faults' \in Nat
          /\ \A x \in Kinds : x \in {k} /\ x \notin unsaved' => file'[x] = {lib[x]}
          /\ \A x \in Kinds : x \notin {k} => file'[x] = file[x] /\ (x \in unsaved' <=> x \in unsaved)
          /\ \A x \in Kinds : file'[x] = {} => file[x] = {} /\ (x \in unsaved => x \in unsaved')
      BY ONLY <3>1, <3>2, WriteFacts
    <3> QED BY <3>3
  <2>3. FileInv'
    BY <1>0, <2>1, <2>2 DEF FileInv
  <2>4. "settings" \in windows' =>
          /\ widgets' \in ShownSettings
          /\ widgets'.channel = widgets.channel /\ widgets'.show = widgets.show
          /\ "settings" \in windows
    BY <1>0, <1>7, <2>1 DEF CloseManager, SettingsTypeOK, ShownSettings
  <2>5. SettingsTypeOK'
    BY <1>0, <2>1, <2>2, <2>4 DEF SettingsTypeOK
  <2>6. RiskInv' /\ LoginEntryAgrees' /\ ActiveProfileIsSelected'
    BY <1>0, <2>1, <2>4 DEF RiskInv, LoginEntryAgrees, ActiveProfileIsSelected,
       StableIsAgreed, ShowsExperimental, Channel, Known
  <2> QED BY <2>3, <2>5, <2>6 DEF SettingsInv
<1> QED BY <1>1, <1>2, <1>3, <1>4, <1>5, <1>6, <1>7 DEF ManagerNext, Ids

\* An edit in the settings dialog, which changes nothing but what it shows.
LEMMA EditKeeps ==
  ASSUME SettingsInv, "settings" \in windows, changes' \in Nat, agreed' \in BOOLEAN,
         agreed => agreed', widgets' \in ShownSettings,
         widgets'.channel \in StableLike /\ widgets'.show => agreed',
         UNCHANGED <<stored, entry, windows, entryTouched>>,
         UNCHANGED <<lib, file, active, unsaved, used, faults>>
  PROVE  SettingsInv'
<1>1. SettingsTypeOK'
  BY DEF SettingsInv, SettingsTypeOK
<1>2. RiskInv' /\ LoginEntryAgrees' /\ ActiveProfileIsSelected' /\ FileInv'
  BY DEF SettingsInv, RiskInv, LoginEntryAgrees, ActiveProfileIsSelected, FileInv,
         StableIsAgreed, ShowsExperimental, Channel, Known
<1> QED BY <1>1, <1>2 DEF SettingsInv

\* However far a save gets, what it leaves in place agrees with what the user accepted.
LEMMA SaveKeeps ==
  ASSUME SettingsInv, Saving, NEW failing, FirstHalfSaved(failing),
         stored' \in StoredSettings, stored'.login = widgets.login,
         stored'.selected = Chosen,
         stored'.tun \/ stored'.mode = "tun" => stored'.warned,
         StableIsAgreed', UNCHANGED agreed,
         windows' \subseteq windows,
         "settings" \in windows' => /\ widgets' \in ShownSettings
                                    /\ widgets'.channel = widgets.channel
                                    /\ widgets'.show = widgets.show
  PROVE  SettingsInv'
<1>0. SettingsTypeOK /\ RiskInv /\ ActiveProfileIsSelected /\ "settings" \in windows
  BY DEF SettingsInv, Saving
<1>1. /\ entry' = widgets.login /\ entry' \in BOOLEAN /\ entryTouched' = FALSE
      /\ active' = Chosen /\ active' \in [Kinds -> Ids]
      /\ UNCHANGED <<lib, used, changes>>
      /\ file' \in [Kinds -> Files] /\ unsaved' \subseteq Kinds /\ faults' \in Nat
      /\ FileInv'
  BY <1>0, FirstHalfFacts
<1>2. SettingsTypeOK'
  BY <1>0, <1>1 DEF SettingsTypeOK
<1>3. ActiveProfileIsSelected'
  BY <1>0, <1>1, ChosenKnown DEF ActiveProfileIsSelected, Known
<1>4. RiskInv' /\ LoginEntryAgrees'
  BY <1>0, <1>1 DEF RiskInv, LoginEntryAgrees
<1> QED BY <1>1, <1>2, <1>3, <1>4 DEF SettingsInv

\* What the settings are at each stop of a save.
LEMMA SaveFacts ==
  ASSUME SettingsInv, "settings" \in windows
  PROVE  LET half == BeforeTunWarning(stored)
             most == WithTun(TunAccepted(half))
             all == WithRest(most) IN
         /\ half \in StoredSettings /\ most \in StoredSettings /\ all \in StoredSettings
         /\ half.login = widgets.login /\ most.login = widgets.login /\ all.login = widgets.login
         /\ half.selected = Chosen /\ most.selected = Chosen /\ all.selected = Chosen
         /\ half.tun = stored.tun /\ half.mode = stored.mode /\ half.warned = stored.warned
         /\ most.tun \/ most.mode = "tun" => most.warned
         /\ all.tun \/ all.mode = "tun" => all.warned
         /\ half.channel = stored.channel /\ half.show = stored.show
         /\ most.channel = stored.channel /\ most.show = stored.show
         /\ all.channel = widgets.channel
         /\ all.show = IF widgets.show THEN "yes" ELSE "no"
<1> DEFINE half == BeforeTunWarning(stored)
           most == WithTun(TunAccepted(half))
           all == WithRest(most)
<1>1. /\ half \in StoredSettings /\ most \in StoredSettings /\ all \in StoredSettings
      /\ widgets \in ShownSettings /\ stored \in StoredSettings
  BY SaveTypes DEF SettingsInv, SettingsTypeOK
<1>2. /\ half.login = widgets.login /\ half.selected = Chosen
      /\ half.tun = stored.tun /\ half.mode = stored.mode /\ half.warned = stored.warned
      /\ half.channel = stored.channel /\ half.show = stored.show
  BY <1>1 DEF BeforeTunWarning, WithProfiles, WithLogin, StoredSettings
<1> HIDE DEF half
<1>3. /\ most.login = half.login /\ most.selected = half.selected
      /\ most.channel = half.channel /\ most.show = half.show
      /\ most.tun = widgets.tun /\ most.mode = widgets.mode
      /\ most.warned = (half.warned \/ NeedsTunWarning)
  BY <1>1 DEF WithTun, TunAccepted, StoredSettings
<1> HIDE DEF most
<1>4. /\ all.login = most.login /\ all.selected = most.selected /\ all.tun = most.tun
      /\ all.mode = most.mode /\ all.warned = most.warned
      /\ all.channel = widgets.channel /\ all.show = IF widgets.show THEN "yes" ELSE "no"
  BY <1>1 DEF WithRest, StoredSettings
<1>5. most.tun \/ most.mode = "tun" => most.warned
  BY <1>1, <1>2, <1>3 DEF NeedsTunWarning, StoredSettings, ShownSettings
<1> QED BY <1>1, <1>2, <1>3, <1>4, <1>5 DEF half, most

LEMMA DialogSteps ==
  ASSUME SettingsInv, DialogNext
  PROVE  SettingsInv'
<1> USE DEF libraryVars
<1>0. SettingsTypeOK /\ RiskInv /\ LoginEntryAgrees /\ ActiveProfileIsSelected /\ FileInv
  BY DEF SettingsInv
<1>w. "settings" \in windows => widgets \in ShownSettings
  BY <1>0 DEF SettingsTypeOK
<1>1. CASE OpenSettings
  <2>1. /\ windows' = windows \cup {"settings"} /\ "dns" \notin windows
        /\ widgets' = Widgets(stored)
        /\ UNCHANGED <<stored, entry, entryTouched, agreed>> /\ UNCHANGED libraryVars
    BY <1>1 DEF OpenSettings
  <2>2. Channel(stored) \in Channels /\ ShowsExperimental(stored) \in BOOLEAN
    BY <1>0, SettingsAssumption
       DEF SettingsTypeOK, StoredSettings, Channel, ShowsExperimental, ShownByDefault
  <2>3. /\ widgets' \in ShownSettings /\ widgets'.channel = Channel(stored)
        /\ widgets'.show = ShowsExperimental(stored)
    BY <1>0, <2>1, <2>2 DEF Widgets, ShownSettings, SettingsTypeOK, StoredSettings
  <2>4. SettingsTypeOK' /\ FileInv'
    BY <1>0, <2>1, <2>3 DEF SettingsTypeOK, FileInv
  <2>5. RiskInv' /\ LoginEntryAgrees' /\ ActiveProfileIsSelected'
    BY <1>0, <2>1, <2>3 DEF RiskInv, StableIsAgreed, LoginEntryAgrees,
       ActiveProfileIsSelected, Known, Channel, ShowsExperimental
  <2> QED BY <2>4, <2>5 DEF SettingsInv
<1>e. ASSUME Editing
      PROVE  /\ "settings" \in windows /\ changes' \in Nat /\ widgets \in ShownSettings
             /\ agreed \in BOOLEAN
             /\ UNCHANGED <<stored, entry, windows, entryTouched>>
             /\ UNCHANGED <<lib, file, active, unsaved, used, faults>>
             /\ widgets.channel \in StableLike /\ widgets.show => agreed
  BY <1>0, <1>e, <1>w DEF Editing, RiskInv, SettingsTypeOK
<1>2. CASE EditTunGroup
  <2>1. /\ widgets' \in ShownSettings
        /\ widgets'.channel = widgets.channel /\ widgets'.show = widgets.show
        /\ UNCHANGED agreed /\ Editing
    BY <1>e, <1>2 DEF EditTunGroup, ShownSettings, Modes, Privileges
  <2> QED BY <1>e, <2>1, EditKeeps
<1>3. CASE EditLogin
  <2>1. /\ widgets' \in ShownSettings
        /\ widgets'.channel = widgets.channel /\ widgets'.show = widgets.show
        /\ UNCHANGED agreed /\ Editing
    BY <1>e, <1>3 DEF EditLogin, ShownSettings
  <2> QED BY <1>e, <2>1, EditKeeps
<1>4. ASSUME NEW k \in Kinds, NEW id \in Ids, ChooseProfile(k, id) PROVE SettingsInv'
  <2>1. /\ widgets' \in ShownSettings
        /\ widgets'.channel = widgets.channel /\ widgets'.show = widgets.show
        /\ UNCHANGED agreed /\ Editing
    BY <1>e, <1>4 DEF ChooseProfile, ShownSettings
  <2> QED BY <1>e, <2>1, EditKeeps
<1>5. ASSUME NEW c \in Channels, EditChannel(c) PROVE SettingsInv'
  <2>1. /\ widgets' \in ShownSettings
        /\ ~(widgets'.channel \in StableLike /\ widgets'.show)
        /\ UNCHANGED agreed /\ Editing
    BY <1>e, <1>5 DEF EditChannel, ShownSettings, ShownByDefault
  <2> QED BY <1>e, <2>1, EditKeeps
<1>6. CASE TickShow
  <2>1. /\ widgets' \in ShownSettings
        /\ ~(widgets'.channel \in StableLike)
        /\ UNCHANGED agreed /\ Editing
    BY <1>e, <1>6 DEF TickShow, ShownSettings
  <2> QED BY <1>e, <2>1, EditKeeps
<1>7. CASE AgreeToShow
  <2>1. widgets' \in ShownSettings /\ agreed' = TRUE /\ Editing
    BY <1>e, <1>7 DEF AgreeToShow, ShownSettings
  <2> QED BY <1>e, <2>1, EditKeeps
<1>8. CASE SaveStopsAtLoginEntry
  <2>1. UNCHANGED vars
    BY <1>8 DEF SaveStopsAtLoginEntry
  <2> QED BY <1>0, <2>1 DEF SettingsInv, SettingsTypeOK, RiskInv, LoginEntryAgrees,
         ActiveProfileIsSelected, FileInv, StableIsAgreed, ShowsExperimental, Channel, Known, vars
<1>9. ASSUME NEW failing, NEW answer, SaveStopsAtTunWarning(answer, failing) PROVE SettingsInv'
  <2>1. Saving /\ FirstHalfSaved(failing) /\ stored' = BeforeTunWarning(stored)
        /\ UNCHANGED <<windows, agreed>> /\ "settings" \in windows
    BY <1>9 DEF SaveStopsAtTunWarning, Saving
  <2>2. /\ stored' \in StoredSettings /\ stored'.login = widgets.login
        /\ stored'.selected = Chosen
        /\ stored'.tun = stored.tun /\ stored'.mode = stored.mode /\ stored'.warned = stored.warned
        /\ stored'.channel = stored.channel /\ stored'.show = stored.show
    BY <2>1, SaveFacts
  <2>3. /\ stored'.tun \/ stored'.mode = "tun" => stored'.warned
        /\ StableIsAgreed'
    BY <1>0, <2>1, <2>2 DEF RiskInv, StableIsAgreed, Channel, ShowsExperimental
  <2>4. /\ widgets' \in ShownSettings
        /\ widgets'.channel = widgets.channel /\ widgets'.show = widgets.show
    BY <1>9, <1>w, <2>1 DEF SaveStopsAtTunWarning, ShownSettings, Modes
  <2> QED BY <2>1, <2>2, <2>3, <2>4, SaveKeeps
<1>10. ASSUME NEW failing, SaveStopsAtKillSwitchWarning(failing) PROVE SettingsInv'
  <2>1. Saving /\ FirstHalfSaved(failing) /\ "settings" \in windows
        /\ stored' = WithTun(TunAccepted(BeforeTunWarning(stored)))
        /\ UNCHANGED <<windows, widgets, agreed>>
    BY <1>10 DEF SaveStopsAtKillSwitchWarning, Saving
  <2>2. /\ stored' \in StoredSettings /\ stored'.login = widgets.login
        /\ stored'.selected = Chosen
        /\ stored'.tun \/ stored'.mode = "tun" => stored'.warned
        /\ stored'.channel = stored.channel /\ stored'.show = stored.show
    BY <2>1, SaveFacts
  <2>3. StableIsAgreed'
    BY <1>0, <2>1, <2>2 DEF RiskInv, StableIsAgreed, Channel, ShowsExperimental
  <2> QED BY <1>w, <2>1, <2>2, <2>3, SaveKeeps
<1>11. ASSUME NEW failing, SaveSettings(failing) PROVE SettingsInv'
  <2>1. Saving /\ FirstHalfSaved(failing) /\ "settings" \in windows
        /\ stored' = WithRest(WithTun(TunAccepted(BeforeTunWarning(stored))))
        /\ windows' = windows \ {"settings"} /\ UNCHANGED agreed
    BY <1>11 DEF SaveSettings, Saving
  <2>2. /\ stored' \in StoredSettings /\ stored'.login = widgets.login
        /\ stored'.selected = Chosen
        /\ stored'.tun \/ stored'.mode = "tun" => stored'.warned
        /\ stored'.channel = widgets.channel
        /\ stored'.show = IF widgets.show THEN "yes" ELSE "no"
    BY <2>1, SaveFacts
  <2>3. widgets.channel \in Channels /\ widgets.channel # Unset
    BY <1>w, <2>1, SettingsAssumption DEF ShownSettings, Unset
  <2>4. StableIsAgreed'
    BY <1>0, <2>1, <2>2, <2>3 DEF RiskInv, StableIsAgreed, Channel, ShowsExperimental, Unset
  <2> QED BY <2>1, <2>2, <2>4, SaveKeeps
<1>12. CASE CancelSettings
  <2>1. /\ windows' = windows \ {"settings"}
        /\ UNCHANGED <<stored, entry, entryTouched, agreed>> /\ UNCHANGED libraryVars
    BY <1>12 DEF CancelSettings
  <2>2. SettingsTypeOK' /\ FileInv'
    BY <1>0, <2>1 DEF SettingsTypeOK, FileInv
  <2>3. RiskInv' /\ LoginEntryAgrees' /\ ActiveProfileIsSelected'
    BY <1>0, <2>1 DEF RiskInv, LoginEntryAgrees, ActiveProfileIsSelected, StableIsAgreed,
       ShowsExperimental, Channel, Known
  <2> QED BY <2>2, <2>3 DEF SettingsInv
<1> QED BY <1>1, <1>2, <1>3, <1>4, <1>5, <1>6, <1>7, <1>8, <1>9, <1>10, <1>11, <1>12
        DEF DialogNext, Ids

LEMMA WizardSteps ==
  ASSUME SettingsInv, WizardNext
  PROVE  SettingsInv'
<1> USE DEF libraryVars
<1>0. SettingsTypeOK /\ RiskInv /\ LoginEntryAgrees /\ ActiveProfileIsSelected /\ FileInv
  BY DEF SettingsInv
<1>1. CASE OpenWizard \/ SkipWizard
  <2>1. /\ windows' \subseteq {"wizard"} /\ windows \subseteq {"wizard"}
        /\ UNCHANGED <<stored, entry, widgets, entryTouched, agreed>> /\ UNCHANGED libraryVars
    BY <1>1 DEF OpenWizard, SkipWizard
  <2>2. SettingsTypeOK' /\ FileInv'
    BY <1>0, <2>1 DEF SettingsTypeOK, FileInv
  <2>3. RiskInv' /\ LoginEntryAgrees' /\ ActiveProfileIsSelected'
    BY <1>0, <2>1 DEF RiskInv, LoginEntryAgrees, ActiveProfileIsSelected, StableIsAgreed,
       ShowsExperimental, Channel, Known
  <2> QED BY <2>2, <2>3 DEF SettingsInv
<1>2. ASSUME NEW mode \in Modes, NEW ticked \in BOOLEAN, NEW id \in BuiltIns, NEW failing,
             FinishWizard(mode, ticked, id, failing)
      PROVE  SettingsInv'
  <2>1. /\ windows' = {} /\ active' = [k \in Kinds |-> id] /\ Write(Kinds, lib, failing)
        /\ UNCHANGED <<entry, lib, widgets, entryTouched, agreed, used, changes>>
        /\ mode = "tun" => ticked
    BY <1>2 DEF FinishWizard
  <2>2. id \in Ids /\ active' \in [Kinds -> Ids] /\ \A k \in Kinds : active'[k] = id
    BY <2>1 DEF Ids
  <2>3. /\ stored' \in StoredSettings /\ stored'.selected = active'
        /\ stored'.login = stored.login /\ stored'.channel = stored.channel
        /\ stored'.show = stored.show
        /\ stored'.tun \/ stored'.mode = "tun" => stored'.warned
    BY <1>0, <1>2, <2>2 DEF FinishWizard, WithWizard, SettingsTypeOK, StoredSettings, RiskInv,
       Modes
  <2>4. /\ file' \in [Kinds -> Files] /\ unsaved' \subseteq Kinds /\ faults' \in Nat
        /\ \A k \in Kinds : k \notin unsaved' => file'[k] = {lib[k]}
    <3>1. /\ file \in [Kinds -> Files] /\ unsaved \subseteq Kinds /\ faults \in Nat
          /\ lib \in [Kinds -> Libraries] /\ Write(Kinds, lib, failing)
      BY <1>0, <2>1 DEF SettingsTypeOK
    <3> QED BY ONLY <3>1, WriteFacts
  <2>5. SettingsTypeOK' /\ FileInv'
    BY <1>0, <2>1, <2>2, <2>3, <2>4 DEF SettingsTypeOK, FileInv
  <2>6. RiskInv' /\ LoginEntryAgrees' /\ ActiveProfileIsSelected'
    BY <1>0, <2>1, <2>2, <2>3 DEF RiskInv, LoginEntryAgrees, ActiveProfileIsSelected,
       StableIsAgreed, ShowsExperimental, Channel, Known
  <2> QED BY <2>5, <2>6 DEF SettingsInv
<1> QED BY <1>1, <1>2 DEF WizardNext, Modes

\* A start leaves settings, libraries and files in agreement, whatever was on the disk.
LEMMA StartKeeps ==
  ASSUME SettingsInv, Start, file' \in [Kinds -> Files], unsaved' \subseteq Kinds,
         faults' \in Nat, \A k \in Kinds : file'[k] = {} => k \in unsaved',
         UNCHANGED <<entry, entryTouched>> \/ (entry' \in BOOLEAN /\ entryTouched' = TRUE)
  PROVE  SettingsInv'
<1>0. SettingsTypeOK /\ RiskInv /\ LoginEntryAgrees
  BY DEF SettingsInv
<1>1. /\ Load(Fixed(stored)) /\ windows' = {}
      /\ UNCHANGED <<agreed, used, changes>>
  BY DEF Start
<1>2. /\ lib' \in [Kinds -> Libraries] /\ active' \in [Kinds -> Ids]
      /\ stored' = [Fixed(stored) EXCEPT !.selected = active']
      /\ \A k \in Kinds : file'[k] # {} => file'[k] = {lib'[k]}
      /\ \A k \in Kinds : active'[k] \in BuiltIns \cup DOMAIN lib'[k]
  BY <1>1, LoadFacts
<1>3. /\ stored' \in StoredSettings /\ stored'.selected = active'
      /\ stored'.login = stored.login /\ stored'.channel = stored.channel
      /\ stored'.show = stored.show /\ stored'.tun = stored.tun
      /\ stored'.mode = stored.mode /\ stored'.warned = stored.warned
  BY <1>0, <1>2 DEF SettingsTypeOK, StoredSettings, Fixed
<1>4. SettingsTypeOK' /\ FileInv'
  BY <1>0, <1>1, <1>2, <1>3 DEF SettingsTypeOK, FileInv
<1>5. RiskInv' /\ LoginEntryAgrees' /\ ActiveProfileIsSelected'
  BY <1>0, <1>1, <1>2, <1>3 DEF RiskInv, LoginEntryAgrees, ActiveProfileIsSelected,
     StableIsAgreed, ShowsExperimental, Channel, Known
<1> QED BY <1>4, <1>5 DEF SettingsInv

LEMMA OtherSteps ==
  ASSUME SettingsInv, OtherNext
  PROVE  SettingsInv'
<1> USE DEF libraryVars
<1>0. SettingsTypeOK /\ RiskInv /\ LoginEntryAgrees /\ ActiveProfileIsSelected /\ FileInv
  BY DEF SettingsInv
<1>1. CASE SwitchToSystemProxy
  <2>1. /\ stored' = [stored EXCEPT !.mode = "proxy", !.tun = FALSE]
        /\ UNCHANGED <<entry, windows, widgets, entryTouched, agreed>> /\ UNCHANGED libraryVars
    BY <1>1 DEF SwitchToSystemProxy
  <2>2. /\ stored' \in StoredSettings /\ stored'.tun = FALSE /\ stored'.mode = "proxy"
        /\ stored'.login = stored.login /\ stored'.channel = stored.channel
        /\ stored'.show = stored.show /\ stored'.selected = stored.selected
    BY <1>0, <2>1 DEF SettingsTypeOK, StoredSettings, Modes
  <2>3. SettingsTypeOK' /\ FileInv'
    BY <1>0, <2>1, <2>2 DEF SettingsTypeOK, FileInv
  <2>4. RiskInv' /\ LoginEntryAgrees' /\ ActiveProfileIsSelected'
    BY <1>0, <2>1, <2>2 DEF RiskInv, LoginEntryAgrees, ActiveProfileIsSelected,
       StableIsAgreed, ShowsExperimental, Channel, Known
  <2> QED BY <2>3, <2>4 DEF SettingsInv
<1>2. ASSUME NEW i \in Imports, ImportSettings(i) PROVE SettingsInv'
  <2>1. /\ windows \subseteq {"wizard"} /\ Load(Merged(stored, i))
        /\ agreed' = (agreed \/ ("show" \in DOMAIN i /\ i.show = "yes"))
        /\ UNCHANGED <<file, entry, windows, widgets, entryTouched, unsaved, used, faults, changes>>
    BY <1>2 DEF ImportSettings
  <2>2. /\ lib' \in [Kinds -> Libraries] /\ active' \in [Kinds -> Ids]
        /\ stored' = [Merged(stored, i) EXCEPT !.selected = active']
        /\ \A k \in Kinds : file'[k] # {} => file'[k] = {lib'[k]}
        /\ \A k \in Kinds : active'[k] \in BuiltIns \cup DOMAIN lib'[k]
    <3>1. file' \in [Kinds -> Files]
      BY <1>0, <2>1 DEF SettingsTypeOK
    <3> QED BY <2>1, <3>1, LoadFacts
  <2>3. /\ stored' \in StoredSettings /\ stored'.login = stored.login
        /\ stored'.tun \/ stored'.mode = "tun" => stored'.warned
        /\ stored'.show = "yes" => stored.show = "yes" \/ agreed'
        /\ (stored'.channel = stored.channel /\ stored'.show = stored.show)
             \/ stored'.show \in {"yes", "no"}
        /\ "show" \in DOMAIN i /\ i.show = "yes" => agreed'
    BY <1>0, <2>1, <2>2, MergedFacts DEF RiskInv
  <2>4. stored'.selected = active'
    <3>1. "selected" \in DOMAIN Merged(stored, i)
      BY <1>0 DEF Merged, SettingsTypeOK, StoredSettings
    <3> QED BY <2>2, <3>1
  <2>5. StableIsAgreed'
    <3>1. CASE "show" \in DOMAIN i
      <4>1. stored'.show = i.show
        BY <1>0, <2>2, <3>1 DEF Merged, SettingsTypeOK, StoredSettings
      <4>2. i.show \in {"yes", "no"}
        BY <3>1, ImportsAssumption
      <4> QED BY <2>3, <3>1, <4>1, <4>2 DEF StableIsAgreed, ShowsExperimental, Unset
    <3>2. CASE "show" \notin DOMAIN i
      <4>1. "channel" \notin DOMAIN i
        BY <3>2, ImportsAssumption
      <4>2. stored'.show = stored.show /\ stored'.channel = stored.channel
        BY <1>0, <2>2, <3>2, <4>1 DEF Merged, SettingsTypeOK, StoredSettings
      <4> QED BY <1>0, <2>1, <4>2 DEF RiskInv, StableIsAgreed, ShowsExperimental, Channel
    <3> QED BY <3>1, <3>2
  <2>6. SettingsTypeOK' /\ FileInv'
    BY <1>0, <2>1, <2>2, <2>3 DEF SettingsTypeOK, FileInv
  <2>7. RiskInv' /\ LoginEntryAgrees' /\ ActiveProfileIsSelected'
    BY <1>0, <2>1, <2>2, <2>3, <2>4, <2>5 DEF RiskInv, LoginEntryAgrees,
       ActiveProfileIsSelected, Known
  <2> QED BY <2>6, <2>7 DEF SettingsInv
<1>3. CASE OtherChangesEntry
  <2>1. SettingsTypeOK' /\ FileInv'
    BY <1>0, <1>3 DEF OtherChangesEntry, SettingsTypeOK, FileInv
  <2>2. RiskInv' /\ LoginEntryAgrees' /\ ActiveProfileIsSelected'
    BY <1>0, <1>3 DEF OtherChangesEntry, RiskInv, LoginEntryAgrees, ActiveProfileIsSelected,
       StableIsAgreed, ShowsExperimental, Channel, Known
  <2> QED BY <2>1, <2>2 DEF SettingsInv
<1>4. ASSUME NEW failing, QuitAndStart(failing) PROVE SettingsInv'
  <2>1. Write(Kinds, lib, failing) /\ Start
    BY <1>4 DEF QuitAndStart
  <2>2. /\ file' \in [Kinds -> Files] /\ unsaved' \subseteq Kinds /\ faults' \in Nat
        /\ \A k \in Kinds : k \notin unsaved' => file'[k] = {lib[k]}
    <3>1. /\ file \in [Kinds -> Files] /\ unsaved \subseteq Kinds /\ faults \in Nat
          /\ lib \in [Kinds -> Libraries] /\ Write(Kinds, lib, failing)
      BY <1>0, <2>1 DEF SettingsTypeOK
    <3> QED BY ONLY <3>1, WriteFacts
  <2> QED BY <1>4, <2>1, <2>2, StartKeeps DEF QuitAndStart
<1>5. CASE CrashAndStart
  <2>1. /\ Start /\ UNCHANGED <<file, unsaved, faults>>
        /\ file \in [Kinds -> Files] /\ unsaved \subseteq Kinds /\ faults \in Nat
        /\ \A k \in Kinds : file[k] = {} => k \in unsaved
    BY <1>0, <1>5 DEF CrashAndStart, SettingsTypeOK, FileInv
  <2> QED BY <1>5, <2>1, StartKeeps DEF CrashAndStart
<1>6. CASE CrashAtLoginEntry
  <2>1. /\ Start /\ UNCHANGED <<file, unsaved, faults>>
        /\ file \in [Kinds -> Files] /\ unsaved \subseteq Kinds /\ faults \in Nat
        /\ \A k \in Kinds : file[k] = {} => k \in unsaved
    BY <1>0, <1>6 DEF CrashAtLoginEntry, SettingsTypeOK, FileInv
  <2>2. entry' \in BOOLEAN /\ entryTouched' = TRUE
    BY <1>0, <1>6 DEF CrashAtLoginEntry, Saving, SettingsTypeOK, ShownSettings
  <2> QED BY <2>1, <2>2, StartKeeps
<1>7. ASSUME NEW k \in Kinds, DamageFile(k) PROVE SettingsInv'
  <2>1. SettingsTypeOK' /\ FileInv'
    BY <1>0, <1>7 DEF DamageFile, SettingsTypeOK, FileInv, Files
  <2>2. RiskInv' /\ LoginEntryAgrees' /\ ActiveProfileIsSelected'
    BY <1>0, <1>7 DEF DamageFile, RiskInv, LoginEntryAgrees, ActiveProfileIsSelected,
       StableIsAgreed, ShowsExperimental, Channel, Known
  <2> QED BY <2>1, <2>2 DEF SettingsInv
<1> QED BY <1>1, <1>2, <1>3, <1>4, <1>5, <1>6, <1>7 DEF OtherNext

LEMMA SettingsStep == SettingsInv /\ [Next]_vars => SettingsInv'
<1> SUFFICES ASSUME SettingsInv, [Next]_vars PROVE SettingsInv'
  OBVIOUS
<1>1. CASE UNCHANGED vars
  BY <1>1 DEF SettingsInv, SettingsTypeOK, RiskInv, LoginEntryAgrees, ActiveProfileIsSelected,
     FileInv, StableIsAgreed, ShowsExperimental, Channel, Known, vars
<1> QED BY <1>1, ManagerSteps, DialogSteps, WizardSteps, OtherSteps DEF Next

\* With files that hold what the managers do, a start finds everything as it was.
LEMMA StartFindsAll ==
  ASSUME SettingsInv, Start, file' \in [Kinds -> Files],
         \A k \in Kinds : file'[k] = {lib[k]}
  PROVE  UNCHANGED <<lib, active>>
<1>0. SettingsTypeOK /\ ActiveProfileIsSelected
  BY DEF SettingsInv
<1>1. /\ lib' \in [Kinds -> Libraries] /\ active' \in [Kinds -> Ids]
      /\ \A k \in Kinds : file'[k] # {} => file'[k] = {lib'[k]}
      /\ \A k \in Kinds : Fixed(stored).selected[k] \in BuiltIns \cup DOMAIN lib'[k]
           => active'[k] = Fixed(stored).selected[k]
  BY LoadFacts DEF Start
<1>2. \A k \in Kinds : lib'[k] = lib[k]
  BY <1>1
<1>3. Fixed(stored).selected = stored.selected
  BY <1>0 DEF Fixed, SettingsTypeOK, StoredSettings
<1>4. \A k \in Kinds : active'[k] = active[k]
  BY <1>0, <1>1, <1>2, <1>3 DEF ActiveProfileIsSelected, Known
<1> QED BY <1>0, <1>1, <1>2, <1>4 DEF SettingsTypeOK

-----------------------------------------------------------------------------
(* Theorems *)

\* The settings, the libraries and what the dialog shows keep their types, through nested
\* windows, saves that stop half way, imports, lost writes and kills.
THEOREM SettingsTypeCorrect == Spec => []SettingsTypeOK
<1>1. SettingsInv => SettingsTypeOK
  BY DEF SettingsInv
<1> QED BY <1>1, SettingsStart, SettingsStep, PTL DEF Spec

\* Nothing that may harm is in effect for somebody who was not asked, in the dialog, in the
\* wizard or where the settings came from (SettingsDialog::validateAndSave, FeatureGate).
THEOREM RisksAlwaysAgreed == Spec => []RisksAreAgreed
<1>1. SettingsInv => RisksAreAgreed
  BY DEF SettingsInv, SettingsTypeOK, StoredSettings, RiskInv, RisksAreAgreed, TunIsWarned,
     EffectiveMode
<1> QED BY <1>1, SettingsStart, SettingsStep, PTL DEF Spec

\* The setting and the desktop agree about starting at login unless somebody else changed
\* the entry since, or a crash came between entry and setting (the order of writes in
\* SettingsDialog::validateAndSave).
THEOREM LoginEntryAlwaysAgrees == Spec => []LoginEntryAgrees
<1>1. SettingsInv => LoginEntryAgrees
  BY DEF SettingsInv
<1> QED BY <1>1, SettingsStart, SettingsStep, PTL DEF Spec

\* The profile in use is one its manager has and the one the settings name, after
\* deletions, reloads and restarts too (RoutingManager, DnsManager).
THEOREM ActiveAlwaysSelected == Spec => []ActiveProfileIsSelected
<1>1. SettingsInv => ActiveProfileIsSelected
  BY DEF SettingsInv
<1> QED BY <1>1, SettingsStart, SettingsStep, PTL DEF Spec

\* With the DNS window closed and the last writes done, an end of any kind loses neither a
\* profile nor the choice of one.
THEOREM ProfilesAlwaysSurvive == Spec => ProfilesSurvive
<1> DEFINE Survives ==
      (CrashAndStart \/ CrashAtLoginEntry \/ \E failing \in SUBSET Kinds : QuitAndStart(failing))
        /\ "dns" \notin windows /\ unsaved = {} => UNCHANGED <<lib, active>>
<1>1. SettingsInv /\ [Next]_vars => [Survives]_vars
  <2> SUFFICES ASSUME SettingsInv, "dns" \notin windows, unsaved = {},
                      \/ CrashAndStart \/ CrashAtLoginEntry
                      \/ \E failing \in SUBSET Kinds : QuitAndStart(failing)
               PROVE  UNCHANGED <<lib, active>>
    OBVIOUS
  <2>0. /\ file \in [Kinds -> Files] /\ unsaved \subseteq Kinds /\ faults \in Nat
        /\ lib \in [Kinds -> Libraries] /\ \A k \in Kinds : file[k] = {lib[k]}
    BY DEF SettingsInv, SettingsTypeOK, FileInv
  <2>1. CASE CrashAndStart
    BY <2>0, <2>1, StartFindsAll DEF CrashAndStart
  <2>3. CASE CrashAtLoginEntry
    BY <2>0, <2>3, StartFindsAll DEF CrashAtLoginEntry
  <2>2. ASSUME NEW failing \in SUBSET Kinds, QuitAndStart(failing)
        PROVE  UNCHANGED <<lib, active>>
    <3>1. Write(Kinds, lib, failing) /\ Start
      BY <2>2 DEF QuitAndStart
    <3>2. /\ file' \in [Kinds -> Files]
          /\ \A k \in Kinds : file'[k] = {lib[k]} \/ file'[k] = file[k]
      BY <2>0, <3>1, WriteFacts
    <3> QED BY <2>0, <3>1, <3>2, StartFindsAll
  <2> QED BY <2>1, <2>2, <2>3
<1> QED BY <1>1, SettingsStart, SettingsStep, PTL DEF Spec, ProfilesSurvive
=============================================================================
