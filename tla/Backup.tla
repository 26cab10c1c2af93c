------------------------------- MODULE Backup --------------------------------
(* The stored lists and settings under export, import, migration and         *)
(* restart: the stores (storage/*Store.cpp), the managers of the routing and *)
(* DNS profiles (routing/RoutingManager.cpp, dns/DnsManager.cpp), the        *)
(* backups (backup/*.cpp, packaging/PortableMigration.cpp), the migration of *)
(* old files (migration/*.cpp) and the window that drives them.  An import   *)
(* is synchronous, but writes one category after the other: any write may    *)
(* fail, and the program may be killed between two of them.                  *)
EXTENDS Integers, SequencesExt, ListOps

CONSTANTS Lists,        \* the stored lists, in the order saveAll and the import take them
          Items,        \* Items[l]: the records [id, body, builtIn] of list l
          BuiltIns,     \* BuiltIns[l]: its built-in profiles, the default one first
          Values,       \* values of a setting and contents of a file
          Default,        \* the value of a setting that nobody wrote
          Absent,         \* no such file, key, archive or profile
          FoundDisk,    \* what the data directory may hold at the first start
          Writes,       \* the settings that are written in between: <<key, value>>
          Archives,     \* backups and portable folders of other installations
          MaxActs       \* bound: acts of the user

ASSUME ListsAssumption ==
  /\ Lists \in Seq({"profiles", "subscriptions", "routing", "dns"})
  /\ \A i, j \in DOMAIN Lists : Lists[i] = Lists[j] => i = j
  /\ \A l \in Range(Lists) : BuiltIns[l] \in Seq(Items[l])
  /\ Absent \notin Values
  /\ Default \in Values

VARIABLES disk,     \* the data directory
          mem,      \* the lists of the window and of the managers
          active,   \* m_activeProfileId of the managers
          window,   \* "down", "open", "preview" (the import dialog) or "import"
          archive,  \* the archive the dialog shows
          import,   \* the modes chosen, the categories done, and their conjunction
          exported, \* the last backup the user made
          copy,     \* the last pre-import backup
          source,   \* history: the data directory the archive was made from, if ours
          acts      \* bounded counter

backupVars == <<disk, mem, active, window, archive, import, exported, copy, source, acts>>

Kinds == Range(Lists)
Managed == {l \in Kinds : BuiltIns[l] # <<>>}
Ids(list) == {item.id : item \in Range(list)}

\* A store holds an object, an array (the form before schemas), or nothing readable.
Records == UNION {Items[l] : l \in Kinds}
ListFiles == [Kinds -> [form : {"absent", "damaged", "array", "object"}, items : Seq(Records)]]
Selections == [Managed -> {item.id : item \in Records}]
Optional == Values \cup {Absent}
\* The settings by what an export and an import do with them: those of this machine, the
\* marks of the running session, the path of the core, the geo data, and all others.
Keys == {"machine", "runtime", "xrayPath", "geo", "shared"}
\* What QSettings holds; a key that nobody wrote is absent, and a write of its file that
\* fails goes unnoticed.
Settings == [selected : Selections, keys : [Keys -> Optional]]
Disks == [lists : ListFiles, settings : Settings, rulesets : Optional, files : Optional]
Backups == [layout : {"data", "root"}, lists : ListFiles, settings : Settings, geo : Values,
            rulesets : Optional, files : Optional]

\* The ids of the built-in profiles are fixed, and those of others are generated.
ASSUME BackupAssumption ==
  /\ FoundDisk \subseteq Disks
  /\ Archives \subseteq Backups
  /\ Writes \subseteq Keys \X Values
  /\ MaxActs \in Nat
  /\ \A l \in Managed : \A own \in Range(BuiltIns[l]), item \in Records :
       item.id = own.id => item.builtIn

\* A backup of this installation, and what it was made from (history).
Made == [backup : Backups, from : Disks]

Steps == Lists \o <<"settings", "geo", "rulesets", "files">>
Modes == [lists : [Kinds -> {"merge", "replace", "skip"}],
          settings : {"skip", "shared", "all"}]
Imports == [modes : Modes, done : 0 .. Len(Steps), ok : BOOLEAN]

BackupTypeOK ==
  /\ disk \in Disks
  /\ mem \in [Kinds -> Seq(Records)]
  /\ active \in Selections
  /\ window \in {"down", "open", "preview", "import"}
  /\ archive \in Backups \cup {Absent}
  /\ import \in Imports
  /\ {exported, copy} \subseteq Made \cup {Absent}
  /\ source \in Disks \cup {Absent}
  /\ acts \in 0 .. MaxActs

NoImport == [modes |-> [lists |-> [l \in Kinds |-> "skip"], settings |-> "skip"],
             done |-> 0, ok |-> TRUE]

-----------------------------------------------------------------------------
(* Stores and managers                                                       *)

\* load() takes the list out of an object only, and does not complain about an array.
Load(file) == IF file.form = "object" THEN file.items ELSE <<>>
SavedList(list) == [form |-> "object", items |-> list]

WithBuiltIns(l, list) ==
  list \o Kept(BuiltIns[l], {item \in Range(BuiltIns[l]) : item.id \notin Ids(list)})

\* Mutant of Resolved: the setting is taken as it is.
ResolvedAny(l, list, id) == id

Resolved(l, list, id) == IF id \in Ids(list) THEN id ELSE Head(BuiltIns[l]).id

\* loadAllOnStartup: the managers add the built-in profiles, settle which profile is
\* active, and write a file that did not exist.
LoadAll(d) ==
  LET lists == [l \in Kinds |-> WithBuiltIns(l, Load(d.lists[l]))]
      chosen == [l \in Managed |-> Resolved(l, lists[l], d.settings.selected[l])] IN
  /\ mem' = lists
  /\ active' = chosen
  /\ disk' = [d EXCEPT
       !.settings.selected = chosen,
       !.lists = [l \in Kinds |-> IF l \in Managed /\ d.lists[l].form = "absent"
                                  THEN SavedList(lists[l]) ELSE d.lists[l]]]

UserActs == window = "open" /\ acts < MaxActs /\ acts' = acts + 1

Upserted(list, item) ==
  IF item.id \in Ids(list)
  THEN [i \in DOMAIN list |-> IF list[i].id = item.id THEN item ELSE list[i]]
  ELSE Append(list, item)

\* A managed list is saved with every change, and that may fail unnoticed; the others wait.
Changed(l, list) ==
  /\ mem' = [mem EXCEPT ![l] = list]
  /\ disk' \in {disk} \cup (IF l \in Managed THEN {[disk EXCEPT !.lists[l] = SavedList(list)]} ELSE {})

PutItem(l, item) ==
  /\ UserActs
  /\ ~item.builtIn
  /\ ~\E old \in Range(mem[l]) : old.id = item.id /\ old.builtIn
  /\ Changed(l, Upserted(mem[l], item))
  /\ UNCHANGED <<active, window, archive, import, exported, copy, source>>

RemoveItem(l, item) ==
  /\ UserActs
  /\ item \in Range(mem[l]) /\ ~item.builtIn
  /\ LET list == Kept(mem[l], {other \in Range(mem[l]) : other.id # item.id}) IN
     IF l \in Managed /\ active[l] = item.id
     THEN LET id == Head(BuiltIns[l]).id IN
          /\ active' = [active EXCEPT ![l] = id]
          /\ mem' = [mem EXCEPT ![l] = list]
          /\ LET chosen == [disk EXCEPT !.settings.selected[l] = id] IN
             disk' \in {chosen, [chosen EXCEPT !.lists[l] = SavedList(list)]}
     ELSE Changed(l, list) /\ UNCHANGED active
  /\ UNCHANGED <<window, archive, import, exported, copy, source>>

SetActive(l, id) ==
  /\ UserActs
  /\ active' = [active EXCEPT ![l] = id]
  /\ LET chosen == [disk EXCEPT !.settings.selected[l] = id] IN
     disk' \in {chosen, [chosen EXCEPT !.lists[l] = SavedList(mem[l])]}
  /\ UNCHANGED <<mem, window, archive, import, exported, copy, source>>

\* saveAll stops at the first list that cannot be written.
SavedUpTo(n) ==
  [l \in Kinds |-> IF \E i \in 1 .. n : Lists[i] = l THEN SavedList(mem[l]) ELSE disk.lists[l]]

SaveAll ==
  /\ UserActs
  /\ \E n \in 0 .. Len(Lists) : disk' = [disk EXCEPT !.lists = SavedUpTo(n)]
  /\ UNCHANGED <<mem, active, window, archive, import, exported, copy, source>>

\* Any of the program's parts writes a setting.
WriteSetting(key, value) ==
  /\ UserActs
  /\ disk' = [disk EXCEPT !.settings.keys[key] = value]
  /\ UNCHANGED <<mem, active, window, archive, import, exported, copy, source>>

-----------------------------------------------------------------------------
(* Export                                                                    *)

\* isSettingsKeyExcludedFromExport, and the path that is removed from the staged file.
NotExported == {"runtime", "xrayPath"}

\* A missing list is staged as an empty array, and other files as they are.  The settings
\* of the geo data are staged twice, with the other settings and with their defaults.  The
\* categories exported by default leave out the rule-set and geo files.
Staged(d, withFiles) ==
  [layout |-> "data",
   lists |-> [l \in Kinds |-> IF d.lists[l].form = "absent"
                              THEN [form |-> "array", items |-> <<>>] ELSE d.lists[l]],
   settings |-> [d.settings EXCEPT
                   !.keys = [key \in Keys |-> IF key \in NotExported THEN Absent ELSE @[key]]],
   geo |-> IF d.settings.keys["geo"] = Absent THEN Default ELSE d.settings.keys["geo"],
   rulesets |-> d.rulesets,
   files |-> IF withFiles THEN d.files ELSE Absent]

ExportBackup ==
  /\ UserActs
  /\ \E n \in 0 .. Len(Lists), withFiles, archived \in BOOLEAN :
       /\ disk' = [disk EXCEPT !.lists = SavedUpTo(n)]
       /\ exported' = IF n = Len(Lists) /\ archived
                      THEN [backup |-> Staged(disk', withFiles), from |-> disk'] ELSE exported
  /\ UNCHANGED <<mem, active, window, archive, import, copy, source>>

-----------------------------------------------------------------------------
(* Import                                                                    *)

OpenImport ==
  /\ UserActs
  /\ \/ archive' \in Archives /\ source' = Absent
     \/ \E own \in {exported, copy} \ {Absent} :
          archive' = own.backup /\ source' = own.from
  /\ window' = "preview"
  /\ UNCHANGED <<disk, mem, active, import, exported, copy>>

CloseImport ==
  /\ window = "preview"
  /\ window' = "open"
  /\ archive' = Absent
  /\ source' = Absent
  /\ UNCHANGED <<disk, mem, active, import, exported, copy, acts>>

\* createPreImportBackup: taken from the files, not from the window.
PreImportBackup == [backup |-> Staged(disk, FALSE), from |-> disk]

\* When the pre-import backup cannot be made, nothing is imported.
BeginImport ==
  /\ window = "preview"
  /\ acts < MaxActs /\ acts' = acts + 1
  /\ window' = "import"
  /\ copy' = PreImportBackup
  /\ \E modes \in Modes : import' = [modes |-> modes, done |-> 0, ok |-> TRUE]
  /\ UNCHANGED <<disk, mem, active, archive, exported, source>>

\* The importer looks below data/.  A portable folder is archived without that directory,
\* so its lists are taken for missing ones, which are empty.
Incoming(l) ==
  IF archive.layout = "root" THEN <<>> ELSE Load(archive.lists[l])

Included(l) == archive.layout = "data" \/ archive.lists[l].form # "absent"

\* Mutant of Place: an item that the index does not hold is looked up in it.
PlaceOfHash(l, list, item) ==
  LET byId == LastOf({i \in DOMAIN list : list[i].id = item.id}) IN
  IF byId = 0 /\ list # <<>> THEN 1 ELSE byId

\* The place of an imported item, in the list as it was before the import; 0 for a new one.
\* A subscription also takes the place of one with its URL.
Place(l, list, item) ==
  LET byId == {i \in DOMAIN list : list[i].id = item.id}
      byUrl == {i \in DOMAIN list : list[i].body = item.body} IN
  LastOf(IF byId # {} \/ l # "subscriptions" THEN byId ELSE byUrl)

\* Of the items that take one place the last stays; the new ones follow.
Merged(l, list, imported) ==
  LET taken == Kept(imported, {item \in Range(imported) : ~item.builtIn})
      At(i) == {k \in DOMAIN taken : Place(l, list, taken[k]) = i}
  IN [i \in DOMAIN list |-> IF At(i) = {} THEN list[i] ELSE taken[LastOf(At(i))]]
     \o Kept(taken, {item \in Range(taken) : Place(l, list, item) = 0})

Imported(l) ==
  IF import.modes.lists[l] = "replace" THEN WithBuiltIns(l, Incoming(l))
  ELSE Merged(l, Load(disk.lists[l]), Incoming(l))

Step == Steps[import.done + 1]
Importing(step) == window = "import" /\ import.done < Len(Steps) /\ Step = step
Done(ok) == import' = [import EXCEPT !.done = @ + 1, !.ok = @ /\ ok]

ImportList(l) ==
  /\ Importing(l)
  /\ IF import.modes.lists[l] = "skip" \/ ~Included(l) THEN Done(TRUE) /\ UNCHANGED disk
     ELSE \/ Done(TRUE) /\ disk' = [disk EXCEPT !.lists[l] = SavedList(Imported(l))]
          \/ Done(FALSE) /\ UNCHANGED disk
  /\ UNCHANGED <<mem, active, window, archive, exported, copy, source, acts>>

\* Keys are only ever set: one that the archive lacks keeps its value, and so do the path of
\* the core and, unless asked for, those that belong to the machine or its session.
Skipped(mode) == {"xrayPath"} \cup (IF mode = "all" THEN {} ELSE {"machine", "runtime"})

\* Mutant of SetKeys: the settings of the archive replace those there are.
SetKeysAll(mode, keys, incoming) == incoming

SetKeys(mode, keys, incoming) ==
  [key \in Keys |-> IF incoming[key] = Absent \/ key \in Skipped(mode) THEN keys[key] ELSE incoming[key]]

ImportSettings ==
  /\ Importing("settings")
  /\ IF import.modes.settings = "skip" \/ archive.layout = "root" THEN Done(TRUE) /\ UNCHANGED disk
     ELSE \/ /\ Done(TRUE)
             /\ disk' = [disk EXCEPT !.settings =
                  [selected |-> archive.settings.selected,
                   keys |-> SetKeys(import.modes.settings, @.keys, archive.settings.keys)]]
          \/ Done(FALSE) /\ UNCHANGED disk
  /\ UNCHANGED <<mem, active, window, archive, exported, copy, source, acts>>

\* The dialog has no choice for the geo data settings, the rule sets and the files.
ImportGeoSettings ==
  /\ Importing("geo")
  /\ IF archive.layout = "root" THEN Done(TRUE) /\ UNCHANGED disk
     ELSE \/ Done(TRUE) /\ disk' = [disk EXCEPT !.settings.keys["geo"] = archive.geo]
          \/ Done(FALSE) /\ UNCHANGED disk
  /\ UNCHANGED <<mem, active, window, archive, exported, copy, source, acts>>

\* The old file is removed first, and is gone when the copy fails.
ImportFile(step) ==
  /\ Importing(step)
  /\ IF archive[step] = Absent THEN Done(TRUE) /\ UNCHANGED disk
     ELSE \/ Done(TRUE) /\ disk' = [disk EXCEPT ![step] = archive[step]]
          \/ Done(FALSE) /\ disk' \in {disk, [disk EXCEPT ![step] = Absent]}
  /\ UNCHANGED <<mem, active, window, archive, exported, copy, source, acts>>

ImportSucceeds ==
  /\ window = "import" /\ import.done = Len(Steps) /\ import.ok
  /\ window' = "open"
  /\ archive' = Absent
  /\ LoadAll(disk)
  /\ source' = Absent
  /\ import' = NoImport
  /\ UNCHANGED <<exported, copy, acts>>

\* After a failure the dialog stays, and the window keeps its lists.
ImportFails ==
  /\ window = "import" /\ import.done = Len(Steps) /\ ~import.ok
  /\ window' = "preview"
  /\ import' = NoImport
  /\ UNCHANGED <<disk, mem, active, archive, exported, copy, source, acts>>

-----------------------------------------------------------------------------
(* Kill and start                                                            *)

Kill ==
  /\ window # "down"
  /\ window' = "down"
  /\ archive' = Absent
  /\ source' = Absent
  /\ import' = NoImport
  /\ UNCHANGED <<disk, mem, active, exported, copy, acts>>

\* migrateFile: only an array is written anew, and stays when it cannot be backed up or written.
Migratable == {l \in Kinds : disk.lists[l].form = "array"}

\* runStartupMigrations: each array is wrapped into an object, one file after another and
\* whatever became of those before.
Migrations ==
  {[disk EXCEPT !.lists = [l \in Kinds |->
      IF l \in done THEN SavedList(disk.lists[l].items) ELSE disk.lists[l]]] :
   done \in SUBSET Migratable}

Start ==
  /\ window = "down"
  /\ acts < MaxActs /\ acts' = acts + 1
  /\ window' = "open"
  /\ \E d \in Migrations : LoadAll(d)
  /\ UNCHANGED <<archive, import, exported, copy, source>>

BackupInit ==
  /\ disk \in FoundDisk
  /\ mem = [l \in Kinds |-> <<>>]
  /\ active = [l \in Managed |-> Head(BuiltIns[l]).id]
  /\ window = "down"
  /\ archive = Absent
  /\ import = NoImport
  /\ exported = Absent
  /\ copy = Absent
  /\ source = Absent
  /\ acts = 0

BackupNext ==
  \/ \E l \in Kinds : \E item \in Items[l] : PutItem(l, item) \/ RemoveItem(l, item)
  \/ \E l \in Managed : \E id \in Ids(mem[l]) : SetActive(l, id)
  \/ \E write \in Writes : WriteSetting(write[1], write[2])
  \/ SaveAll \/ ExportBackup
  \/ OpenImport \/ CloseImport \/ BeginImport
  \/ \E l \in Kinds : ImportList(l)
  \/ ImportSettings \/ ImportGeoSettings
  \/ \E step \in {"rulesets", "files"} : ImportFile(step)
  \/ ImportSucceeds \/ ImportFails
  \/ Kill \/ Start

BackupSpec == BackupInit /\ [][BackupNext]_backupVars

-----------------------------------------------------------------------------
(* Properties                                                                *)

\* While the window is open, the built-in routing and DNS profiles are there and the
\* active profile is one of the list: imports bring lists without the selected profile,
\* and settings that select a profile of another installation.
ActiveProfileExists ==
  window \notin {"down", "import"} =>
    \A l \in Managed : /\ active[l] \in Ids(mem[l])
                       /\ Ids(BuiltIns[l]) \subseteq Ids(mem[l])

ImportApplied == window = "import" /\ window' = "open"

\* A backup of this installation brings the state back, and above all the pre-import backup
\* does, after an import that failed or was killed half way: a list that is replaced is again
\* what it was when the backup was made; every setting that a backup may hold and that is
\* asked for has its value of then and every other the value it had before this import; the
\* selected profiles are those of then where they exist.
SettingsRestored ==
  LET before == copy.from.settings
      mode == import.modes.settings IN
  /\ \A key \in Keys \ {"geo"} : disk'.settings.keys[key] =
       IF mode # "skip" /\ source.settings.keys[key] # Absent
          /\ key \notin NotExported /\ key \notin Skipped(mode)
       THEN source.settings.keys[key] ELSE before.keys[key]
  /\ source.settings.keys["geo"] # Absent =>
       disk'.settings.keys["geo"] = source.settings.keys["geo"]
  /\ \A l \in Managed : disk'.settings.selected[l] =
       Resolved(l, mem'[l], IF mode = "skip" THEN before.selected[l] ELSE source.settings.selected[l])

BackupRestores ==
  [][ImportApplied /\ source # Absent =>
       /\ \A l \in Kinds : import.modes.lists[l] = "replace" =>
            mem'[l] = WithBuiltIns(l, Load(source.lists[l]))
       /\ SettingsRestored
       /\ source.rulesets # Absent => disk'.rulesets = source.rulesets]_backupVars

\* A merge takes nothing away that it does not replace: a local profile keeps its place
\* under its id, a subscription under its id or its URL.
MergeKeepsLocal ==
  [][ImportApplied =>
       \A l \in Kinds : import.modes.lists[l] = "merge" =>
         \A old \in Range(Load(copy.from.lists[l])) :
           \E item \in Range(mem'[l]) :
             \/ item.id = old.id
             \/ l = "subscriptions" /\ item.body = old.body]_backupVars

=============================================================================
