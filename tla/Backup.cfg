SPECIFICATION BackupSpec
CONSTANTS
  Lists <- MCLists
  Items <- MCItems
  BuiltIns <- MCBuiltIns
  Values = {1, 2}
  Absent = Absent
  Default = 1
  FoundDisk <- MCFoundDisk
  Writes <- MCWrites
  Archives <- MCArchives
  MaxActs = 5
INVARIANTS
  ActiveProfileExists
PROPERTIES
  BackupRestores
  MergeKeepsLocal
CHECK_DEADLOCK FALSE
