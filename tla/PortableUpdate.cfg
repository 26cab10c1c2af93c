SPECIFICATION UpdateSpec
CONSTANTS
  AppFiles = {"exe", "updater", "docs", "nested"}
  NestedFiles = {"nested"}
  UserFiles = {"data"}
  Exe = "exe"
  MaxVersion = 2
  MaxBackups = 3
  Retention = 1
  UpdFaults = {"copy", "remove", "check", "launch", "plan", "wait", "probe", "start", "restart", "kill"}
INVARIANTS
  SomeReleaseIsWhole
  UserFilesStay
PROPERTIES
  OutcomeIsExact
CHECK_DEADLOCK FALSE
