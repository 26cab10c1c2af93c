SPECIFICATION FairSessionSpec
CONSTANTS
  UserEndpoints = {"corp"}
  UserBypasses = {"lan"}
  Backends = {"gnome", "windows"}
  Faults = {"apply", "restore", "read", "crash", "edit", "toggle"}
  HostFaults = {"die", "start", "stop", "slow"}
  NoSnapshot = NoSnapshot
  AutoEnable = TRUE
  ConfirmChange = TRUE
  ReadyTicks = 2
PROPERTIES
  SnapshotDroppedOnlyWhenRestored
  SafeExitRestores
  ReadinessDecided
CHECK_DEADLOCK FALSE
