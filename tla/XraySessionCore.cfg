SPECIFICATION SessionSpec
CONSTANTS
  UserEndpoints = {"corp", "home"}
  UserBypasses = {"lan"}
  Backends = {"gnome", "kde", "macos", "windows"}
  Faults = {"apply", "read", "crash"}
  HostFaults = {"die", "start", "stop"}
  NoSnapshot = NoSnapshot
  AutoEnable = TRUE
  ConfirmChange = FALSE
  ReadyTicks = 2
INVARIANTS
  SnapshotCoversChange
  SessionHoldsWhatItTook
PROPERTIES
  RecoveryRestoresUser
  ProxySpec
CHECK_DEADLOCK FALSE
