SPECIFICATION ListSpec
CONSTANTS
  Subscriptions = {"A", "B"}
  Servers = {s1, s2}
  Manual = "manual"
  Gone = "gone"
  Found <- MCFound
  MaxIds = 3
  MaxActs = 4
  MaxDepth = 3
  MaxLinks = 2
SYMMETRY Symmetry
INVARIANTS
  OneProfilePerServer
PROPERTIES
  UpdateIsExact
  DeletedStaysDeleted
CHECK_DEADLOCK FALSE
