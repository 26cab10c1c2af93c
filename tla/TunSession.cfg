SPECIFICATION TunSpec
CONSTANTS
  Servers = {"a", "b"}
  NoRules = NoRules
  KsBackends = {"nft", "wfp"}
  KsFaults = {"enable", "disable", "address", "enableLate", "disableLate", "write", "unlink", "kill"}
  TunFaults = {"config", "reply", "start", "stop", "die", "appKill", "quitInStart", "resolve"}
INVARIANTS
  BlockIsKnown
PROPERTIES
  KillSwitchSpec
  GuardedTunnel
  NetworkReopens
CHECK_DEADLOCK FALSE
