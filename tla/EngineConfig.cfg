SPECIFICATION EngineSpec
CONSTANTS
  NoOutbound = NoOutbound
  None = None
  Flows <- MCFlows
  DnsFlows = {"dns"}
  Hits <- MCHits
  TagOf <- MCTagOf
  Catalog <- MCCatalog
  OtherTags = {"geoip-ru", "geosite-not-cn"}
  StartChoices <- MCChoices
  MaxFaults = 1
INVARIANTS
  EnginesAgree
  StrictIsLocal
  OutboundIsMeant
  LinkIsMeant
CHECK_DEADLOCK FALSE
