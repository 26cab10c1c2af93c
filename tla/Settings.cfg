SPECIFICATION Spec
CONSTANTS
  Kinds = {"routing", "dns"}
  Custom = {c1}
  BuiltIns = {fallback, other}
  Fallback = fallback
  Versions = {1}
  BuiltInContent = 0
  Channels = {"beta", "stable"}
  StableLike = {"stable"}
  BuildChannel = "stable"
  Imports <- MCImports
  MaxFaults = 1
  MaxChanges = 3
INVARIANTS
  RisksAreAgreed
  LoginEntryAgrees
  ActiveProfileIsSelected
PROPERTIES
  ProfilesSurvive
