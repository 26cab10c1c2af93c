SPECIFICATION UpdateCheckSpec
CONSTANTS
  Manifests <- MCManifests
  Contents <- MCContents
  Start <- MCStart
  Setups <- MCSetups
  None = None
  CheckFaults = {"manifest", "download", "list", "extract", "launch"}
INVARIANT OneUpdateSuffices
PROPERTY LaunchedIsVerified
