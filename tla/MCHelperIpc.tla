----------------------------- MODULE MCHelperIpc -----------------------------
(* Instances of HelperIpc for TLC.                                           *)
EXTENDS HelperIpc

\* One command of each effect; the answer to killSwitchCheckSupport is left out, as it
\* is no status of the kill switch though it is taken for one.
MCCommands == {"hello", "killSwitchStatus", "killSwitchEnable", "killSwitchDisable",
               "validateConfig", "startTun", "stopTun"}
=============================================================================
