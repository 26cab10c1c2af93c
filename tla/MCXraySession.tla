---------------------------- MODULE MCXraySession ----------------------------
(* Instances of XraySession for TLC.                                         *)
EXTENDS XraySession

=============================================================================
