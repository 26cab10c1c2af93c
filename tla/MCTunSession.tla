---------------------------- MODULE MCTunSession ----------------------------
(* Instances of TunSession for TLC.                                          *)
EXTENDS TunSession

=============================================================================
