-------------------------- MODULE MCPortableUpdate --------------------------
(* Instances of PortableUpdate for TLC.                                      *)
EXTENDS PortableUpdate

=============================================================================
