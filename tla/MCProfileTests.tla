--------------------------- MODULE MCProfileTests ---------------------------
(* Instances of ProfileTests for TLC.                                        *)
EXTENDS ProfileTests

=============================================================================
