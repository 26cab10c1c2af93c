------------------------------ MODULE MCGeoData ------------------------------
(* Instances of GeoData for TLC.                                             *)
EXTENDS GeoData

OneFile == <<"geoip">>

=============================================================================
