---------------------------- MODULE MCGasCooker ----------------------------
(* Four ingredients on two burners: two wait, in either order of release.  *)
EXTENDS GasCooker
=============================================================================
