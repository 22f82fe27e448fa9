---------------------------- MODULE MCNodeHealth ----------------------------
(* Instances of NodeHealth for TLC.  The runs check liveness, so that they  *)
(* use no symmetry.                                                         *)
EXTENDS NodeHealth
=============================================================================
