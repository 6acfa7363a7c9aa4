---------------------------- MODULE MCRotation ----------------------------
(* Rotation for TLC: the configurations give the kinds, the TTLs and the    *)
(* faults.                                                                  *)
EXTENDS Rotation
=============================================================================
