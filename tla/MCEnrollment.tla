---------------------------- MODULE MCEnrollment ----------------------------
(* Enrollment for TLC: the configurations give the waits and the faults.   *)
EXTENDS Enrollment
=============================================================================
