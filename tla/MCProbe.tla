------------------------------ MODULE MCProbe ------------------------------
(* Probe for TLC, without symmetry: its properties include liveness.       *)
EXTENDS Probe
============================================================================
