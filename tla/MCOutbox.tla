------------------------------ MODULE MCOutbox ------------------------------
(* Outbox for TLC, without symmetry: its properties include liveness.      *)
EXTENDS Outbox
=============================================================================
