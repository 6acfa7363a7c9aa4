------------------------------ MODULE MCStore ------------------------------
(* Store for TLC: two controllers started on one state file.               *)
EXTENDS Store
=============================================================================
