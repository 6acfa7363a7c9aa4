---------------------------- MODULE MCAdmission ----------------------------
(* Admission for TLC.  Zones, clients and keys are interchangeable.        *)
EXTENDS Admission, TLC

Symmetric ==
  Permutations(Zones) \cup Permutations(Clients) \cup Permutations(RequestKeys)
=============================================================================
