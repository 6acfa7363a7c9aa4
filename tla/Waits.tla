-------------------------------- MODULE Waits --------------------------------
(***************************************************************************)
(* What the rotation and the enrollment workflows of one zone share: the   *)
(* configured waits and the limits on a registrar write.                   *)
(***************************************************************************)
EXTENDS DNSWorld

CONSTANTS
  MinimumDNSKEYWait,  \* rotation.minimum_dnskey_wait
  MinimumParentWait,  \* rotation.minimum_parent_wait
  PropagationMargin,  \* controller.propagation_margin
  AmbiguityLimit,     \* the 24 hours granted to an ambiguous registrar write
  RequestLife         \* how long a request may travel

ASSUME WaitAssumptions ==
  /\ MinimumDNSKEYWait \in Nat /\ MinimumParentWait \in Nat
  /\ PropagationMargin \in Nat
  /\ AmbiguityLimit \in Nat /\ RequestLife \in Nat

\* The margin is configured to cover the slowest server.
ASSUME MarginCoversLag ==
  ServerLag <= PropagationMargin /\ ParentLag <= PropagationMargin

maxDuration(a, b) == IF a > b THEN a ELSE b

\* Mutations: waits that forget the TTL.
PublishWaitWithoutTTL == PropagationMargin
ParentWaitWithoutTTL == PropagationMargin

\* The waits of waitPublish and waitParentReplace, and of enrollWaitPublish
\* and enrollWaitParent.
PublishWait == maxDuration(DNSKEYTTL, MinimumDNSKEYWait) + PropagationMargin
ParentWait == maxDuration(DSTTL, MinimumParentWait) + PropagationMargin
=============================================================================
