CONSTANTS
  Zones = {z1}
  Clients = {c1, c2}
  RequestKeys = {k1, k2}
  ArmKeys = {k3}
  RequestKinds = {"ksk", "split"}
  InitialScopes = {"enroll"}
  MaxPending = 1
  MaxNewPerDay = 1
  MaxChanges = 2
  MaxCrashes = 1
SYMMETRY Symmetric
SPECIFICATION Spec
INVARIANTS AdvancedAlone KeyActsOnce AnswersHonest
