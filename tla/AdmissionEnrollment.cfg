CONSTANTS
  Zones = {z1, z2}
  Clients = {c1}
  RequestKeys = {k1}
  ArmKeys = {k3}
  RequestKinds = {}
  InitialScopes = {"rotation", "enroll"}
  MaxPending = 1
  MaxNewPerDay = 1
  MaxChanges = 3
  MaxCrashes = 1
SYMMETRY Symmetric
SPECIFICATION Spec
INVARIANTS BaselineNeverEnrolled EnrollmentsLimited
PROPERTIES EndedEnrollmentStays
