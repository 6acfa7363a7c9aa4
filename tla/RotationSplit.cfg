CONSTANTS
  Kinds = {"split"}
  MinimumDNSKEYWait = 1
  MinimumParentWait = 1
  PropagationMargin = 1
  MinimumZoneTTL = 3
  AmbiguityLimit = 2
  RequestLife = 1
  MaxRotations = 1
  MaxFaults = 1
  MaxStrays = 1
  DynamicRoles = FALSE
  InitialZones = {"csk"}
  DNSKEYTTL = 2
  DSTTL = 2
  ZoneTTLs = {1, 3}
  ServerLag = 1
  ParentLag = 1
  Delegations = {TRUE}
SPECIFICATION Spec
INVARIANTS ChainOfTrust SettledZone
