CONSTANTS
  Kinds = {"split"}
  MinimumDNSKEYWait = 1
  MinimumParentWait = 1
  PropagationMargin = 1
  MinimumZoneTTL = 1
  AmbiguityLimit = 2
  RequestLife = 1
  MaxRotations = 1
  MaxFaults = 1
  MaxStrays = 0
  DynamicRoles = TRUE
  InitialZones = {"unsigned csk"}
  DNSKEYTTL = 2
  DSTTL = 2
  ZoneTTLs = {1, 2}
  ServerLag = 1
  ParentLag = 1
  Delegations = {TRUE}
SPECIFICATION Spec
PROPERTIES ReadFailuresRetry
