CONSTANTS
  Kinds = {"zsk", "ksk", "split"}
  MinimumDNSKEYWait = 1
  MinimumParentWait = 1
  PropagationMargin = 1
  MinimumZoneTTL = 1
  AmbiguityLimit = 2
  RequestLife = 1
  MaxRotations = 2
  MaxFaults = 1
  MaxStrays = 1
  DynamicRoles = FALSE
  InitialZones = {"split", "unsigned csk"}
  DNSKEYTTL = 2
  DSTTL = 2
  ZoneTTLs = {2}
  ServerLag = 1
  ParentLag = 1
  Delegations = {TRUE}
SPECIFICATION Spec
INVARIANTS TypeOK AtMostOnce DSAnnouncedWhenUsable ChainOfTrust SettledZone SlotsAreSound
