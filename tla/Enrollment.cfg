CONSTANTS
  MinimumDNSKEYWait = 1
  MinimumParentWait = 1
  PropagationMargin = 1
  DiscoveryGrace = 1
  AmbiguityLimit = 2
  RequestLife = 1
  MaxFaults = 1
  MaxEdits = 3
  DynamicRoles = FALSE
  DNSKEYTTL = 2
  DSTTL = 2
  ZoneTTLs = {3}
  ServerLag = 1
  ParentLag = 1
  Delegations = {TRUE, FALSE}
SPECIFICATION FairSpec
INVARIANTS TypeOK OneWrite AnnouncedZoneValidates EnrolledIsProven
PROPERTIES EnrollmentEnds
