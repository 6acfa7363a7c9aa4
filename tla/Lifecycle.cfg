CONSTANTS
  Processes = {p1, p2, p3}
  MaxStarts = 6
SPECIFICATION FairSpec
CHECK_DEADLOCK FALSE
INVARIANTS ServingIsReachable OneController StartNeverFails
PROPERTIES StopEnds
