CONSTANTS
  ParentHosts = {p1, p2}
  Resolvers = {r1, r2}
  Lookups = {"NoDS", "Delegation", "DS"}
  MaxDepth = 3
  MaxDown = 1
  MaxLame = 1
  MaxChanges = 1
  MaxFaults = 1
SPECIFICATION FairSpec
INVARIANTS TypeOK NothingOverlooked
PROPERTIES LookupEnds ProofFound
