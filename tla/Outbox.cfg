CONSTANTS
  Completions = {e1}
  Blocks = {b1}
  Recipients = {r1, r2}
  Retention = 1
  MaxBackoff = 4
  MaxFaults = 2
  MaxRejects = 1
  MaxCopies = 3
SPECIFICATION FairSpec
INVARIANTS NoEventLost CopiesExplained
PROPERTIES EventDelivered OutboxEmptied
