SPECIFICATION FairSpec
CONSTANTS
  c1 = c1
  c2 = c2
  c3 = c3
  Nobody = Nobody
  Callers <- TwoCallers
  Ops = {"open", "prompt", "rebind", "archive", "delete"}
  Titled = TRUE
  MaxCalls = 4
  MaxFaults = 1
CHECK_DEADLOCK FALSE
INVARIANTS TypeOK DeletionIsFinal
PROPERTY CallsReturn
