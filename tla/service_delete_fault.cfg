SPECIFICATION Spec
CONSTANTS
  c1 = c1
  c2 = c2
  c3 = c3
  Nobody = Nobody
  Callers <- TwoCallers
  Ops = {"prompt", "delete"}
  Titled = TRUE
  MaxCalls = 3
  MaxFaults = 1
SYMMETRY CallerSymmetry
CHECK_DEADLOCK FALSE
INVARIANT RefusedOnlyDuringDelete
