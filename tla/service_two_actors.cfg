SPECIFICATION Spec
CONSTANTS
  c1 = c1
  c2 = c2
  c3 = c3
  Nobody = Nobody
  Callers <- ThreeCallers
  Ops = {"prompt", "unload", "delete"}
  Titled = TRUE
  MaxCalls = 4
  MaxFaults = 0
SYMMETRY CallerSymmetry
CHECK_DEADLOCK FALSE
INVARIANT AtMostOneActor
