SPECIFICATION Spec
CONSTANTS
  c1 = c1
  c2 = c2
  c3 = c3
  Nobody = Nobody
  Callers <- ThreeCallers
  Ops = {"open", "prompt", "archive", "unarchive", "list", "unload"}
  Titled = FALSE
  MaxCalls = 4
  MaxFaults = 1
SYMMETRY CallerSymmetry
CHECK_DEADLOCK FALSE
INVARIANTS OneActorKnows ArchivedIsQuiet
