SPECIFICATION Spec
CONSTANTS
  u1 = u1
  u2 = u2
  Callers <- OneCaller
  Ephemeral = FALSE
  MaxPrompts = 2
  MaxTurns = 1
  MaxRounds = 0
  MaxAsks = 0
  MaxCompactions = 0
  MaxFaults = 0
  MaxSpawns = 0
CHECK_DEADLOCK FALSE
INVARIANTS AcceptedIsConsumed
