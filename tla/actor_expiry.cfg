SPECIFICATION Spec
CONSTANTS
  u1 = u1
  u2 = u2
  Callers <- OneCaller
  Ephemeral = TRUE
  MaxPrompts = 2
  MaxTurns = 2
  MaxRounds = 0
  MaxAsks = 0
  MaxCompactions = 0
  MaxFaults = 1
  MaxSpawns = 1
CHECK_DEADLOCK FALSE
INVARIANTS
  GraceHolds
  AcknowledgedIsDurable
PROPERTIES
  DeletesOnlyDue
  ImplementsContract
