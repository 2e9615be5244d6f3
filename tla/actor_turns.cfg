SPECIFICATION Spec
CONSTANTS
  u1 = u1
  u2 = u2
  Callers <- OneCaller
  Ephemeral = FALSE
  MaxPrompts = 3
  MaxTurns = 2
  MaxRounds = 2
  MaxAsks = 1
  MaxCompactions = 0
  MaxFaults = 0
  MaxSpawns = 0
CHECK_DEADLOCK FALSE
INVARIANTS
  TypeOK
  TurnsHold
  ContextIsSound
