SPECIFICATION FairSpec
CONSTANTS
  u1 = u1
  u2 = u2
  Callers <- OneCaller
  Ephemeral = TRUE
  MaxPrompts = 1
  MaxTurns = 1
  MaxRounds = 1
  MaxAsks = 1
  MaxCompactions = 1
  MaxFaults = 0
  MaxSpawns = 0
CHECK_DEADLOCK FALSE
PROPERTIES
  CancelEnds
  UnloadAnswered
  GraceEnds
