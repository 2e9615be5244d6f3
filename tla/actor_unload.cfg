SPECIFICATION Spec
CONSTANTS
  u1 = u1
  u2 = u2
  Callers <- TwoCallers
  Ephemeral = FALSE
  MaxPrompts = 2
  MaxTurns = 1
  MaxRounds = 1
  MaxAsks = 2
  MaxCompactions = 1
  MaxFaults = 1
  MaxSpawns = 0
CHECK_DEADLOCK FALSE
INVARIANTS
  NoStrandedAsk
  OnlyApprovedRun
  IdleIsQuiet
  UnloadedIsSaved
  UnloadOwed
PROPERTIES
  ContextNeverReverts
