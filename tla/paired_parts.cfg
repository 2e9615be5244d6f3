SPECIFICATION PairsSpec
CONSTANTS
  a = a
  b = b
  u = u
  v = v
  \* HostSessions
  Clerks = {a, b}
  Unheld = free
  Rooms = {u, v}
  Projects = {p1}
  Roots = {d1, d2}
  Repos = {d1}
  Trees = {t1}
  MaxErrands = 4
  MaxMishaps = 2
  \* ChannelBridge
  Chats = {a, b}
  Adapters = {"weixin", "feishu", "qq"}
  MaxInputs = 2
  MaxChatTurns = 2
  MaxCards = 1
  ReplayTurns = 1
  MaxBreaks = 1
  \* AcpSession
  Desks = {a, b}
  Vacant = free
  Protocols = {1, 2}
  MaxViews = 2
  MaxJobs = 2
  MaxAsks = 2
  MaxCancels = 1
  MaxSlips = 1
  \* Terminals
  Shells = {a, b}
  Slots = {u, v}
  Free = free
  TableCap = 1
  ViewCap = 1
  MaxCalls = 2
  MaxTermTurns = 2
  MaxPieces = 1
  MaxMail = 1
  \* FileEdits
  Edits = {a, b}
  Paths = {"f", "g"}
  Contents <- EditContents
  Patches <- EditPatches
  NoEdit = free
  MaxOutside = 1
  MaxIoFaults = 1
  \* FeishuDelivery
  Notes = {long, a, b}
  LongNotes = {long}
  NoNote = none
  HandlerQueue = 1
  OutboxLimit = 1
  RecentLimit = 1
  MaxFrames = 4
  MaxDrops = 1
  MaxStops = 1
SYMMETRY PairSymmetry
CHECK_DEADLOCK FALSE
INVARIANTS
  HostHolds
  
  AcpHolds
  TerminalsHold
  EditsHold
  DeliveryHolds
