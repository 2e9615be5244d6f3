SPECIFICATION PartsSpec
CONSTANTS
  \* HostEvents
  Publishers = {p1, p2}
  Subscribers = {s1}
  Names = {a, b}
  AnyName = Any
  PageLimits = {1, 2}
  HistoryLimit = 2
  BroadcastCapacity = 1
  MaxEvents = 3
  \* HostRequests
  Connections = {r1, r2}
  Pipes = {r1}
  Ids = {1}
  Commands = {"set", "put"}
  Queries = {"get"}
  Watches = {"watch"}
  Refused = {"bad"}
  CacheLimit = 1
  MaxRequests = 3
  MaxExpiries = 1
  \* SessionFeed
  Clients = {c1}
  SourceCapacity = 2
  FeedCapacity = 1
  MaxTold = 4
  MaxTurns = 2
  MaxReloads = 1
  \* Automation
  FixedJobs = {"fix"}
  OnceJobs = {"once"}
  EveryJobs = {"every"}
  MaxRuns = 2
  MaxSessions = 2
  MaxAutoTurns = 2
  MaxIncidents = 1
  HistoryKeep = 1
  \* HostConfig
  Callers = {c1}
  Watcher = watcher
  Nobody = nobody
  Kinds = {"telegram", "feishu", "qq", "weixin"}
  MaxCalls = 2
  MaxGates = 2
  MaxFaults = 1
  \* AcpScreen
  Versions = {"v1", "v2"}
  Plans = {"p"}
  NoPlan = none
  MaxMsgs = 2
  MaxParts = 2
  MaxBytes = 1
  MaxLooks = 2
  MaxShown = 5
  MaxFeed = 2
  \* ModelRequest
  Indexes = {1, 2}
  MaxRetries = 2
  MaxAttempts = 3
  MaxDeltas = 1
  MaxToolCalls = 2
  \* ContextCompaction
  Reserve = 10
  UserBudget = 4
  Trigger = 9
  TextOwners = {"t"}
  Thinking = {"o"}
  Counting = {"o"}
  AskSizes = {3}
  ImageOwners = {"o"}
  MaxMessages = 6
  MaxEnvironments = 2
  MaxSwitches = 1
  \* SessionStore
  Sessions = {s1}
  Days = {"d1", "d2"}
  NoPlace = nowhere
  MaxSaves = 2
  MaxTranscript = 2
  MaxCrashes = 1
  MaxZones = 1
  MaxLists = 1
  \* DaemonLifecycle
  Consoles = {k1, k2}
  Processes = {d1, d2}
  Unlocked = free
  MaxCommandsRun = 3
  MaxDaemonFaults = 1
  \* FileGuard
  StateFiles = {f1, f2}
  OpenFiles = {log}
  Folder = {f2}
  Writers = {w1, w2}
  NoPath = nofile
  MaxWritings = 4
  MaxForeign = 1
  \* StdioBridge
  PipeRoom = 1
  MaxLines = 4
  MaxStreams = 2
  MaxPushed = 1
  \* SessionSettings
  Models = {"m1", "m2"}
  Efforts = {1}
  Typed = {"new", "mine"}
  MaxGenerations = 2
  MaxUpdates = 3
  MaxQuizzes = 1
  MaxTrouble = 1
CHECK_DEADLOCK FALSE
INVARIANTS
  HubHolds
  RequestsHold
  FeedHolds
  AutomationHolds
  ConfigHolds
  ScreenHolds
  ModelHolds
  StoreHolds
  DaemonHolds
  GuardHolds
  StdioHolds
  SettingsHold
PROPERTY
  ContextIsKept
