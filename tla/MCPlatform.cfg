SPECIFICATION PlatformSpec
CONSTANTS
  ScanWords = {"ERROR"}
  RemoteRuns = {a, b}
  Staged = {b}
  AtOnce = 2
  MaxCalls = 1
  MaxStages = 2
  DynamoJobs = {j1, j2}
  DynamoWorkers = {w1, w2}
  RunIds = {"r1"}
  Attempts = {1}
  Workers = {"w"}
  Operators = {alice, bob}
  Cancellers = {"server"}
  LivingLapse = TRUE
  Nobody = "nobody"
  StagesInPlay = {"plan", "gate1"}
  EndingsInPlay = {"done"}
  MaxJobs = 2
  HookSecrets = {"s1", "s2"}
  Instances = {i1, i2}
  TenantIds = {"t0", "t1"}
  TenantZero = "t0"
  RowKeys <- MCRowKeys
  SecretNames = {"s"}
  MasterKeys = {"m1", "m2"}
  Processes = {p, q}
  Cents = {1}
  MaxSpent = 2
  Statements = 3
  Builds = {1, 2}
  MaxClients = 3
  RepoNames = {n1, n2}
  RepoRows = {1, 2}
  Editors = {e1, e2}
  Paths = {f, g, o}
  OutsidePaths = {o}
  MaxLines = 4
SYMMETRY Interchangeable
INVARIANTS
  RememberedScansAreWhole
  
  HandedOutOnce
  AcceptedIsPublished
  TenantsStayApart
  DoneMeansConverged
  ConsoleShowsTheEnding
  ScopeIsAsAsked
  FilesHoldWhatWasAdded
  OneRowPerIdentity
  NoGateRunsUndecided
PROPERTIES
  ReclaimIsRemembered
CHECK_DEADLOCK FALSE
