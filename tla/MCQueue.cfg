SPECIFICATION MCQueueSpec
CONSTANTS
  RunIds = {"p1", "p2", "r1"}
  Attempts = {1}
  Workers = {w1, w2}
  Operators = {alice}
  Cancellers = {}
  LivingLapse = FALSE
  Nobody = Nobody
  StagesInPlay = {"plan", "gate1"}
  EndingsInPlay = {"done", "rejected"}
  MaxJobs = 2
  Tenants = {"t1", "t2"}
  KeyIds = {k1, k2}
  Grants = {{"runs:write", "runs:read"}}
  IdemKeys = {"i1"}
  NoKey = "none"
  ApiThreads = {h1, h2}
  Pending = {"p1", "p2"}
SYMMETRY Interchangeable
INVARIANTS
  TypeOK
  OneRowPerStage
  NoGateRunsUndecided
  HolderIffClaimed
  SqlTypeOK
  RetriesStartNothing
PROPERTIES
  ActsAtomically
  TerminalIsFinal
  RefusalStands
  ReclaimIsRemembered
\* The table is full and every row has ended.
CHECK_DEADLOCK FALSE
