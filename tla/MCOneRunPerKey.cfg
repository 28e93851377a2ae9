\* Two threads of one API server; a client sends its submission again.
CONSTANTS
  RunIds = {"p1", "p2", "r1"}
  Attempts = {1}
  Workers = {"w"}
  Operators = {"o"}
  Nobody = "nobody"
  StagesInPlay = {"plan"}
  EndingsInPlay = {"done"}
  MaxJobs = 2
  Tenants = {"t1"}
  KeyIds = {"k1"}
  Grants = {{"runs:write", "runs:read"}}
  IdemKeys = {"i1"}
  NoKey = "none"
  ApiThreads = {"h1", "h2"}
  Pending = {"p1", "p2"}
SPECIFICATION ApiSpec
INVARIANTS
  OneRunPerKey
\* Every row may have been enqueued and answered for.
CHECK_DEADLOCK FALSE
