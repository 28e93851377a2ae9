\* One lease passes under a living worker, so two workers run one stage;
\* the API cancels at any point.
CONSTANTS
  Tickets = {t1}
  Runs = {r1, r2}
  RunIds = {t1, r1, r2}
  Cancellable = {t1, r1, r2}
  Attempts = {1}
  Workers = {w1, w2}
  Operators = {alice}
  Nobody = Nobody
  StagesInPlay = {"plan", "gate1", "develop", "gate2", "sre", "gate3", "promote"}
  EndingsInPlay = {"done", "blocked", "rejected", "failed", "already_final"}
  MaxJobs = 7
  MaxCrashes = 0
  MaxOverruns = 1
SPECIFICATION WorkerSpec
SYMMETRY Interchangeable
INVARIANTS
  WorkerTypeOK
  OneLiveRowPerRun
  MergeWasEarned
  CancelHolds
PROPERTIES
  KeepsThePromise
\* Humans may never decide, and a table of ended rows stays as it is.
CHECK_DEADLOCK FALSE
