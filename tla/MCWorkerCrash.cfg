\* One worker dies at any step and is restarted; the API cancels r1.
CONSTANTS
  Tickets = {t1}
  Runs = {r1, r2}
  RunIds = {t1, r1, r2}
  Cancellable = {r1}
  Attempts = {1}
  Workers = {w1, w2}
  Operators = {alice}
  Nobody = Nobody
  StagesInPlay = {"plan", "gate1", "develop", "gate2", "sre", "gate3", "promote"}
  EndingsInPlay = {"done", "blocked", "rejected", "failed", "already_final"}
  MaxJobs = 7
  MaxCrashes = 1
  MaxOverruns = 0
SPECIFICATION FairWorkerSpec
INVARIANTS
  ChainIsUnbroken
PROPERTIES
  EndingIsFinal
  EveryClaimEnds
  ApprovalAdvances
\* Humans may never decide, and a table of ended rows stays as it is.
CHECK_DEADLOCK FALSE
