\* An API server cancels a run while a worker records its stage.
CONSTANTS
  RunIds = {r1}
  Attempts = {1}
  Workers = {w1}
  Operators = {}
  Cancellers = {api}
  LivingLapse = FALSE
  Nobody = Nobody
  StagesInPlay = {"plan"}
  EndingsInPlay = {"done"}
  MaxJobs = 2
SPECIFICATION SqlSpec
PROPERTIES
  CancelStands
\* The table is full and every row has ended.
CHECK_DEADLOCK FALSE
