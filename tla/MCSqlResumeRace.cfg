\* Two operators decide on the same gate at the same time.
CONSTANTS
  RunIds = {r1}
  Attempts = {1}
  Workers = {w1}
  Operators = {alice, bob}
  Cancellers = {}
  LivingLapse = FALSE
  Nobody = Nobody
  StagesInPlay = {"plan", "gate1"}
  EndingsInPlay = {"done"}
  MaxJobs = 2
SPECIFICATION SqlSpec
PROPERTIES
  TerminalIsFinal
\* The table is full and every row has ended.
CHECK_DEADLOCK FALSE
