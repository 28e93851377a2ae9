\* Two runs call one container, which serves both at once.
CONSTANTS
  RemoteRuns = {a, b}
  Staged = {b}
  AtOnce = 2
  MaxCalls = 1
  MaxStages = 2
SPECIFICATION TransportSpec
INVARIANTS
  AnswersAreTheirOwn
\* Every call may have been made.
CHECK_DEADLOCK FALSE
