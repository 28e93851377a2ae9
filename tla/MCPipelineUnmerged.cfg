SPECIFICATION PipelineSpec
CONSTANTS
  MaxRevisions = 1
  MaxOutside = 1
  OutsideGates = {"gate3"}
  OutsideAnswers = {"rejected", "overridden"}
  Operators = {screen, shell}
  Shells = {shell}
  screen = screen
  shell = shell
INVARIANTS
  PromotedMeansMerged
CHECK_DEADLOCK FALSE
