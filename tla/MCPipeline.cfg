SPECIFICATION PipelineSpec
CONSTANTS
  MaxRevisions = 1
  MaxOutside = 1
  OutsideGates = {"gate3"}
  OutsideAnswers = {"rejected"}
  Operators = {screen, shell}
  Shells = {shell}
  screen = screen
  shell = shell
INVARIANTS
  PipelineTypeOK
  EndingIsRecorded
  BlockWins
  Gate2IsEarned
  DeliveryIsHonest
  PoisonedNeverPromotes
  EveryDecisionIsLogged
PROPERTIES
  KeepsThePromise
  EveryRunEnds
CHECK_DEADLOCK FALSE
