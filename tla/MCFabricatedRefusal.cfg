SPECIFICATION ActionsSpec
INVARIANT RefusalsAreByPeople
CHECK_DEADLOCK FALSE
