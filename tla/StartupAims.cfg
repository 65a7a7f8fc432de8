SPECIFICATION Spec
CONSTANTS
  MaxAnswers = 2
INVARIANTS
  AimsAtHost
CHECK_DEADLOCK FALSE
