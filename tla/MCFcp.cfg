CONSTANTS
  MaxFaults = 2
  MaxCalls = 2
SPECIFICATION Spec
INVARIANTS
  CacheIsHardware
PROPERTIES
  AnswersAreTrue
  PassMeansRates
  CallsReturn
CHECK_DEADLOCK FALSE
