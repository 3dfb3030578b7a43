CONSTANTS
  Program <- MCProgram
  InitialRates = {"44100", "48000"}
  MaxGen = 1
  MaxSessions = 1
  MaxFaults = 1
SPECIFICATION Spec
INVARIANTS
  CleanExit
  NothingOutlivesItsSupport
  SuccessRestoresRate
  CommandsCanBeAnswered
PROPERTIES
  OthersPlugsUntouched
  StopOrResetEnds
CHECK_DEADLOCK FALSE
