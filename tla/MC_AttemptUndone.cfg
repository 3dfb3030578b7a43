CONSTANTS
  Program <- MCProgram
  InitialRates = {"44100", "48000"}
  MaxGen = 1
  MaxSessions = 1
  MaxFaults = 1
SPECIFICATION Spec
INVARIANT
  AttemptIsUndone
CHECK_DEADLOCK FALSE
