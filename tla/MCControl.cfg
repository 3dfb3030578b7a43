SPECIFICATION Spec
CONSTANTS
  u1 = u1
  u2 = u2
  Users <- MCUsers
  InPlay <- MCInPlay
  MaxFaults = 1
  MaxJobs = 2
  MaxLaunches = 2
INVARIANTS TypeOK CopyIsHardware NoAuxAtQuadRate SettingsStand SavedIsInEffect

PROPERTY GateOpens
CHECK_DEADLOCK FALSE
