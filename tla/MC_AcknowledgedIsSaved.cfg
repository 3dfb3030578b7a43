SPECIFICATION Spec
CONSTANTS
  u1 = u1
  u2 = u2
  Users <- MCUsers
  InPlay <- MCInPlay
  MaxFaults = 0
  MaxJobs = 2
  MaxLaunches = 1
INVARIANT AcknowledgedIsSaved
CHECK_DEADLOCK FALSE
