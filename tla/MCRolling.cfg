SPECIFICATION Spec
CONSTANTS
  Cycles = 13
  InitialCycle = 7
  CycleLead = 9
  HalfPackets = 6
  Lead = 9
  Guard = 4
  Fetch = 5
  MaxGap = 12
  MaxRefill = 1
  MaxTime = 48
INVARIANT ClockFollows
PROPERTIES NotAhead RefillDeadline LatenessStops
CHECK_DEADLOCK FALSE
