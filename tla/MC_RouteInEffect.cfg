CONSTANTS
  MaxFaults = 1
  MaxCalls = 2
SPECIFICATION Spec
PROPERTY
  RouteSetHolds
CHECK_DEADLOCK FALSE
