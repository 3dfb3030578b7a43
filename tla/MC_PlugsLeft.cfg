SPECIFICATION FairSpec
CONSTANTS
  Slots = {1, 2}
  Helpers = {1, 2, 3}
  MaxFaults = 1
  MaxChanges = 0
CHECK_DEADLOCK FALSE
PROPERTY Recovers
