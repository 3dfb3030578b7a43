SPECIFICATION FairSpec
CONSTANTS
  Slots = {1, 2}
  Helpers = {1, 2, 3}
  MaxFaults = 0
  MaxChanges = 1
CHECK_DEADLOCK FALSE
PROPERTY CleanStopKeepsRate
