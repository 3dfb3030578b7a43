SPECIFICATION FairSpec
CONSTANTS
  Slots = {1, 2}
  Helpers = {1, 2, 3}
  MaxFaults = 1
  MaxChanges = 1
CHECK_DEADLOCK FALSE
INVARIANTS TypeOK OneEngine RateInForce
PROPERTIES OnlineIsEarned Converges StopCompletes
