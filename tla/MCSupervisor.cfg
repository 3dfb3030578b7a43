SPECIFICATION FairSpec
CONSTANTS
  Rates = {r44, r48, r96, r192}
  High = {r96, r192}
  Quad = {r192}
  Clock44 = {r44}
  ForceRecovery = FALSE
  MaxFaults = 2
  MaxChanges = 2
  NoRate = NoRate
INVARIANT NoOrphan
PROPERTIES FreshInit RecoveryDone RecoveryOwed Converges StopCompletes
