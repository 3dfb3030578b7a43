SPECIFICATION Spec
CONSTANTS
  Rates = {r44, r48, r96, r192}
  High = {r96, r192}
  Quad = {r192}
  Clock44 = {r44}
  ForceRecovery = FALSE
  MaxFaults = 1
  MaxChanges = 2
  NoRate = NoRate
PROPERTY Appropriate
