SPECIFICATION Spec
CONSTANTS
  r48 = r48
  r176 = r176
  Capacity = 2
  Rates = {r48, r176}
  Prearming = {r176}
  Rearming = {r176}
  MaxCallback = 2
  MaxRead = 2
  MaxClients = 2
  MaxFrames = 4
  HalMayRestart = FALSE
PROPERTY NoForeignRate
