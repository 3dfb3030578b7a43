SPECIFICATION Spec
CONSTANTS
  r176 = r176
  r96 = r96
  Capacity = 4
  Word = 12
  Limit = 2
  MaxLive = 1
  Prefill = 1
  MaxPacket = 2
  MaxRead = 2
  Rates = {r176, r96}
  Trimming = {}
  Flushing = {r96}
  Qualifying = {r176}
  HalStalls = FALSE
  InitOverlaps = FALSE
  HalMayRestart = TRUE
PROPERTIES NoForeignCapture FreshWhenFlushing
