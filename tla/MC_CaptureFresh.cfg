SPECIFICATION Spec
CONSTANTS
  r48 = r48
  r96 = r96
  Capacity = 4
  Word = 12
  Limit = 2
  MaxLive = 1
  Prefill = 1
  MaxPacket = 2
  MaxRead = 2
  Rates = {r48, r96}
  Trimming = {r48}
  Flushing = {r96}
  Qualifying = {}
  HalStalls = FALSE
  InitOverlaps = FALSE
  HalMayRestart = FALSE
PROPERTY CaptureFresh
