SPECIFICATION Spec
CONSTANTS
  r1 = r1
  r2 = r2
  Requests = {r1}
  LastSlot = 2
  KnowsTime = TRUE
  EverySlot = TRUE
  MaxOps = 1
  MaxFaults = 0
PROPERTIES NotBeforeItsTime
