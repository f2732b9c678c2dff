SPECIFICATION FairSpec
CONSTANTS
  r1 = r1
  r2 = r2
  Requests = {r1, r2}
  LastSlot = 2
  KnowsTime = TRUE
  EverySlot = TRUE
  MaxOps = 3
  MaxFaults = 1
INVARIANTS
  OnceADay
PROPERTIES
  SetTakesEffect
  RebootsEveryDay
