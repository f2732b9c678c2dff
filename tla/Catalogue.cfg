SPECIFICATION Spec
CONSTANTS
  lab = lab
  prod = prod
  modelA = modelA
  modelB = modelB
  ssid = ssid
  wan = wan
  w1 = w1
  w2 = w2
  ssidAt = ssidAt
  wanAt = wanAt
  there = there
  d1 = d1
  d2 = d2
  d3 = d3
  Installations = {lab, prod}
  KeyOrder <- MCKeys
  Paths = {ssid, wan}
  Docs <- MCDocs
  Deductions = {w1, w2}
  Concepts = {ssidAt, wanAt}
  Routes = {there}
  Devices = {d1, d2, d3}
  Fleet <- MCFleet
  Absent = absent
  NoTree = noTree
  Corrupt = corrupt
  NoRow = noRow
  NoProfile = noProfile
  NoEntry = noEntry
  Malformed = malformed
  MaxOps = 5
  MaxFaults = 1
INVARIANTS
  TypeOK
  LocalKnowledgeWins
  FleetStaysHome
  CompleteIsTrue
  RoundTrip
  RetryCompletes
  OrderIsIrrelevant
SYMMETRY MCSymmetry
PROPERTIES
  TreeOnlyGrows
CHECK_DEADLOCK FALSE
