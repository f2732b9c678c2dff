SPECIFICATION FairSpec
CONSTANTS
  d1 = d1
  d2 = d2
  ispA = ispA
  ispB = ispB
  sched = sched
  noAddress = noAddress
  noIsp = noIsp
  r1 = r1
  Devices = {d1, d2}
  Isps = {ispA, ispB}
  PanelTags = {sched}
  Rules <- MCRules
  Addresses = {0, 1}
  AddressBits = 1
  NoAddress = noAddress
  NoIsp = noIsp
  Requests = {r1}
  MaxOps = 6
  MaxFaults = 1
INVARIANTS
  TypeOK
  NeverARival
PROPERTIES
  SecondOwnerOnlyByRace
  CoveredGetsOwner
