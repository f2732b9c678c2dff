SPECIFICATION Spec
CONSTANTS
  ssid = ssid
  key = key
  factory = factory
  home = home
  none = none
  blank = blank
  nullConfig = nullConfig
  r1 = r1
  r2 = r2
  Paths = {ssid, key}
  ConfigPaths = {ssid, key}
  WriteOnly = {key}
  Stubborn = {}
  Values = {factory, home}
  Factory = factory
  Absent = none
  Blank = blank
  NoConfig = nullConfig
  Requests = {r1, r2}
  Ops = {"apply", "backup", "restore", "toggle", "reset"}
  MaxAttempts = 2
  MaxOps = 4
  MaxFaults = 1
INVARIANTS TypeOK RetriesBounded OffStopsTheLoop
PROPERTIES SecondTaskOnlyByRace WriteOnlyKept
SYMMETRY RequestSymmetry
