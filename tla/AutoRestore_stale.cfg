SPECIFICATION Spec
CONSTANTS
  ssid = ssid
  key = key
  factory = factory
  home = home
  none = none
  blank = blank
  nullConfig = nullConfig
  r1 = r1
  r2 = r2
  Paths = {ssid}
  ConfigPaths = {ssid}
  WriteOnly = {}
  Stubborn = {}
  Values = {factory, home}
  Factory = factory
  Absent = none
  Blank = blank
  NoConfig = nullConfig
  Requests = {r1}
  Ops = {"apply", "backup"}
  MaxAttempts = 1
  MaxOps = 3
  MaxFaults = 0
INVARIANTS BackupNeverStale
