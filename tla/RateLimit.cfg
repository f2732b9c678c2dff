SPECIFICATION Spec
CONSTANTS
  ip1 = ip1
  ip2 = ip2
  ana = ana
  Ana = Ana
  bob = bob
  Ips = {ip1, ip2}
  Names = {ana, Ana, bob}
  Lower <- MCLower
  IpWindow = 1
  UserWindow = 2
  MaxIp = 2
  MaxUser = 3
  Second = 2
  MaxTime = 7
  MaxTries = 4
SYMMETRY AddressSymmetry
INVARIANTS
  TypeOK
  IpBudget
  AccountBudget
  RetryAfterExact
CHECK_DEADLOCK FALSE
