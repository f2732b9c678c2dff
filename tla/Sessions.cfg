SPECIFICATION Spec
CONSTANTS
  root = root
  other = other
  noUser = noUser
  Names = {root, other}
  First = root
  NoUser = noUser
  MaxAccounts = 3
  MaxChanges = 4
INVARIANTS
  TypeOK
  RevokedStaysRevoked
  OthersStayOpen
PROPERTIES
  ServiceKeepsAnAdmin
  KeepsPromise
CHECK_DEADLOCK FALSE
