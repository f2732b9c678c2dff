SPECIFICATION Spec
CONSTANTS
  r1 = r1
  r2 = r2
  BlockSize = 4
  LoopbackNet = 31
  FirstChannel5 = 32
  Trees <- MCTr181
  FirstReport <- MCFirstReport
  Parts <- MCObjects
  Backups <- MCBackups
  Changes <- MCChanges
  Asks <- MCNoAsks
  Requests = {r1, r2}
  MaxOps = 2
  MaxChanges = 0
  MaxPolls = 2
INVARIANTS NeverNoOnHalfATree
