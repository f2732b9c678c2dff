SPECIFICATION FairSpec
CONSTANTS
  r1 = r1
  r2 = r2
  BlockSize = 4
  LoopbackNet = 31
  FirstChannel5 = 32
  Trees <- MCTrees
  FirstReport <- MCFirstReport
  Parts <- MCParts
  Backups <- MCBackups
  Changes <- MCChanges
  Asks <- MCAsks
  Requests = {r1, r2}
  MaxOps = 2
  MaxChanges = 1
  MaxPolls = 2
INVARIANTS TypeOK LinkKept NoHalfStatic ChangeGoesToTheWan OwnResults
PROPERTIES EveryRequestAnswered
