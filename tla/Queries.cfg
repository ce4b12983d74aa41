CONSTANTS
  u1 = u1  u2 = u2  u3 = u3  u4 = u4
  r1 = r1  r2 = r2
  Ids = {u1, u2, u3, u4}
  Readers = {r1}
  Tables <- ThreeAccounts
  Asks <- AllAsks
  DefaultPage = 1
  DefaultLimit = 2
  RecentTake = 2
  MaxChanges = 2
  MaxPage = 5
  None = None
SPECIFICATION Spec
INVARIANTS TypeOK WalkSkipsOnlyAfterLeaving WalkRepeatsOnlyAfterEntering QuietWalksExact FiguresWithinChanges
