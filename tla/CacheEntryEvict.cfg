CONSTANTS
  u1 = u1  u2 = u2
  a1 = a1
  r1 = r1  r2 = r2
  w1 = w1  w2 = w2
  Ids = {u1, u2}
  Admins = {a1}
  Readers = {r1, r2}
  Writers = {w1, w2}
  Gets <- SomeGets
  Writes <- OneUpdate
  MaxFaults = 0
  None = None
SPECIFICATION Spec
CHECK_DEADLOCK FALSE
INVARIANT EntryEvicted
