CONSTANTS
  u1 = u1
  c1 = c1  c2 = c2
  r1 = r1  r2 = r2
  short = short  default = default  long = long
  Malformed = "?"
  OriginsOf <- Origins
  Number <- Numbers
  Prefix <- Prefixes
  OutOfRange <- Narrow
  Environments <- SomeEnvironments
  Users = {u1}
  Clients = {c1, c2}
  Slots = {r1, r2}
  Offers <- SomeRequests
  Tables <- OneAccount
  Throttlers = {short, default, long}
  Limit <- Limits
  Ttl <- Ttls
  MaxTime = 2
  MaxHits = 3
  MaxChanges = 1
  None = None
SPECIFICATION Spec
CHECK_DEADLOCK FALSE
SYMMETRY SlotSymmetry
INVARIANTS TypeOK SettingsTakeEffect AdmittedWithinLimits RefusalsJustified HandlersReachedRightly IInv
