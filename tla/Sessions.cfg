CONSTANTS
  u1 = u1  u2 = u2
  t1 = t1  t2 = t2  t3 = t3
  r1 = r1  r2 = r2  r3 = r3
  Users = {u1, u2}
  Tokens = {t1, t2, t3}
  Reqs = {r1, r2, r3}
  Offers <- AllKinds
  MaxFaults = 1
  InitialOwners <- OneSession
  None = None
SPECIFICATION Spec
CHECK_DEADLOCK FALSE
SYMMETRY SlotSymmetry
INVARIANTS TypeOK SessionKeepsAccount SpentTokensRefused TokensNeedActiveAccount IInv
PROPERTY ImplementsRegistry
