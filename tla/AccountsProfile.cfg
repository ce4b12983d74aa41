CONSTANTS
  a = a  b = b  c = c  d = d
  e1 = e1  e2 = e2  e3 = e3
  p1 = p1  p2 = p2
  r1 = r1  r2 = r2  r3 = r3
  Ids = {a, b}
  Emails = {e1, e2}
  Passwords = {p1, p2}
  Reqs = {r1, r2}
  Jobs <- FieldJobs
  InitialDbs <- Dbs
  None = None
  Keep = Keep
SPECIFICATION Spec
PROPERTY ProfileKeepsProtected
