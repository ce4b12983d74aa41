CONSTANTS
  n1 = n1  n2 = n2  n3 = n3
  r1 = r1  r2 = r2  r3 = r3
  Names = {n1, n2}
  Subfolders = {"sub"}
  Reqs = {r1, r2}
  Width = 2
  Jobs <- SomeJobs
  MaxFaults = 1
  None = None
SPECIFICATION Spec
SYMMETRY SlotSymmetry
INVARIANTS TypeOK StoredUntilRemoved DownloadsWhole ListingHonest OrphansHaveCause
