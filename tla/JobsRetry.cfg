CONSTANTS
  Jobs = {j1}
  Passes = {p1}
  Attempts = 3
  MaxRetries = 3
  MaxAge = 2
  Grace = 2
  Graces = {0}
  MaxStalled = 1
  MaxNow = 2
  MaxLost = 2
  None = None
SPECIFICATION Spec
PROPERTY FailedJobsAreRetried
