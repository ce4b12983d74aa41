CONSTANTS
  Jobs = {j1}
  Passes = {p1, p2}
  Attempts = 3
  MaxRetries = 5
  MaxAge = 2
  Grace = 1
  Graces = {0}
  MaxStalled = 1
  MaxNow = 2
  MaxLost = 2
  None = None
SPECIFICATION FairSpec
INVARIANTS DuplicatesExcused AttemptsBounded
PROPERTY JobsSettle
