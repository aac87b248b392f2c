\* A checkpoint is published, then a namespace gets its first file.
SPECIFICATION Spec
CONSTANTS
  n1 = n1
  n2 = n2
  c1 = c1
  o1 = o1
  t1 = t1
  Namespaces = {n1, n2}
  Born = {n1}
  Clauses = {c1}
  Requests <- MCRequests
  MaxSegments = 2
  MaxActive = 2
  MaxTotal = 4
  MaxWrites = 4
  MaxCalls = 2
  MaxFailures = 0
  None = None
  Recovered = Recovered
CHECK_DEADLOCK FALSE
INVARIANTS
  PublishedCheckpointsReplay
