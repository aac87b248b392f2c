\* Rotations, repairs, previews and retries with interruptions, at the limits.
SPECIFICATION Spec
CONSTANTS
  n1 = n1
  n2 = n2
  c1 = c1
  o1 = o1
  t1 = t1
  Namespaces = {n1, n2}
  Born = {n1}
  Clauses = {c1}
  Requests <- MCRequests
  MaxSegments = 2
  MaxActive = 2
  MaxTotal = 3
  MaxWrites = 4
  MaxCalls = 4
  MaxFailures = 2
  None = None
  Recovered = Recovered
CHECK_DEADLOCK FALSE
INVARIANTS
  TypeOK
  ArtifactsAgree
  CheckpointsTellTheTruth
  ReturnsRepaired
  OperationRotatesOnce
PROPERTIES
  SequencesKeepTheirMeaning
