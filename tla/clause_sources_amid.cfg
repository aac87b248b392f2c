CONSTANTS
  None = None
  p1 = p1  p2 = p2
  n1 = n1  n2 = n2
  policy = policy  a = a  b = b  c = c
  Procs = {p1, p2}
  Namespaces = {n1, n2}
  Clauses = {policy, a, b, c}
  MaxTime = 1
  Initial <- MCInitial
  Faults <- MCFaults
  Requests <- MCAddition
  Extractions <- MCExtractions
  NamesAsked <- MCNamesAsked
  MaxAsked = 1
  OpIds = {"o"}
  MaxEntries = 1
  MaxProposals = 0
SYMMETRY Interchangeable
SPECIFICATION SourcesSpec
INVARIANTS
  EveryStoredClauseHasItsSource
CONSTRAINT Apart
