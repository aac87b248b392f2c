CONSTANTS
  None = None
  Programs <- MCPrograms
  Queries <- MCQueries
  MaxFacts = 12
  MaxIterations = 5
  MaxAggregateRows = 6
  MaxRows = 2
  MaxSteps = 20
SPECIFICATION Spec
INVARIANTS
  TypeOK
  RefusalIsExact
  EvaluationIsExact
  AbsencesStayTrue
  ProofsAreWellFounded
PROPERTIES
  StrataAreFinal
  Terminates
CHECK_DEADLOCK FALSE
