\* A captured fact is removed and added again by another operation.
CONSTANTS
  w1 = w1
  w2 = w2
  n1 = n1
  n2 = n2
  t1 = t1
  t2 = t2
  f1 = f1
  None = None
  Workers = {w1}
  Namespaces = {n1}
  Transcripts = {t1}
  Facts = {f1}
  DailyCap = 1
  MaxDay = 1
  MaxChanges = 2
  MaxPrunes = 1
  MaxFailures = 0
SPECIFICATION Spec
PROPERTIES
  PruneSparesReadded
\* There may be no Stop event and no user left.
CHECK_DEADLOCK FALSE
