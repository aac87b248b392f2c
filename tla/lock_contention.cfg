\* Three processes contend; one crashes and may come back.
CONSTANTS
  p1 = p1
  p2 = p2
  p3 = p3
  None = None
  Stale = Stale
  Procs = {p1, p2, p3}
  MaxCrashes = 1
  MaxCalls = 3
SPECIFICATION FairSpec
INVARIANTS
  ExclusiveUnlessStolen
PROPERTIES
  ImplementsLockOwner
  WaitEnds
\* The callers may have nothing more to ask.
CHECK_DEADLOCK FALSE
