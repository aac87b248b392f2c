\* A dead owner, and two waiters that both judge its lock file stale.
CONSTANTS
  p1 = p1
  p2 = p2
  p3 = p3
  None = None
  Stale = Stale
  Procs = {p1, p2}
  MaxCrashes = 1
  MaxCalls = 3
SPECIFICATION Spec
INVARIANTS
  MutualExclusion
\* The callers may have nothing more to ask.
CHECK_DEADLOCK FALSE
