\* Two processes; one dies in the middle of a commit while the other lives.
CONSTANTS
  p1 = p1
  p2 = p2
  n1 = n1
  n2 = n2
  f1 = f1
  f2 = f2
  o1 = o1
  None = None
  Stale = Stale
  Boot = Boot
  Snapshot = Snapshot
  Procs = {p1, p2}
  Namespaces = {n1, n2}
  Facts = {f1, f2}
  Requests <- MCRequests
  Faults = {}
  MaxCrashes = 2
  MaxCalls = 3
SPECIFICATION Spec
INVARIANTS
  FilesMatchJournal
CHECK_DEADLOCK FALSE
