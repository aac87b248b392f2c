\* Two processes; one may die alone, or the machine goes down; every I/O error
\* is considered, also inside a recovery.
CONSTANTS
  p1 = p1
  p2 = p2
  n1 = n1
  n2 = n2
  f1 = f1
  f2 = f2
  o1 = o1
  None = None
  Stale = Stale
  Boot = Boot
  Snapshot = Snapshot
  Procs = {p1, p2}
  Namespaces = {n1, n2}
  Facts = {f1, f2}
  Requests <- MCRequests
  Faults = {"stage", "publish", "replace", "cleanup", "recovery"}
  MaxCrashes = 2
  MaxCalls = 3
SPECIFICATION FairSpec
INVARIANTS
  TypeOK
  StoreMatchesJournal
  SnapshotIsRecorded
  RecoveryNeverRefuses
  AppliedAtMostOnce
  AnsweredIsJournaled
PROPERTIES
  ImplementsAtomicStore
  OnlyTheJournalCommits
  CallsEnd
\* The callers may have nothing more to ask.
CHECK_DEADLOCK FALSE
