\* Two captures race with each other and with midnight; crashes and
\* unavailable logs; the user removes captured facts, adds them again and
\* prunes them.
CONSTANTS
  w1 = w1
  w2 = w2
  n1 = n1
  n2 = n2
  t1 = t1
  t2 = t2
  f1 = f1
  None = None
  Workers = {w1, w2}
  Namespaces = {n1, n2}
  Transcripts = {t1, t2}
  Facts = {f1}
  DailyCap = 1
  MaxDay = 2
  MaxChanges = 2
  MaxPrunes = 1
  MaxFailures = 2
SPECIFICATION FairSpec
CONSTRAINT Eventful
INVARIANTS
  TypeOK
  OneAttemptPerTranscript
  WithinDailyCap
  StatusesAreTrue
  StoreReplaysJournal
PROPERTIES
  AttemptsAreSettled
  PruneSparesReasserted
\* There may be no Stop event and no user left.
CHECK_DEADLOCK FALSE
