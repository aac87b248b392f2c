----------------------- MODULE MCJournalCheckpoints -----------------------
(* Instances of JournalCheckpoints for TLC: a request with an operation   *)
(* id, the same with another timestamp and one without an operation id;   *)
(* and one operation alone, with its retries.                             *)
EXTENDS JournalCheckpoints

CONSTANTS n1, n2, c1, o1, t1

MCRequests == {[opId |-> o1, at |-> None], [opId |-> o1, at |-> t1],
               [opId |-> None, at |-> None]}

MCRetry == {[opId |-> o1, at |-> None]}
===========================================================================
