---------------------------- MODULE AtomicStore ----------------------------
(***************************************************************************)
(* What the memory store promises its callers: the text of every namespace *)
(* and the operation journal are one value, and a journaled operation      *)
(* changes both in a single step.  Nothing else changes either of them:    *)
(* not a crash, not a failed write, not the recovery of one.               *)
(*                                                                         *)
(* content[n] is the set of clauses of namespace n, Initial[n] at first,   *)
(* and log the sequence of journal entries since.  An entry carries its    *)
(* key (op, ns, opId) and the clauses the operation removed and added.     *)
(***************************************************************************)
EXTENDS Naturals, Sequences

CONSTANTS Namespaces, Initial

VARIABLES content, log

vars == <<content, log>>

Init ==
  /\ content = Initial
  /\ log = <<>>

SameKey(e, f) == e.op = f.op /\ e.ns = f.ns /\ e.opId = f.opId

(* One operation takes effect: a retry of an operation that is already in  *)
(* the log never takes effect again.                                       *)
Record(e) ==
  /\ \A i \in DOMAIN log : ~SameKey(log[i], e)
  /\ log' = Append(log, e)
  /\ content' = [content EXCEPT ![e.ns] = (@ \ e.removed) \cup e.added]

Next == Len(log') = Len(log) + 1 /\ Record(log'[Len(log')])

Spec == Init /\ [][Next]_vars
=============================================================================
