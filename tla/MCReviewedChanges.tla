--------------------------- MODULE MCReviewedChanges ---------------------------
(***************************************************************************)
(* Instances of ReviewedChanges and ClauseSources for TLC: a policy in one *)
(* namespace makes two pairs of clauses violations, across namespaces; a   *)
(* check wants one clause to stay.                                         *)
(***************************************************************************)
EXTENDS ClauseSources, TLC

CONSTANTS p1, p2, n1, n2, policy, a, b, c

MCInitial == [n \in {n1, n2} |-> IF n = n1 THEN {policy, a} ELSE {}]

Conflicting == {{a, b}, {b, c}}

MCFaults(kind, program) ==
  IF kind = "integrity"
  THEN IF policy \in program THEN {s \in Conflicting : s \subseteq program} ELSE {}
  ELSE IF {a, c} \cap program = {} THEN {"a_or_c"} ELSE {}

NoNew(names)   == [kind |-> "integrity", mode |-> "no_new", names |-> names]
Strict(names)  == [kind |-> "integrity", mode |-> "strict", names |-> names]
Suite(names)   == [kind |-> "checks", mode |-> "strict", names |-> names]

Both == {n1, n2}

\* Without enforcement, back again, and under either strict rule.
MCRequests ==
  {[ns |-> n2, add |-> {b}, remove |-> {}, enforce |-> {}],
   [ns |-> n2, add |-> {}, remove |-> {b}, enforce |-> {}],
   [ns |-> n2, add |-> {c}, remove |-> {}, enforce |-> {Strict(Both)}],
   [ns |-> n1, add |-> {}, remove |-> {a}, enforce |-> {Suite(Both)}]}

\* One change that takes nothing away.
MCAddition == {[ns |-> n1, add |-> {b}, remove |-> {}, enforce |-> {}]}

MCExtractions ==
  {[ns |-> n1, names |-> Both, add |-> {c}, remove |-> {a},
    enforce |-> {NoNew(Both), Suite(Both)}],
   [ns |-> n2, names |-> Both, add |-> {c}, remove |-> {b},
    enforce |-> {NoNew(Both)}]}

\* Sources are asked for by one process at a time, while nothing is proposed.
Apart ==
  LET asking == {p \in Procs : Calling(p)}
  IN  Faithful /\ (asking # {} => Cardinality(asking) = 1 /\ proposals = {})

MCNamesAsked == {{n1}, Both}

Interchangeable == Permutations(Procs)
=============================================================================
