-------------------------- MODULE MCMutationCommit --------------------------
(***************************************************************************)
(* Instances of MutationCommit for TLC: two namespaces, two facts, and the *)
(* requests that make the interesting cases happen: a retried assert and   *)
(* a retract of the same fact under the same id (two operations), a        *)
(* different assert under that id (a conflict), an implicit supersession   *)
(* that removes one fact and adds the other, and an assert elsewhere.      *)
(***************************************************************************)
EXTENDS MutationCommit

CONSTANTS p1, p2, n1, n2, f1, f2, o1

Ask(op, n, id, remove, add) ==
  [op |-> op, ns |-> n, opId |-> id, remove |-> remove, add |-> add]

MCRequests ==
  {Ask("assert", n1, o1, {}, {f1}),
   Ask("assert", n1, o1, {}, {f2}),
   Ask("retract", n1, o1, {f1}, {}),
   Ask("supersede", n1, None, {f1}, {f2}),
   Ask("assert", n2, o1, {}, {f1})}

=============================================================================
