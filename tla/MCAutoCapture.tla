---------------------------- MODULE MCAutoCapture ----------------------------
(* Instances of AutoCapture for TLC: two workers, so that two Stop events  *)
(* race for the same transcript or for the last place under the cap.       *)
EXTENDS AutoCapture

CONSTANTS w1, w2, n1, n2, t1, t2, f1

InUse == {job[w] : w \in {w \in Workers : job[w] # None}}
Used  == {journal[i].ns : i \in DOMAIN journal} \cup {j.ns : j \in InUse}

\* A run that checks liveness declares no symmetry: of interchangeable values
\* the first is used first.
FirstFirst ==
  /\ n1 \in Used \/ Used = {}
  /\ job[w1] # None \/ InUse = {}
  /\ t1 \in {j.fp : j \in InUse} \/ InUse = {}

\* Events beside the captures' own: three, or two with both namespaces in use.
Events   == failures + changes + prunes + (today - 1)
Eventful == FirstFirst /\ Events <= (IF Cardinality(Used) <= 1 THEN 3 ELSE 2)

=============================================================================
