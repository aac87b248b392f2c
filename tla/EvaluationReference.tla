------------------------- MODULE EvaluationReference -------------------------
(***************************************************************************)
(* The stable model of a program, computed: FixpointEvaluation against it. *)
(*                                                                         *)
(* A candidate is right when it is the set of consequences of the facts    *)
(* with negations and reductions read in it.  The search begins with the   *)
(* empty candidate, and goes on with what follows from the last one.       *)
(***************************************************************************)
EXTENDS ProgramMeaning

CONSTANT MaxSteps   \* of a search

\* One step of the search: more consequences of the candidate, and when
\* there are none the next candidate.
Refined(prog, s) ==
  LET more == s.found \cup NaiveStep(prog, s.candidate, s.found)
  IN  IF more # s.found THEN [s EXCEPT !.found = more]
      ELSE IF s.found # s.candidate
           THEN [candidate |-> s.found, found |-> FactsOf(prog)]
           ELSE s

Search(prog) ==
  LET after[n \in Nat] ==
        IF n = 0 THEN [candidate |-> {}, found |-> FactsOf(prog)]
                 ELSE Refined(prog, after[n - 1])
  IN  after

SearchEnd == [prog \in Programs |-> Search(prog)[MaxSteps]]

Model(prog) == SearchEnd[prog].found

\* The search has the steps it needs for every program without recursion
\* through negation or aggregation.
ASSUME StepsAssumption ==
  /\ MaxSteps \in Nat
  /\ \A prog \in Programs :
       ~StrictCycle(prog) => Refined(prog, SearchEnd[prog]) = SearchEnd[prog]

\* What evaluation returns is what the program means, or it throws
\* (evaluateQuerySpec and deriveDatabase).
EvaluationIsExact ==
  phase \in {"ready", "too_many_facts", "answered"} => ExactAgainst(Model(program))
=============================================================================
