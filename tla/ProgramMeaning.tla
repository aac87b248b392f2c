---------------------------- MODULE ProgramMeaning ----------------------------
(***************************************************************************)
(* What stratification and evaluation are to agree with, in terms that     *)
(* know nothing of passes, strata, rounds or deltas: recursion through     *)
(* negation or aggregation, and the stable model of a program.             *)
(***************************************************************************)
EXTENDS FixpointEvaluation

\* The predicates that p depends on, itself included: those of every set
\* that holds p and what its members' rules read.
DependsOn(prog, p) ==
  {q \in Predicates(prog) :
     \A S \in SUBSET Predicates(prog) :
       (/\ p \in S
        /\ \A d \in Dependencies(prog) :
             HeadPred(prog, d) \in S => BodyPred(prog, d) \in S) => q \in S}

\* Recursion through negation or aggregation.
StrictCycle(prog) ==
  \E d \in Dependencies(prog) :
    /\ Strict(prog, d)
    /\ HeadPred(prog, d) \in DependsOn(prog, BodyPred(prog, d))

\* One naive step from S, in which negations and reductions read the
\* candidate model I.
NaiveStep(prog, I, S) ==
  UNION {IF prog[c].type = "aggregate" THEN Reductions(prog[c], I)
         ELSE LET body == prog[c].body
              IN  {HeadOf(prog[c], using) :
                     using \in Solutions(body, [g \in Positive(body) |-> S], I \cup S)}
         : c \in RulesOf(prog)}

\* The program's facts and their consequences, and no more: a part of M that
\* has the facts, and the consequences it has by itself when negations and
\* reductions read M, is M.
IsModel(prog, M) ==
  /\ FactsOf(prog) \subseteq M /\ NaiveStep(prog, M, M) \subseteq M
  /\ \A S \in SUBSET M :
       (FactsOf(prog) \subseteq S /\ NaiveStep(prog, M, S) \subseteq S) => S = M

\* What evaluation returns is exact against M, or it throws: the finished
\* database is M, the bound on facts throws only when M is larger, a
\* relational answer lists rows of M, all of them unless it was cut at
\* MaxRows, and a reduction covers every solution.
ExactAgainst(M) ==
  /\ phase = "ready" => db = M
  /\ phase = "too_many_facts" => ~(IsFiniteSet(M) /\ Cardinality(M) <= MaxFacts)
  /\ phase = "answered" =>
       LET q    == answer.query
           rows == AllSolutions(q.body, M)
       IN  IF q.reduce = None
           THEN /\ answer.rows \subseteq Rows(q, M)
                /\ Cardinality(answer.rows) < MaxRows => answer.rows = Rows(q, M)
           ELSE \A row \in answer.rows : row[q.reduce.as] = Reduce(q, rows)

-----------------------------------------------------------------------------
\* A program is refused exactly when its recursion goes through negation or
\* aggregation ("exactly a dependency cycle containing negation or
\* aggregation", stratify.ts:39): the bound on the passes never refuses a
\* long chain of dependencies, whatever the order of its rules, and an
\* accepted program's strata respect every dependency.
RefusalIsExact ==
  /\ AcceptedIsRespected
  /\ phase = "refused" => StrictCycle(program)
  /\ phase = "load" => ~StrictCycle(program)

\* Recorded proofs are trees over the database: no fact supports itself, not
\* even through a cycle of rules, since every set of facts that use others
\* has one that uses none of the set.
ProofsAreWellFounded ==
  /\ \A f \in db : support[f].uses \subseteq db
  /\ \A S \in SUBSET {f \in db : support[f].uses # {}} :
       S # {} => \E f \in S : support[f].uses \cap S = {}
=============================================================================
