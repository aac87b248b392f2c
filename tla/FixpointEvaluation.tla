-------------------------- MODULE FixpointEvaluation --------------------------
(***************************************************************************)
(* The evaluator (engine/evaluate.ts, deriveDatabase): a stratified        *)
(* program's facts, then stratum after stratum its rules, semi-naively, up *)
(* to the fixpoint; and one query answered from the result.                *)
(*                                                                         *)
(* A round runs the passes of its stratum in order: a pass is one rule     *)
(* with one of its positive goals reading the last round's new facts       *)
(* (delta) and the others the database; a rule without positive goals, or  *)
(* an aggregate rule, runs in the first round only.                        *)
(*                                                                         *)
(* solveGoals is a generator over live Maps: facts added during a pass may *)
(* or may not still be visited by it.  So a pass adds, in any order, heads *)
(* of solutions over the database as it is, and may end once it has added  *)
(* those of the database it began with.  In a stratum's first round delta  *)
(* is a shallow copy of the database (new Map(db), evaluate.ts:1125): the  *)
(* relations present when the stratum begins are the live ones.            *)
(***************************************************************************)
EXTENDS Stratification

CONSTANTS
  Queries,            \* the queries answered
  MaxFacts,           \* EvaluateOptions.maxFacts
  MaxIterations,      \* ... maxIterations
  MaxAggregateRows,   \* ... maxAggregateRows
  MaxRows             \* ... maxRows, at least 1

\* The limits are counts; a query's body is a sequence of goals, as a
\* clause's is.
ASSUME LimitsAssumption == MaxFacts \in Nat /\ MaxRows \in Nat \ {0}
ASSUME QueriesAssumption ==
  \A q \in Queries : Len(q.body) \in Nat /\ DOMAIN q.body = 1..Len(q.body)

VARIABLES
  support,      \* why each fact of the database is in it
  level,        \* the stratum being evaluated
  firstRound,
  delta,        \* facts new in the last round, or all at the stratum's start
  fresh,        \* facts new in this round
  todo,         \* passes this round has still to finish: <<clause, goal>>
  before,       \* the database when the pass began
  iterations,
  answer        \* the query answered, and its rows

evaluateVars == <<support, level, firstRound, delta, fresh, todo, before,
                  iterations, answer>>
vars == <<program, phase, stratifyVars, evaluateVars>>

Limits == {"too_many_facts", "too_many_rounds", "too_many_rows"}
Ended  == {"refused", "answered"} \cup Limits

db == DOMAIN support

\* A given fact has no support but itself (clause 0).
Given == [clause |-> 0, uses |-> {}, absent |-> {}]

FactsOf(prog) ==
  {Fact(prog[c].head.pred,
        [k \in DOMAIN prog[c].head.args |-> prog[c].head.args[k].value]) :
     c \in Ordinary(prog) \ RulesOf(prog)}

\* Mutation of RulesAt: rules of higher strata run too early.
RulesFrom(l) == {c \in RulesOf(program) : strata[program[c].head.pred] >= l}

RulesAt(l)  == {c \in RulesOf(program) : strata[program[c].head.pred] = l}
PastTheLast == \A p \in DOMAIN strata : strata[p] < level

\* Mutation of PassesOf: the last positive goal alone reads delta.
PassesOfLastGoal(c) ==
  IF program[c].type = "aggregate" \/ Positive(program[c].body) = {}
  THEN {<<c, 0>>}
  ELSE {<<c, Max(Positive(program[c].body))>>}

\* The passes of rule c; goal 0 when no goal reads delta.
PassesOf(c) ==
  IF program[c].type = "aggregate" \/ Positive(program[c].body) = {}
  THEN {<<c, 0>>}
  ELSE {<<c, g>> : g \in Positive(program[c].body)}

\* The passes of one round of stratum l.
Passes(l, first) ==
  {p \in UNION {PassesOf(c) : c \in RulesAt(l)} : first \/ p[2] # 0}

IsAggregate(p) == program[p[1]].type = "aggregate"

\* What the delta goal of a pass reads while the database is D.
DeltaIn(D) ==
  IF firstRound THEN {f \in D : \E d \in delta : d.pred = f.pred} ELSE delta

PassSolutions(p, D) ==
  LET body == program[p[1]].body
  IN  Solutions(body,
                [g \in Positive(body) |-> IF g = p[2] THEN DeltaIn(D) ELSE D], D)

\* Mutation of Add: a fact derived again takes its last support.
AddOverwriting(why) ==
  /\ support' = [f \in db \cup DOMAIN why |->
                   IF f \in DOMAIN why THEN why[f] ELSE support[f]]
  /\ fresh' = fresh \cup (DOMAIN why \ db)
  /\ phase' = IF Cardinality(db \cup DOMAIN why) > MaxFacts THEN "too_many_facts"
              ELSE phase

\* addTuple: the facts that why gives a support and the database lacks.
Add(why) ==
  /\ support' = [f \in db \cup DOMAIN why |->
                   IF f \in db THEN support[f] ELSE why[f]]
  /\ fresh' = fresh \cup (DOMAIN why \ db)
  /\ phase' = IF Cardinality(db \cup DOMAIN why) > MaxFacts THEN "too_many_facts"
              ELSE phase

-----------------------------------------------------------------------------
Init ==
  /\ StratifyInit
  /\ support = [f \in {} |-> Given]
  /\ level = 0
  /\ firstRound = TRUE
  /\ delta = {} /\ fresh = {} /\ todo = {} /\ before = {}
  /\ iterations = 0
  /\ answer = None

\* stratifyProgram, the first step of deriveDatabase (and of parseProgram).
Stratify ==
  /\ Relax \/ NextPass \/ Stratified
  /\ UNCHANGED evaluateVars

LoadFacts ==
  /\ phase = "load"
  /\ IF Cardinality(FactsOf(program)) > MaxFacts
     THEN phase' = "too_many_facts" /\ UNCHANGED support
     ELSE phase' = "stratum" /\ support' = [f \in FactsOf(program) |-> Given]
  /\ UNCHANGED <<program, stratifyVars, level, firstRound, delta, fresh, todo,
                 before, iterations, answer>>

\* Mutation of NextStratum: a stratum without rules is not passed by.
NextStratumStuck ==
  /\ phase = "stratum"
  /\ \/ /\ PastTheLast
        /\ phase' = "ready"
        /\ UNCHANGED <<firstRound, delta>>
     \/ /\ ~PastTheLast /\ RulesAt(level) # {}
        /\ phase' = "round"
        /\ firstRound' = TRUE
        /\ delta' = db
  /\ UNCHANGED <<program, stratifyVars, support, level, fresh, todo, before,
                 iterations, answer>>

\* for (const rules of stratified.strata): strata without rules are skipped.
NextStratum ==
  /\ phase = "stratum"
  /\ \/ /\ PastTheLast
        /\ phase' = "ready"
        /\ UNCHANGED <<level, firstRound, delta>>
     \/ /\ ~PastTheLast /\ RulesAt(level) = {}
        /\ level' = level + 1
        /\ UNCHANGED <<phase, firstRound, delta>>
     \/ /\ ~PastTheLast /\ RulesAt(level) # {}
        /\ phase' = "round"
        /\ firstRound' = TRUE
        /\ delta' = db
        /\ UNCHANGED level
  /\ UNCHANGED <<program, stratifyVars, support, fresh, todo, before,
                 iterations, answer>>

\* Mutation of NextRound: every round runs the rules without positive goals
\* again.
NextRoundRunsAll ==
  /\ phase = "round"
  /\ IF firstRound \/ delta # {}
     THEN IF iterations + 1 > MaxIterations
          THEN /\ phase' = "too_many_rounds"
               /\ UNCHANGED <<level, fresh, todo, before, iterations>>
          ELSE /\ phase' = "pass"
               /\ iterations' = iterations + 1
               /\ fresh' = {}
               /\ todo' = Passes(level, TRUE)
               /\ before' = db
               /\ UNCHANGED level
     ELSE /\ phase' = "stratum"
          /\ level' = level + 1
          /\ UNCHANGED <<fresh, todo, before, iterations>>
  /\ UNCHANGED <<program, stratifyVars, support, firstRound, delta, answer>>

\* while (firstRound || delta.size > 0)
NextRound ==
  /\ phase = "round"
  /\ IF firstRound \/ delta # {}
     THEN IF iterations + 1 > MaxIterations
          THEN /\ phase' = "too_many_rounds"
               /\ UNCHANGED <<level, fresh, todo, before, iterations>>
          ELSE /\ phase' = "pass"
               /\ iterations' = iterations + 1
               /\ fresh' = {}
               /\ todo' = Passes(level, firstRound)
               /\ before' = db
               /\ UNCHANGED level
     ELSE /\ phase' = "stratum"
          /\ level' = level + 1
          /\ UNCHANGED <<fresh, todo, before, iterations>>
  /\ UNCHANGED <<program, stratifyVars, support, firstRound, delta, answer>>

EndRound ==
  /\ phase = "pass" /\ todo = {}
  /\ phase' = "round"
  /\ delta' = fresh
  /\ firstRound' = FALSE
  /\ UNCHANGED <<program, stratifyVars, support, level, fresh, todo, before,
                 iterations, answer>>

\* One solution of an ordinary rule.
Derive(p) ==
  /\ phase = "pass" /\ IsFirst(p, todo) /\ ~IsAggregate(p)
  /\ \E using \in PassSolutions(p, db) :
       LET c == program[p[1]]
       IN  Add([f \in {HeadOf(c, using)} |->
                  [clause |-> p[1],
                   uses   |-> {using[g] : g \in DOMAIN using},
                   absent |-> AbsencesOf(c, using)]])
  /\ UNCHANGED <<program, stratifyVars, level, firstRound, delta, todo, before,
                 iterations, answer>>

FinishPass(p) ==
  /\ phase = "pass" /\ IsFirst(p, todo) /\ ~IsAggregate(p)
  /\ \A using \in PassSolutions(p, before) :
       HeadOf(program[p[1]], using) \in db
  /\ todo' = todo \ {p}
  /\ before' = db
  /\ UNCHANGED <<program, phase, stratifyVars, support, level, firstRound,
                 delta, fresh, iterations, answer>>

\* deriveAggregateRuleEntries: every group is reduced before any is added.
DeriveAggregate(p) ==
  /\ phase = "pass" /\ IsFirst(p, todo) /\ IsAggregate(p)
  /\ LET c    == program[p[1]]
         rows == AllSolutions(c.body, db)
         Why(f) ==
           LET group == CHOOSE group \in Reducible(c, rows) :
                          f = ReducedFact(c, rows, group)
               used  == InGroup(c, rows, group)
           IN  [clause |-> p[1],
                uses   |-> UNION {{u[g] : g \in DOMAIN u} : u \in used},
                absent |-> UNION {AbsencesOf(c, u) : u \in used}]
     IN  IF Cardinality(rows) > MaxAggregateRows
         THEN /\ phase' = "too_many_rows"
              /\ UNCHANGED <<support, fresh>>
         ELSE Add([f \in Reductions(c, db) |-> Why(f)])
  /\ todo' = todo \ {p}
  /\ before' = DOMAIN support'
  /\ UNCHANGED <<program, stratifyVars, level, firstRound, delta, iterations,
                 answer>>

Rows(q, D) == LET Row(u) == [x \in q.project |-> Bindings(q.body, u)[x]]
              IN  {Row(u) : u \in AllSolutions(q.body, D)}

\* evaluateQuerySpec: distinct rows, cut at MaxRows.
AnswerRelational(q) ==
  /\ phase = "ready" /\ q.reduce = None
  /\ phase' = "answered"
  /\ \E rows \in SUBSET Rows(q, db) :
       /\ Cardinality(rows) = Min({MaxRows, Cardinality(Rows(q, db))})
       /\ answer' = [query |-> q, rows |-> rows]
  /\ UNCHANGED <<program, stratifyVars, support, level, firstRound, delta,
                 fresh, todo, before, iterations>>

\* ... or one reduction over every solution: never over a part of them.
AnswerAggregate(q) ==
  /\ phase = "ready" /\ q.reduce # None
  /\ LET rows == AllSolutions(q.body, db)
     IN  IF Cardinality(rows) > MaxAggregateRows
         THEN phase' = "too_many_rows" /\ UNCHANGED answer
         ELSE /\ phase' = "answered"
              /\ answer' = [query |-> q,
                             rows  |-> IF q.reduce.op = "count" \/ rows # {}
                                       THEN {[x \in {q.reduce.as} |-> Reduce(q, rows)]}
                                       ELSE {}]
  /\ UNCHANGED <<program, stratifyVars, support, level, firstRound, delta,
                 fresh, todo, before, iterations>>

Next ==
  \/ Stratify
  \/ LoadFacts
  \/ NextStratum
  \/ NextRound
  \/ EndRound
  \/ \E p \in todo : Derive(p) \/ FinishPass(p) \/ DeriveAggregate(p)
  \/ \E q \in Queries : AnswerRelational(q) \/ AnswerAggregate(q)

\* One synchronous call: it runs on until it returns or throws.
Spec == Init /\ [][Next]_vars /\ WF_vars(Next)

-----------------------------------------------------------------------------
(* Properties                                                              *)

Phases == {"stratify", "load", "stratum", "round", "pass", "ready"} \cup Ended

\* The types of the evaluator's state.
TypeOK ==
  /\ program \in Programs /\ phase \in Phases
  /\ strata \in [Predicates(program) -> Nat]
  /\ pass \in Nat /\ level \in Nat /\ iterations \in Nat
  /\ left \subseteq Dependencies(program)
  /\ changed \in BOOLEAN /\ firstRound \in BOOLEAN
  /\ fresh \subseteq db /\ delta \subseteq db /\ before \subseteq db
  /\ \A f \in db : f.pred \in Predicates(program)
  /\ todo \subseteq Passes(level, firstRound)

\* Every rule whose body holds has its head in the finished database: the
\* passes over delta and live relations lose no consequence, in whatever
\* order the relations list their tuples (evaluate.ts:1125).
FinishedIsClosed ==
  phase \in {"ready", "answered"} =>
    \A c \in RulesOf(program) :
      IF program[c].type = "aggregate"
      THEN Reductions(program[c], db) \subseteq db
      ELSE \A using \in AllSolutions(program[c].body, db) :
             HeadOf(program[c], using) \in db

\* A proof's absences are read from complete relations: what an explanation
\* calls absent is in the database at no later time (evaluate.ts:553-560).
AbsencesStayTrue ==
  \A f, g \in db : \A a \in support[f].absent : ~Covers(a, g)

\* The strata are evaluated bottom-up: a step adds facts to the relations of
\* its own stratum alone, so those below it are final.
StrataAreFinal ==
  [][\A f \in DOMAIN support' \ db :
       phase # "load" => strata[f.pred] = level]_vars

\* A call ends: the passes of stratification are bounded, and the rounds
\* reach a fixpoint or a limit.
Terminates == <>(phase \in Ended)
=============================================================================
