--------------------------- MODULE EvaluationProofs ---------------------------
(***************************************************************************)
(* For every program the parser accepts, in whatever order relations list  *)
(* their tuples: strata are evaluated bottom-up, absences stay true, and   *)
(* the finished database is closed under every rule.                       *)
(*                                                                         *)
(* The argument: an accepted program's strata respect its dependencies, so *)
(* that a rule reads negated and aggregated relations of lower strata      *)
(* only, which a step no longer changes (LowerIsClosed).  In a stratum, a   *)
(* solution whose head is missing is owed (RoundOwes, PassOwes): one of    *)
(* its tuples is new in this round, or a pass that will read it as delta   *)
(* is still to finish.  A round without new facts owes nothing.            *)
(***************************************************************************)
EXTENDS FixpointEvaluation, TLAPS

Evaluating == phase \notin {"stratify", "refused", "load"}

-----------------------------------------------------------------------------
(* The inductive invariant                                                 *)

\* A pass over the dependencies that has raised nothing has found those it
\* has relaxed respected.
Relaxed ==
  ~changed => \A d \in Dependencies(program) \ left :
                strata[HeadPred(program, d)] >= Required(program, strata, d)

Closed(c, D) ==
  IF program[c].type = "aggregate" THEN Reductions(program[c], D) \subseteq D
  ELSE \A using \in AllSolutions(program[c].body, D) :
         HeadOf(program[c], using) \in D

\* Strata below the current one are done.
LowerIsClosed ==
  Evaluating => \A c \in RulesOf(program) :
    strata[program[c].head.pred] < level => Closed(c, db)

\* No fact is derived above the current stratum, and what a proof calls
\* absent lies below its fact.
AbsencesAreBelow ==
  \A f \in db : support[f].absent # {} =>
    /\ strata[f.pred] <= level
    /\ \A a \in support[f].absent : /\ a.pred \in Predicates(program)
                                    /\ strata[a.pred] < strata[f.pred]

\* Between rounds: a missing head is owed by a tuple of delta.
RoundOwes ==
  phase = "round" =>
    /\ firstRound => delta = db
    /\ ~firstRound =>
         \A c \in RulesAt(level) :
           IF program[c].type = "aggregate" THEN Closed(c, db)
           ELSE \A u \in AllSolutions(program[c].body, db) :
                  \/ HeadOf(program[c], u) \in db
                  \/ \E g \in Positive(program[c].body) : u[g] \in delta

\* In a round: it is owed by a fact new in this round, or by a pass to come.
PassOwes ==
  phase = "pass" =>
    /\ db \ before \subseteq fresh
    /\ \A c \in RulesAt(level) :
         IF program[c].type = "aggregate"
         THEN <<c, 0>> \in todo \/ Closed(c, db)
         ELSE \A u \in AllSolutions(program[c].body, db) :
                \/ HeadOf(program[c], u) \in db
                \/ \E g \in Positive(program[c].body) : u[g] \in fresh
                \/ <<c, 0>> \in todo
                \/ \E g \in Positive(program[c].body) :
                     <<c, g>> \in todo /\ u[g] \in DeltaIn(db)

NothingYet == ~Evaluating => db = {} /\ level = 0

NoPasses == phase \notin {"pass"} \cup Limits => todo = {}

Finished == phase \in {"ready", "answered"} => PastTheLast

IInv == /\ TypeOK
        /\ Relaxed
        /\ AcceptedIsRespected
        /\ LowerIsClosed
        /\ AbsencesAreBelow
        /\ AbsencesStayTrue
        /\ RoundOwes
        /\ PassOwes
        /\ NothingYet
        /\ NoPasses
        /\ Finished

-----------------------------------------------------------------------------
(* Lemmas about programs and solutions                                     *)

LEMMA RulesHaveHeads ==
  ASSUME NEW prog, NEW c \in RulesOf(prog)
  PROVE  /\ c \in DOMAIN prog
         /\ prog[c].head.pred \in Predicates(prog)
  BY DEF RulesOf, Ordinary, Predicates

LEMMA GoalsAreDependencies ==
  ASSUME NEW prog, NEW c \in RulesOf(prog), NEW g \in Relational(prog[c].body)
  PROVE  /\ <<c, g>> \in Dependencies(prog)
         /\ HeadPred(prog, <<c, g>>) = prog[c].head.pred
         /\ BodyPred(prog, <<c, g>>) = prog[c].body[g].pred
         /\ prog[c].body[g].pred \in Predicates(prog)
<1>1. <<c, g>> \in Dependencies(prog)
  BY DEF Dependencies
<1> QED BY <1>1 DEF HeadPred, BodyPred, Predicates

LEMMA DependenciesHavePredicates ==
  ASSUME NEW prog, NEW d \in Dependencies(prog)
  PROVE  /\ HeadPred(prog, d) \in Predicates(prog)
         /\ BodyPred(prog, d) \in Predicates(prog)
<1>1. PICK c \in RulesOf(prog) : \E g \in Relational(prog[c].body) : d = <<c, g>>
  BY DEF Dependencies
<1>2. PICK g \in Relational(prog[c].body) : d = <<c, g>>
  BY <1>1
<1> QED BY <1>1, <1>2, GoalsAreDependencies, RulesHaveHeads

\* A rule reads relations of its own stratum or lower ones, and negates and
\* aggregates over lower ones only.
LEMMA RulesReadBelow ==
  ASSUME NEW prog, NEW lev \in [Predicates(prog) -> Nat], Respects(prog, lev),
         NEW c \in RulesOf(prog), NEW g \in Relational(prog[c].body)
  PROVE  /\ lev[prog[c].body[g].pred] <= lev[prog[c].head.pred]
         /\ prog[c].body[g].type = "negation" \/ prog[c].type = "aggregate" =>
              lev[prog[c].body[g].pred] < lev[prog[c].head.pred]
<1>1. lev[prog[c].head.pred] >= Required(prog, lev, <<c, g>>)
  BY GoalsAreDependencies DEF Respects
<1>2. lev[prog[c].body[g].pred] \in Nat /\ lev[prog[c].head.pred] \in Nat
  BY GoalsAreDependencies, RulesHaveHeads
<1> QED BY <1>1, <1>2, GoalsAreDependencies DEF Required, Strict

\* More facts: a solution that uses none of the new ones was one before.
LEMMA SolutionsShrink ==
  ASSUME NEW body, NEW D, NEW E, D \subseteq E,
         NEW u \in AllSolutions(body, E),
         \A g \in Positive(body) : u[g] \in D
  PROVE  u \in AllSolutions(body, D)
<1>1. u \in [Positive(body) -> D]
  BY DEF AllSolutions, Solutions
<1>2. \A g \in DOMAIN body : \A env :
        GoalHolds(body[g], env, E) => GoalHolds(body[g], env, D)
  BY DEF GoalHolds
<1> QED BY <1>1, <1>2 DEF AllSolutions, Solutions

\* Facts of relations that a body does not name change nothing.
LEMMA SolutionsStay ==
  ASSUME NEW body, NEW D, NEW E, D \subseteq E,
         \A f \in E \ D : \A g \in Relational(body) : f.pred # body[g].pred
  PROVE  AllSolutions(body, E) = AllSolutions(body, D)
<1>1. ASSUME NEW u \in AllSolutions(body, E) PROVE u \in AllSolutions(body, D)
  <2>1. ASSUME NEW g \in Positive(body) PROVE u[g] \in D
    <3>1. u[g] \in E /\ u[g].pred = body[g].pred
      BY <1>1 DEF AllSolutions, Solutions
    <3>2. g \in Relational(body)
      BY DEF Positive, Relational
    <3> QED BY <3>1, <3>2
  <2> QED BY <1>1, <2>1, SolutionsShrink
<1>2. ASSUME NEW u \in AllSolutions(body, D) PROVE u \in AllSolutions(body, E)
  <2>1. u \in [Positive(body) -> E]
    BY <1>2 DEF AllSolutions, Solutions
  <2>2. ASSUME NEW g \in DOMAIN body, NEW env, g \notin Positive(body),
               GoalHolds(body[g], env, D)
        PROVE  GoalHolds(body[g], env, E)
    <3>1. CASE body[g].type = "negation"
      <4>1. g \in Relational(body) BY <3>1 DEF Relational
      <4> QED BY <2>2, <3>1, <4>1 DEF GoalHolds, Matches
    <3>2. CASE body[g].type # "negation"
      BY <2>2, <3>2 DEF GoalHolds
    <3> QED BY <3>1, <3>2
  <2> QED BY <1>2, <2>1, <2>2 DEF AllSolutions, Solutions
<1> QED BY <1>1, <1>2

\* ... and a rule that was closed stays closed.
LEMMA ClosedStays ==
  ASSUME NEW c, NEW D, NEW E, D \subseteq E,
         \A f \in E \ D : \A g \in Relational(program[c].body) :
            f.pred # program[c].body[g].pred,
         Closed(c, D)
  PROVE  Closed(c, E)
<1>1. AllSolutions(program[c].body, E) = AllSolutions(program[c].body, D)
  BY SolutionsStay
<1>2. Reductions(program[c], E) = Reductions(program[c], D)
  BY <1>1 DEF Reductions
<1> QED BY <1>1, <1>2 DEF Closed

-----------------------------------------------------------------------------
(* Stratification                                                          *)

LEMMA InitIInv == Init => IInv
<1> SUFFICES ASSUME Init PROVE IInv
  OBVIOUS
<1> USE DEF Init, StratifyInit
<1>1. db = {}
  BY DEF db
<1>2. TypeOK
  BY <1>1 DEF TypeOK, Phases
<1>3. /\ Relaxed /\ AcceptedIsRespected /\ RoundOwes /\ PassOwes
      /\ NothingYet /\ NoPasses /\ Finished
  BY <1>1 DEF Relaxed, AcceptedIsRespected, RoundOwes, PassOwes, NothingYet,
              NoPasses, Finished
<1>4. LowerIsClosed /\ AbsencesAreBelow /\ AbsencesStayTrue
  BY <1>1 DEF LowerIsClosed, Evaluating, AbsencesAreBelow, AbsencesStayTrue
<1> QED BY <1>2, <1>3, <1>4 DEF IInv

\* The steps of stratification leave the evaluation, not yet begun, alone.
LEMMA NotYetEvaluating ==
  ASSUME IInv, ~Evaluating, ~Evaluating', phase' \in Phases,
         UNCHANGED <<program, evaluateVars>>,
         strata' \in [Predicates(program) -> Nat], pass' \in Nat,
         left' \subseteq Dependencies(program), changed' \in BOOLEAN
  PROVE  /\ TypeOK' /\ LowerIsClosed' /\ AbsencesAreBelow' /\ AbsencesStayTrue'
         /\ RoundOwes' /\ PassOwes' /\ NothingYet' /\ NoPasses' /\ Finished'
<1> USE DEF evaluateVars
<1>1. /\ db = {} /\ todo = {} /\ level = 0
      /\ db' = {} /\ todo' = {} /\ level' = 0
  BY DEF IInv, NothingYet, NoPasses, Evaluating, Limits, db
<1>2. TypeOK'
  BY <1>1 DEF IInv, TypeOK
<1>3. LowerIsClosed' /\ AbsencesAreBelow' /\ AbsencesStayTrue'
  BY <1>1 DEF LowerIsClosed, AbsencesAreBelow, AbsencesStayTrue
<1>4. RoundOwes' /\ PassOwes' /\ NothingYet' /\ NoPasses' /\ Finished'
  BY <1>1 DEF RoundOwes, PassOwes, NothingYet, NoPasses, Finished, Evaluating
<1> QED BY <1>2, <1>3, <1>4

LEMMA RelaxStep ==
  ASSUME IInv, Relax, UNCHANGED evaluateVars
  PROVE  IInv'
<1>1. PICK d \in left :
        LET head     == HeadPred(program, d)
            required == Required(program, strata, d)
        IN  /\ IsFirst(d, left)
            /\ left' = left \ {d}
            /\ IF strata[head] < required
               THEN /\ strata' = [strata EXCEPT ![head] = required]
                    /\ changed' = TRUE
               ELSE UNCHANGED <<strata, changed>>
  BY DEF Relax
<1>2. /\ phase = "stratify" /\ phase' = "stratify"
      /\ UNCHANGED <<program, pass>>
      /\ strata \in [Predicates(program) -> Nat]
      /\ left \subseteq Dependencies(program) /\ changed \in BOOLEAN /\ pass \in Nat
  BY DEF Relax, IInv, TypeOK
<1>3. /\ HeadPred(program, d) \in Predicates(program)
      /\ BodyPred(program, d) \in Predicates(program)
  BY <1>2, DependenciesHavePredicates
<1>4. Required(program, strata, d) \in Nat
  BY <1>2, <1>3 DEF Required
<1>5. strata' \in [Predicates(program) -> Nat] /\ changed' \in BOOLEAN
  BY <1>1, <1>2, <1>3, <1>4
<1>6. Relaxed'
  <2>1. CASE strata[HeadPred(program, d)] < Required(program, strata, d)
    BY <1>1, <2>1 DEF Relaxed
  <2>2. CASE ~(strata[HeadPred(program, d)] < Required(program, strata, d))
    <3>1. strata[HeadPred(program, d)] >= Required(program, strata, d)
      BY <2>2, <1>2, <1>3, <1>4
    <3> QED BY <1>1, <1>2, <2>2, <3>1 DEF Relaxed, IInv
  <2> QED BY <2>1, <2>2
<1>7. AcceptedIsRespected'
  BY <1>2 DEF AcceptedIsRespected
<1>8. left' \subseteq Dependencies(program) /\ pass' \in Nat /\ phase' \in Phases
  BY <1>1, <1>2 DEF Phases
<1> QED
  BY <1>2, <1>5, <1>6, <1>7, <1>8, NotYetEvaluating DEF IInv, Evaluating

LEMMA NextPassStep ==
  ASSUME IInv, NextPass, UNCHANGED evaluateVars
  PROVE  IInv'
<1> USE DEF stratifyVars
<1>1. /\ phase = "stratify" /\ phase' \in {"stratify", "refused"}
      /\ program' = program /\ strata' = strata
      /\ strata' \in [Predicates(program) -> Nat] /\ pass' \in Nat
      /\ left' \subseteq Dependencies(program) /\ changed' \in BOOLEAN
  <2>1. /\ phase = "stratify" /\ program' = program /\ pass \in Nat
        /\ strata \in [Predicates(program) -> Nat]
        /\ left \subseteq Dependencies(program) /\ changed \in BOOLEAN
    BY DEF NextPass, IInv, TypeOK
  <2>2. CASE pass = Cardinality(Predicates(program)) - 1
    BY <2>1, <2>2 DEF NextPass
  <2>3. CASE ~(pass = Cardinality(Predicates(program)) - 1)
    <3>1. /\ pass' = pass + 1 /\ left' = Dependencies(program)
          /\ changed' = FALSE /\ UNCHANGED <<phase, strata>>
      BY <2>3 DEF NextPass
    <3>2. pass' \in Nat
      BY <2>1, <3>1
    <3>3. changed' \in BOOLEAN
      BY <3>1
    <3> QED BY <2>1, <3>1, <3>2, <3>3, Zenon
  <2> QED BY <2>2, <2>3
<1>2. Relaxed'
  BY <1>1 DEF NextPass, Relaxed, IInv
<1>3. AcceptedIsRespected'
  BY <1>1 DEF AcceptedIsRespected
<1>4. ~Evaluating /\ ~Evaluating' /\ phase' \in Phases
  BY <1>1 DEF Evaluating, Phases, Ended
<1>5. UNCHANGED <<program, evaluateVars>>
  BY <1>1
<1> QED
  BY <1>1, <1>2, <1>3, <1>4, <1>5, NotYetEvaluating DEF IInv

LEMMA StratifiedStep ==
  ASSUME IInv, Stratified, UNCHANGED evaluateVars
  PROVE  IInv'
<1>1. /\ phase = "stratify" /\ phase' = "load" /\ left = {} /\ ~changed
      /\ UNCHANGED <<program, strata, pass, left, changed>>
      /\ strata' \in [Predicates(program) -> Nat] /\ pass' \in Nat
      /\ left' \subseteq Dependencies(program) /\ changed' \in BOOLEAN
  BY DEF Stratified, stratifyVars, IInv, TypeOK
<1>2. Relaxed' /\ AcceptedIsRespected'
  BY <1>1 DEF Relaxed, AcceptedIsRespected, Respects, IInv
<1> QED
  BY <1>1, <1>2, NotYetEvaluating DEF IInv, Evaluating, Phases

-----------------------------------------------------------------------------
(* Evaluation                                                              *)

\* The steps that add no facts and change neither program nor strata keep
\* what is said of facts alone.
LEMMA FactsKept ==
  ASSUME IInv, Evaluating, Evaluating', level' \in Nat, level <= level',
         UNCHANGED <<program, stratifyVars, support>>
  PROVE  /\ Relaxed' /\ AcceptedIsRespected' /\ NothingYet'
         /\ AbsencesAreBelow' /\ AbsencesStayTrue'
<1> USE DEF stratifyVars
<1>1. db' = db
  BY DEF db
<1>2. Relaxed' /\ AcceptedIsRespected' /\ NothingYet'
  BY DEF IInv, Relaxed, AcceptedIsRespected, Evaluating, NothingYet
<1>3. AbsencesStayTrue'
  BY <1>1 DEF IInv, AbsencesStayTrue
<1>4. AbsencesAreBelow'
  <2>1. ASSUME NEW f \in db PROVE strata[f.pred] \in Nat
    BY DEF IInv, TypeOK
  <2>2. level \in Nat
    BY DEF IInv, TypeOK
  <2> QED BY <1>1, <2>1, <2>2 DEF IInv, AbsencesAreBelow
<1> QED BY <1>2, <1>3, <1>4

LEMMA LoadStep ==
  ASSUME IInv, LoadFacts
  PROVE  IInv'
<1> USE DEF stratifyVars
<1>1. /\ phase = "load" /\ ~Evaluating /\ phase' \in {"stratum", "too_many_facts"}
      /\ UNCHANGED <<program, stratifyVars, level, firstRound, delta, fresh, todo,
                     before, iterations, answer>>
      /\ Evaluating'
  BY DEF LoadFacts, Evaluating
<1>2. db = {} /\ todo = {} /\ level = 0
  BY <1>1 DEF IInv, NothingYet, NoPasses, Limits
<1>3. \A f \in db' : f.pred \in Predicates(program) /\ support'[f] = Given
  BY <1>1, <1>2 DEF LoadFacts, db, FactsOf, Fact, Predicates
<1>4. delta = {} /\ fresh = {} /\ before = {}
  BY <1>2 DEF IInv, TypeOK
<1>5. TypeOK'
  BY <1>1, <1>2, <1>3, <1>4 DEF IInv, TypeOK, Phases, Limits, Ended
<1>6. Relaxed' /\ AcceptedIsRespected'
  BY <1>1 DEF IInv, Relaxed, AcceptedIsRespected, Evaluating
<1>7. AbsencesAreBelow' /\ AbsencesStayTrue'
  BY <1>3 DEF AbsencesAreBelow, AbsencesStayTrue, Given
<1>8. RoundOwes' /\ PassOwes' /\ NothingYet' /\ NoPasses' /\ Finished'
  BY <1>1, <1>2 DEF RoundOwes, PassOwes, NothingYet, NoPasses, Finished
<1>9. LowerIsClosed'
  BY <1>1, RulesHaveHeads DEF LowerIsClosed, IInv, NothingYet, TypeOK
<1> QED BY <1>5, <1>6, <1>7, <1>8, <1>9 DEF IInv

\* The step of a stratum boundary.
LEMMA NextStratumStep ==
  ASSUME IInv, NextStratum
  PROVE  IInv'
<1> USE DEF stratifyVars
<1>1. /\ phase = "stratum" /\ phase' \in {"stratum", "round", "ready"}
      /\ UNCHANGED <<program, stratifyVars, support, fresh, todo, before, iterations>>
      /\ level' \in {level, level + 1}
      /\ db' = db
  BY DEF NextStratum, db
<1>2. level \in Nat /\ strata \in [Predicates(program) -> Nat]
  BY DEF IInv, TypeOK
<1>3. Evaluating /\ Evaluating' /\ level' \in Nat /\ level <= level'
  BY <1>1, <1>2 DEF Evaluating
<1>4. /\ Relaxed' /\ AcceptedIsRespected' /\ NothingYet'
      /\ AbsencesAreBelow' /\ AbsencesStayTrue'
  BY <1>1, <1>3, FactsKept
<1>5. TypeOK'
  <2>1. \/ UNCHANGED <<firstRound, delta>>
        \/ firstRound' = TRUE /\ delta' = db
    BY DEF NextStratum
  <2>2. firstRound' \in BOOLEAN /\ delta' \subseteq db'
    BY <1>1, <2>1 DEF IInv, TypeOK
  <2>3. todo = {}
    BY <1>1 DEF IInv, NoPasses, Limits
  <2> QED BY <1>1, <1>3, <2>2, <2>3 DEF IInv, TypeOK, Phases, Ended
<1>6. LowerIsClosed'
  <2>1. SUFFICES ASSUME NEW c \in RulesOf(program),
                        strata[program[c].head.pred] < level'
                 PROVE  Closed(c, db)
    BY <1>1 DEF LowerIsClosed, Closed
  <2>2. strata[program[c].head.pred] \in Nat
    BY <1>2, RulesHaveHeads
  <2>3. strata[program[c].head.pred] < level
    <3>1. CASE level' = level BY <2>1, <3>1
    <3>2. CASE level' # level
      <4>1. RulesAt(level) = {} /\ level' = level + 1
        BY <3>2 DEF NextStratum
      <4>2. strata[program[c].head.pred] # level
        BY <4>1 DEF RulesAt
      <4> QED BY <1>2, <2>1, <2>2, <4>1, <4>2
    <3> QED BY <3>1, <3>2
  <2> QED BY <1>3, <2>3 DEF IInv, LowerIsClosed
<1>7. RoundOwes' /\ PassOwes' /\ NoPasses' /\ Finished'
  <2>1. phase' = "round" => firstRound' = TRUE /\ delta' = db
    BY <1>1 DEF NextStratum
  <2>2. phase' = "ready" => PastTheLast /\ level' = level
    BY <1>1 DEF NextStratum
  <2> QED BY <1>1, <2>1, <2>2 DEF RoundOwes, PassOwes, Finished, PastTheLast,
                                 IInv, NoPasses, Limits
<1> QED BY <1>4, <1>5, <1>6, <1>7 DEF IInv

LEMMA NextRoundStep ==
  ASSUME IInv, NextRound
  PROVE  IInv'
<1> USE DEF stratifyVars
<1>1. /\ phase = "round" /\ phase' \in {"stratum", "pass", "too_many_rounds"}
      /\ UNCHANGED <<program, stratifyVars, support, firstRound, delta>>
      /\ level' \in {level, level + 1}
      /\ db' = db
  BY DEF NextRound, db
<1>2. /\ level \in Nat /\ strata \in [Predicates(program) -> Nat]
      /\ iterations \in Nat /\ firstRound \in BOOLEAN
  BY DEF IInv, TypeOK
<1>3. Evaluating /\ Evaluating' /\ level' \in Nat /\ level <= level'
  BY <1>1, <1>2 DEF Evaluating
<1>4. /\ Relaxed' /\ AcceptedIsRespected' /\ NothingYet'
      /\ AbsencesAreBelow' /\ AbsencesStayTrue'
  BY <1>1, <1>3, FactsKept
<1> DEFINE More == firstRound \/ delta # {}
<1>5. CASE phase' = "pass"
  <2>1. /\ More
        /\ iterations' = iterations + 1 /\ fresh' = {} /\ before' = db
        /\ todo' = Passes(level, firstRound) /\ level' = level
    BY <1>5 DEF NextRound
  <2>2. Passes(level, firstRound)' = Passes(level, firstRound)
    BY <1>1, <2>1 DEF Passes, RulesAt, PassesOf
  <2>3. TypeOK'
    BY <1>1, <1>2, <1>5, <2>1, <2>2 DEF IInv, TypeOK, Phases
  <2>4. LowerIsClosed'
    BY <1>1, <1>3, <2>1 DEF IInv, LowerIsClosed, Closed
  <2>5. PassOwes'
    <3>1. SUFFICES ASSUME NEW c \in RulesAt(level)
                   PROVE  IF program[c].type = "aggregate"
                          THEN <<c, 0>> \in todo' \/ Closed(c, db)
                          ELSE \A u \in AllSolutions(program[c].body, db) :
                                 \/ HeadOf(program[c], u) \in db
                                 \/ \E g \in Positive(program[c].body) : u[g] \in fresh'
                                 \/ <<c, 0>> \in todo'
                                 \/ \E g \in Positive(program[c].body) :
                                      <<c, g>> \in todo' /\ u[g] \in DeltaIn(db)
      BY <1>1, <2>1 DEF PassOwes, Closed, RulesAt, DeltaIn
    <3>2. CASE program[c].type = "aggregate"
      <4>1. CASE firstRound
        BY <2>1, <3>2, <4>1 DEF Passes, PassesOf
      <4>2. CASE ~firstRound
        BY <1>1, <3>2, <4>2 DEF IInv, RoundOwes
      <4> QED BY <3>2, <4>1, <4>2
    <3>3. CASE program[c].type # "aggregate"
      <4>1. SUFFICES ASSUME NEW u \in AllSolutions(program[c].body, db),
                            HeadOf(program[c], u) \notin db
                     PROVE  \/ <<c, 0>> \in todo'
                            \/ \E g \in Positive(program[c].body) :
                                 <<c, g>> \in todo' /\ u[g] \in DeltaIn(db)
        BY <3>3
      <4>2. u \in [Positive(program[c].body) -> db]
        BY DEF AllSolutions, Solutions
      <4>3. ASSUME NEW g \in Positive(program[c].body)
            PROVE  <<c, g>> \in todo'
        <5>1. c \in DOMAIN program
          BY DEF RulesAt, RulesOf, Ordinary
        <5>2. g # 0
          BY <5>1, ProgramsAssumption DEF Positive, IInv, TypeOK
        <5>3. <<c, g>> \in PassesOf(c)
          BY <3>3, <4>3 DEF PassesOf
        <5>4. <<c, g>>[2] # 0
          BY <5>2
        <5> QED BY <2>1, <5>3, <5>4 DEF Passes
      <4>4. CASE firstRound
        <5>1. delta = db
          BY <1>1, <4>4 DEF IInv, RoundOwes
        <5>2. CASE Positive(program[c].body) = {}
          <6>1. <<c, 0>> \in PassesOf(c)
            BY <5>2 DEF PassesOf
          <6> QED BY <2>1, <4>4, <6>1 DEF Passes
        <5>3. CASE Positive(program[c].body) # {}
          BY <4>2, <4>3, <4>4, <5>1, <5>3 DEF DeltaIn
        <5> QED BY <5>2, <5>3
      <4>5. CASE ~firstRound
        BY <1>1, <3>3, <4>1, <4>3, <4>5 DEF IInv, RoundOwes, DeltaIn
      <4> QED BY <4>4, <4>5
    <3> QED BY <3>2, <3>3
  <2>6. RoundOwes' /\ NoPasses' /\ Finished'
    BY <1>5 DEF RoundOwes, NoPasses, Finished
  <2> QED BY <1>4, <2>3, <2>4, <2>5, <2>6 DEF IInv
<1>6. CASE phase' = "stratum"
  <2>1. /\ ~firstRound /\ delta = {} /\ level' = level + 1
        /\ UNCHANGED <<fresh, todo, before, iterations>>
    BY <1>6 DEF NextRound
  <2>2. todo = {}
    BY <1>1 DEF IInv, NoPasses, Limits
  <2>5. TypeOK'
    BY <1>1, <1>2, <1>3, <1>6, <2>1, <2>2 DEF IInv, TypeOK, Phases
  <2>3. LowerIsClosed'
    <3>1. SUFFICES ASSUME NEW c \in RulesOf(program),
                          strata[program[c].head.pred] < level + 1
                   PROVE  Closed(c, db)
      BY <1>1, <2>1 DEF LowerIsClosed, Closed
    <3>2. strata[program[c].head.pred] \in Nat
      BY <1>2, RulesHaveHeads
    <3>3. CASE strata[program[c].head.pred] < level
      BY <1>3, <3>3 DEF IInv, LowerIsClosed
    <3>4. CASE strata[program[c].head.pred] = level
      <4>1. c \in RulesAt(level)
        BY <3>4 DEF RulesAt
      <4> QED BY <1>1, <2>1, <4>1 DEF IInv, RoundOwes, Closed
    <3> QED BY <1>2, <3>1, <3>2, <3>3, <3>4
  <2>4. RoundOwes' /\ PassOwes' /\ NoPasses' /\ Finished'
    BY <1>6, <2>1, <2>2 DEF RoundOwes, PassOwes, NoPasses, Finished
  <2> QED BY <1>4, <2>5, <2>3, <2>4 DEF IInv
<1>7. CASE phase' = "too_many_rounds"
  <2>1. UNCHANGED <<level, fresh, todo, before, iterations>>
    BY <1>7 DEF NextRound
  <2>2. TypeOK'
    BY <1>1, <1>2, <1>7, <2>1 DEF IInv, TypeOK, Phases, Ended, Limits, Passes, RulesAt, PassesOf
  <2>3. LowerIsClosed'
    BY <1>1, <1>3, <2>1 DEF IInv, LowerIsClosed, Closed
  <2>4. RoundOwes' /\ PassOwes' /\ NoPasses' /\ Finished'
    BY <1>7 DEF RoundOwes, PassOwes, NoPasses, Limits, Finished
  <2> QED BY <1>4, <2>2, <2>3, <2>4 DEF IInv
<1> QED BY <1>1, <1>5, <1>6, <1>7

LEMMA EndRoundStep ==
  ASSUME IInv, EndRound
  PROVE  IInv'
<1> USE DEF stratifyVars
<1>1. /\ phase = "pass" /\ phase' = "round" /\ todo = {}
      /\ UNCHANGED <<program, stratifyVars, support, level, fresh, todo, before,
                     iterations>>
      /\ delta' = fresh /\ firstRound' = FALSE /\ db' = db
  BY DEF EndRound, db
<1>2. level \in Nat
  BY DEF IInv, TypeOK
<1>3. Evaluating /\ Evaluating' /\ level' \in Nat /\ level <= level'
  BY <1>1, <1>2 DEF Evaluating
<1>4. /\ Relaxed' /\ AcceptedIsRespected' /\ NothingYet'
      /\ AbsencesAreBelow' /\ AbsencesStayTrue'
  BY <1>1, <1>3, FactsKept
<1>5. TypeOK'
  BY <1>1 DEF IInv, TypeOK, Phases
<1>6. LowerIsClosed'
  BY <1>1, <1>3 DEF IInv, LowerIsClosed, Closed
<1>7. RoundOwes'
  BY <1>1 DEF IInv, PassOwes, RoundOwes, RulesAt, Closed
<1>8. PassOwes' /\ NoPasses' /\ Finished'
  BY <1>1 DEF PassOwes, NoPasses, Finished
<1> QED BY <1>4, <1>5, <1>6, <1>7, <1>8 DEF IInv

\* What a pass adds: facts of the stratum, whose absences lie below it and
\* hold.  Nothing below the stratum changes, and whatever was owed is owed
\* still, or has got a tuple that is new in this round.
LEMMA GrowthStep ==
  ASSUME IInv, phase = "pass", phase' \in {"pass"} \cup Limits,
         UNCHANGED <<program, stratifyVars, level, firstRound, delta>>,
         NEW new, db' = db \cup new, fresh' = fresh \cup (new \ db),
         \A f \in new : /\ f.pred \in Predicates(program)
                        /\ strata[f.pred] = level,
         \A f \in db : support'[f] = support[f],
         \A f \in new \ db : \A a \in support'[f].absent :
            /\ a.pred \in Predicates(program) /\ strata[a.pred] < level
            /\ \A g \in db : ~Covers(a, g)
  PROVE  /\ Relaxed' /\ AcceptedIsRespected' /\ NothingYet'
         /\ AbsencesAreBelow' /\ AbsencesStayTrue' /\ LowerIsClosed'
         /\ \A c \in RulesAt(level) :
              IF program[c].type = "aggregate"
              THEN Closed(c, db) => Closed(c, db')
              ELSE \A u \in AllSolutions(program[c].body, db') :
                     \/ HeadOf(program[c], u) \in db'
                     \/ \E g \in Positive(program[c].body) : u[g] \in fresh'
                     \/ <<c, 0>> \in todo
                     \/ \E g \in Positive(program[c].body) :
                          <<c, g>> \in todo /\ u[g] \in DeltaIn(db)
<1> USE DEF stratifyVars
<1>1. /\ strata \in [Predicates(program) -> Nat] /\ level \in Nat
      /\ Evaluating /\ Evaluating'
      /\ Respects(program, strata)
      /\ \A f \in db : f.pred \in Predicates(program)
  BY DEF IInv, TypeOK, Evaluating, AcceptedIsRespected, Limits
<1>2. Relaxed' /\ AcceptedIsRespected' /\ NothingYet'
  BY <1>1 DEF IInv, Relaxed, AcceptedIsRespected, NothingYet
<1>3. AbsencesAreBelow'
  <2>1. \A f \in db : support'[f].absent # {} =>
          /\ strata[f.pred] <= level
          /\ \A a \in support'[f].absent : /\ a.pred \in Predicates(program)
                                           /\ strata[a.pred] < strata[f.pred]
    BY DEF IInv, AbsencesAreBelow
  <2>2. \A f \in new \ db :
          /\ strata[f.pred] <= level
          /\ \A a \in support'[f].absent : /\ a.pred \in Predicates(program)
                                           /\ strata[a.pred] < strata[f.pred]
    BY <1>1
  <2> QED BY <2>1, <2>2 DEF AbsencesAreBelow
<1>4. AbsencesStayTrue'
  <2>1. SUFFICES ASSUME NEW f \in db', NEW g \in db', NEW a \in support'[f].absent
                 PROVE  ~Covers(a, g)
    BY DEF AbsencesStayTrue
  <2>2. CASE g \in db
    BY <2>1, <2>2 DEF IInv, AbsencesStayTrue
  <2>3. CASE g \notin db
    <3>1. strata[g.pred] = level
      BY <2>3
    <3>2. a.pred \in Predicates(program) /\ strata[a.pred] < level
      <4>1. CASE f \in db
        <5>1. /\ strata[f.pred] <= level /\ a.pred \in Predicates(program)
              /\ strata[a.pred] < strata[f.pred]
          BY <2>1, <4>1 DEF IInv, AbsencesAreBelow
        <5> QED BY <1>1, <4>1, <5>1
      <4>2. CASE f \notin db
        BY <2>1, <4>2
      <4> QED BY <4>1, <4>2
    <3> QED BY <1>1, <3>1, <3>2 DEF Covers
  <2> QED BY <2>2, <2>3
<1>5. ASSUME NEW c \in RulesOf(program), NEW g \in Relational(program[c].body)
      PROVE  /\ strata[program[c].body[g].pred] \in Nat
             /\ strata[program[c].head.pred] \in Nat
             /\ strata[program[c].body[g].pred] <= strata[program[c].head.pred]
             /\ program[c].type = "aggregate" =>
                  strata[program[c].body[g].pred] < strata[program[c].head.pred]
  BY <1>1, GoalsAreDependencies, RulesHaveHeads, RulesReadBelow
<1>6. LowerIsClosed'
  <2>1. SUFFICES ASSUME NEW c \in RulesOf(program),
                        strata[program[c].head.pred] < level
                 PROVE  Closed(c, db')
    BY DEF LowerIsClosed, Closed
  <2>2. Closed(c, db)
    BY <1>1, <2>1 DEF IInv, LowerIsClosed
  <2>3. \A f \in db' \ db : \A g \in Relational(program[c].body) :
          f.pred # program[c].body[g].pred
    BY <1>1, <1>5, <2>1
  <2> QED BY <2>2, <2>3, ClosedStays
<1>7. ASSUME NEW c \in RulesAt(level), program[c].type = "aggregate", Closed(c, db)
      PROVE  Closed(c, db')
  <2>1. c \in RulesOf(program) /\ strata[program[c].head.pred] = level
    BY DEF RulesAt
  <2>2. \A f \in db' \ db : \A g \in Relational(program[c].body) :
          f.pred # program[c].body[g].pred
    BY <1>1, <1>5, <1>7, <2>1
  <2> QED BY <1>7, <2>2, ClosedStays
<1>8. ASSUME NEW c \in RulesAt(level), program[c].type # "aggregate",
             NEW u \in AllSolutions(program[c].body, db')
      PROVE  \/ HeadOf(program[c], u) \in db'
             \/ \E g \in Positive(program[c].body) : u[g] \in fresh'
             \/ <<c, 0>> \in todo
             \/ \E g \in Positive(program[c].body) :
                  <<c, g>> \in todo /\ u[g] \in DeltaIn(db)
  <2>1. u \in [Positive(program[c].body) -> db']
    BY DEF AllSolutions, Solutions
  <2>2. CASE \A g \in Positive(program[c].body) : u[g] \in db
    <3>1. u \in AllSolutions(program[c].body, db)
      BY <2>2, SolutionsShrink
    <3> QED BY <1>8, <3>1 DEF IInv, PassOwes
  <2>3. CASE \E g \in Positive(program[c].body) : u[g] \notin db
    BY <2>1, <2>3
  <2> QED BY <2>2, <2>3
<1> QED BY <1>2, <1>3, <1>4, <1>6, <1>7, <1>8

LEMMA PatternCovers ==
  ASSUME NEW goal, NEW env, NEW f, Covers(Pattern(goal, env), f)
  PROVE  Matches(goal, f, env)
  BY DEF Covers, Pattern, Matches, Fact

\* The absences of a solution of a rule of the current stratum.
LEMMA AbsencesHold ==
  ASSUME IInv, phase = "pass", NEW c \in RulesAt(level),
         NEW from, NEW u \in Solutions(program[c].body, from, db),
         NEW a \in AbsencesOf(program[c], u)
  PROVE  /\ a.pred \in Predicates(program) /\ strata[a.pred] < level
         /\ \A g \in db : ~Covers(a, g)
<1> DEFINE body == program[c].body
           env  == Bindings(body, u)
<1>1. PICK g \in DOMAIN body : body[g].type = "negation" /\ a = Pattern(body[g], env)
  BY DEF AbsencesOf
<1>2. a.pred = body[g].pred
  BY <1>1 DEF Pattern, Fact
<1>3. c \in RulesOf(program) /\ strata[program[c].head.pred] = level
  BY DEF RulesAt
<1>4. g \in Relational(body) /\ g \notin Positive(body)
  BY <1>1 DEF Relational, Positive
<1>5. a.pred \in Predicates(program) /\ strata[a.pred] < level
  <2>1. strata \in [Predicates(program) -> Nat] /\ Respects(program, strata)
    BY DEF IInv, TypeOK, AcceptedIsRespected
  <2> QED BY <2>1, <1>1, <1>2, <1>3, <1>4, RulesReadBelow, GoalsAreDependencies
<1>6. GoalHolds(body[g], env, db)
  BY <1>4 DEF Solutions
<1>7. ASSUME NEW f \in db PROVE ~Covers(a, f)
  BY <1>1, <1>6, PatternCovers DEF GoalHolds
<1> QED BY <1>5, <1>7

LEMMA DeriveStep ==
  ASSUME IInv, NEW p \in todo, Derive(p)
  PROVE  IInv'
<1> USE DEF stratifyVars
<1> DEFINE c == p[1]
<1>1. PICK u \in PassSolutions(p, db) :
        Add([f \in {HeadOf(program[c], u)} |->
               [clause |-> c,
                uses   |-> {u[g] : g \in DOMAIN u},
                absent |-> AbsencesOf(program[c], u)]])
  BY DEF Derive
<1> DEFINE head == HeadOf(program[c], u)
<1>2. /\ phase = "pass" /\ ~IsAggregate(p)
      /\ UNCHANGED <<program, stratifyVars, level, firstRound, delta, todo, before,
                     iterations>>
  BY DEF Derive
<1>3. c \in RulesAt(level)
  BY DEF IInv, TypeOK, Passes, PassesOf
<1>4. /\ db' = db \cup {head} /\ fresh' = fresh \cup ({head} \ db)
      /\ phase' \in {"pass"} \cup Limits
      /\ \A f \in db : support'[f] = support[f]
      /\ \A f \in {head} \ db : support'[f].absent = AbsencesOf(program[c], u)
  BY <1>1, <1>2 DEF Add, db, Limits
<1>5. head.pred \in Predicates(program) /\ strata[head.pred] = level
  BY <1>3, RulesHaveHeads DEF RulesAt, HeadOf, Fact
<1>6. \A a \in AbsencesOf(program[c], u) :
        /\ a.pred \in Predicates(program) /\ strata[a.pred] < level
        /\ \A g \in db : ~Covers(a, g)
  BY <1>2, <1>3, AbsencesHold DEF PassSolutions
<1>7. /\ Relaxed' /\ AcceptedIsRespected' /\ NothingYet'
      /\ AbsencesAreBelow' /\ AbsencesStayTrue' /\ LowerIsClosed'
      /\ \A d \in RulesAt(level) :
           IF program[d].type = "aggregate"
           THEN Closed(d, db) => Closed(d, db')
           ELSE \A v \in AllSolutions(program[d].body, db') :
                  \/ HeadOf(program[d], v) \in db'
                  \/ \E g \in Positive(program[d].body) : v[g] \in fresh'
                  \/ <<d, 0>> \in todo
                  \/ \E g \in Positive(program[d].body) :
                       <<d, g>> \in todo /\ v[g] \in DeltaIn(db)
  BY <1>2, <1>4, <1>5, <1>6, GrowthStep
<1>8. TypeOK'
  <2>1. Passes(level, firstRound)' = Passes(level, firstRound)
    BY <1>2 DEF Passes, RulesAt, PassesOf
  <2> QED BY <1>2, <1>4, <1>5, <2>1 DEF IInv, TypeOK, Phases, Ended
<1>9. PassOwes'
  <2>1. db' \ before' \subseteq fresh'
    BY <1>2, <1>4 DEF IInv, PassOwes
  <2>2. \A f \in DeltaIn(db) : f \in DeltaIn(db)'
    BY <1>2, <1>4 DEF DeltaIn
  <2> QED BY <1>2, <1>7, <2>1, <2>2 DEF IInv, PassOwes, RulesAt, Closed
<1>10. RoundOwes' /\ NoPasses' /\ Finished'
  BY <1>4 DEF RoundOwes, NoPasses, Finished, Limits
<1> QED BY <1>7, <1>8, <1>9, <1>10 DEF IInv

\* A pass that ends owes nothing: a solution whose delta tuple it read is
\* one over the database it began with, or has a tuple added since.
LEMMA FinishPassStep ==
  ASSUME IInv, NEW p \in todo, FinishPass(p)
  PROVE  IInv'
<1> USE DEF stratifyVars
<1>1. /\ phase = "pass" /\ phase' = "pass" /\ ~IsAggregate(p)
      /\ todo' = todo \ {p} /\ before' = db /\ db' = db
      /\ UNCHANGED <<program, stratifyVars, support, level, firstRound, delta,
                     fresh, iterations>>
  BY DEF FinishPass, db
<1>2. level \in Nat
  BY DEF IInv, TypeOK
<1>3. Evaluating /\ Evaluating' /\ level' \in Nat /\ level <= level'
  BY <1>1, <1>2 DEF Evaluating, Limits
<1>4. /\ Relaxed' /\ AcceptedIsRespected' /\ NothingYet'
      /\ AbsencesAreBelow' /\ AbsencesStayTrue'
  BY <1>1, <1>3, FactsKept
<1>5. TypeOK'
  <2>1. Passes(level, firstRound)' = Passes(level, firstRound)
    BY <1>1 DEF Passes, RulesAt, PassesOf
  <2> QED BY <1>1, <2>1 DEF IInv, TypeOK
<1>6. LowerIsClosed'
  BY <1>1, <1>3 DEF IInv, LowerIsClosed, Closed
<1>7. PassOwes'
  <2>1. ASSUME NEW c \in RulesAt(level), program[c].type # "aggregate",
               NEW u \in AllSolutions(program[c].body, db),
               HeadOf(program[c], u) \notin db,
               \A g \in Positive(program[c].body) : u[g] \notin fresh
        PROVE  \/ <<c, 0>> \in todo'
               \/ \E g \in Positive(program[c].body) :
                    <<c, g>> \in todo' /\ u[g] \in DeltaIn(db)
    <3>1. \/ <<c, 0>> \in todo
          \/ \E g \in Positive(program[c].body) :
               <<c, g>> \in todo /\ u[g] \in DeltaIn(db)
      BY <1>1, <2>1 DEF IInv, PassOwes
    <3>2. u \in [Positive(program[c].body) -> db]
      BY DEF AllSolutions, Solutions
    <3>3. \A g \in Positive(program[c].body) : u[g] \in before
      BY <1>1, <2>1, <3>2 DEF IInv, PassOwes
    <3>4. ASSUME p[1] = c, p[2] \in Positive(program[c].body) => u[p[2]] \in DeltaIn(db)
          PROVE  FALSE
      <4>1. before \subseteq db
        BY DEF IInv, TypeOK
      <4>2. u \in AllSolutions(program[c].body, before)
        BY <3>3, <4>1, SolutionsShrink
      <4>3. \A g \in Positive(program[c].body) :
              g = p[2] => u[g] \in DeltaIn(before)
        BY <3>3, <3>4 DEF DeltaIn
      <4>4. u \in PassSolutions(p, before)
        BY <3>3, <3>4, <4>2, <4>3 DEF PassSolutions, AllSolutions, Solutions
      <4> QED BY <2>1, <3>4, <4>4 DEF FinishPass
    <3>5. CASE <<c, 0>> \in todo
      <4>1. p # <<c, 0>>
        <5>1. c \in DOMAIN program /\ program \in Programs
          BY <2>1 DEF RulesAt, RulesOf, Ordinary, IInv, TypeOK
        <5>2. 0 \notin Positive(program[c].body)
          BY <5>1, ProgramsAssumption DEF Positive
        <5> QED BY <3>4, <5>2
      <4> QED BY <1>1, <3>5, <4>1
    <3>6. CASE \E g \in Positive(program[c].body) :
                 <<c, g>> \in todo /\ u[g] \in DeltaIn(db)
      <4>1. PICK g \in Positive(program[c].body) :
              <<c, g>> \in todo /\ u[g] \in DeltaIn(db)
        BY <3>6
      <4>2. p # <<c, g>>
        BY <3>4, <4>1
      <4> QED BY <1>1, <4>1, <4>2
    <3> QED BY <3>1, <3>5, <3>6
  <2>2. ASSUME NEW c \in RulesAt(level), program[c].type = "aggregate"
        PROVE  <<c, 0>> \in todo' \/ Closed(c, db)
    <3>1. p # <<c, 0>>
      BY <1>1, <2>2 DEF IsAggregate
    <3> QED BY <1>1, <2>2, <3>1 DEF IInv, PassOwes
  <2>3. RulesAt(level)' = RulesAt(level) /\ DeltaIn(db)' = DeltaIn(db)
    BY <1>1 DEF RulesAt, DeltaIn
  <2> QED BY <1>1, <2>1, <2>2, <2>3 DEF PassOwes, Closed
<1>8. RoundOwes' /\ NoPasses' /\ Finished'
  BY <1>1 DEF RoundOwes, NoPasses, Finished
<1> QED BY <1>4, <1>5, <1>6, <1>7, <1>8 DEF IInv

\* An aggregate rule reads lower strata alone: what it adds does not change
\* the solutions it reduced.
LEMMA DeriveAggregateStep ==
  ASSUME IInv, NEW p \in todo, DeriveAggregate(p)
  PROVE  IInv'
<1> USE DEF stratifyVars
<1> DEFINE c    == program[p[1]]
           rows == AllSolutions(c.body, db)
           Why(f) ==
             LET group == CHOOSE group \in Reducible(c, rows) :
                            f = ReducedFact(c, rows, group)
                 used  == InGroup(c, rows, group)
             IN  [clause |-> p[1],
                  uses   |-> UNION {{u[g] : g \in DOMAIN u} : u \in used},
                  absent |-> UNION {AbsencesOf(c, u) : u \in used}]
<1>1. /\ phase = "pass" /\ c.type = "aggregate"
      /\ todo' = todo \ {p} /\ before' = db'
      /\ UNCHANGED <<program, stratifyVars, level, firstRound, delta, iterations>>
      /\ IF Cardinality(rows) > MaxAggregateRows
         THEN phase' = "too_many_rows" /\ UNCHANGED <<support, fresh>>
         ELSE Add([f \in Reductions(c, db) |-> Why(f)])
  BY DEF DeriveAggregate, IsAggregate, db
<1>0. /\ c.type = "aggregate" /\ todo' = todo \ {p}
      /\ UNCHANGED <<program, strata, level, firstRound, delta>>
  BY <1>1
<1>2. p[1] \in RulesAt(level) /\ p = <<p[1], 0>>
  <2>1. p \in UNION {PassesOf(d) : d \in RulesAt(level)}
    BY DEF IInv, TypeOK, Passes
  <2>2. PICK d \in RulesAt(level) : p \in PassesOf(d)
    BY <2>1
  <2>3. p[1] = d
    BY <2>2 DEF PassesOf
  <2> QED BY <1>0, <2>2, <2>3 DEF PassesOf
<1> DEFINE new == db' \ db
<1>3. /\ db' = db \cup new /\ fresh' = fresh \cup (new \ db)
      /\ phase' \in {"pass"} \cup Limits /\ new \subseteq Reductions(c, db)
      /\ \A f \in db : support'[f] = support[f]
      /\ \A f \in new : support'[f].absent = Why(f).absent
      /\ phase' = "pass" => Reductions(c, db) \subseteq db'
  <2>1. CASE Cardinality(rows) > MaxAggregateRows
    BY <1>1, <2>1 DEF db, Limits
  <2>2. CASE ~(Cardinality(rows) > MaxAggregateRows)
    BY <1>1, <2>2, Zenon DEF Add, db, Limits
  <2> QED BY <2>1, <2>2
<1>4. \A f \in new : f.pred \in Predicates(program) /\ strata[f.pred] = level
  BY <1>2, <1>3, RulesHaveHeads DEF RulesAt, Reductions, ReducedFact, Fact
<1>5. \A f \in new \ db : \A a \in support'[f].absent :
        /\ a.pred \in Predicates(program) /\ strata[a.pred] < level
        /\ \A g \in db : ~Covers(a, g)
  <2>1. ASSUME NEW f \in new, NEW a \in Why(f).absent
        PROVE  \E u \in rows : a \in AbsencesOf(c, u)
    BY <2>1 DEF InGroup
  <2>2. ASSUME NEW u \in rows, NEW a \in AbsencesOf(c, u)
        PROVE  /\ a.pred \in Predicates(program) /\ strata[a.pred] < level
               /\ \A g \in db : ~Covers(a, g)
    BY <1>1, <1>2, <2>2, AbsencesHold DEF AllSolutions
  <2> QED BY <1>3, <2>1, <2>2
<1>6. /\ Relaxed' /\ AcceptedIsRespected' /\ NothingYet'
      /\ AbsencesAreBelow' /\ AbsencesStayTrue' /\ LowerIsClosed'
      /\ \A d \in RulesAt(level) :
           IF program[d].type = "aggregate"
           THEN Closed(d, db) => Closed(d, db')
           ELSE \A v \in AllSolutions(program[d].body, db') :
                  \/ HeadOf(program[d], v) \in db'
                  \/ \E g \in Positive(program[d].body) : v[g] \in fresh'
                  \/ <<d, 0>> \in todo
                  \/ \E g \in Positive(program[d].body) :
                       <<d, g>> \in todo /\ v[g] \in DeltaIn(db)
  BY <1>1, <1>3, <1>4, <1>5, GrowthStep
<1>7. TypeOK'
  <2>1. Passes(level, firstRound)' = Passes(level, firstRound)
    BY <1>0 DEF Passes, RulesAt, PassesOf
  <2>2. fresh' \subseteq db' /\ delta' \subseteq db' /\ before' \subseteq db'
    BY <1>1, <1>3 DEF IInv, TypeOK
  <2> QED BY <1>1, <1>3, <1>4, <2>1, <2>2 DEF IInv, TypeOK, Phases, Ended
<1>8. phase' = "pass" => Closed(p[1], db')
  <2>1. ASSUME NEW g \in Relational(c.body), NEW f \in db' \ db
        PROVE  f.pred # c.body[g].pred
    <3>1. /\ p[1] \in RulesOf(program) /\ strata[c.head.pred] = level
          /\ strata \in [Predicates(program) -> Nat] /\ Respects(program, strata)
          /\ level \in Nat
      BY <1>1, <1>2 DEF RulesAt, IInv, TypeOK, AcceptedIsRespected
    <3>2. strata[c.body[g].pred] < level
      BY <1>1, <3>1, RulesReadBelow
    <3>3. strata[c.body[g].pred] \in Nat
      BY <3>1, GoalsAreDependencies
    <3> QED BY <1>4, <3>1, <3>2, <3>3
  <2>2. AllSolutions(c.body, db') = AllSolutions(c.body, db)
    BY <1>3, <2>1, SolutionsStay
  <2>3. Reductions(c, db') = Reductions(c, db)
    BY <2>2 DEF Reductions
  <2> QED BY <1>1, <1>3, <2>3 DEF Closed
<1>9. PassOwes'
  <2>1. \A d \in RulesAt(level) : program[d].type # "aggregate" =>
          \A g : <<d, g>> # p
    BY <1>0
  <2>2. \A f \in DeltaIn(db) : f \in DeltaIn(db)'
    BY <1>1, <1>3 DEF DeltaIn
  <2>3. ASSUME NEW d \in RulesAt(level), program[d].type = "aggregate", phase' = "pass"
        PROVE  <<d, 0>> \in todo' \/ Closed(d, db')
    <3>1. CASE d = p[1]
      BY <1>8, <2>3, <3>1
    <3>2. CASE d # p[1]
      <4>1. <<d, 0>> # p
        BY <1>2, <3>2
      <4> QED BY <1>1, <1>6, <2>3, <4>1 DEF IInv, PassOwes
    <3> QED BY <3>1, <3>2
  <2>4. RulesAt(level)' = RulesAt(level)
    BY <1>1 DEF RulesAt
  <2>5. \A d \in RulesAt(level) : program[d].type # "aggregate" =>
          \A g : <<d, g>> \in todo => <<d, g>> \in todo'
    BY <1>1, <2>1
  <2>6. ASSUME NEW d \in RulesAt(level), program[d].type # "aggregate"
        PROVE  \A u \in AllSolutions(program[d].body, db') :
                 \/ HeadOf(program[d], u) \in db'
                 \/ \E g \in Positive(program[d].body) : u[g] \in fresh'
                 \/ <<d, 0>> \in todo'
                 \/ \E g \in Positive(program[d].body) :
                      <<d, g>> \in todo' /\ u[g] \in DeltaIn(db)'
    BY <1>6, <2>2, <2>5, <2>6
  <2>7. db' \ before' \subseteq fresh'
    BY <1>1
  <2> QED BY <1>1, <2>3, <2>4, <2>6, <2>7 DEF PassOwes, Closed
<1>10. RoundOwes' /\ NoPasses' /\ Finished'
  BY <1>3 DEF RoundOwes, NoPasses, Finished, Limits
<1> QED BY <1>6, <1>7, <1>9, <1>10 DEF IInv

\* An answer changes nothing but the phase.
LEMMA AnswerStep ==
  ASSUME IInv, NEW q, AnswerRelational(q) \/ AnswerAggregate(q)
  PROVE  IInv'
<1> USE DEF stratifyVars
<1>1. /\ phase = "ready" /\ phase' \in {"answered", "too_many_rows"}
      /\ UNCHANGED <<program, stratifyVars, support, level, firstRound, delta,
                     fresh, todo, before, iterations>>
      /\ db' = db
  <2>1. CASE AnswerRelational(q)
    BY <2>1 DEF AnswerRelational, db
  <2>2. CASE AnswerAggregate(q)
    <3>1. phase' \in {"answered", "too_many_rows"}
      BY <2>2 DEF AnswerAggregate
    <3> QED BY <2>2, <3>1 DEF AnswerAggregate, db
  <2> QED BY <2>1, <2>2
<1>2. level \in Nat
  BY DEF IInv, TypeOK
<1>3. Evaluating /\ Evaluating' /\ level' \in Nat /\ level <= level'
  BY <1>1, <1>2 DEF Evaluating
<1>4. /\ Relaxed' /\ AcceptedIsRespected' /\ NothingYet'
      /\ AbsencesAreBelow' /\ AbsencesStayTrue'
  BY <1>1, <1>3, FactsKept
<1>5. TypeOK'
  BY <1>1 DEF IInv, TypeOK, Phases, Ended, Limits, Passes, RulesAt, PassesOf
<1>6. LowerIsClosed'
  BY <1>1, <1>3 DEF IInv, LowerIsClosed, Closed
<1>7. RoundOwes' /\ PassOwes' /\ NoPasses' /\ Finished'
  BY <1>1 DEF IInv, RoundOwes, PassOwes, NoPasses, Finished, PastTheLast, Limits
<1> QED BY <1>4, <1>5, <1>6, <1>7 DEF IInv

LEMMA StepIInv == IInv /\ [Next]_vars => IInv'
<1> SUFFICES ASSUME IInv, [Next]_vars PROVE IInv'
  OBVIOUS
<1>1. CASE Stratify
  BY <1>1, RelaxStep, NextPassStep, StratifiedStep DEF Stratify
<1>2. CASE LoadFacts
  BY <1>2, LoadStep
<1>3. CASE NextStratum
  BY <1>3, NextStratumStep
<1>4. CASE NextRound
  BY <1>4, NextRoundStep
<1>5. CASE EndRound
  BY <1>5, EndRoundStep
<1>6. CASE \E p \in todo : Derive(p) \/ FinishPass(p) \/ DeriveAggregate(p)
  BY <1>6, DeriveStep, FinishPassStep, DeriveAggregateStep
<1>7. CASE \E q \in Queries : AnswerRelational(q) \/ AnswerAggregate(q)
  BY <1>7, AnswerStep
<1>8. CASE UNCHANGED vars
  <2> USE DEF vars, evaluateVars, stratifyVars
  <2>1. db' = db
    BY <1>8 DEF db
  <2>2. TypeOK'
    BY <1>8, <2>1 DEF IInv, TypeOK, Passes, RulesAt, PassesOf
  <2>5. Relaxed' /\ AcceptedIsRespected' /\ LowerIsClosed'
    BY <1>8, <2>1 DEF IInv, Relaxed, AcceptedIsRespected, LowerIsClosed,
                      Closed, Evaluating
  <2>3. AbsencesAreBelow' /\ AbsencesStayTrue' /\ NothingYet'
    BY <1>8, <2>1 DEF IInv, AbsencesAreBelow, AbsencesStayTrue, NothingYet,
                      Evaluating
  <2>4. RoundOwes' /\ PassOwes' /\ NoPasses' /\ Finished'
    BY <1>8, <2>1 DEF IInv, RoundOwes, PassOwes, NoPasses, Finished, RulesAt,
                      Closed, DeltaIn, PastTheLast
  <2> QED BY <2>2, <2>3, <2>4, <2>5 DEF IInv
<1> QED
  BY <1>1, <1>2, <1>3, <1>4, <1>5, <1>6, <1>7, <1>8 DEF Next

LEMMA AlwaysIInv == Spec => []IInv
<1>1. Init => IInv
  BY InitIInv
<1>2. IInv /\ [Next]_vars => IInv'
  BY StepIInv
<1> QED BY <1>1, <1>2, PTL DEF Spec

-----------------------------------------------------------------------------
(* Results                                                                 *)

\* The evaluator's state keeps its type: what it reads as delta, as fresh
\* and as the pass's start are facts of the database, and the passes to come
\* are passes of the current stratum.
THEOREM EvaluationTypes == Spec => []TypeOK
<1>1. IInv => TypeOK
  BY DEF IInv
<1> QED BY <1>1, AlwaysIInv, PTL

\* A program that stratification accepts has strata that respect every
\* dependency: none of its negations or aggregates is in a cycle.
THEOREM AcceptedProgramsAreStratified == Spec => []AcceptedIsRespected
<1>1. IInv => AcceptedIsRespected
  BY DEF IInv
<1> QED BY <1>1, AlwaysIInv, PTL

\* What a proof calls absent is in the database at no later time.
THEOREM AbsencesAreTrue == Spec => []AbsencesStayTrue
<1>1. IInv => AbsencesStayTrue
  BY DEF IInv
<1> QED BY <1>1, AlwaysIInv, PTL

\* The semi-naive passes over delta and live relations lose no consequence:
\* a finished database is closed under every rule.
THEOREM EvaluationIsClosed == Spec => []FinishedIsClosed
<1>1. ASSUME IInv PROVE FinishedIsClosed
  <2>1. SUFFICES ASSUME phase \in {"ready", "answered"}, NEW c \in RulesOf(program)
                 PROVE  Closed(c, db)
    BY DEF FinishedIsClosed, Closed
  <2>2. strata \in [Predicates(program) -> Nat] /\ PastTheLast /\ Evaluating
    BY <1>1, <2>1 DEF IInv, TypeOK, Finished, Evaluating
  <2>3. strata[program[c].head.pred] < level
    BY <2>2, RulesHaveHeads DEF PastTheLast
  <2> QED BY <1>1, <2>2, <2>3 DEF IInv, LowerIsClosed
<1> QED BY <1>1, AlwaysIInv, PTL

\* A step adds facts to the relations of its own stratum alone.
THEOREM StrataBelowAreFinal == Spec => StrataAreFinal
<1> DEFINE Grows == \A f \in DOMAIN support' \ db :
                      phase # "load" => strata[f.pred] = level
<1>1. ASSUME IInv, [Next]_vars PROVE Grows \/ UNCHANGED vars
  <2>1. CASE \E p \in todo : Derive(p)
    <3>1. PICK p \in todo : Derive(p)
      BY <2>1
    <3>2. p[1] \in RulesAt(level)
      BY <1>1 DEF IInv, TypeOK, Passes, PassesOf
    <3>3. PICK u \in PassSolutions(p, db) :
            support' = [f \in db \cup {HeadOf(program[p[1]], u)} |->
                          IF f \in db THEN support[f]
                          ELSE [clause |-> p[1],
                                uses   |-> {u[g] : g \in DOMAIN u},
                                absent |-> AbsencesOf(program[p[1]], u)]]
      BY <3>1 DEF Derive, Add
    <3> QED BY <3>2, <3>3 DEF RulesAt, HeadOf, Fact
  <2>2. CASE \E p \in todo : DeriveAggregate(p)
    <3>1. PICK p \in todo : DeriveAggregate(p)
      BY <2>2
    <3>2. p[1] \in RulesAt(level)
      BY <1>1 DEF IInv, TypeOK, Passes, PassesOf
    <3>3. DOMAIN support' \subseteq db \cup Reductions(program[p[1]], db)
      BY <3>1 DEF DeriveAggregate, Add, db
    <3> QED BY <3>2, <3>3 DEF RulesAt, Reductions, ReducedFact, Fact
  <2>3. CASE LoadFacts
    BY <2>3 DEF LoadFacts
  <2>4. CASE UNCHANGED support
    BY <2>4 DEF db
  <2>5. \/ \E p \in todo : Derive(p)
        \/ \E p \in todo : DeriveAggregate(p)
        \/ LoadFacts
        \/ UNCHANGED support
    BY <1>1 DEF Next, Stratify, NextStratum, NextRound, EndRound, FinishPass,
                AnswerRelational, AnswerAggregate, vars, evaluateVars
  <2> QED BY <2>1, <2>2, <2>3, <2>4, <2>5
<1> QED BY <1>1, AlwaysIInv, PTL DEF Spec, StrataAreFinal
=============================================================================
