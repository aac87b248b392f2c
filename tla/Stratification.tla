---------------------------- MODULE Stratification ----------------------------
(***************************************************************************)
(* Stratification (engine/stratify.ts, stratifyProgram): every predicate   *)
(* gets the least stratum such that a rule's head is not below a relation  *)
(* of its body and above one it negates or aggregates over.  Passes over   *)
(* the dependencies raise strata until nothing changes; a program that     *)
(* still changes in pass |predicates| is refused.                          *)
(*                                                                         *)
(* One step relaxes one dependency; the dependencies are visited in the    *)
(* order of the program.                                                   *)
(***************************************************************************)
EXTENDS Clauses

CONSTANT Programs   \* the programs evaluated: sequences of clauses

\* What the parser lets through.
ASSUME ProgramsAssumption ==
  \A prog \in Programs :
    /\ Len(prog) \in Nat /\ DOMAIN prog = 1..Len(prog)
    /\ \A c \in DOMAIN prog : /\ Len(prog[c].body) \in Nat
                              /\ DOMAIN prog[c].body = 1..Len(prog[c].body)
                              /\ WellFormed(prog[c])

VARIABLES
  program,   \* the program under evaluation
  phase,     \* "stratify", "refused", or a phase of the evaluation
  strata,    \* [predicates -> Nat]
  pass,      \* the number of passes done
  left,      \* the dependencies this pass has still to relax
  changed    \* has this pass raised a stratum?

stratifyVars == <<strata, pass, left, changed>>

\* Integrity constraints are no part of the program that is evaluated.
Ordinary(prog) == {c \in DOMAIN prog : prog[c].type # "integrity"}
RulesOf(prog)  == {c \in Ordinary(prog) : prog[c].body # <<>>}

\* A dependency is the place <<clause, goal>> of the goal that makes it.
Dependencies(prog) ==
  UNION {{<<c, g>> : g \in Relational(prog[c].body)} : c \in RulesOf(prog)}

Predicates(prog) == {prog[c].head.pred : c \in Ordinary(prog)} \cup
                    {prog[d[1]].body[d[2]].pred : d \in Dependencies(prog)}

HeadPred(prog, d) == prog[d[1]].head.pred
BodyPred(prog, d) == prog[d[1]].body[d[2]].pred
Strict(prog, d) == \/ prog[d[1]].body[d[2]].type = "negation"
                   \/ prog[d[1]].type = "aggregate"

\* The stratum dependency d requires of its head, under an assignment.
Required(prog, level, d) ==
  level[BodyPred(prog, d)] + (IF Strict(prog, d) THEN 1 ELSE 0)

\* Program order of places.
Precedes(d, e) == d[1] < e[1] \/ (d[1] = e[1] /\ d[2] < e[2])
IsFirst(d, S) == d \in S /\ \A e \in S : d = e \/ Precedes(d, e)

StratifyInit ==
  /\ program \in Programs
  /\ phase = "stratify"
  /\ strata = [p \in Predicates(program) |-> 0]
  /\ pass = 0
  /\ left = Dependencies(program)
  /\ changed = FALSE

Relax ==
  /\ phase = "stratify"
  /\ \E d \in left :
       LET head     == HeadPred(program, d)
           required == Required(program, strata, d)
       IN  /\ IsFirst(d, left)
           /\ left' = left \ {d}
           /\ IF strata[head] < required
              THEN /\ strata' = [strata EXCEPT ![head] = required]
                   /\ changed' = TRUE
              ELSE UNCHANGED <<strata, changed>>
  /\ UNCHANGED <<program, phase, pass>>

\* Mutation of NextPass: one pass too few.
NextPassOneTooFew ==
  /\ phase = "stratify" /\ left = {} /\ changed
  /\ IF pass = Cardinality(Predicates(program)) - 2
     THEN phase' = "refused" /\ UNCHANGED stratifyVars
     ELSE /\ pass' = pass + 1
          /\ left' = Dependencies(program)
          /\ changed' = FALSE
          /\ UNCHANGED <<phase, strata>>
  /\ UNCHANGED program

\* Another pass, unless the last one allowed has just been done.
NextPass ==
  /\ phase = "stratify" /\ left = {} /\ changed
  /\ IF pass = Cardinality(Predicates(program)) - 1
     THEN phase' = "refused" /\ UNCHANGED stratifyVars
     ELSE /\ pass' = pass + 1
          /\ left' = Dependencies(program)
          /\ changed' = FALSE
          /\ UNCHANGED <<phase, strata>>
  /\ UNCHANGED program

Stratified ==
  /\ phase = "stratify" /\ left = {} /\ ~changed
  /\ phase' = "load"
  /\ UNCHANGED <<program, stratifyVars>>

-----------------------------------------------------------------------------
\* Does an assignment put every head high enough?
Respects(prog, level) ==
  \A d \in Dependencies(prog) :
    level[HeadPred(prog, d)] >= Required(prog, level, d)

\* An accepted program has an assignment that respects every dependency, so
\* that a negated or aggregated relation is complete before it is read
\* (stratify.ts:37).
AcceptedIsRespected ==
  phase \notin {"stratify", "refused"} => Respects(program, strata)
=============================================================================
