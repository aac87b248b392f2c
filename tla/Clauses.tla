------------------------------- MODULE Clauses -------------------------------
(***************************************************************************)
(* The clauses of the knowledge language (engine/ast.ts), the conditions   *)
(* under which the parser accepts one (engine/parser.ts, checkClause), and *)
(* how a body is solved (engine/evaluate.ts, solveGoals).                  *)
(*                                                                         *)
(* A program is a sequence of clauses.  Abstractions:                      *)
(*  - a predicate key stands for a name with its arity, so two literals    *)
(*    with the same key have the same number of arguments;                 *)
(*  - the values compared and reduced are numbers (atoms are ordered the   *)
(*    same way, and a comparison of mixed types fails); arithmetic in a    *)
(*    comparison is left out;                                              *)
(*  - the order in which a relation lists its tuples is left open: the     *)
(*    solutions of a body are a set.                                       *)
(***************************************************************************)
EXTENDS Integers, Sequences, FiniteSets, FiniteSetsExt

CONSTANT None

-----------------------------------------------------------------------------
(* Syntax                                                                  *)

\* Terms: a ground value, a variable, or a wildcard.
Val(v)   == [type |-> "value", value |-> v]
Var(x)   == [type |-> "var", name |-> x]
Wildcard == [type |-> "wildcard"]

\* Goals: a relation, its negation, or a comparison of two terms.
Literal(p, args)    == [type |-> "literal", pred |-> p, args |-> args]
Negation(p, args)   == [type |-> "negation", pred |-> p, args |-> args]
Comparison(op, l, r) == [type |-> "comparison", op |-> op, args |-> <<l, r>>]

\* Clauses: a fact is a rule without a body.
Rule(head, body) ==
  [type |-> "rule", head |-> head, body |-> body, reduce |-> None]
AggregateRule(head, op, input, as, body) ==
  [type |-> "aggregate", head |-> head, body |-> body,
   reduce |-> [op |-> op, input |-> input, as |-> as]]
Constraint(body) ==
  [type |-> "integrity", head |-> None, body |-> body, reduce |-> None]

Positive(body) == {g \in DOMAIN body : body[g].type = "literal"}
Relational(body) == {g \in DOMAIN body : body[g].type # "comparison"}

Variables(args) == {args[k].name : k \in {j \in DOMAIN args :
                                            args[j].type = "var"}}

BoundBefore(body, g) ==
  UNION {Variables(body[h].args) : h \in {i \in Positive(body) : i < g}}
BoundIn(body) == BoundBefore(body, Len(body) + 1)
VariablesIn(body) == UNION {Variables(body[g].args) : g \in DOMAIN body}

\* The head position that receives the reduced value.
OutputPosition(c) ==
  CHOOSE k \in DOMAIN c.head.args : /\ c.head.args[k].type = "var"
                                    /\ c.head.args[k].name = c.reduce.as

\* A variable outside the positive goals is bound by one that precedes it;
\* the head is built from bound variables and from the reduction's output,
\* a fresh variable that appears once.
WellFormed(c) ==
  /\ \A g \in DOMAIN c.body \ Positive(c.body) :
       Variables(c.body[g].args) \subseteq BoundBefore(c.body, g)
  /\ c.type # "integrity" =>
       /\ \A k \in DOMAIN c.head.args : c.head.args[k].type # "wildcard"
       /\ Variables(c.head.args) \subseteq
            BoundIn(c.body) \cup
              (IF c.type = "aggregate" THEN {c.reduce.as} ELSE {})
  /\ c.type = "aggregate" =>
       /\ Positive(c.body) # {}
       /\ c.reduce.as \notin VariablesIn(c.body)
       /\ Cardinality({k \in DOMAIN c.head.args :
            /\ c.head.args[k].type = "var"
            /\ c.head.args[k].name = c.reduce.as}) = 1
       /\ (c.reduce.op = "count") = (c.reduce.input = "*")
       /\ c.reduce.op # "count" => c.reduce.input \in BoundIn(c.body)

-----------------------------------------------------------------------------
(* Solving a body                                                          *)

Fact(p, args) == [pred |-> p, args |-> args]

Resolve(t, env) == IF t.type = "var" THEN env[t.name] ELSE t.value

\* Does a relation's tuple match the literal's arguments under env?
Matches(lit, f, env) ==
  /\ f.pred = lit.pred
  /\ \A k \in DOMAIN lit.args :
       \/ lit.args[k].type = "wildcard"
       \/ Resolve(lit.args[k], env) = f.args[k]

Compares(op, l, r) ==
  CASE op = "="  -> l = r
    [] op = "!=" -> l # r
    [] op = "<"  -> l < r
    [] op = ">"  -> l > r
    [] op = "<=" -> l <= r
    [] op = ">=" -> l >= r

\* What the tuples used for the positive goals bind the variables to.
Bindings(body, using) ==
  [x \in BoundIn(body) |->
     LET at == CHOOSE at \in UNION {{<<g, k>> : k \in DOMAIN body[g].args} :
                                      g \in Positive(body)} :
                 /\ body[at[1]].args[at[2]].type = "var"
                 /\ body[at[1]].args[at[2]].name = x
     IN  using[at[1]].args[at[2]]]

GoalHolds(goal, env, db) ==
  IF goal.type = "negation"
  THEN \A f \in db : ~Matches(goal, f, env)
  ELSE Compares(goal.op, Resolve(goal.args[1], env), Resolve(goal.args[2], env))

\* The solutions of a body: one tuple of db for each positive goal, goal g
\* reading from[g] alone.
Solutions(body, from, db) ==
  {using \in [Positive(body) -> db] :
     /\ \A g \in Positive(body) : /\ using[g] \in from[g]
                                  /\ using[g].pred = body[g].pred
     /\ LET env == Bindings(body, using)
        IN  \A g \in DOMAIN body :
              IF g \in Positive(body) THEN Matches(body[g], using[g], env)
                                      ELSE GoalHolds(body[g], env, db)}

AllSolutions(body, db) == Solutions(body, [g \in Positive(body) |-> db], db)

\* The fact a solution of an ordinary rule stands for.
HeadOf(c, using) ==
  LET env == Bindings(c.body, using)
  IN  Fact(c.head.pred,
           [k \in DOMAIN c.head.args |-> Resolve(c.head.args[k], env)])

\* The absences a solution relies on: patterns of values by position, those
\* of wildcards left out.
Pattern(goal, env) ==
  Fact(goal.pred,
       [k \in {j \in DOMAIN goal.args : goal.args[j].type # "wildcard"} |->
          Resolve(goal.args[k], env)])

AbsencesOf(c, using) ==
  {Pattern(c.body[g], Bindings(c.body, using)) :
     g \in {h \in DOMAIN c.body : c.body[h].type = "negation"}}

Covers(pattern, f) ==
  /\ f.pred = pattern.pred
  /\ \A k \in DOMAIN pattern.args : pattern.args[k] = f.args[k]

-----------------------------------------------------------------------------
(* Reductions                                                              *)

\* The solutions of an aggregate rule fall into groups by the head's other
\* arguments; without a variable among them there is one group, possibly
\* empty.
GroupOf(c, using) ==
  LET env == Bindings(c.body, using)
  IN  [k \in DOMAIN c.head.args \ {OutputPosition(c)} |->
         Resolve(c.head.args[k], env)]

Groups(c, rows) ==
  LET others == DOMAIN c.head.args \ {OutputPosition(c)}
      fixed  == IF \E k \in others : c.head.args[k].type = "var" THEN {}
                ELSE {[k \in others |-> c.head.args[k].value]}
  IN  fixed \cup {GroupOf(c, using) : using \in rows}

InGroup(c, rows, group) == {using \in rows : GroupOf(c, using) = group}

\* count counts the solutions, not the distinct values; the other operators
\* have no value for an empty group.
Reduce(c, rows) ==
  LET Input(using) == Bindings(c.body, using)[c.reduce.input]
      inputs       == {Input(using) : using \in rows}
  IN  CASE c.reduce.op = "count" -> Cardinality(rows)
        [] c.reduce.op = "sum"   -> MapThenSumSet(Input, rows)
        [] c.reduce.op = "min"   -> Min(inputs)
        [] c.reduce.op = "max"   -> Max(inputs)

Reducible(c, rows) ==
  {group \in Groups(c, rows) :
     c.reduce.op = "count" \/ InGroup(c, rows, group) # {}}

ReducedFact(c, rows, group) ==
  Fact(c.head.pred,
       [k \in DOMAIN c.head.args |->
          IF k = OutputPosition(c) THEN Reduce(c, InGroup(c, rows, group))
                                   ELSE group[k]])

\* Every fact an aggregate rule derives from a database.
Reductions(c, db) ==
  LET rows == AllSolutions(c.body, db)
  IN  {ReducedFact(c, rows, group) : group \in Reducible(c, rows)}
=============================================================================
