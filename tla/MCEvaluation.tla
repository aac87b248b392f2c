----------------------------- MODULE MCEvaluation -----------------------------
(* Instances of FixpointEvaluation for TLC: graphs that are cyclic or have *)
(* a dead end, each under up to four of eleven rules (recursion written    *)
(* three ways, with negation and two kinds of aggregation, some sets of    *)
(* them to be refused), in both orders; and a chain of negations.          *)
EXTENDS EvaluationReference, SequencesExt

X == Var("X")
Y == Var("Y")
Z == Var("Z")
N == Var("N")

Edge(a, b) == Rule(Literal("edge", <<Val(a), Val(b)>>), <<>>)
Node(a)    == Rule(Literal("node", <<Val(a)>>), <<>>)

GivenFacts ==
  {<<Edge(1, 2), Edge(2, 1), Node(1), Node(3)>>,
   <<Edge(1, 2), Node(1), Node(2)>>,
   <<Edge(1, 2), Edge(2, 3), Edge(3, 1)>>}

\* A recursive relation, written three ways.
Base     == Rule(Literal("path", <<X, Y>>), <<Literal("edge", <<X, Y>>)>>)
Linear   == Rule(Literal("path", <<X, Z>>),
                 <<Literal("path", <<X, Y>>), Literal("edge", <<Y, Z>>)>>)
Twice    == Rule(Literal("path", <<X, Z>>),
                 <<Literal("path", <<X, Y>>), Literal("path", <<Y, Z>>)>>)
Backward == Rule(Literal("edge", <<Y, X>>),
                 <<Literal("path", <<X, Y>>), Comparison("<", X, Y)>>)

Lonely   == Rule(Literal("lonely", <<X>>),
                 <<Literal("node", <<X>>), Negation("path", <<X, Wildcard>>)>>)
Known    == Rule(Literal("node", <<X>>), <<Literal("edge", <<X, Wildcard>>)>>)
SelfLoop == Rule(Literal("path", <<X, X>>), <<Literal("lonely", <<X>>)>>)
Degree   == AggregateRule(Literal("degree", <<X, N>>), "count", "*", "N",
                          <<Literal("path", <<X, Wildcard>>)>>)
Total    == AggregateRule(Literal("total", <<N>>), "sum", "Y", "N",
                          <<Literal("degree", <<X, Y>>),
                            Negation("lonely", <<X>>)>>)
Empty    == Rule(Literal("empty", <<>>), <<Negation("edge", <<Wildcard, Wildcard>>)>>)
NoLoops  == Constraint(<<Literal("path", <<X, X>>), Negation("empty", <<>>)>>)

Pool == <<Base, Linear, Twice, Backward, Lonely, Known, SelfLoop, Degree, Total,
          Empty, NoLoops>>

Not(p, q) == Rule(Literal(p, <<>>), <<Negation(q, <<>>)>>)
Chain == <<Not("p", "q"), Not("q", "r"), Not("r", "s")>>

Chosen(S) == SelectSeq([i \in DOMAIN Pool |-> <<i, Pool[i]>>], LAMBDA e : e[1] \in S)
Only(S) == LET s == Chosen(S) IN [i \in DOMAIN s |-> s[i][2]]

RuleSets == {S \cup {1} : S \in {T \in SUBSET (2..Len(Pool)) : Cardinality(T) <= 3}}

Arranged(given, S, backwards) ==
  IF backwards THEN Reverse(Only(S)) \o given ELSE given \o Only(S)

MCPrograms ==
  {Arranged(x[1], x[2], x[3]) : x \in GivenFacts \X RuleSets \X BOOLEAN}
    \cup {Chain, Reverse(Chain)}

Ask(body, project) == [body |-> body, project |-> project, reduce |-> None]
AskFor(op, input, body) ==
  [body |-> body, project |-> {},
   reduce |-> [op |-> op, input |-> input, as |-> "N"]]

MCQueries ==
  {Ask(<<Literal("path", <<X, Y>>), Comparison("!=", X, Y)>>, {"X"}),
   AskFor("count", "*", <<Literal("path", <<X, Wildcard>>)>>),
   AskFor("min", "X", <<Literal("node", <<X>>), Negation("lonely", <<X>>)>>)}
=============================================================================
