------------------------- MODULE ProgramMeaningProofs -------------------------
(***************************************************************************)
(* For every program the parser accepts: stratification refuses exactly    *)
(* the recursion through negation or aggregation, recorded proofs are      *)
(* well-founded, and a finished database is the program's stable model,    *)
(* the only one; limits and answers are exact against it.                  *)
(*                                                                         *)
(* The argument about refusals: see "Stratification" below.  The argument  *)
(* about evaluation: every step adds what a rule of the current stratum    *)
(* derives from the database; such a rule negates and aggregates over      *)
(* complete relations only, so its derivations hold in every model and go  *)
(* on to hold (InEveryModel, SupportsHold).  When a stratum is closed, a   *)
(* model has nothing more of it, by the model's minimality; and no part of *)
(* the finished database is a model, as proofs are well-founded.           *)
(***************************************************************************)
EXTENDS EvaluationReference, EvaluationProofs, FiniteSetTheorems, TLAPS

-----------------------------------------------------------------------------
(* Induction, and finite sets                                              *)

NatOrder == {xy \in Nat \X Nat : xy[1] < xy[2]}

(* No descent in the natural numbers goes on for ever.                     *)
LEMMA NatOrderWellFounded == IsWellFoundedOn(NatOrder, Nat)
  BY NatLessThanWellFounded DEF OpToRel, NatOrder

(* A set that holds 0 and with every number the next one holds them all.   *)
LEMMA SetInduction ==
  ASSUME NEW T, 0 \in T, \A n \in Nat : n \in T => n + 1 \in T
  PROVE  \A n \in Nat : n \in T
<1> DEFINE U == Nat \ T
<1> SUFFICES ASSUME U # {} PROVE FALSE
  OBVIOUS
<1>1. U \subseteq Nat
  OBVIOUS
<1>2. PICK x \in U : \A y \in U : ~ (<<y, x>> \in NatOrder)
  <2> HIDE DEF U
  <2> QED BY <1>1, WFMin, NatOrderWellFounded
<1>3. x \in Nat /\ x # 0 /\ x - 1 \in Nat
  OBVIOUS
<1>4. x - 1 \in U
  <2>1. (x - 1) + 1 = x
    BY <1>3
  <2> QED BY <1>3, <2>1
<1>5. <<x - 1, x>> \in NatOrder
  BY <1>3 DEF NatOrder
<1> QED BY <1>2, <1>4, <1>5

(* The values of a function on a finite set.                               *)
LEMMA FiniteImage ==
  ASSUME NEW S, IsFiniteSet(S), NEW f
  PROVE  /\ IsFiniteSet({f[x] : x \in S})
         /\ Cardinality({f[x] : x \in S}) <= Cardinality(S)
<1> DEFINE T == {f[x] : x \in S}
           g == [x \in S |-> f[x]]
<1>1. g \in Surjection(S, T)
  BY DEF Surjection
<1> HIDE DEF T, g
<1>2. IsFiniteSet(T) /\ Cardinality(T) <= Cardinality(S)
  BY <1>1, FS_Surjection
<1> QED BY <1>2 DEF T

(* A union of finitely many finite sets.                                   *)
LEMMA FiniteUnion ==
  ASSUME NEW I, IsFiniteSet(I), NEW F, \A i \in I : IsFiniteSet(F[i])
  PROVE  IsFiniteSet(UNION {F[i] : i \in I})
<1> DEFINE T == {n \in Nat : \A J \in SUBSET I :
                   Cardinality(J) = n => IsFiniteSet(UNION {F[i] : i \in J})}
<1>1. 0 \in T
  <2> SUFFICES ASSUME NEW J \in SUBSET I, Cardinality(J) = 0
               PROVE  IsFiniteSet(UNION {F[i] : i \in J})
    OBVIOUS
  <2>1. J = {}
    BY FS_Subset, FS_EmptySet
  <2>2. UNION {F[i] : i \in J} = {}
    BY <2>1
  <2> QED BY <2>2, FS_EmptySet
<1>2. ASSUME NEW n \in Nat, n \in T PROVE n + 1 \in T
  <2> SUFFICES ASSUME NEW J \in SUBSET I, Cardinality(J) = n + 1
               PROVE  IsFiniteSet(UNION {F[i] : i \in J})
    OBVIOUS
  <2>1. IsFiniteSet(J)
    BY FS_Subset
  <2>2. PICK x : x \in J
    BY <2>1, FS_EmptySet
  <2>3. IsFiniteSet(J \ {x}) /\ Cardinality(J \ {x}) = n
    <3>1. IsFiniteSet(J \ {x}) /\ Cardinality(J \ {x}) = Cardinality(J) - 1
      <4> HIDE DEF T
      <4> QED BY <2>1, <2>2, FS_RemoveElement
    <3> QED BY <3>1
  <2>4. IsFiniteSet(UNION {F[i] : i \in J \ {x}})
    BY <1>2, <2>3
  <2>5. UNION {F[i] : i \in J} = (UNION {F[i] : i \in J \ {x}}) \cup F[x]
    BY <2>2
  <2>6. IsFiniteSet(F[x])
    BY <2>2
  <2> DEFINE A == UNION {F[i] : i \in J \ {x}}
  <2>7. IsFiniteSet(A \cup F[x])
    <3>1. IsFiniteSet(A)
      BY <2>4
    <3> HIDE DEF A, T
    <3> QED BY <2>6, <3>1, FS_Union
  <2> QED BY <2>5, <2>7
<1>3. Cardinality(I) \in Nat
  BY FS_CardinalityType
<1> HIDE DEF T
<1>4. \A n \in Nat : n \in T
  BY <1>1, <1>2, SetInduction
<1> QED BY <1>3, <1>4 DEF T

(* The functions between two finite sets.                                  *)
LEMMA FiniteFunctions ==
  ASSUME NEW S, IsFiniteSet(S), NEW D, IsFiniteSet(D)
  PROVE  IsFiniteSet([S -> D])
<1> DEFINE T == {n \in Nat : \A R \in SUBSET S :
                   Cardinality(R) = n => IsFiniteSet([R -> D])}
<1>1. 0 \in T
  <2> SUFFICES ASSUME NEW R \in SUBSET S, Cardinality(R) = 0
               PROVE  IsFiniteSet([R -> D])
    OBVIOUS
  <2>1. R = {}
    BY FS_Subset, FS_EmptySet
  <2>2. [R -> D] \subseteq {[x \in {} |-> x]}
    BY <2>1
  <2> QED BY <2>2, FS_Singleton, FS_Subset
<1>2. ASSUME NEW n \in Nat, n \in T PROVE n + 1 \in T
  <2> SUFFICES ASSUME NEW R \in SUBSET S, Cardinality(R) = n + 1
               PROVE  IsFiniteSet([R -> D])
    OBVIOUS
  <2>1. IsFiniteSet(R)
    BY FS_Subset
  <2>2. PICK x : x \in R
    BY <2>1, FS_EmptySet
  <2> DEFINE Q == R \ {x}
             F == [d \in D |-> {[y \in R |-> IF y = x THEN d ELSE f[y]] : f \in [Q -> D]}]
  <2>3. IsFiniteSet(Q) /\ Cardinality(Q) = n /\ Q \in SUBSET S
    <3>1. IsFiniteSet(R \ {x}) /\ Cardinality(R \ {x}) = Cardinality(R) - 1
      <4> HIDE DEF T
      <4> QED BY <2>1, <2>2, FS_RemoveElement
    <3> QED BY <3>1
  <2>4. IsFiniteSet([Q -> D])
    BY <1>2, <2>3
  <2>5. ASSUME NEW d \in D PROVE IsFiniteSet(F[d])
    <3> DEFINE h == [f \in [Q -> D] |-> [y \in R |-> IF y = x THEN d ELSE f[y]]]
    <3>1. F[d] = {h[f] : f \in [Q -> D]}
      OBVIOUS
    <3> HIDE DEF h, F, Q
    <3> QED BY <2>4, <3>1, FiniteImage
  <2>6. [R -> D] \subseteq UNION {F[d] : d \in D}
    <3> SUFFICES ASSUME NEW f \in [R -> D] PROVE f \in F[f[x]] /\ f[x] \in D
      OBVIOUS
    <3> DEFINE g == [y \in Q |-> f[y]]
    <3>1. g \in [Q -> D] /\ f[x] \in D
      BY <2>2
    <3>2. f = [y \in R |-> IF y = x THEN f[x] ELSE g[y]]
      OBVIOUS
    <3>3. F[f[x]] = {[y \in R |-> IF y = x THEN f[x] ELSE e[y]] : e \in [Q -> D]}
      BY <3>1
    <3> HIDE DEF g, F
    <3> QED BY <3>1, <3>2, <3>3
  <2> HIDE DEF F, Q, T
  <2>7. IsFiniteSet(UNION {F[d] : d \in D})
    BY <2>5, FiniteUnion
  <2> QED BY <2>6, <2>7, FS_Subset
<1>3. Cardinality(S) \in Nat
  BY FS_CardinalityType
<1> HIDE DEF T
<1>4. \A n \in Nat : n \in T
  BY <1>1, <1>2, SetInduction
<1> QED BY <1>3, <1>4 DEF T

-----------------------------------------------------------------------------
(* Stratification: a program is refused for a cycle through a negation or  *)
(* an aggregation only.  A stratum raised in pass k has been pushed up     *)
(* along a walk of at least k dependencies; a walk of as many dependencies *)
(* as there are predicates comes back to one of them, at a higher stratum. *)

(* A program has finitely many predicates.                                 *)
LEMMA FinitePredicates ==
  ASSUME NEW prog \in Programs
  PROVE  IsFiniteSet(Predicates(prog))
<1>1. /\ Len(prog) \in Nat /\ DOMAIN prog = 1..Len(prog)
      /\ \A c \in DOMAIN prog : /\ Len(prog[c].body) \in Nat
                                /\ DOMAIN prog[c].body = 1..Len(prog[c].body)
  BY ProgramsAssumption
<1>2. IsFiniteSet(DOMAIN prog)
  BY <1>1, FS_Interval
<1> DEFINE O == Ordinary(prog)
           R == RulesOf(prog)
<1>3. IsFiniteSet(O) /\ IsFiniteSet(R) /\ R \subseteq DOMAIN prog
  BY <1>2, FS_Subset DEF Ordinary, RulesOf
<1> DEFINE head == [c \in O |-> prog[c].head.pred]
           F == [c \in R |-> {<<c, g>> : g \in Relational(prog[c].body)}]
<1>4. ASSUME NEW c \in R PROVE IsFiniteSet(F[c])
  <2> DEFINE G == Relational(prog[c].body)
             place == [g \in G |-> <<c, g>>]
  <2>1. IsFiniteSet(DOMAIN prog[c].body)
    <3> DEFINE len == Len(prog[c].body)
    <3>1. len \in Nat /\ DOMAIN prog[c].body = 1..len
      BY <1>1, <1>3
    <3> HIDE DEF len
    <3>2. IsFiniteSet(1..len)
      BY <3>1, FS_Interval
    <3> QED BY <3>1, <3>2
  <2>2. IsFiniteSet(G)
    BY <2>1, FS_Subset DEF Relational
  <2>3. F[c] = {place[g] : g \in G}
    OBVIOUS
  <2> HIDE DEF G, place, F
  <2> QED BY <2>2, <2>3, FiniteImage
<1>5. Dependencies(prog) = UNION {F[c] : c \in R}
  BY DEF Dependencies
<1>6. IsFiniteSet(Dependencies(prog))
  <2> HIDE DEF F, R
  <2> QED BY <1>3, <1>4, <1>5, FiniteUnion
<1> DEFINE D == Dependencies(prog)
           body == [d \in D |-> prog[d[1]].body[d[2]].pred]
           heads == {head[c] : c \in O}
           bodies == {body[d] : d \in D}
<1>7. Predicates(prog) = heads \cup bodies
  BY DEF Predicates
<1>8. IsFiniteSet(heads)
  <2> HIDE DEF head, O
  <2> QED BY <1>3, FiniteImage
<1>9. IsFiniteSet(bodies)
  <2> HIDE DEF body
  <2> QED BY <1>6, FiniteImage
<1> HIDE DEF heads, bodies
<1> QED BY <1>7, <1>8, <1>9, FS_Union

(* A step of a walk: along a dependency, from what its body names to its   *)
(* head, with the stratum this requires.                                   *)
Along(d, p, i, q, j) ==
  /\ BodyPred(program, d) = p /\ HeadPred(program, d) = q
  /\ j = i + (IF Strict(program, d) THEN 1 ELSE 0)

(* A walk of n dependencies over predicates w, which has pushed each of    *)
(* them to the strata v, a predicate it comes back to every time higher.   *)
IsWalk(n, w, v) ==
  /\ w \in [0..n -> Predicates(program)] /\ v \in [0..n -> Nat]
  /\ \A i \in 1..n : \E d \in Dependencies(program) :
       Along(d, w[i - 1], v[i - 1], w[i], v[i])
  /\ \A i \in 0..n : v[i] <= strata[w[i]]
  /\ \A i \in 0..n : \A j \in 0..n : i < j /\ w[i] = w[j] => v[i] < v[j]

(* A walk of at least m dependencies has pushed p to its stratum.          *)
Pushed(p, m) ==
  \E n \in Nat : \E w \in [0..n -> Predicates(program)], v \in [0..n -> Nat] :
    m <= n /\ IsWalk(n, w, v) /\ w[n] = p /\ v[n] = strata[p]

(* In pass k+1 a dependency that is not respected was left so by a push    *)
(* of at least k dependencies, or k+1 if it was relaxed in this pass.      *)
RefusalInv ==
  /\ phase = "stratify" =>
       /\ \A d \in Dependencies(program) :
            strata[HeadPred(program, d)] < Required(program, strata, d) =>
              Pushed(BodyPred(program, d), IF d \in left THEN pass ELSE pass + 1)
       /\ changed => \E p \in Predicates(program) : Pushed(p, pass + 1)
  /\ phase = "refused" => StrictCycle(program)

(* Backwards along a walk: a set closed under dependencies that holds one  *)
(* of its predicates holds those before it.                                *)
LEMMA WalkBack ==
  ASSUME NEW n \in Nat, NEW w, NEW v, IsWalk(n, w, v), NEW S,
         \A d \in Dependencies(program) :
            HeadPred(program, d) \in S => BodyPred(program, d) \in S,
         NEW j \in 0..n, w[j] \in S
  PROVE  \A i \in 0..j : w[i] \in S
<1> DEFINE T == {k \in Nat : k <= j => w[j - k] \in S}
<1>1. 0 \in T
  OBVIOUS
<1>2. ASSUME NEW k \in Nat, k \in T PROVE k + 1 \in T
  <2> SUFFICES ASSUME k + 1 <= j PROVE w[j - (k + 1)] \in S
    OBVIOUS
  <2>1. w[j - k] \in S /\ j - k \in 1..n /\ (j - k) - 1 = j - (k + 1)
    BY <1>2
  <2>2. PICK d \in Dependencies(program) :
          BodyPred(program, d) = w[(j - k) - 1] /\ HeadPred(program, d) = w[j - k]
    BY <2>1 DEF IsWalk, Along
  <2> QED BY <2>1, <2>2
<1> HIDE DEF T
<1>3. \A k \in Nat : k \in T
  BY <1>1, <1>2, SetInduction
<1>4. ASSUME NEW i \in 0..j PROVE w[i] \in S
  <2>1. j - i \in Nat /\ j - i <= j /\ j - (j - i) = i
    OBVIOUS
  <2> QED BY <1>3, <2>1 DEF T
<1> QED BY <1>4

(* A walk that gets higher has a step along a strict dependency.           *)
LEMMA WalkRises ==
  ASSUME NEW n \in Nat, NEW w, NEW v, IsWalk(n, w, v),
         NEW i \in 0..n, NEW j \in 0..n, i <= j, v[i] < v[j]
  PROVE  \E t \in (i + 1)..j : v[t - 1] # v[t]
<1> SUFFICES ASSUME \A t \in (i + 1)..j : v[t - 1] = v[t] PROVE FALSE
  OBVIOUS
<1> DEFINE T == {k \in Nat : i + k <= j => v[i + k] = v[i]}
<1>1. 0 \in T
  OBVIOUS
<1>2. ASSUME NEW k \in Nat, k \in T PROVE k + 1 \in T
  <2> SUFFICES ASSUME i + (k + 1) <= j PROVE v[i + (k + 1)] = v[i]
    OBVIOUS
  <2>1. i + (k + 1) \in (i + 1)..j /\ (i + (k + 1)) - 1 = i + k /\ i + k <= j
    OBVIOUS
  <2> QED BY <1>2, <2>1
<1> HIDE DEF T
<1>3. \A k \in Nat : k \in T
  BY <1>1, <1>2, SetInduction
<1>4. j - i \in Nat /\ i + (j - i) <= j /\ i + (j - i) = j
  OBVIOUS
<1>5. v[j] = v[i]
  BY <1>3, <1>4 DEF T
<1> QED BY <1>5 DEF IsWalk

(* A walk that comes back goes through a strict dependency of a cycle.     *)
LEMMA WalkFindsCycle ==
  ASSUME NEW n \in Nat, NEW w, NEW v, IsWalk(n, w, v),
         NEW i \in 0..n, NEW j \in 0..n, i < j, w[i] = w[j]
  PROVE  StrictCycle(program)
<1>1. v[i] < v[j]
  BY DEF IsWalk
<1>2. PICK t \in (i + 1)..j : v[t - 1] # v[t]
  BY <1>1, WalkRises
<1>3. t \in 1..n /\ t - 1 \in 0..n /\ i \in 0..(t - 1) /\ t \in 0..j /\ t \in 0..n
  BY <1>2
<1>4. PICK d \in Dependencies(program) : Along(d, w[t - 1], v[t - 1], w[t], v[t])
  BY <1>3 DEF IsWalk
<1>5. v[t - 1] \in Nat /\ v[t] \in Nat /\ w[t] \in Predicates(program)
  BY <1>3 DEF IsWalk
<1>6. Strict(program, d)
  BY <1>2, <1>4, <1>5 DEF Along
<1>7. ASSUME NEW S \in SUBSET Predicates(program), w[t - 1] \in S,
             \A e \in Dependencies(program) :
               HeadPred(program, e) \in S => BodyPred(program, e) \in S
      PROVE  w[t] \in S
  <2>1. w[i] \in S
    BY <1>3, <1>7, WalkBack
  <2>2. w[j] \in S
    BY <2>1
  <2> QED BY <1>3, <1>7, <2>2, WalkBack
<1>8. w[t] \in DependsOn(program, w[t - 1])
  BY <1>5, <1>7 DEF DependsOn
<1> QED BY <1>4, <1>6, <1>8 DEF StrictCycle, Along

(* A push as long as the program has predicates is a cycle.                *)
LEMMA LongPushFindsCycle ==
  ASSUME program \in Programs, NEW p,
         NEW m, m = Cardinality(Predicates(program)), Pushed(p, m)
  PROVE  StrictCycle(program)
<1> DEFINE P == Predicates(program)
<1>1. IsFiniteSet(P) /\ Cardinality(P) \in Nat
  BY FinitePredicates, FS_CardinalityType
<1>2. PICK n \in Nat :
        \E w \in [0..n -> P], v \in [0..n -> Nat] : m <= n /\ IsWalk(n, w, v)
  BY DEF Pushed
<1>3. PICK w \in [0..n -> P], v \in [0..n -> Nat] : m <= n /\ IsWalk(n, w, v)
  BY <1>2
<1>4. IsFiniteSet(0..n) /\ Cardinality(0..n) = n + 1
  BY FS_Interval
<1>5. Cardinality(P) < Cardinality(0..n)
  BY <1>1, <1>3, <1>4
<1> HIDE DEF P
<1>6. PICK x \in 0..n, y \in 0..n : x # y /\ w[x] = w[y]
  BY <1>1, <1>4, <1>5, FS_PigeonHole
<1> QED BY <1>3, <1>6, WalkFindsCycle

(* A walk may go on along a dependency that is not respected.              *)
LEMMA PushGoesOn ==
  ASSUME TypeOK, NEW d \in Dependencies(program), NEW m \in Nat,
         Pushed(BodyPred(program, d), m),
         strata[HeadPred(program, d)] < Required(program, strata, d),
         program' = program,
         strata' = [strata EXCEPT ![HeadPred(program, d)] =
                                     Required(program, strata, d)]
  PROVE  Pushed(HeadPred(program, d), m + 1)'
<1> DEFINE P == Predicates(program)
<1>1. /\ strata \in [P -> Nat] /\ HeadPred(program, d) \in P
      /\ BodyPred(program, d) \in P
  BY DependenciesHavePredicates DEF TypeOK
<1>2. PICK h \in P, b \in P :
        h = HeadPred(program, d) /\ b = BodyPred(program, d) /\ strata \in [P -> Nat]
  BY <1>1
<1>3. PICK r : r = Required(program, strata, d)
  OBVIOUS
<1>4. r \in Nat /\ r = strata[b] + (IF Strict(program, d) THEN 1 ELSE 0)
  BY <1>2, <1>3 DEF Required
<1>5. PICK n \in Nat : \E w \in [0..n -> P], v \in [0..n -> Nat] :
        m <= n /\ IsWalk(n, w, v) /\ w[n] = b /\ v[n] = strata[b]
  BY <1>2 DEF Pushed
<1>6. PICK w \in [0..n -> P], v \in [0..n -> Nat] :
        m <= n /\ IsWalk(n, w, v) /\ w[n] = b /\ v[n] = strata[b]
  BY <1>5
<1>7. /\ Predicates(program)' = P /\ Dependencies(program)' = Dependencies(program)
      /\ \A q \in P : strata'[q] = IF q = h THEN r ELSE strata[q]
      /\ strata[h] < r /\ Along(d, b, strata[b], h, r)
  <2>1. Predicates(program)' = P /\ Dependencies(program)' = Dependencies(program)
    BY DEF Dependencies, RulesOf, Ordinary, Predicates
  <2>2. Along(d, b, strata[b], h, r)
    BY <1>2, <1>4 DEF Along
  <2>3. strata' = [strata EXCEPT ![h] = r] /\ strata[h] < r
    BY <1>2, <1>3
  <2> HIDE DEF P
  <2> QED BY <1>2, <2>1, <2>2, <2>3
<1>8. \A q \in P : strata[q] <= strata'[q]
  <2>1. strata[h] <= r
    BY <1>2, <1>4, <1>7
  <2> QED BY <1>2, <1>4, <1>7, <2>1
<1>9. PICK w1 \in [0..(n + 1) -> P], v1 \in [0..(n + 1) -> Nat] :
        /\ w1 = [i \in 0..(n + 1) |-> IF i = n + 1 THEN h ELSE w[i]]
        /\ v1 = [i \in 0..(n + 1) |-> IF i = n + 1 THEN r ELSE v[i]]
  <2>1. /\ [i \in 0..(n + 1) |-> IF i = n + 1 THEN h ELSE w[i]] \in [0..(n + 1) -> P]
        /\ [i \in 0..(n + 1) |-> IF i = n + 1 THEN r ELSE v[i]] \in [0..(n + 1) -> Nat]
    BY <1>2, <1>4, <1>6
  <2> QED BY <2>1
<1>10. /\ \A i \in 0..n : w1[i] = w[i] /\ v1[i] = v[i]
      /\ w1[n + 1] = h /\ v1[n + 1] = r
  BY <1>9
<1>11. \A i \in 0..(n + 1) : i \in 0..n \/ i = n + 1
  OBVIOUS
<1>12. ASSUME NEW i \in 1..(n + 1)
       PROVE  \E e \in Dependencies(program) :
                Along(e, w1[i - 1], v1[i - 1], w1[i], v1[i])
  <2>1. CASE i = n + 1
    <3>1. w1[i - 1] = b /\ v1[i - 1] = strata[b] /\ w1[i] = h /\ v1[i] = r
      BY <1>6, <1>10, <2>1
    <3> QED BY <1>7, <3>1
  <2>2. CASE i # n + 1
    <3>1. i \in 1..n /\ i \in 0..n /\ i - 1 \in 0..n
      BY <2>2
    <3> QED BY <1>6, <1>10, <3>1 DEF IsWalk
  <2> QED BY <2>1, <2>2
<1>13. ASSUME NEW i \in 0..(n + 1) PROVE v1[i] <= strata'[w1[i]]
  <2>1. CASE i = n + 1
    BY <1>2, <1>4, <1>7, <1>10, <2>1
  <2>2. CASE i # n + 1
    <3>1. i \in 0..n /\ v[i] \in Nat /\ v[i] <= strata[w[i]] /\ w[i] \in P
      BY <1>6, <1>11, <2>2 DEF IsWalk
    <3>2. strata[w[i]] \in Nat /\ strata'[w[i]] \in Nat
      BY <1>2, <1>4, <1>7, <3>1
    <3> QED BY <1>8, <1>10, <3>1, <3>2
  <2> QED BY <2>1, <2>2
<1>14. ASSUME NEW i \in 0..(n + 1), NEW j \in 0..(n + 1), i < j, w1[i] = w1[j]
       PROVE  v1[i] < v1[j]
  <2>1. i \in 0..n
    BY <1>14
  <2>2. CASE j = n + 1
    <3>1. w[i] = h /\ v[i] <= strata[h] /\ v[i] \in Nat
      BY <1>6, <1>10, <1>14, <2>1, <2>2 DEF IsWalk
    <3>2. strata[h] < r /\ strata[h] \in Nat /\ r \in Nat
      BY <1>2, <1>4, <1>7
    <3>3. v[i] < r
      BY <3>1, <3>2
    <3> QED BY <1>10, <2>1, <2>2, <3>3
  <2>3. CASE j # n + 1
    <3>1. j \in 0..n
      BY <1>11, <2>3
    <3> QED BY <1>6, <1>10, <1>14, <2>1, <3>1 DEF IsWalk
  <2> QED BY <2>2, <2>3
<1>15. \A i \in 1..(n + 1) : \E e \in Dependencies(program)' :
         Along(e, w1[i - 1], v1[i - 1], w1[i], v1[i])'
  BY <1>7, <1>12 DEF Along, BodyPred, HeadPred, Strict
<1>16. IsWalk(n + 1, w1, v1)'
  BY <1>7, <1>9, <1>13, <1>14, <1>15 DEF IsWalk
<1>17. /\ n + 1 \in Nat /\ m + 1 <= n + 1 /\ v1[n + 1] = strata'[h] /\ w1[n + 1] = h
       /\ w1 \in [0..(n + 1) -> Predicates(program)'] /\ v1 \in [0..(n + 1) -> Nat]
       /\ HeadPred(program, d)' = h
  BY <1>2, <1>6, <1>7, <1>9, <1>10 DEF HeadPred
<1> HIDE DEF P
<1> QED BY <1>16, <1>17 DEF Pushed

(* A push stays one when other predicates are raised.                      *)
LEMMA PushStays ==
  ASSUME TypeOK, NEW p, NEW m, Pushed(p, m), program' = program,
         strata'[p] = strata[p],
         \A q \in Predicates(program) : strata[q] <= strata'[q],
         strata' \in [Predicates(program) -> Nat]
  PROVE  Pushed(p, m)'
<1>1. PICK n \in Nat :
        \E w \in [0..n -> Predicates(program)], v \in [0..n -> Nat] :
          m <= n /\ IsWalk(n, w, v) /\ w[n] = p /\ v[n] = strata[p]
  BY DEF Pushed
<1>2. PICK w \in [0..n -> Predicates(program)], v \in [0..n -> Nat] :
        m <= n /\ IsWalk(n, w, v) /\ w[n] = p /\ v[n] = strata[p]
  BY <1>1
<1>3. Predicates(program)' = Predicates(program)
      /\ Dependencies(program)' = Dependencies(program)
  BY DEF Dependencies, RulesOf, Ordinary, Predicates
<1>4. \A i \in 0..n : v[i] <= strata'[w[i]]
  <2> SUFFICES ASSUME NEW i \in 0..n PROVE v[i] <= strata'[w[i]]
    OBVIOUS
  <2>1. w[i] \in Predicates(program) /\ v[i] \in Nat /\ v[i] <= strata[w[i]]
    BY <1>2 DEF IsWalk
  <2>2. strata[w[i]] \in Nat /\ strata'[w[i]] \in Nat /\ strata[w[i]] <= strata'[w[i]]
    BY <2>1 DEF TypeOK
  <2> QED BY <2>1, <2>2
<1>5. \A i \in 1..n : \E d \in Dependencies(program)' :
        Along(d, w[i - 1], v[i - 1], w[i], v[i])'
  BY <1>2, <1>3 DEF IsWalk, Along, BodyPred, HeadPred, Strict
<1>6. IsWalk(n, w, v)'
  BY <1>2, <1>3, <1>4, <1>5 DEF IsWalk
<1> QED BY <1>2, <1>3, <1>6 DEF Pushed

(* Initially nothing has been pushed, and no walk is needed.               *)
LEMMA InitRefusal == Init => RefusalInv
<1> SUFFICES ASSUME Init PROVE RefusalInv
  OBVIOUS
<1>1. /\ phase = "stratify" /\ pass = 0 /\ ~changed
      /\ left = Dependencies(program)
      /\ strata = [p \in Predicates(program) |-> 0]
  BY DEF Init, StratifyInit
<1>2. ASSUME NEW p \in Predicates(program) PROVE Pushed(p, 0)
  <2>1. PICK w \in [0..0 -> Predicates(program)], v \in [0..0 -> Nat] :
          w = [i \in 0..0 |-> p] /\ v = [i \in 0..0 |-> 0]
    OBVIOUS
  <2>2. IsWalk(0, w, v)
    BY <1>1, <2>1 DEF IsWalk
  <2>3. w[0] = p /\ v[0] = strata[p]
    BY <1>1, <2>1
  <2>4. \E w0 \in [0..0 -> Predicates(program)], v0 \in [0..0 -> Nat] :
          0 <= 0 /\ IsWalk(0, w0, v0) /\ w0[0] = p /\ v0[0] = strata[p]
    BY <2>2, <2>3
  <2> QED BY <2>4 DEF Pushed
<1>3. \A d \in Dependencies(program) : BodyPred(program, d) \in Predicates(program)
  BY DependenciesHavePredicates
<1> QED BY <1>1, <1>2, <1>3 DEF RefusalInv

(* Relaxing a dependency.                                                  *)
LEMMA RelaxRefusal ==
  ASSUME IInv, RefusalInv, Relax
  PROVE  RefusalInv'
<1> DEFINE P == Predicates(program)
           D == Dependencies(program)
           Missed(d) == strata[HeadPred(program, d)] < Required(program, strata, d)
<1>1. /\ phase = "stratify" /\ phase' = "stratify" /\ UNCHANGED <<program, pass>>
      /\ TypeOK /\ strata \in [P -> Nat] /\ left \subseteq D /\ pass \in Nat
  BY DEF Relax, IInv, TypeOK
<1>2. PICK r \in left :
        /\ left' = left \ {r}
        /\ IF Missed(r)
           THEN /\ strata' = [strata EXCEPT ![HeadPred(program, r)] =
                                               Required(program, strata, r)]
                /\ changed' = TRUE
           ELSE UNCHANGED <<strata, changed>>
  BY DEF Relax
<1>3. P' = P /\ D' = D /\ r \in D
  BY <1>1, <1>2 DEF Dependencies, RulesOf, Ordinary, Predicates
<1>4. \A d \in D : HeadPred(program, d) \in P /\ BodyPred(program, d) \in P
  BY DependenciesHavePredicates
<1>5. \A d \in D : HeadPred(program, d)' = HeadPred(program, d)
                   /\ BodyPred(program, d)' = BodyPred(program, d)
                   /\ (Strict(program, d)' <=> Strict(program, d))
  BY <1>1 DEF HeadPred, BodyPred, Strict
<1>6. \A d \in D : Missed(d) =>
        Pushed(BodyPred(program, d), IF d \in left THEN pass ELSE pass + 1)
  BY <1>1 DEF RefusalInv
<1>7. \A p, m, k : (Pushed(p, m) /\ m \in Nat /\ k \in Nat /\ k <= m) => Pushed(p, k)
  BY DEF Pushed
<1>8. CASE ~Missed(r)
  <2>1. strata' = strata /\ changed' = changed
    BY <1>2, <1>8
  <2>2. \A m : \A p \in P : Pushed(p, m) => Pushed(p, m)'
    <3>1. \A q \in P : strata[q] <= strata'[q]
      BY <1>1, <2>1
    <3> QED BY <1>1, <2>1, <3>1, PushStays
  <2>3. ASSUME NEW d \in D, Missed(d)'
        PROVE  Pushed(BodyPred(program, d), IF d \in left THEN pass ELSE pass + 1)'
    <3>1. Missed(d)
      BY <1>5, <2>1, <2>3 DEF Required
    <3>2. d \in left' <=> d \in left
      BY <1>2, <1>8, <3>1
    <3>3. PICK b \in P, k \in Nat : /\ b = BodyPred(program, d)
                                    /\ k = IF d \in left THEN pass ELSE pass + 1
      BY <1>1, <1>4
    <3>4. Pushed(b, k)'
      BY <1>6, <2>2, <3>1, <3>3
    <3>5. BodyPred(program, d)' = b /\ k = IF d \in left' THEN pass' ELSE pass' + 1
      BY <1>1, <1>5, <3>2, <3>3
    <3> QED BY <3>4, <3>5 DEF Pushed, IsWalk
  <2>4. changed' => \E p \in P' : Pushed(p, pass + 1)'
    BY <1>1, <1>3, <2>1, <2>2 DEF RefusalInv
  <2> QED BY <1>1, <1>3, <2>3, <2>4 DEF RefusalInv
<1>9. CASE Missed(r)
  <2>1. PICK h \in P, b \in P : h = HeadPred(program, r) /\ b = BodyPred(program, r)
    BY <1>3, <1>4
  <2>2. strata' = [strata EXCEPT ![h] = Required(program, strata, r)] /\ changed'
    BY <1>2, <1>9, <2>1
  <2>3. PICK m \in Nat : m = pass /\ Pushed(b, m)
    BY <1>1, <1>2, <1>3, <1>6, <1>9, <2>1
  <2>4. Pushed(h, m + 1)'
    <3>1. Pushed(HeadPred(program, r), m + 1)'
      BY <1>1, <1>3, <1>9, <2>1, <2>2, <2>3, PushGoesOn
    <3>2. HeadPred(program, r)' = h
      BY <1>3, <1>5, <2>1
    <3> QED BY <3>1, <3>2
  <2>5. /\ strata' \in [P -> Nat]
        /\ \A q \in P : strata[q] <= strata'[q]
        /\ \A q \in P : q # h => strata'[q] = strata[q]
        /\ strata'[h] = Required(program, strata, r) /\ Required(program, strata, r) \in Nat
    <3>1. Required(program, strata, r) \in Nat
      BY <1>1, <2>1 DEF Required
    <3>2. strata[h] < Required(program, strata, r)
      BY <1>9, <2>1
    <3> QED BY <1>1, <2>1, <2>2, <3>1, <3>2
  <2>6. ASSUME NEW d \in D, Missed(d)'
        PROVE  Pushed(BodyPred(program, d), IF d \in left THEN pass ELSE pass + 1)'
    <3>1. PICK c \in P, k \in Nat : /\ c = BodyPred(program, d)
                                    /\ k = IF d \in left' THEN pass ELSE pass + 1
      BY <1>1, <1>4
    <3>2. BodyPred(program, d)' = c /\ k = IF d \in left' THEN pass' ELSE pass' + 1
      BY <1>1, <1>5, <3>1
    <3>3. Pushed(c, k)'
      <4>1. CASE c = h
        <5>1. PICK n \in Nat :
                \E w \in [0..n -> P'], v \in [0..n -> Nat] :
                  m + 1 <= n /\ IsWalk(n, w, v)' /\ w[n] = h /\ v[n] = strata'[h]
          BY <2>4 DEF Pushed
        <5>2. m + 1 <= n /\ k <= n
          BY <2>3, <3>1, <5>1
        <5> HIDE DEF P
        <5> QED BY <4>1, <5>1, <5>2 DEF Pushed, P
      <4>2. CASE c # h
        <5>1. strata'[c] = strata[c]
          BY <2>5, <4>2
        <5>2. Missed(d)
          <6>1. Required(program, strata, d)' = Required(program, strata, d)
            BY <1>5, <3>1, <5>1 DEF Required
          <6>2. Required(program, strata, d) \in Nat
            BY <1>1, <3>1 DEF Required
          <6> QED BY <1>1, <1>4, <1>5, <2>5, <2>6, <6>1, <6>2
        <5>3. d # r
          <6>1. ASSUME d = r PROVE FALSE
            <7>1. Required(program, strata, d)' = Required(program, strata, r)
              BY <1>5, <3>1, <5>1, <6>1 DEF Required
            <7> QED BY <1>5, <2>1, <2>5, <2>6, <6>1, <7>1
          <6> QED BY <6>1
        <5>4. Pushed(c, k)
          BY <1>2, <1>6, <3>1, <5>2, <5>3
        <5> QED BY <1>1, <2>5, <5>1, <5>4, PushStays
      <4> QED BY <4>1, <4>2
    <3> QED BY <3>2, <3>3 DEF Pushed, IsWalk
  <2>7. \E p \in P' : Pushed(p, pass + 1)'
    <3>1. m + 1 = pass' + 1
      BY <1>1, <2>3
    <3> QED BY <1>3, <2>1, <2>4, <3>1
  <2> QED BY <1>1, <1>3, <2>6, <2>7 DEF RefusalInv
<1> QED BY <1>8, <1>9

(* Another pass, or the refusal.                                           *)
LEMMA NextPassRefusal ==
  ASSUME IInv, RefusalInv, NextPass
  PROVE  RefusalInv'
<1>1. /\ phase = "stratify" /\ left = {} /\ changed /\ program' = program
      /\ strata' = strata /\ pass \in Nat /\ program \in Programs
      /\ strata \in [Predicates(program) -> Nat] /\ TypeOK
  BY DEF NextPass, stratifyVars, IInv, TypeOK
<1>2. CASE pass = Cardinality(Predicates(program)) - 1
  <2>1. phase' = "refused"
    BY <1>2 DEF NextPass
  <2>2. pass + 1 = Cardinality(Predicates(program))
    BY <1>1, <1>2, FinitePredicates, FS_CardinalityType
  <2>3. \E p \in Predicates(program) : Pushed(p, pass + 1)
    BY <1>1 DEF RefusalInv
  <2>4. StrictCycle(program)
    BY <1>1, <2>2, <2>3, LongPushFindsCycle
  <2>5. StrictCycle(program)'
    BY <1>1, <2>4
  <2> QED BY <2>1, <2>5 DEF RefusalInv
<1>3. CASE pass # Cardinality(Predicates(program)) - 1
  <2>1. /\ phase' = "stratify" /\ pass' = pass + 1 /\ ~changed'
        /\ left' = Dependencies(program)
    BY <1>1, <1>3 DEF NextPass
  <2>2. /\ Predicates(program)' = Predicates(program)
        /\ Dependencies(program)' = Dependencies(program)
    BY <1>1 DEF Dependencies, RulesOf, Ordinary, Predicates
  <2>3. \A q \in Predicates(program) : strata[q] <= strata'[q]
    BY <1>1
  <2>4. ASSUME NEW d \in Dependencies(program),
               (strata[HeadPred(program, d)] < Required(program, strata, d))'
        PROVE  Pushed(BodyPred(program, d), IF d \in left THEN pass ELSE pass + 1)'
    <3>1. strata[HeadPred(program, d)] < Required(program, strata, d)
      BY <1>1, <2>4 DEF Required, HeadPred, BodyPred, Strict
    <3>2. PICK b, k : b = BodyPred(program, d) /\ k = pass + 1
      OBVIOUS
    <3>3. Pushed(b, k)
      BY <1>1, <3>1, <3>2 DEF RefusalInv
    <3>4. Pushed(b, k)'
      BY <1>1, <2>3, <3>3, PushStays
    <3>5. BodyPred(program, d)' = b /\ k = IF d \in left' THEN pass' ELSE pass' + 1
      BY <1>1, <2>1, <3>2 DEF BodyPred
    <3> QED BY <3>4, <3>5 DEF Pushed, IsWalk
  <2> QED BY <2>1, <2>2, <2>4 DEF RefusalInv
<1> QED BY <1>2, <1>3

(* Every step.                                                             *)
LEMMA NextRefusal ==
  ASSUME IInv, RefusalInv, [Next]_vars
  PROVE  RefusalInv'
<1>1. CASE Relax
  BY <1>1, RelaxRefusal
<1>2. CASE NextPass
  BY <1>2, NextPassRefusal
<1>3. CASE UNCHANGED vars
  <2>1. UNCHANGED <<program, phase, strata, pass, left, changed>>
    BY <1>3 DEF vars, stratifyVars
  <2>2. \A n, w, v : IsWalk(n, w, v) => IsWalk(n, w, v)'
    BY <2>1 DEF IsWalk, Along
  <2>3. \A p, k : Pushed(p, k) => Pushed(p, k)'
    BY <2>1, <2>2 DEF Pushed
  <2>4. ASSUME phase = "stratify", NEW d \in Dependencies(program),
               strata[HeadPred(program, d)] < Required(program, strata, d)
        PROVE  Pushed(BodyPred(program, d), IF d \in left THEN pass ELSE pass + 1)'
    <3>1. PICK b, k : /\ b = BodyPred(program, d)
                      /\ k = IF d \in left THEN pass ELSE pass + 1
      OBVIOUS
    <3>2. Pushed(b, k)'
      BY <2>3, <2>4, <3>1 DEF RefusalInv
    <3>3. BodyPred(program, d)' = b /\ k = IF d \in left' THEN pass' ELSE pass' + 1
      BY <2>1, <3>1
    <3> QED BY <3>2, <3>3 DEF Pushed, IsWalk
  <2>5. phase = "stratify" /\ changed =>
          \E p \in Predicates(program) : Pushed(p, pass + 1)'
    <3> SUFFICES ASSUME phase = "stratify", changed
                 PROVE  \E p \in Predicates(program) : Pushed(p, pass + 1)'
      OBVIOUS
    <3>1. PICK p \in Predicates(program) : Pushed(p, pass + 1)
      BY DEF RefusalInv
    <3>2. PICK k : k = pass + 1 /\ k = pass' + 1
      BY <2>1
    <3>3. Pushed(p, k)'
      BY <2>3, <3>1, <3>2
    <3> QED BY <3>2, <3>3
  <2>6. \A d \in Dependencies(program) :
          (strata[HeadPred(program, d)] < Required(program, strata, d))' =>
             strata[HeadPred(program, d)] < Required(program, strata, d)
    BY <2>1
  <2> QED BY <2>1, <2>4, <2>5, <2>6 DEF RefusalInv
<1>4. CASE phase' \notin {"stratify", "refused"}
  BY <1>4 DEF RefusalInv
<1>5. \/ Relax \/ NextPass \/ UNCHANGED vars \/ phase' \notin {"stratify", "refused"}
  <2>1. CASE Stratify
    BY <2>1 DEF Stratify, Stratified
  <2>2. CASE LoadFacts \/ NextStratum \/ NextRound \/ EndRound
    BY <2>2 DEF LoadFacts, NextStratum, NextRound, EndRound
  <2>3. CASE \E p \in todo : Derive(p) \/ FinishPass(p) \/ DeriveAggregate(p)
    BY <2>3 DEF Derive, FinishPass, DeriveAggregate, Add
  <2>4. CASE \E q \in Queries : AnswerRelational(q) \/ AnswerAggregate(q)
    BY <2>4 DEF AnswerRelational, AnswerAggregate
  <2> QED BY <2>1, <2>2, <2>3, <2>4 DEF Next
<1> QED BY <1>1, <1>2, <1>3, <1>4, <1>5

(* Strata that respect every dependency leave no strict one in a cycle:    *)
(* what a predicate depends on is at most as high as it.                   *)
LEMMA RespectedHasNoStrictCycle ==
  ASSUME NEW prog, NEW lev \in [Predicates(prog) -> Nat], Respects(prog, lev)
  PROVE  ~StrictCycle(prog)
<1> SUFFICES ASSUME NEW d \in Dependencies(prog), Strict(prog, d),
                    HeadPred(prog, d) \in DependsOn(prog, BodyPred(prog, d))
             PROVE  FALSE
  BY DEF StrictCycle
<1> DEFINE S == {q \in Predicates(prog) : lev[q] <= lev[BodyPred(prog, d)]}
<1>1. \A e \in Dependencies(prog) :
        /\ HeadPred(prog, e) \in Predicates(prog) /\ BodyPred(prog, e) \in Predicates(prog)
        /\ lev[HeadPred(prog, e)] \in Nat /\ lev[BodyPred(prog, e)] \in Nat
        /\ lev[HeadPred(prog, e)] >= Required(prog, lev, e)
  BY DependenciesHavePredicates DEF Respects
<1>2. \A e \in Dependencies(prog) : lev[BodyPred(prog, e)] <= lev[HeadPred(prog, e)]
  BY <1>1 DEF Required
<1>3. BodyPred(prog, d) \in S
  BY <1>1
<1>4. ASSUME NEW e \in Dependencies(prog), HeadPred(prog, e) \in S
      PROVE  BodyPred(prog, e) \in S
  BY <1>1, <1>2, <1>4
<1>5. HeadPred(prog, d) \in S
  <2> HIDE DEF S
  <2>1. S \in SUBSET Predicates(prog)
    BY DEF S
  <2> QED BY <1>3, <1>4, <2>1 DEF DependsOn
<1>6. lev[HeadPred(prog, d)] >= lev[BodyPred(prog, d)] + 1
  BY <1>1 DEF Required
<1> QED BY <1>1, <1>5, <1>6

(* A program is refused exactly when its recursion goes through negation   *)
(* or aggregation: never for the bound on the passes (RefusalIsExact of    *)
(* ProgramMeaning; stratifyProgram).                                       *)
THEOREM RefusalsAreExact == Spec => []RefusalIsExact
<1>1. Init => IInv /\ RefusalInv
  BY InitIInv, InitRefusal
<1>2. IInv /\ RefusalInv /\ [Next]_vars => IInv' /\ RefusalInv'
  BY StepIInv, NextRefusal
<1>3. IInv /\ RefusalInv => RefusalIsExact
  <2> SUFFICES ASSUME IInv, RefusalInv PROVE RefusalIsExact
    OBVIOUS
  <2>1. phase = "load" => ~StrictCycle(program)
    BY RespectedHasNoStrictCycle DEF IInv, AcceptedIsRespected, TypeOK
  <2> QED BY <2>1 DEF IInv, RefusalInv, RefusalIsExact
<1> QED BY <1>1, <1>2, <1>3, PTL DEF Spec

-----------------------------------------------------------------------------
(* What a rule derives, from a database and from a part of a model.        *)

(* Is f the consequence of a rule, from facts of S, with the negations and *)
(* the reductions read in I?                                               *)
Consequence(prog, I, S, f) ==
  \E c \in RulesOf(prog) :
    IF prog[c].type = "aggregate" THEN f \in Reductions(prog[c], I)
    ELSE \E u \in Solutions(prog[c].body, [g \in Positive(prog[c].body) |-> S], I) :
           f = HeadOf(prog[c], u)

(* A solution over S, with the negations read in I, gives its head.        *)
LEMMA StepHasHeads ==
  ASSUME NEW prog, NEW I, NEW S, S \subseteq I,
         NEW c \in RulesOf(prog), prog[c].type # "aggregate",
         NEW u \in Solutions(prog[c].body, [g \in Positive(prog[c].body) |-> S], I)
  PROVE  HeadOf(prog[c], u) \in NaiveStep(prog, I, S)
<1> DEFINE body == prog[c].body
           heads == {HeadOf(prog[c], v) :
                       v \in Solutions(body, [g \in Positive(body) |-> S], I \cup S)}
<1>1. I \cup S = I
  OBVIOUS
<1>2. HeadOf(prog[c], u) \in heads
  BY <1>1
<1> QED BY <1>2 DEF NaiveStep

(* An aggregate rule's reductions of I are in the step.                    *)
LEMMA StepHasReductions ==
  ASSUME NEW prog, NEW I, NEW S, NEW c \in RulesOf(prog), prog[c].type = "aggregate"
  PROVE  Reductions(prog[c], I) \subseteq NaiveStep(prog, I, S)
  BY DEF NaiveStep

(* ... and nothing else is.                                                *)
LEMMA StepHasNoMore ==
  ASSUME NEW prog, NEW I, NEW S, S \subseteq I, NEW f \in NaiveStep(prog, I, S)
  PROVE  Consequence(prog, I, S, f)
<1>1. I \cup S = I
  OBVIOUS
<1> QED BY <1>1 DEF NaiveStep, Consequence

(* More facts, more consequences.                                          *)
LEMMA StepGrows ==
  ASSUME NEW prog, NEW I, NEW S, NEW T, S \subseteq T, T \subseteq I
  PROVE  NaiveStep(prog, I, S) \subseteq NaiveStep(prog, I, T)
<1> SUFFICES ASSUME NEW f \in NaiveStep(prog, I, S) PROVE f \in NaiveStep(prog, I, T)
  OBVIOUS
<1>0. Consequence(prog, I, S, f)
  BY StepHasNoMore
<1>1. PICK c \in RulesOf(prog) :
        IF prog[c].type = "aggregate" THEN f \in Reductions(prog[c], I)
        ELSE \E u \in Solutions(prog[c].body,
                                [g \in Positive(prog[c].body) |-> S], I) :
               f = HeadOf(prog[c], u)
  BY <1>0 DEF Consequence
<1>2. CASE prog[c].type = "aggregate"
  BY <1>1, <1>2, StepHasReductions
<1>3. CASE prog[c].type # "aggregate"
  <2>1. PICK u \in Solutions(prog[c].body, [g \in Positive(prog[c].body) |-> S], I) :
          f = HeadOf(prog[c], u)
    BY <1>1, <1>3
  <2>2. u \in Solutions(prog[c].body, [g \in Positive(prog[c].body) |-> T], I)
    BY DEF Solutions
  <2> QED BY <1>3, <2>1, <2>2, StepHasHeads
<1> QED BY <1>2, <1>3

(* The facts of a model are of the program's relations.                    *)
LEMMA ModelPredicates ==
  ASSUME NEW prog, NEW M, IsModel(prog, M)
  PROVE  \A f \in M : f.pred \in Predicates(prog)
<1> DEFINE S == {f \in M : f.pred \in Predicates(prog)}
<1>1. FactsOf(prog) \subseteq S
  BY DEF IsModel, FactsOf, Fact, Predicates
<1>2. ASSUME NEW f \in NaiveStep(prog, M, S) PROVE f \in S
  <2>1. f \in M
    BY <1>2, StepGrows DEF IsModel
  <2>2. Consequence(prog, M, S, f)
    BY <1>2, StepHasNoMore
  <2>3. PICK c \in RulesOf(prog) :
          \/ f \in Reductions(prog[c], M)
          \/ \E u : f = HeadOf(prog[c], u)
    <3> HIDE DEF S
    <3> QED BY <2>2 DEF Consequence
  <2>4. f.pred = prog[c].head.pred
    <3>1. CASE f \in Reductions(prog[c], M)
      BY <3>1 DEF Reductions, ReducedFact, Fact
    <3>2. CASE \E u : f = HeadOf(prog[c], u)
      BY <3>2 DEF HeadOf, Fact
    <3> QED BY <2>3, <3>1, <3>2
  <2> QED BY <2>1, <2>4, RulesHaveHeads
<1>3. S = M
  BY <1>1, <1>2 DEF IsModel
<1> QED BY <1>3

(* E adds to D facts of stratum l or higher only.                          *)
AddsAbove(prog, lev, l, D, E) ==
  /\ D \subseteq E
  /\ \A f \in E \ D : f.pred \in Predicates(prog) /\ lev[f.pred] >= l

(* A rule of a stratum up to l reads the same in E as in D, when E adds    *)
(* facts of stratum l or higher only: its negations and its aggregation    *)
(* are over lower strata.                                                  *)
LEMMA RulesReadTheSame ==
  ASSUME NEW prog, NEW lev \in [Predicates(prog) -> Nat], Respects(prog, lev),
         NEW l \in Nat, NEW D, NEW E, AddsAbove(prog, lev, l, D, E),
         NEW c \in RulesOf(prog), lev[prog[c].head.pred] <= l
  PROVE  /\ prog[c].type = "aggregate" => Reductions(prog[c], E) = Reductions(prog[c], D)
         /\ AllSolutions(prog[c].body, D) \subseteq AllSolutions(prog[c].body, E)
<1> DEFINE body == prog[c].body
<1>0. /\ D \subseteq E
      /\ \A f \in E \ D : f.pred \in Predicates(prog) /\ lev[f.pred] >= l
  BY DEF AddsAbove
<1>1. lev[prog[c].head.pred] \in Nat
  BY RulesHaveHeads
<1>2. ASSUME NEW g \in Relational(body),
             body[g].type = "negation" \/ prog[c].type = "aggregate",
             NEW f \in E \ D
      PROVE  f.pred # body[g].pred
  <2>1. lev[body[g].pred] < lev[prog[c].head.pred] /\ lev[body[g].pred] \in Nat
    BY <1>2, RulesReadBelow, GoalsAreDependencies
  <2>2. lev[f.pred] >= l /\ lev[f.pred] \in Nat
    BY <1>0, <1>2
  <2> QED BY <1>1, <2>1, <2>2
<1>3. ASSUME prog[c].type = "aggregate"
      PROVE  Reductions(prog[c], E) = Reductions(prog[c], D)
  <2>1. AllSolutions(body, E) = AllSolutions(body, D)
    BY <1>0, <1>2, <1>3, SolutionsStay
  <2> QED BY <2>1 DEF Reductions
<1>4. ASSUME NEW u \in AllSolutions(body, D) PROVE u \in AllSolutions(body, E)
  <2>1. u \in [Positive(body) -> E]
    BY <1>0, <1>4 DEF AllSolutions, Solutions
  <2>2. ASSUME NEW g \in DOMAIN body, NEW env, g \notin Positive(body),
               GoalHolds(body[g], env, D)
        PROVE  GoalHolds(body[g], env, E)
    <3>1. CASE body[g].type = "negation"
      <4>1. g \in Relational(body) BY <3>1 DEF Relational
      <4>2. \A f \in E \ D : f.pred # body[g].pred
        BY <1>2, <3>1, <4>1
      <4> QED BY <2>2, <3>1, <4>2 DEF GoalHolds, Matches
    <3>2. CASE body[g].type # "negation"
      BY <2>2, <3>2 DEF GoalHolds
    <3> QED BY <3>1, <3>2
  <2> QED BY <1>4, <2>1, <2>2 DEF AllSolutions, Solutions
<1> QED BY <1>3, <1>4

(* D has what the rules of the strata up to l derive from it.              *)
ClosedUpTo(prog, lev, l, D) ==
  \A c \in RulesOf(prog) : lev[prog[c].head.pred] <= l =>
    IF prog[c].type = "aggregate" THEN Reductions(prog[c], D) \subseteq D
    ELSE \A u \in AllSolutions(prog[c].body, D) : HeadOf(prog[c], u) \in D

(* A part of a model that has the model's facts of the strata below l, and *)
(* is closed under the rules up to l, has the model's facts of stratum l.  *)
LEMMA StratumIsComplete ==
  ASSUME NEW prog, NEW lev \in [Predicates(prog) -> Nat], Respects(prog, lev),
         NEW M, IsModel(prog, M), NEW D \in SUBSET M, FactsOf(prog) \subseteq D,
         NEW l \in Nat, \A f \in M : lev[f.pred] < l => f \in D,
         ClosedUpTo(prog, lev, l, D)
  PROVE  \A f \in M : lev[f.pred] <= l => f \in D
<1> DEFINE S == {f \in M : lev[f.pred] > l \/ f \in D}
<1>1. \A f \in M : f.pred \in Predicates(prog) /\ lev[f.pred] \in Nat
  BY ModelPredicates
<1>2. AddsAbove(prog, lev, l, D, M)
  BY <1>1 DEF AddsAbove
<1>3. FactsOf(prog) \subseteq S
  OBVIOUS
<1>4. ASSUME NEW f \in NaiveStep(prog, M, S) PROVE f \in S
  <2>1. f \in M
    BY <1>4, StepGrows DEF IsModel
  <2>2. Consequence(prog, M, S, f)
    BY <1>4, StepHasNoMore
  <2> SUFFICES ASSUME ~(lev[f.pred] > l) PROVE f \in D
    BY <2>1
  <2>3. PICK c \in RulesOf(prog) :
          IF prog[c].type = "aggregate" THEN f \in Reductions(prog[c], M)
          ELSE \E u \in Solutions(prog[c].body,
                                  [g \in Positive(prog[c].body) |-> S], M) :
                 f = HeadOf(prog[c], u)
    <3> HIDE DEF S
    <3> QED BY <2>2 DEF Consequence
  <2>4. CASE prog[c].type = "aggregate"
    <3>1. f.pred = prog[c].head.pred
      BY <2>3, <2>4 DEF Reductions, ReducedFact, Fact
    <3>2. lev[prog[c].head.pred] <= l
      BY <1>1, <2>1, <3>1
    <3>3. Reductions(prog[c], M) = Reductions(prog[c], D)
      BY <1>2, <2>4, <3>2, RulesReadTheSame
    <3> QED BY <2>3, <2>4, <3>2, <3>3 DEF ClosedUpTo
  <2>5. CASE prog[c].type # "aggregate"
    <3> DEFINE body == prog[c].body
    <3>1. PICK u \in Solutions(body, [g \in Positive(body) |-> S], M) :
            f = HeadOf(prog[c], u)
      BY <2>3, <2>5
    <3>2. f.pred = prog[c].head.pred
      BY <3>1 DEF HeadOf, Fact
    <3>3. lev[prog[c].head.pred] <= l /\ lev[prog[c].head.pred] \in Nat
      BY <1>1, <2>1, <3>2
    <3>4. u \in AllSolutions(body, M)
      BY <3>1 DEF AllSolutions, Solutions
    <3>5. ASSUME NEW g \in Positive(body) PROVE u[g] \in D
      <4>1. u[g] \in S /\ u[g].pred = body[g].pred
        BY <3>1 DEF Solutions
      <4>2. g \in Relational(body)
        BY DEF Positive, Relational
      <4>3. /\ lev[body[g].pred] <= lev[prog[c].head.pred]
            /\ lev[body[g].pred] \in Nat
        BY <4>2, RulesReadBelow, GoalsAreDependencies
      <4>4. ~(lev[u[g].pred] > l)
        BY <3>3, <4>1, <4>3
      <4> QED BY <4>1, <4>4
    <3>6. u \in AllSolutions(body, D)
      BY <3>4, <3>5, SolutionsShrink
    <3> QED BY <2>5, <3>1, <3>3, <3>6 DEF ClosedUpTo
  <2> QED BY <2>4, <2>5
<1>5. S = M
  <2>1. NaiveStep(prog, M, S) \subseteq S /\ S \in SUBSET M
    BY <1>4
  <2> HIDE DEF S
  <2> QED BY <1>3, <2>1 DEF IsModel
<1> QED BY <1>1, <1>5

-----------------------------------------------------------------------------
(* A database is built of what every model has, one supported fact after   *)
(* another.                                                                *)

(* The rule and the solution behind a derived fact still hold.             *)
Derived(f) ==
  \E c \in RulesOf(program) :
    /\ program[c].head.pred = f.pred /\ strata[f.pred] <= level
    /\ IF program[c].type = "aggregate" THEN f \in Reductions(program[c], db)
       ELSE \E u \in AllSolutions(program[c].body, db) :
              /\ f = HeadOf(program[c], u)
              /\ \A g \in Positive(program[c].body) : u[g] \in support[f].uses

SupportsHold ==
  Evaluating => \A f \in db : f \in FactsOf(program) \/ Derived(f)

GivenKept ==
  Evaluating /\ phase # "too_many_facts" => FactsOf(program) \subseteq db

(* What is in the database is in every model, and what a model has below   *)
(* the current stratum is in the database.                                 *)
InEveryModel ==
  Evaluating => \A M : IsModel(program, M) =>
                  /\ db \subseteq M
                  /\ \A f \in M : strata[f.pred] < level => f \in db

BoundExceeded ==
  phase = "too_many_facts" =>
    \/ Cardinality(FactsOf(program)) > MaxFacts
    \/ Cardinality(db) > MaxFacts

AnswerIsOfDatabase ==
  phase = "answered" =>
    LET q    == answer.query
        rows == AllSolutions(q.body, db)
    IN  IF q.reduce = None
        THEN /\ answer.rows \subseteq Rows(q, db)
             /\ Cardinality(answer.rows) < MaxRows => answer.rows = Rows(q, db)
        ELSE \A row \in answer.rows : row[q.reduce.as] = Reduce(q, rows)

MInv == /\ SupportsHold
        /\ ProofsAreWellFounded
        /\ GivenKept
        /\ InEveryModel
        /\ BoundExceeded
        /\ IsFiniteSet(db)
        /\ AnswerIsOfDatabase

(* A set of facts without one that uses none of it would be a cycle of     *)
(* proofs: new facts that use old ones alone add none.                     *)
LEMMA ProofsGrow ==
  ASSUME ProofsAreWellFounded, NEW new, db' = db \cup new,
         \A f \in db : support'[f] = support[f],
         \A f \in new \ db : support'[f].uses \subseteq db
  PROVE  ProofsAreWellFounded'
<1>1. \A f \in db : support[f].uses \subseteq db
  BY DEF ProofsAreWellFounded
<1>2. \A f \in db' : support'[f].uses \subseteq db
  BY <1>1
<1>3. ASSUME NEW S \in SUBSET {f \in db' : support'[f].uses # {}}, S # {}
      PROVE  \E f \in S : support'[f].uses \cap S = {}
  <2> DEFINE T == S \cap db
  <2>1. CASE T = {}
    BY <1>2, <1>3, <2>1
  <2>2. CASE T # {}
    <3>1. T \in SUBSET {f \in db : support[f].uses # {}}
      BY <1>3
    <3>2. PICK f \in T : support[f].uses \cap T = {}
      BY <2>2, <3>1 DEF ProofsAreWellFounded
    <3>3. support'[f].uses \subseteq db /\ support'[f] = support[f]
      BY <1>2
    <3> QED BY <3>2, <3>3
  <2> QED BY <2>1, <2>2
<1> QED BY <1>2, <1>3 DEF ProofsAreWellFounded

(* A fact that a rule of the current stratum derives from the database.    *)
DerivedNow(f, uses) ==
  \E c \in RulesAt(level) :
    IF program[c].type = "aggregate" THEN f \in Reductions(program[c], db)
    ELSE \E u \in AllSolutions(program[c].body, db) :
           /\ f = HeadOf(program[c], u)
           /\ \A g \in Positive(program[c].body) : u[g] \in uses

(* Adding such facts.                                                      *)
LEMMA GrowthKeeps ==
  ASSUME IInv, MInv, phase = "pass", Evaluating',
         UNCHANGED <<program, stratifyVars, level>>,
         NEW new, IsFiniteSet(new), db' = db \cup new,
         \A f \in db : support'[f] = support[f],
         \A f \in new : strata[f.pred] = level,
         \A f \in new \ db : /\ support'[f].uses \subseteq db
                             /\ DerivedNow(f, support'[f].uses)
  PROVE  /\ SupportsHold' /\ ProofsAreWellFounded' /\ GivenKept'
         /\ InEveryModel' /\ IsFiniteSet(db')
<1> USE DEF stratifyVars
<1>1. /\ strata \in [Predicates(program) -> Nat] /\ Respects(program, strata)
      /\ level \in Nat /\ Evaluating /\ phase # "too_many_facts"
      /\ \A f \in db : f.pred \in Predicates(program)
  BY DEF IInv, TypeOK, AcceptedIsRespected, Evaluating
<1>2. ASSUME NEW f \in new \ db
      PROVE  \E c \in RulesOf(program) :
               /\ program[c].head.pred = f.pred
               /\ IF program[c].type = "aggregate" THEN f \in Reductions(program[c], db)
                  ELSE \E u \in AllSolutions(program[c].body, db) :
                         /\ f = HeadOf(program[c], u)
                         /\ \A g \in Positive(program[c].body) :
                              u[g] \in support'[f].uses
  <2>1. PICK c \in RulesAt(level) :
          IF program[c].type = "aggregate" THEN f \in Reductions(program[c], db)
          ELSE \E u \in AllSolutions(program[c].body, db) :
                 /\ f = HeadOf(program[c], u)
                 /\ \A g \in Positive(program[c].body) : u[g] \in support'[f].uses
    BY DEF DerivedNow
  <2>2. program[c].head.pred = f.pred
    <3>1. CASE program[c].type = "aggregate"
      BY <2>1, <3>1 DEF Reductions, ReducedFact, Fact
    <3>2. CASE program[c].type # "aggregate"
      BY <2>1, <3>2 DEF HeadOf, Fact
    <3> QED BY <3>1, <3>2
  <2>3. c \in RulesOf(program)
    BY DEF RulesAt
  <2> QED BY <2>1, <2>2, <2>3
<1>3. \A f \in new \ db : f.pred \in Predicates(program) /\ strata[f.pred] = level
  BY <1>2, RulesHaveHeads
<1>4. AddsAbove(program, strata, level, db, db')
  BY <1>1, <1>3 DEF AddsAbove
<1>5. ASSUME NEW c \in RulesOf(program), strata[program[c].head.pred] <= level
      PROVE  /\ program[c].type = "aggregate" =>
                  Reductions(program[c], db') = Reductions(program[c], db)
             /\ AllSolutions(program[c].body, db) \subseteq
                  AllSolutions(program[c].body, db')
  <2>1. PICK E : E = db'
    OBVIOUS
  <2>2. AddsAbove(program, strata, level, db, E)
    BY <1>4, <2>1
  <2>3. /\ program[c].type = "aggregate" =>
             Reductions(program[c], E) = Reductions(program[c], db)
        /\ AllSolutions(program[c].body, db) \subseteq AllSolutions(program[c].body, E)
    BY <1>1, <1>5, <2>2, RulesReadTheSame
  <2> QED BY <2>1, <2>3
<1>6. SupportsHold'
  <2>1. SUFFICES ASSUME NEW f \in db', f \notin FactsOf(program)
                 PROVE  Derived(f)'
    BY DEF SupportsHold
  <2>2. \E c \in RulesOf(program) :
          /\ program[c].head.pred = f.pred /\ strata[f.pred] <= level
          /\ IF program[c].type = "aggregate" THEN f \in Reductions(program[c], db)
             ELSE \E u \in AllSolutions(program[c].body, db) :
                    /\ f = HeadOf(program[c], u)
                    /\ \A g \in Positive(program[c].body) : u[g] \in support'[f].uses
    <3>1. CASE f \in db
      <4>1. Derived(f)
        BY <1>1, <2>1, <3>1 DEF MInv, SupportsHold
      <4>2. support'[f] = support[f]
        BY <3>1
      <4> QED BY <4>1, <4>2 DEF Derived
    <3>2. CASE f \notin db
      <4>1. f \in new \ db /\ strata[f.pred] <= level
        BY <1>1, <1>3, <3>2
      <4> QED BY <1>2, <4>1
    <3> QED BY <3>1, <3>2
  <2>3. PICK c \in RulesOf(program) :
          /\ program[c].head.pred = f.pred /\ strata[f.pred] <= level
          /\ IF program[c].type = "aggregate" THEN f \in Reductions(program[c], db)
             ELSE \E u \in AllSolutions(program[c].body, db) :
                    /\ f = HeadOf(program[c], u)
                    /\ \A g \in Positive(program[c].body) : u[g] \in support'[f].uses
    BY <2>2
  <2>4. /\ program[c].type = "aggregate" =>
             Reductions(program[c], db') = Reductions(program[c], db)
        /\ AllSolutions(program[c].body, db) \subseteq AllSolutions(program[c].body, db')
    BY <1>5, <2>3
  <2> QED BY <2>3, <2>4 DEF Derived
<1>7. ProofsAreWellFounded'
  BY ProofsGrow DEF MInv
<1>8. GivenKept'
  BY <1>1 DEF MInv, GivenKept
<1>9. InEveryModel'
  <2>1. SUFFICES ASSUME NEW M, IsModel(program, M)
                 PROVE  /\ db' \subseteq M
                        /\ \A f \in M : strata[f.pred] < level => f \in db'
    BY DEF InEveryModel
  <2>2. db \subseteq M /\ \A f \in M : strata[f.pred] < level => f \in db
    BY <1>1, <2>1 DEF MInv, InEveryModel
  <2>3. \A f \in M : f.pred \in Predicates(program) /\ strata[f.pred] \in Nat
    BY <1>1, <2>1, ModelPredicates
  <2>4. AddsAbove(program, strata, level, db, M)
    BY <1>1, <2>2, <2>3 DEF AddsAbove
  <2>5. ASSUME NEW f \in new \ db PROVE f \in M
    <3>1. PICK c \in RulesOf(program) :
            /\ program[c].head.pred = f.pred
            /\ IF program[c].type = "aggregate" THEN f \in Reductions(program[c], db)
               ELSE \E u \in AllSolutions(program[c].body, db) : f = HeadOf(program[c], u)
      BY <1>2
    <3>2. strata[program[c].head.pred] <= level
      BY <1>1, <1>3, <3>1
    <3>3. /\ program[c].type = "aggregate" =>
               Reductions(program[c], M) = Reductions(program[c], db)
          /\ AllSolutions(program[c].body, db) \subseteq AllSolutions(program[c].body, M)
      BY <1>1, <2>4, <3>2, RulesReadTheSame
    <3>4. f \in NaiveStep(program, M, M)
      <4>1. CASE program[c].type = "aggregate"
        BY <3>1, <3>3, <4>1, StepHasReductions
      <4>2. CASE program[c].type # "aggregate"
        <5>1. PICK u \in AllSolutions(program[c].body, M) : f = HeadOf(program[c], u)
          BY <3>1, <3>3, <4>2
        <5> QED BY <4>2, <5>1, StepHasHeads DEF AllSolutions
      <4> QED BY <4>1, <4>2
    <3> QED BY <2>1, <3>4 DEF IsModel
  <2> QED BY <2>2, <2>5
<1>10. IsFiniteSet(db')
  BY FS_Union DEF MInv
<1> QED BY <1>6, <1>7, <1>8, <1>9, <1>10

(* A body has finitely many solutions over a finite database ...           *)
LEMMA FiniteSolutions ==
  ASSUME NEW body, Len(body) \in Nat, DOMAIN body = 1..Len(body),
         NEW D, IsFiniteSet(D)
  PROVE  IsFiniteSet(AllSolutions(body, D))
<1>1. IsFiniteSet(Positive(body))
  <2> DEFINE len == Len(body)
  <2>1. len \in Nat /\ DOMAIN body = 1..len
    OBVIOUS
  <2> HIDE DEF len
  <2>2. IsFiniteSet(1..len)
    BY <2>1, FS_Interval
  <2>3. Positive(body) \subseteq 1..len
    BY <2>1 DEF Positive
  <2> QED BY <2>2, <2>3, FS_Subset
<1>2. IsFiniteSet([Positive(body) -> D])
  BY <1>1, FiniteFunctions
<1>3. AllSolutions(body, D) \subseteq [Positive(body) -> D]
  BY DEF AllSolutions, Solutions
<1> QED BY <1>2, <1>3, FS_Subset

(* ... and an aggregate rule finitely many reductions.                     *)
LEMMA FiniteReductions ==
  ASSUME NEW c, NEW D, IsFiniteSet(AllSolutions(c.body, D))
  PROVE  IsFiniteSet(Reductions(c, D))
<1> DEFINE rows  == AllSolutions(c.body, D)
           group == [u \in rows |-> GroupOf(c, u)]
           fixed == Groups(c, rows) \ {group[u] : u \in rows}
           fact  == [g \in Reducible(c, rows) |-> ReducedFact(c, rows, g)]
<1>1. IsFiniteSet({group[u] : u \in rows})
  <2> HIDE DEF group
  <2> QED BY FiniteImage
<1> DEFINE only == [k \in DOMAIN c.head.args \ {OutputPosition(c)} |->
                      c.head.args[k].value]
<1>2. fixed \subseteq {only}
  BY DEF Groups
<1>3. IsFiniteSet(fixed)
  <2> HIDE DEF fixed, only
  <2>1. IsFiniteSet({only})
    BY FS_Singleton
  <2> QED BY <1>2, <2>1, FS_Subset
<1>4. Groups(c, rows) \subseteq fixed \cup {group[u] : u \in rows}
  OBVIOUS
<1>5. IsFiniteSet(Reducible(c, rows))
  <2>1. IsFiniteSet(fixed \cup {group[u] : u \in rows})
    <3> HIDE DEF fixed, group, rows
    <3> QED BY <1>1, <1>3, FS_Union
  <2>2. Reducible(c, rows) \subseteq fixed \cup {group[u] : u \in rows}
    BY <1>4 DEF Reducible
  <2> HIDE DEF fixed, group, rows
  <2> QED BY <2>1, <2>2, FS_Subset
<1>6. Reductions(c, D) = {fact[g] : g \in Reducible(c, rows)}
  BY DEF Reductions
<1>7. IsFiniteSet({fact[g] : g \in Reducible(c, rows)})
  <2> HIDE DEF fact, rows
  <2> QED BY <1>5, FiniteImage
<1> QED BY <1>6, <1>7

LEMMA FiniteFacts ==
  ASSUME NEW prog \in Programs
  PROVE  IsFiniteSet(FactsOf(prog))
<1> DEFINE len  == Len(prog)
           C    == Ordinary(prog) \ RulesOf(prog)
           fact == [c \in C |-> Fact(prog[c].head.pred,
                      [k \in DOMAIN prog[c].head.args |-> prog[c].head.args[k].value])]
<1>1. len \in Nat /\ DOMAIN prog = 1..len
  BY ProgramsAssumption
<1>2. C \subseteq 1..len
  BY <1>1 DEF Ordinary
<1>3. IsFiniteSet(C)
  <2> HIDE DEF len, C
  <2>1. IsFiniteSet(1..len)
    BY <1>1, FS_Interval
  <2> QED BY <1>2, <2>1, FS_Subset
<1>4. FactsOf(prog) = {fact[c] : c \in C}
  BY DEF FactsOf
<1> HIDE DEF C, fact
<1> QED BY <1>3, <1>4, FiniteImage

-----------------------------------------------------------------------------
(* The steps                                                               *)

LEMMA InitMInv == Init => MInv
<1> SUFFICES ASSUME Init PROVE MInv
  OBVIOUS
<1>1. phase = "stratify" /\ db = {}
  BY DEF Init, StratifyInit, db
<1>2. SupportsHold /\ ProofsAreWellFounded /\ GivenKept /\ InEveryModel
      /\ BoundExceeded /\ AnswerIsOfDatabase
  BY <1>1 DEF SupportsHold, ProofsAreWellFounded, GivenKept, InEveryModel,
              BoundExceeded, AnswerIsOfDatabase, Evaluating
<1>3. IsFiniteSet(db)
  BY <1>1, FS_EmptySet
<1> QED BY <1>2, <1>3 DEF MInv

LEMMA StratifyMInv ==
  ASSUME IInv, MInv, Stratify
  PROVE  MInv'
<1>1. /\ phase = "stratify" /\ phase' \in {"stratify", "refused", "load"}
      /\ UNCHANGED <<program, support>>
  BY DEF Stratify, Relax, NextPass, Stratified, evaluateVars
<1>2. db' = db
  BY <1>1 DEF db
<1>3. ProofsAreWellFounded' /\ IsFiniteSet(db')
  BY <1>1, <1>2 DEF MInv, ProofsAreWellFounded
<1>4. SupportsHold' /\ GivenKept' /\ InEveryModel' /\ BoundExceeded' /\ AnswerIsOfDatabase'
  BY <1>1 DEF SupportsHold, GivenKept, InEveryModel, BoundExceeded,
              AnswerIsOfDatabase, Evaluating
<1> QED BY <1>3, <1>4 DEF MInv

LEMMA LoadMInv ==
  ASSUME IInv, MInv, LoadFacts
  PROVE  MInv'
<1> USE DEF stratifyVars
<1>1. /\ phase = "load" /\ ~Evaluating /\ program' = program /\ level' = level
      /\ strata' = strata
  BY DEF LoadFacts, Evaluating
<1>2. db = {} /\ level = 0 /\ strata \in [Predicates(program) -> Nat]
  BY <1>1 DEF IInv, NothingYet, TypeOK
<1>3. \/ /\ phase' = "too_many_facts" /\ db' = {}
         /\ Cardinality(FactsOf(program)) > MaxFacts
      \/ /\ phase' = "stratum" /\ db' = FactsOf(program)
         /\ \A f \in db' : support'[f] = Given
  BY <1>2 DEF LoadFacts, db
<1>4. db' \subseteq FactsOf(program)
  BY <1>3
<1>5. IsFiniteSet(db')
  <2>1. IsFiniteSet(FactsOf(program))
    BY FiniteFacts DEF IInv, TypeOK
  <2> QED BY <1>4, <2>1, FS_Subset
<1>6. SupportsHold'
  BY <1>1, <1>4 DEF SupportsHold
<1>7. GivenKept' /\ BoundExceeded' /\ AnswerIsOfDatabase'
  BY <1>1, <1>3 DEF GivenKept, BoundExceeded, AnswerIsOfDatabase
<1>8. ProofsAreWellFounded'
  BY <1>3 DEF ProofsAreWellFounded, Given
<1>9. InEveryModel'
  <2>1. SUFFICES ASSUME NEW M, IsModel(program, M)
                 PROVE  /\ db' \subseteq M
                        /\ \A f \in M : strata[f.pred] < level => f \in db'
    BY <1>1 DEF InEveryModel
  <2>2. db' \subseteq M
    BY <1>4, <2>1 DEF IsModel
  <2>3. \A f \in M : strata[f.pred] \in Nat
    BY <1>2, <2>1, ModelPredicates
  <2> QED BY <1>2, <2>2, <2>3
<1> QED BY <1>5, <1>6, <1>7, <1>8, <1>9 DEF MInv

(* A step that adds nothing, and raises the current stratum only when its  *)
(* rules are closed.                                                       *)
LEMMA QuietMInv ==
  ASSUME IInv, IInv', MInv, Evaluating, Evaluating',
         UNCHANGED <<program, stratifyVars, support>>,
         phase # "too_many_facts", phase' \notin {"too_many_facts", "answered"},
         level' = level \/ level' = level + 1
  PROVE  MInv'
<1> USE DEF stratifyVars
<1>1. db' = db
  BY DEF db
<1>2. /\ strata \in [Predicates(program) -> Nat] /\ Respects(program, strata)
      /\ level \in Nat /\ level' \in Nat /\ \A f \in db : strata[f.pred] \in Nat
  BY DEF IInv, TypeOK, AcceptedIsRespected, Evaluating
<1>3. SupportsHold'
  <2>1. SUFFICES ASSUME NEW f \in db, f \notin FactsOf(program)
                 PROVE  Derived(f)'
    BY <1>1 DEF SupportsHold
  <2>2. Derived(f)
    BY <2>1 DEF MInv, SupportsHold
  <2>3. strata[f.pred] <= level => strata[f.pred] <= level'
    BY <1>2
  <2> QED BY <1>1, <2>2, <2>3 DEF Derived
<1>4. ProofsAreWellFounded' /\ GivenKept' /\ BoundExceeded' /\ IsFiniteSet(db')
      /\ AnswerIsOfDatabase'
  BY <1>1 DEF MInv, ProofsAreWellFounded, GivenKept, BoundExceeded, AnswerIsOfDatabase
<1>5. InEveryModel'
  <2>1. SUFFICES ASSUME NEW M, IsModel(program, M)
                 PROVE  /\ db \subseteq M
                        /\ \A f \in M : strata[f.pred] < level' => f \in db
    BY <1>1 DEF InEveryModel
  <2>2. db \subseteq M /\ \A f \in M : strata[f.pred] < level => f \in db
    BY <2>1 DEF MInv, InEveryModel
  <2>3. CASE level' = level
    BY <2>2, <2>3
  <2>4. CASE level' = level + 1
    <3>1. \A f \in M : strata[f.pred] \in Nat
      BY <1>2, <2>1, ModelPredicates
    <3>2. ASSUME NEW c \in RulesOf(program), strata[program[c].head.pred] <= level
          PROVE  Closed(c, db)
      <4>1. strata[program[c].head.pred] < level'
        BY <1>2, <2>4, <3>2, RulesHaveHeads
      <4> QED BY <1>1, <4>1 DEF IInv, LowerIsClosed, Closed
    <3>3. FactsOf(program) \subseteq db
      BY DEF MInv, GivenKept
    <3>4. \A f \in M : strata[f.pred] <= level => f \in db
      <4>1. ClosedUpTo(program, strata, level, db)
        BY <3>2 DEF ClosedUpTo, Closed
      <4> QED BY <1>2, <2>1, <2>2, <3>3, <4>1, StratumIsComplete
    <3> QED BY <1>2, <2>2, <2>4, <3>1, <3>4
  <2> QED BY <2>3, <2>4
<1> QED BY <1>3, <1>4, <1>5 DEF MInv

LEMMA DeriveMInv ==
  ASSUME IInv, MInv, NEW p \in todo, Derive(p)
  PROVE  MInv'
<1> DEFINE c == program[p[1]]
<1>1. PICK u \in PassSolutions(p, db) :
        Add([f \in {HeadOf(c, u)} |->
               [clause |-> p[1],
                uses   |-> {u[g] : g \in DOMAIN u},
                absent |-> AbsencesOf(c, u)]])
  BY DEF Derive
<1> DEFINE head == HeadOf(c, u)
<1>2. /\ phase = "pass" /\ c.type # "aggregate"
      /\ UNCHANGED <<program, stratifyVars, level>>
  BY DEF Derive, IsAggregate
<1>3. p[1] \in RulesAt(level)
  BY DEF IInv, TypeOK, Passes, PassesOf
<1>4. /\ db' = db \cup {head}
      /\ phase' = IF Cardinality(db') > MaxFacts THEN "too_many_facts" ELSE phase
      /\ \A f \in db : support'[f] = support[f]
      /\ \A f \in {head} \ db : support'[f].uses = {u[g] : g \in DOMAIN u}
  BY <1>1 DEF Add, db
<1>5. u \in AllSolutions(c.body, db) /\ u \in [Positive(c.body) -> db]
  <2>1. IsFirst(p, todo)
    BY DEF Derive
  <2>2. DeltaIn(db) \subseteq db
    BY DEF DeltaIn, IInv, TypeOK
  <2> QED BY <2>2 DEF PassSolutions, Solutions, AllSolutions
<1>6. strata[head.pred] = level
  BY <1>3 DEF RulesAt, HeadOf, Fact
<1>7. \A f \in {head} \ db : support'[f].uses \subseteq db
                             /\ DerivedNow(f, support'[f].uses)
  <2> SUFFICES ASSUME head \notin db
               PROVE  support'[head].uses \subseteq db
                      /\ DerivedNow(head, support'[head].uses)
    OBVIOUS
  <2>1. support'[head].uses = {u[g] : g \in Positive(c.body)}
    BY <1>4, <1>5
  <2>2. DerivedNow(head, {u[g] : g \in Positive(c.body)})
    BY <1>2, <1>3, <1>5 DEF DerivedNow
  <2> QED BY <1>5, <2>1, <2>2
<1>8. IsFiniteSet({head})
  BY FS_Singleton
<1>9. Evaluating' /\ phase' # "answered"
  BY <1>2, <1>4 DEF Evaluating
<1>10. /\ SupportsHold' /\ ProofsAreWellFounded' /\ GivenKept'
       /\ InEveryModel' /\ IsFiniteSet(db')
  <2> HIDE DEF head
  <2> QED BY <1>2, <1>4, <1>6, <1>7, <1>8, <1>9, GrowthKeeps
<1>11. BoundExceeded' /\ AnswerIsOfDatabase'
  BY <1>2, <1>4, <1>9 DEF BoundExceeded, AnswerIsOfDatabase
<1> QED BY <1>10, <1>11 DEF MInv

LEMMA DeriveAggregateMInv ==
  ASSUME IInv, IInv', MInv, NEW p \in todo, DeriveAggregate(p)
  PROVE  MInv'
<1> DEFINE c    == program[p[1]]
           rows == AllSolutions(c.body, db)
           Why(f) ==
             LET group == CHOOSE group \in Reducible(c, rows) :
                            f = ReducedFact(c, rows, group)
                 used  == InGroup(c, rows, group)
             IN  [clause |-> p[1],
                  uses   |-> UNION {{u[g] : g \in DOMAIN u} : u \in used},
                  absent |-> UNION {AbsencesOf(c, u) : u \in used}]
<1>1. /\ phase = "pass" /\ c.type = "aggregate"
      /\ UNCHANGED <<program, stratifyVars, level>>
      /\ IF Cardinality(rows) > MaxAggregateRows
         THEN phase' = "too_many_rows" /\ UNCHANGED <<support, fresh>>
         ELSE Add([f \in Reductions(c, db) |-> Why(f)])
  BY DEF DeriveAggregate, IsAggregate
<1>2. CASE Cardinality(rows) > MaxAggregateRows
  <2>1. Evaluating /\ Evaluating' /\ phase' = "too_many_rows" /\ UNCHANGED support
    BY <1>1, <1>2 DEF Evaluating
  <2> QED BY <1>1, <2>1, QuietMInv
<1>3. CASE ~(Cardinality(rows) > MaxAggregateRows)
  <2> DEFINE new == Reductions(c, db)
  <2>1. /\ db' = db \cup new
        /\ phase' = IF Cardinality(db') > MaxFacts THEN "too_many_facts" ELSE phase
        /\ \A f \in db : support'[f] = support[f]
        /\ \A f \in new \ db : support'[f] = Why(f)
    BY <1>1, <1>3, Zenon DEF Add, db
  <2>2. p[1] \in RulesAt(level)
    BY DEF IInv, TypeOK, Passes, PassesOf
  <2>3. \A f \in new : strata[f.pred] = level
    BY <2>2 DEF RulesAt, Reductions, ReducedFact, Fact
  <2>4. \A u \in rows : u \in [Positive(c.body) -> db]
    BY DEF AllSolutions, Solutions
  <2>5. ASSUME NEW f \in new \ db PROVE Why(f).uses \subseteq db
    <3> DEFINE used == InGroup(c, rows, CHOOSE group \in Reducible(c, rows) :
                                          f = ReducedFact(c, rows, group))
    <3>1. Why(f).uses = UNION {{u[g] : g \in DOMAIN u} : u \in used}
      OBVIOUS
    <3>2. used \subseteq rows
      BY DEF InGroup
    <3>3. \A u \in used : {u[g] : g \in DOMAIN u} \subseteq db
      BY <2>4, <3>2
    <3> HIDE DEF used, rows, Why
    <3> QED BY <3>1, <3>3
  <2>6. \A f \in new \ db : support'[f].uses \subseteq db
                            /\ DerivedNow(f, support'[f].uses)
    BY <1>1, <2>1, <2>2, <2>5 DEF DerivedNow
  <2>7. IsFiniteSet(new)
    <3>1. p[1] \in DOMAIN program /\ program \in Programs
      BY <2>2 DEF RulesAt, RulesOf, Ordinary, IInv, TypeOK
    <3>2. Len(c.body) \in Nat /\ DOMAIN c.body = 1..Len(c.body)
      BY <3>1, ProgramsAssumption
    <3>3. IsFiniteSet(db)
      BY DEF MInv
    <3>4. IsFiniteSet(AllSolutions(c.body, db))
      BY <3>2, <3>3, FiniteSolutions
    <3> HIDE DEF c
    <3> QED BY <3>4, FiniteReductions
  <2>8. Evaluating' /\ phase' # "answered"
    BY <1>1, <2>1 DEF Evaluating
  <2>9. /\ SupportsHold' /\ ProofsAreWellFounded' /\ GivenKept'
        /\ InEveryModel' /\ IsFiniteSet(db')
    <3> HIDE DEF new
    <3> QED BY <1>1, <2>1, <2>3, <2>6, <2>7, <2>8, GrowthKeeps
  <2>10. BoundExceeded' /\ AnswerIsOfDatabase'
    BY <1>1, <2>1, <2>8 DEF BoundExceeded, AnswerIsOfDatabase
  <2> QED BY <2>9, <2>10 DEF MInv
<1> QED BY <1>2, <1>3

(* A row list cut at MaxRows, or all of the rows.                          *)
LEMMA CutOrAll ==
  ASSUME NEW all, IsFiniteSet(all), NEW rows \in SUBSET all,
         Cardinality(rows) = Min({MaxRows, Cardinality(all)}),
         Cardinality(rows) < MaxRows
  PROVE  rows = all
<1>1. Cardinality(all) \in Nat /\ Cardinality(rows) <= Cardinality(all)
  BY FS_CardinalityType, FS_Subset
<1>2. \E m \in {MaxRows, Cardinality(all)} :
        \A n \in {MaxRows, Cardinality(all)} : m <= n
  BY <1>1, LimitsAssumption
<1>3. Min({MaxRows, Cardinality(all)}) \in {MaxRows, Cardinality(all)}
  BY <1>2 DEF Min
<1>4. Cardinality(rows) = Cardinality(all)
  BY <1>1, <1>3, LimitsAssumption
<1> QED BY <1>4, FS_Subset

LEMMA AnswerMInv ==
  ASSUME IInv, IInv', MInv, NEW q \in Queries, AnswerRelational(q) \/ AnswerAggregate(q)
  PROVE  MInv'
<1>1. /\ phase = "ready" /\ phase' \in {"answered", "too_many_rows"}
      /\ UNCHANGED <<program, stratifyVars, support, level>>
  <2>1. CASE AnswerRelational(q)
    BY <2>1 DEF AnswerRelational
  <2>2. CASE AnswerAggregate(q)
    <3>1. phase' \in {"answered", "too_many_rows"}
      BY <2>2 DEF AnswerAggregate
    <3> QED BY <2>2, <3>1 DEF AnswerAggregate
  <2> QED BY <2>1, <2>2
<1>2. db' = db /\ level' = level
  BY <1>1 DEF db
<1>3. /\ SupportsHold' /\ ProofsAreWellFounded' /\ GivenKept' /\ InEveryModel'
      /\ IsFiniteSet(db') /\ BoundExceeded'
  <2> USE DEF stratifyVars
  <2>1. Evaluating /\ Evaluating'
    BY <1>1 DEF Evaluating
  <2>2. SupportsHold'
    BY <1>1, <1>2, <2>1 DEF MInv, SupportsHold, Derived
  <2>3. ProofsAreWellFounded' /\ IsFiniteSet(db')
    BY <1>1, <1>2 DEF MInv, ProofsAreWellFounded
  <2>4. InEveryModel'
    BY <1>1, <1>2, <2>1 DEF MInv, InEveryModel
  <2>5. GivenKept' /\ BoundExceeded'
    BY <1>1, <1>2, <2>1 DEF MInv, GivenKept, BoundExceeded
  <2> QED BY <2>2, <2>3, <2>4, <2>5
<1>4. ASSUME phase' = "answered"
      PROVE  /\ answer'.query = q
             /\ IF q.reduce = None
                THEN /\ answer'.rows \subseteq Rows(q, db)
                     /\ Cardinality(answer'.rows) < MaxRows =>
                          answer'.rows = Rows(q, db)
                ELSE \A row \in answer'.rows :
                       row[q.reduce.as] = Reduce(q, AllSolutions(q.body, db))
  <2>1. CASE AnswerRelational(q)
    <3>1. PICK rows \in SUBSET Rows(q, db) :
            /\ Cardinality(rows) = Min({MaxRows, Cardinality(Rows(q, db))})
            /\ answer' = [query |-> q, rows |-> rows]
      BY <2>1 DEF AnswerRelational
    <3>2. q.reduce = None /\ answer'.query = q /\ answer'.rows = rows
      BY <2>1, <3>1 DEF AnswerRelational
    <3>3. IsFiniteSet(Rows(q, db))
      <4> DEFINE D == db
                 sols == AllSolutions(q.body, D)
                 row  == [u \in sols |-> [x \in q.project |-> Bindings(q.body, u)[x]]]
      <4>1. Rows(q, D) = {row[u] : u \in sols}
        BY DEF Rows
      <4>2. IsFiniteSet(sols)
        <5>1. Len(q.body) \in Nat /\ DOMAIN q.body = 1..Len(q.body)
          BY QueriesAssumption
        <5>2. IsFiniteSet(D)
          BY DEF MInv
        <5> HIDE DEF D
        <5> QED BY <5>1, <5>2, FiniteSolutions
      <4>3. IsFiniteSet({row[u] : u \in sols})
        <5> HIDE DEF sols, row
        <5> QED BY <4>2, FiniteImage
      <4> QED BY <4>1, <4>3
    <3>4. Cardinality(rows) < MaxRows => rows = Rows(q, db)
      <4> DEFINE all == Rows(q, db)
      <4>1. IsFiniteSet(all) /\ rows \in SUBSET all
            /\ Cardinality(rows) = Min({MaxRows, Cardinality(all)})
        BY <3>1, <3>3
      <4> HIDE DEF all
      <4>2. Cardinality(rows) < MaxRows => rows = all
        BY <4>1, CutOrAll
      <4> QED BY <4>2 DEF all
    <3> QED BY <3>2, <3>4
  <2>2. CASE AnswerAggregate(q)
    <3> DEFINE rows == AllSolutions(q.body, db)
    <3>1. /\ q.reduce # None
          /\ answer' = [query |-> q,
                        rows  |-> IF q.reduce.op = "count" \/ rows # {}
                                  THEN {[x \in {q.reduce.as} |-> Reduce(q, rows)]}
                                  ELSE {}]
      BY <1>4, <2>2 DEF AnswerAggregate
    <3>2. \A row \in answer'.rows : row = [x \in {q.reduce.as} |-> Reduce(q, rows)]
      BY <3>1
    <3>3. answer'.query = q
      BY <3>1
    <3> QED BY <3>1, <3>2, <3>3
  <2> QED BY <2>1, <2>2
<1>5. AnswerIsOfDatabase'
  BY <1>2, <1>4 DEF AnswerIsOfDatabase
<1> QED BY <1>3, <1>5 DEF MInv

LEMMA StepMInv == IInv /\ IInv' /\ MInv /\ [Next]_vars => MInv'
<1> SUFFICES ASSUME IInv, IInv', MInv, [Next]_vars PROVE MInv'
  OBVIOUS
<1>1. CASE Stratify
  BY <1>1, StratifyMInv
<1>2. CASE LoadFacts
  BY <1>2, LoadMInv
<1>3. CASE NextStratum
  <2>1. /\ phase = "stratum" /\ phase' \in {"stratum", "round", "ready"}
        /\ UNCHANGED <<program, stratifyVars, support>>
        /\ level' = level \/ level' = level + 1
    BY <1>3 DEF NextStratum
  <2>2. Evaluating /\ Evaluating'
    BY <2>1 DEF Evaluating
  <2> QED BY <2>1, <2>2, QuietMInv
<1>4. CASE NextRound
  <2>1. /\ phase = "round" /\ phase' \in {"too_many_rounds", "pass", "stratum"}
        /\ UNCHANGED <<program, stratifyVars, support>>
        /\ level' = level \/ level' = level + 1
    BY <1>4 DEF NextRound
  <2>2. Evaluating /\ Evaluating'
    BY <2>1 DEF Evaluating
  <2> QED BY <2>1, <2>2, QuietMInv
<1>5. CASE EndRound
  <2>1. /\ phase = "pass" /\ phase' = "round"
        /\ UNCHANGED <<program, stratifyVars, support, level>>
    BY <1>5 DEF EndRound
  <2>2. Evaluating /\ Evaluating'
    BY <2>1 DEF Evaluating
  <2> QED BY <2>1, <2>2, QuietMInv
<1>6. CASE \E p \in todo : Derive(p)
  BY <1>6, DeriveMInv
<1>7. CASE \E p \in todo : FinishPass(p)
  <2>1. /\ phase = "pass" /\ phase' = phase
        /\ UNCHANGED <<program, stratifyVars, support, level>>
    BY <1>7 DEF FinishPass
  <2>2. Evaluating /\ Evaluating'
    BY <2>1 DEF Evaluating
  <2> QED BY <2>1, <2>2, QuietMInv
<1>8. CASE \E p \in todo : DeriveAggregate(p)
  BY <1>8, DeriveAggregateMInv
<1>9. CASE \E q \in Queries : AnswerRelational(q) \/ AnswerAggregate(q)
  BY <1>9, AnswerMInv
<1>10. CASE UNCHANGED vars
  <2> USE DEF vars, evaluateVars, stratifyVars
  <2>1. db' = db /\ level' = level /\ phase' = phase
    BY <1>10 DEF db
  <2>2. Evaluating' = Evaluating
    BY <2>1 DEF Evaluating
  <2>3. SupportsHold'
    BY <1>10, <2>1, <2>2 DEF MInv, SupportsHold, Derived
  <2>4. ProofsAreWellFounded' /\ IsFiniteSet(db')
    BY <1>10, <2>1 DEF MInv, ProofsAreWellFounded
  <2>5. GivenKept' /\ BoundExceeded'
    BY <1>10, <2>1, <2>2 DEF MInv, GivenKept, BoundExceeded
  <2>6. InEveryModel'
    BY <1>10, <2>1, <2>2 DEF MInv, InEveryModel
  <2>7. AnswerIsOfDatabase'
    BY <1>10, <2>1 DEF MInv, AnswerIsOfDatabase
  <2> QED BY <2>3, <2>4, <2>5, <2>6, <2>7 DEF MInv
<1> QED
  BY <1>1, <1>2, <1>3, <1>4, <1>5, <1>6, <1>7, <1>8, <1>9, <1>10 DEF Next

LEMMA AlwaysMInv == Spec => [](IInv /\ MInv)
<1>1. Init => IInv /\ MInv
  BY InitIInv, InitMInv
<1>2. IInv /\ MInv /\ [Next]_vars => IInv' /\ MInv'
  BY StepIInv, StepMInv
<1> QED BY <1>1, <1>2, PTL DEF Spec

-----------------------------------------------------------------------------
(* Results                                                                 *)

\* Recorded proofs are well-founded: what a fact uses was in the database
\* before it, so that no set of derived facts supports itself
\* (evaluate.ts, addTuple keeps a fact's first support).
THEOREM RecordedProofsAreTrees == Spec => []ProofsAreWellFounded
<1>1. IInv /\ MInv => ProofsAreWellFounded
  BY DEF MInv
<1> QED BY <1>1, AlwaysMInv, PTL

\* A finished database is a model: in a part of it that holds the program's
\* facts and their consequences, no fact is missing, since one whose proof
\* uses facts of the part alone would be missing first.
LEMMA DatabaseIsModel ==
  ASSUME IInv, MInv, phase \in {"ready", "answered"}
  PROVE  IsModel(program, db)
<1>1. /\ Evaluating /\ PastTheLast /\ strata \in [Predicates(program) -> Nat]
      /\ FactsOf(program) \subseteq db
  BY DEF IInv, TypeOK, Finished, Evaluating, MInv, GivenKept
<1>2. ASSUME NEW c \in RulesOf(program) PROVE Closed(c, db)
  <2>1. strata[program[c].head.pred] < level
    BY <1>1, RulesHaveHeads DEF PastTheLast
  <2> QED BY <1>1, <2>1 DEF IInv, LowerIsClosed
<1>3. ASSUME NEW f \in NaiveStep(program, db, db) PROVE f \in db
  <2>1. PICK c \in RulesOf(program) :
          IF program[c].type = "aggregate" THEN f \in Reductions(program[c], db)
          ELSE \E u \in AllSolutions(program[c].body, db) : f = HeadOf(program[c], u)
    <3>1. Consequence(program, db, db, f)
      BY StepHasNoMore
    <3> QED BY <3>1 DEF Consequence, AllSolutions
  <2> QED BY <1>2, <2>1 DEF Closed
<1>4. ASSUME NEW S \in SUBSET db, FactsOf(program) \subseteq S,
             NaiveStep(program, db, S) \subseteq S
      PROVE  S = db
  <2> SUFFICES ASSUME db \ S # {} PROVE FALSE
    OBVIOUS
  <2>1. PICK f \in db \ S : support[f].uses \subseteq S
    <3> DEFINE T == {f \in db \ S : support[f].uses # {}}
    <3>1. CASE T # db \ S
      BY <3>1
    <3>2. CASE T = db \ S
      <4>1. T \in SUBSET {f \in db : support[f].uses # {}} /\ T # {}
        BY <3>2
      <4>2. PICK f \in T : support[f].uses \cap T = {}
        BY <4>1 DEF MInv, ProofsAreWellFounded
      <4>3. support[f].uses \subseteq db
        BY DEF MInv, ProofsAreWellFounded
      <4> QED BY <3>2, <4>2, <4>3
    <3> QED BY <3>1, <3>2
  <2>2. Derived(f)
    BY <1>1, <1>4, <2>1 DEF MInv, SupportsHold
  <2>3. PICK c \in RulesOf(program) :
          IF program[c].type = "aggregate" THEN f \in Reductions(program[c], db)
          ELSE \E u \in AllSolutions(program[c].body, db) :
                 /\ f = HeadOf(program[c], u)
                 /\ \A g \in Positive(program[c].body) : u[g] \in support[f].uses
    BY <2>2 DEF Derived
  <2>4. CASE program[c].type = "aggregate"
    BY <1>4, <2>1, <2>3, <2>4, StepHasReductions
  <2>5. CASE program[c].type # "aggregate"
    <3> DEFINE body == program[c].body
    <3>1. PICK u \in AllSolutions(body, db) :
            /\ f = HeadOf(program[c], u)
            /\ \A g \in Positive(body) : u[g] \in S
      BY <2>1, <2>3, <2>5
    <3>2. u \in Solutions(body, [g \in Positive(body) |-> S], db)
      BY <3>1 DEF AllSolutions, Solutions
    <3>3. f \in NaiveStep(program, db, S)
      BY <2>5, <3>1, <3>2, StepHasHeads
    <3> QED BY <1>4, <2>1, <3>3
  <2> QED BY <2>4, <2>5
<1> QED BY <1>1, <1>3, <1>4 DEF IsModel

\* ... and the only one.
LEMMA DatabaseIsTheModel ==
  ASSUME IInv, MInv, phase \in {"ready", "answered"}, NEW M, IsModel(program, M)
  PROVE  M = db
<1>1. Evaluating /\ PastTheLast
  BY DEF IInv, Finished, Evaluating
<1>2. db \subseteq M /\ \A f \in M : strata[f.pred] < level => f \in db
  BY <1>1 DEF MInv, InEveryModel
<1>3. \A f \in M : f.pred \in Predicates(program)
  BY ModelPredicates
<1>4. \A f \in M : strata[f.pred] < level
  BY <1>1, <1>3 DEF PastTheLast, IInv, TypeOK
<1> QED BY <1>2, <1>4

\* A program that is evaluated to the end has exactly one stable model, and
\* the finished database is it: stratum by stratum and delta by delta,
\* evaluation reaches what the program means whatever the order of clauses,
\* goals and tuples (deriveDatabase).
FinishedIsTheModel ==
  phase \in {"ready", "answered"} =>
    IsModel(program, db) /\ \A M : IsModel(program, M) => M = db

THEOREM FinishedDatabasesAreModels == Spec => []FinishedIsTheModel
<1>1. IInv /\ MInv => FinishedIsTheModel
  BY DatabaseIsModel, DatabaseIsTheModel DEF FinishedIsTheModel
<1> QED BY <1>1, AlwaysMInv, PTL

\* What evaluation returns is exact against every stable model, whatever it
\* returns: the database, an answer or the refusal of too many facts
\* (deriveDatabase, evaluateQuerySpec).
ExactAgainstModels == \A M : IsModel(program, M) => ExactAgainst(M)

THEOREM EvaluationIsFaithful == Spec => []ExactAgainstModels
<1>1. ASSUME IInv, MInv, NEW M, IsModel(program, M) PROVE ExactAgainst(M)
  <2>1. CASE phase = "ready"
    BY <1>1, <2>1, DatabaseIsTheModel DEF ExactAgainst
  <2>2. CASE phase = "too_many_facts"
    <3> SUFFICES ASSUME IsFiniteSet(M), Cardinality(M) <= MaxFacts PROVE FALSE
      BY <2>2 DEF ExactAgainst
    <3>1. db \subseteq M /\ FactsOf(program) \subseteq M
      BY <1>1, <2>2 DEF MInv, InEveryModel, Evaluating, IsModel
    <3>2. /\ Cardinality(db) <= Cardinality(M)
          /\ Cardinality(FactsOf(program)) <= Cardinality(M)
          /\ Cardinality(db) \in Nat /\ Cardinality(M) \in Nat
          /\ Cardinality(FactsOf(program)) \in Nat
      <4> DEFINE D == db
                 F == FactsOf(program)
      <4>1. D \subseteq M /\ F \subseteq M
        BY <3>1
      <4> HIDE DEF D, F
      <4>2. /\ IsFiniteSet(D) /\ Cardinality(D) <= Cardinality(M)
            /\ IsFiniteSet(F) /\ Cardinality(F) <= Cardinality(M)
        BY <4>1, FS_Subset
      <4>3. Cardinality(D) \in Nat /\ Cardinality(M) \in Nat /\ Cardinality(F) \in Nat
        BY <4>2, FS_CardinalityType
      <4> QED BY <4>2, <4>3 DEF D, F
    <3>3. Cardinality(FactsOf(program)) > MaxFacts \/ Cardinality(db) > MaxFacts
      BY <1>1, <2>2 DEF MInv, BoundExceeded
    <3> QED BY <3>2, <3>3, LimitsAssumption
  <2>3. CASE phase = "answered"
    <3>1. M = db
      BY <1>1, <2>3, DatabaseIsTheModel
    <3> QED BY <1>1, <2>3, <3>1 DEF MInv, AnswerIsOfDatabase, ExactAgainst
  <2>4. CASE phase \notin {"ready", "too_many_facts", "answered"}
    BY <2>4 DEF ExactAgainst
  <2> QED BY <2>1, <2>2, <2>3, <2>4
<1>2. IInv /\ MInv => ExactAgainstModels
  BY <1>1 DEF ExactAgainstModels
<1> QED BY <1>2, AlwaysMInv, PTL

-----------------------------------------------------------------------------
(* The reference's search                                                  *)

Start(prog) == [candidate |-> {}, found |-> FactsOf(prog)]

(* f is a search of prog, up to its step n.                                *)
Searches(prog, f, n) ==
  /\ f[0] = Start(prog)
  /\ \A k \in 1..n : f[k] = Refined(prog, f[k - 1])

(* There is a search of any length.                                        *)
LEMMA SearchesExist == \A prog : \A n \in Nat : \E f : Searches(prog, f, n)
<1> SUFFICES ASSUME NEW prog PROVE \A n \in Nat : \E f : Searches(prog, f, n)
  OBVIOUS
<1> DEFINE T == {n \in Nat : \E f : Searches(prog, f, n)}
<1>1. 0 \in T
  <2> DEFINE f == [k \in {0} |-> Start(prog)]
  <2>1. Searches(prog, f, 0)
    BY DEF Searches
  <2> QED BY <2>1
<1>2. ASSUME NEW n \in Nat, n \in T PROVE n + 1 \in T
  <2>1. PICK f : Searches(prog, f, n)
    BY <1>2
  <2> DEFINE g == [k \in 0..(n + 1) |-> IF k = n + 1 THEN Refined(prog, f[n]) ELSE f[k]]
  <2>2. g[0] = Start(prog)
    BY <2>1 DEF Searches
  <2>3. ASSUME NEW k \in 1..(n + 1) PROVE g[k] = Refined(prog, g[k - 1])
    <3>1. CASE k = n + 1
      <4>1. n \in 0..(n + 1) /\ n + 1 \in 0..(n + 1) /\ n # n + 1 /\ k - 1 = n
        BY <1>2, <3>1
      <4>2. g[n] = f[n] /\ g[n + 1] = Refined(prog, f[n])
        BY <4>1
      <4> HIDE DEF g
      <4> QED BY <3>1, <4>1, <4>2
    <3>2. CASE k # n + 1
      <4>1. /\ k \in 0..(n + 1) /\ k - 1 \in 0..(n + 1) /\ k - 1 # n + 1
            /\ k \in 1..n
        BY <1>2, <3>2
      <4>2. g[k] = f[k] /\ g[k - 1] = f[k - 1]
        BY <3>2, <4>1
      <4> HIDE DEF g
      <4> QED BY <2>1, <4>1, <4>2 DEF Searches
    <3> QED BY <3>1, <3>2
  <2> HIDE DEF g
  <2>4. Searches(prog, g, n + 1)
    BY <2>2, <2>3 DEF Searches
  <2> QED BY <2>4
<1> HIDE DEF T
<1>3. \A n \in Nat : n \in T
  BY <1>1, <1>2, SetInduction
<1> QED BY <1>3 DEF T

(* Two searches agree as far as both go.                                   *)
LEMMA SearchesAgree ==
  ASSUME NEW prog, NEW f, NEW g, NEW m \in Nat, NEW n \in Nat, m <= n,
         Searches(prog, f, m), Searches(prog, g, n)
  PROVE  \A k \in 0..m : f[k] = g[k]
<1> DEFINE T == {k \in Nat : k <= m => f[k] = g[k]}
<1>1. 0 \in T
  BY DEF Searches
<1>2. ASSUME NEW k \in Nat, k \in T PROVE k + 1 \in T
  <2> SUFFICES ASSUME k + 1 <= m PROVE f[k + 1] = g[k + 1]
    OBVIOUS
  <2>1. f[k] = g[k] /\ k + 1 \in 1..m /\ k + 1 \in 1..n /\ (k + 1) - 1 = k
    BY <1>2
  <2> QED BY <2>1 DEF Searches
<1> HIDE DEF T
<1>3. \A k \in Nat : k \in T
  BY <1>1, <1>2, SetInduction
<1> QED BY <1>3 DEF T

(* The recursive function satisfies its equation.                          *)
LEMMA SearchUnfolds == \A prog : \A n \in Nat : Searches(prog, Search(prog), n)
<1> SUFFICES ASSUME NEW prog PROVE \A n \in Nat : Searches(prog, Search(prog), n)
  OBVIOUS
<1> DEFINE A(n) == CHOOSE f : Searches(prog, f, n)
           h == [n \in Nat |-> A(n)[n]]
           F(f) == [k \in Nat |-> IF k = 0 THEN [candidate |-> {}, found |-> FactsOf(prog)]
                                  ELSE Refined(prog, f[k - 1])]
<1>1. \A n \in Nat : Searches(prog, A(n), n)
  BY SearchesExist
<1>2. h = F(h)
  <2>1. ASSUME NEW k \in Nat, k # 0 PROVE h[k] = Refined(prog, h[k - 1])
    <3>1. k - 1 \in Nat /\ k - 1 <= k /\ k - 1 \in 0..(k - 1) /\ k \in 1..k
      BY <2>1
    <3>2. Searches(prog, A(k), k) /\ Searches(prog, A(k - 1), k - 1)
      BY <1>1, <3>1
    <3> HIDE DEF A
    <3>3. A(k)[k - 1] = A(k - 1)[k - 1]
      BY <3>1, <3>2, SearchesAgree
    <3>4. A(k)[k] = Refined(prog, A(k)[k - 1])
      BY <3>1, <3>2 DEF Searches
    <3>5. h[k] = A(k)[k] /\ h[k - 1] = A(k - 1)[k - 1]
      BY <3>1
    <3> QED BY <3>3, <3>4, <3>5
  <2>2. h[0] = Start(prog)
    <3>1. Searches(prog, A(0), 0)
      BY <1>1
    <3> HIDE DEF A
    <3> QED BY <3>1 DEF Searches
  <2>3. h = [k \in Nat |-> h[k]]
    OBVIOUS
  <2> HIDE DEF h
  <2> QED BY <2>1, <2>2, <2>3 DEF Start
<1>3. Search(prog) = CHOOSE f : f = F(f)
  BY DEF Search
<1> HIDE DEF h
<1>4. Search(prog) = F(Search(prog))
  <2> HIDE DEF F
  <2> QED BY <1>2, <1>3
<1>5. Search(prog)[0] = Start(prog)
  <2>1. F(Search(prog))[0] = Start(prog)
    BY DEF Start
  <2> HIDE DEF F
  <2> QED BY <1>4, <2>1
<1>6. ASSUME NEW k \in Nat, k # 0
      PROVE  Search(prog)[k] = Refined(prog, Search(prog)[k - 1])
  <2>1. F(Search(prog))[k] = Refined(prog, Search(prog)[k - 1])
    BY <1>6
  <2> HIDE DEF F
  <2> QED BY <1>4, <2>1
<1> QED BY <1>5, <1>6 DEF Searches

(* What a search has found is in every set that holds the facts and its    *)
(* own consequences, as far as the candidate goes.                         *)
Modest(prog, s) ==
  \A C \in SUBSET s.candidate :
    (FactsOf(prog) \subseteq C /\ NaiveStep(prog, s.candidate, C) \subseteq C)
      => s.found \subseteq C

LEMMA SearchIsModest ==
  \A prog : \A n \in Nat :
    /\ Modest(prog, Search(prog)[n])
    /\ FactsOf(prog) \subseteq Search(prog)[n].found
    /\ Search(prog)[n] = [candidate |-> Search(prog)[n].candidate,
                          found     |-> Search(prog)[n].found]
<1> SUFFICES ASSUME NEW prog
             PROVE  \A n \in Nat :
                      /\ Modest(prog, Search(prog)[n])
                      /\ FactsOf(prog) \subseteq Search(prog)[n].found
                      /\ Search(prog)[n] = [candidate |-> Search(prog)[n].candidate,
                                            found     |-> Search(prog)[n].found]
  OBVIOUS
<1> DEFINE s(n) == Search(prog)[n]
           T == {n \in Nat : /\ Modest(prog, s(n)) /\ FactsOf(prog) \subseteq s(n).found
                             /\ s(n) = [candidate |-> s(n).candidate,
                                        found     |-> s(n).found]}
<1>1. 0 \in T
  <2>1. s(0) = Start(prog)
    BY SearchUnfolds DEF Searches
  <2> QED BY <2>1 DEF Start, Modest
<1>2. ASSUME NEW n \in Nat, n \in T PROVE n + 1 \in T
  <2> DEFINE a == s(n)
             b == s(n + 1)
             more == a.found \cup NaiveStep(prog, a.candidate, a.found)
  <2>1. b = Refined(prog, a)
    <3>1. Searches(prog, Search(prog), n + 1) /\ n + 1 \in 1..(n + 1) /\ (n + 1) - 1 = n
      BY <1>2, SearchUnfolds
    <3> QED BY <3>1 DEF Searches
  <2>2. /\ Modest(prog, a) /\ FactsOf(prog) \subseteq a.found
        /\ a = [candidate |-> a.candidate, found |-> a.found]
    BY <1>2
  <2> HIDE DEF s
  <2>3. CASE more # a.found
    <3>1. b = [candidate |-> a.candidate, found |-> more]
      BY <2>1, <2>2, <2>3 DEF Refined
    <3>2. ASSUME NEW C \in SUBSET a.candidate, FactsOf(prog) \subseteq C,
                 NaiveStep(prog, a.candidate, C) \subseteq C
          PROVE  more \subseteq C
      <4>1. a.found \subseteq C
        BY <2>2, <3>2 DEF Modest
      <4>2. NaiveStep(prog, a.candidate, a.found) \subseteq NaiveStep(prog, a.candidate, C)
        BY <4>1, StepGrows
      <4> QED BY <3>2, <4>1, <4>2
    <3>3. Modest(prog, b)
      BY <3>1, <3>2 DEF Modest
    <3> QED BY <1>2, <2>2, <3>1, <3>3 DEF s
  <2>4. CASE more = a.found /\ a.found # a.candidate
    <3>1. b = [candidate |-> a.found, found |-> FactsOf(prog)]
      BY <2>1, <2>4 DEF Refined
    <3> QED BY <1>2, <3>1 DEF Modest, s
  <2>5. CASE more = a.found /\ a.found = a.candidate
    <3>1. b = a
      BY <2>1, <2>5 DEF Refined
    <3> QED BY <1>2, <2>2, <3>1 DEF s
  <2> QED BY <2>3, <2>4, <2>5
<1> HIDE DEF T
<1>3. \A n \in Nat : n \in T
  BY <1>1, <1>2, SetInduction
<1> QED BY <1>3 DEF T

(* A search that has come to rest has found a stable model.                *)
LEMMA SearchFindsModel ==
  ASSUME NEW prog \in Programs, ~StrictCycle(prog)
  PROVE  IsModel(prog, Model(prog))
<1> DEFINE s == Search(prog)[MaxSteps]
           more == s.found \cup NaiveStep(prog, s.candidate, s.found)
<1>1. SearchEnd[prog] = s /\ Refined(prog, s) = s
  BY StepsAssumption DEF SearchEnd
<1>2. /\ Modest(prog, s) /\ FactsOf(prog) \subseteq s.found
      /\ s = [candidate |-> s.candidate, found |-> s.found]
  BY StepsAssumption, SearchIsModest
<1>3. Model(prog) = s.found
  BY <1>1 DEF Model
<1> HIDE DEF s
<1>4. more = s.found /\ s.found = s.candidate
  <2>1. CASE more # s.found
    <3>1. s = [candidate |-> s.candidate, found |-> more]
      BY <1>1, <1>2, <2>1 DEF Refined
    <3>2. s.found = more
      BY <3>1
    <3> QED BY <2>1, <3>2
  <2>2. CASE more = s.found /\ s.found # s.candidate
    <3>1. s = [candidate |-> s.found, found |-> FactsOf(prog)]
      BY <1>1, <2>2 DEF Refined
    <3>2. s.candidate = s.found
      BY <3>1
    <3> QED BY <2>2, <3>2
  <2> QED BY <2>1, <2>2
<1>5. NaiveStep(prog, s.found, s.found) \subseteq s.found
  BY <1>4
<1>6. ASSUME NEW S \in SUBSET s.found, FactsOf(prog) \subseteq S,
             NaiveStep(prog, s.found, S) \subseteq S
      PROVE  S = s.found
  BY <1>2, <1>4, <1>6 DEF Modest
<1> QED BY <1>2, <1>3, <1>5, <1>6 DEF IsModel

\* What evaluation returns is the model that the reference computes, or it
\* throws: a program without recursion through negation or aggregation has a
\* stable model, so that exactness against every stable model is no empty
\* promise (deriveDatabase, evaluateQuerySpec).
THEOREM EvaluationAgreesWithReference == Spec => []EvaluationIsExact
<1>1. ASSUME TypeOK, RefusalIsExact, AcceptedIsRespected, ExactAgainstModels
      PROVE  EvaluationIsExact
  <2> SUFFICES ASSUME phase \in {"ready", "too_many_facts", "answered"}
               PROVE  ExactAgainst(Model(program))
    BY DEF EvaluationIsExact
  <2>1. ~StrictCycle(program)
    BY <1>1, RespectedHasNoStrictCycle DEF AcceptedIsRespected, TypeOK
  <2>2. IsModel(program, Model(program))
    BY <1>1, <2>1, SearchFindsModel DEF TypeOK
  <2> QED BY <1>1, <2>2 DEF ExactAgainstModels
<1> QED BY <1>1, EvaluationTypes, RefusalsAreExact, AcceptedProgramsAreStratified,
           EvaluationIsFaithful, PTL
=============================================================================
