---------------------- MODULE JournalCheckpointsProofs ----------------------
(***************************************************************************)
(* What the rotation of the journal guarantees for every set of            *)
(* namespaces, clauses and requests and for all limits and bounds: no      *)
(* rotation, repair, crash or I/O error gives a recorded sequence number   *)
(* another entry, every checkpoint states what the journal says at its     *)
(* sequence number, and no operation rotates twice but for one whose first *)
(* rotation was repaired under a recovered id.                             *)
(*                                                                         *)
(* Before is a recursive function of the segments. That it satisfies its   *)
(* equation, and whatever is said of it for every segment, rests on an     *)
(* induction over the natural numbers; it is taken from the theorem that   *)
(* every non-empty subset of a well-founded set has a minimal element,     *)
(* which speaks of sets and not of predicates.                             *)
(***************************************************************************)
EXTENDS JournalCheckpoints, SequenceTheorems, WellFoundedInduction, TLAPS

NatOrder == {ss \in Nat \X Nat : ss[1] < ss[2]}

LEMMA NatOrderWellFounded == IsWellFoundedOn(NatOrder, Nat)
  BY NatLessThanWellFounded DEF OpToRel, NatOrder

(* A set that holds 0 and with every number the next one holds them all.   *)
LEMMA SetInduction ==
  ASSUME NEW T, 0 \in T, \A n \in Nat : n \in T => n + 1 \in T
  PROVE  \A n \in Nat : n \in T
  <1> DEFINE U == Nat \ T
  <1> SUFFICES ASSUME U # {} PROVE FALSE
    OBVIOUS
  <1>1. U \subseteq Nat
    OBVIOUS
  <1>2. PICK x \in U : \A y \in U : ~ (<<y, x>> \in NatOrder)
    <2> HIDE DEF U
    <2> QED BY <1>1, WFMin, NatOrderWellFounded
  <1>3. x \in Nat /\ x # 0 /\ x - 1 \in Nat
    OBVIOUS
  <1>4. x - 1 \in U
    <2>1. (x - 1) + 1 = x
      BY <1>3
    <2> QED BY <1>3, <2>1
  <1>5. <<x - 1, x>> \in NatOrder
    BY <1>3 DEF NatOrder
  <1> QED BY <1>2, <1>4, <1>5
-----------------------------------------------------------------------------
(* The recursive definition of Before                                      *)

(* f is what Before has to be, up to the first n segments.                 *)
Approximates(f, n) ==
  /\ f[0] = <<>>
  /\ \A k \in 1..n : f[k] = f[k - 1] \o segments[k].entries

BeforeEquation ==
  /\ Before[0] = <<>>
  /\ \A k \in Nat \ {0} : Before[k] = Before[k - 1] \o segments[k].entries

(* There is such a function for every n.                                   *)
LEMMA ApproximationsExist == \A n \in Nat : \E f : Approximates(f, n)
  <1> DEFINE T == {n \in Nat : \E f : Approximates(f, n)}
  <1>1. 0 \in T
    <2> DEFINE f == [k \in {0} |-> <<>>]
    <2>1. Approximates(f, 0)
      BY DEF Approximates
    <2> QED BY <2>1
  <1>2. ASSUME NEW n \in Nat, n \in T PROVE n + 1 \in T
    <2>1. PICK f : Approximates(f, n)
      BY <1>2
    <2> DEFINE g == [k \in 0..(n + 1) |->
                       IF k = n + 1 THEN f[n] \o segments[k].entries ELSE f[k]]
    <2>2. g[0] = <<>>
      BY <2>1 DEF Approximates
    <2>3. ASSUME NEW k \in 1..(n + 1) PROVE g[k] = g[k - 1] \o segments[k].entries
      <3>0. k = n + 1 \/ k \in 1..n
        BY <1>2
      <3>1. CASE k = n + 1
        <4>1. n \in 0..(n + 1) /\ n + 1 \in 0..(n + 1) /\ n # n + 1 /\ k - 1 = n
          BY <1>2, <3>1
        <4>2. g[n] = f[n] /\ g[n + 1] = f[n] \o segments[n + 1].entries
          BY <4>1
        <4> HIDE DEF g
        <4> QED BY <3>1, <4>1, <4>2
      <3>2. CASE k \in 1..n
        <4>1. k \in 0..(n + 1) /\ k - 1 \in 0..(n + 1) /\ k # n + 1 /\ k - 1 # n + 1
          BY <1>2, <3>2
        <4>2. g[k] = f[k] /\ g[k - 1] = f[k - 1]
          BY <4>1
        <4> HIDE DEF g
        <4> QED BY <2>1, <3>2, <4>2 DEF Approximates
      <3> QED BY <3>0, <3>1, <3>2
    <2> HIDE DEF g
    <2>4. Approximates(g, n + 1)
      BY <2>2, <2>3 DEF Approximates
    <2> QED BY <2>4
  <1> HIDE DEF T
  <1>3. \A n \in Nat : n \in T
    BY <1>1, <1>2, SetInduction
  <1> QED BY <1>3 DEF T

(* Two of them agree as far as both go.                                    *)
LEMMA ApproximationsAgree ==
  ASSUME NEW f, NEW g, NEW m \in Nat, NEW n \in Nat, m <= n,
         Approximates(f, m), Approximates(g, n)
  PROVE  \A k \in 0..m : f[k] = g[k]
  <1> DEFINE T == {k \in Nat : k <= m => f[k] = g[k]}
  <1>1. 0 \in T
    BY DEF Approximates
  <1>2. ASSUME NEW k \in Nat, k \in T PROVE k + 1 \in T
    <2> SUFFICES ASSUME k + 1 <= m PROVE f[k + 1] = g[k + 1]
      OBVIOUS
    <2>1. f[k] = g[k] /\ k + 1 \in 1..m /\ k + 1 \in 1..n /\ (k + 1) - 1 = k
      BY <1>2
    <2> QED BY <2>1 DEF Approximates
  <1> HIDE DEF T
  <1>3. \A k \in Nat : k \in T
    BY <1>1, <1>2, SetInduction
  <1> QED BY <1>3 DEF T

(* Before satisfies the equation that defines it.                          *)
LEMMA BeforeUnfolds == BeforeEquation
  <1> DEFINE A(n) == CHOOSE f : Approximates(f, n)
             h == [n \in Nat |-> A(n)[n]]
             F(f) == [k \in Nat |-> IF k = 0 THEN <<>> ELSE f[k - 1] \o segments[k].entries]
  <1>1. \A n \in Nat : Approximates(A(n), n)
    BY ApproximationsExist
  <1> HIDE DEF A
  <1>2. h[0] = <<>>
    BY <1>1 DEF Approximates
  <1>3. ASSUME NEW k \in Nat, k # 0 PROVE h[k] = h[k - 1] \o segments[k].entries
    <2>1. k - 1 \in Nat /\ k - 1 <= k /\ k - 1 \in 0..(k - 1) /\ k \in 1..k
      BY <1>3
    <2>2. A(k)[k - 1] = A(k - 1)[k - 1]
      BY <1>1, <1>3, <2>1, ApproximationsAgree
    <2>3. A(k)[k] = A(k)[k - 1] \o segments[k].entries
      BY <1>1, <1>3, <2>1 DEF Approximates
    <2> QED BY <2>1, <2>2, <2>3
  <1>4. h = F(h)
    <2>1. \A k \in Nat : h[k] = F(h)[k]
      BY <1>2, <1>3
    <2> QED BY <2>1
  <1>5. Before = CHOOSE f : f = F(f)
    BY DEF Before
  <1> HIDE DEF h, F
  <1>6. Before = F(Before)
    BY <1>4, <1>5
  <1>7. \A k \in Nat : Before[k] = F(Before)[k]
    BY <1>6
  <1> QED BY <1>7 DEF F, BeforeEquation
-----------------------------------------------------------------------------
(* The chain of segments and the journal it makes                          *)

Segment == [first : Nat, last : Nat, entries : Seq(Entry),
            opId : {r.opId : r \in Requests}]

(* The concatenation of the first k segments is as long as the name of the *)
(* k-th says, and no earlier segment ends after it.                        *)
LEMMA ChainLengths ==
  ASSUME segments \in Seq(Segment), Contiguous
  PROVE  \A k \in 0..Len(segments) :
           /\ Before[k] \in Seq(Entry)
           /\ Len(Before[k]) = IF k = 0 THEN 0 ELSE segments[k].last
           /\ \A j \in 1..k : segments[j].last <= Len(Before[k])
  <1> DEFINE P(k) == /\ Before[k] \in Seq(Entry)
                     /\ Len(Before[k]) = IF k = 0 THEN 0 ELSE segments[k].last
                     /\ \A j \in 1..k : segments[j].last <= Len(Before[k])
             T == {k \in Nat : k <= Len(segments) => P(k)}
  <1>0. Len(segments) \in Nat /\ BeforeEquation
    BY BeforeUnfolds
  <1>1. 0 \in T
    <2>1. Before[0] = <<>>
      BY <1>0 DEF BeforeEquation
    <2>2. <<>> \in Seq(Entry) /\ Len(<<>>) = 0
      OBVIOUS
    <2>3. \A j \in 1..0 : segments[j].last <= Len(Before[0])
      OBVIOUS
    <2>4. P(0)
      BY <2>1, <2>2, <2>3
    <2> QED BY <2>4
  <1>2. ASSUME NEW k \in Nat, k \in T PROVE k + 1 \in T
    <2> SUFFICES ASSUME k + 1 <= Len(segments) PROVE P(k + 1)
      OBVIOUS
    <2>1. P(k)
      BY <1>0, <1>2
    <2>2. /\ k + 1 \in 1..Len(segments) /\ k + 1 \in Nat \ {0} /\ (k + 1) - 1 = k
          /\ k # 0 => k \in 1..Len(segments)
      BY <1>0, <1>2
    <2>3. segments[k + 1] \in Segment
      BY <2>2
    <2>4. Before[k + 1] = Before[k] \o segments[k + 1].entries
      BY <1>0, <2>2 DEF BeforeEquation
    <2>5. /\ segments[k + 1].entries \in Seq(Entry)
          /\ segments[k + 1].last \in Nat /\ segments[k + 1].first \in Nat
      BY <2>3 DEF Segment
    <2>6. /\ Before[k + 1] \in Seq(Entry)
          /\ Len(Before[k + 1]) = Len(Before[k]) + Len(segments[k + 1].entries)
      BY <2>1, <2>4, <2>5, ConcatProperties
    <2>7. segments[k + 1].first = IF k + 1 = 1 THEN 1 ELSE segments[k].last + 1
      BY <2>2 DEF Contiguous
    <2>8. Len(segments[k + 1].entries) = segments[k + 1].last - segments[k + 1].first + 1
      BY <2>2 DEF Contiguous
    <2>9. Len(Before[k]) \in Nat /\ Len(segments[k + 1].entries) \in Nat
      BY <2>1, <2>5
    <2>10. Len(Before[k + 1]) = segments[k + 1].last
      <3>1. segments[k + 1].first = Len(Before[k]) + 1
        BY <1>2, <2>1, <2>7
      <3>2. \A a, b, e, f, l \in Nat : f = a + 1 /\ e = l - f + 1 /\ b = a + e => b = l
        OBVIOUS
      <3>3. Len(Before[k + 1]) \in Nat
        BY <2>6, LenProperties
      <3> HIDE DEF P, T
      <3> QED BY <2>5, <2>6, <2>8, <2>9, <3>1, <3>2, <3>3
    <2>11. ASSUME NEW j \in 1..(k + 1) PROVE segments[j].last <= Len(Before[k + 1])
      <3>1. CASE j = k + 1
        BY <2>5, <2>10, <3>1
      <3>2. CASE j \in 1..k
        <4>1. segments[j].last <= Len(Before[k])
          BY <2>1, <3>2
        <4>2. segments[j] \in Segment
          BY <1>0, <2>2, <3>2
        <4>3. segments[j].last \in Nat
          BY <4>2 DEF Segment
        <4>4. \A a, b, e, l \in Nat : l <= a /\ b = a + e => l <= b
          OBVIOUS
        <4>5. Len(Before[k + 1]) \in Nat
          BY <2>6, LenProperties
        <4> HIDE DEF P, T
        <4> QED BY <2>6, <2>9, <4>1, <4>3, <4>4, <4>5
      <3> QED BY <1>2, <3>1, <3>2
    <2>12. Len(Before[k + 1]) = IF k + 1 = 0 THEN 0 ELSE segments[k + 1].last
      BY <1>2, <2>10
    <2> QED BY <2>6, <2>11, <2>12
  <1> HIDE DEF T
  <1>3. \A k \in Nat : k \in T
    BY <1>1, <1>2, SetInduction
  <1> QED BY <1>0, <1>3 DEF T

(* What the segments before a step hold is not changed by a step that      *)
(* keeps them, whatever it adds after them.                                *)
LEMMA BeforeKept ==
  ASSUME NEW m \in Nat, \A k \in 1..m : segments'[k] = segments[k]
  PROVE  \A k \in 0..m : Before'[k] = Before[k]
  <1> DEFINE T == {k \in Nat : k <= m => Before'[k] = Before[k]}
  <1>0. BeforeEquation /\ BeforeEquation'
    BY BeforeUnfolds, PTL
  <1>1. 0 \in T
    BY <1>0 DEF BeforeEquation
  <1>2. ASSUME NEW k \in Nat, k \in T PROVE k + 1 \in T
    <2> SUFFICES ASSUME k + 1 <= m PROVE Before'[k + 1] = Before[k + 1]
      OBVIOUS
    <2>1. Before'[k] = Before[k] /\ k + 1 \in 1..m /\ (k + 1) - 1 = k /\ k + 1 \in Nat \ {0}
      BY <1>2
    <2>2. segments'[k + 1] = segments[k + 1]
      BY <2>1
    <2> QED BY <1>0, <2>1, <2>2 DEF BeforeEquation
  <1> HIDE DEF T
  <1>3. \A k \in Nat : k \in T
    BY <1>1, <1>2, SetInduction
  <1> QED BY <1>3 DEF T

(* The journal of a chain that is in order, and where the chain ends.      *)
LEMMA JournalShape ==
  ASSUME segments \in Seq(Segment), active \in Seq(Entry), Contiguous
  PROVE  /\ Before[Len(segments)] \in Seq(Entry) /\ Journal \in Seq(Entry)
         /\ ChainEnd \in Nat /\ Len(Before[Len(segments)]) = ChainEnd
         /\ Len(Journal) = ChainEnd + Len(active)
         /\ \A n \in Nat : HasSegment(n) => n <= ChainEnd
  <1>1. Len(segments) \in 0..Len(segments) /\ Len(segments) \in Nat
    OBVIOUS
  <1>2. /\ Before[Len(segments)] \in Seq(Entry)
        /\ Len(Before[Len(segments)]) = IF Len(segments) = 0 THEN 0 ELSE segments[Len(segments)].last
        /\ \A j \in 1..Len(segments) : segments[j].last <= Len(Before[Len(segments)])
    BY <1>1, ChainLengths
  <1>3. Len(Before[Len(segments)]) = ChainEnd
    <2>1. segments = <<>> <=> Len(segments) = 0
      BY DEF Segment
    <2> QED BY <1>2, <2>1 DEF ChainEnd
  <1>4. Journal \in Seq(Entry) /\ Len(Journal) = Len(Before[Len(segments)]) + Len(active)
    <2> QED BY <1>2 DEF Journal
  <1> QED BY <1>2, <1>3, <1>4 DEF HasSegment

(* Steps that keep the chain and the active journal keep the journal.      *)
LEMMA JournalKept ==
  ASSUME Len(segments) \in Nat, UNCHANGED <<segments, active>>
  PROVE  Journal' = Journal /\ ChainEnd' = ChainEnd
  <1>1. Before'[Len(segments)] = Before[Len(segments)]
    <2>1. \A k \in 0..Len(segments) : Before'[k] = Before[k]
      BY BeforeKept
    <2> QED BY <2>1
  <1> QED BY <1>1 DEF Journal, ChainEnd

(* An entry is appended to the journal's end.                              *)
LEMMA JournalAppended ==
  ASSUME segments \in Seq(Segment), active \in Seq(Entry), Contiguous,
         NEW e \in Entry, active' = Append(active, e), segments' = segments
  PROVE  Journal' = Append(Journal, e)
  <1>1. Before'[Len(segments)] = Before[Len(segments)]
    BY BeforeKept
  <1>2. Before[Len(segments)] \in Seq(Entry)
    BY JournalShape
  <1> DEFINE b == Before[Len(segments)]
  <1>3. Journal' = b \o Append(active, e) /\ Journal = b \o active
    BY <1>1 DEF Journal
  <1> HIDE DEF b
  <1>4. b \o Append(active, e) = Append(b \o active, e)
    <2>1. /\ b \in Seq(Entry) /\ active \in Seq(Entry) /\ <<e>> \in Seq(Entry)
          /\ b \o active \in Seq(Entry)
      BY <1>2, ConcatProperties DEF b
    <2>2. Append(active, e) = active \o <<e>> /\ Append(b \o active, e) = (b \o active) \o <<e>>
      BY <2>1, AppendIsConcat
    <2> QED BY <2>1, <2>2, ConcatAssociative
  <1> QED BY <1>3, <1>4

(* A rotation moves the entries of the active journal and no other.        *)
LEMMA JournalRotated ==
  ASSUME segments \in Seq(Segment), active \in Seq(Entry), Contiguous,
         NEW s \in Segment, s.entries = active,
         segments' = Append(segments, s), active' = <<>>
  PROVE  Journal' = Journal
  <1> DEFINE m == Len(segments)
  <1>1. m \in Nat /\ Len(segments') = m + 1 /\ segments'[m + 1] = s
        /\ \A k \in 1..m : segments'[k] = segments[k]
    <2> QED OBVIOUS
  <1>2. Before'[m] = Before[m]
    <2>1. \A k \in 0..m : Before'[k] = Before[k]
      BY <1>1, BeforeKept
    <2> QED BY <1>1, <2>1
  <1>3. Before'[m + 1] = Before'[m] \o active
    <2>1. BeforeEquation'
      BY BeforeUnfolds, PTL
    <2>2. m + 1 \in Nat \ {0} /\ (m + 1) - 1 = m
      BY <1>1
    <2>3. Before'[m + 1] = Before'[(m + 1) - 1] \o segments'[m + 1].entries
      BY <2>1, <2>2 DEF BeforeEquation
    <2> QED BY <1>1, <2>2, <2>3
  <1>4. Before[m] \in Seq(Entry)
    BY JournalShape
  <1>5. Journal' = (Before[m] \o active) \o <<>> /\ Journal = Before[m] \o active
    BY <1>1, <1>2, <1>3 DEF Journal
  <1> HIDE DEF m
  <1>6. Before[m] \o active \in Seq(Entry)
    BY <1>4, ConcatProperties
  <1>7. (Before[m] \o active) \o <<>> = Before[m] \o active
    BY <1>6, ConcatEmptySeq
  <1> QED BY <1>5, <1>7
-----------------------------------------------------------------------------
(* The invariant                                                           *)

(* A compaction under way: its request is known, and between the rename    *)
(* and the publication it holds the true checkpoint of the chain's end,    *)
(* whose segment, asked for by this request, is the only one without one.  *)
JobAgrees ==
  /\ pc # "idle" => req \in Requests
  /\ pc = "publish" =>
       /\ HasSegment(ChainEnd) /\ ChainEnd \notin DOMAIN checkpoints
       /\ \A k \in 1..Len(segments) :
            segments[k].last = ChainEnd => artifact.opId = segments[k].opId
       /\ \A ns \in DOMAIN artifact.state :
            artifact.state[ns] = Replay(Journal, ChainEnd, ns)
       /\ \A k \in Unpublished : segments[k].last = ChainEnd

(* A published checkpoint carries the id its rotation was asked under, or  *)
(* that of a repair.                                                       *)
LabelsAgree ==
  \A k \in 1..Len(segments) : segments[k].last \in DOMAIN checkpoints =>
    checkpoints[segments[k].last].opId \in {Recovered, segments[k].opId}

JInv ==
  /\ TypeOK
  /\ ArtifactsAgree
  /\ CheckpointsTellTheTruth
  /\ ReturnsRepaired
  /\ OperationRotatesOnce /\ LabelsAgree
  /\ JobAgrees

(* What replays to a sequence number does not depend on later entries.     *)
LEMMA ReplayKept ==
  ASSUME NEW j, NEW h, NEW ns, NEW n \in Nat, Len(j) \in Nat, n <= Len(j),
         \A i \in 1..Len(j) : h[i] = j[i]
  PROVE  Replay(h, n, ns) = Replay(j, n, ns)
  <1>1. \A i \in 1..n : h[i] = j[i]
    OBVIOUS
  <1>2. \A i \in 1..n : \A k \in (i + 1)..n : k \in 1..n
    OBVIOUS
  <1> QED BY <1>1, <1>2 DEF Replay

(* A step that keeps the artifacts and only ever adds to the journal keeps *)
(* what is said of them.                                                   *)
LEMMA SameArtifacts ==
  ASSUME JInv, UNCHANGED <<segments, checkpoints>>, active' \in Seq(Entry),
         Len(Journal) <= Len(Journal'),
         \A i \in 1..Len(Journal) : Journal'[i] = Journal[i]
  PROVE  /\ ArtifactsAgree' /\ CheckpointsTellTheTruth' /\ OperationRotatesOnce' /\ LabelsAgree'
         /\ Unpublished' = Unpublished /\ ChainEnd' = ChainEnd
  <1>1. /\ segments \in Seq(Segment) /\ active \in Seq(Entry) /\ Contiguous
        /\ DOMAIN checkpoints \subseteq Nat /\ ArtifactsAgree
    BY DEF JInv, TypeOK, ArtifactsAgree, Segment
  <1>2. ArtifactsAgree' /\ Unpublished' = Unpublished /\ ChainEnd' = ChainEnd
    BY <1>1 DEF ArtifactsAgree, Contiguous, HasSegment, Unpublished, ChainEnd
  <1>3. OperationRotatesOnce' /\ LabelsAgree'
    BY DEF JInv, OperationRotatesOnce, LabelsAgree
  <1>4. Len(Journal) \in Nat /\ \A n \in DOMAIN checkpoints : n \in Nat /\ n <= Len(Journal)
    <2>1. Journal \in Seq(Entry) /\ Len(Journal) = ChainEnd + Len(active) /\ ChainEnd \in Nat
          /\ \A n \in Nat : HasSegment(n) => n <= ChainEnd
      BY <1>1, JournalShape
    <2>2. Len(active) \in Nat
      BY <1>1
    <2> QED BY <1>1, <2>1, <2>2 DEF ArtifactsAgree
  <1>5. CheckpointsTellTheTruth'
    <2> SUFFICES ASSUME NEW n \in DOMAIN checkpoints, NEW ns \in DOMAIN checkpoints[n].state
                 PROVE  checkpoints[n].state[ns] = Replay(Journal', n, ns)
      BY DEF CheckpointsTellTheTruth
    <2>1. n \in Nat /\ n <= Len(Journal) /\ Len(Journal) \in Nat
      BY <1>4
    <2>2. Replay(Journal', n, ns) = Replay(Journal, n, ns)
      <3> DEFINE j == Journal
                 h == Journal'
      <3>1. Len(j) \in Nat /\ n <= Len(j) /\ \A i \in 1..Len(j) : h[i] = j[i]
        BY <2>1
      <3> HIDE DEF j, h
      <3>2. Replay(h, n, ns) = Replay(j, n, ns)
        BY <2>1, <3>1, ReplayKept
      <3> QED BY <3>2 DEF j, h
    <2> QED BY <2>2 DEF JInv, CheckpointsTellTheTruth
  <1> QED BY <1>2, <1>3, <1>5

(* In particular a step that leaves the files alone.                       *)
LEMMA SameDisk ==
  ASSUME JInv, UNCHANGED <<segments, checkpoints, active>>
  PROVE  /\ ArtifactsAgree' /\ CheckpointsTellTheTruth' /\ OperationRotatesOnce' /\ LabelsAgree'
         /\ Unpublished' = Unpublished /\ ChainEnd' = ChainEnd /\ Journal' = Journal
  <1>1. segments \in Seq(Segment) /\ active \in Seq(Entry) /\ Contiguous
    BY DEF JInv, TypeOK, ArtifactsAgree, Segment
  <1>2. Journal' = Journal
    BY <1>1, JournalKept
  <1>3. Journal \in Seq(Entry) /\ Len(Journal) \in Nat
    BY <1>1, JournalShape
  <1> QED BY <1>1, <1>2, <1>3, SameArtifacts

(* The checkpoint of a sequence number, whoever computes it.               *)
LEMMA CheckpointTypes ==
  ASSUME TypeOK, NEW n
  PROVE  /\ req \in Requests => CheckpointAt(n) \in Checkpoint
         /\ [opId |-> Recovered, at |-> None, state |-> StateAt(n)] \in Checkpoint
  <1>1. StateAt(n) \in [files -> SUBSET Clauses] /\ files \in SUBSET Namespaces
    BY DEF StateAt, Replay, TypeOK
  <1>2. StateAt(n) \in UNION {[S -> SUBSET Clauses] : S \in SUBSET Namespaces}
    BY <1>1
  <1> QED BY <1>2 DEF CheckpointAt, Checkpoint

(* Steps that end the call or the compaction and change no file.           *)
LEMMA AnswerInv ==
  ASSUME JInv, NEW a \in Answers, pc' = "idle", answer' = a, artifact' = None,
         a \in {"rotated", "prior", "nothing"} /\ ~dry' => Unpublished = {},
         UNCHANGED disk, req' \in {None} \cup Requests, dry' \in BOOLEAN,
         calls' \in 0..MaxCalls, failures' \in 0..MaxFailures
  PROVE  JInv'
  <1>1. UNCHANGED <<files, active, segments, checkpoints>>
    BY DEF disk
  <1>2. TypeOK'
    BY <1>1 DEF JInv, TypeOK
  <1>3. /\ ArtifactsAgree' /\ CheckpointsTellTheTruth' /\ OperationRotatesOnce' /\ LabelsAgree'
        /\ Unpublished' = Unpublished
    BY <1>1, SameDisk
  <1>4. ReturnsRepaired'
    BY <1>3 DEF ReturnsRepaired
  <1>5. JobAgrees'
    BY DEF JobAgrees
  <1> QED BY <1>2, <1>3, <1>4, <1>5 DEF JInv

(* Writers, listings and calls.                                            *)
LEMMA WriteInv == ASSUME JInv, Write PROVE JInv' /\ Journal' \in Seq(Entry)
                         /\ Len(Journal') = Len(Journal) + 1
                         /\ \A i \in 1..Len(Journal) : Journal'[i] = Journal[i]
  <1>1. /\ segments \in Seq(Segment) /\ active \in Seq(Entry) /\ Contiguous /\ TypeOK
    BY DEF JInv, TypeOK, ArtifactsAgree, Segment
  <1>2. PICK e \in Entry : /\ active' = Append(active, e)
                           /\ files' = IF e.op = "add" THEN files \cup {e.ns} ELSE files
    BY DEF Write
  <1>3. /\ UNCHANGED <<segments, checkpoints, pc, artifact, answer, req, dry, calls, failures>>
        /\ pc = "idle"
    BY DEF Write, KeepJob
  <1>4. Journal' = Append(Journal, e) /\ Journal \in Seq(Entry)
    BY <1>1, <1>2, <1>3, JournalAppended, JournalShape
  <1>5. /\ Journal' \in Seq(Entry) /\ Len(Journal') = Len(Journal) + 1
        /\ Len(Journal) \in Nat
        /\ \A i \in 1..Len(Journal) : Journal'[i] = Journal[i]
    BY <1>4, AppendProperties
  <1>6. active' \in Seq(Entry) /\ files' \in SUBSET Namespaces
    <2>1. active' \in Seq(Entry)
      BY <1>1, <1>2, AppendProperties
    <2>2. e.ns \in Namespaces
      BY DEF Entry
    <2> QED BY <1>1, <1>2, <2>1, <2>2 DEF TypeOK
  <1>7. TypeOK'
    BY <1>1, <1>3, <1>6 DEF TypeOK
  <1>8. /\ ArtifactsAgree' /\ CheckpointsTellTheTruth' /\ OperationRotatesOnce' /\ LabelsAgree'
        /\ Unpublished' = Unpublished
    BY <1>3, <1>5, <1>6, SameArtifacts
  <1>9. ReturnsRepaired' /\ JobAgrees'
    BY <1>3, <1>8 DEF JInv, ReturnsRepaired, JobAgrees
  <1> QED BY <1>5, <1>7, <1>8, <1>9 DEF JInv

LEMMA CallInv ==
  ASSUME JInv
  PROVE  /\ List => JInv'
         /\ \A r \in Requests, preview \in BOOLEAN : Compact(r, preview) => JInv'
  <1>0. TypeOK /\ LimitsAssumption
    BY LimitsAssumption DEF JInv
  <1>1. ASSUME List PROVE JInv'
    <2>1. /\ UNCHANGED disk /\ pc' = "idle" /\ artifact' = None /\ UNCHANGED <<req, dry, failures>>
          /\ calls' \in 0..MaxCalls /\ answer' \in {"listed", "refused"}
      BY <1>0, <1>1 DEF List, TypeOK, LimitsAssumption
    <2> QED BY <1>0, <2>1, AnswerInv DEF TypeOK, Answers
  <1>2. ASSUME NEW r \in Requests, NEW preview \in BOOLEAN, Compact(r, preview) PROVE JInv'
    <2>1. /\ UNCHANGED disk /\ req' = r /\ dry' = preview /\ UNCHANGED failures
          /\ calls' \in 0..MaxCalls /\ artifact' = None
      BY <1>0, <1>2 DEF Compact, TypeOK, LimitsAssumption, Answer
    <2>2. CASE ~Accepted
      BY <1>0, <1>2, <2>1, <2>2, AnswerInv DEF Compact, Answer, TypeOK, Answers
    <2>3. CASE Accepted
      <3>1. pc' = "repair" /\ answer' = "none" /\ UNCHANGED <<files, active, segments, checkpoints>>
        BY <1>2, <2>1, <2>3 DEF Compact, disk
      <3>2. TypeOK'
        BY <1>0, <2>1, <3>1 DEF TypeOK, Answers
      <3>3. ArtifactsAgree' /\ CheckpointsTellTheTruth' /\ OperationRotatesOnce' /\ LabelsAgree'
        BY <3>1, SameDisk
      <3>4. ReturnsRepaired' /\ JobAgrees'
        BY <2>1, <3>1 DEF ReturnsRepaired, JobAgrees
      <3> QED BY <3>2, <3>3, <3>4 DEF JInv
    <2> QED BY <2>2, <2>3
  <1> QED BY <1>1, <1>2

(* A checkpoint added at the end of a segment, if what it says is true and *)
(* its label is the segment's or that of a repair.                         *)
LEMMA PublishedKept ==
  ASSUME JInv, NEW e \in Nat, NEW c \in Checkpoint, HasSegment(e),
         \A ns \in DOMAIN c.state : c.state[ns] = Replay(Journal, e, ns),
         e \notin DOMAIN checkpoints,
         \A k \in 1..Len(segments) :
           segments[k].last = e => c.opId \in {Recovered, segments[k].opId},
         UNCHANGED <<segments, active>>,
         checkpoints' = [n \in DOMAIN checkpoints \cup {e} |->
                           IF n = e THEN c ELSE checkpoints[n]]
  PROVE  /\ DOMAIN checkpoints' \subseteq Nat
         /\ \A n \in DOMAIN checkpoints' : checkpoints'[n] \in Checkpoint
         /\ ArtifactsAgree' /\ CheckpointsTellTheTruth' /\ OperationRotatesOnce' /\ LabelsAgree'
         /\ Unpublished' = {k \in Unpublished : segments[k].last # e}
  <1>1. /\ segments \in Seq(Segment) /\ active \in Seq(Entry) /\ Contiguous /\ TypeOK
    BY DEF JInv, TypeOK, ArtifactsAgree, Segment
  <1>2. Journal' = Journal
    BY <1>1, JournalKept
  <1>3. /\ DOMAIN checkpoints' = DOMAIN checkpoints \cup {e}
        /\ checkpoints'[e] = c
        /\ \A n \in DOMAIN checkpoints \ {e} : checkpoints'[n] = checkpoints[n]
    OBVIOUS
  <1>4. /\ DOMAIN checkpoints' \subseteq Nat
        /\ \A n \in DOMAIN checkpoints' : checkpoints'[n] \in Checkpoint
    BY <1>1, <1>3 DEF TypeOK
  <1>5. ArtifactsAgree'
    BY <1>3 DEF JInv, ArtifactsAgree, Contiguous, HasSegment
  <1>6. CheckpointsTellTheTruth'
    BY <1>2, <1>3 DEF JInv, CheckpointsTellTheTruth
  <1>7. OperationRotatesOnce' /\ LabelsAgree'
    <2>1. OperationRotatesOnce /\ LabelsAgree
      BY DEF JInv
    <2>2. OperationRotatesOnce'
      BY <1>3, <2>1 DEF OperationRotatesOnce
    <2> QED BY <1>3, <2>1, <2>2 DEF LabelsAgree
  <1>8. Unpublished' = {k \in Unpublished : segments[k].last # e}
    BY <1>3 DEF Unpublished
  <1> QED BY <1>4, <1>5, <1>6, <1>7, <1>8

(* A repair publishes the true state of the segment's end.                 *)
LEMMA RepairInv == ASSUME JInv, Repair PROVE JInv'
  <1>0. /\ TypeOK /\ segments \in Seq(Segment) /\ JobAgrees
    BY DEF JInv, TypeOK, Segment
  <1>1. PICK k \in Unpublished :
          checkpoints' =
            [n \in DOMAIN checkpoints \cup {segments[k].last} |->
               IF n \in DOMAIN checkpoints THEN checkpoints[n]
               ELSE [opId |-> Recovered, at |-> None, state |-> StateAt(n)]]
    BY DEF Repair
  <1> DEFINE e == segments[k].last
             c == [opId |-> Recovered, at |-> None, state |-> StateAt(e)]
  <1>2. k \in 1..Len(segments) /\ e \notin DOMAIN checkpoints
    BY DEF Unpublished
  <1>3. segments[k] \in Segment /\ HasSegment(e)
    BY <1>0, <1>2 DEF HasSegment
  <1>4. e \in Nat /\ c \in Checkpoint
    BY <1>0, <1>3, CheckpointTypes DEF Segment
  <1>5. checkpoints' = [n \in DOMAIN checkpoints \cup {e} |->
                          IF n = e THEN c ELSE checkpoints[n]]
    BY <1>1, <1>2
  <1>6. c.opId = Recovered /\ c.state = StateAt(e)
    OBVIOUS
  <1>7. \A ns \in DOMAIN c.state : c.state[ns] = Replay(Journal, e, ns)
    BY <1>6 DEF StateAt
  <1>8. UNCHANGED <<files, active, segments, pc, artifact, answer, req, dry, calls, failures>>
        /\ pc = "repair"
    BY DEF Repair, KeepJob
  <1> HIDE DEF e, c
  <1>9. /\ DOMAIN checkpoints' \subseteq Nat
        /\ \A n \in DOMAIN checkpoints' : checkpoints'[n] \in Checkpoint
        /\ ArtifactsAgree' /\ CheckpointsTellTheTruth' /\ OperationRotatesOnce' /\ LabelsAgree'
    BY <1>2, <1>3, <1>4, <1>5, <1>6, <1>7, <1>8, PublishedKept
  <1>10. TypeOK'
    BY <1>0, <1>8, <1>9 DEF TypeOK
  <1>11. ReturnsRepaired' /\ JobAgrees'
    BY <1>0, <1>8 DEF ReturnsRepaired, JobAgrees
  <1> QED BY <1>9, <1>10, <1>11 DEF JInv

(* The compaction answers without a change to the files.                   *)
LEMMA EndInv ==
  ASSUME JInv, TooLong \/ Repeat \/ NothingToRotate \/ TooManySegments \/ Preview
                 \/ Fail \/ Crash
  PROVE  JInv'
  <1>0. TypeOK /\ LimitsAssumption
    BY LimitsAssumption DEF JInv
  <1>1. PICK a \in {"refused", "prior", "conflict", "nothing", "full", "preview", "failed", "none"} :
          /\ Answer(a) /\ UNCHANGED disk /\ UNCHANGED <<req, dry, calls>>
          /\ failures' \in 0..MaxFailures
          /\ a \in {"prior", "nothing"} => Settled
    BY <1>0 DEF TooLong, Repeat, NothingToRotate, TooManySegments, Preview, Fail, Crash,
         KeepJob, TypeOK, LimitsAssumption
  <1> QED BY <1>0, <1>1, AnswerInv DEF Answer, Answers, TypeOK, Settled

(* The rename of journal.log to the next segment.                          *)
LEMMA RotateInv == ASSUME JInv, Rotate PROVE JInv' /\ Journal' = Journal
  <1>0. /\ TypeOK /\ segments \in Seq(Segment) /\ active \in Seq(Entry) /\ Contiguous
        /\ ArtifactsAgree /\ JobAgrees /\ DOMAIN checkpoints \subseteq Nat
    BY DEF JInv, TypeOK, ArtifactsAgree, Segment
  <1> DEFINE m == Len(segments)
             e == ChainEnd + Len(active)
             s == [first |-> ChainEnd + 1, last |-> e, entries |-> active,
                   opId |-> req.opId]
  <1>1. /\ pc = "repair" /\ ~dry /\ Unpublished = {} /\ Prior = {} /\ active # <<>>
        /\ segments' = Append(segments, s) /\ active' = <<>>
        /\ artifact' = CheckpointAt(e) /\ pc' = "publish"
        /\ UNCHANGED <<files, checkpoints, answer, req, dry, calls, failures>>
    BY DEF Rotate, Rotatable, Settled, KeepJob
  <1>2. /\ ChainEnd \in Nat /\ Len(active) \in Nat /\ Len(Journal) = e
        /\ Journal \in Seq(Entry) /\ \A n \in Nat : HasSegment(n) => n <= ChainEnd
    BY <1>0, JournalShape
  <1>a. req \in Requests
    BY <1>0, <1>1 DEF JobAgrees
  <1>3. /\ s \in Segment /\ s.first = ChainEnd + 1 /\ s.last = e /\ s.entries = active
        /\ s.opId = req.opId /\ e \in Nat /\ ChainEnd < e
    <2>1. Len(active) # 0
      BY <1>0, <1>1, EmptySeq
    <2> QED BY <1>0, <1>2, <1>a, <2>1 DEF Segment
  <1> HIDE DEF s
  <1>4. Journal' = Journal
    BY <1>0, <1>1, <1>3, JournalRotated
  <1>5. /\ m \in Nat /\ segments' \in Seq(Segment) /\ Len(segments') = m + 1
        /\ segments'[m + 1] = s
        /\ \A k \in 1..m : segments'[k] = segments[k]
    BY <1>0, <1>1, <1>3, AppendProperties
  <1>6. ChainEnd' = e
    <2>1. segments' # <<>>
      BY <1>5
    <2> QED BY <1>3, <1>5, <2>1 DEF ChainEnd
  <1>7. req \in Requests /\ CheckpointAt(e) \in Checkpoint
    BY <1>0, <1>1, CheckpointTypes DEF JobAgrees
  <1>8. TypeOK'
    <2>1. active' \in Seq(Entry)
      BY <1>1
    <2> QED BY <1>0, <1>1, <1>5, <1>7, <2>1 DEF TypeOK, Segment
  <1>9. Contiguous'
    <2> SUFFICES ASSUME NEW k \in 1..(m + 1)
                 PROVE  /\ segments'[k].first = IF k = 1 THEN 1 ELSE segments'[k - 1].last + 1
                        /\ Len(segments'[k].entries) = segments'[k].last - segments'[k].first + 1
      BY <1>5 DEF Contiguous
    <2>1. CASE k \in 1..m
      <3>1. segments'[k] = segments[k] /\ (k # 1 => segments'[k - 1] = segments[k - 1])
        BY <1>5, <2>1
      <3> QED BY <1>0, <2>1, <3>1 DEF Contiguous
    <2>2. CASE k = m + 1
      <3>1. segments'[k] = s
        BY <1>5, <2>2
      <3>2. s.first = IF k = 1 THEN 1 ELSE segments'[k - 1].last + 1
        <4>1. CASE m = 0
          <5>1. segments = <<>>
            BY <1>0, <4>1, EmptySeq
          <5> QED BY <1>3, <2>2, <4>1, <5>1 DEF ChainEnd
        <4>2. CASE m # 0
          <5>1. segments # <<>> /\ k - 1 = m /\ m \in 1..m /\ k # 1
            BY <1>5, <2>2, <4>2
          <5>2. segments'[k - 1] = segments[m]
            BY <1>5, <5>1
          <5> QED BY <1>3, <5>1, <5>2 DEF ChainEnd
        <4> QED BY <4>1, <4>2
      <3>3. Len(s.entries) = s.last - s.first + 1
        BY <1>2, <1>3
      <3> QED BY <3>1, <3>2, <3>3
    <2> QED BY <1>5, <2>1, <2>2
  <1>10. \A n : HasSegment(n) => HasSegment(n)'
    BY <1>5 DEF HasSegment
  <1>11. HasSegment(ChainEnd)'
    <2>1. m + 1 \in 1..Len(segments') /\ segments'[m + 1].last = e
      BY <1>3, <1>5
    <2> QED BY <1>6, <2>1 DEF HasSegment
  <1>12. ArtifactsAgree'
    BY <1>0, <1>1, <1>9, <1>10 DEF ArtifactsAgree
  <1>13. CheckpointsTellTheTruth' /\ ReturnsRepaired'
    BY <1>1, <1>4 DEF JInv, CheckpointsTellTheTruth, ReturnsRepaired
  <1>b. e \notin DOMAIN checkpoints /\ \A k \in 1..m : segments[k].last # e
    <2>1. \A n \in Nat : n > ChainEnd => ~HasSegment(n)
      BY <1>2
    <2>2. ~HasSegment(e)
      BY <1>3, <2>1
    <2> QED BY <1>0, <2>2 DEF ArtifactsAgree, HasSegment
  <1>c. LabelsAgree'
    <2> SUFFICES ASSUME NEW k \in 1..(m + 1), segments'[k].last \in DOMAIN checkpoints
                 PROVE  checkpoints[segments'[k].last].opId \in {Recovered, segments'[k].opId}
      BY <1>1, <1>5 DEF LabelsAgree
    <2>1. k # m + 1
      BY <1>3, <1>5, <1>b
    <2>2. k \in 1..m /\ segments'[k] = segments[k]
      BY <1>5, <2>1
    <2> QED BY <2>2 DEF JInv, LabelsAgree
  <1>d. OperationRotatesOnce'
    <2> SUFFICES ASSUME NEW j \in 1..(m + 1), NEW k \in 1..(m + 1), j < k,
                        segments'[j].opId = segments'[k].opId, segments'[j].opId # None
                 PROVE  /\ segments'[j].last \in DOMAIN checkpoints
                        /\ checkpoints[segments'[j].last].opId = Recovered
      BY <1>1, <1>5 DEF OperationRotatesOnce
    <2>1. j \in 1..m /\ segments'[j] = segments[j]
      BY <1>5
    <2>2. CASE k \in 1..m
      <3>1. segments'[k] = segments[k]
        BY <1>5, <2>2
      <3> QED BY <2>1, <2>2, <3>1 DEF JInv, OperationRotatesOnce
    <2>3. CASE k = m + 1
      <3>1. segments[j].opId = req.opId /\ req.opId # None
        BY <1>3, <1>5, <2>1, <2>3
      <3>2. segments[j].last \in DOMAIN checkpoints
        BY <1>1, <2>1 DEF Unpublished
      <3>3. checkpoints[segments[j].last].opId \in {Recovered, req.opId}
        BY <2>1, <3>1, <3>2 DEF JInv, LabelsAgree
      <3>4. checkpoints[segments[j].last].opId # req.opId
        BY <1>1, <3>1, <3>2 DEF Prior
      <3> QED BY <2>1, <3>2, <3>3, <3>4
    <2> QED BY <1>5, <2>2, <2>3
  <1>14. \A k \in Unpublished' : segments'[k].last = e
    <2> SUFFICES ASSUME NEW k \in 1..(m + 1), segments'[k].last \notin DOMAIN checkpoints
                 PROVE  segments'[k].last = e
      BY <1>1, <1>5 DEF Unpublished
    <2>1. k \notin 1..m
      BY <1>1, <1>5 DEF Unpublished
    <2>2. k = m + 1
      BY <1>5, <2>1
    <2> QED BY <1>3, <1>5, <2>2
  <1>15. /\ \A k \in 1..(m + 1) : segments'[k].last = e => artifact'.opId = segments'[k].opId
         /\ \A ns \in DOMAIN artifact'.state : artifact'.state[ns] = Replay(Journal, e, ns)
    <2>1. artifact'.opId = req.opId
      BY <1>1 DEF CheckpointAt
    <2>2. ASSUME NEW k \in 1..(m + 1), segments'[k].last = e PROVE segments'[k].opId = req.opId
      <3>1. k \notin 1..m
        BY <1>5, <1>b, <2>2
      <3>2. k = m + 1
        BY <1>5, <3>1
      <3> QED BY <1>3, <1>5, <3>2
    <2>3. \A ns \in DOMAIN artifact'.state : artifact'.state[ns] = Replay(Journal, e, ns)
      BY <1>1 DEF CheckpointAt, StateAt
    <2> QED BY <2>1, <2>2, <2>3
  <1>16. ChainEnd' \notin DOMAIN checkpoints'
    BY <1>1, <1>6, <1>b
  <1>17. JobAgrees'
    <2>1. \A ns \in DOMAIN artifact'.state : artifact'.state[ns] = Replay(Journal', ChainEnd', ns)
      BY <1>4, <1>6, <1>15
    <2>2. \A k \in Unpublished' : segments'[k].last = ChainEnd'
      BY <1>6, <1>14
    <2>3. \A k \in 1..Len(segments') : segments'[k].last = ChainEnd' =>
            artifact'.opId = segments'[k].opId
      BY <1>5, <1>6, <1>15
    <2> QED BY <1>1, <1>7, <1>11, <1>16, <2>1, <2>2, <2>3 DEF JobAgrees
  <1> QED BY <1>4, <1>8, <1>12, <1>13, <1>17, <1>c, <1>d DEF JInv

(* The publication of the checkpoint that was computed before the rename.  *)
LEMMA PublishInv == ASSUME JInv, Publish PROVE JInv'
  <1>0. /\ TypeOK /\ segments \in Seq(Segment) /\ JobAgrees /\ pc = "publish"
        /\ active \in Seq(Entry) /\ Contiguous
    BY DEF JInv, TypeOK, Segment, Publish, ArtifactsAgree
  <1>1. /\ checkpoints' = [n \in DOMAIN checkpoints \cup {ChainEnd} |->
                             IF n = ChainEnd THEN artifact ELSE checkpoints[n]]
        /\ pc' = "idle" /\ answer' = "rotated" /\ artifact' = None
        /\ UNCHANGED <<files, active, segments, req, dry, calls, failures>>
    BY DEF Publish, Answer, KeepJob
  <1>2. ChainEnd \in Nat /\ artifact \in Checkpoint
    BY <1>0, JournalShape DEF TypeOK
  <1>3. /\ HasSegment(ChainEnd)
        /\ \A ns \in DOMAIN artifact.state : artifact.state[ns] = Replay(Journal, ChainEnd, ns)
        /\ ChainEnd \notin DOMAIN checkpoints
        /\ \A k \in 1..Len(segments) :
             segments[k].last = ChainEnd => artifact.opId = segments[k].opId
    BY <1>0 DEF JobAgrees
  <1>4. /\ DOMAIN checkpoints' \subseteq Nat
        /\ \A n \in DOMAIN checkpoints' : checkpoints'[n] \in Checkpoint
        /\ ArtifactsAgree' /\ CheckpointsTellTheTruth' /\ OperationRotatesOnce' /\ LabelsAgree'
        /\ Unpublished' = {k \in Unpublished : segments[k].last # ChainEnd}
    BY <1>1, <1>2, <1>3, PublishedKept
  <1>5. Unpublished' = {}
    BY <1>0, <1>4 DEF JobAgrees
  <1>6. TypeOK'
    BY <1>0, <1>1, <1>4 DEF TypeOK, Answers
  <1>7. ReturnsRepaired' /\ JobAgrees'
    BY <1>1, <1>5 DEF ReturnsRepaired, JobAgrees
  <1> QED BY <1>4, <1>6, <1>7 DEF JInv

(* The store starts without a journal.                                     *)
LEMMA InitInv == Init => JInv
  <1> SUFFICES ASSUME Init PROVE JInv
    OBVIOUS
  <1>1. /\ segments = <<>> /\ active = <<>> /\ Len(segments) = 0
        /\ DOMAIN checkpoints = {} /\ files = Born
    <2>1. DOMAIN << >> = {} /\ Len(<<>>) = 0
      OBVIOUS
    <2> QED BY <2>1 DEF Init
  <1>2. TypeOK
    <2>1. 0 \in 0..MaxCalls /\ 0 \in 0..MaxFailures
      BY LimitsAssumption
    <2>2. files \in SUBSET Namespaces
      BY <1>1, LimitsAssumption
    <2>3. active \in Seq(Entry) /\ segments \in Seq(Segment)
      BY <1>1, EmptySeq
    <2> QED BY <1>1, <2>1, <2>2, <2>3 DEF Init, TypeOK, Answers, Segment
  <1>3. ArtifactsAgree /\ CheckpointsTellTheTruth /\ OperationRotatesOnce /\ LabelsAgree
    BY <1>1 DEF ArtifactsAgree, Contiguous, CheckpointsTellTheTruth, OperationRotatesOnce,
         LabelsAgree
  <1>4. ReturnsRepaired /\ JobAgrees
    BY DEF Init, ReturnsRepaired, JobAgrees
  <1> QED BY <1>2, <1>3, <1>4 DEF JInv

(* Every step preserves the invariant.                                     *)
LEMMA InvStep == JInv /\ [Next]_vars => JInv'
  <1> SUFFICES ASSUME JInv, [Next]_vars PROVE JInv'
    OBVIOUS
  <1>1. CASE UNCHANGED vars
    <2>1. UNCHANGED <<files, active, segments, checkpoints, pc, req, dry, artifact,
                      answer, calls, failures>>
      BY <1>1 DEF vars, disk
    <2>2. /\ ArtifactsAgree' /\ CheckpointsTellTheTruth' /\ OperationRotatesOnce' /\ LabelsAgree'
          /\ Unpublished' = Unpublished /\ ChainEnd' = ChainEnd /\ Journal' = Journal
      BY <2>1, SameDisk
    <2>3. TypeOK'
      BY <2>1 DEF JInv, TypeOK
    <2>4. ReturnsRepaired'
      BY <2>1, <2>2 DEF JInv, ReturnsRepaired
    <2>5. JobAgrees'
      BY <2>1, <2>2 DEF JInv, JobAgrees, Prior, HasSegment
    <2> QED BY <2>2, <2>3, <2>4, <2>5 DEF JInv
  <1>2. CASE Next
    BY <1>2, WriteInv, CallInv, RepairInv, EndInv, RotateInv, PublishInv DEF Next
  <1> QED BY <1>1, <1>2

(* The journal only ever grows at its end, one entry at a time.            *)
LEMMA JournalStep ==
  ASSUME JInv, [Next]_vars
  PROVE  /\ Len(Journal') \in {Len(Journal), Len(Journal) + 1}
         /\ SubSeq(Journal', 1, Len(Journal)) = Journal
  <1>1. /\ segments \in Seq(Segment) /\ active \in Seq(Entry) /\ Contiguous
    BY DEF JInv, TypeOK, ArtifactsAgree, Segment
  <1>2. Journal \in Seq(Entry) /\ Len(Journal) \in Nat
    BY <1>1, JournalShape
  <1>3. ASSUME Journal' = Journal
        PROVE  /\ Len(Journal') \in {Len(Journal), Len(Journal) + 1}
               /\ SubSeq(Journal', 1, Len(Journal)) = Journal
    BY <1>2, <1>3, SubSeqFull
  <1>4. CASE Write
    <2> DEFINE j == Journal
               h == Journal'
    <2>1. /\ h \in Seq(Entry) /\ Len(h) = Len(j) + 1
          /\ \A i \in 1..Len(j) : h[i] = j[i]
      BY <1>4, WriteInv
    <2>2. j \in Seq(Entry) /\ Len(j) \in Nat
      BY <1>2
    <2> HIDE DEF j, h
    <2>3. SubSeq(h, 1, Len(j)) = j
      <3>1. \A i \in 1..Len(j) : h[i] \in Entry
        BY <2>1, <2>2
      <3>2. /\ SubSeq(h, 1, Len(j)) \in Seq(Entry)
            /\ Len(SubSeq(h, 1, Len(j))) = Len(j)
            /\ \A i \in 1..Len(j) : SubSeq(h, 1, Len(j))[i] = h[i]
        BY <2>1, <2>2, <3>1
      <3> QED BY <2>1, <2>2, <3>2, SeqEqual
    <2> QED BY <2>1, <2>3 DEF j, h
  <1>5. CASE Rotate
    BY <1>3, <1>5, RotateInv
  <1>6. CASE UNCHANGED <<segments, active>>
    BY <1>1, <1>3, <1>6, JournalKept
  <1>7. \/ Write \/ Rotate \/ UNCHANGED <<segments, active>>
    BY DEF Next, vars, disk, List, Compact, Repair, TooLong, Repeat, NothingToRotate,
         TooManySegments, Preview, Publish, Fail, Crash
  <1> QED BY <1>4, <1>5, <1>6, <1>7

(* Only a real run repairs, rotates or publishes.                          *)
LEMMA DryStep ==
  ASSUME JInv, Next, pc # "idle", dry
  PROVE  UNCHANGED disk
  <1>1. ~Write /\ ~List /\ ~Repair /\ ~Rotate /\ ~Publish
        /\ \A r \in Requests, preview \in BOOLEAN : ~Compact(r, preview)
    BY DEF JInv, TypeOK, Write, List, Repair, Rotate, Publish, Compact
  <1> QED BY <1>1 DEF Next, TooLong, Repeat, NothingToRotate, TooManySegments, Preview,
            Fail, Crash

(***************************************************************************)
(* The theorems.                                                           *)
(***************************************************************************)
(* The strengthened invariant holds in every state.                        *)
THEOREM Invariance == Spec => []JInv
  BY InitInv, InvStep, PTL DEF Spec

(* Every variable stays in its type, and a compaction holds a checkpoint   *)
(* exactly between the rename and the publication (compactJournal).        *)
THEOREM TypeCorrect == Spec => []TypeOK
  <1>1. JInv => TypeOK
    BY DEF JInv
  <1> QED BY <1>1, Invariance, PTL

(* At any point where a crash may leave the directories, the chain is      *)
(* unbroken, names agree with contents and every checkpoint has its        *)
(* segment (journalSegmentsUnlocked, assertCheckpointReplayUnlocked).      *)
THEOREM ArtifactsAlwaysAgree == Spec => []ArtifactsAgree
  <1>1. JInv => ArtifactsAgree
    BY DEF JInv
  <1> QED BY <1>1, Invariance, PTL

(* Every checkpoint, also one a repair computed long after its rotation,   *)
(* says of each namespace it lists what the journal says of it at its      *)
(* sequence number (checkpointArtifact).                                   *)
THEOREM CheckpointsAreTrue == Spec => []CheckpointsTellTheTruth
  <1>1. JInv => CheckpointsTellTheTruth
    BY DEF JInv
  <1> QED BY <1>1, Invariance, PTL

(* A compaction that returns normally leaves no segment without its        *)
(* checkpoint, whatever was interrupted before it (the repair loop).       *)
THEOREM CompactionRepairs == Spec => []ReturnsRepaired
  <1>1. JInv => ReturnsRepaired
    BY DEF JInv
  <1> QED BY <1>1, Invariance, PTL

(* Through any number of failures, crashes and retries an operation        *)
(* rotates twice only after a rotation of its that was interrupted before  *)
(* its publication and repaired under a recovered id (the prior lookup and *)
(* the repair loop of compactJournal).                                     *)
THEOREM RotatesOnce == Spec => []OperationRotatesOnce
  <1>1. JInv => OperationRotatesOnce
    BY DEF JInv
  <1> QED BY <1>1, Invariance, PTL

(* A recorded sequence number keeps its entry for ever, and a step records *)
(* one entry at most (compactJournal's rename, readJournalUnlocked).       *)
THEOREM SequencesAreForever == Spec => SequencesKeepTheirMeaning
  <1>1. JInv /\ [Next]_vars =>
          [/\ Len(Journal') \in {Len(Journal), Len(Journal) + 1}
           /\ SubSeq(Journal', 1, Len(Journal)) = Journal]_vars
    BY JournalStep
  <1> QED BY <1>1, Invariance, PTL DEF Spec, SequencesKeepTheirMeaning

(* From its call to its return a dry run changes no file.                  *)
THEOREM DryRunsAreDry == Spec => DryRunChangesNothing
  <1>1. JInv /\ [Next]_vars => [pc # "idle" /\ dry => UNCHANGED disk]_vars
    BY DryStep
  <1> QED BY <1>1, Invariance, PTL DEF Spec, DryRunChangesNothing
=============================================================================
