-------------------------- MODULE AutoCaptureProofs --------------------------
(***************************************************************************)
(* A transcript is asked for once, the files are what the journal says,    *)
(* and pruning spares what was asserted again: for any number of workers,  *)
(* namespaces and facts, and any crashes and failures of the logs.         *)
(***************************************************************************)
EXTENDS AutoCapture, FiniteSetTheorems, TLAPS

Appended(e) == journal' = Append(journal, e)

(* Facts are added once, and after they were found.                        *)
NothingYet ==
  \A w \in Workers :
    pc[w] \in {"idle", "skip", "reserve", "extract", "assert"} => got[w] = {}

IInv == TypeOK /\ NothingYet

-----------------------------------------------------------------------------
(* Entries                                                                 *)

(* An entry with empty details.                                            *)
LEMMA EntryType ==
  ASSUME NEW op \in Operations, NEW n \in Namespaces,
         NEW c \in Workers \cup {None}, today \in 1..MaxDay
  PROVE  /\ Entry(op, n, c) \in Entries
         /\ Entry(op, n, c).op = op /\ Entry(op, n, c).ns = n /\ Entry(op, n, c).cap = c
         /\ Entry(op, n, c).status = None
         /\ Entry(op, n, c).added = {} /\ Entry(op, n, c).removed = {}
  BY CapAssumption DEF Entry, Entries

(* An entry about a capture.                                               *)
LEMMA StatusType ==
  ASSUME TypeOK, NEW w \in Workers, pc[w] # "idle", NEW status \in Statuses
  PROVE  /\ Status(w, status) \in Entries
         /\ Status(w, status).status = status
         /\ Status(w, status).ns = job[w].ns
         /\ Status(w, status).op = "auto_capture" /\ Status(w, status).cap = w
         /\ Status(w, status).added = {} /\ Status(w, status).removed = {}
  <1>1. job[w] \in Jobs
    BY DEF TypeOK
  <1> DEFINE e == Entry("auto_capture", job[w].ns, w)
  <1>2. e \in Entries /\ e.added = {} /\ e.removed = {} /\ e.ns = job[w].ns
        /\ e.op = "auto_capture" /\ e.cap = w
    BY <1>1, EntryType DEF TypeOK, Operations, Jobs
  <1>3. Status(w, status) = [e EXCEPT !.status = status, !.day = job[w].day]
    BY DEF Status
  <1>4. job[w].day \in 0..MaxDay
    BY <1>1, CapAssumption DEF Jobs
  <1> HIDE DEF e
  <1> QED
    BY <1>2, <1>3, <1>4 DEF Entries

(* Appending keeps the entries there are and adds one at the end.          *)
LEMMA AppendedFacts ==
  ASSUME journal \in Seq(Entries), NEW e \in Entries, Appended(e)
  PROVE  /\ journal' \in Seq(Entries)
         /\ DOMAIN journal = 1..Len(journal)
         /\ DOMAIN journal' = DOMAIN journal \cup {Len(journal) + 1}
         /\ Len(journal) \in Nat
         /\ \A i \in DOMAIN journal : journal'[i] = journal[i]
         /\ journal'[Len(journal) + 1] = e
  BY DEF Appended

(* What a capture added stays open to review.                              *)
LEMMA CapturedGrows ==
  ASSUME journal \in Seq(Entries), NEW e \in Entries, Appended(e)
  PROVE  Captured \subseteq Captured'
  BY AppendedFacts DEF Captured

-----------------------------------------------------------------------------
(* Types                                                                   *)

(* Counting facts gives a number.                                          *)
LEMMA FactsAreCounted ==
  ASSUME NEW F \in SUBSET Facts
  PROVE  Cardinality(F) \in Nat
  BY FactsAssumption, FS_Subset, FS_CardinalityType

(* The day is one of the calendar's.                                       *)
LEMMA Today == ASSUME TypeOK PROVE today \in 0..MaxDay
  BY CapAssumption DEF TypeOK

(* A worker's step that appends an entry and moves on keeps the types.     *)
LEMMA NotedType ==
  ASSUME IInv, NEW w \in Workers, NEW e \in Entries, Appended(e),
         NEW label \in {"extract", "ended"}, Goto(w, label),
         pc[w] \in {"skip", "reserve", "finish", "fail"},
         pc[w] # "reserve" => label = "ended",
         UNCHANGED <<stored, errors, job, found, got, failures>>, UserKept
  PROVE  IInv'
  <1>1. journal' \in Seq(Entries) /\ Captured \subseteq Captured'
    BY AppendedFacts, CapturedGrows DEF IInv, TypeOK
  <1>2. pc' \in [Workers -> Labels]
    BY DEF IInv, TypeOK, Goto, Labels
  <1>3. \A v \in Workers : pc'[v] = IF v = w THEN label ELSE pc[v]
    BY DEF IInv, TypeOK, Goto
  <1>4. pruning' = None \/ pruning' \in [ns : Namespaces, todo : SUBSET Captured',
                                        more : SUBSET Captured', removed : Nat]
    BY <1>1 DEF IInv, TypeOK, UserKept
  <1>5. TypeOK'
    BY <1>1, <1>2, <1>3, <1>4 DEF IInv, TypeOK, UserKept
  <1>6. NothingYet'
    BY <1>3 DEF IInv, NothingYet
  <1> QED
    BY <1>5, <1>6 DEF IInv

(* Initially every variable holds a value of its kind.                     *)
LEMMA InitType == ASSUME Init PROVE IInv
  <1>1. <<>> \in Seq(Entries)
    OBVIOUS
  <1> QED
    BY <1>1, CapAssumption DEF Init, IInv, TypeOK, NothingYet, Labels

(* Each step keeps the types.                                              *)
LEMMA NextType ==
  ASSUME IInv, Next
  PROVE  IInv'
  <1> USE DEF IInv
  <1>1. CASE NextDay
    BY <1>1, CapAssumption DEF NextDay, WorkerKept, TypeOK, NothingYet, Captured
  <1>2. ASSUME NEW w \in Workers, NEW n \in Namespaces, NEW t \in Transcripts,
               Stop(w, n, t)
        PROVE  IInv'
    BY <1>2 DEF Stop, Goto, UserKept, TypeOK, NothingYet, Captured, Labels, Jobs
  <1>3. ASSUME NEW w \in Workers, Skip(w) PROVE IInv'
    <2>1. Status(w, "skipped") \in Entries
      BY <1>3, StatusType DEF Skip, Statuses
    <2> QED
      BY <1>3, <2>1, NotedType DEF Skip, Appended
  <1>4. ASSUME NEW w \in Workers, Reserve(w) PROVE IInv'
    <2>1. \A s \in Statuses :
            [Status(w, s) EXCEPT !.fp = job[w].fp] \in Entries
      <3>1. job[w].fp \in Transcripts
        BY <1>4 DEF Reserve, TypeOK, Jobs
      <3> QED
        BY <1>4, <3>1, StatusType DEF Reserve, Entries
    <2> QED
      BY <1>4, <2>1, NotedType DEF Reserve, Appended, Statuses
  <1>5. ASSUME NEW w \in Workers, Extract(w) PROVE IInv'
    BY <1>5 DEF Extract, Goto, UserKept, TypeOK, NothingYet, Captured, Labels
  <1>6. ASSUME NEW w \in Workers, ExtractFails(w) PROVE IInv'
    BY <1>6 DEF ExtractFails, Goto, UserKept, TypeOK, NothingYet, Captured, Labels
  <1>7. ASSUME NEW w \in Workers, AssertFacts(w) PROVE IInv'
    <2> DEFINE n == job[w].ns
               new == found[w] \ stored[n]
               e == [Entry("assert", n, w) EXCEPT !.day = job[w].day, !.added = new]
    <2>1. n \in Namespaces /\ job[w].day \in 0..MaxDay
      BY <1>7, CapAssumption DEF AssertFacts, TypeOK, Jobs
    <2>2. new \in SUBSET Facts /\ new \subseteq found[w]
      BY DEF TypeOK
    <2>3. e \in Entries
      <3>1. Entry("assert", n, w) \in Entries
        BY <2>1, EntryType DEF TypeOK, Operations
      <3> HIDE DEF n, new
      <3> QED
        BY <2>1, <2>2, <3>1 DEF Entries
    <2>4. Appended(e) /\ got' = [got EXCEPT ![w] = new]
          /\ stored' = [stored EXCEPT ![n] = @ \cup new]
          /\ (Goto(w, "finish") \/ Goto(w, "fail"))
          /\ UNCHANGED <<errors, job, found, failures>> /\ UserKept
      BY <1>7 DEF AssertFacts, Appended
    <2> HIDE DEF n, new, e
    <2>5. journal' \in Seq(Entries) /\ Captured \subseteq Captured'
      BY <2>3, <2>4, AppendedFacts, CapturedGrows DEF TypeOK
    <2>6. pc' \in [Workers -> Labels]
          /\ \A v \in Workers : IF v = w THEN pc'[v] \in {"finish", "fail"}
                                         ELSE pc'[v] = pc[v]
      BY <2>4 DEF Goto, TypeOK, Labels
    <2>7. stored' \in [Namespaces -> SUBSET Facts]
          /\ got' \in [Workers -> SUBSET Facts]
          /\ \A v \in Workers : got'[v] = IF v = w THEN new ELSE got[v]
      BY <2>1, <2>2, <2>4 DEF TypeOK
    <2>8. pruning' = None \/ pruning' \in [ns : Namespaces, todo : SUBSET Captured',
                                          more : SUBSET Captured', removed : Nat]
      BY <2>4, <2>5 DEF TypeOK, UserKept
    <2>9. pc[w] = "assert"
      BY <1>7 DEF AssertFacts
    <2>10. TypeOK'
      BY <2>2, <2>4, <2>5, <2>6, <2>7, <2>8, <2>9 DEF TypeOK, UserKept
    <2>11. NothingYet'
      BY <2>6, <2>7 DEF NothingYet
    <2> QED
      BY <2>10, <2>11
  <1>8. ASSUME NEW w \in Workers, AssertFails(w) PROVE IInv'
    BY <1>8 DEF AssertFails, Goto, UserKept, TypeOK, NothingYet, Captured, Labels
  <1>9. ASSUME NEW w \in Workers, Finish(w) PROVE IInv'
    <2>1. Cardinality(got[w]) \in Nat
      BY FactsAreCounted DEF TypeOK
    <2>2. Status(w, Outcome(w)) \in Entries
      BY <1>9, StatusType DEF Finish, Outcome, Statuses
    <2>3. [Status(w, Outcome(w)) EXCEPT !.count = Cardinality(got[w])] \in Entries
      BY <2>1, <2>2 DEF Entries
    <2> QED
      BY <1>9, <2>3, NotedType DEF Finish, Appended
  <1>10. ASSUME NEW w \in Workers, Fail(w) PROVE IInv'
    <2>1. Status(w, "failed") \in Entries
      BY <1>10, StatusType DEF Fail, Statuses
    <2> QED
      BY <1>10, <2>1, NotedType DEF Fail, Appended
  <1>11. ASSUME NEW w \in Workers,
                JournalDown(w) \/ Emergency(w) \/ EmergencyLost(w) \/ Die(w)
         PROVE  IInv'
    BY <1>11 DEF JournalDown, Emergency, EmergencyLost, Die, Goto, UserKept,
                 TypeOK, NothingYet, Captured, Labels
  <1>12. ASSUME NEW op \in Operations, NEW n \in Namespaces,
                NEW removed \in SUBSET Facts, NEW added \in SUBSET Facts,
                Change(op, n, removed, added)
         PROVE  IInv'
    <2> DEFINE e == [Entry(op, n, None) EXCEPT !.removed = removed, !.added = added]
    <2>1. e \in Entries
      <3>1. Entry(op, n, None) \in Entries
        BY EntryType DEF TypeOK
      <3> QED
        BY <3>1 DEF Entries
    <2>2. Appended(e)
      BY <1>12 DEF Change, Appended
    <2> HIDE DEF e
    <2>3. journal' \in Seq(Entries) /\ Captured \subseteq Captured'
      BY <2>1, <2>2, AppendedFacts, CapturedGrows DEF TypeOK
    <2> QED
      BY <1>12, <2>3 DEF Change, WorkerKept, TypeOK, NothingYet
  <1>13. ASSUME NEW S \in SUBSET Captured, Prune(S) PROVE IInv'
    BY <1>13 DEF Prune, In, WorkerKept, TypeOK, NothingYet, Captured
  <1>14. ASSUME pruning # None, NEW s \in pruning.todo, PruneOne(s) PROVE IInv'
    <2>1. pruning \in [ns : Namespaces, todo : SUBSET Captured,
                       more : SUBSET Captured, removed : Nat]
      BY <1>14 DEF TypeOK
    <2>2. s \in Captured
      BY <2>1
    <2> DEFINE c == journal[s.at].cap
               e == [Entry("retract", pruning.ns, c) EXCEPT !.removed = {s.fact}]
    <2>3. e \in Entries
      <3>1. c \in Workers \cup {None} /\ s.fact \in Facts
        <4>1. s.at \in DOMAIN journal /\ s.fact \in Facts
          BY <2>2 DEF Captured
        <4>2. journal[s.at] \in Entries
          BY <4>1 DEF TypeOK
        <4> QED
          BY <4>1, <4>2 DEF Entries
      <3>2. Entry("retract", pruning.ns, c) \in Entries
        BY <2>1, <3>1, EntryType DEF TypeOK, Operations
      <3> HIDE DEF c
      <3> QED
        BY <3>1, <3>2 DEF Entries
    <2>4. Appended(e) \/ journal' = journal
      BY <1>14 DEF PruneOne, Appended
    <2> HIDE DEF c, e
    <2>5. journal' \in Seq(Entries) /\ Captured \subseteq Captured'
      BY <2>3, <2>4, AppendedFacts, CapturedGrows DEF TypeOK, Captured
    <2>6. pruning' \in [ns : Namespaces, todo : SUBSET Captured,
                        more : SUBSET Captured, removed : Nat]
      <3>1. pruning' = [pruning EXCEPT !.todo = @ \ {s}, !.removed = @ + 1]
            \/ pruning' = [pruning EXCEPT !.todo = @ \ {s}]
        BY <1>14 DEF PruneOne
      <3> DEFINE T == SUBSET Captured
      <3>2. pruning \in [ns : Namespaces, todo : T, more : T, removed : Nat]
            /\ pruning.todo \ {s} \in T
        BY <2>1
      <3> HIDE DEF T
      <3>3. pruning' \in [ns : Namespaces, todo : T, more : T, removed : Nat]
        <4>1. pruning.removed + 1 \in Nat
          BY <3>2
        <4> DEFINE rest == pruning.todo \ {s}
                   more == pruning.removed + 1
        <4>2. pruning' = [pruning EXCEPT !.todo = rest, !.removed = more]
              \/ pruning' = [pruning EXCEPT !.todo = rest]
          BY <3>1
        <4>3. rest \in T /\ more \in Nat
          BY <3>2, <4>1
        <4> HIDE DEF rest, more
        <4> QED
          BY <3>2, <4>2, <4>3
      <3> QED
        BY <3>3 DEF T
    <2>7. stored' \in [Namespaces -> SUBSET Facts]
      BY <1>14, <2>1 DEF PruneOne, TypeOK
    <2>8. UNCHANGED <<today, failures, changes, prunes, errors, pc, job, found, got>>
      BY <1>14 DEF PruneOne, WorkerKept
    <2> QED
      BY <2>5, <2>6, <2>7, <2>8 DEF TypeOK, NothingYet
  <1>15. ASSUME pruning # None, PruneNote PROVE IInv'
    <2>1. pruning \in [ns : Namespaces, todo : SUBSET Captured,
                       more : SUBSET Captured, removed : Nat]
      BY <1>15 DEF TypeOK
    <2> DEFINE e == [Entry("auto_capture_pruned", pruning.ns, None)
                       EXCEPT !.count = pruning.removed]
    <2>2. e \in Entries
      <3>1. Entry("auto_capture_pruned", pruning.ns, None) \in Entries
        BY <2>1, EntryType DEF TypeOK, Operations
      <3> QED
        BY <2>1, <3>1 DEF Entries
    <2>3. Appended(e)
      BY <1>15 DEF PruneNote, Appended
    <2> HIDE DEF e
    <2>4. journal' \in Seq(Entries) /\ Captured \subseteq Captured'
      BY <2>2, <2>3, AppendedFacts, CapturedGrows DEF TypeOK
    <2>5. pruning' = None \/ pruning' \in [ns : Namespaces, todo : SUBSET Captured,
                                          more : SUBSET Captured, removed : Nat]
      BY <1>15, <2>1 DEF PruneNote, In
    <2>6. UNCHANGED <<stored, today, failures, changes, prunes,
                      errors, pc, job, found, got>>
      BY <1>15 DEF PruneNote, WorkerKept
    <2> QED
      BY <2>4, <2>5, <2>6 DEF TypeOK, NothingYet
  <1>16. ASSUME PruneFails PROVE IInv'
    BY <1>16 DEF PruneFails, WorkerKept, TypeOK, NothingYet, Captured
  <1>17. ASSUME NEW n \in Namespaces, NEW f \in Facts,
                \/ ManualAssert(n, f) \/ Retract(n, f)
                \/ \E F \in SUBSET (Facts \ {f}) : Supersede(n, F, f)
         PROVE  IInv'
    BY <1>12, <1>17 DEF ManualAssert, Retract, Supersede, Operations
  <1> QED
    BY <1>1, <1>2, <1>3, <1>4, <1>5, <1>6, <1>7, <1>8, <1>9, <1>10, <1>11,
       <1>13, <1>14, <1>15, <1>16, <1>17 DEF Next, Work, User, PruneGoesOn

(* Every variable keeps its kind (TypeOK of AutoCapture).                  *)
THEOREM TypeCorrect == Spec => []TypeOK
  <1>1. IInv /\ UNCHANGED vars => IInv'
    BY DEF IInv, TypeOK, NothingYet, vars, Captured
  <1>2. IInv /\ [Next]_vars => IInv'
    BY <1>1, NextType
  <1>3. IInv => TypeOK
    BY DEF IInv
  <1> QED
    BY InitType, <1>2, <1>3, PTL DEF Spec

-----------------------------------------------------------------------------
(* What a step does to the journal and the files together.                 *)

Honest(e) ==
  /\ Appended(e)
  /\ stored' = [stored EXCEPT ![e.ns] = (@ \ e.removed) \cup e.added]
  /\ e.status = "started" =>
       /\ \A i \in Started(e.ns) : journal[i].fp # e.fp
       /\ Cardinality({i \in Started(e.ns) : journal[i].day = e.day}) < DailyCap

(* An entry without facts goes with unchanged files.                       *)
LEMMA NoteIsHonest ==
  ASSUME TypeOK, NEW e \in Entries, Appended(e), stored' = stored,
         e.added = {}, e.removed = {}, e.status # "started"
  PROVE  Honest(e)
  BY DEF Honest, TypeOK, Entries

(* The attempts of a day are counted.                                      *)
LEMMA AttemptsAreCounted ==
  ASSUME TypeOK, NEW n, NEW d
  PROVE  /\ IsFiniteSet({i \in Started(n) : journal[i].day = d})
         /\ Cardinality({i \in Started(n) : journal[i].day = d}) \in Nat
  <1>1. {i \in Started(n) : journal[i].day = d} \subseteq 1..Len(journal)
    BY DEF TypeOK, Started
  <1>2. IsFiniteSet(1..Len(journal))
    BY FS_Interval DEF TypeOK
  <1> QED
    BY <1>1, <1>2, FS_Subset, FS_CardinalityType

(* A step appends at most one entry, which says what happens to the files, *)
(* and begins no attempt that the reservation should have turned down.     *)
LEMMA StepsAreHonest ==
  ASSUME IInv, Next
  PROVE  \/ journal' = journal /\ stored' = stored
         \/ \E e \in Entries : Honest(e)
  <1> USE DEF IInv
  <1>1. CASE NextDay
    BY <1>1 DEF NextDay
  <1>2. ASSUME NEW w \in Workers,
               \/ \E n \in Namespaces, t \in Transcripts : Stop(w, n, t)
               \/ Extract(w) \/ ExtractFails(w) \/ AssertFails(w)
               \/ JournalDown(w) \/ Emergency(w) \/ EmergencyLost(w) \/ Die(w)
        PROVE  journal' = journal /\ stored' = stored
    BY <1>2 DEF Stop, Extract, ExtractFails, AssertFails, JournalDown,
                Emergency, EmergencyLost, Die
  <1>3. ASSUME NEW w \in Workers, Skip(w) \/ Fail(w)
        PROVE  \E e \in Entries : Honest(e)
    <2>1. PICK status \in {"skipped", "failed"} : Appended(Status(w, status))
      BY <1>3 DEF Skip, Fail, Appended
    <2>2. stored' = stored /\ pc[w] # "idle" /\ status \in Statuses
      BY <1>3 DEF Skip, Fail, Statuses
    <2> QED
      BY <2>1, <2>2, StatusType, NoteIsHonest
  <1>4. ASSUME NEW w \in Workers, Reserve(w)
        PROVE  \E e \in Entries : Honest(e)
    <2> DEFINE e(s) == [Status(w, s) EXCEPT !.fp = job[w].fp]
    <2>1. job[w] \in Jobs /\ stored' = stored
      BY <1>4 DEF Reserve, TypeOK
    <2>2. \A s \in Statuses :
            /\ e(s) \in Entries /\ e(s).status = s /\ e(s).ns = job[w].ns
            /\ e(s).fp = job[w].fp /\ e(s).added = {} /\ e(s).removed = {}
      BY <1>4, <2>1, StatusType DEF Reserve, Jobs, Entries
    <2>3. e("started").day = job[w].day
      BY <2>1 DEF Status, Entry
    <2>4. CASE Duplicate(w) \/ OverCap(w)
      <3>1. Appended(e("skipped"))
        BY <1>4, <2>4 DEF Reserve, Appended
      <3> QED
        BY <2>1, <2>2, <3>1, NoteIsHonest DEF Statuses
    <2>5. CASE ~Duplicate(w) /\ ~OverCap(w)
      <3>1. Appended(e("started"))
        BY <1>4, <2>5 DEF Reserve, Appended
      <3>2. \A i \in Started(job[w].ns) : journal[i].fp # job[w].fp
        BY <2>5 DEF Duplicate
      <3>3. Cardinality({i \in Started(job[w].ns) : journal[i].day = job[w].day})
              < DailyCap
        <4> DEFINE k == Cardinality({i \in Started(job[w].ns) :
                                      journal[i].day = job[w].day})
        <4>1. k \in Nat
          BY AttemptsAreCounted
        <4>2. ~(k >= DailyCap)
          BY <2>5 DEF OverCap
        <4> HIDE DEF k
        <4>3. k < DailyCap
          BY <4>1, <4>2, CapAssumption
        <4> QED
          BY <4>3 DEF k
      <3>4. e("started") \in Entries /\ e("started").ns = job[w].ns
            /\ e("started").fp = job[w].fp
            /\ e("started").added = {} /\ e("started").removed = {}
        BY <2>2 DEF Statuses
      <3> HIDE DEF e
      <3>5. Honest(e("started"))
        BY <2>1, <2>3, <3>1, <3>2, <3>3, <3>4 DEF Honest, TypeOK, Jobs
      <3> QED
        BY <3>4, <3>5
    <2> QED
      BY <2>4, <2>5
  <1>5. ASSUME NEW w \in Workers, AssertFacts(w)
        PROVE  \E e \in Entries : Honest(e)
    <2> DEFINE n == job[w].ns
               new == found[w] \ stored[n]
               e == [Entry("assert", n, w) EXCEPT !.day = job[w].day, !.added = new]
    <2>1. n \in Namespaces /\ job[w].day \in 0..MaxDay
      BY <1>5, CapAssumption DEF AssertFacts, TypeOK, Jobs
    <2>2. new \in SUBSET Facts
      BY DEF TypeOK
    <2>3. Appended(e) /\ stored' = [stored EXCEPT ![n] = @ \cup new]
      BY <1>5 DEF AssertFacts, Appended
    <2>4. Entry("assert", n, w) \in Entries /\ Entry("assert", n, w).ns = n
          /\ Entry("assert", n, w).status = None /\ Entry("assert", n, w).removed = {}
      BY <2>1, EntryType DEF TypeOK, Operations
    <2> HIDE DEF n, new
    <2>5. /\ e \in Entries /\ e.ns = n /\ e.status = None
          /\ e.removed = {} /\ e.added = new
      BY <2>1, <2>2, <2>4 DEF Entries
    <2> HIDE DEF e
    <2>6. Honest(e)
      BY <2>1, <2>3, <2>5, NoneAssumption DEF Honest, TypeOK
    <2> QED
      BY <2>5, <2>6
  <1>6. ASSUME NEW w \in Workers, Finish(w)
        PROVE  \E e \in Entries : Honest(e)
    <2> DEFINE e == [Status(w, Outcome(w)) EXCEPT !.count = Cardinality(got[w])]
    <2>1. Cardinality(got[w]) \in Nat
      BY FactsAreCounted DEF TypeOK
    <2>2. Outcome(w) \in {"empty", "captured"}
      BY DEF Outcome
    <2>3. /\ Status(w, Outcome(w)) \in Entries
          /\ Status(w, Outcome(w)).status = Outcome(w)
          /\ Status(w, Outcome(w)).added = {} /\ Status(w, Outcome(w)).removed = {}
      BY <1>6, <2>2, StatusType DEF Finish, Statuses
    <2>4. e \in Entries /\ e.status # "started" /\ e.added = {} /\ e.removed = {}
      BY <2>1, <2>2, <2>3 DEF Entries
    <2>5. Appended(e) /\ stored' = stored
      BY <1>6 DEF Finish, Appended
    <2> QED
      BY <2>4, <2>5, NoteIsHonest
  <1>7. ASSUME NEW op \in Operations, NEW n \in Namespaces,
               NEW removed \in SUBSET Facts, NEW added \in SUBSET Facts,
               Change(op, n, removed, added)
        PROVE  \E e \in Entries : Honest(e)
    <2> DEFINE e == [Entry(op, n, None) EXCEPT !.removed = removed, !.added = added]
    <2>1. /\ Entry(op, n, None) \in Entries /\ Entry(op, n, None).ns = n
          /\ Entry(op, n, None).status = None
      BY EntryType DEF TypeOK
    <2>2. /\ e \in Entries /\ e.ns = n /\ e.status = None
          /\ e.removed = removed /\ e.added = added
      BY <2>1 DEF Entries
    <2>3. Appended(e) /\ stored' = [stored EXCEPT ![n] = (@ \ removed) \cup added]
      BY <1>7 DEF Change, Appended
    <2> HIDE DEF e
    <2>4. Honest(e)
      BY <2>2, <2>3, NoneAssumption DEF Honest
    <2> QED
      BY <2>2, <2>4
  <1>8. ASSUME NEW S \in SUBSET Captured, Prune(S) \/ PruneFails
        PROVE  journal' = journal /\ stored' = stored
    BY <1>8 DEF Prune, PruneFails
  <1>9. ASSUME pruning # None, NEW s \in pruning.todo, PruneOne(s)
        PROVE  \/ journal' = journal /\ stored' = stored
               \/ \E e \in Entries : Honest(e)
    <2>1. pruning.ns \in Namespaces /\ s \in Captured
      BY <1>9 DEF TypeOK
    <2> DEFINE c == journal[s.at].cap
               e == [Entry("retract", pruning.ns, c) EXCEPT !.removed = {s.fact}]
    <2>2. c \in Workers \cup {None} /\ s.fact \in Facts
      <3>1. s.at \in DOMAIN journal /\ s.fact \in Facts
        BY <2>1 DEF Captured
      <3>2. journal[s.at] \in Entries
        BY <3>1 DEF TypeOK
      <3> QED
        BY <3>1, <3>2 DEF Entries
    <2>3. CASE ~Prunable(s)
      BY <1>9, <2>3 DEF PruneOne
    <2>4. CASE Prunable(s)
      <3>1. /\ Appended(e)
            /\ stored' = [stored EXCEPT ![pruning.ns] = @ \ {s.fact}]
        BY <1>9, <2>4 DEF PruneOne, Appended
      <3> HIDE DEF c
      <3>2. /\ Entry("retract", pruning.ns, c) \in Entries
            /\ Entry("retract", pruning.ns, c).ns = pruning.ns
            /\ Entry("retract", pruning.ns, c).status = None
            /\ Entry("retract", pruning.ns, c).added = {}
        BY <2>1, <2>2, EntryType DEF TypeOK, Operations
      <3>3. /\ e \in Entries /\ e.ns = pruning.ns /\ e.status = None
            /\ e.removed = {s.fact} /\ e.added = {}
        BY <2>2, <3>2 DEF Entries
      <3> HIDE DEF e
      <3>4. Honest(e)
        BY <2>1, <3>1, <3>3, NoneAssumption DEF Honest, TypeOK
      <3> QED
        BY <3>3, <3>4
    <2> QED
      BY <2>3, <2>4
  <1>10. ASSUME pruning # None, PruneNote
         PROVE  \E e \in Entries : Honest(e)
    <2>1. pruning.ns \in Namespaces /\ pruning.removed \in Nat
      BY <1>10 DEF TypeOK
    <2> DEFINE b == Entry("auto_capture_pruned", pruning.ns, None)
               e == [b EXCEPT !.count = pruning.removed]
    <2>2. b \in Entries /\ b.status = None /\ b.added = {} /\ b.removed = {}
      BY <2>1, EntryType DEF TypeOK, Operations
    <2> HIDE DEF b
    <2>3. e \in Entries /\ e.status # "started" /\ e.added = {} /\ e.removed = {}
      BY <2>1, <2>2, NoneAssumption DEF Entries
    <2>4. Appended(e) /\ stored' = stored
      BY <1>10 DEF PruneNote, Appended, b
    <2> QED
      BY <2>3, <2>4, NoteIsHonest
  <1>11. ASSUME NEW n \in Namespaces, NEW f \in Facts,
                \/ ManualAssert(n, f) \/ Retract(n, f)
                \/ \E F \in SUBSET (Facts \ {f}) : Supersede(n, F, f)
         PROVE  \E e \in Entries : Honest(e)
    BY <1>7, <1>11 DEF ManualAssert, Retract, Supersede, Operations
  <1>12. CASE PruneFails
    BY <1>12 DEF PruneFails
  <1> QED
    BY <1>1, <1>2, <1>3, <1>4, <1>5, <1>6, <1>8, <1>9, <1>10, <1>11, <1>12
       DEF Next, Work, User, PruneGoesOn

-----------------------------------------------------------------------------
(* The properties                                                          *)

(* An unchanged state keeps the types.                                     *)
LEMMA StutterType == ASSUME IInv, UNCHANGED vars PROVE IInv'
  BY DEF IInv, TypeOK, NothingYet, vars, Captured

(* An honest step asks for no transcript twice.                            *)
LEMMA AttemptStep ==
  ASSUME IInv, OneAttemptPerTranscript, NEW e \in Entries, Honest(e)
  PROVE  OneAttemptPerTranscript'
  <1> DEFINE new == Len(journal) + 1
  <1>1. journal \in Seq(Entries) /\ Appended(e)
    BY DEF IInv, TypeOK, Honest
  <1>2. /\ DOMAIN journal' = DOMAIN journal \cup {new}
        /\ \A i \in DOMAIN journal : journal'[i] = journal[i]
        /\ journal'[new] = e
    BY <1>1, AppendedFacts
  <1> HIDE DEF new
  <1>3. ASSUME NEW i \in DOMAIN journal, journal[i].status = "started",
               e.status = "started", journal[i].ns = e.ns
        PROVE  journal[i].fp # e.fp
    BY <1>3 DEF Honest, Started
  <1> QED
    BY <1>2, <1>3 DEF OneAttemptPerTranscript

(* No two attempts on one namespace carry the same fingerprint             *)
(* (OneAttemptPerTranscript of AutoCapture; reserveAutoCapture).           *)
THEOREM OneAttempt == Spec => []OneAttemptPerTranscript
  <1>1. Init => OneAttemptPerTranscript
    BY DEF Init, OneAttemptPerTranscript
  <1>2. ASSUME IInv, OneAttemptPerTranscript, [Next]_vars
        PROVE  IInv' /\ OneAttemptPerTranscript'
    <2>1. CASE Next
      <3>1. CASE journal' = journal
        BY <1>2, <2>1, <3>1, NextType DEF OneAttemptPerTranscript
      <3>2. CASE \E e \in Entries : Honest(e)
        BY <1>2, <2>1, <3>2, NextType, AttemptStep
      <3> QED
        BY <1>2, <2>1, <3>1, <3>2, StepsAreHonest
    <2>2. CASE UNCHANGED vars
      BY <1>2, <2>2, StutterType DEF vars, OneAttemptPerTranscript
    <2> QED
      BY <1>2, <2>1, <2>2
  <1> QED
    BY InitType, <1>1, <1>2, PTL DEF Spec

(* An honest step does not exceed a day's cap.                             *)
LEMMA CapStep ==
  ASSUME IInv, WithinDailyCap, NEW e \in Entries, Honest(e)
  PROVE  WithinDailyCap'
  <1> SUFFICES ASSUME NEW n \in Namespaces, NEW d \in 1..MaxDay
               PROVE  Cardinality({i \in Started(n) : journal[i].day = d}')
                        <= DailyCap
    BY DEF WithinDailyCap
  <1> DEFINE new == Len(journal) + 1
             On == {i \in Started(n) : journal[i].day = d}
             matches == e.status = "started" /\ e.ns = n /\ e.day = d
  <1>1. journal \in Seq(Entries) /\ Appended(e)
    BY DEF IInv, TypeOK, Honest
  <1>2. /\ DOMAIN journal' = DOMAIN journal \cup {new}
        /\ \A i \in DOMAIN journal : journal'[i] = journal[i]
        /\ journal'[new] = e
        /\ new \notin DOMAIN journal
    <2>1. /\ DOMAIN journal = 1..Len(journal) /\ Len(journal) \in Nat
          /\ DOMAIN journal' = DOMAIN journal \cup {Len(journal) + 1}
          /\ \A i \in DOMAIN journal : journal'[i] = journal[i]
          /\ journal'[Len(journal) + 1] = e
      BY <1>1, AppendedFacts
    <2>2. Len(journal) + 1 \notin DOMAIN journal
      BY <2>1
    <2> QED
      BY <2>1, <2>2
  <1>3. IsFiniteSet(On) /\ Cardinality(On) \in Nat /\ Cardinality(On) <= DailyCap
    BY AttemptsAreCounted DEF IInv, WithinDailyCap
  <1>4. On' = IF matches THEN On \cup {new} ELSE On
    <2> HIDE DEF new
    <2> QED
      BY <1>2 DEF Started
  <1>5. new \notin On
    BY <1>2 DEF Started
  <1>6. CASE matches
    <2>1. Cardinality(On) < DailyCap
      BY <1>6 DEF Honest
    <2> HIDE DEF On, new
    <2>2. Cardinality(On \cup {new}) = Cardinality(On) + 1
      BY <1>3, <1>5, FS_AddElement
    <2>3. Cardinality(On) + 1 <= DailyCap
      BY <1>3, <2>1, CapAssumption
    <2>4. Cardinality(On') <= DailyCap
      BY <1>4, <1>6, <2>2, <2>3
    <2> QED
      BY <2>4 DEF On
  <1>7. CASE ~matches
    <2> HIDE DEF On
    <2>1. Cardinality(On') <= DailyCap
      BY <1>3, <1>4, <1>7
    <2> QED
      BY <2>1 DEF On
  <1> QED
    BY <1>6, <1>7

(* The attempts that began on one day in one namespace never exceed the    *)
(* cap (WithinDailyCap of AutoCapture; reserveAutoCapture).                *)
THEOREM CapHolds == Spec => []WithinDailyCap
  <1>1. Init => WithinDailyCap
    <2> SUFFICES ASSUME Init, NEW n \in Namespaces, NEW d \in 1..MaxDay
                 PROVE  Cardinality({i \in Started(n) : journal[i].day = d})
                          <= DailyCap
      BY DEF WithinDailyCap
    <2>1. {i \in Started(n) : journal[i].day = d} = {}
      BY DEF Init, Started
    <2>2. Cardinality({i \in Started(n) : journal[i].day = d}) = 0
      BY <2>1, FS_EmptySet
    <2>3. 0 <= DailyCap
      BY CapAssumption
    <2> QED
      BY <2>2, <2>3
  <1>2. ASSUME IInv, WithinDailyCap, [Next]_vars
        PROVE  IInv' /\ WithinDailyCap'
    <2>1. CASE Next
      <3>1. CASE journal' = journal
        BY <1>2, <2>1, <3>1, NextType DEF WithinDailyCap, Started
      <3>2. CASE \E e \in Entries : Honest(e)
        BY <1>2, <2>1, <3>2, NextType, CapStep
      <3> QED
        BY <1>2, <2>1, <3>1, <3>2, StepsAreHonest
    <2>2. CASE UNCHANGED vars
      BY <1>2, <2>2, StutterType DEF vars, WithinDailyCap, Started
    <2> QED
      BY <1>2, <2>1, <2>2
  <1> QED
    BY InitType, <1>1, <1>2, PTL DEF Spec

(* An honest step changes the files as the replay of its entry does.       *)
LEMMA ReplayStep ==
  ASSUME IInv, StoreReplaysJournal, NEW e \in Entries, Honest(e)
  PROVE  StoreReplaysJournal'
  <1> DEFINE new == Len(journal) + 1
  <1>1. journal \in Seq(Entries) /\ Appended(e)
        /\ stored \in [Namespaces -> SUBSET Facts]
    BY DEF IInv, TypeOK, Honest
  <1>2. /\ DOMAIN journal = 1..Len(journal) /\ Len(journal) \in Nat
        /\ DOMAIN journal' = DOMAIN journal \cup {new}
        /\ \A i \in DOMAIN journal : journal'[i] = journal[i]
        /\ journal'[new] = e
    BY <1>1, AppendedFacts
  <1>3. /\ \A i \in DOMAIN journal : new > i /\ ~(i > new) /\ i # new
        /\ ~(new > new)
    BY <1>2
  <1>4. e.added \subseteq Facts
    BY DEF Entries
  <1>5. stored' = [stored EXCEPT ![e.ns] = (@ \ e.removed) \cup e.added]
    BY DEF Honest
  <1> HIDE DEF new
  <1> SUFFICES ASSUME NEW n \in Namespaces
               PROVE  stored'[n] =
                 {f \in Facts :
                    \E i \in DOMAIN journal' :
                      /\ journal'[i].ns = n /\ f \in journal'[i].added
                      /\ \A j \in DOMAIN journal' :
                           (j > i /\ journal'[j].ns = n)
                              => f \notin journal'[j].removed}
    BY DEF StoreReplaysJournal
  <1>6. stored[n] =
          {f \in Facts :
             \E i \in DOMAIN journal :
               /\ journal[i].ns = n /\ f \in journal[i].added
               /\ \A j \in DOMAIN journal :
                    (j > i /\ journal[j].ns = n) => f \notin journal[j].removed}
    BY DEF StoreReplaysJournal
  <1>7. stored'[n] = IF n = e.ns THEN (stored[n] \ e.removed) \cup e.added
                                 ELSE stored[n]
    BY <1>1, <1>5
  <1>8. CASE n = e.ns
    BY <1>2, <1>3, <1>4, <1>6, <1>7, <1>8
  <1>9. CASE n # e.ns
    BY <1>2, <1>3, <1>6, <1>7, <1>9
  <1> QED
    BY <1>8, <1>9

(* The files hold what the journal's additions and removals amount to,     *)
(* through any capture, change and interrupted prune (StoreReplaysJournal  *)
(* of AutoCapture).                                                        *)
THEOREM FilesReplay == Spec => []StoreReplaysJournal
  <1>1. Init => StoreReplaysJournal
    BY DEF Init, StoreReplaysJournal
  <1>2. ASSUME IInv, StoreReplaysJournal, [Next]_vars
        PROVE  IInv' /\ StoreReplaysJournal'
    <2>1. CASE Next
      <3>1. CASE journal' = journal /\ stored' = stored
        BY <1>2, <2>1, <3>1, NextType DEF StoreReplaysJournal
      <3>2. CASE \E e \in Entries : Honest(e)
        BY <1>2, <2>1, <3>2, NextType, ReplayStep
      <3> QED
        BY <1>2, <2>1, <3>1, <3>2, StepsAreHonest
    <2>2. CASE UNCHANGED vars
      BY <1>2, <2>2, StutterType DEF vars, StoreReplaysJournal
    <2> QED
      BY <1>2, <2>1, <2>2
  <1> QED
    BY InitType, <1>1, <1>2, PTL DEF Spec

(* While a prune call is under way only its own retractions remove facts.  *)
LEMMA OnlyPruningRemoves ==
  ASSUME IInv, Next, pruning # None
  PROVE  stored' = stored \/ \E s \in pruning.todo : PruneOne(s)
  BY DEF Next, NextDay, Stop, Work, Skip, Reserve, Extract, ExtractFails,
         AssertFacts, AssertFails, Finish, Fail, JournalDown, Emergency,
         EmergencyLost, Die, User, ManualAssert, Retract, Supersede, Change,
         Prune, PruneGoesOn, PruneNote, PruneFails

(* A prune call removes selected facts only, and none that an assert has   *)
(* added again since its capture (PruneSparesReasserted of AutoCapture;    *)
(* retractFactIfSourcedBy).                                                *)
THEOREM PruningSpares == Spec => PruneSparesReasserted
  <1> DEFINE Spares == pruning # None => PruneTakes({"assert"})
  <1>1. ASSUME IInv, [Next]_vars PROVE IInv' /\ [Spares]_vars
    <2>1. CASE Next
      <3>1. ASSUME pruning # None, stored' # stored PROVE PruneTakes({"assert"})
        <4>1. PICK s \in pruning.todo : PruneOne(s)
          BY <1>1, <2>1, <3>1, OnlyPruningRemoves
        <4>2. /\ Prunable(s)
              /\ stored' = [stored EXCEPT ![pruning.ns] = @ \ {s.fact}]
          BY <3>1, <4>1 DEF PruneOne
        <4>3. s \in Captured
          BY <1>1, <3>1 DEF IInv, TypeOK
        <4>4. LastAdded(s, pruning.ns, {"assert"})
          <5>1. \A j \in DOMAIN journal :
                  (/\ journal[j].op = "assert" /\ journal[j].ns = pruning.ns
                   /\ s.fact \in journal[j].added) => j <= s.at
            BY <4>2 DEF Prunable, LatestAssert
          <5>2. \A j \in DOMAIN journal : j \in Nat
            BY <1>1 DEF IInv, TypeOK
          <5>3. s.at \in Nat
            BY <4>3, <5>2 DEF Captured
          <5> QED
            BY <5>1, <5>2, <5>3 DEF LastAdded
        <4>5. \A n \in Namespaces : \A f \in stored[n] \ stored'[n] :
                n = pruning.ns /\ f = s.fact
          BY <1>1, <4>2 DEF IInv, TypeOK
        <4> QED
          BY <4>1, <4>4, <4>5 DEF PruneTakes
      <3>2. ASSUME stored' = stored PROVE PruneTakes({"assert"})
        <4>1. \A n \in Namespaces : stored[n] \ stored'[n] = {}
          BY <3>2
        <4> QED
          BY <4>1 DEF PruneTakes
      <3>3. Spares
        BY <3>1, <3>2
      <3> QED
        BY <1>1, <2>1, <3>3, NextType
    <2>2. CASE UNCHANGED vars
      BY <1>1, <2>2, StutterType
    <2> QED
      BY <1>1, <2>1, <2>2
  <1> QED
    BY InitType, <1>1, PTL DEF Spec, PruneSparesReasserted


-----------------------------------------------------------------------------
(* What a review says of a capture                                         *)

(* The entries by which capture w notes how it fares, the one a review     *)
(* shows, and the entries of the facts it added.                           *)
Noted(w) == {i \in DOMAIN journal : journal[i].op = "auto_capture"
                                    /\ journal[i].cap = w}

Newest(w, i) == i \in Noted(w) /\ \A j \in Noted(w) : j <= i

Asserts(w) == {i \in DOMAIN journal : journal[i].op = "assert"
                                      /\ journal[i].cap = w}

Counted(w) == {i \in DOMAIN journal : journal[i].status = "captured"
                                      /\ journal[i].cap = w}

StatusIsTrue(w) ==
  /\ Reviewed(w) = "captured" =>
       \E i \in Counted(w), j \in Asserts(w) :
         j < i /\ journal[i].count = Cardinality(journal[j].added)
  /\ Reviewed(w) \in {"empty", "skipped"} => Asserts(w) = {}

(* The other half of a capture's story: what its worker still has to note  *)
(* agrees with what the journal already holds of it.                       *)
Told(w) ==
  /\ Noted(w) = {} \/ \E i \in Noted(w) : Newest(w, i)
  /\ pc[w] \in {"idle", "skip", "reserve", "extract", "assert"} =>
       Asserts(w) = {}
  /\ pc[w] \notin {"ended", "lost", "dead"} =>
       Reviewed(w) \in {None, "started", "failed"}
  /\ pc[w] = "assert" => found[w] # {}
  /\ pc[w] = "finish" =>
       IF found[w] = {} THEN Asserts(w) = {}
       ELSE \E j \in Asserts(w) : journal[j].added = got[w]
  /\ StatusIsTrue(w)

AllTold == \A w \in Workers : Told(w)

(* An entry that adds to what is known of capture w.                       *)
Concerns(w, e) ==
  e.cap = w /\ (e.op \in {"auto_capture", "assert"} \/ e.status = "captured")

(* The journal grows by nothing that concerns w.                           *)
NothingAbout(w) ==
  journal' = journal \/ \E e \in Entries : Appended(e) /\ ~Concerns(w, e)

(* What does not concern a capture leaves what is known of it.             *)
LEMMA HistoryKept ==
  ASSUME TypeOK, NEW w \in Workers, Told(w), NothingAbout(w),
         w \in errors' <=> w \in errors
  PROVE  /\ Noted(w)' = Noted(w) /\ Asserts(w)' = Asserts(w)
         /\ Reviewed(w)' = Reviewed(w)
         /\ \A j \in Asserts(w) : journal'[j] = journal[j]
         /\ Noted(w)' = {} \/ \E i \in Noted(w)' : Newest(w, i)'
         /\ StatusIsTrue(w)'
  <1>1. /\ DOMAIN journal \subseteq DOMAIN journal'
        /\ \A i \in DOMAIN journal : journal'[i] = journal[i]
        /\ \A i \in DOMAIN journal' \ DOMAIN journal : ~Concerns(w, journal'[i])
    BY AppendedFacts DEF NothingAbout, TypeOK
  <1>2. Noted(w)' = Noted(w) /\ Asserts(w)' = Asserts(w) /\ Counted(w)' = Counted(w)
    BY <1>1 DEF Noted, Asserts, Counted, Concerns
  <1>3. /\ \A j \in Asserts(w) : journal'[j] = journal[j]
        /\ \A j \in Counted(w) : journal'[j] = journal[j]
        /\ \A j \in Noted(w) : journal'[j] = journal[j]
    BY <1>1 DEF Asserts, Counted, Noted
  <1> DEFINE last == CHOOSE i \in Noted(w) : \A j \in Noted(w) : j <= i
  <1>4. Reviewed(w) = IF w \in errors THEN "failed"
                      ELSE IF Noted(w) = {} THEN None ELSE journal[last].status
    BY DEF Reviewed, Noted
  <1>5. Reviewed(w)' = IF w \in errors' THEN "failed"
                       ELSE IF Noted(w)' = {} THEN None ELSE journal'[last'].status
    BY DEF Reviewed, Noted
  <1>6. last' = last
    BY <1>2
  <1>7. Noted(w) # {} => last \in Noted(w)
    BY DEF Told, Newest
  <1> HIDE DEF last
  <1>8. Reviewed(w)' = Reviewed(w)
    BY <1>2, <1>3, <1>4, <1>5, <1>6, <1>7
  <1>9. Noted(w)' = {} \/ \E i \in Noted(w)' : Newest(w, i)'
    BY <1>2 DEF Told, Newest
  <1>10. StatusIsTrue(w)'
    BY <1>2, <1>3, <1>8 DEF Told, StatusIsTrue
  <1> QED
    BY <1>2, <1>3, <1>8, <1>9, <1>10

(* A capture's own note is the one a review shows, unless the other log    *)
(* has its failure.                                                        *)
LEMMA NoteIsNewest ==
  ASSUME TypeOK, NEW w \in Workers, NEW e \in Entries, Appended(e),
         e.op = "auto_capture", e.cap = w, errors' = errors
  PROVE  /\ \E i \in Noted(w)' : Newest(w, i)'
         /\ Asserts(w)' = Asserts(w)
         /\ \A j \in Asserts(w) : journal'[j] = journal[j]
         /\ Reviewed(w)' = IF w \in errors THEN "failed" ELSE e.status
         /\ \A j \in Asserts(w) : j < Len(journal) + 1
         /\ Len(journal) + 1 \in DOMAIN journal'
         /\ journal'[Len(journal) + 1] = e
  <1>1. PICK new \in Nat : new = Len(journal) + 1
    BY AppendedFacts DEF TypeOK
  <1>2. /\ DOMAIN journal = 1..Len(journal) /\ Len(journal) \in Nat
        /\ DOMAIN journal' = DOMAIN journal \cup {new}
        /\ \A i \in DOMAIN journal : journal'[i] = journal[i]
        /\ journal'[new] = e
    BY <1>1, AppendedFacts DEF TypeOK
  <1>3. \A i \in DOMAIN journal : i < new /\ i <= new /\ i \in Nat /\ i # new
    BY <1>1, <1>2
  <1>4. Noted(w)' = Noted(w) \cup {new} /\ Noted(w) \subseteq DOMAIN journal
    BY <1>2 DEF Noted
  <1>5. Asserts(w)' = Asserts(w) /\ Asserts(w) \subseteq DOMAIN journal
    BY <1>2 DEF Asserts
  <1>6. new \in Noted(w)' /\ \A j \in Noted(w)' : j <= new
    BY <1>1, <1>3, <1>4
  <1>7. \E i \in Noted(w)' : Newest(w, i)'
    <2>1. Newest(w, new)'
      BY <1>6 DEF Newest
    <2> QED
      BY <1>6, <2>1
  <1>8. Reviewed(w)' = IF w \in errors THEN "failed" ELSE e.status
    <2> DEFINE last == CHOOSE i \in Noted(w)' : \A j \in Noted(w)' : j <= i
    <2>1. Reviewed(w)' = IF w \in errors' THEN "failed"
                         ELSE IF Noted(w)' = {} THEN None ELSE journal'[last].status
      BY DEF Reviewed, Noted
    <2>2. last \in Noted(w)' /\ \A j \in Noted(w)' : j <= last
      BY <1>6
    <2>3. Noted(w)' \subseteq Nat
      BY <1>3, <1>4
    <2> HIDE DEF last
    <2>4. last <= new /\ new <= last /\ last \in Nat
      BY <1>6, <2>2, <2>3
    <2>5. last = new
      BY <1>1, <2>4
    <2> QED
      BY <1>2, <1>6, <2>1, <2>5
  <1> QED
    BY <1>1, <1>2, <1>3, <1>5, <1>7, <1>8

(* The entry of an assert: facts that were found, under the capture's name.*)
LEMMA AssertType ==
  ASSUME TypeOK, NEW w \in Workers, pc[w] = "assert"
  PROVE  LET n == job[w].ns
             new == found[w] \ stored[n]
             e == [Entry("assert", n, w) EXCEPT !.day = job[w].day, !.added = new]
         IN  /\ e \in Entries /\ e.cap = w /\ e.op = "assert"
             /\ e.status = None /\ e.added = new
  <1>1. job[w].ns \in Namespaces /\ job[w].day \in 0..MaxDay
    BY CapAssumption DEF TypeOK, Jobs
  <1> DEFINE n == job[w].ns
             new == found[w] \ stored[n]
             b == Entry("assert", n, w)
  <1>2. new \in SUBSET Facts
    BY DEF TypeOK
  <1>3. b \in Entries /\ b.cap = w /\ b.op = "assert" /\ b.status = None
    BY <1>1, EntryType DEF TypeOK, Operations
  <1>4. job[w].ns = n
    OBVIOUS
  <1> HIDE DEF b, new, n
  <1>5. LET e == [b EXCEPT !.day = job[w].day, !.added = new]
        IN  /\ e \in Entries /\ e.cap = w /\ e.op = "assert"
            /\ e.status = None /\ e.added = new
    BY <1>1, <1>2, <1>3 DEF Entries
  <1> QED
    BY <1>5 DEF b, new, n

(* A step that neither concerns a capture nor moves its worker.            *)
Undisturbed(w) ==
  /\ NothingAbout(w) /\ (w \in errors' <=> w \in errors)
  /\ pc'[w] = pc[w] /\ found'[w] = found[w] /\ got'[w] = got[w]

LEMMA UndisturbedStaysTold ==
  ASSUME TypeOK, NEW w \in Workers, Told(w), Undisturbed(w)
  PROVE  Told(w)'
  <1>1. /\ Noted(w)' = Noted(w) /\ Asserts(w)' = Asserts(w)
        /\ Reviewed(w)' = Reviewed(w)
        /\ \A j \in Asserts(w) : journal'[j] = journal[j]
        /\ Noted(w)' = {} \/ \E i \in Noted(w)' : Newest(w, i)'
        /\ StatusIsTrue(w)'
    BY HistoryKept DEF Undisturbed
  <1> QED
    BY <1>1 DEF Told, Undisturbed

(* What one worker notes and asserts does not concern another capture.     *)
LEMMA OthersDoNotDisturb ==
  ASSUME IInv, NEW w \in Workers, NEW v \in Workers, v # w,
         \/ \E n \in Namespaces, t \in Transcripts : Stop(v, n, t)
         \/ Work(v) \/ Die(v)
  PROVE  Undisturbed(w)
  <1> USE DEF IInv
  <1>1. ASSUME NEW e \in Entries, Appended(e), e.cap = v PROVE NothingAbout(w)
    BY <1>1 DEF NothingAbout, Concerns
  <1>2. ASSUME NEW n \in Namespaces, NEW t \in Transcripts, Stop(v, n, t)
        PROVE  Undisturbed(w)
    BY <1>2 DEF Stop, Goto, TypeOK, Undisturbed, NothingAbout
  <1>3. CASE \/ Extract(v) \/ ExtractFails(v) \/ AssertFails(v) \/ JournalDown(v)
             \/ Emergency(v) \/ EmergencyLost(v) \/ Die(v)
    BY <1>3 DEF Extract, ExtractFails, AssertFails, JournalDown, Emergency,
                EmergencyLost, Die, Goto, TypeOK, Undisturbed, NothingAbout
  <1>4. ASSUME pc[v] # "idle", NEW s \in Statuses
        PROVE  /\ Status(v, s) \in Entries /\ Status(v, s).cap = v
               /\ [Status(v, s) EXCEPT !.fp = job[v].fp] \in Entries
               /\ [Status(v, s) EXCEPT !.fp = job[v].fp].cap = v
               /\ [Status(v, s) EXCEPT !.count = Cardinality(got[v])] \in Entries
               /\ [Status(v, s) EXCEPT !.count = Cardinality(got[v])].cap = v
    <2>1. Status(v, s) \in Entries /\ Status(v, s).cap = v
      BY <1>4, StatusType
    <2>2. job[v].fp \in Transcripts
      BY <1>4 DEF TypeOK, Jobs
    <2>3. Cardinality(got[v]) \in Nat
      BY FactsAreCounted DEF TypeOK
    <2> QED
      BY <2>1, <2>2, <2>3 DEF Entries
  <1>5. CASE Skip(v) \/ Reserve(v) \/ Finish(v) \/ Fail(v)
    <2>1. pc[v] # "idle"
      BY <1>5 DEF Skip, Reserve, Finish, Fail
    <2>2. Outcome(v) \in Statuses /\ {"skipped", "started", "failed"} \subseteq Statuses
      BY DEF Outcome, Statuses
    <2>3. CASE Skip(v)
      BY <1>1, <1>4, <2>1, <2>2, <2>3 DEF Skip, Appended, Goto, TypeOK, Undisturbed
    <2>4. CASE Reserve(v)
      BY <1>1, <1>4, <2>1, <2>2, <2>4 DEF Reserve, Appended, Goto, TypeOK, Undisturbed
    <2>5. CASE Finish(v)
      BY <1>1, <1>4, <2>1, <2>2, <2>5 DEF Finish, Appended, Goto, TypeOK, Undisturbed
    <2>6. CASE Fail(v)
      BY <1>1, <1>4, <2>1, <2>2, <2>6 DEF Fail, Appended, Goto, TypeOK, Undisturbed
    <2> QED
      BY <1>5, <2>3, <2>4, <2>5, <2>6
  <1>6. CASE AssertFacts(v)
    BY <1>1, <1>6, AssertType DEF AssertFacts, Appended, Goto, TypeOK, Undisturbed
  <1> QED
    BY <1>2, <1>3, <1>5, <1>6 DEF Work

(* The user's changes and a prune call do not speak of any capture: the    *)
(* retraction of a captured fact bears the capture's name but no status.   *)
LEMMA UsersDoNotDisturb ==
  ASSUME IInv, NEW w \in Workers, NextDay \/ User \/ PruneGoesOn
  PROVE  Undisturbed(w)
  <1> USE DEF IInv
  <1>1. CASE NextDay
    BY <1>1 DEF NextDay, WorkerKept, Undisturbed, NothingAbout
  <1>2. ASSUME NEW op \in Operations, NEW n \in Namespaces,
               NEW removed \in SUBSET Facts, NEW added \in SUBSET Facts,
               Change(op, n, removed, added)
        PROVE  Undisturbed(w)
    <2> DEFINE e == [Entry(op, n, None) EXCEPT !.removed = removed, !.added = added]
    <2>1. Entry(op, n, None) \in Entries /\ Entry(op, n, None).cap = None
      BY EntryType DEF TypeOK
    <2>2. e \in Entries /\ e.cap = None
      BY <2>1 DEF Entries
    <2>3. Appended(e) /\ WorkerKept
      BY <1>2 DEF Change, Appended
    <2> HIDE DEF e
    <2>4. ~Concerns(w, e)
      BY <2>2, NoneAssumption DEF Concerns
    <2> QED
      BY <2>2, <2>3, <2>4 DEF Undisturbed, NothingAbout, WorkerKept
  <1>3. ASSUME NEW S \in SUBSET Captured, Prune(S) PROVE Undisturbed(w)
    BY <1>3 DEF Prune, WorkerKept, Undisturbed, NothingAbout
  <1>4. CASE User
    <2>1. ASSUME NEW n \in Namespaces, NEW f \in Facts,
                 \/ ManualAssert(n, f) \/ Retract(n, f)
                 \/ \E F \in SUBSET (Facts \ {f}) : Supersede(n, F, f)
          PROVE  Undisturbed(w)
      BY <1>2, <2>1 DEF ManualAssert, Retract, Supersede, Operations
    <2> QED
      BY <1>3, <1>4, <2>1 DEF User
  <1>5. ASSUME pruning # None, NEW s \in pruning.todo, PruneOne(s)
        PROVE  Undisturbed(w)
    <2>1. pruning.ns \in Namespaces /\ s \in Captured
      BY <1>5 DEF TypeOK
    <2>2. journal[s.at].cap \in Workers \cup {None} /\ s.fact \in Facts
      <3>1. s.at \in DOMAIN journal /\ s.fact \in Facts
        BY <2>1 DEF Captured
      <3>2. journal[s.at] \in Entries
        BY <3>1 DEF TypeOK
      <3> QED
        BY <3>1, <3>2 DEF Entries
    <2> DEFINE b == Entry("retract", pruning.ns, journal[s.at].cap)
               e == [b EXCEPT !.removed = {s.fact}]
    <2>3. b \in Entries /\ b.op = "retract" /\ b.status = None
      BY <2>1, <2>2, EntryType DEF TypeOK, Operations
    <2>4. journal' = journal \/ Appended(e)
      BY <1>5 DEF PruneOne, Appended
    <2> HIDE DEF b
    <2>5. e \in Entries /\ e.op = "retract" /\ e.status = None
      BY <2>2, <2>3 DEF Entries
    <2> HIDE DEF e
    <2>6. ~Concerns(w, e)
      BY <2>5, NoneAssumption DEF Concerns
    <2>7. WorkerKept
      BY <1>5 DEF PruneOne
    <2> QED
      BY <2>4, <2>5, <2>6, <2>7 DEF Undisturbed, NothingAbout, WorkerKept
  <1>6. ASSUME pruning # None, PruneNote PROVE Undisturbed(w)
    <2> DEFINE b == Entry("auto_capture_pruned", pruning.ns, None)
               e == [b EXCEPT !.count = pruning.removed]
    <2>1. pruning.ns \in Namespaces /\ pruning.removed \in Nat
      BY <1>6 DEF TypeOK
    <2>2. b \in Entries /\ b.cap = None
      BY <2>1, EntryType DEF TypeOK, Operations
    <2>3. Appended(e) /\ WorkerKept
      BY <1>6 DEF PruneNote, Appended
    <2> HIDE DEF b
    <2>4. e \in Entries /\ e.cap = None
      BY <2>1, <2>2 DEF Entries
    <2> HIDE DEF e
    <2>5. ~Concerns(w, e)
      BY <2>4, NoneAssumption DEF Concerns
    <2> QED
      BY <2>3, <2>4, <2>5 DEF Undisturbed, NothingAbout, WorkerKept
  <1>7. CASE PruneFails
    BY <1>7 DEF PruneFails, WorkerKept, Undisturbed, NothingAbout
  <1> QED
    BY <1>1, <1>4, <1>5, <1>6, <1>7 DEF PruneGoesOn

(* A worker's own step leaves its story true.                              *)
LEMMA OwnStepsTell ==
  ASSUME IInv, NEW w \in Workers, Told(w),
         \/ \E n \in Namespaces, t \in Transcripts : Stop(w, n, t)
         \/ Work(w) \/ Die(w)
  PROVE  Told(w)'
  <1> USE DEF IInv
  <1> DEFINE Kept == /\ Noted(w)' = Noted(w) /\ Asserts(w)' = Asserts(w)
                     /\ Reviewed(w)' = Reviewed(w)
                     /\ \A j \in Asserts(w) : journal'[j] = journal[j]
                     /\ Noted(w)' = {} \/ \E i \in Noted(w)' : Newest(w, i)'
                     /\ StatusIsTrue(w)'
  <1>1. ASSUME UNCHANGED <<journal, errors>> PROVE Kept
    BY <1>1, HistoryKept DEF NothingAbout
  <1> DEFINE Noting(e) == /\ \E i \in Noted(w)' : Newest(w, i)'
                          /\ Asserts(w)' = Asserts(w)
                          /\ \A j \in Asserts(w) : journal'[j] = journal[j]
                          /\ Reviewed(w)' = IF w \in errors THEN "failed" ELSE e.status
                          /\ \A j \in Asserts(w) : j < Len(journal) + 1
                          /\ Len(journal) + 1 \in DOMAIN journal'
                          /\ journal'[Len(journal) + 1] = e
  <1>2. ASSUME NEW e \in Entries, Appended(e), e.op = "auto_capture", e.cap = w,
               errors' = errors
        PROVE  Noting(e)
    BY <1>2, NoteIsNewest
  <1>3. ASSUME pc[w] # "idle", NEW s \in Statuses
        PROVE  /\ Status(w, s) \in Entries
               /\ Status(w, s).op = "auto_capture" /\ Status(w, s).cap = w
               /\ Status(w, s).status = s
    BY <1>3, StatusType
  <1> HIDE DEF Kept, Noting
  <1>4. ASSUME NEW n \in Namespaces, NEW t \in Transcripts, Stop(w, n, t)
        PROVE  Told(w)'
    <2>1. Kept
      BY <1>1, <1>4 DEF Stop
    <2>2. pc[w] = "idle" /\ pc'[w] \in {"skip", "reserve"}
      BY <1>4 DEF Stop, Goto, TypeOK
    <2> QED
      BY <2>1, <2>2 DEF Told, Kept
  <1>5. CASE Skip(w)
    <2>1. pc[w] = "skip" /\ pc'[w] = "ended"
      BY <1>5 DEF Skip, Goto, TypeOK
    <2> DEFINE e == Status(w, "skipped")
    <2>2. e \in Entries /\ e.op = "auto_capture" /\ e.cap = w /\ e.status = "skipped"
      BY <1>3, <2>1 DEF Statuses
    <2>3. Appended(e) /\ errors' = errors
      BY <1>5 DEF Skip, Appended
    <2> HIDE DEF e
    <2>4. Noting(e)
      BY <1>2, <2>2, <2>3
    <2>5. Asserts(w)' = {} /\ Reviewed(w)' \in {"failed", "skipped"}
      BY <2>1, <2>2, <2>4 DEF Told, Noting
    <2>6. StatusIsTrue(w)'
      BY <2>5 DEF StatusIsTrue
    <2> QED
      BY <2>1, <2>4, <2>6 DEF Told, Noting
  <1>6. CASE Reserve(w)
    <2>1. pc[w] = "reserve"
      BY <1>6 DEF Reserve
    <2>2. job[w].fp \in Transcripts
      BY <2>1 DEF TypeOK, Jobs
    <2>3. ASSUME NEW s \in {"skipped", "started"}
          PROVE  LET e == [Status(w, s) EXCEPT !.fp = job[w].fp]
                 IN  /\ e \in Entries /\ e.op = "auto_capture" /\ e.cap = w
                     /\ e.status = s
      BY <1>3, <2>1, <2>2 DEF Entries, Statuses
    <2>4. PICK s \in {"skipped", "started"} :
            /\ journal' = Append(journal, [Status(w, s) EXCEPT !.fp = job[w].fp])
            /\ Goto(w, IF s = "skipped" THEN "ended" ELSE "extract")
      BY <1>6 DEF Reserve
    <2> DEFINE e == [Status(w, s) EXCEPT !.fp = job[w].fp]
    <2>5. e \in Entries /\ e.op = "auto_capture" /\ e.cap = w /\ e.status = s
      BY <2>3
    <2>6. Appended(e) /\ errors' = errors
      BY <1>6, <2>4 DEF Reserve, Appended
    <2> HIDE DEF e
    <2>7. Noting(e)
      BY <1>2, <2>5, <2>6
    <2>8. Asserts(w)' = {} /\ Reviewed(w)' \in {"failed", s}
      BY <2>1, <2>5, <2>7 DEF Told, Noting
    <2>9. StatusIsTrue(w)'
      BY <2>8 DEF StatusIsTrue
    <2>10. pc'[w] = IF s = "skipped" THEN "ended" ELSE "extract"
      BY <2>4 DEF Goto, TypeOK
    <2> QED
      BY <2>7, <2>8, <2>9, <2>10 DEF Told, Noting
  <1>7. CASE Extract(w)
    <2>1. Kept
      BY <1>1, <1>7 DEF Extract
    <2>2. pc[w] = "extract"
          /\ pc'[w] = IF found'[w] = {} THEN "finish" ELSE "assert"
      BY <1>7 DEF Extract, Goto, TypeOK
    <2> QED
      BY <2>1, <2>2 DEF Told, Kept
  <1>8. CASE ExtractFails(w) \/ AssertFails(w)
    <2>1. Kept
      BY <1>1, <1>8 DEF ExtractFails, AssertFails
    <2>2. pc[w] \in {"extract", "assert"} /\ pc'[w] = "fail"
      BY <1>8 DEF ExtractFails, AssertFails, Goto, TypeOK
    <2> QED
      BY <2>1, <2>2 DEF Told, Kept
  <1>9. CASE AssertFacts(w)
    <2>1. pc[w] = "assert" /\ pc'[w] \in {"finish", "fail"}
      BY <1>9 DEF AssertFacts, Goto, TypeOK
    <2> DEFINE new == found[w] \ stored[job[w].ns]
               e == [Entry("assert", job[w].ns, w) EXCEPT !.day = job[w].day,
                                                          !.added = new]
    <2>2. /\ e \in Entries /\ e.cap = w /\ e.op = "assert"
          /\ e.status = None /\ e.added = new
      BY <2>1, AssertType
    <2>3. Appended(e) /\ UNCHANGED <<errors, found>> /\ got'[w] = new
      BY <1>9 DEF AssertFacts, Appended, TypeOK
    <2>4. Reviewed(w)' \in {None, "started", "failed"}
          /\ (Noted(w)' = {} \/ \E i \in Noted(w)' : Newest(w, i)')
      <3>1. /\ DOMAIN journal' = DOMAIN journal \cup {Len(journal) + 1}
            /\ \A i \in DOMAIN journal : journal'[i] = journal[i]
            /\ journal'[Len(journal) + 1] = e
        BY <2>2, <2>3, AppendedFacts DEF TypeOK
      <3> HIDE DEF e
      <3>2. Noted(w)' = Noted(w)
        BY <2>2, <3>1 DEF Noted
      <3> DEFINE last == CHOOSE i \in Noted(w) : \A j \in Noted(w) : j <= i
      <3>3. Reviewed(w) = IF w \in errors THEN "failed"
                          ELSE IF Noted(w) = {} THEN None ELSE journal[last].status
        BY DEF Reviewed, Noted
      <3>4. Reviewed(w)' = IF w \in errors' THEN "failed"
                           ELSE IF Noted(w)' = {} THEN None
                           ELSE journal'[last'].status
        BY DEF Reviewed, Noted
      <3>5. last' = last
        BY <3>2
      <3>6. Noted(w) # {} => last \in DOMAIN journal
        BY DEF Told, Newest, Noted
      <3> HIDE DEF last
      <3>7. Reviewed(w)' = Reviewed(w)
        BY <2>3, <3>1, <3>2, <3>3, <3>4, <3>5, <3>6
      <3> QED
        BY <2>1, <3>2, <3>7 DEF Told, Newest
    <2>5. \E j \in Asserts(w)' : journal'[j].added = got'[w]
      <3>1. Len(journal) + 1 \in DOMAIN journal' /\ journal'[Len(journal) + 1] = e
        BY <2>2, <2>3, AppendedFacts DEF TypeOK
      <3> HIDE DEF e, new
      <3> QED
        BY <2>2, <2>3, <3>1 DEF Asserts
    <2>6. found[w] # {}
      BY <1>9, <2>1 DEF Told
    <2>7. StatusIsTrue(w)'
      BY <2>4, NoneAssumption DEF StatusIsTrue
    <2> QED
      BY <2>1, <2>3, <2>4, <2>5, <2>6, <2>7 DEF Told
  <1>10. CASE Finish(w)
    <2>1. pc[w] = "finish" /\ pc'[w] = "ended" /\ Outcome(w) \in Statuses
      BY <1>10 DEF Finish, Goto, TypeOK, Outcome, Statuses
    <2>2. Cardinality(got[w]) \in Nat
      BY FactsAreCounted DEF TypeOK
    <2> DEFINE e == [Status(w, Outcome(w)) EXCEPT !.count = Cardinality(got[w])]
    <2>3. /\ e \in Entries /\ e.op = "auto_capture" /\ e.cap = w
          /\ e.status = Outcome(w) /\ e.count = Cardinality(got[w])
      <3>1. /\ Status(w, Outcome(w)) \in Entries
            /\ Status(w, Outcome(w)).op = "auto_capture"
            /\ Status(w, Outcome(w)).cap = w
            /\ Status(w, Outcome(w)).status = Outcome(w)
        BY <1>3, <2>1
      <3> QED
        BY <2>2, <3>1 DEF Entries
    <2>4. Appended(e) /\ errors' = errors
      BY <1>10 DEF Finish, Appended
    <2> HIDE DEF e
    <2>5. Noting(e)
      BY <1>2, <2>3, <2>4
    <2>6. CASE found[w] = {}
      <3>1. Asserts(w)' = {} /\ Reviewed(w)' \in {"failed", "empty"}
        BY <2>1, <2>3, <2>5, <2>6 DEF Told, Noting, Outcome
      <3>2. StatusIsTrue(w)'
        BY <3>1 DEF StatusIsTrue
      <3> QED
        BY <2>1, <2>5, <3>2 DEF Told, Noting
    <2>7. CASE found[w] # {}
      <3>1. Reviewed(w)' \in {"failed", "captured"}
        BY <2>3, <2>5, <2>7 DEF Noting, Outcome
      <3>2. PICK j \in Asserts(w) : journal[j].added = got[w]
        BY <2>1, <2>7 DEF Told
      <3>3. /\ j \in Asserts(w)' /\ j < Len(journal) + 1
            /\ journal'[j].added = got[w]
        BY <2>5, <3>2 DEF Noting
      <3>4. /\ Len(journal) + 1 \in Counted(w)'
            /\ journal'[Len(journal) + 1].count = Cardinality(got[w])
        BY <2>3, <2>5, <2>7 DEF Noting, Counted, Outcome
      <3>5. StatusIsTrue(w)'
        BY <3>1, <3>3, <3>4 DEF StatusIsTrue
      <3> QED
        BY <2>1, <2>5, <3>5 DEF Told, Noting
    <2> QED
      BY <2>6, <2>7
  <1>11. CASE Fail(w)
    <2>1. pc[w] = "fail" /\ pc'[w] = "ended"
      BY <1>11 DEF Fail, Goto, TypeOK
    <2> DEFINE e == Status(w, "failed")
    <2>2. e \in Entries /\ e.op = "auto_capture" /\ e.cap = w /\ e.status = "failed"
      BY <1>3, <2>1 DEF Statuses
    <2>3. Appended(e) /\ errors' = errors
      BY <1>11 DEF Fail, Appended
    <2> HIDE DEF e
    <2>4. Noting(e)
      BY <1>2, <2>2, <2>3
    <2>5. Reviewed(w)' = "failed"
      BY <2>2, <2>4 DEF Noting
    <2>6. StatusIsTrue(w)'
      BY <2>5 DEF StatusIsTrue
    <2> QED
      BY <2>1, <2>4, <2>6 DEF Told, Noting
  <1>12. CASE JournalDown(w) \/ EmergencyLost(w) \/ Die(w)
    <2>1. Kept
      BY <1>1, <1>12 DEF JournalDown, EmergencyLost, Die
    <2>2. pc'[w] \in {"emergency", "emergencyThenFail", "fail", "lost", "dead"}
          /\ pc[w] \notin {"ended", "lost", "dead"}
      BY <1>12 DEF JournalDown, EmergencyLost, Die, Goto, TypeOK
    <2> QED
      BY <2>1, <2>2 DEF Told, Kept
  <1>13. CASE Emergency(w)
    <2>1. journal' = journal /\ w \in errors' /\ pc'[w] \in {"ended", "fail"}
      BY <1>13 DEF Emergency, Goto, TypeOK
    <2>2. Reviewed(w)' = "failed"
      BY <2>1 DEF Reviewed
    <2>3. Noted(w)' = {} \/ \E i \in Noted(w)' : Newest(w, i)'
      BY <2>1 DEF Told, Newest, Noted
    <2>4. StatusIsTrue(w)'
      BY <2>2 DEF StatusIsTrue
    <2> QED
      BY <2>1, <2>2, <2>3, <2>4 DEF Told
  <1> QED
    BY <1>4, <1>5, <1>6, <1>7, <1>8, <1>9, <1>10, <1>11, <1>12, <1>13 DEF Work

(* What a review says of a capture is true: captured means asserted with   *)
(* as many new facts as counted, empty and skipped that nothing was        *)
(* (StatusesAreTrue of AutoCapture; autoCaptureClaudeStop, the review).    *)
THEOREM ReviewsAreTrue == Spec => []StatusesAreTrue
  <1>1. ASSUME Init PROVE AllTold
    <2> SUFFICES ASSUME NEW w \in Workers PROVE Told(w)
      BY DEF AllTold
    <2>1. Noted(w) = {} /\ Asserts(w) = {} /\ pc[w] = "idle" /\ w \notin errors
      BY <1>1 DEF Init, Noted, Asserts
    <2>2. Reviewed(w) = None
      BY <2>1 DEF Reviewed, Noted
    <2> QED
      BY <2>1, <2>2, NoneAssumption DEF Told, StatusIsTrue
  <1>2. ASSUME IInv, AllTold, [Next]_vars PROVE IInv' /\ AllTold'
    <2>1. CASE Next
      <3>1. IInv'
        BY <1>2, <2>1, NextType
      <3>2. ASSUME NEW w \in Workers PROVE Told(w)'
        <4>1. Told(w) /\ TypeOK
          BY <1>2 DEF AllTold, IInv
        <4>2. CASE NextDay \/ User \/ PruneGoesOn
          BY <1>2, <4>1, <4>2, UsersDoNotDisturb, UndisturbedStaysTold
        <4>3. CASE \E v \in Workers :
                     \/ \E n \in Namespaces, t \in Transcripts : Stop(v, n, t)
                     \/ Work(v) \/ Die(v)
          BY <1>2, <4>1, <4>3, OthersDoNotDisturb, UndisturbedStaysTold,
             OwnStepsTell
        <4> QED
          BY <2>1, <4>2, <4>3 DEF Next
      <3> QED
        BY <3>1, <3>2 DEF AllTold
    <2>2. CASE UNCHANGED vars
      <3>1. \A w \in Workers : Undisturbed(w)
        BY <2>2 DEF vars, Undisturbed, NothingAbout
      <3> QED
        BY <1>2, <2>2, <3>1, StutterType, UndisturbedStaysTold
           DEF AllTold, IInv
    <2> QED
      BY <1>2, <2>1, <2>2
  <1>3. AllTold => StatusesAreTrue
    BY DEF AllTold, Told, StatusIsTrue, StatusesAreTrue, Counted, Asserts
  <1> QED
    BY InitType, <1>1, <1>2, <1>3, PTL DEF Spec
=============================================================================
