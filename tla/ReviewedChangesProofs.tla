------------------------- MODULE ReviewedChangesProofs -------------------------
(***************************************************************************)
(* For any processes, namespaces, clauses, rules and requests: as long as  *)
(* no stamp stood for two programs, commits build on the files, proposals  *)
(* are applied to what was reviewed and without new faults, and reports    *)
(* show it; and, stamps aside, an operation id stands for one proposal.    *)
(*                                                                         *)
(* The argument: a remembered program with the stamp of a namespace's      *)
(* committed file is that file's (CachesTell), and the committed file is   *)
(* what the journal says (FilesRecorded), so that a locked load shows the  *)
(* recorded state (LoadedIsRecorded).  What an entry claims of the state   *)
(* it was evaluated on (Grounded) is true of the recorded state then, and  *)
(* still when the entry is appended, for the writer holds the lock; later  *)
(* entries leave the earlier states as they were (EarlierStatesStay).      *)
(***************************************************************************)
EXTENDS ClauseSources, FiniteSetTheorems, WellFoundedInduction, TLAPS

-----------------------------------------------------------------------------
(* The inductive invariant                                                 *)

\* Where a commit stands, and whose entry it carries.
WriterSteps ==
  writer # None =>
    /\ writer.entry.ns = writer.ns
    /\ writer.step = "publish" => file[writer.ns] = None
    /\ writer.step = "append" => file[writer.ns] = writer.next

\* A program and a file or another program that bear one stamp are one.
Agree(program, other) == program.stamp = other.stamp => program.text = other.text

\* A stamp names one program: that of the file, of the committed file, and
\* none if it is the stamp of an absent file.
CachesTell ==
  Faithful =>
    \A n \in Namespaces :
      /\ Agree(Program(file[n]), Program(Committed(n)))
      /\ \A p \in Procs : cache[p][n] # None =>
           /\ Agree(cache[p][n], Program(file[n]))
           /\ Agree(cache[p][n], Program(Committed(n)))
           /\ Agree(cache[p][n], Program(None))

FilesRecorded ==
  Faithful => \A n \in Namespaces : Text(Committed(n)) = Recorded(n, Len(journal))

\* Namespace n once entry e has followed the first k entries.
After(n, k, e) == IF n = e.ns THEN (Recorded(n, k) \ e.removed) \cup e.added
                  ELSE Recorded(n, k)

\* What entry e claims of the state it was evaluated on.
Grounded(e, k) ==
  /\ \A rule \in e.enforce :
       Allows(rule, Union(RecordedView(rule.names, k)),
                    Union([n \in rule.names |-> After(n, k, e)]))
  /\ e.op = "memory_change" =>
       /\ RecordedView(DOMAIN e.proposal.baseline, k) = e.proposal.baseline
       /\ e.removed \subseteq Recorded(e.ns, k)
       /\ e.added \cap (Recorded(e.ns, k) \ e.removed) = {}

\* A reviewed change is the one its proposal asks for.
Asked(e) ==
  /\ e.op = "memory_change" =>
       /\ e.proposal \in Proposals
       /\ e.ns = e.proposal.ns /\ e.ns \in DOMAIN e.proposal.baseline
       /\ e.added = e.proposal.add /\ e.removed = e.proposal.remove
       /\ e.id \in OpIds
  /\ e.op # "memory_change" => e.proposal = None

WriterGrounded ==
  writer # None =>
    /\ Asked(writer.entry)
    /\ Faithful => /\ Grounded(writer.entry, Len(journal))
                   /\ writer.next.text = After(writer.ns, Len(journal), writer.entry)

JournalGrounded ==
  \A i \in DOMAIN journal : /\ Asked(journal[i])
                            /\ Faithful => Grounded(journal[i], i - 1)

IsReviewed(e, n, id) == e.op = "memory_change" /\ e.ns = n /\ e.id = id

\* Operation ids are used once in a namespace.
IdsAreUnique ==
  /\ \A i, j \in DOMAIN journal :
       journal[i].op = "memory_change"
         /\ IsReviewed(journal[j], journal[i].ns, journal[i].id) => i = j
  /\ writer # None /\ writer.entry.op = "memory_change" =>
       Prior(writer.ns, writer.entry.id) = {}

AnswersTrue ==
  \A a \in answers : /\ IsReviewed(journal[a.sequence], a.proposal.ns, a.id)
                     /\ journal[a.sequence].proposal = a.proposal

\* Reports are made to those who have an answer.
ReportsTrue ==
  /\ \A r \in reports : r.answer \in answers
  /\ ReportsShowTheReviewed

IInv == /\ TypeOK
        /\ WriterSteps
        /\ CachesTell
        /\ FilesRecorded
        /\ WriterGrounded
        /\ JournalGrounded
        /\ IdsAreUnique
        /\ AnswersTrue
        /\ ReportsTrue

-----------------------------------------------------------------------------
(* The recorded states                                                     *)

\* What an entry does to the recorded state.
EntriesMakeStates ==
  journal \in Seq(Entries) =>
    \A i \in DOMAIN journal : \A n : Recorded(n, i) = After(n, i - 1, journal[i])

LEMMA RecordedStep == EntriesMakeStates
<1> SUFFICES ASSUME journal \in Seq(Entries), NEW i \in DOMAIN journal, NEW n
             PROVE  Recorded(n, i) = After(n, i - 1, journal[i])
  BY DEF EntriesMakeStates
<1> DEFINE e == journal[i]
<1>0. i \in 1..Len(journal) /\ journal[i] \in Entries
  OBVIOUS
<1>1. i \in Nat \ {0} /\ e \in Entries /\ e.added \subseteq Clauses
  BY <1>0 DEF Entries
<1>2. \A c : /\ Adds(n, c, i) <=> e.ns = n /\ c \in e.added
             /\ Removes(n, c, i) <=> e.ns = n /\ c \in e.removed \ e.added
  BY <1>1 DEF Adds, Removes
<1>3. ASSUME NEW c \in Clauses
      PROVE  c \in Recorded(n, i) <=>
               \/ e.ns = n /\ c \in e.added
               \/ c \in Recorded(n, i - 1) /\ ~(e.ns = n /\ c \in e.removed \ e.added)
  <2> DEFINE Stays(m, last) == \A j \in m+1..last : ~Removes(n, c, j)
  <2>1. \A m \in 0..(i-1) : Stays(m, i) <=> Stays(m, i - 1) /\ ~Removes(n, c, i)
    <3> TAKE m \in 0..(i-1)
    <3>1. \A j : j \in m+1..i <=> j \in m+1..(i-1) \/ j = i
      BY <1>1
    <3> QED BY <3>1
  <2>2. \A m : m \in 0..i <=> m \in 0..(i-1) \/ m = i
    BY <1>1
  <2>3. Stays(i, i)
    BY <1>1
  <2>4. c \in Recorded(n, i) <=> \E m \in 0..i : Adds(n, c, m) /\ Stays(m, i)
    BY DEF Recorded
  <2>5. c \in Recorded(n, i - 1) <=> \E m \in 0..(i-1) : Adds(n, c, m) /\ Stays(m, i - 1)
    BY DEF Recorded
  <2> HIDE DEF Stays
  <2>6. c \in Recorded(n, i) <=>
          \/ \E m \in 0..(i-1) : Adds(n, c, m) /\ Stays(m, i - 1) /\ ~Removes(n, c, i)
          \/ Adds(n, c, i)
    BY <2>1, <2>2, <2>3, <2>4
  <2> QED BY <1>2, <2>5, <2>6
<1>4. Recorded(n, i) \subseteq Clauses /\ Recorded(n, i - 1) \subseteq Clauses
  BY DEF Recorded
<1> QED BY <1>1, <1>3, <1>4 DEF After

\* An append leaves the states before it as they were,
LEMMA EarlierStatesStay ==
  ASSUME journal \in Seq(Entries), NEW e \in Entries, journal' = Append(journal, e),
         NEW n, NEW k \in Nat, k <= Len(journal)
  PROVE  Recorded(n, k)' = Recorded(n, k)
<1>1. \A i \in 1..k : journal'[i] = journal[i]
  OBVIOUS
<1>2. \A c : \A i \in 1..k : Removes(n, c, i)' <=> Removes(n, c, i)
  BY <1>1 DEF Removes
<1>3. \A c : \A i \in 0..k : Adds(n, c, i)' <=> Adds(n, c, i)
  BY <1>1 DEF Adds
<1>4. \A i \in 0..k : \A j \in i+1..k : j \in 1..k
  OBVIOUS
<1> QED BY <1>2, <1>3, <1>4 DEF Recorded

\* and makes the next one.
LEMMA AppendedState ==
  ASSUME journal \in Seq(Entries), NEW e \in Entries, journal' = Append(journal, e),
         NEW n, NEW k \in Nat, k = Len(journal)
  PROVE  Recorded(n, k + 1)' = After(n, k, e)
<1>1. /\ journal' \in Seq(Entries) /\ k + 1 \in DOMAIN journal'
      /\ journal'[k+1] = e /\ (k + 1) - 1 = k
  OBVIOUS
<1>2. EntriesMakeStates'
  BY RecordedStep, PTL
<1>3. Recorded(n, k + 1)' = After(n, (k + 1) - 1, e)'
  BY <1>1, <1>2 DEF EntriesMakeStates
<1>4. Recorded(n, k)' = Recorded(n, k)
  BY EarlierStatesStay
<1> QED BY <1>1, <1>3, <1>4 DEF After

\* What was true of an entry stays true.
LEMMA GroundedStays ==
  ASSUME journal \in Seq(Entries), NEW e \in Entries, journal' = Append(journal, e),
         NEW f, NEW k \in Nat, k <= Len(journal)
  PROVE  Grounded(f, k)' <=> Grounded(f, k)
<1>1. \A n : Recorded(n, k)' = Recorded(n, k)
  BY EarlierStatesStay
<1>2. \A n : After(n, k, f)' = After(n, k, f)
  BY <1>1 DEF After
<1>3. \A names : RecordedView(names, k)' = RecordedView(names, k)
  BY <1>1 DEF RecordedView
<1> QED BY <1>1, <1>2, <1>3 DEF Grounded

-----------------------------------------------------------------------------
(* Files and stamps                                                        *)

LEMMA StampsAreTyped ==
  ASSUME NEW f \in Files \cup {None}
  PROVE  /\ Stamp(f) \in Stamps
         /\ Text(f) \subseteq Clauses
         /\ Program(f) \in Programs
         /\ Stamp(f) = <<>> <=> f = None
<1>1. CASE f = None
  BY <1>1 DEF Stamp, Text, Program, Stamps, Programs
<1>2. CASE f # None
  <2>1. f \in Files /\ f.time \in 0..MaxTime /\ f.text \in SUBSET Clauses
    BY <1>2 DEF Files
  <2>2. Cardinality(f.text) \in 0..Cardinality(Clauses)
    <3>1. IsFiniteSet(Clauses) /\ f.text \subseteq Clauses
      BY <2>1, CacheBounds
    <3>2. /\ IsFiniteSet(f.text)
          /\ Cardinality(f.text) <= Cardinality(Clauses)
      BY <3>1, FS_Subset
    <3>3. Cardinality(f.text) \in Nat /\ Cardinality(Clauses) \in Nat
      BY <3>1, <3>2, FS_CardinalityType
    <3> QED BY <3>2, <3>3
  <2>3. Stamp(f) = <<f.time, Cardinality(f.text)>> /\ Text(f) = f.text
    BY <1>2 DEF Stamp, Text
  <2>4. Stamp(f) \in (0..MaxTime) \X (0..Cardinality(Clauses))
    BY <2>1, <2>2, <2>3
  <2>5. Stamp(f) # <<>>
    BY <2>3
  <2> QED BY <1>2, <2>1, <2>3, <2>4, <2>5 DEF Program, Stamps, Programs
<1> QED BY <1>1, <1>2

\* A file is no absent file.
LEMMA FilesArePresent ==
  ASSUME NEW f \in Files
  PROVE  f # None
BY NoneIsNoProgram

\* What a load returns is a program's clauses.
LEMMA LoadedIsTyped ==
  ASSUME TypeOK, NEW p \in Procs, NEW n \in Namespaces
  PROVE  Loaded(p, n) \subseteq Clauses /\ Stamp(file[n]) \in Stamps
<1>1. file[n] \in Files \cup {None} /\ cache[p][n] \in Programs \cup {None}
  BY DEF TypeOK
<1>2. Hit(p, n) => cache[p][n].text \subseteq Clauses
  BY <1>1 DEF Hit, Programs
<1> QED BY <1>1, <1>2, StampsAreTyped DEF Loaded

\* While no commit is under way, a load shows the file, which is what the
\* journal says.
LEMMA LoadedIsRecorded ==
  ASSUME TypeOK, CachesTell, FilesRecorded, Faithful, Unlocked,
         NEW p \in Procs, NEW n \in Namespaces
  PROVE  /\ Loaded(p, n) = Text(file[n])
         /\ Loaded(p, n) = Recorded(n, Len(journal))
<1>1. Committed(n) = file[n]
  BY DEF Unlocked, Committed
<1>2. cache[p][n] # None => Agree(cache[p][n], Program(file[n]))
  BY DEF CachesTell
<1>3. Hit(p, n) => cache[p][n].text = Text(file[n])
  BY <1>2 DEF Hit, Agree, Program
<1> QED BY <1>1, <1>3 DEF Loaded, FilesRecorded

-----------------------------------------------------------------------------
(* What a step leaves alone                                                *)

\* Without a new entry the recorded states and the claims of entries stay.
LEMMA RecordedStays ==
  ASSUME UNCHANGED journal
  PROVE  /\ \A n, k : Recorded(n, k)' = Recorded(n, k)
         /\ \A n, k, e : After(n, k, e)' = After(n, k, e)
         /\ \A e, k : Grounded(e, k)' <=> Grounded(e, k)
<1>1. \A n, c, i : (Adds(n, c, i)' <=> Adds(n, c, i))
                   /\ (Removes(n, c, i)' <=> Removes(n, c, i))
  BY DEF Adds, Removes
<1>2. \A n, k : Recorded(n, k)' = Recorded(n, k)
  BY <1>1 DEF Recorded
<1>3. \A n, k, e : After(n, k, e)' = After(n, k, e)
  BY <1>2 DEF After
<1>4. \A names, k : RecordedView(names, k)' = RecordedView(names, k)
  BY <1>2 DEF RecordedView
<1>5. \A e, k : Grounded(e, k)' <=> Grounded(e, k)
  BY <1>2, <1>3, <1>4 DEF Grounded
<1> QED BY <1>2, <1>3, <1>5

\* A step that appends, answers and reports nothing, and leaves the commit
\* under way its entry or ends it.
LEMMA StoreStays ==
  ASSUME IInv, StoreKept, Faithful' => Faithful,
         \/ writer' = None
         \/ /\ writer # None
            /\ writer'.entry = writer.entry /\ writer'.ns = writer.ns
            /\ writer'.next = writer.next
  PROVE  /\ WriterGrounded' /\ JournalGrounded' /\ IdsAreUnique' /\ AnswersTrue'
         /\ ReportsTrue'
<1> USE DEF StoreKept
<1>1. UNCHANGED journal
  OBVIOUS
<1>2. WriterGrounded'
  BY <1>1, RecordedStays DEF IInv, WriterGrounded, Asked
<1>3. JournalGrounded'
  BY <1>1, RecordedStays DEF IInv, JournalGrounded, Asked
<1>4. IdsAreUnique'
  BY DEF IInv, IdsAreUnique, IsReviewed, Prior
<1>5. AnswersTrue' /\ ReportsTrue'
  BY DEF IInv, AnswersTrue, ReportsTrue, ReportsShowTheReviewed, IsReviewed
<1> QED BY <1>2, <1>3, <1>4, <1>5

\* The committed files stay, and so does what the journal says of them.
LEMMA FilesStay ==
  ASSUME IInv, UNCHANGED journal, Faithful' => Faithful,
         \A n \in Namespaces : Committed(n)' = Committed(n)
  PROVE  FilesRecorded'
BY RecordedStays DEF IInv, FilesRecorded, Text

\* Processes that forget a program, keep it or learn that of the file.
LEMMA CachesStay ==
  ASSUME IInv, UNCHANGED file, Faithful' => Faithful,
         \A n \in Namespaces : Committed(n)' = Committed(n),
         \A p \in Procs, n \in Namespaces :
           \/ cache'[p][n] \in {None, cache[p][n]}
           \/ Faithful' => cache'[p][n] = Program(file[n])
  PROVE  CachesTell'
<1> SUFFICES ASSUME Faithful', NEW n \in Namespaces
             PROVE  /\ Agree(Program(file[n]), Program(Committed(n)))
                    /\ \A p \in Procs : cache'[p][n] # None =>
                         /\ Agree(cache'[p][n], Program(file[n]))
                         /\ Agree(cache'[p][n], Program(Committed(n)))
                         /\ Agree(cache'[p][n], Program(None))
  BY DEF CachesTell, Agree, Program, Text, Stamp
<1>1. /\ Agree(Program(file[n]), Program(Committed(n)))
      /\ \A p \in Procs : cache[p][n] # None =>
           /\ Agree(cache[p][n], Program(file[n]))
           /\ Agree(cache[p][n], Program(Committed(n)))
           /\ Agree(cache[p][n], Program(None))
  BY DEF IInv, CachesTell
<1>2. Agree(Program(file[n]), Program(file[n]))
  BY DEF Agree
<1>3. Agree(Program(file[n]), Program(None))
  BY StampsAreTyped DEF IInv, TypeOK, Agree, Program
<1> QED BY <1>1, <1>2, <1>3

-----------------------------------------------------------------------------
(* The steps of the cache                                                  *)

LEMMA TickStep ==
  ASSUME IInv, Tick, StoreKept
  PROVE  IInv'
<1>1. Faithful' <=> Faithful
  BY DEF Tick, Faithful
<1>2. \A n \in Namespaces : Committed(n)' = Committed(n)
  BY DEF Tick, Committed
<1>3. TypeOK'
  BY CacheBounds DEF IInv, TypeOK, Tick, StoreKept
<1>4. WriterSteps'
  BY DEF IInv, WriterSteps, Tick
<1>5. CachesTell'
  BY <1>1, <1>2, CachesStay DEF Tick
<1>6. FilesRecorded'
  BY <1>1, <1>2, FilesStay DEF StoreKept
<1> QED BY <1>1, <1>3, <1>4, <1>5, <1>6, StoreStays DEF Tick, IInv

LEMMA RestartStep ==
  ASSUME IInv, NEW p \in Procs, Restart(p), StoreKept
  PROVE  IInv'
<1>1. Faithful' <=> Faithful
  BY DEF Restart, Faithful
<1>2. \A n \in Namespaces : Committed(n)' = Committed(n)
  BY DEF Restart, Committed
<1>3. TypeOK'
  <2>1. cache' \in [Procs -> [Namespaces -> Programs \cup {None}]]
    BY DEF IInv, TypeOK, Restart
  <2>2. stat' \in [Procs -> [ns : Namespaces, stamp : Stamps] \cup {None}]
    BY DEF IInv, TypeOK, Restart
  <2> QED BY <2>1, <2>2 DEF IInv, TypeOK, Restart, StoreKept
<1>4. WriterSteps'
  BY DEF IInv, WriterSteps, Restart
<1>5. \A q \in Procs, n \in Namespaces : cache'[q][n] \in {None, cache[q][n]}
  BY DEF IInv, TypeOK, Restart
<1>6. CachesTell'
  BY <1>1, <1>2, <1>5, CachesStay DEF Restart
<1>7. FilesRecorded'
  BY <1>1, <1>2, FilesStay DEF StoreKept
<1> QED BY <1>1, <1>3, <1>4, <1>6, <1>7, StoreStays DEF Restart, IInv

LEMMA StatFileStep ==
  ASSUME IInv, NEW p \in Procs, NEW n \in Namespaces, StatFile(p, n), StoreKept
  PROVE  IInv'
<1>1. Faithful' <=> Faithful
  BY DEF StatFile, Faithful
<1>2. \A m \in Namespaces : Committed(m)' = Committed(m)
  BY DEF StatFile, Committed
<1>3. TypeOK'
  <2>1. Stamp(file[n]) \in Stamps
    BY StampsAreTyped DEF IInv, TypeOK
  <2>2. stat' \in [Procs -> [ns : Namespaces, stamp : Stamps] \cup {None}]
    BY <2>1 DEF IInv, TypeOK, StatFile
  <2> QED BY <2>2 DEF IInv, TypeOK, StatFile, StoreKept
<1>4. WriterSteps'
  BY DEF IInv, WriterSteps, StatFile
<1>5. CachesTell'
  BY <1>1, <1>2, CachesStay DEF StatFile
<1>6. FilesRecorded'
  BY <1>1, <1>2, FilesStay DEF StoreKept
<1> QED BY <1>1, <1>3, <1>4, <1>5, <1>6, StoreStays DEF StatFile, IInv

LEMMA ReadFileStep ==
  ASSUME IInv, NEW p \in Procs, ReadFile(p), StoreKept
  PROVE  IInv'
<1> DEFINE n == stat[p].ns
<1>0. n \in Namespaces /\ stat[p].stamp \in Stamps /\ file[n] \in Files \cup {None}
  BY DEF IInv, TypeOK, ReadFile
<1>1. /\ Faithful' => Faithful
      /\ Faithful' => stat[p].stamp = Stamp(file[n])
  BY DEF ReadFile, Faithful
<1>2. \A m \in Namespaces : Committed(m)' = Committed(m)
  BY DEF ReadFile, Committed
<1>3. TypeOK'
  <2>1. [text |-> Text(file[n]), stamp |-> stat[p].stamp] \in Programs
    BY <1>0, StampsAreTyped DEF Programs
  <2>2. cache' \in [Procs -> [Namespaces -> Programs \cup {None}]]
    BY <1>0, <2>1 DEF IInv, TypeOK, ReadFile
  <2>3. stat' \in [Procs -> [ns : Namespaces, stamp : Stamps] \cup {None}]
    BY DEF IInv, TypeOK, ReadFile
  <2>4. straddled' \in BOOLEAN
    BY DEF ReadFile
  <2> QED BY <2>2, <2>3, <2>4 DEF IInv, TypeOK, ReadFile, StoreKept
<1>4. WriterSteps'
  BY DEF IInv, WriterSteps, ReadFile
<1>5. \A q \in Procs, m \in Namespaces :
        \/ cache'[q][m] = cache[q][m]
        \/ Faithful' => cache'[q][m] = Program(file[m])
  BY <1>0, <1>1 DEF IInv, TypeOK, ReadFile, Program
<1>6. CachesTell'
  BY <1>1, <1>2, <1>5, CachesStay DEF ReadFile
<1>7. FilesRecorded'
  BY <1>1, <1>2, FilesStay DEF StoreKept
<1> QED BY <1>1, <1>3, <1>4, <1>6, <1>7, StoreStays DEF ReadFile, IInv

-----------------------------------------------------------------------------
(* The steps of a commit on the files                                      *)

\* A commit under way has its parts.
LEMMA CommitIsTyped ==
  ASSUME TypeOK, ~Unlocked
  PROVE  /\ writer \in Commits /\ writer # None
         /\ writer.ns \in Namespaces /\ writer.proc \in Procs
         /\ writer.entry \in Entries /\ writer.next \in Files
         /\ writer.backup \in Files \cup {None}
BY DEF TypeOK, Unlocked, Commits

LEMMA SetAsideStep ==
  ASSUME IInv, SetAside, StoreKept
  PROVE  IInv'
<1> DEFINE n == writer.ns
<1>0. /\ writer \in Commits /\ n \in Namespaces /\ writer # None
      /\ file[n] \in Files \cup {None} /\ writer.step = "aside"
  BY CommitIsTyped DEF IInv, TypeOK, SetAside
<1>1. Faithful' <=> Faithful
  BY DEF SetAside, Faithful
<1>2. writer' = [writer EXCEPT !.step = "publish", !.backup = file[n]]
      /\ file' = [file EXCEPT ![n] = None]
  BY DEF SetAside
<1>3. writer' \in Commits
  BY <1>0, <1>2 DEF Commits
<1>4. /\ writer' # None /\ writer'.ns = n /\ writer'.step = "publish"
      /\ writer'.backup = file[n] /\ writer'.entry = writer.entry
      /\ writer'.next = writer.next
  BY <1>0, <1>2, <1>3, NoneIsNoCommit DEF Commits
<1>5. \A m \in Namespaces : Committed(m)' = Committed(m)
  BY <1>0, <1>2, <1>4 DEF IInv, TypeOK, Committed
<1>6. TypeOK'
  <2>1. file' \in [Namespaces -> Files \cup {None}]
    BY <1>2 DEF IInv, TypeOK
  <2> QED BY <1>3, <2>1 DEF IInv, TypeOK, SetAside, StoreKept
<1>7. WriterSteps'
  BY <1>0, <1>2, <1>4 DEF IInv, TypeOK, WriterSteps
<1>8. CachesTell'
  <2> SUFFICES ASSUME Faithful', NEW m \in Namespaces
               PROVE  /\ Agree(Program(file'[m]), Program(Committed(m)))
                      /\ \A p \in Procs : cache[p][m] # None =>
                           /\ Agree(cache[p][m], Program(file'[m]))
                           /\ Agree(cache[p][m], Program(Committed(m)))
                           /\ Agree(cache[p][m], Program(None))
    BY <1>5 DEF CachesTell, SetAside, Agree, Program, Text, Stamp
  <2>1. /\ Agree(Program(file[m]), Program(Committed(m)))
        /\ \A p \in Procs : cache[p][m] # None =>
             /\ Agree(cache[p][m], Program(file[m]))
             /\ Agree(cache[p][m], Program(Committed(m)))
             /\ Agree(cache[p][m], Program(None))
    BY <1>1 DEF IInv, CachesTell
  <2>2. CASE m # n
    BY <1>2, <2>1, <2>2 DEF IInv, TypeOK
  <2>3. CASE m = n
    <3>1. file'[m] = None /\ Committed(m) = file[m]
      BY <1>0, <1>2, <2>3 DEF IInv, TypeOK, Committed
    <3>2. Agree(Program(None), Program(file[m]))
      BY <1>0, <2>3, StampsAreTyped DEF Agree, Program, Stamp, Text
    <3> QED BY <2>1, <3>1, <3>2
  <2> QED BY <2>2, <2>3
<1>9. FilesRecorded'
  BY <1>1, <1>5, FilesStay DEF StoreKept
<1> QED BY <1>0, <1>1, <1>4, <1>6, <1>7, <1>8, <1>9, StoreStays DEF IInv

LEMMA PublishStep ==
  ASSUME IInv, Publish, StoreKept
  PROVE  IInv'
<1> DEFINE n == writer.ns
<1>0. /\ writer \in Commits /\ n \in Namespaces /\ writer # None
      /\ writer.next \in Files /\ writer.backup \in Files \cup {None}
      /\ writer.step = "publish"
  BY CommitIsTyped DEF IInv, TypeOK, Publish
<1>1. /\ Faithful' => Faithful
      /\ Faithful' => ~Repeats(n, writer.next, writer.backup)
  BY DEF Publish, Faithful
<1>2. writer' = [writer EXCEPT !.step = "append"]
      /\ file' = [file EXCEPT ![n] = writer.next]
  BY DEF Publish
<1>3. writer' \in Commits
  BY <1>0, <1>2 DEF Commits
<1>4. /\ writer' # None /\ writer'.ns = n /\ writer'.step = "append"
      /\ writer'.backup = writer.backup /\ writer'.entry = writer.entry
      /\ writer'.next = writer.next
  BY <1>0, <1>2, <1>3, NoneIsNoCommit DEF Commits
<1>5. \A m \in Namespaces : Committed(m)' = Committed(m)
  BY <1>0, <1>2, <1>4 DEF IInv, TypeOK, Committed
<1>6. TypeOK'
  <2>1. file' \in [Namespaces -> Files \cup {None}]
    BY <1>0, <1>2 DEF IInv, TypeOK
  <2>2. repeated' \in BOOLEAN
    BY DEF Publish, IInv, TypeOK
  <2> QED BY <1>3, <2>1, <2>2 DEF IInv, TypeOK, Publish, StoreKept
<1>7. WriterSteps'
  BY <1>0, <1>2, <1>4 DEF IInv, TypeOK, WriterSteps
<1>8. CachesTell'
  <2> SUFFICES ASSUME Faithful', NEW m \in Namespaces
               PROVE  /\ Agree(Program(file'[m]), Program(Committed(m)))
                      /\ \A p \in Procs : cache[p][m] # None =>
                           /\ Agree(cache[p][m], Program(file'[m]))
                           /\ Agree(cache[p][m], Program(Committed(m)))
                           /\ Agree(cache[p][m], Program(None))
    BY <1>5 DEF CachesTell, Publish, Agree, Program, Text, Stamp
  <2>1. /\ Agree(Program(file[m]), Program(Committed(m)))
        /\ \A p \in Procs : cache[p][m] # None =>
             /\ Agree(cache[p][m], Program(file[m]))
             /\ Agree(cache[p][m], Program(Committed(m)))
             /\ Agree(cache[p][m], Program(None))
    BY <1>1 DEF IInv, CachesTell
  <2>2. CASE m # n
    BY <1>2, <2>1, <2>2 DEF IInv, TypeOK
  <2>3. CASE m = n
    <3>1. file'[m] = writer.next /\ Committed(m) = writer.backup
      BY <1>0, <1>2, <2>3 DEF IInv, TypeOK, Committed
    <3>2. Program(writer.backup) # None /\ Text(writer.next) = writer.next.text
      BY <1>0, StampsAreTyped, NoneIsNoProgram DEF Text
    <3>3. Agree(Program(writer.next), Program(writer.backup))
      BY <1>1, <3>2 DEF Repeats, Agree, Program
    <3>4. \A p \in Procs : cache[p][n] # None => Agree(cache[p][n], Program(writer.next))
      BY <1>1, <3>2 DEF Repeats, Agree, Program
    <3> QED BY <2>1, <2>3, <3>1, <3>3, <3>4
  <2> QED BY <2>2, <2>3
<1>9. FilesRecorded'
  BY <1>1, <1>5, FilesStay DEF StoreKept
<1> QED BY <1>0, <1>1, <1>4, <1>6, <1>7, <1>8, <1>9, StoreStays DEF IInv

LEMMA RollbackStep ==
  ASSUME IInv, Rollback, StoreKept
  PROVE  IInv'
<1> DEFINE n == writer.ns
<1>0. /\ writer \in Commits /\ n \in Namespaces /\ writer # None
      /\ writer.proc \in Procs /\ writer.backup \in Files \cup {None}
      /\ writer.step = "append"
  BY CommitIsTyped DEF IInv, TypeOK, Rollback
<1>1. Faithful' <=> Faithful
  BY DEF Rollback, Faithful
<1>2. /\ writer' = None /\ file' = [file EXCEPT ![n] = writer.backup]
      /\ cache' = [cache EXCEPT ![writer.proc][n] = None]
  BY DEF Rollback
<1>3. \A m \in Namespaces : Committed(m)' = Committed(m) /\ file'[m] = Committed(m)
  BY <1>0, <1>2 DEF IInv, TypeOK, Committed
<1>4. \A p \in Procs, m \in Namespaces : cache'[p][m] \in {None, cache[p][m]}
  BY <1>2 DEF IInv, TypeOK
<1>5. TypeOK'
  <2>1. file' \in [Namespaces -> Files \cup {None}]
    BY <1>0, <1>2 DEF IInv, TypeOK
  <2>2. cache' \in [Procs -> [Namespaces -> Programs \cup {None}]]
    BY <1>0, <1>2 DEF IInv, TypeOK
  <2> QED BY <1>2, <2>1, <2>2 DEF IInv, TypeOK, Rollback, StoreKept
<1>6. WriterSteps'
  BY <1>2 DEF WriterSteps
<1>7. CachesTell'
  <2> SUFFICES ASSUME Faithful', NEW m \in Namespaces
               PROVE  /\ Agree(Program(Committed(m)), Program(Committed(m)))
                      /\ \A p \in Procs : cache'[p][m] # None =>
                           /\ Agree(cache'[p][m], Program(Committed(m)))
                           /\ Agree(cache'[p][m], Program(None))
    BY <1>3 DEF CachesTell, Agree, Program, Text, Stamp
  <2> QED BY <1>1, <1>4 DEF IInv, CachesTell, Agree
<1>8. FilesRecorded'
  BY <1>1, <1>3, FilesStay DEF StoreKept
<1> QED BY <1>1, <1>2, <1>5, <1>6, <1>7, <1>8, StoreStays DEF IInv

-----------------------------------------------------------------------------
(* Loads under the lock                                                    *)

\* A locked operation that loads namespaces, and may start a commit.
LocksAndLoads(p, names) ==
  /\ Unlocked /\ Remember(p, names)
  /\ UNCHANGED <<clock, file, stat, repeated, straddled, journal>>
  /\ \/ writer' = writer
     \/ writer' \in Commits /\ writer'.step = "aside" /\ writer'.entry.ns = writer'.ns

LEMMA LoadsStep ==
  ASSUME IInv, NEW p \in Procs, NEW names, LocksAndLoads(p, names)
  PROVE  /\ Faithful' <=> Faithful
         /\ cache' \in [Procs -> [Namespaces -> Programs \cup {None}]]
         /\ WriterSteps' /\ CachesTell' /\ FilesRecorded'
<1> USE DEF LocksAndLoads
<1>1. Faithful' <=> Faithful
  BY DEF Faithful
<1>2. \A n \in Namespaces : Committed(n)' = Committed(n)
  BY DEF Unlocked, Committed
<1>3. \A n \in Namespaces : [text |-> Loaded(p, n), stamp |-> Stamp(file[n])] \in Programs
  BY LoadedIsTyped DEF IInv, Programs
<1>4. cache' \in [Procs -> [Namespaces -> Programs \cup {None}]]
  BY <1>3 DEF IInv, TypeOK, Remember
<1>5. \A q \in Procs, n \in Namespaces :
        \/ cache'[q][n] \in {None, cache[q][n]}
        \/ Faithful' => cache'[q][n] = Program(file[n])
  <2>1. \A n \in Namespaces : Faithful => Loaded(p, n) = Text(file[n])
    BY LoadedIsRecorded DEF IInv
  <2> QED BY <1>1, <2>1 DEF IInv, TypeOK, Remember, Program
<1>6. WriterSteps'
  BY DEF WriterSteps, Unlocked
<1>7. CachesTell'
  BY <1>1, <1>2, <1>5, CachesStay
<1>8. FilesRecorded'
  BY <1>1, <1>2, FilesStay
<1> QED BY <1>1, <1>4, <1>6, <1>7, <1>8

\* What a locked load admits is admitted by the recorded state.
LEMMA AdmittedOnTheRecord ==
  ASSUME IInv, Faithful, Unlocked, NEW p \in Procs,
         NEW e \in Entries, NEW candidate,
         candidate = After(e.ns, Len(journal), e),
         Admits(p, e.ns, candidate, e.enforce)
  PROVE  \A rule \in e.enforce :
           Allows(rule, Union(RecordedView(rule.names, Len(journal))),
                        Union([n \in rule.names |-> After(n, Len(journal), e)]))
<1> DEFINE k == Len(journal)
<1> SUFFICES ASSUME NEW rule \in e.enforce
             PROVE  Allows(rule, Union(RecordedView(rule.names, k)),
                                 Union([n \in rule.names |-> After(n, k, e)]))
  OBVIOUS
<1>1. e.ns \in Namespaces /\ rule.names \in SUBSET Namespaces
  BY DEF Entries, Rules
<1>2. \A n \in Namespaces : Loaded(p, n) = Recorded(n, k)
  BY LoadedIsRecorded DEF IInv
<1>3. ViewWith(p, rule.names, e.ns, Loaded(p, e.ns)) = RecordedView(rule.names, k)
  BY <1>1, <1>2 DEF ViewWith, RecordedView
<1>4. ViewWith(p, rule.names, e.ns, candidate) = [n \in rule.names |-> After(n, k, e)]
  BY <1>1, <1>2 DEF ViewWith, After
<1> QED BY <1>3, <1>4 DEF Admits

\* A locked operation that starts a commit whose claims are true.
LEMMA BeginStep ==
  ASSUME IInv, Unlocked, UNCHANGED <<clock, journal>>, Faithful' => Faithful,
         NEW p \in Procs, NEW e \in Entries, NEW candidate \in SUBSET Clauses,
         Begin(p, e.ns, candidate, e),
         Asked(e),
         Faithful => /\ Grounded(e, Len(journal))
                     /\ candidate = After(e.ns, Len(journal), e),
         e.op = "memory_change" => Prior(e.ns, e.id) = {}
  PROVE  /\ writer' \in Commits /\ writer'.step = "aside" /\ writer'.entry.ns = writer'.ns
         /\ WriterGrounded' /\ IdsAreUnique'
<1>1. /\ writer' = [proc |-> p, ns |-> e.ns, step |-> "aside", entry |-> e,
                    next |-> [text |-> candidate, time |-> clock], backup |-> None]
      /\ clock \in 0..MaxTime /\ e.ns \in Namespaces
  BY DEF Begin, IInv, TypeOK, Entries
<1>2. [text |-> candidate, time |-> clock] \in Files
  BY <1>1 DEF Files
<1>3. /\ writer' \in Commits /\ writer'.step = "aside" /\ writer'.entry = e
      /\ writer'.ns = e.ns /\ writer'.next.text = candidate
  BY <1>1, <1>2 DEF Commits
<1>4. WriterGrounded'
  BY <1>3, RecordedStays DEF WriterGrounded, Asked
<1>5. IdsAreUnique'
  BY <1>3 DEF IInv, IdsAreUnique, IsReviewed, Prior
<1> QED BY <1>3, <1>4, <1>5

\* A locked operation that starts none.
LEMMA NoBeginStep ==
  ASSUME IInv, Unlocked, UNCHANGED <<writer, journal>>
  PROVE  WriterGrounded' /\ IdsAreUnique'
BY DEF IInv, Unlocked, WriterGrounded, IdsAreUnique, IsReviewed, Prior

\* Entries and answers are untouched.
LEMMA AnswersStay ==
  ASSUME IInv, UNCHANGED <<journal, answers>>, Faithful' => Faithful
  PROVE  JournalGrounded' /\ AnswersTrue'
<1>1. JournalGrounded'
  BY RecordedStays DEF IInv, JournalGrounded, Asked
<1>2. AnswersTrue'
  BY DEF IInv, AnswersTrue, IsReviewed
<1> QED BY <1>1, <1>2

LEMMA ReportsStay ==
  ASSUME IInv, UNCHANGED reports, answers \subseteq answers', Faithful' => Faithful
  PROVE  ReportsTrue'
BY DEF IInv, ReportsTrue, ReportsShowTheReviewed

LEMMA ChangeStep ==
  ASSUME IInv, NEW p \in Procs, NEW r \in Requests, Change(p, r)
  PROVE  IInv'
<1> DEFINE current   == Loaded(p, r.ns)
           candidate == (current \ r.remove) \cup r.add
           e == [op |-> "change", ns |-> r.ns, id |-> None, proposal |-> None,
                 added |-> candidate \ current, removed |-> current \ candidate,
                 enforce |-> r.enforce]
<1>0. /\ Unlocked
      /\ UNCHANGED <<clock, file, stat, repeated, straddled, journal, proposals,
                     answers, reports>>
      /\ Remember(p, {r.ns} \cup Governed(r.enforce))
      /\ \/ Admits(p, r.ns, candidate, r.enforce) /\ Begin(p, r.ns, candidate, e)
         \/ UNCHANGED writer
  BY DEF Change
<1>1. Faithful' <=> Faithful
  BY <1>0 DEF Faithful
<1>2. /\ r.ns \in Namespaces /\ r.enforce \subseteq Rules
      /\ current \subseteq Clauses /\ candidate \in SUBSET Clauses
  BY RequestsAssumption, LoadedIsTyped DEF IInv
<1>3. e \in Entries
  BY <1>2 DEF Entries
<1>4. ASSUME Admits(p, r.ns, candidate, r.enforce), Begin(p, r.ns, candidate, e)
      PROVE  /\ writer' \in Commits /\ writer'.step = "aside"
             /\ writer'.entry.ns = writer'.ns
             /\ WriterGrounded' /\ IdsAreUnique'
  <2>1. Asked(e)
    BY DEF Asked
  <2>2. ASSUME Faithful
        PROVE  Grounded(e, Len(journal)) /\ candidate = After(e.ns, Len(journal), e)
    <3>1. current = Recorded(r.ns, Len(journal))
      BY <1>0, <1>2, <2>2, LoadedIsRecorded DEF IInv
    <3>2. candidate = After(e.ns, Len(journal), e)
      BY <3>1 DEF After
    <3>3. \A rule \in e.enforce :
            Allows(rule, Union(RecordedView(rule.names, Len(journal))),
                         Union([n \in rule.names |-> After(n, Len(journal), e)]))
      <4>1. e.ns = r.ns /\ e.enforce = r.enforce
        OBVIOUS
      <4> HIDE DEF candidate, e
      <4> QED BY <1>0, <1>3, <1>4, <2>2, <3>2, <4>1, AdmittedOnTheRecord
    <3> QED BY <3>2, <3>3 DEF Grounded
  <2>3. e.ns = r.ns /\ e.op # "memory_change"
    OBVIOUS
  <2> HIDE DEF candidate, e
  <2> QED BY <1>0, <1>1, <1>2, <1>3, <1>4, <2>1, <2>2, <2>3, BeginStep
<1>5. WriterGrounded' /\ IdsAreUnique'
  BY <1>0, <1>4, NoBeginStep
<1>6. LocksAndLoads(p, {r.ns} \cup Governed(r.enforce))
  BY <1>0, <1>4 DEF LocksAndLoads
<1>7. /\ cache' \in [Procs -> [Namespaces -> Programs \cup {None}]]
      /\ WriterSteps' /\ CachesTell' /\ FilesRecorded'
  BY <1>6, LoadsStep
<1>8. TypeOK'
  BY <1>0, <1>4, <1>7 DEF IInv, TypeOK
<1> QED BY <1>0, <1>1, <1>5, <1>7, <1>8, AnswersStay, ReportsStay DEF IInv

LEMMA ProposeStep ==
  ASSUME IInv, NEW p \in Procs, NEW x \in Extractions, Propose(p, x)
  PROVE  IInv'
<1> DEFINE baseline == [n \in x.names |-> Loaded(p, n)]
           remove   == x.remove \cap baseline[x.ns]
           add      == x.add \ (baseline[x.ns] \ remove)
           q == [ns |-> x.ns, baseline |-> baseline, add |-> add, remove |-> remove,
                 enforce |-> x.enforce]
<1>0. /\ Unlocked /\ Remember(p, x.names) /\ proposals' = proposals \cup {q}
      /\ UNCHANGED <<clock, file, writer, stat, repeated, straddled, journal, answers,
                     reports>>
  BY DEF Propose
<1>1. Faithful' <=> Faithful
  BY <1>0 DEF Faithful
<1>2. /\ x.ns \in x.names /\ x.names \subseteq Namespaces
      /\ x.add \subseteq Clauses /\ x.enforce \subseteq Rules
  BY ExtractionsAssumption
<1>3. q \in Proposals /\ q.ns \in DOMAIN q.baseline /\ q.remove \subseteq q.baseline[q.ns]
  <2>1. baseline \in [x.names -> SUBSET Clauses]
    BY <1>2, LoadedIsTyped DEF IInv
  <2>2. baseline \in Baselines
    BY <1>2, <2>1 DEF Baselines
  <2>3. remove \subseteq baseline[x.ns] /\ remove \in SUBSET Clauses /\ add \in SUBSET Clauses
    BY <1>2, <2>1
  <2>4. DOMAIN baseline = x.names
    OBVIOUS
  <2> HIDE DEF baseline, remove, add
  <2> QED BY <1>2, <2>2, <2>3, <2>4 DEF Proposals
<1> HIDE DEF q
<1>4. LocksAndLoads(p, x.names)
  BY <1>0 DEF LocksAndLoads
<1>5. /\ cache' \in [Procs -> [Namespaces -> Programs \cup {None}]]
      /\ WriterSteps' /\ CachesTell' /\ FilesRecorded'
  BY <1>4, LoadsStep
<1>6. TypeOK'
  BY <1>0, <1>3, <1>5 DEF IInv, TypeOK
<1> QED BY <1>0, <1>1, <1>5, <1>6, NoBeginStep, AnswersStay, ReportsStay DEF IInv

LEMMA ApplyStep ==
  ASSUME IInv, NEW p \in Procs, NEW q \in proposals, NEW id \in OpIds, Apply(p, q, id)
  PROVE  IInv'
<1> DEFINE current   == Loaded(p, q.ns)
           retained  == current \ q.remove
           candidate == retained \cup q.add
           e == [op |-> "memory_change", ns |-> q.ns, id |-> id, proposal |-> q,
                 added |-> q.add, removed |-> q.remove, enforce |-> q.enforce]
           Starts == /\ IsCurrent(p, q)
                     /\ q.remove \subseteq current /\ q.add \cap retained = {}
                     /\ Admits(p, q.ns, candidate, q.enforce)
                     /\ Begin(p, q.ns, candidate, e)
<1>0. /\ Unlocked /\ Prior(q.ns, id) = {}
      /\ UNCHANGED <<clock, file, stat, repeated, straddled, journal, proposals,
                     answers, reports>>
      /\ Remember(p, DOMAIN q.baseline)
      /\ Starts \/ UNCHANGED writer
  BY DEF Apply
<1>1. Faithful' <=> Faithful
  BY <1>0 DEF Faithful
<1>2. /\ q \in Proposals /\ q.ns \in DOMAIN q.baseline /\ q.ns \in Namespaces
      /\ q.add \subseteq Clauses /\ q.remove \subseteq Clauses /\ q.enforce \subseteq Rules
      /\ q.baseline = [n \in DOMAIN q.baseline |-> q.baseline[n]]
      /\ DOMAIN q.baseline \subseteq Namespaces
  <2>1. q \in Proposals /\ q.ns \in DOMAIN q.baseline
    BY DEF IInv, TypeOK
  <2>2. PICK names \in SUBSET Namespaces : q.baseline \in [names -> SUBSET Clauses]
    BY <2>1 DEF Proposals, Baselines
  <2> QED BY <2>1, <2>2 DEF Proposals
<1>3. candidate \in SUBSET Clauses
  BY <1>2, LoadedIsTyped DEF IInv
<1>4. e \in Entries
  BY <1>2 DEF Entries
<1>5. ASSUME Starts
      PROVE  /\ writer' \in Commits /\ writer'.step = "aside"
             /\ writer'.entry.ns = writer'.ns
             /\ WriterGrounded' /\ IdsAreUnique'
  <2>1. Asked(e)
    BY <1>2 DEF Asked
  <2>2. ASSUME Faithful
        PROVE  Grounded(e, Len(journal)) /\ candidate = After(e.ns, Len(journal), e)
    <3>1. \A n \in Namespaces : Loaded(p, n) = Recorded(n, Len(journal))
      BY <1>0, <2>2, LoadedIsRecorded DEF IInv
    <3>2. candidate = After(e.ns, Len(journal), e)
      BY <1>2, <3>1 DEF After
    <3>3. \A rule \in e.enforce :
            Allows(rule, Union(RecordedView(rule.names, Len(journal))),
                         Union([n \in rule.names |-> After(n, Len(journal), e)]))
      <4>1. e.ns = q.ns /\ e.enforce = q.enforce /\ Admits(p, q.ns, candidate, q.enforce)
        BY <1>5
      <4> HIDE DEF candidate, e
      <4> QED BY <1>0, <1>4, <2>2, <3>2, <4>1, AdmittedOnTheRecord
    <3>4. RecordedView(DOMAIN q.baseline, Len(journal)) = q.baseline
      BY <1>2, <1>5, <3>1 DEF RecordedView, IsCurrent
    <3>5. /\ q.remove \subseteq Recorded(q.ns, Len(journal))
          /\ q.add \cap (Recorded(q.ns, Len(journal)) \ q.remove) = {}
      BY <1>2, <1>5, <3>1
    <3> QED BY <3>2, <3>3, <3>4, <3>5 DEF Grounded
  <2>3. e.ns = q.ns /\ e.id = id /\ Begin(p, q.ns, candidate, e)
    BY <1>5
  <2> HIDE DEF candidate, e
  <2> QED BY <1>0, <1>1, <1>3, <1>4, <2>1, <2>2, <2>3, BeginStep
<1>6. WriterGrounded' /\ IdsAreUnique'
  BY <1>0, <1>5, NoBeginStep
<1>7. LocksAndLoads(p, DOMAIN q.baseline)
  BY <1>0, <1>5 DEF LocksAndLoads
<1>8. /\ cache' \in [Procs -> [Namespaces -> Programs \cup {None}]]
      /\ WriterSteps' /\ CachesTell' /\ FilesRecorded'
  BY <1>7, LoadsStep
<1>9. TypeOK'
  BY <1>0, <1>5, <1>8 DEF IInv, TypeOK
<1> QED BY <1>0, <1>1, <1>6, <1>8, <1>9, AnswersStay, ReportsStay DEF IInv

-----------------------------------------------------------------------------
(* Answers and reports                                                     *)

LEMMA RetryStep ==
  ASSUME IInv, NEW p \in Procs, NEW q \in proposals, NEW id \in OpIds, Retry(p, q, id)
  PROVE  IInv'
<1>0. PICK i \in Prior(q.ns, id) : /\ journal[i].proposal = q
                                   /\ answers' = answers \cup {Answer(id, q, i)}
  BY DEF Retry
<1>1. /\ UNCHANGED <<cacheVars, journal, proposals, reports>>
      /\ UNCHANGED <<clock, file, writer, cache, stat, repeated, straddled>>
  BY DEF Retry, cacheVars
<1>2. Faithful' <=> Faithful
  BY <1>1 DEF Faithful
<1>3. /\ i \in DOMAIN journal /\ q \in Proposals
      /\ IsReviewed(journal[i], q.ns, id)
  BY DEF IInv, TypeOK, Prior, IsReviewed
<1>4. TypeOK'
  BY <1>0, <1>1, <1>3 DEF IInv, TypeOK, Answer
<1>5. \A n \in Namespaces : Committed(n)' = Committed(n)
  BY <1>1 DEF Committed
<1>6. WriterSteps'
  BY <1>1 DEF IInv, WriterSteps
<1>7. CachesTell'
  BY <1>1, <1>2, <1>5, CachesStay
<1>8. FilesRecorded'
  BY <1>1, <1>2, <1>5, FilesStay
<1>9. WriterGrounded' /\ JournalGrounded' /\ IdsAreUnique'
  BY <1>1, <1>2, RecordedStays
  DEF IInv, WriterGrounded, JournalGrounded, Asked, IdsAreUnique, IsReviewed, Prior
<1>10. AnswersTrue'
  BY <1>0, <1>1, <1>3 DEF IInv, AnswersTrue, IsReviewed, Answer
<1>11. ReportsTrue'
  BY <1>0, <1>1, <1>2, ReportsStay
<1> QED BY <1>4, <1>6, <1>7, <1>8, <1>9, <1>10, <1>11 DEF IInv

\* What the journal says once an applied proposal's entry is in it.
LEMMA AppliedIsTheCandidate ==
  ASSUME IInv, Faithful, NEW a \in answers
  PROVE  LET q == a.proposal
         IN  RecordedView(DOMAIN q.baseline, a.sequence)
               = [q.baseline EXCEPT ![q.ns] = (@ \ q.remove) \cup q.add]
<1> DEFINE q == a.proposal
           i == a.sequence
           e == journal[i]
<1>1. /\ i \in DOMAIN journal /\ q \in Proposals
      /\ e.op = "memory_change" /\ e.proposal = q /\ e.ns = q.ns
  BY DEF IInv, TypeOK, AnswersTrue, IsReviewed
<1>2. /\ q.ns \in DOMAIN q.baseline
      /\ e.added = q.add /\ e.removed = q.remove
      /\ RecordedView(DOMAIN q.baseline, i - 1) = q.baseline
  BY <1>1 DEF IInv, JournalGrounded, Asked, Grounded
<1>3. \A n \in DOMAIN q.baseline : Recorded(n, i - 1) = q.baseline[n]
  BY <1>2 DEF RecordedView
<1>4. \A n : Recorded(n, i) = After(n, i - 1, e)
  BY <1>1, RecordedStep DEF EntriesMakeStates, IInv, TypeOK
<1> HIDE DEF i, e
<1>5. \A n \in DOMAIN q.baseline :
        Recorded(n, i) = IF n = q.ns THEN (q.baseline[n] \ q.remove) \cup q.add
                         ELSE q.baseline[n]
  BY <1>1, <1>2, <1>3, <1>4 DEF After
<1>6. PICK names \in SUBSET Namespaces : q.baseline \in [names -> SUBSET Clauses]
  BY <1>1 DEF Proposals, Baselines
<1> QED BY <1>2, <1>5, <1>6 DEF RecordedView, i

LEMMA ReportStep ==
  ASSUME IInv, NEW p \in Procs, NEW a \in answers, Report(p, a)
  PROVE  IInv'
<1> DEFINE q == a.proposal
           names == DOMAIN q.baseline
           drifted == \E n \in names : Loaded(p, n) # Recorded(n, Len(journal))
           view == IF drifted \/ ~Replays(names) THEN None
                   ELSE RecordedView(names, a.sequence)
<1>0. /\ Unlocked /\ Remember(p, names)
      /\ reports' = reports \cup {[answer |-> a, view |-> view]}
      /\ UNCHANGED <<clock, file, writer, stat, repeated, straddled, journal, proposals,
                     answers>>
  BY DEF Report
<1>1. Faithful' <=> Faithful
  BY <1>0 DEF Faithful
<1>2. LocksAndLoads(p, names)
  BY <1>0 DEF LocksAndLoads
<1>3. /\ cache' \in [Procs -> [Namespaces -> Programs \cup {None}]]
      /\ WriterSteps' /\ CachesTell' /\ FilesRecorded'
  BY <1>2, LoadsStep
<1>4. TypeOK'
  BY <1>0, <1>3 DEF IInv, TypeOK
<1>5. ASSUME Faithful
      PROVE  view = [q.baseline EXCEPT ![q.ns] = (@ \ q.remove) \cup q.add]
  <2>1. names \subseteq Namespaces
    <3>1. q \in Proposals
      BY DEF IInv, TypeOK
    <3>2. PICK ns \in SUBSET Namespaces : q.baseline \in [ns -> SUBSET Clauses]
      BY <3>1 DEF Proposals, Baselines
    <3> QED BY <3>2
  <2>2. ~drifted
    BY <1>0, <1>5, <2>1, LoadedIsRecorded DEF IInv
  <2>3. Replays(names)
    BY <1>5 DEF IInv, JournalGrounded, Grounded, Replays
  <2> QED BY <1>5, <2>2, <2>3, AppliedIsTheCandidate
<1>6. ReportsTrue'
  <2>1. \A r \in reports' : r \in reports \/ (r.answer = a /\ r.view = view)
    <3> HIDE DEF view
    <3> QED BY <1>0
  <2>2. \A r \in reports' : r.answer \in answers'
    BY <1>0, <2>1 DEF IInv, ReportsTrue
  <2>3. ReportsShowTheReviewed'
    <3> SUFFICES ASSUME Faithful', NEW r \in reports'
                 PROVE  LET w == r.answer.proposal
                        IN  r.view = [w.baseline EXCEPT ![w.ns] = (@ \ w.remove) \cup w.add]
      BY DEF ReportsShowTheReviewed
    <3>1. CASE r \in reports
      BY <1>1, <3>1 DEF IInv, ReportsTrue, ReportsShowTheReviewed
    <3>2. CASE r.answer = a /\ r.view = view
      <4> HIDE DEF view
      <4> QED BY <1>1, <1>5, <3>2
    <3> QED BY <2>1, <3>1, <3>2
  <2> QED BY <2>2, <2>3 DEF ReportsTrue
<1> QED BY <1>0, <1>1, <1>3, <1>4, <1>6, NoBeginStep, AnswersStay DEF IInv

-----------------------------------------------------------------------------
(* The entry is appended                                                   *)

LEMMA CommitStep ==
  ASSUME IInv, Commit
  PROVE  IInv'
<1> DEFINE e == writer.entry
           n == writer.ns
<1> PICK k \in Nat : k = Len(journal)
  BY DEF IInv, TypeOK
<1>0. /\ writer \in Commits /\ n \in Namespaces /\ writer # None
      /\ writer.proc \in Procs /\ e \in Entries /\ writer.next \in Files
      /\ writer.step = "append" /\ journal \in Seq(Entries)
  BY CommitIsTyped DEF IInv, TypeOK, Commit, Finish
<1>1. /\ writer' = None /\ journal' = Append(journal, e)
      /\ cache' = [cache EXCEPT ![writer.proc][n] = Program(writer.next)]
      /\ UNCHANGED <<clock, file, stat, repeated, straddled, proposals, reports>>
  BY DEF Commit, Finish
<1>2. Faithful' <=> Faithful
  BY <1>1 DEF Faithful
<1>3. /\ e.ns = n /\ file[n] = writer.next /\ Asked(e)
      /\ Faithful => /\ Grounded(e, k)
                     /\ writer.next.text = After(n, k, e)
  BY <1>0 DEF IInv, WriterSteps, WriterGrounded
<1>4. /\ journal' \in Seq(Entries) /\ Len(journal') = k + 1
      /\ journal'[k + 1] = e
      /\ \A i \in DOMAIN journal : i \in 1..k /\ journal'[i] = journal[i]
      /\ DOMAIN journal \subseteq DOMAIN journal'
      /\ k + 1 \in DOMAIN journal'
      /\ \A i \in DOMAIN journal' : i \in DOMAIN journal \/ i = k + 1
  BY <1>0, <1>1
<1>5. answers' = IF e.op = "memory_change"
                 THEN answers \cup {Answer(e.id, e.proposal, k + 1)}
                 ELSE answers
  BY DEF Commit
<1>6. e.op = "memory_change" => e.id \in OpIds /\ e.proposal \in Proposals
  BY <1>3 DEF Asked
<1>7. TypeOK'
  <2>1. cache' \in [Procs -> [Namespaces -> Programs \cup {None}]]
    BY <1>0, <1>1, StampsAreTyped DEF IInv, TypeOK
  <2>2. answers' \subseteq [id : OpIds, proposal : Proposals, sequence : DOMAIN journal']
    BY <1>4, <1>5, <1>6 DEF IInv, TypeOK, Answer
  <2> QED BY <1>1, <1>4, <2>1, <2>2 DEF IInv, TypeOK
<1>8. WriterSteps' /\ WriterGrounded'
  BY <1>1 DEF WriterSteps, WriterGrounded
<1>9. \A m \in Namespaces : Committed(m)' = file[m]
  BY <1>1 DEF Committed
<1>10. CachesTell'
  <2> SUFFICES ASSUME Faithful', NEW m \in Namespaces
               PROVE  \A p \in Procs : cache'[p][m] # None =>
                        /\ Agree(cache'[p][m], Program(file[m]))
                        /\ Agree(cache'[p][m], Program(None))
    BY <1>1, <1>9 DEF CachesTell, Agree, Program, Text, Stamp
  <2>1. \A p \in Procs : cache[p][m] # None =>
          /\ Agree(cache[p][m], Program(file[m]))
          /\ Agree(cache[p][m], Program(None))
    BY <1>2 DEF IInv, CachesTell
  <2>2. \A p \in Procs : \/ cache'[p][m] = cache[p][m]
                         \/ cache'[p][m] = Program(file[m])
    BY <1>0, <1>1, <1>3 DEF IInv, TypeOK
  <2>3. Agree(Program(file[m]), Program(file[m]))
    BY DEF Agree
  <2>4. Agree(Program(file[m]), Program(None))
    BY StampsAreTyped DEF IInv, TypeOK, Agree, Program
  <2> QED BY <2>1, <2>2, <2>3, <2>4
<1>11. FilesRecorded'
  <2> SUFFICES ASSUME Faithful', NEW m \in Namespaces
               PROVE  Text(file[m]) = Recorded(m, k + 1)'
    BY <1>4, <1>9 DEF FilesRecorded, Text
  <2>1. Recorded(m, k + 1)' = After(m, k, e)
    BY <1>0, <1>1, AppendedState
  <2>2. CASE m = n
    BY <1>0, <1>2, <1>3, <2>1, <2>2, FilesArePresent DEF Text
  <2>3. CASE m # n
    <3>1. Committed(m) = file[m]
      BY <2>3 DEF Committed
    <3>2. Text(file[m]) = Recorded(m, k)
      BY <1>2, <3>1 DEF IInv, FilesRecorded
    <3> QED BY <1>3, <2>1, <2>3, <3>2 DEF After
  <2> QED BY <2>2, <2>3
<1>12. JournalGrounded'
  <2> SUFFICES ASSUME NEW i \in DOMAIN journal', NEW f, f = journal'[i]
               PROVE  Asked(f) /\ (Faithful' => Grounded(f, i - 1)')
    BY DEF JournalGrounded, Asked, Grounded, After, RecordedView
  <2>1. CASE i \in DOMAIN journal
    <3>1. i - 1 \in Nat /\ i - 1 <= Len(journal) /\ f = journal[i]
      BY <1>4, <2>1
    <3>2. Grounded(f, i - 1)' <=> Grounded(f, i - 1)
      BY <1>0, <1>1, <3>1, GroundedStays
    <3> QED BY <1>2, <2>1, <3>1, <3>2 DEF IInv, JournalGrounded
  <2>2. CASE i = k + 1
    <3>1. i - 1 = k /\ f = e
      BY <1>4, <2>2
    <3>2. Grounded(f, k)' <=> Grounded(f, k)
      BY <1>0, <1>1, GroundedStays
    <3> QED BY <1>2, <1>3, <3>1, <3>2
  <2> QED BY <1>4, <2>1, <2>2
<1>13. IdsAreUnique'
  <2>1. e.op = "memory_change" => Prior(e.ns, e.id) = {}
    BY <1>0, <1>3 DEF IInv, IdsAreUnique
  <2> SUFFICES ASSUME NEW i \in DOMAIN journal', NEW j \in DOMAIN journal',
                      journal'[i].op = "memory_change",
                      IsReviewed(journal'[j], journal'[i].ns, journal'[i].id)
               PROVE  i = j
    BY <1>1 DEF IdsAreUnique, IsReviewed
  <2>2. CASE i \in DOMAIN journal /\ j \in DOMAIN journal
    BY <1>4, <2>2 DEF IInv, IdsAreUnique
  <2>3. CASE i = k + 1 /\ j \in DOMAIN journal
    BY <1>4, <2>1, <2>3 DEF Prior, IsReviewed
  <2>4. CASE i \in DOMAIN journal /\ j = k + 1
    BY <1>4, <2>1, <2>4 DEF Prior, IsReviewed
  <2> QED BY <1>4, <2>2, <2>3, <2>4
<1>14. AnswersTrue'
  <2> SUFFICES ASSUME NEW a \in answers'
               PROVE  /\ IsReviewed(journal'[a.sequence], a.proposal.ns, a.id)
                      /\ journal'[a.sequence].proposal = a.proposal
    BY DEF AnswersTrue, IsReviewed
  <2>1. CASE a \in answers
    BY <1>4, <2>1 DEF IInv, TypeOK, AnswersTrue
  <2>2. CASE a = Answer(e.id, e.proposal, k + 1) /\ e.op = "memory_change"
    BY <1>3, <1>4, <2>2 DEF Answer, Asked, IsReviewed
  <2> QED BY <1>5, <2>1, <2>2
<1>15. ReportsTrue'
  BY <1>1, <1>2, <1>5, ReportsStay
<1> QED BY <1>7, <1>8, <1>10, <1>11, <1>12, <1>13, <1>14, <1>15 DEF IInv

-----------------------------------------------------------------------------
(* The invariant holds                                                     *)

\* At first a file holds what earlier entries recorded.
LEMMA InitialIsCommitted ==
  ASSUME Init, NEW n \in Namespaces
  PROVE  /\ Initial[n] \subseteq Clauses
         /\ Committed(n) = file[n]
         /\ file[n] \in Files \cup {None} /\ Text(file[n]) = Initial[n]
<1>1. Committed(n) = file[n]
  BY DEF Init, CacheInit, Committed
<1>2. /\ Initial[n] \subseteq Clauses
      /\ file[n] = IF Initial[n] = {} THEN None ELSE [text |-> Initial[n], time |-> 0]
  BY InitialAssumption DEF Init, CacheInit
<1>3. CASE Initial[n] = {}
  BY <1>1, <1>2, <1>3 DEF Text
<1>4. CASE Initial[n] # {}
  <2>1. file[n] = [text |-> Initial[n], time |-> 0] /\ file[n] \in Files
    BY <1>2, <1>4, CacheBounds DEF Files
  <2> QED BY <1>1, <1>2, <2>1, FilesArePresent DEF Text
<1> QED BY <1>3, <1>4

LEMMA InitIInv ==
  ASSUME Init
  PROVE  IInv
<1>1. /\ clock = 0 /\ writer = None /\ repeated = FALSE /\ straddled = FALSE
      /\ cache = [p \in Procs |-> [n \in Namespaces |-> None]]
      /\ stat = [p \in Procs |-> None]
      /\ journal = <<>> /\ proposals = {} /\ answers = {} /\ reports = {}
  BY DEF Init, CacheInit
<1>2. \A n \in Namespaces : Initial[n] \subseteq Clauses
  BY InitialAssumption
<1>3. \A n \in Namespaces : file[n] \in Files \cup {None} /\ Text(file[n]) = Initial[n]
  BY InitialIsCommitted
<1>4. TypeOK
  <2>1. file \in [Namespaces -> Files \cup {None}]
    BY <1>3 DEF Init, CacheInit
  <2>2. cache \in [Procs -> [Namespaces -> Programs \cup {None}]]
    BY <1>1
  <2>3. stat \in [Procs -> [ns : Namespaces, stamp : Stamps] \cup {None}]
    BY <1>1
  <2>4. journal \in Seq(Entries) /\ clock \in 0..MaxTime
    BY <1>1, CacheBounds
  <2>5. repeated \in BOOLEAN /\ straddled \in BOOLEAN /\ writer \in Commits \cup {None}
    BY <1>1
  <2>6. /\ proposals \subseteq Proposals
        /\ \A q \in proposals : /\ q.ns \in DOMAIN q.baseline
                                /\ q.remove \subseteq q.baseline[q.ns]
        /\ answers \subseteq [id : OpIds, proposal : Proposals, sequence : DOMAIN journal]
    BY <1>1
  <2> QED BY <2>1, <2>2, <2>3, <2>4, <2>5, <2>6 DEF TypeOK
<1>5. \A n \in Namespaces : Committed(n) = file[n]
  BY <1>1 DEF Committed
<1>6. \A n \in Namespaces : Recorded(n, 0) = Initial[n]
  <2>1. \A i \in 0..0 : i = 0
    OBVIOUS
  <2>2. \A j \in 0+1..0 : FALSE
    OBVIOUS
  <2>3. \A n, c : Adds(n, c, 0) <=> c \in Initial[n]
    BY DEF Adds
  <2>4. \A n : Recorded(n, 0) = {c \in Clauses : Adds(n, c, 0)}
    BY <2>1, <2>2 DEF Recorded
  <2> QED BY <1>2, <2>3, <2>4
<1>7. CachesTell
  BY <1>1, <1>5 DEF CachesTell, Agree
<1>8. FilesRecorded
  BY <1>1, <1>3, <1>6, <1>5 DEF FilesRecorded
<1>9. WriterSteps /\ WriterGrounded /\ JournalGrounded /\ IdsAreUnique
  BY <1>1 DEF WriterSteps, WriterGrounded, JournalGrounded, IdsAreUnique
<1>10. AnswersTrue /\ ReportsTrue
  BY <1>1 DEF AnswersTrue, ReportsTrue, ReportsShowTheReviewed
<1> QED BY <1>4, <1>7, <1>8, <1>9, <1>10 DEF IInv

LEMMA NextIInv ==
  ASSUME IInv, [Next]_vars
  PROVE  IInv'
<1>1. CASE UNCHANGED vars
  <2>1. /\ StoreKept
        /\ UNCHANGED <<clock, file, writer, cache, stat, repeated, straddled>>
    BY <1>1 DEF vars, cacheVars, StoreKept
  <2>2. Faithful' <=> Faithful
    BY <2>1 DEF Faithful
  <2>3. \A n \in Namespaces : Committed(n)' = Committed(n)
    BY <2>1 DEF Committed
  <2>4. TypeOK' /\ WriterSteps'
    BY <2>1 DEF IInv, TypeOK, WriterSteps, StoreKept
  <2>5. CachesTell' /\ FilesRecorded'
    BY <2>1, <2>2, <2>3, CachesStay, FilesStay DEF StoreKept
  <2>6. /\ WriterGrounded' /\ JournalGrounded' /\ IdsAreUnique' /\ AnswersTrue'
        /\ ReportsTrue'
    BY <2>1, <2>2, StoreStays
  <2> QED BY <2>4, <2>5, <2>6 DEF IInv
<1>2. CASE Next
  BY <1>2, TickStep, SetAsideStep, PublishStep, RollbackStep, CommitStep, RestartStep,
     StatFileStep, ReadFileStep, ChangeStep, ProposeStep, ApplyStep, RetryStep, ReportStep
  DEF Next, CommonStep, ProcStep
<1> QED BY <1>1, <1>2

\* Every reachable state satisfies the inductive invariant.
THEOREM Invariance == Spec => []IInv
BY InitIInv, NextIInv, PTL DEF Spec

\* The types of files, caches, entries and proposals (NamespaceCache and
\* ReviewedChanges).
THEOREM TypeCorrect == Spec => []TypeOK
<1>1. IInv => TypeOK
  BY DEF IInv
<1> QED BY <1>1, Invariance, PTL

\* Commits build on the files: unless a stamp stood for two programs, the
\* files are what the journal says whenever no commit is under way
\* (loadCached, commitMutation).
THEOREM BuildsOnTheFiles == Spec => []CommitsBuildOnTheFiles
<1>1. IInv => CommitsBuildOnTheFiles
  BY DEF IInv, FilesRecorded, CommitsBuildOnTheFiles, Committed, Unlocked
<1> QED BY <1>1, Invariance, PTL

\* A proposal is applied to the state that was reviewed (applyMemoryChange,
\* applyRuleChange).
THEOREM AppliesTheReviewed == Spec => []AppliedToTheReviewed
<1>1. IInv => AppliedToTheReviewed
  BY DEF IInv, JournalGrounded, Asked, Grounded, AppliedToTheReviewed
<1> QED BY <1>1, Invariance, PTL

\* What is committed under enforcement brings no new fault (enforceMutation).
THEOREM EnforcementHolds == Spec => []NoNewFaults
<1>1. ASSUME IInv
      PROVE  NoNewFaults
  <2> SUFFICES ASSUME Faithful, NEW i \in DOMAIN journal, NEW rule \in journal[i].enforce
               PROVE  Faults(rule.kind, Union(RecordedView(rule.names, i)))
                        \subseteq IF rule.mode = "strict" THEN {}
                                  ELSE Faults(rule.kind,
                                              Union(RecordedView(rule.names, i - 1)))
    BY DEF NoNewFaults
  <2>1. \A n : Recorded(n, i) = After(n, i - 1, journal[i])
    BY <1>1, RecordedStep DEF EntriesMakeStates, IInv, TypeOK
  <2>2. RecordedView(rule.names, i) = [n \in rule.names |-> After(n, i - 1, journal[i])]
    BY <2>1 DEF RecordedView
  <2>3. Allows(rule, Union(RecordedView(rule.names, i - 1)),
                     Union(RecordedView(rule.names, i)))
    BY <1>1, <2>2 DEF IInv, JournalGrounded, Grounded
  <2> QED BY <2>3 DEF Allows
<1> QED BY <1>1, Invariance, PTL

\* Every answer, a retry's too, names the one entry of its proposal, whatever
\* stamps do (applyMemoryChange's prior).
THEOREM AnswersAreTrue == Spec => []AnswersNameTheirEntry
<1>1. ASSUME IInv
      PROVE  AnswersNameTheirEntry
  <2> SUFFICES ASSUME NEW a \in answers
               PROVE  /\ Prior(a.proposal.ns, a.id) = {a.sequence}
                      /\ journal[a.sequence].proposal = a.proposal
    BY DEF AnswersNameTheirEntry
  <2>1. /\ a.sequence \in DOMAIN journal
        /\ IsReviewed(journal[a.sequence], a.proposal.ns, a.id)
        /\ journal[a.sequence].proposal = a.proposal
    BY <1>1 DEF IInv, TypeOK, AnswersTrue
  <2> QED BY <1>1, <2>1 DEF IInv, IdsAreUnique, IsReviewed, Prior
<1> QED BY <1>1, Invariance, PTL

\* A caller is shown the reviewed candidate, at the commit or after a retry
\* (applyMemoryProposal, recordedSnapshot).
THEOREM ReportsAreTrue == Spec => []ReportsShowTheReviewed
<1>1. IInv => ReportsShowTheReviewed
  BY DEF IInv, ReportsTrue
<1> QED BY <1>1, Invariance, PTL

-----------------------------------------------------------------------------
(* Sources of clauses (ClauseSources)                                      *)

\* What a load found is what the namespace held when it came.
LoadTells(n, load) ==
  /\ load.began <= Len(journal)
  /\ Faithful /\ ~load.amid => load.text = Recorded(n, load.began)

LookupsTell ==
  /\ lookup \in [Procs -> Lookups \cup {None}]
  /\ \A p \in Procs : lookup[p] \in Lookups =>
       \A n \in DOMAIN lookup[p].found : LoadTells(n, lookup[p].found[n])

AnswerTells ==
  told # None =>
    /\ told.found \in Founds
    /\ told.sources = [n \in DOMAIN told.found |-> SourcesOf(n, told.found[n].text)]
    /\ \A n \in DOMAIN told.found :
         /\ LoadTells(n, told.found[n])
         /\ told.locked => /\ ~told.found[n].amid
                           /\ told.found[n].began = Len(journal)

SInv == IInv /\ LookupsTell /\ AnswerTells

\* A set of natural numbers that is not empty has a least one.
LEMMA LeastNumber ==
  ASSUME NEW T \in SUBSET Nat, T # {}
  PROVE  \E x \in T : \A y \in T : x <= y
<1> DEFINE NatOrder == {ss \in Nat \X Nat : ss[1] < ss[2]}
<1>1. IsWellFoundedOn(NatOrder, Nat)
  BY NatLessThanWellFounded DEF OpToRel
<1>2. PICK x \in T : \A y \in T : ~ (<<y, x>> \in NatOrder)
  <2> HIDE DEF NatOrder
  <2> QED BY <1>1, WFMin
<1>3. ASSUME NEW y \in T PROVE x <= y
  <2>1. <<y, x>> \in Nat \X Nat /\ ~(<<y, x>>[1] < <<y, x>>[2])
    BY <1>2
  <2> QED BY <2>1
<1> QED BY <1>3

\* Of the entries that add a clause which the namespace holds there is a
\* latest one, and it has held the clause since.
LEMMA HeldClausesHaveASource ==
  ASSUME journal \in Seq(Entries), NEW n, NEW c \in Recorded(n, Len(journal))
  PROVE  \E i \in 0..Len(journal) : LatestAdds(n, c) = {i} /\ HeldSince(n, c, i)
<1> DEFINE L == Len(journal)
           T == {k \in Nat : k <= L /\ Adds(n, c, L - k)}
<1>1. L \in Nat
  OBVIOUS
<1>2. PICK m \in 0..L : /\ Adds(n, c, m)
                        /\ \A j \in m+1..L : ~Removes(n, c, j)
  BY DEF Recorded
<1>3. L - m \in T
  BY <1>1, <1>2
<1>4. PICK x \in T : \A y \in T : x <= y
  <2>1. T \in SUBSET Nat /\ T # {}
    BY <1>3
  <2> HIDE DEF T
  <2> QED BY <2>1, LeastNumber
<1>5. x \in Nat /\ x <= L /\ \A y \in T : x <= y
  BY <1>4
<1>6. PICK i \in 0..L : i = L - x
  BY <1>1, <1>5
<1>7. Adds(n, c, i)
  BY <1>4, <1>6
<1>8. \A j \in i+1..L : ~Adds(n, c, j)
  <2> SUFFICES ASSUME NEW j \in i+1..L, Adds(n, c, j)
               PROVE  FALSE
    OBVIOUS
  <2>1. L - j \in Nat /\ L - j <= L /\ L - (L - j) = j /\ ~(x <= L - j)
    BY <1>1, <1>5, <1>6
  <2>2. L - j \in T
    BY <2>1
  <2> QED BY <1>5, <2>1, <2>2
<1>9. m <= i
  <2>1. x <= L - m
    BY <1>3, <1>5
  <2> QED BY <1>1, <1>5, <1>6, <2>1
<1>10. LatestAdds(n, c) = {i}
  <2>1. \A j \in 0..L : j # i => j \in i+1..L \/ i \in j+1..L
    BY <1>1
  <2> QED BY <1>7, <1>8, <2>1 DEF LatestAdds
<1>11. \A k \in i..L : c \in Recorded(n, k)
  <2> SUFFICES ASSUME NEW k \in i..L
               PROVE  c \in Recorded(n, k)
    OBVIOUS
  <2>1. i \in 0..k /\ \A j \in i+1..k : j \in m+1..L
    BY <1>1, <1>9
  <2>2. c \in Clauses
    BY DEF Recorded
  <2> QED BY <1>2, <1>7, <2>1, <2>2 DEF Recorded
<1> QED BY <1>7, <1>10, <1>11 DEF HeldSince

\* Whatever ReviewedChanges does, the journal's entries stay.
LEMMA JournalGrows ==
  ASSUME IInv, [Next]_vars
  PROVE  /\ Faithful' => Faithful
         /\ \/ UNCHANGED journal
            \/ Commit /\ \E e \in Entries : journal' = Append(journal, e)
<1>1. CASE UNCHANGED vars
  BY <1>1 DEF vars, cacheVars, Faithful
<1>2. CASE Commit
  <2>1. writer.entry \in Entries
    BY <1>2, CommitIsTyped DEF IInv, Commit, Finish
  <2> QED BY <1>2, <2>1 DEF Commit, Finish, Faithful
<1>3. CASE (Tick \/ SetAside \/ Publish \/ Rollback) /\ StoreKept
  <2>1. UNCHANGED journal
    BY <1>3 DEF StoreKept
  <2>2. (Tick \/ SetAside \/ Rollback) => UNCHANGED <<repeated, straddled>>
    BY DEF Tick, SetAside, Rollback
  <2>3. Publish => (repeated => repeated') /\ UNCHANGED straddled
    BY DEF Publish
  <2> QED BY <1>3, <2>1, <2>2, <2>3 DEF Faithful
<1>4. ASSUME NEW p \in Procs, ProcStep(p)
      PROVE  UNCHANGED journal /\ (Faithful' => Faithful)
  <2>1. CASE StoreKept /\ (Restart(p) \/ ReadFile(p) \/ \E n \in Namespaces : StatFile(p, n))
    <3>1. UNCHANGED journal
      BY <2>1 DEF StoreKept
    <3>2. Restart(p) \/ (\E n \in Namespaces : StatFile(p, n)) =>
            UNCHANGED <<repeated, straddled>>
      BY DEF Restart, StatFile
    <3>3. ReadFile(p) => (straddled => straddled') /\ UNCHANGED repeated
      BY DEF ReadFile
    <3> QED BY <2>1, <3>1, <3>2, <3>3 DEF Faithful
  <2>2. CASE \E r \in Requests : Change(p, r)
    BY <2>2 DEF Change, Faithful
  <2>3. CASE \E e \in Extractions : Propose(p, e)
    BY <2>3 DEF Propose, Faithful
  <2>4. CASE \E q \in proposals, id \in OpIds : Apply(p, q, id) \/ Retry(p, q, id)
    BY <2>4 DEF Apply, Retry, cacheVars, Faithful
  <2>5. CASE \E a \in answers : Report(p, a)
    BY <2>5 DEF Report, Faithful
  <2> QED BY <1>4, <2>1, <2>2, <2>3, <2>4, <2>5 DEF ProcStep
<1> QED BY <1>1, <1>2, <1>3, <1>4 DEF Next, CommonStep

\* What a load has found stays true of the moment it came.
LEMMA LoadsStayTrue ==
  ASSUME IInv, [Next]_vars, NEW n, NEW load \in Loads, LoadTells(n, load)
  PROVE  LoadTells(n, load)'
<1>1. /\ journal \in Seq(Entries) /\ load.began \in Nat
      /\ Faithful' => Faithful
      /\ \/ UNCHANGED journal
         \/ \E e \in Entries : journal' = Append(journal, e)
  BY JournalGrows DEF IInv, TypeOK, Loads
<1>2. Len(journal) <= Len(journal')
  BY <1>1
<1>3. Recorded(n, load.began)' = Recorded(n, load.began)
  <2>1. CASE UNCHANGED journal
    BY <2>1, RecordedStays
  <2>2. ASSUME NEW e \in Entries, journal' = Append(journal, e)
        PROVE  Recorded(n, load.began)' = Recorded(n, load.began)
    BY <1>1, <2>2, EarlierStatesStay DEF LoadTells
  <2> QED BY <1>1, <2>1, <2>2
<1>4. Len(journal) \in Nat /\ Len(journal') \in Nat
  BY <1>1
<1> QED BY <1>1, <1>2, <1>3, <1>4 DEF LoadTells

\* A load tells of its moment: outside of a commit's window the file, which
\* the cache agrees with, is the recorded one.
LEMMA FoundTells ==
  ASSUME IInv, NEW p \in Procs, NEW n \in Namespaces, NEW txt \in SUBSET Clauses,
         \/ txt = Text(file[n])
         \/ Hit(p, n) /\ txt = cache[p][n].text
  PROVE  /\ Found(n, txt) \in Loads
         /\ LoadTells(n, Found(n, txt))
<1>1. Len(journal) \in Nat /\ Amid(n) \in BOOLEAN
  BY DEF IInv, TypeOK, Amid, Unlocked
<1>2. ASSUME Faithful, ~Amid(n)
      PROVE  txt = Recorded(n, Len(journal))
  <2>1. Committed(n) = file[n]
    BY <1>2 DEF Amid, Committed, Unlocked
  <2>2. Text(file[n]) = Recorded(n, Len(journal))
    BY <1>2, <2>1 DEF IInv, FilesRecorded
  <2>3. Hit(p, n) => cache[p][n].text = Text(file[n])
    BY <1>2 DEF IInv, CachesTell, Hit, Agree, Program
  <2> QED BY <2>2, <2>3
<1> QED BY <1>1, <1>2 DEF Found, Loads, LoadTells

\* One more namespace is loaded.
LEMMA WithFoundTells ==
  ASSUME SInv, UNCHANGED <<journal>>, Faithful' => Faithful,
         NEW p \in Procs, lookup[p] \in Lookups, NEW n \in Namespaces, NEW txt,
         Found(n, txt) \in Loads, LoadTells(n, Found(n, txt)),
         lookup' = WithFound(p, n, txt)
  PROVE  LookupsTell'
<1> DEFINE old == lookup[p].found
           new == [m \in DOMAIN old \cup {n} |->
                     IF m = n THEN Found(n, txt) ELSE old[m]]
<1>1. PICK names \in SUBSET Namespaces : old \in [names -> Loads]
  BY DEF Lookups, Founds
<1>2. new \in [names \cup {n} -> Loads] /\ names \cup {n} \in SUBSET Namespaces
  BY <1>1
<1>3. new \in Founds
  BY <1>2 DEF Founds
<1>4. lookup' = [lookup EXCEPT ![p] = [lookup[p] EXCEPT !.found = new]]
  BY DEF WithFound, SInv, LookupsTell, Lookups
<1>5. [lookup[p] EXCEPT !.found = new] \in Lookups
  <2> HIDE DEF new
  <2> QED BY <1>3 DEF Lookups
<1>6. \A m, load : LoadTells(m, load) => LoadTells(m, load)'
  BY RecordedStays DEF LoadTells
<1>7. \A m \in DOMAIN new : LoadTells(m, new[m])
  <2>1. \A m \in DOMAIN old : LoadTells(m, old[m])
    BY DEF SInv, LookupsTell
  <2> QED BY <2>1
<1>8. [lookup[p] EXCEPT !.found = new].found = new
  <2> HIDE DEF new
  <2> QED BY DEF Lookups
<1>9. /\ lookup' \in [Procs -> Lookups \cup {None}]
      /\ \A q \in Procs : lookup'[q] = IF q = p THEN [lookup[p] EXCEPT !.found = new]
                                                ELSE lookup[q]
  <2> HIDE DEF new
  <2> QED BY <1>4, <1>5 DEF SInv, LookupsTell
<1>10. ASSUME NEW q \in Procs, lookup'[q] \in Lookups,
              NEW m \in DOMAIN lookup'[q].found, NEW load, load = lookup'[q].found[m]
       PROVE  LoadTells(m, load)'
  <2> HIDE DEF new
  <2>1. CASE q = p
    BY <1>6, <1>7, <1>8, <1>9, <1>10, <2>1
  <2>2. CASE q # p
    BY <1>6, <1>9, <1>10, <2>2 DEF SInv, LookupsTell
  <2> QED BY <2>1, <2>2
<1> QED BY <1>9, <1>10 DEF LookupsTell, LoadTells

\* The calls under way go on, or end.
LEMMA LookupsStay ==
  ASSUME SInv, [Next]_vars,
         \/ UNCHANGED lookup
         \/ \E p \in Procs : lookup' = [lookup EXCEPT ![p] = None]
  PROVE  LookupsTell'
<1>1. /\ lookup' \in [Procs -> Lookups \cup {None}]
      /\ \A q \in Procs : lookup'[q] \in {None, lookup[q]}
  BY DEF SInv, LookupsTell
<1>2. ASSUME NEW q \in Procs, lookup'[q] \in Lookups,
             NEW m \in DOMAIN lookup'[q].found, NEW load, load = lookup'[q].found[m]
      PROVE  LoadTells(m, load)'
  <2>1. CASE lookup'[q] = lookup[q]
    <3>1. load \in Loads
      BY <1>2 DEF Lookups, Founds
    <3>2. LoadTells(m, load)
      BY <1>2, <2>1 DEF SInv, LookupsTell
    <3> QED BY <3>1, <3>2, LoadsStayTrue DEF SInv
  <2>2. CASE lookup'[q] = None
    BY <1>2, <2>2, NoneIsNoLookup
  <2> QED BY <1>1, <2>1, <2>2
<1> QED BY <1>1, <1>2 DEF LookupsTell, LoadTells

\* An answer put together from loads that tell.
LEMMA AnswersTell ==
  ASSUME NEW locked, NEW found \in Founds, UNCHANGED journal,
         told' = Answered(locked, found),
         \A n \in DOMAIN found :
           /\ LoadTells(n, found[n]) /\ (Faithful' => Faithful)
           /\ locked => ~found[n].amid /\ found[n].began = Len(journal)
  PROVE  AnswerTells'
<1>1. told'.found = found /\ told'.locked = locked
  BY DEF Answered
<1>2. \A n, text : SourcesOf(n, text)' = SourcesOf(n, text)
  BY DEF SourcesOf, LatestAdds, Adds
<1>3. told'.sources = [n \in DOMAIN found |-> SourcesOf(n, found[n].text)]
  BY DEF Answered
<1>4. ASSUME NEW n \in DOMAIN found, NEW load, load = found[n]
      PROVE  LoadTells(n, load)'
  BY <1>4, RecordedStays DEF LoadTells
<1>5. told'.sources = [n \in DOMAIN told.found |-> SourcesOf(n, told.found[n].text)]'
  BY <1>1, <1>2, <1>3
<1>6. \A n \in DOMAIN told'.found : LoadTells(n, told.found[n])'
  BY <1>1, <1>4 DEF LoadTells
<1> QED BY <1>1, <1>5, <1>6 DEF AnswerTells

LEMMA AttributeStep ==
  ASSUME SInv, NEW p \in Procs, Attribute(p)
  PROVE  AnswerTells'
<1>1. lookup[p] \in Lookups /\ told' = Answered(FALSE, lookup[p].found)
  BY DEF SInv, LookupsTell, Attribute, Calling
<1>2. \A n \in DOMAIN lookup[p].found : LoadTells(n, lookup[p].found[n])
  BY <1>1 DEF SInv, LookupsTell
<1>3. UNCHANGED <<journal, repeated, straddled>>
  BY DEF Attribute, vars, cacheVars
<1> QED BY <1>1, <1>2, <1>3, AnswersTell DEF Lookups, Faithful

LEMMA SnapshotStep ==
  ASSUME SInv, NEW p \in Procs, NEW names \in SUBSET Namespaces, Snapshot(p, names)
  PROVE  SInv'
<1> DEFINE found == [n \in names |-> Found(n, Loaded(p, n))]
<1>0. /\ Unlocked /\ Remember(p, names) /\ told' = Answered(TRUE, found)
      /\ UNCHANGED <<clock, file, writer, stat, repeated, straddled, journal, proposals,
                     answers, reports, lookup>>
      /\ IInv
  BY DEF Snapshot, Askable, SInv
<1>1. Faithful' <=> Faithful
  BY <1>0 DEF Faithful
<1>2. IInv'
  <2>1. LocksAndLoads(p, names)
    BY <1>0 DEF LocksAndLoads
  <2>2. /\ cache' \in [Procs -> [Namespaces -> Programs \cup {None}]]
        /\ WriterSteps' /\ CachesTell' /\ FilesRecorded'
    BY <1>0, <2>1, LoadsStep
  <2>3. TypeOK'
    BY <1>0, <2>2 DEF IInv, TypeOK
  <2>4. WriterGrounded' /\ IdsAreUnique'
    BY <1>0, NoBeginStep
  <2>5. JournalGrounded' /\ AnswersTrue' /\ ReportsTrue'
    BY <1>0, <1>1, AnswersStay, ReportsStay
  <2> QED BY <2>2, <2>3, <2>4, <2>5 DEF IInv
<1>3. \A n \in names : /\ found[n] \in Loads /\ LoadTells(n, found[n])
                       /\ ~found[n].amid /\ found[n].began = Len(journal)
  <2> SUFFICES ASSUME NEW n \in names
               PROVE  LET load == Found(n, Loaded(p, n))
                      IN  /\ load \in Loads /\ LoadTells(n, load)
                          /\ ~load.amid /\ load.began = Len(journal)
    OBVIOUS
  <2>1. /\ Loaded(p, n) \in SUBSET Clauses
        /\ \/ Loaded(p, n) = Text(file[n])
           \/ Hit(p, n) /\ Loaded(p, n) = cache[p][n].text
    BY <1>0, LoadedIsTyped DEF IInv, Loaded
  <2> QED BY <1>0, <2>1, FoundTells DEF Found, Amid
<1>4. found \in Founds
  <2>1. found \in [names -> Loads]
    BY <1>3
  <2> HIDE DEF found
  <2> QED BY <2>1 DEF Founds
<1>5. AnswerTells'
  <2>1. DOMAIN found = names
    OBVIOUS
  <2> HIDE DEF found
  <2> QED BY <1>0, <1>1, <1>3, <1>4, <2>1, AnswersTell
<1>6. LookupsTell'
  <2>1. \A n, load : LoadTells(n, load) => LoadTells(n, load)'
    BY <1>0, <1>1, RecordedStays DEF LoadTells
  <2>2. ASSUME NEW q \in Procs, lookup[q] \in Lookups,
               NEW m \in DOMAIN lookup[q].found, NEW load, load = lookup[q].found[m]
        PROVE  LoadTells(m, load)'
    BY <2>1, <2>2 DEF SInv, LookupsTell
  <2> QED BY <1>0, <2>2 DEF SInv, LookupsTell, LoadTells
<1> QED BY <1>2, <1>5, <1>6 DEF SInv

LEMMA SourcesForStep ==
  ASSUME SInv, NEW p \in Procs, NEW names \in SUBSET Namespaces, SourcesFor(p, names)
  PROVE  LookupsTell'
<1> DEFINE new == [names |-> names, found |-> <<>>]
<1>1. lookup' = [lookup EXCEPT ![p] = new] /\ UNCHANGED <<journal, repeated, straddled>>
  BY DEF SourcesFor, vars, cacheVars
<1>2. new \in Lookups /\ DOMAIN new.found = {}
  <2>1. <<>> \in [{} -> Loads]
    OBVIOUS
  <2>2. <<>> \in Founds
    BY <2>1 DEF Founds
  <2> QED BY <2>2 DEF Lookups
<1>3. \A n, load : LoadTells(n, load) => LoadTells(n, load)'
  BY <1>1, RecordedStays DEF LoadTells, Faithful
<1> HIDE DEF new
<1>4. /\ lookup' \in [Procs -> Lookups \cup {None}]
      /\ \A q \in Procs : lookup'[q] = IF q = p THEN new ELSE lookup[q]
  BY <1>1, <1>2 DEF SInv, LookupsTell
<1>5. ASSUME NEW q \in Procs, lookup'[q] \in Lookups,
             NEW m \in DOMAIN lookup'[q].found, NEW load, load = lookup'[q].found[m]
      PROVE  LoadTells(m, load)'
  BY <1>2, <1>3, <1>4, <1>5 DEF SInv, LookupsTell
<1> QED BY <1>4, <1>5 DEF LookupsTell, LoadTells

LEMMA LoadHitStep ==
  ASSUME SInv, NEW p \in Procs, NEW n \in Namespaces, LoadHit(p, n)
  PROVE  LookupsTell'
<1>1. lookup[p] \in Lookups /\ lookup' = WithFound(p, n, cache[p][n].text)
  BY DEF SInv, LookupsTell, LoadHit, Wanted, Calling
<1>2. Hit(p, n) /\ cache[p][n].text \in SUBSET Clauses
  BY DEF LoadHit, Hit, SInv, IInv, TypeOK, Programs
<1>3. UNCHANGED journal /\ (Faithful' => Faithful)
  BY DEF LoadHit, vars, cacheVars, Faithful
<1>4. /\ Found(n, cache[p][n].text) \in Loads
      /\ LoadTells(n, Found(n, cache[p][n].text))
  BY <1>2, FoundTells DEF SInv
<1> QED BY <1>1, <1>3, <1>4, WithFoundTells

LEMMA LoadReadStep ==
  ASSUME SInv, NEW p \in Procs, LoadRead(p)
  PROVE  LookupsTell'
<1> DEFINE n == stat[p].ns
<1>1. lookup[p] \in Lookups /\ lookup' = WithFound(p, n, Text(file[n]))
  BY DEF SInv, LookupsTell, LoadRead, Calling
<1>2. n \in Namespaces /\ Text(file[n]) \in SUBSET Clauses
  <2>1. n \in Namespaces
    BY DEF LoadRead, ReadFile, SInv, IInv, TypeOK
  <2> QED BY <2>1, StampsAreTyped DEF SInv, IInv, TypeOK
<1>3. UNCHANGED journal /\ (Faithful' => Faithful)
  BY DEF LoadRead, ReadFile, StoreKept, Faithful
<1>4. Found(n, Text(file[n])) \in Loads /\ LoadTells(n, Found(n, Text(file[n])))
  BY <1>2, FoundTells DEF SInv
<1> QED BY <1>1, <1>2, <1>3, <1>4, WithFoundTells

LEMMA InitSInv ==
  ASSUME SourcesInit
  PROVE  SInv
<1>1. IInv
  BY InitIInv DEF SourcesInit
<1>2. LookupsTell
  <2>1. lookup \in [Procs -> Lookups \cup {None}] /\ \A p \in Procs : lookup[p] = None
    BY DEF SourcesInit
  <2> QED BY <2>1, NoneIsNoLookup DEF LookupsTell
<1> QED BY <1>1, <1>2 DEF SInv, AnswerTells, SourcesInit

LEMMA NextSInv ==
  ASSUME SInv, [SourcesNext]_sourcesVars
  PROVE  SInv'
<1> USE DEF SInv
<1>1. CASE UNCHANGED sourcesVars
  <2>1. [Next]_vars /\ UNCHANGED <<lookup, told, journal, repeated, straddled>>
    BY <1>1 DEF sourcesVars, vars, cacheVars
  <2>2. IInv' /\ LookupsTell'
    BY <2>1, NextIInv, LookupsStay
  <2>3. AnswerTells'
    BY <2>1, RecordedStays
    DEF AnswerTells, LoadTells, SourcesOf, LatestAdds, Adds, Faithful
  <2> QED BY <2>2, <2>3
<1>2. ASSUME [Next]_vars, told' = None,
             \/ UNCHANGED lookup
             \/ \E p \in Procs : lookup' = [lookup EXCEPT ![p] = None]
      PROVE  SInv'
  BY <1>2, NextIInv, LookupsStay DEF AnswerTells
<1>3. CASE OtherStep
  BY <1>2, <1>3 DEF OtherStep, Next
<1>4. ASSUME NEW p \in Procs, NEW names \in SUBSET Namespaces, SourcesFor(p, names)
      PROVE  SInv'
  <2>1. [Next]_vars /\ told' = None
    BY <1>4 DEF SourcesFor
  <2> QED BY <1>4, <2>1, NextIInv, SourcesForStep DEF AnswerTells
<1>5. ASSUME NEW p \in Procs, NEW n \in Namespaces, LoadHit(p, n)
      PROVE  SInv'
  <2>1. [Next]_vars /\ told' = None
    BY <1>5 DEF LoadHit
  <2> QED BY <1>5, <2>1, NextIInv, LoadHitStep DEF AnswerTells
<1>6. ASSUME NEW p \in Procs, NEW n \in Namespaces, LoadStat(p, n)
      PROVE  SInv'
  <2>1. Next
    BY <1>6 DEF LoadStat, Next, ProcStep
  <2> QED BY <1>2, <1>6, <2>1 DEF LoadStat
<1>7. ASSUME NEW p \in Procs, LoadRead(p)
      PROVE  SInv'
  <2>1. Next /\ told' = None
    BY <1>7 DEF LoadRead, Next, ProcStep
  <2> QED BY <1>7, <2>1, NextIInv, LoadReadStep DEF AnswerTells
<1>8. ASSUME NEW p \in Procs, Attribute(p)
      PROVE  SInv'
  <2>1. [Next]_vars /\ lookup' = [lookup EXCEPT ![p] = None]
    BY <1>8 DEF Attribute
  <2> QED BY <1>8, <2>1, NextIInv, LookupsStay, AttributeStep
<1>9. ASSUME NEW p \in Procs, EndCall(p)
      PROVE  SInv'
  <2>1. Next
    BY <1>9 DEF EndCall, Next, ProcStep
  <2> QED BY <1>2, <1>9, <2>1 DEF EndCall
<1>10. NamesAsked \subseteq SUBSET Namespaces
  BY NamesAssumption
<1> QED
  BY <1>1, <1>3, <1>4, <1>5, <1>6, <1>7, <1>8, <1>9, <1>10, SnapshotStep DEF SourcesNext

\* The calls under way and the answers tell of the moments of their loads.
THEOREM SourcesInvariance == SourcesSpec => []SInv
BY InitSInv, NextSInv, PTL DEF SourcesSpec

\* An answer tells of what stays.
LEMMA AnswerTellsWhatStays ==
  ASSUME SInv, Faithful, told # None,
         NEW n \in DOMAIN told.found, ~told.found[n].amid
  PROVE  /\ Tells(n)
         /\ told.locked => told.found[n].text = Recorded(n, Len(journal))
<1> DEFINE load == told.found[n]
           named == {c \in load.text : LatestAdds(n, c) # {}}
<1>1. /\ load \in Loads /\ LoadTells(n, load)
      /\ told.sources[n] = [c \in named |-> LatestAdds(n, c)]
      /\ told.locked => load.began = Len(journal)
  BY DEF SInv, AnswerTells, Founds, SourcesOf
<1>2. /\ journal \in Seq(Entries) /\ load.began \in 0..Len(journal)
      /\ load.text = Recorded(n, load.began)
  BY <1>1 DEF SInv, IInv, TypeOK, LoadTells, Loads
<1>3. load.began \in load.began..Len(journal) /\ Len(journal) \in load.began..Len(journal)
  BY <1>2
<1>4. TellsOfHeld(n)
  <2>1. \A c \in load.text : \E k \in load.began..Len(journal) : c \in Recorded(n, k)
    BY <1>2, <1>3
  <2> QED BY <1>1, <2>1 DEF TellsOfHeld
<1>5. ASSUME NEW c \in Kept(n)
      PROVE  /\ c \in DOMAIN told.sources[n]
             /\ \E i \in 0..Len(journal) :
                  told.sources[n][c] = {i} /\ HeldSince(n, c, i)
  <2>1. c \in load.text /\ c \in Recorded(n, Len(journal))
    BY <1>2, <1>3, <1>5 DEF Kept
  <2>2. PICK i \in 0..Len(journal) : LatestAdds(n, c) = {i} /\ HeldSince(n, c, i)
    BY <1>2, <2>1, HeldClausesHaveASource
  <2>3. c \in named
    BY <2>1, <2>2
  <2> QED BY <1>1, <2>2, <2>3
<1>6. Tells(n)
  BY <1>4, <1>5 DEF Tells, TellsOfKept
<1> QED BY <1>1, <1>2, <1>6

\* A knowledge snapshot is one moment of the store, sources included, for
\* any processes, namespaces and commits (knowledgeSnapshot).
THEOREM SnapshotsAreTrue == SourcesSpec => []SnapshotsAreOneMoment
<1>1. SInv => SnapshotsAreOneMoment
  BY AnswerTellsWhatStays DEF SnapshotsAreOneMoment, SInv, AnswerTells
<1> QED BY <1>1, SourcesInvariance, PTL

\* What stays during an unlocked call is answered right, unless a load came
\* amid a commit (sourcesFor).
THEOREM SourcesAreTrue == SourcesSpec => []SourcesAreOfTheCall
<1>1. SInv => SourcesAreOfTheCall
  BY AnswerTellsWhatStays DEF SourcesAreOfTheCall
<1> QED BY <1>1, SourcesInvariance, PTL

-----------------------------------------------------------------------------
(* The atomic store is implemented                                         *)

StoreContent == [n \in Namespaces |-> Text(Committed(n))]

Keys == [op : {"change", "memory_change"}, ns : Namespaces,
         opId : Nat \cup OpIds \cup {None},
         removed : SUBSET Clauses, added : SUBSET Clauses]

\* A sequence by its elements.
LEMMA SequenceOf ==
  ASSUME NEW X, NEW k \in Nat, NEW s, s \in [1..k -> X]
  PROVE  s \in Seq(X) /\ Len(s) = k
OBVIOUS

\* An append adds its entry's key to the keys.
LEMMA AppendedKey ==
  ASSUME journal \in Seq(Entries), NEW e \in Entries, journal' = Append(journal, e),
         NEW k \in Nat, k = Len(journal)
  PROVE  /\ Keyed \in Seq(Keys) /\ Len(Keyed) = k
         /\ Keyed' = Append(Keyed, [op |-> e.op, ns |-> e.ns,
                                    opId |-> IF e.op = "change" THEN k + 1 ELSE e.id,
                                    removed |-> e.removed, added |-> e.added])
<1> DEFINE key == [op |-> e.op, ns |-> e.ns,
                   opId |-> IF e.op = "change" THEN k + 1 ELSE e.id,
                   removed |-> e.removed, added |-> e.added]
           KeyOf(f, i) == [op |-> f.op, ns |-> f.ns,
                           opId |-> IF f.op = "change" THEN i ELSE f.id,
                           removed |-> f.removed, added |-> f.added]
<1>1. \A f \in Entries, i \in Nat : KeyOf(f, i) \in Keys
  BY DEF Entries, Keys
<1>2. /\ DOMAIN journal = 1..k /\ \A i \in 1..k : journal[i] \in Entries
      /\ DOMAIN journal' = 1..k+1 /\ journal'[k+1] = e
      /\ \A i \in 1..k : journal'[i] = journal[i]
  OBVIOUS
<1>3. Keyed = [i \in 1..k |-> KeyOf(journal[i], i)]
  BY <1>2 DEF Keyed
<1>4. Keyed' = [i \in 1..k+1 |-> KeyOf(journal'[i], i)]
  BY <1>2 DEF Keyed
<1>5. key = KeyOf(e, k + 1) /\ key \in Keys
  BY <1>1
<1> HIDE DEF key, KeyOf
<1>6. Keyed \in [1..k -> Keys]
  BY <1>1, <1>2, <1>3
<1>7. Keyed \in Seq(Keys) /\ Len(Keyed) = k
  BY <1>6, SequenceOf
<1>8. Append(Keyed, key) = [i \in 1..k+1 |-> IF i = k + 1 THEN key ELSE Keyed[i]]
  BY <1>5, <1>7
<1>9. \A i \in 1..k+1 : KeyOf(journal'[i], i) = IF i = k + 1 THEN key ELSE Keyed[i]
  BY <1>2, <1>3, <1>5
<1>10. Keyed' = Append(Keyed, key)
  BY <1>4, <1>8, <1>9
<1> QED BY <1>7, <1>10 DEF key

\* The append is the operation of the atomic store; every other step leaves
\* what is committed alone.
LEMMA StepImplementsStore ==
  ASSUME IInv, [Next]_vars, Faithful'
  PROVE  [Store!Next]_(Store!vars)
<1>1. IInv' /\ Faithful /\ journal \in Seq(Entries)
  BY NextIInv, JournalGrows DEF IInv, TypeOK
<1>2. \A n \in Namespaces : /\ StoreContent[n] = Recorded(n, Len(journal))
                            /\ StoreContent'[n] = Recorded(n, Len(journal))'
  BY <1>1 DEF IInv, FilesRecorded, StoreContent
<1>3. CASE UNCHANGED journal
  <2>1. \A n \in Namespaces : StoreContent'[n] = StoreContent[n]
    BY <1>2, <1>3, RecordedStays
  <2>2. StoreContent' = StoreContent /\ Keyed' = Keyed
    BY <1>3, <2>1 DEF StoreContent, Keyed
  <2> QED BY <2>2 DEF Store!vars, StoreContent
<1>4. ASSUME Commit, NEW e \in Entries, journal' = Append(journal, e)
      PROVE  Store!Next
  <2> PICK k \in Nat : k = Len(journal)
    BY <1>1
  <2> DEFINE key == [op |-> e.op, ns |-> e.ns,
                     opId |-> IF e.op = "change" THEN k + 1 ELSE e.id,
                     removed |-> e.removed, added |-> e.added]
  <2>1. Keyed \in Seq(Keys) /\ Len(Keyed) = k /\ Keyed' = Append(Keyed, key)
    BY <1>1, <1>4, AppendedKey
  <2>2. key \in Keys
    BY DEF Entries, Keys
  <2>3. /\ Len(Keyed') = Len(Keyed) + 1 /\ Keyed'[Len(Keyed')] = key
    BY <2>1, <2>2
  <2>4. \A i \in DOMAIN Keyed : ~Store!SameKey(Keyed[i], key)
    <3> SUFFICES ASSUME NEW i \in DOMAIN Keyed, Store!SameKey(Keyed[i], key)
                 PROVE  FALSE
      OBVIOUS
    <3>1. i \in DOMAIN journal /\ i \in 1..k
      BY <1>1 DEF Keyed
    <3>2. /\ journal[i].op = e.op /\ journal[i].ns = e.ns
          /\ e.op = "change" => i = k + 1
          /\ e.op # "change" => journal[i].id = e.id
      BY <3>1 DEF Store!SameKey, Keyed
    <3>3. e.op = "memory_change"
      BY <3>1, <3>2 DEF Entries
    <3>4. e = writer.entry /\ e.ns = writer.ns /\ writer # None
      <4>1. journal' = Append(journal, writer.entry) /\ writer # None
        BY <1>4 DEF Commit, Finish, Unlocked
      <4>2. writer.entry \in Entries /\ writer.entry.ns = writer.ns
        BY <1>4, CommitIsTyped DEF IInv, WriterSteps, Commit, Finish
      <4>3. Append(journal, e)[k+1] = e /\ Append(journal, writer.entry)[k+1] = writer.entry
        BY <1>1, <4>2
      <4> QED BY <1>4, <4>1, <4>2, <4>3
    <3>5. Prior(e.ns, e.id) = {}
      BY <3>3, <3>4 DEF IInv, IdsAreUnique
    <3> QED BY <3>1, <3>2, <3>3, <3>5 DEF Prior
  <2>5. StoreContent' = [StoreContent EXCEPT ![e.ns] = (@ \ e.removed) \cup e.added]
    <3>1. Len(journal') = k + 1 /\ e.ns \in Namespaces
      BY <1>1, <1>4 DEF Entries
    <3>2. \A n \in Namespaces : StoreContent'[n] = After(n, k, e)
      <4> TAKE n \in Namespaces
      <4>1. Recorded(n, k + 1)' = After(n, k, e)
        BY <1>1, <1>4, AppendedState
      <4> QED BY <1>2, <3>1, <4>1
    <3> HIDE DEF key
    <3>3. \A n \in Namespaces :
            StoreContent'[n] = IF n = e.ns THEN (StoreContent[n] \ e.removed) \cup e.added
                                           ELSE StoreContent[n]
      BY <1>2, <3>2 DEF After
    <3>4. /\ StoreContent = [n \in Namespaces |-> StoreContent[n]]
          /\ StoreContent' = [n \in Namespaces |-> StoreContent'[n]]
      BY DEF StoreContent
    <3> QED BY <3>1, <3>3, <3>4
  <2> HIDE DEF key
  <2>6. Store!Record(key)
    BY <2>1, <2>4, <2>5 DEF Store!Record, StoreContent, key
  <2> QED BY <2>3, <2>6 DEF Store!Next
<1> QED BY <1>3, <1>4, JournalGrows

\* Reviewed and direct changes, evaluated on remembered programs, implement the
\* atomic store for as long as no stamp has stood for two programs
\* (commitMutation, loadCached, applyMemoryChange).
THEOREM ChangesAreAtomic == Spec => ImplementsAtomicStore
<1>1. Init => Store!Init
  <2> SUFFICES ASSUME Init PROVE Store!Init
    OBVIOUS
  <2>1. IInv /\ Faithful /\ journal = <<>> /\ Len(journal) = 0
    BY InitIInv DEF Init, CacheInit, Faithful
  <2>2. \A n \in Namespaces : Text(Committed(n)) = Initial[n]
    BY InitialIsCommitted
  <2> QED BY <2>1, <2>2, InitialAssumption DEF Store!Init, Keyed
<1>2. IInv /\ [Next]_vars => (Faithful' => [Store!Next]_(Store!vars))
  BY StepImplementsStore
<1> QED BY <1>1, <1>2, Invariance, PTL DEF Spec, ImplementsAtomicStore

\* Without such a stamp the store is the atomic store.
THEOREM FaithfulStoreIsAtomic == Spec /\ []Faithful => Store!Spec
<1>1. ASSUME Faithful', [Faithful' => [Store!Next]_(Store!vars)]_vars
      PROVE  [Store!Next]_(Store!vars)
  <2>1. CASE UNCHANGED vars
    BY <2>1 DEF vars, cacheVars, Store!vars, Committed, Text, Keyed
  <2> QED BY <1>1, <2>1
<1> QED BY <1>1, ChangesAreAtomic, PTL DEF ImplementsAtomicStore, Store!Spec
=============================================================================
