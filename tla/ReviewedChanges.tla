---------------------------- MODULE ReviewedChanges ----------------------------
(***************************************************************************)
(* Proposals that a person reviews before they are applied, among writers  *)
(* that change the store directly.                                         *)
(*                                                                         *)
(* A proposal is made from a snapshot of the governed namespaces           *)
(* (knowledge/memory-proposal.ts, store.ts knowledgeSnapshot) and names    *)
(* that baseline by its digest.  Applying it (memory-application.ts,       *)
(* store.ts applyMemoryChange; rule-change.ts and applyRuleChange, which   *)
(* differ in what the clauses are) compares digests under the mutation     *)
(* lock, enforces integrity and checks on the candidate                    *)
(* (enforceMutation, enforcement.ts, check-enforcement.ts), commits, and   *)
(* reports from the recorded state at the entry's sequence number          *)
(* (recordedSnapshot).                                                     *)
(*                                                                         *)
(* Every process works from its cache (NamespaceCache).  A digest is       *)
(* modelled by the programs it stands for.                                 *)
(***************************************************************************)
EXTENDS NamespaceCache, Sequences

CONSTANTS
  Initial,        \* [Namespaces -> the clauses that earlier entries recorded]
  Faults(_, _),   \* violations of a program, or the checks it fails
  Requests,       \* direct changes
  Extractions,    \* what a model has been asked to remember
  OpIds,
  MaxEntries,     \* the journal's length
  MaxProposals

Rules == [kind : {"integrity", "checks"}, mode : {"strict", "no_new"},
          names : SUBSET Namespaces]

Baselines == UNION {[names -> SUBSET Clauses] : names \in SUBSET Namespaces}

Proposals == [ns : Namespaces, baseline : Baselines, add : SUBSET Clauses,
              remove : SUBSET Clauses, enforce : SUBSET Rules]

Entries == [op : {"change", "memory_change"}, ns : Namespaces, id : OpIds \cup {None},
            proposal : Proposals \cup {None}, added : SUBSET Clauses,
            removed : SUBSET Clauses, enforce : SUBSET Rules]

Commits == [proc : Procs, ns : Namespaces, step : {"aside", "publish", "append"},
            entry : Entries, next : Files, backup : Files \cup {None}]

ASSUME NoneIsNoCommit == None \notin Commits

\* A change is enforced in its own namespace (integrityNamespaces), and a
\* proposal's governed namespaces include its target.
ASSUME InitialAssumption == Initial \in [Namespaces -> SUBSET Clauses]
ASSUME RequestsAssumption ==
  \A r \in Requests : /\ r.ns \in Namespaces /\ r.add \subseteq Clauses
                      /\ r.enforce \subseteq Rules
ASSUME ExtractionsAssumption ==
  \A e \in Extractions : /\ e.ns \in e.names /\ e.names \subseteq Namespaces
                         /\ e.add \subseteq Clauses /\ e.enforce \subseteq Rules

VARIABLES
  journal,
  proposals,   \* those made so far
  answers,     \* the answers of applied proposals
  reports      \* what their callers were told of the recorded state

vars == <<cacheVars, journal, proposals, answers, reports>>

-----------------------------------------------------------------------------
(* The recorded state                                                      *)

\* Entry i adds a clause to namespace n, or removes it; 0 stands for the
\* entries before the model's.
Adds(n, c, i)    == IF i = 0 THEN c \in Initial[n]
                    ELSE journal[i].ns = n /\ c \in journal[i].added
Removes(n, c, i) == journal[i].ns = n /\ c \in journal[i].removed \ journal[i].added

\* Namespace n after the journal's first k entries: what an entry added and
\* none has removed since.
Recorded(n, k) ==
  {c \in Clauses : \E i \in 0..k : /\ Adds(n, c, i)
                                  /\ \A j \in i+1..k : ~Removes(n, c, j)}

RecordedView(names, k) == [n \in names |-> Recorded(n, k)]

\* A reviewed change must remove what is there and add what is not.
Replays(names) ==
  \A i \in DOMAIN journal :
    journal[i].op = "memory_change" /\ journal[i].ns \in names =>
      LET before == Recorded(journal[i].ns, i - 1)
      IN  /\ journal[i].removed \subseteq before
          /\ journal[i].added \cap (before \ journal[i].removed) = {}

\* The clauses of a view of several namespaces.
Union(view) == UNION {view[n] : n \in DOMAIN view}

-----------------------------------------------------------------------------
(* Enforcement: a set of rules, each with the kind of fault it is about,   *)
(* its mode and the namespaces of its view                                 *)

\* Mutation of Allows: faults are counted.
AllowsAsMany(rule, before, after) ==
  IF rule.mode = "strict" THEN Faults(rule.kind, after) = {}
  ELSE Cardinality(Faults(rule.kind, after)) <= Cardinality(Faults(rule.kind, before))

Allows(rule, before, after) ==
  LET found == Faults(rule.kind, after)
  IN  IF rule.mode = "strict" THEN found = {}
      ELSE found \subseteq Faults(rule.kind, before)

\* The view of process p with candidate in the place of namespace n.
ViewWith(p, names, n, candidate) ==
  [m \in names |-> IF m = n THEN candidate ELSE Loaded(p, m)]

Admits(p, n, candidate, enforce) ==
  \A rule \in enforce :
    Allows(rule, Union(ViewWith(p, rule.names, n, Loaded(p, n))),
                 Union(ViewWith(p, rule.names, n, candidate)))

Governed(enforce) == UNION {rule.names : rule \in enforce}

-----------------------------------------------------------------------------
Init ==
  /\ CacheInit(Initial)
  /\ journal = <<>>
  /\ proposals = {} /\ answers = {} /\ reports = {}

\* assert, retract, supersede and rule changes without an operation id, under
\* the mutation lock; refused or without effect they only load.
Change(p, r) ==
  /\ Idle(p) /\ Unlocked /\ Len(journal) < MaxEntries
  /\ LET current   == Loaded(p, r.ns)
         candidate == (current \ r.remove) \cup r.add
     IN  IF candidate # current /\ Admits(p, r.ns, candidate, r.enforce)
         THEN Begin(p, r.ns, candidate,
                    [op |-> "change", ns |-> r.ns, id |-> None, proposal |-> None,
                     added |-> candidate \ current, removed |-> current \ candidate,
                     enforce |-> r.enforce])
         ELSE UNCHANGED writer
  /\ Remember(p, {r.ns} \cup Governed(r.enforce))
  /\ UNCHANGED <<clock, file, stat, repeated, straddled, journal, proposals,
                 answers, reports>>

\* Mutation of Propose: removals are not looked up in the baseline.
ProposeUnchecked(p, e) ==
  /\ Idle(p) /\ Unlocked /\ Cardinality(proposals) < MaxProposals
  /\ LET baseline == [n \in e.names |-> Loaded(p, n)]
     IN  proposals' = proposals \cup
           {[ns |-> e.ns, baseline |-> baseline, add |-> e.add, remove |-> e.remove,
             enforce |-> e.enforce]}
  /\ Remember(p, e.names)
  /\ UNCHANGED <<clock, file, writer, stat, repeated, straddled, journal, answers,
                 reports>>

\* proposeRememberText, once the model has answered: the changes are those
\* that the baseline does not have yet.
Propose(p, e) ==
  /\ Idle(p) /\ Unlocked /\ Cardinality(proposals) < MaxProposals
  /\ LET baseline == [n \in e.names |-> Loaded(p, n)]
         remove   == e.remove \cap baseline[e.ns]
         add      == e.add \ (baseline[e.ns] \ remove)
     IN  /\ add \cup remove # {}
         /\ proposals' = proposals \cup
              {[ns |-> e.ns, baseline |-> baseline, add |-> add, remove |-> remove,
                enforce |-> e.enforce]}
  /\ Remember(p, e.names)
  /\ UNCHANGED <<clock, file, writer, stat, repeated, straddled, journal, answers,
                 reports>>

\* The entries an operation id already has; the entry answers a retry of the
\* same proposal, and any other use of the id is a conflict.
Prior(n, id) == {i \in DOMAIN journal : /\ journal[i].op = "memory_change"
                                        /\ journal[i].ns = n
                                        /\ journal[i].id = id}

Answer(id, q, sequence) == [id |-> id, proposal |-> q, sequence |-> sequence]

\* Mutation of IsCurrent: the other governed namespaces are left out.
IsCurrentInTarget(p, q) == Loaded(p, q.ns) = q.baseline[q.ns]

IsCurrent(p, q) == \A n \in DOMAIN q.baseline : Loaded(p, n) = q.baseline[n]

\* applyMemoryChange
Apply(p, q, id) ==
  /\ Idle(p) /\ Unlocked /\ Prior(q.ns, id) = {} /\ Len(journal) < MaxEntries
  /\ LET current   == Loaded(p, q.ns)
         retained  == current \ q.remove
         candidate == retained \cup q.add
     IN  IF /\ IsCurrent(p, q)
            /\ q.remove \subseteq current /\ q.add \cap retained = {}
            /\ Admits(p, q.ns, candidate, q.enforce)
         THEN Begin(p, q.ns, candidate,
                    [op |-> "memory_change", ns |-> q.ns, id |-> id, proposal |-> q,
                     added |-> q.add, removed |-> q.remove, enforce |-> q.enforce])
         ELSE UNCHANGED writer
  /\ Remember(p, DOMAIN q.baseline)
  /\ UNCHANGED <<clock, file, stat, repeated, straddled, journal, proposals,
                 answers, reports>>

\* Mutation of Retry: the id alone finds the entry.
RetryOfAny(p, q, id) ==
  /\ Idle(p) /\ Unlocked
  /\ \E i \in Prior(q.ns, id) :
       /\ \A j \in Prior(q.ns, id) : i <= j
       /\ answers' = answers \cup {Answer(id, q, i)}
  /\ UNCHANGED <<cacheVars, journal, proposals, reports>>

Retry(p, q, id) ==
  /\ Idle(p) /\ Unlocked
  /\ \E i \in Prior(q.ns, id) :
       /\ \A j \in Prior(q.ns, id) : i <= j
       /\ journal[i].proposal = q
       /\ answers' = answers \cup {Answer(id, q, i)}
  /\ UNCHANGED <<cacheVars, journal, proposals, reports>>

\* appendJournalUnlocked, then the marker goes and the caller has its answer.
Commit ==
  /\ Finish
  /\ journal' = Append(journal, writer.entry)
  /\ answers' = IF writer.entry.op = "memory_change"
                THEN answers \cup {Answer(writer.entry.id, writer.entry.proposal,
                                          Len(journal) + 1)}
                ELSE answers
  /\ UNCHANGED <<proposals, reports>>

\* Mutation of Report: the journal lock is not taken.
ReportUnlocked(p, a) ==
  /\ Idle(p)
  /\ LET names   == DOMAIN a.proposal.baseline
         drifted == \E n \in names : Loaded(p, n) # Recorded(n, Len(journal))
     IN  /\ reports' = reports \cup
              {[answer |-> a,
                view |-> IF drifted THEN None ELSE RecordedView(names, a.sequence)]}
         /\ Remember(p, names)
  /\ UNCHANGED <<clock, file, writer, stat, repeated, straddled, journal, proposals,
                 answers>>

\* The end of applyMemoryProposal, and of its retry, after the locks are
\* released: recordedSnapshot waits for the journal lock, which a commit
\* holds, and refuses a journal that does not replay and files that differ
\* from the whole replay.
Report(p, a) ==
  /\ Idle(p) /\ Unlocked
  /\ LET names   == DOMAIN a.proposal.baseline
         drifted == \E n \in names : Loaded(p, n) # Recorded(n, Len(journal))
     IN  /\ reports' = reports \cup
              {[answer |-> a,
                view |-> IF drifted \/ ~Replays(names) THEN None
                         ELSE RecordedView(names, a.sequence)]}
         /\ Remember(p, names)
  /\ UNCHANGED <<clock, file, writer, stat, repeated, straddled, journal, proposals,
                 answers>>

StoreKept == UNCHANGED <<journal, proposals, answers, reports>>

\* The clock, and the commit under way.
CommonStep ==
  \/ Tick /\ StoreKept
  \/ SetAside /\ StoreKept
  \/ Publish /\ StoreKept
  \/ Rollback /\ StoreKept
  \/ Commit

ProcStep(p) ==
  \/ Restart(p) /\ StoreKept
  \/ \E n \in Namespaces : StatFile(p, n) /\ StoreKept
  \/ ReadFile(p) /\ StoreKept
  \/ \E r \in Requests : Change(p, r)
  \/ \E e \in Extractions : Propose(p, e)
  \/ \E q \in proposals, id \in OpIds : Apply(p, q, id) \/ Retry(p, q, id)
  \/ \E a \in answers : Report(p, a)

Next == CommonStep \/ \E p \in Procs : ProcStep(p)

Spec == Init /\ [][Next]_vars

-----------------------------------------------------------------------------
(* Properties                                                              *)

\* The types of files, caches and proposals, whose removals are in the baseline.
TypeOK ==
  /\ clock \in 0..MaxTime /\ repeated \in BOOLEAN /\ straddled \in BOOLEAN
  /\ file \in [Namespaces -> Files \cup {None}]
  /\ cache \in [Procs -> [Namespaces -> Programs \cup {None}]]
  /\ stat \in [Procs -> [ns : Namespaces, stamp : Stamps] \cup {None}]
  /\ writer \in Commits \cup {None}
  /\ journal \in Seq(Entries)
  /\ proposals \subseteq Proposals
  /\ \A q \in proposals : /\ q.ns \in DOMAIN q.baseline
                          /\ q.remove \subseteq q.baseline[q.ns]
  /\ answers \subseteq [id : OpIds, proposal : Proposals, sequence : DOMAIN journal]

\* No load took one file's stamp for another's program.
Faithful == ~repeated /\ ~straddled

\* Commits build on the files: with processes that remember programs for as
\* long as stamps repeat, the files are what the journal says, unless a stamp
\* stood for two programs (store.ts:465, 1607).
CommitsBuildOnTheFiles ==
  Faithful /\ Unlocked =>
    \A n \in Namespaces : Text(file[n]) = Recorded(n, Len(journal))

\* The file of namespace n that a rollback would leave.
Committed(n) == IF writer # None /\ writer.ns = n /\ writer.step # "aside"
                THEN writer.backup ELSE file[n]

\* The entries by their keys; the id of a change without one is its position.
Keyed == [i \in DOMAIN journal |->
            [op |-> journal[i].op, ns |-> journal[i].ns,
             opId |-> IF journal[i].op = "change" THEN i ELSE journal[i].id,
             removed |-> journal[i].removed, added |-> journal[i].added]]

Store == INSTANCE AtomicStore
           WITH content <- [n \in Namespaces |-> Text(Committed(n))], log <- Keyed

\* What is committed from evaluations on remembered programs implements the
\* atomic store, as long as no stamp has stood for two programs: the committed
\* files and the journal change together, by one operation that is in the
\* journal once.
ImplementsAtomicStore ==
  Store!Init /\ [][Faithful' => [Store!Next]_(Store!vars)]_vars

\* A proposal is applied to the state that was reviewed, in all its governed
\* namespaces, whatever was committed between review and application.
AppliedToTheReviewed ==
  Faithful =>
    \A i \in DOMAIN journal :
      LET q == journal[i].proposal
      IN  q # None => RecordedView(DOMAIN q.baseline, i - 1) = q.baseline

\* What was committed under enforcement has no fault that the state before it
\* did not have, or none at all, across the namespaces enforced.
NoNewFaults ==
  Faithful =>
    \A i \in DOMAIN journal : \A rule \in journal[i].enforce :
      LET FaultsAt(k) == Faults(rule.kind, Union(RecordedView(rule.names, k)))
      IN  FaultsAt(i) \subseteq (IF rule.mode = "strict" THEN {} ELSE FaultsAt(i - 1))

\* An operation id stands for one proposal: every answer, a retry's too,
\* names the one entry of that proposal.
AnswersNameTheirEntry ==
  \A a \in answers :
    /\ Prior(a.proposal.ns, a.id) = {a.sequence}
    /\ journal[a.sequence].proposal = a.proposal

\* What the caller is told after the commit, or after a retry much later, is
\* the reviewed candidate, not the present nor an error.
ReportsShowTheReviewed ==
  Faithful =>
    \A r \in reports :
      LET q == r.answer.proposal
      IN  r.view = [q.baseline EXCEPT ![q.ns] = (@ \ q.remove) \cup q.add]
=============================================================================
