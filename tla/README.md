# A TLA+ verification of rembero's memory store

rembero keeps a person's memory as Datalog programs in plain files. Several processes (the
command line, an MCP server, a web console, a background capture hook) open the same directory
at once, any of them may be killed at any moment, and every change has to be durable, journaled
and repeatable; what the programs say is derived by an engine with recursion, negation and
aggregation. This directory holds TLA+ modules that model that machinery, TLC configurations
that check it on small instances, and TLAPS proofs of the results that matter most.

- [1. Inventory](#1-inventory)
- [2. Modules](#2-modules)
- [3. What the runs show](#3-what-the-runs-show)
- [4. Where code and documentation disagree](#4-where-code-and-documentation-disagree)
- [5. What is proved](#5-what-is-proved)
- [6. Abstractions and limits](#6-abstractions-and-limits)
- [7. Plan](#7-plan)

Paths are relative to the repository root; a bare `store.ts:N` is `src/store/store.ts:N`.

## 1. Inventory

| Component | State | Operations | What makes it correct |
| --- | --- | --- | --- |
| **Commit protocol** (`store.ts` `commitMutation`, `recoverPendingMutationUnlocked`, `rollback...`, `complete...`) | `<ns>.dl`, `.pending-mutation.next/.before/.json`, `journal.log` | assert, retract, supersede, rule_change, memory_change, prune; recovery by the constructor, by `knowledgeSnapshot` and by every commit | A crash or an I/O error at any file operation leaves something the next recovery can finish; file and journal agree; an operation id takes effect once; a caller told "done" is right |
| **Lock file** (`store.ts` `withLock`) | `.<name>.lock` with the owner's pid and the time | exclusive create, write the owner, lstat + read + unlink a stale one, wait, release | Exclusion; no wait without end |
| **Journal segments and checkpoints** (`store.ts` `compactJournal`, `listJournalCheckpoints`) | `journal.log`, `.journal-segments/`, `.journal-checkpoints/` | rotate, repair a missing checkpoint, dry run, retry, list and verify | A recorded sequence number keeps its meaning; a checkpoint says what the journal says; retries do not rotate twice |
| **Namespace cache** (`store.ts` `loadCached`, `fileStamp`) | parsed program per namespace, keyed by the file's time and size | load (stat, then read), remember what was committed, forget what was rolled back | Under the mutation lock a remembered program is what the file holds |
| **Recorded history** (`history`, `recordedSnapshot`, `sourcesFor`) | none of its own | replay to a sequence number, life story of a fact, sources of the live clauses, under the lock (`knowledgeSnapshot`) or without it | Replay equals the files; a source names the operation that last added the clause; an answer put together without the lock is right about what did not change meanwhile |
| **Auto-capture** (`src/autocapture`, `reserveAutoCapture`, `finishAutoCapture`, `reviewAutoCaptures`, `pruneAutoCaptureFacts`) | journal entries `auto_capture`, `capture-errors.log` | reserve, extract with the model, assert, finish; review; prune | One model call per transcript, the daily cap, statuses that tell the truth, pruning that spares what was added later |
| **Datalog engine** (`src/engine/evaluate.ts`, `stratify.ts`, `index.ts`) | relations, deltas, first proofs, limits | stratify, semi-naive evaluation, aggregation, queries | The result is the model of the program, whatever the order of clauses and tuples; exactly the cycles through negation or aggregation are refused; proofs stand on facts and on absences that stay true; a limit throws instead of cutting |
| **Parser and canonical forms** (`src/engine/parser.ts`, `lexer.ts`, `ast.ts`) | none | parse, serialize, canonical key | Round trip, alpha-equivalence |
| **Enforcement** (`src/knowledge/enforcement.ts`, `check-enforcement.ts`, `integrity.ts`, `checks.ts`) | none | compare the violations of baseline and candidate | A change that adds a violation is refused, also when it removes another; one that leaves an old one is not |
| **Proposals** (`memory-proposal.ts`, `memory-application.ts`, `rule-change.ts`, `repair.ts`) | digest-bound artifacts | propose, apply, retry, report | Applied to exactly the reviewed state of all governed namespaces, once; what is reported is what was reviewed |
| **Trust and identity** (`trust.ts`, `trust-store.ts`, `identity.ts`) | metadata facts | resolve a tentative fact, canonicalize entities | A class has one representative; a resolution acts on what was looked up |
| **Semantic search** (`semantic-search.ts`, `llm/embeddings.ts`) | LRU cache, file cache | embed with bounded concurrency, evict | Bounds hold, no result is lost or mixed up |
| **LLM client and pipeline** (`src/llm`) | none | complete with a retry, validate with a retry, widen a recall | Bounded attempts; nothing stored from an invalid answer |
| **Views** (`graph.ts`, `paths.ts`, `topology.ts`, `why-not.ts`, `counterfactual.ts`, ...) | none | pure functions of a snapshot | Agreement with their definitions |
| **MCP server, CLI, web console** | session | validate arguments, dispatch | One process each, in the sense of `Procs` below |
| **SQLite extension** (`native/`, `src/sqlite`) | tables | bridge, native recursion | The same least model |
| **Bundles, evaluation harness, site** | none | import/export, scoring, demonstration | Not part of the concurrent core |

**How they interact.** All of them call `MemoryStore`. A mutator takes three lock files, always in
the order mutation, namespace, journal, reads the namespace, builds a candidate, lets the
enforcement refuse it, and hands candidate and journal entry to `commitMutation`. Audit events
(`note`) and captures' reservations take the journal lock alone. `knowledgeSnapshot` takes the
mutation lock, recovers, and reads. Other reads take no lock (a query), the journal lock alone
(`recordedSnapshot`), or first none and then the journal lock (`sourcesFor`), and all of them go
through the cache of parsed programs. `compactJournal` holds mutation and journal lock to its end.
There are no callbacks or background threads inside a process: concurrency is between processes,
and between a process and its crash.

**What is hard.** (a) A crash between two file operations, or inside the recovery from one;
(b) a process that survives another's crash and is already past the place where recovery
happens; (c) judging a lock stale without owning it; (d) errors reported after the commit point,
followed by a retry; (e) rotation interrupted between its two renames, and repaired much later;
(f) artifacts verified against a present that has moved on; (g) a program remembered under a
stamp that may come back; (h) a review whose baseline spans several namespaces that others change;
(i) rounds over relations that grow while they are read. `PROJECT.json` lists every hazard with
its line and the properties aimed at it, or the reason there is none yet.

## 2. Modules

| Module | Models | State and actions in terms of the code |
| --- | --- | --- |
| `AtomicStore` | what the store promises | `content`, `log`: one step changes a namespace and appends the entry that says so; `Record` appends an entry that changes nothing |
| `MutationCommit` | `store.ts` 1645-1825 and the common shape of the mutators | `file`, `next`, `before`, `marker`, `journal` are the files; `pc[p]` is the next file operation of process `p`; `holder` the locks. `Evaluate` is the mutator's body, `Recovery` is `recoverPendingMutationUnlocked` with its two endings, `Commit` is `commitMutation`, `Fault` its catch clauses |
| `LockOwner` | what `withLock` promises | `holder`, `inside`: acquire, release, die inside, break a dead owner's lock |
| `FileLock` | `withLock`, `store.ts` 926-1007 | one lock path, file identities (inodes), the owner line; one action per system call |
| `JournalCheckpoints` | `compactJournal`, `listJournalCheckpoints` and their helpers, `store.ts` 805-919, 1180-1407 and 1530-1557 | `active`, `segments`, `checkpoints` are the three places on disk; `pc` is where the one compaction under way stands |
| `AutoCapture` | `autocapture/capture.ts` 63-208, `rememberTranscriptText` (`llm/pipeline.ts` 671-741), `store.ts` 2972-3234 and 3338-3466 | `pc[w]` is the next locked section of worker `w`; `journal` and `errors` the two logs; `pruning` the prune call that holds the mutation lock; `stored` the files |
| `Clauses` | `engine/ast.ts`, `checkClause` of `engine/parser.ts`, `solveGoals` and the reductions of `engine/evaluate.ts` | terms, goals, clauses; `WellFormed` is what the parser accepts; `Solutions` what a body yields, `Reductions` what an aggregate rule does |
| `Stratification` | `engine/stratify.ts` | `strata` is `predicateStrata`; one `Relax` per dependency, `NextPass` the loop and its bound |
| `FixpointEvaluation` | `deriveDatabase` and the two kinds of query, `engine/evaluate.ts` 1068-1266 and 1672-1694 | `support` is the database with the entry of every fact, `delta` and `fresh` are `delta` and `newDelta`, `todo` the passes (rule, `deltaPos`) the round has left; `Derive` is one solution of the inner loop |
| `ProgramMeaning` | no code: a meaning of programs without strata, rounds or deltas | `IsModel` (the stable models), `StrictCycle`; what evaluation is to agree with |
| `EvaluationReference` | no code: the stable model, computed | `Search`, iteration from the empty candidate; `Model` is where it comes to rest |
| `NamespaceCache` | `fileStamp`, `loadCached`, the renames of `commitMutation` | `file` with its time, `cache[p]` the `Map` of process `p`, `stat[p]` an unlocked load between its `statSync` and its read, `writer` the commit that holds the mutation lock |
| `ReviewedChanges` | `proposeRememberText`, `applyMemoryProposal`, `applyMemoryChange`, `enforceMutation`, `recordedSnapshot` | extends `NamespaceCache`: `proposals` and `answers` are what callers hold, `journal` the entries; `Change` is any direct mutator, `Report` the end of `applyMemoryProposal` |
| `ClauseSources` | `sourcesFor`, `knowledgeSnapshot`, `store.ts` 4370-4500 | extends `ReviewedChanges`: `lookup[p]` is a `sourcesFor` without lock between its loads and its reading of the journal, `told` the answer just given; `Snapshot` is the whole call under the mutation lock |
| `MC...` | instances for TLC | the request sets and model values |
| `FileLockProofs`, `MutationCommitProofs`, `AtomicCommitProofs`, `JournalCheckpointsProofs`, `AutoCaptureProofs`, `EvaluationProofs`, `ProgramMeaningProofs`, `ReviewedChangesProofs` | proofs | invariants and theorems, section 5 |

`AtomicStore` is the abstract specification; `MutationCommit` instantiates it with
`content <- EffectiveText` (what a recovery run now would leave in each file) and
`log <- journal`, and `ReviewedChanges`, where caches stand between the files and those who change them,
with the text of `Committed` (what a rollback would leave) and `log <- Keyed`: both layers
implement one specification. `LockOwner` is the other abstract specification, between two layers:
`FileLock` implements it with the file, and the steps of `MutationCommit` on its `holder` are steps of it;
`MutationCommit` justifies that `JournalCheckpoints` appends an entry, and `AutoCapture` makes a
mutation, in one step. `NamespaceCache` opens that step again where a load without a lock can see
into it (between the two renames and before the append), and `ReviewedChanges` composes it with the
journal, the enforcement and the callers; `ClauseSources` adds readers that are themselves several
steps long. A crash inside the window is `MutationCommit`'s. The engine
(`Clauses`, extended by `Stratification`, by `FixpointEvaluation`, by `ProgramMeaning`, by
`EvaluationReference` and by `ProgramMeaningProofs`) is a function of a program: for the store it stands behind the
parameter `Faults` of `ReviewedChanges`, the violations of a program. Recursion is written as
recursive functions, never `RECURSIVE` operators, so that all of it can be proved about. The layers are
checked one at a time; their product is out of reach and each layer's interface is a property the
layer below checks.

## 3. What the runs show

| Run | Question | Result |
| --- | --- | --- |
| `commit_recovery` | What survives of commits when a process dies, or the machine goes down, at any file operation, with I/O errors in commits and in recoveries? | The pending files stay recoverable, the append is the only commit point, an id takes effect once, an answer is durable, every call ends; and, unless pending files were left to processes that live on, the protocol implements the atomic store, files and journal agree and snapshots are whole |
| `commit_dirty_read` | And when they were left to one? | **No**, see section 4 |
| `lock_contention` | Does the lock file exclude, is it one lock that no finished call leaves behind, and does every wait end? | Yes, unless a waiter unlinks a file that it did not judge; every wait ends |
| `lock_stale_break` | Can that happen? | **Yes**, see section 4 |
| `checkpoint_rotation` | Do interrupted rotations, repairs, dry runs and retries keep the history and the checkpoints true? | Yes, at and below every limit |
| `checkpoint_new_namespace` | Is a checkpoint the store published always accepted later? | **No**, see section 4 |
| `checkpoint_retry` | Does an operation, with its retries, rotate once? | **No**, see section 4 |
| `auto_capture` | Do racing, dying and failing captures stay within the cap, ask once and leave a true status, and does pruning, interrupted anywhere, keep the journal true and spare what was asserted again? | Yes |
| `capture_readded` | And what another operation added again? | **No**, see section 4 |
| `engine_fixpoint` | Does the engine compute each program's model, refuse exactly the programs that have none, and end? | Yes, for 1,058 programs under every order in which relations list their tuples; too many facts is reported exactly when there are |
| `reviewed_changes` | Is a proposal applied to what was reviewed, once, without new violations, and truly reported, with caches, restarts and unlocked loads? And are the sources of clauses right, asked for with the lock and without? | Yes, and all of it implements the atomic store, as long as no stamp stood for two programs (section 4); without the lock, about what stayed as it was and unless a load came amid a commit |
| `clause_sources_amid` | And when it did come amid a commit? | **No**, see section 4 |

**Bounds.** `commit_recovery` has 2 processes, 2 namespaces, 2 clauses, 3 calls and 2 crashes: enough for a
first operation to be left behind by a crash, its recovery to be interrupted by the second, and a retry or a
conflicting request to follow. The five requests are an assert, which may be retried, a different assert
under the same id, a retract under the same id (another operation), an implicit supersession, and the same
id in another namespace. A variable of the model, `abandoned`, notes the one kind of event its properties
except: a process died in the middle of its commit, or gave up a recovery, while another lives on that has
constructed its store and will read before it recovers. Operation ids of implicit requests are their journal
position, so the module has no counter. The lock run has 3 processes (an owner that dies and two waiters), 1
crash and 3 calls. `checkpoint_retry` has one operation, one interruption and two calls;
`checkpoint_rotation` has 2 segments at most, 2 active entries, 3 readable entries out of 4 written, so that
each of the three limits is hit (`TooManySegments`, `Write`'s guard, `TooLong`), 4 calls and 2
interruptions: an interruption, an interrupted repair, and the calls that follow. One clause and two
namespaces suffice to tell additions from removals and a namespace that exists from one that does not yet.
The capture runs have 2 workers, 2 namespaces and 2 transcripts, so that duplicates, different transcripts
under one cap and captures in different namespaces all occur; a cap of 1, 2 days, 1 fact, 2 failures (a log
unavailable, then the other; or a log and a death), 2 changes by the user (remove, add again) and 1 prune
call of any selection. `CONSTRAINT Eventful` allows three of these events beside the captures' own in a
behaviour, two when both namespaces are in use: a removal, an addition and a prune, or a prune between two
failures. Because the run checks liveness it declares no symmetry; the constraint has the first of
interchangeable workers, namespaces and transcripts used first instead, which leaves out renamed behaviours
only. Liveness is thereby checked of the behaviours within the bounds.

`engine_fixpoint` has a family of programs: three sets of given facts (a cyclic graph with an isolated node,
one edge with a dead end, a triangle), each under up to four of eleven rules, given first or last and the
rules in both orders; the rules hold a recursion written linearly, doubly and through another relation,
negation with a wildcard, an aggregate over an aggregate and one over a negation, a rule without positive
goals, a rule that closes a cycle through negation, and a constraint; and a chain of negations in both
orders, whose last pass is the last one allowed. The limits are such that each of them is exceeded by some
program and met by another: 12 facts, 5 rounds, 6 aggregate rows, 2 rows of an answer. The search for the
reference model has 20 steps (`MaxSteps`), and an assumption that TLC evaluates says that they suffice for
each program. `reviewed_changes` has 2 processes, 2 namespaces, 4 clauses (a policy and three facts, two
pairs of which violate it across the namespaces), 4 direct requests, 2 extractions, 1 operation id, 3
entries, 2 proposals and a clock of 2 instants: enough for a namespace to return to the reviewed content
(and size) under another time, for a change in the other governed namespace, for one violation to replace
another, for two proposals under one id and for a report made two entries later. Sources are asked for of
the first namespace or of both, when the journal and the proposals have one element at most (`MaxAsked`);
the call itself may go on while the journal grows to its bound, so that a clause is removed, added again and
recorded between two of its loads. `clause_sources_amid` has one change, an addition, so that whatever an
answer leaves out was stored all the time. The run's `CONSTRAINT Apart` has one process at a time within
such a call, and none while there are proposals: a call changes nothing but its own process's cache, and a
proposal nothing but what is committed, which direct changes do as well. It also stops exploration behind
states in which a stamp has stood for two programs (`Faithful`); those states are checked, their successors
are not, so `TypeOK` and `AnswersNameTheirEntry`, which say nothing of stamps, are explored up to there (the
proofs of section 5 have no such limit). Processes are interchangeable and nothing is checked for liveness,
so symmetry is sound.

**Fairness.** `FairSpec` says that a process inside a call keeps executing (weak fairness of `Step(p)`): the
calls are synchronous, nothing in them waits but the lock. Nothing forces a process to start, to call, or to
crash. In `FileLock` the clock may pass the deadline and the staleness limit, and weak fairness is again on
the process's own steps. In `AutoCapture` a worker and a prune call keep going; the model's answer comes or
fails because the client's requests time out, and a worker whose assert waits for a prune call either gets
the lock or times out (`AssertFails`). `WaitEnds` also relies on the bound on calls: a waiter whose `lstat`
finds the file gone retries without looking at its deadline (`store.ts` 982-984), so with an unbounded
supply of competitors that always finish between its `open` and its `lstat` it could go round for ever; a
bounded number of calls cannot keep that up. In `FixpointEvaluation` `WF_vars(Next)` is a synchronous call
that runs on: `Terminates` follows for the programs of the run without a bound that is not the code's own
(`maxIterations` alone would end the rounds; the passes of stratification are bounded by the number of
predicates). Deadlock checking is off in runs whose system may really stop, because callers may have nothing
more to ask or the call has returned; in `reviewed_changes` it is on.

Every property of a passing run has a mutation of a modelled definition (defined just before it, "Mutation
of ...") under which TLC finds the property violated in the same configuration; e.g. forgetting the backup
breaks `OnlyTheJournalCommits`, leaving out the replay marker of an explicit no-op breaks
`AnsweredIsJournaled`, judging a lock by age alone breaks `ExclusiveUnlessStolen`, a release that leaves an
old file alone `ImplementsLockOwner`, recomputing a missing checkpoint from today's state breaks
`CheckpointsTellTheTruth`, reading delta at the last positive goal only breaks `EvaluationIsExact`, counting
violations instead of comparing them breaks `NoNewFaults`, comparing the target namespace only breaks
`AppliedToTheReviewed`.

## 4. Where code and documentation disagree

1. **Reading before recovering** (`commit_dirty_read`). A mutator loads its namespace
   (`store.ts:1925`) before `commitMutation` recovers (`store.ts:1766`). If a process dies after
   installing the new file and before the append, a process that was already running evaluates on
   the uncommitted file, then rolls it back, then commits a candidate that still contains the dead
   operation's clause. The clause is in the file and in no journal entry, and history refuses that
   namespace as drifted (`store.ts:4309`). `docs/MEMORY-APPLICATION.md:5-6` promises "one
   crash-safe change or writes nothing". Processes started after the crash are safe (the
   constructor recovers). A recovery that itself meets an I/O error leaves the same situation to the
   process that met it. `StoreMatchesJournal` shows that nothing else breaks the agreement.
2. **Breaking a stale lock** (`lock_stale_break`). Staleness is judged from `lstat` and a read, the
   unlink takes the path (`store.ts:979`). Two waiters can both judge the dead owner's file, and the
   slower one removes the file of the faster. The release compares inodes (`store.ts:1000`), the
   break does not.
3. **Checkpoints and new namespaces** (`checkpoint_new_namespace`). A checkpoint is compared with a
   replay over the namespaces that have a file *now* (`store.ts:1334`), so the first fact of a new
   namespace makes every earlier checkpoint "not match replay": listing, rotating, and the retry
   of a rotation that succeeded all throw from then on.
4. **Retrying an interrupted rotation** (`checkpoint_retry`). A rotation renames the journal and then
   publishes the checkpoint that bears the caller's operation id (`store.ts:912-914`). Interrupted between
   the two, its retry publishes the missing checkpoint under a `recovered-...` id (`store.ts:831-839`), does not
   find its own id among the checkpoints (`store.ts:845-847`) and rotates what was appended since; when
   nothing was, it answers that nothing was rotated. `docs/JOURNAL-CHECKPOINTS.md:21` says "A caller-supplied
   operation ID makes rotation retry-safe", `docs/MIGRATING-0.22.md:18` that the ids "are retry-safe". The
   history stays whole; `OperationRotatesOnce` says that there is no other way to rotate twice.
5. **Pruning a fact that was added again** (`capture_readded`). `retractFactIfSourcedBy` looks for
   the last `assert` entry that added the fact (`store.ts:2996-3011`). A fact that the user removed and
   that a supersession or a memory change added again still looks like the capture's, and goes.
   `docs/AUTO-CAPTURE.md:105-106` says it never does; the test of it re-adds with `assert`.
6. **Sources without the lock** (`clause_sources_amid`). `sourcesFor` loads its namespaces one after the
   other (`store.ts:4403`) before it takes the journal lock (`store.ts:4408`). A load that falls between the
   two renames of a commit (`store.ts:1805-1806`) finds no file and takes the namespace for empty. However
   the commit then ends, the answer names no source of clauses that the namespace held, recorded, before,
   during and after the call, while the comment at `store.ts:4396` promises the source "for every currently
   stored clause". A clause that a load reads from a file about to be rolled back does no such harm: it is
   in the answer only where an earlier entry added it. `reviewTentativeClaims` (`trust-store.ts:51`) and
   `rememberTranscriptText` (`pipeline.ts:683`) call it so; `knowledgeSnapshot` has the lock and is not
   affected.

Seen while modelling, without a run of its own:

- *Stamps that stand for two programs.* `ImplementsAtomicStore` is qualified by `Faithful`, and each
  half of the qualification is needed. `fileStamp` is time and size (`store.ts:465-472`): a
  commit that replaces a program by another of the same size within the clock's resolution leaves
  other processes with the old program under the new stamp. And a load without the mutation lock
  that stats before a commit's first rename (or after it, when there is no file) and reads before
  its rollback remembers the uncommitted or the missing file under a stamp that the rollback brings
  back. In both cases the next locked mutation of that process builds on the remembered program and
  writes over what was committed.
- *A file that no longer loads.* Mutators parse, and thereby stratify, the clauses they are given, not
  the program they leave. Two asserts that are each stratified, `p(X) :- n(X), \+ q(X)` and
  `q(X) :- n(X), \+ p(X)`, commit a file that `parseProgram` (`parser.ts:546`) refuses in every
  process that has not remembered it, while `README.md:482` says such cycles are rejected. Loads that
  throw are not modelled yet.
- *A proposal that was applied and reported as failed.* `applyMemoryProposal` reads the recorded state
  after its commit (`memory-application.ts:317`); a namespace edited by hand, or left half-committed
  by a dead process, makes it throw although the change is durable, while
  `docs/MEMORY-APPLICATION.md:40` has failures occur before changes.
- *Two unlocked loads for one answer.* The web service counts from two loads (`web/service.ts:269`,
  `277`); the parts may be of different moments.

## 5. What is proved

The theorems hold for every value of the constants under the assumptions named in the modules, which TLC
evaluates in every run: `LockAssumption` and `OwnersAssumption` (the null values are no lock files and no
processes; bounds are numbers), `RequestsAssumption`, `BoundsAssumption`, `NullsAssumption` (requests are
well formed and name namespaces and clauses; the null values differ from what they stand beside),
`NoneIsNoRecord` (the null value is no record), `CapAssumption` and `NoneAssumption` (the bounds of
`AutoCapture` are numbers, cap and calendar positive), `FactsAssumption` (its facts are finitely many, since
a capture's status counts them), `ProgramsAssumption` (programs and bodies are sequences, and clauses are
what the parser accepts), `QueriesAssumption` (so are the bodies of queries), the two `LimitsAssumption`s
(the limits of the evaluator and of the rotation are natural numbers, an answer's at least 1),
`RequestsAssumption` of `JournalCheckpoints` (no request bears the operation id that a repair uses),
`CacheBounds` (clauses are finitely many, since a stamp counts those of a file), `NoneIsNoProgram`,
`NoneIsNoCommit`, `NoneIsNoLookup` (the null value again), `NamesAssumption` (callers ask for namespaces),
`StepsAssumption` (the search for the reference model has come to rest; only `EvaluationAgreesWithReference`
uses it), `InitialAssumption` and `ExtractionsAssumption` (the first files and what is extracted are made of
clauses; an extraction governs its target). Nothing else is assumed to be finite.

**`FileLockProofs`.** `TypeCorrect`, and `LockExcludes: Spec => []ExclusiveUnlessStolen`: for any
number of processes, crashes, restarts and calls two processes are inside only if a waiter unlinked
a file other than the one it judged. `ExclusiveUnlessStolen` is not inductive: the
invariant adds that whoever is inside is the creator of the file its `fstat` named, that a file
identity has one creator, and that a file judged stale is one whose creator is dead.
`FileLockIsALock: Spec => ImplementsLockOwner` is a refinement: up to the first such theft every step of
the protocol is a step of `LockOwner` or leaves it alone, with `holder` the creator of the lock file while
it runs, `Stale` once it is gone, and `inside` the processes between their `open` and their `unlink`.
Exclusion is one half of it; the other (`LiveOwnersAreInside`) is that the lock file of a process that
runs belongs to a call under way: no call ends, fails or times out and leaves behind a file that
nobody could judge stale. That a restart takes a new life (`LivesGoOn`) is what keeps a restarted
process from passing for the owner it was; it is the assumption on pids of section 6.

**`MutationCommitProofs`.** `Invariance` proves the inductive invariant `IInv`:
`LockHeld` (who is at a locked step owns the lock), `PendingFiles` (which combinations of the four
files may exist, per the owner's step; with no owner, the ones a crash may leave), `OwnerKnows`
(what the owner's entry and candidate say about files and marker at each step), `EntryIsNew` (the
entry under construction is not yet in the journal), `AnswerIsJournaled` and `IdsArePositions`
(implicit ids never collide). From it follow:

- `RecoveryAlwaysPossible: Spec => []RecoveryNeverRefuses`;
- `AtMostOnce: Spec => []AppliedAtMostOnce`;
- `AnswersAreDurable: Spec => []AnsweredIsJournaled`;
- `CommitsOnlyByJournal: Spec => OnlyTheJournalCommits`, an action property: under the invariant
  no step but the append changes `EffectiveText`;
- `CommitsUnderOneLock: Spec => Lock!Spec`, the same `LockOwner` seen from above, with `inside` the
  processes at a locked step. What the theorem does not say is that `MutationCommit` lets
  `LockOwner`'s steps happen whenever they may (ENABLED is out of the provers' reach): that is its
  guards, `holder = None` and `holder = Stale`, and a crash that any process may have at any step.

`PendingFiles` is needed because `RecoveryNeverRefuses` speaks of the states where it matters
only: why the backup is never orphaned depends on the order of three unlinks and of two renames,
which only the step-indexed description of the files shows. `EntryIsNew` is needed because
"committed" is decided by looking the marker's entry up in the journal: an entry that was there
before its own append would turn a rollback into a completion.

**`AtomicCommitProofs`.** The commit protocol implements the abstract `AtomicStore`, for any crashes and
I/O errors, up to the step that leaves pending files to processes that live on (`abandoned`: the owner
of a commit dies, or a recovery fails, beside a process that has constructed its store). The
qualification cannot be dropped: `commit_dirty_read` refutes the first of these theorems without it
(section 4).

- `StoreIsItsJournal: Spec => []StoreMatchesJournal`;
- `SnapshotsAreCommitted: Spec => []SnapshotIsRecorded`;
- `CommitImplementsStore: Spec => ImplementsAtomicStore`, the refinement: `Init`
  maps to the abstract initial state, an append to the abstract step of its entry, and every
  other step to a stutter.

`StoreMatchesJournal` is not inductive: it says nothing of a candidate on its way to a file. To `IInv`
of `MutationCommitProofs` the invariant `RecordInv` adds `Attended` (when pending files exist,
either somebody is working on them or nobody has read anything yet: every process is down or still
to construct its store, which recovers) and `Carries` (the candidate is what its entry makes of the
*recorded* text, and lies in the staging file until it is installed). `Attended` is what fails when
pending files are abandoned, so what is proved to be invariant (`RecordInvariance`) is `abandoned \/ RecordInv`.

**`JournalCheckpointsProofs`.** For any namespaces, requests and limits, and any interruptions:

- `ArtifactsAlwaysAgree: Spec => []ArtifactsAgree`;
- `CheckpointsAreTrue: Spec => []CheckpointsTellTheTruth`;
- `CompactionRepairs: Spec => []ReturnsRepaired`;
- `RotatesOnce: Spec => []OperationRotatesOnce`: an operation rotates a second time only when its first
  rotation was interrupted and its checkpoint repaired under a recovered id;
- `SequencesAreForever: Spec => SequencesKeepTheirMeaning` and
  `DryRunsAreDry: Spec => DryRunChangesNothing`, action properties.

The invariant `JInv` adds `JobAgrees` to the properties themselves: between the rename of a segment and
the publication of its checkpoint, the artifact in the making says what the journal says, its
operation has no earlier checkpoint and its segment alone lacks one. `LabelsAgree` has a checkpoint bear the
operation id its segment was rotated under, or the recovered one. The journal is the
concatenation of the segments (`Before`, a recursive function) and the active entries. The library's
induction theorems take an operator as a parameter, which the provers cannot instantiate; that
`Before` satisfies its equation, and that a rotation moves entries without changing any
(`JournalStep`), rests on induction over *sets* of numbers (`SetInduction`, from the theorem that a
non-empty subset of a well-founded set has a minimal element).

**`AutoCaptureProofs`.** The first inductive invariant is small, `TypeOK` and `NothingYet` (a worker that
has not asserted has added nothing); the first argument is in the lemma `StepsAreHonest`: every step of a
worker, of the user or of a prune call leaves journal and files alone or appends one entry that
tells the truth. A `started` entry is new in its fingerprint and finds its day below the cap; what an
entry says was added and removed is what the step did to the files. Each property then follows from
one lemma about an honest step (`AttemptStep`, `CapStep`, `ReplayStep`):

- `OneAttempt: Spec => []OneAttemptPerTranscript`;
- `CapHolds: Spec => []WithinDailyCap`, from the cardinality of the day's attempts and one more;
- `FilesReplay: Spec => []StoreReplaysJournal`;
- `PruningSpares: Spec => PruneSparesReasserted`, an action property: while a prune call is under
  way no step but its own retraction removes facts (`OnlyPruningRemoves`), and that one looks the
  latest assert up at the moment it removes;
- `ReviewsAreTrue: Spec => []StatusesAreTrue`.

The last one needs more, since a review reads the *newest* note of a capture while the facts are in
another entry: `Told` relates, for every worker, where it stands, what it has still to note and what
the journal holds of it (nothing is asserted before the assert; until the worker has ended, no note
claims an outcome; at the end the entry of its assert has the facts that it is about to count). Steps of
others leave a worker's story alone (`OthersDoNotDisturb`, `UsersDoNotDisturb`), its own steps
continue it (`OwnStepsTell`).

**`EvaluationProofs`.** For every program that the parser accepts, any queries and any limits, and
whatever tuples a live relation shows to a pass:

- `AcceptedProgramsAreStratified: Spec => []AcceptedIsRespected`: what stratification lets through has
  strata that respect every dependency;
- `StrataBelowAreFinal: Spec => StrataAreFinal`;
- `AbsencesAreTrue: Spec => []AbsencesStayTrue`: no recorded absence is ever refuted;
- `EvaluationIsClosed: Spec => []FinishedIsClosed`: no consequence is lost.

The inductive invariant `IInv` joins `TypeOK`, `Relaxed` (a pass that has raised nothing has found
what it has visited respected), `AcceptedIsRespected`, `LowerIsClosed` (the strata below are done),
`AbsencesAreBelow` and `AbsencesStayTrue`, and the bookkeeping of the semi-naive rounds: `RoundOwes`
(between rounds, a solution whose head is missing uses a tuple of delta) and `PassOwes` (inside a round,
it uses a tuple new in this round, or some pass that will read one of its tuples as delta is still to
come), with `NothingYet`, `NoPasses` and `Finished` for the edges. `FinishedIsClosed` says nothing of
the states in between, so without `RoundOwes` and `PassOwes` no step could be proved; they are also the
reason the first round may read live relations: `PassOwes` measures a pass from the database it
began with (`before`), and what came later is `fresh`. `GrowthStep` is the one lemma about what a
pass adds, used for ordinary and aggregate rules; `SolutionsShrink` and `SolutionsStay` say when a
larger database has the same solutions.

**`ProgramMeaningProofs`.** What a program means, in terms that know nothing of strata and rounds
(`ProgramMeaning`), and that stratification and evaluation agree with it, for every program:

- `RefusalsAreExact: Spec => []RefusalIsExact`: a program is refused exactly when a cycle of its
  dependencies goes through a negation or an aggregation. That a refused program has such a cycle is
  a pigeonhole argument over the passes: what a pass finds not respected has been pushed up along a
  walk of at least as many dependencies as there were passes before (`Pushed`, `RefusalInv`), and a walk
  of as many dependencies as there are predicates meets one of them twice, at a higher stratum the
  second time (`WalkFindsCycle`). That an accepted program has none follows from `AcceptedIsRespected`,
  as strata do not fall along dependencies and rise along strict ones;
- `RecordedProofsAreTrees: Spec => []ProofsAreWellFounded`;
- `FinishedDatabasesAreModels: Spec => []FinishedIsTheModel`: when evaluation ends without a limit, the
  finished database is a stable model of the program and the program has no other, so the result
  depends neither on the order of clauses nor on that of tuples;
- `EvaluationIsFaithful: Spec => []ExactAgainstModels`: against every stable model, the database, the rows
  of an answer, a reduction and the refusal for too many facts are exact;
- `EvaluationAgreesWithReference: Spec => []EvaluationIsExact`: the same against the model that
  `EvaluationReference` computes. Wherever its search comes to rest it has a stable model (`SearchIsModest`:
  no step goes beyond what a closed set must hold; `SearchFindsModel`), so this is the theorem before at that
  model; that the search does come to rest within `MaxSteps` is `StepsAssumption`, which TLC evaluates.

The invariant `MInv` joins `InEveryModel` (what is in the database is in every model, and what a model
has below the current stratum is in the database), `SupportsHold` (the rule and the solution behind a
fact still hold, although the database has grown), `ProofsAreWellFounded`, `GivenKept`,
`BoundExceeded`, finiteness of the database and `AnswerIsOfDatabase`. `RulesReadTheSame` is the lemma both
halves use: facts of a stratum or above change nothing for what a rule up to this stratum
negates or aggregates. `InEveryModel` passes a stratum boundary by the model's minimality
(`StratumIsComplete`: the model without the facts of that stratum that evaluation lacks would still be
closed); that the finished database is itself minimal needs `SupportsHold` and
`ProofsAreWellFounded` together (`DatabaseIsModel`: among missing facts there is one whose proof uses
none of the missing). The counting lemmas (`FiniteUnion`, `FiniteFunctions`, `FiniteSolutions`) rest on
`SetInduction` over cardinalities.

**`ReviewedChangesProofs`.** For any processes, namespaces, rules, requests, extractions and any notion
of a fault (the parameter `Faults`), with caches, restarts and unlocked loads, and with no bound on
the journal:

- `ChangesAreAtomic: Spec => ImplementsAtomicStore`, a refinement, step by step: an append is the abstract
  step of its entry and every other step a stutter; and `FaithfulStoreIsAtomic: Spec /\ []Faithful =>
  Store!Spec`, its conclusion for whole behaviours;
- `BuildsOnTheFiles: Spec => []CommitsBuildOnTheFiles`, which no run repeats;
- `AppliesTheReviewed: Spec => []AppliedToTheReviewed`;
- `EnforcementHolds: Spec => []NoNewFaults`;
- `AnswersAreTrue: Spec => []AnswersNameTheirEntry`;
- `ReportsAreTrue: Spec => []ReportsShowTheReviewed`.

All but `AnswersAreTrue` say "unless a stamp stood for two programs" (`Faithful`). The inductive invariant
adds what they leave out. `CachesTell`: a remembered program that bears the stamp of a namespace's file, of
the file a rollback would restore, or of none, is that program; all three are needed, for the file changes
to each of them within a commit. `FilesRecorded`: the committed files are what the journal says at every
step of a commit, not only when none is under way; with it the refinement is a matter of what an append does
to the recorded state (`AppendedState`) and to the keys (`AppendedKey`). `Grounded`: what an entry claims of
the state it was evaluated on (violations, baseline, what it removes) is true of the *recorded* state; it is
carried from the evaluation, over the renames, to the append (`WriterGrounded`) and kept afterwards
(`JournalGrounded`), since an append changes no earlier state (`EarlierStatesStay`). The lemma the rest
turns on is `LoadedIsRecorded`: under the lock a load, remembered or not, shows the recorded state.
`IdsAreUnique` includes the entry under way, which a second application of its id must wait for.

For `ClauseSources`, which extends it, of any number of callers and lookups:

- `SnapshotsAreTrue: SourcesSpec => []SnapshotsAreOneMoment`: a locked answer is one moment of the
  recorded store, and the entry it names for a clause is the one since which the store has held it;
- `SourcesAreTrue: SourcesSpec => []SourcesAreOfTheCall`: an answer put together without the lock tells
  of every clause that was stored throughout the call, with that entry, and of none that was not stored
  at any moment of it, provided that no load came amid a commit.

The invariant `SInv` (`SourcesInvariance`) adds to the one above what is known of each load of a call under way
(`LookupsTell`) and of an answer (`AnswerTells`): unless it came amid a commit, a load shows the state that was
recorded when the journal had the length noted with it. It survives later entries because they change no
earlier state. That a lookup without its own lock can be right rests on `HeldClausesHaveASource`: a
clause that is recorded now has a last entry that added it, and nothing has removed it since, so one
reading of the journal suffices for loads of different moments.

**Only model-checked**: the liveness properties `CallsEnd`, `WaitEnds`, `AttemptsAreSettled` and
`Terminates`, since the prover does neither liveness under fairness nor ENABLED; and that the reference
search comes to rest (`StepsAssumption`), which is induction over a computation. Every other property of a
passing run is a theorem; `DryRunChangesNothing`, `FinishedIsClosed`, `CommitsBuildOnTheFiles`,
`CommitsUnderOneLock` and the types of `FileLock` are theorems that no run repeats. The invariants that
strengthen them were checked by TLC on the constants of those runs before they were proved (those of
`ProgramMeaningProofs` on a part of the run's programs).

## 6. Abstractions and limits

- The mutation, namespace and journal locks are one lock in `MutationCommit`. The code nests them in
  one order, and `note` and reservations, which take the journal lock alone, only append entries
  without clauses. `knowledgeSnapshot` keeps just the mutation lock after its recovery; what may
  interleave then are those audit entries.
- The five mutators are one request shape (remove some clauses, add others, under an operation
  name); what each computes its sets from is left out. Pruning (`retractFactIfSourcedBy`) shares one
  operation id among several retracts and never looks it up; it is outside `MutationCommit`.
- File contents are sets of clauses; ordering, comments and digests are left out, and temporary files
  with unique names, which nobody reads back.
- A disk applies operations in order and renames are atomic. The code calls no fsync; a disk that
  reorders after a power loss is not modelled, nor a torn write of a temporary file.
- Closing and unlinking a lock file do not fail, neither at its release (`store.ts:997-1005`) nor after a failed
  write of the owner (`949-953`); an unlink that does fail would leave the file of a living process behind.
- A pid or an inode is never reused, lock paths are no symbolic links, and one process has one store
  object (`heldLocks` re-entrancy is per object).
- A dry-run compaction, like any other, first completes a pending mutation of a dead process; that
  is `MutationCommit`'s business and outside `DryRunChangesNothing`.
- Digests, byte limits and sources inside a checkpoint are not modelled: the digest follows from
  the content.
- In `AutoCapture` the transcript file, the age window and the display of a review, and the
  enforcement that may refuse a prune before it begins are left out; a capture's entries bear the
  time it began, as in the code, so a review's sort by time keeps their order.
- In the engine a predicate key stands for name and arity, compared and reduced values are
  numbers, arithmetic in comparisons is left out, and so are the first-argument index (it selects the
  tuples that `matchArgs` accepts anyway), metrics, alternative proofs and the serialization of
  proofs. The order of a relation is left open: a pass adds heads of its solutions in any order, and
  may or may not see what it adds. A call with `maxRows` below 1 returns nothing and is left out.
- In `ReviewedChanges` a digest is the programs it stands for, the model's extraction is one of a set,
  violations are the parameter `Faults`, a file's size is its number of clauses, and a fact and a rule
  change alike. A direct change has no operation id, so the entry that an explicit operation without effect
  leaves (`store.ts:1971`) is in `MutationCommit` alone. A locked load's stat and read see one file, since
  writers hold the lock. Archives with a validity time, the rule audit and the coverage of checks are left
  out.
- In `ClauseSources` a source is the position of its entry; actor, time and text of the entry follow
  from it. The recovery at the head of `knowledgeSnapshot` is `MutationCommit`'s.
- Hand edits of files are outside the modelled system.

**Not modelled**, and why: the lexer and the printing of clauses (sequential conversions that unit
tests reach); derived views (pure functions of one snapshot); bundles, MCP tools, command line, web
console (validation and formatting around the mutators, each one process of `Procs`); the SQLite
extension in C (planned last); the site and the vendored SQLite build (a demonstration, and
third-party code, together a third of the repository's lines); the evaluation harness (measurement).

## 7. Plan

Done: the commit protocol, the lock file, journal segments, auto-capture, the engine, the cache, reviewed
changes and the sources of clauses, and the proofs of section 5. Left, in this order; each item is a module
with its run, its mutants and, where said, theorems.

1. `UnreadableNamespaces`: loads that throw, for the file two asserts can leave (section 4), and what
   the operations of other namespaces do then.
2. Proofs for the module of item 1.
3. The life stories of facts and temporal sources, over the replay of `ReviewedChanges`.
4. `SemanticCache`: LRU bound, shared directory, bounded concurrency.
5. The LLM client's retries and the recall's widening.
6. Enumeration of alternative proofs, and the SQLite extension's recursion against the same model.
