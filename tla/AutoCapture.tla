----------------------------- MODULE AutoCapture -----------------------------
(***************************************************************************)
(* Auto-capture: background workers that turn the end of a conversation    *)
(* into facts (autocapture/capture.ts, rememberTranscriptText), the        *)
(* entries they leave (reserveAutoCapture, finishAutoCapture and           *)
(* recordAutoCaptureEmergency in store.ts), and the pruning of captured    *)
(* facts (pruneAutoCaptureFacts), beside the user's own changes.           *)
(*                                                                         *)
(* Each section under the journal lock, and each mutation, is one step     *)
(* (FileLock and MutationCommit are the modules that justify it); pruning  *)
(* holds the mutation lock over several steps, and journal entries that    *)
(* need the journal lock alone fall between them.  Abstractions:           *)
(*  - a transcript is its fingerprint, a namespace file its set of facts,  *)
(*    and an operation id the position of its entry in the journal;        *)
(*  - supersede stands for every change under another operation than       *)
(*    assert and retract that adds facts (replace, memory_change);         *)
(*  - a review shows every captured fact, whatever its age, and the model  *)
(*    returns any facts or fails (its call ends by its own timeouts).      *)
(***************************************************************************)
EXTENDS Naturals, Sequences, FiniteSets

CONSTANTS
  Workers,       \* captures: one background process and id per Stop event
  Namespaces,
  Transcripts,   \* fingerprints of transcript tails
  Facts,
  DailyCap,
  MaxDay,        \* bound on calendar days
  MaxChanges,    \* bound on the user's changes
  MaxPrunes,     \* bound on prune calls
  MaxFailures,   \* bound on crashes and failed journal or emergency writes
  None

ASSUME CapAssumption ==
  /\ {DailyCap, MaxDay, MaxChanges, MaxPrunes, MaxFailures} \subseteq Nat
  /\ DailyCap > 0 /\ MaxDay > 0

ASSUME FactsAssumption == IsFiniteSet(Facts)

ASSUME NoneAssumption ==
  /\ None \notin Workers \cup Namespaces \cup Transcripts
  /\ None \notin {"started", "captured", "empty", "failed", "skipped"}

VARIABLES
  stored,    \* [Namespaces -> SUBSET Facts]: the .dl files
  journal,   \* the journal's entries
  errors,    \* capture-errors.log: the captures it calls failed
  today,     \* the calendar day
  pc,        \* what each worker does next
  job,       \* its Stop event: record [ns, fp, day]
  found,     \* the facts the model returned
  got,       \* ... and those of them that its assert added
  pruning,   \* the prune call under way: record [ns, todo, more, removed]
  failures, changes, prunes

vars == <<stored, journal, errors, today, pc, job, found, got, pruning,
          failures, changes, prunes>>

-----------------------------------------------------------------------------
(* The journal                                                             *)

Statuses == {"started", "captured", "empty", "failed", "skipped"}

Operations == {"auto_capture", "assert", "retract", "supersede",
               "auto_capture_pruned"}

Entries == [op : Operations, ns : Namespaces, cap : Workers \cup {None},
            status : Statuses \cup {None}, fp : Transcripts \cup {None},
            day : 0..MaxDay, count : Nat,
            added : SUBSET Facts, removed : SUBSET Facts]

Jobs == [ns : Namespaces, fp : Transcripts, day : 1..MaxDay]

\* An entry about namespace n, by capture c or None, with empty details.
Entry(op, n, c) ==
  [op |-> op, ns |-> n, cap |-> c, status |-> None, fp |-> None,
   day |-> today, count |-> 0, added |-> {}, removed |-> {}]

\* What capture w notes about itself, dated when it began.
Status(w, status) ==
  [Entry("auto_capture", job[w].ns, w) EXCEPT !.status = status,
                                              !.day = job[w].day]

Started(n) == {i \in DOMAIN journal :
                 journal[i].status = "started" /\ journal[i].ns = n}

\* The assert that prune takes for the source of fact f of namespace n.
LatestAssert(n, f) ==
  LET sources == {i \in DOMAIN journal : /\ journal[i].op = "assert"
                                         /\ journal[i].ns = n
                                         /\ f \in journal[i].added}
  IN  {i \in sources : \A j \in sources : j <= i}

\* What a review lists: a fact and the entry by which a capture added it.
Captured == {s \in [at : DOMAIN journal, fact : Facts] :
               /\ journal[s.at].op = "assert"
               /\ journal[s.at].cap # None
               /\ s.fact \in journal[s.at].added}

Goto(w, label) == pc' = [pc EXCEPT ![w] = label]

UserKept   == UNCHANGED <<today, pruning, changes, prunes>>
WorkerKept == UNCHANGED <<errors, pc, job, found, got>>

-----------------------------------------------------------------------------
Init ==
  /\ stored = [n \in Namespaces |-> {}]
  /\ journal = <<>>
  /\ errors = {}
  /\ today = 1
  /\ pc = [w \in Workers |-> "idle"]
  /\ job = [w \in Workers |-> None]
  /\ found = [w \in Workers |-> {}]
  /\ got = [w \in Workers |-> {}]
  /\ pruning = None
  /\ failures = 0 /\ changes = 0 /\ prunes = 0

NextDay ==
  /\ today < MaxDay
  /\ today' = today + 1
  /\ UNCHANGED <<stored, journal, pruning, failures, changes, prunes>>
  /\ WorkerKept

-----------------------------------------------------------------------------
(* A worker: autoCaptureClaudeStop                                         *)

\* A Stop event starts a worker, which reads the tail of the transcript; an
\* unreadable one, or one without user text, is only to be noted as skipped.
Stop(w, n, t) ==
  /\ pc[w] = "idle"
  /\ job' = [job EXCEPT ![w] = [ns |-> n, fp |-> t, day |-> today]]
  /\ \/ Goto(w, "reserve") \/ Goto(w, "skip")
  /\ UNCHANGED <<stored, journal, errors, found, got, failures>>
  /\ UserKept

Skip(w) ==
  /\ pc[w] = "skip"
  /\ journal' = Append(journal, Status(w, "skipped"))
  /\ Goto(w, "ended")
  /\ UNCHANGED <<stored, errors, job, found, got, failures>>
  /\ UserKept

\* Mutation of Duplicate: an attempt that did not succeed does not count.
DuplicateOfCaptured(w) ==
  \E i \in Started(job[w].ns) :
     /\ journal[i].fp = job[w].fp
     /\ \E k \in DOMAIN journal : /\ journal[k].cap = journal[i].cap
                                  /\ journal[k].status = "captured"

Duplicate(w) == \E i \in Started(job[w].ns) : journal[i].fp = job[w].fp

\* Mutation of OverCap: the day of the reservation, not that of the attempt.
OverCapOfToday(w) ==
  Cardinality({i \in Started(job[w].ns) : journal[i].day = today}) >= DailyCap

OverCap(w) ==
  Cardinality({i \in Started(job[w].ns) : journal[i].day = job[w].day})
    >= DailyCap

\* reserveAutoCapture: the attempt is in the journal before the model is
\* asked, unless the same transcript or too many others are already there.
Reserve(w) ==
  /\ pc[w] = "reserve"
  /\ IF Duplicate(w) \/ OverCap(w)
     THEN /\ journal' = Append(journal, [Status(w, "skipped") EXCEPT
                                           !.fp = job[w].fp])
          /\ Goto(w, "ended")
     ELSE /\ journal' = Append(journal, [Status(w, "started") EXCEPT
                                           !.fp = job[w].fp])
          /\ Goto(w, "extract")
  /\ UNCHANGED <<stored, errors, job, found, got, failures>>
  /\ UserKept

\* The model returns facts, or nothing worth remembering.
Extract(w) ==
  /\ pc[w] = "extract"
  /\ found' \in {[found EXCEPT ![w] = F] : F \in SUBSET Facts}
  /\ Goto(w, IF found'[w] = {} THEN "finish" ELSE "assert")
  /\ UNCHANGED <<stored, journal, errors, job, got, failures>>
  /\ UserKept

\* Mutation of ExtractFails: the error is not caught.
ExtractFailsUncaught(w) ==
  /\ pc[w] = "extract"
  /\ Goto(w, "ended")
  /\ UNCHANGED <<stored, journal, errors, job, found, got, failures>>
  /\ UserKept

\* The call fails, or two answers in a row are not additive ground facts.
ExtractFails(w) ==
  /\ pc[w] = "extract"
  /\ Goto(w, "fail")
  /\ UNCHANGED <<stored, journal, errors, job, found, got, failures>>
  /\ UserKept

\* The assert commits under its own operation id, also when every fact was
\* known; a late error of the commit reaches the worker all the same.
AssertFacts(w) ==
  /\ pc[w] = "assert"
  /\ pruning = None
  /\ LET n == job[w].ns
         new == found[w] \ stored[n]
     IN  /\ stored' = [stored EXCEPT ![n] = @ \cup new]
         /\ journal' = Append(journal, [Entry("assert", n, w) EXCEPT
                                          !.day = job[w].day, !.added = new])
         /\ got' = [got EXCEPT ![w] = new]
         /\ \/ Goto(w, "finish")
            \/ new # {} /\ Goto(w, "fail")
  /\ UNCHANGED <<errors, job, found, failures>>
  /\ UserKept

\* Enforcement refuses the facts, or the lock or the journal is unavailable.
AssertFails(w) ==
  /\ pc[w] = "assert"
  /\ Goto(w, "fail")
  /\ UNCHANGED <<stored, journal, errors, job, found, got, failures>>
  /\ UserKept

\* Mutation of Outcome: a capture of known facts only counts as empty.
OutcomeByNewFacts(w) == IF got[w] = {} THEN "empty" ELSE "captured"

Outcome(w) == IF found[w] = {} THEN "empty" ELSE "captured"

\* finishAutoCapture with the outcome, and from the catch with "failed".
Finish(w) ==
  /\ pc[w] = "finish"
  /\ journal' = Append(journal, [Status(w, Outcome(w)) EXCEPT
                                   !.count = Cardinality(got[w])])
  /\ Goto(w, "ended")
  /\ UNCHANGED <<stored, errors, job, found, got, failures>>
  /\ UserKept

Fail(w) ==
  /\ pc[w] = "fail"
  /\ journal' = Append(journal, Status(w, "failed"))
  /\ Goto(w, "ended")
  /\ UNCHANGED <<stored, errors, job, found, got, failures>>
  /\ UserKept

\* The journal is locked, full or unreadable: the worker turns to the other
\* log, and then, if it had an outcome to note, to noting a failure.
JournalDown(w) ==
  /\ failures < MaxFailures
  /\ failures' = failures + 1
  /\ \/ pc[w] \in {"skip", "reserve", "fail"} /\ Goto(w, "emergency")
     \/ pc[w] = "finish" /\ Goto(w, "emergencyThenFail")
  /\ UNCHANGED <<stored, journal, errors, job, found, got>>
  /\ UserKept

\* Mutation of Emergency: the entry does not say whose failure it is.
EmergencyAnonymous(w) ==
  /\ errors' = errors \cup {None}
  /\ \/ pc[w] = "emergency" /\ Goto(w, "ended")
     \/ pc[w] = "emergencyThenFail" /\ Goto(w, "fail")
  /\ UNCHANGED <<stored, journal, job, found, got, failures>>
  /\ UserKept

Emergency(w) ==
  /\ errors' = errors \cup {w}
  /\ \/ pc[w] = "emergency" /\ Goto(w, "ended")
     \/ pc[w] = "emergencyThenFail" /\ Goto(w, "fail")
  /\ UNCHANGED <<stored, journal, job, found, got, failures>>
  /\ UserKept

\* The other log fails too: the error is swallowed.
EmergencyLost(w) ==
  /\ failures < MaxFailures
  /\ failures' = failures + 1
  /\ \/ pc[w] = "emergency" /\ Goto(w, "lost")
     \/ pc[w] = "emergencyThenFail" /\ Goto(w, "fail")
  /\ UNCHANGED <<stored, journal, errors, job, found, got>>
  /\ UserKept

\* The session is torn down with its hook.
Die(w) ==
  /\ failures < MaxFailures
  /\ failures' = failures + 1
  /\ pc[w] \notin {"idle", "ended", "lost", "dead"}
  /\ Goto(w, "dead")
  /\ UNCHANGED <<stored, journal, errors, job, found, got>>
  /\ UserKept

-----------------------------------------------------------------------------
(* The user's own changes, each one a mutation                             *)

Change(op, n, removed, added) ==
  /\ pruning = None
  /\ changes < MaxChanges
  /\ changes' = changes + 1
  /\ removed \subseteq stored[n] /\ added \cap stored[n] = {}
  /\ stored' = [stored EXCEPT ![n] = (@ \ removed) \cup added]
  /\ journal' = Append(journal, [Entry(op, n, None) EXCEPT
                                   !.removed = removed, !.added = added])
  /\ UNCHANGED <<today, pruning, failures, prunes>>
  /\ WorkerKept

ManualAssert(n, f) == Change("assert", n, {}, {f})
Retract(n, f)      == Change("retract", n, {f}, {})
Supersede(n, F, f) == Change("supersede", n, F, {f})

-----------------------------------------------------------------------------
(* pruneAutoCaptureFacts                                                   *)

In(n, S) == {s \in S : journal[s.at].ns = n}

\* The selected facts are looked up in the journal and grouped by namespace.
Prune(S) ==
  /\ pruning = None
  /\ prunes < MaxPrunes
  /\ prunes' = prunes + 1
  /\ S # {}
  /\ \E n \in Namespaces :
       /\ In(n, S) # {}
       /\ pruning' = [ns |-> n, todo |-> In(n, S), more |-> S \ In(n, S),
                      removed |-> 0]
  /\ UNCHANGED <<stored, journal, today, failures, changes>>
  /\ WorkerKept

\* Mutation of Prunable: any live fact that was selected goes.
PrunableIfLive(s) == s.fact \in stored[pruning.ns]

\* The fact is live and no later assert added it again.
Prunable(s) ==
  /\ s.fact \in stored[pruning.ns]
  /\ s.at \in LatestAssert(pruning.ns, s.fact)

\* Mutation of PruneOne: the file changes and the journal does not.
PruneOneUnjournaled(s) ==
  /\ s \in pruning.todo
  /\ IF Prunable(s)
     THEN /\ stored' = [stored EXCEPT ![pruning.ns] = @ \ {s.fact}]
          /\ pruning' = [pruning EXCEPT !.todo = @ \ {s},
                                        !.removed = @ + 1]
     ELSE /\ pruning' = [pruning EXCEPT !.todo = @ \ {s}]
          /\ UNCHANGED stored
  /\ UNCHANGED <<journal, today, failures, changes, prunes>>
  /\ WorkerKept

\* retractFactIfSourcedBy, for one selected fact after the other.
PruneOne(s) ==
  /\ s \in pruning.todo
  /\ IF Prunable(s)
     THEN /\ stored' = [stored EXCEPT ![pruning.ns] = @ \ {s.fact}]
          /\ journal' = Append(journal,
               [Entry("retract", pruning.ns, journal[s.at].cap) EXCEPT
                  !.removed = {s.fact}])
          /\ pruning' = [pruning EXCEPT !.todo = @ \ {s},
                                        !.removed = @ + 1]
     ELSE /\ pruning' = [pruning EXCEPT !.todo = @ \ {s}]
          /\ UNCHANGED <<stored, journal>>
  /\ UNCHANGED <<today, failures, changes, prunes>>
  /\ WorkerKept

\* The namespace is done: its audit entry, then the next namespace.
PruneNote ==
  /\ pruning.todo = {}
  /\ journal' = Append(journal, [Entry("auto_capture_pruned", pruning.ns, None)
                                   EXCEPT !.count = pruning.removed])
  /\ \/ pruning.more = {} /\ pruning' = None
     \/ \E n \in Namespaces :
          /\ In(n, pruning.more) # {}
          /\ pruning' = [ns |-> n, todo |-> In(n, pruning.more),
                         more |-> pruning.more \ In(n, pruning.more),
                         removed |-> 0]
  /\ UNCHANGED <<stored, today, failures, changes, prunes>>
  /\ WorkerKept

\* A retraction or the audit entry fails, or the process dies: what was done
\* stays, and the mutation lock is free again.
PruneFails ==
  /\ failures < MaxFailures
  /\ failures' = failures + 1
  /\ pruning' = None
  /\ UNCHANGED <<stored, journal, today, changes, prunes>>
  /\ WorkerKept

PruneGoesOn ==
  /\ pruning # None
  /\ (\E s \in pruning.todo : PruneOne(s)) \/ PruneNote \/ PruneFails

-----------------------------------------------------------------------------
Work(w) ==
  \/ Skip(w) \/ Reserve(w) \/ Extract(w) \/ ExtractFails(w)
  \/ AssertFacts(w) \/ AssertFails(w) \/ Finish(w) \/ Fail(w)
  \/ JournalDown(w) \/ Emergency(w) \/ EmergencyLost(w)

User ==
  \/ \E n \in Namespaces, f \in Facts :
       \/ ManualAssert(n, f) \/ Retract(n, f)
       \/ \E F \in SUBSET (Facts \ {f}) : Supersede(n, F, f)
  \/ \E S \in SUBSET Captured : Prune(S)

Next ==
  \/ NextDay
  \/ \E w \in Workers : \/ \E n \in Namespaces, t \in Transcripts : Stop(w, n, t)
                        \/ Work(w)
                        \/ Die(w)
  \/ User
  \/ PruneGoesOn

Spec == Init /\ [][Next]_vars

\* A worker and a prune call keep going: nothing in them waits for ever.
FairSpec == Spec /\ WF_vars(PruneGoesOn) /\ \A w \in Workers : WF_vars(Work(w))

-----------------------------------------------------------------------------
(* Properties                                                              *)

Labels == {"idle", "skip", "reserve", "extract", "assert", "finish", "fail",
           "emergency", "emergencyThenFail", "ended", "lost", "dead"}

\* Every variable holds a value of its kind, a worker adds facts that it was
\* given, and the other log names captures.
TypeOK ==
  /\ stored \in [Namespaces -> SUBSET Facts]
  /\ journal \in Seq(Entries)
  /\ errors \subseteq Workers
  /\ today \in 1..MaxDay
  /\ pc \in [Workers -> Labels]
  /\ job \in [Workers -> {None} \cup Jobs]
  /\ found \in [Workers -> SUBSET Facts]
  /\ got \in [Workers -> SUBSET Facts]
  /\ \A w \in Workers : /\ pc[w] # "idle" => job[w] \in Jobs
                       /\ got[w] \subseteq found[w]
  /\ pruning = None \/ pruning \in [ns : Namespaces, todo : SUBSET Captured,
                                    more : SUBSET Captured, removed : Nat]
  /\ {failures, changes, prunes} \subseteq Nat

\* A transcript is sent to the model at most once, whatever Stop events are
\* delivered twice, die half-way or fail: no two attempts on one namespace
\* carry the same fingerprint (the duplicate lookup of reserveAutoCapture).
OneAttemptPerTranscript ==
  \A i, j \in DOMAIN journal :
    (/\ journal[i].status = "started" /\ journal[j].status = "started"
     /\ journal[i].ns = journal[j].ns
     /\ journal[i].fp = journal[j].fp) => i = j

\* Attempts that race, also over midnight, never exceed the cap of the day
\* they began on (the daily cap of reserveAutoCapture).
WithinDailyCap ==
  \A n \in Namespaces, d \in 1..MaxDay :
    Cardinality({i \in Started(n) : journal[i].day = d}) <= DailyCap

\* What a review says of a capture: the other log's failure, else its last
\* status in the journal (all entries of a capture bear its own time).
Reviewed(w) ==
  LET noted == {i \in DOMAIN journal : journal[i].op = "auto_capture"
                                       /\ journal[i].cap = w}
  IN  IF w \in errors THEN "failed"
      ELSE IF noted = {} THEN None
      ELSE journal[CHOOSE i \in noted : \A j \in noted : j <= i].status

\* A review does not lie about a capture: captured means that its assert is
\* in the journal with as many new facts as it says, empty and skipped that
\* it has asserted nothing (the statuses of autoCaptureClaudeStop).
StatusesAreTrue ==
  \A w \in Workers :
    LET asserts == {i \in DOMAIN journal : journal[i].op = "assert"
                                           /\ journal[i].cap = w}
        counted == {i \in DOMAIN journal : journal[i].status = "captured"
                                           /\ journal[i].cap = w}
    IN  /\ Reviewed(w) = "captured" =>
             \E i \in counted, j \in asserts :
               j < i /\ journal[i].count = Cardinality(journal[j].added)
        /\ Reviewed(w) \in {"empty", "skipped"} => asserts = {}

\* The live facts are what the journal's additions and removals amount to,
\* those of pruning included, with a prune call half done or interrupted.
StoreReplaysJournal ==
  \A n \in Namespaces :
    stored[n] =
      {f \in Facts :
         \E i \in DOMAIN journal :
           /\ journal[i].ns = n /\ f \in journal[i].added
           /\ \A j \in DOMAIN journal :
                (j > i /\ journal[j].ns = n) => f \notin journal[j].removed}

\* The entry of a selection is the last one of the given operations that
\* added its fact.
LastAdded(s, n, operations) ==
  \A i \in DOMAIN journal :
    (/\ i > s.at /\ journal[i].ns = n
     /\ journal[i].op \in operations) => s.fact \notin journal[i].added

PruneTakes(operations) ==
  \A n \in Namespaces :
    \A f \in stored[n] \ stored'[n] :
      pruning.ns = n /\ \E s \in pruning.todo :
        s.fact = f /\ LastAdded(s, n, operations)

\* From its selection to its end a prune call removes only facts that were
\* selected, that the capture itself had added, and that no assert has added
\* again since (retractFactIfSourcedBy).
PruneSparesReasserted == [][pruning # None => PruneTakes({"assert"})]_vars

\* "a later manual remove/re-add is never pruned through the older capture"
\* (docs/AUTO-CAPTURE.md): whatever operation added the fact again.
PruneSparesReadded ==
  [][pruning # None => PruneTakes({"assert", "supersede"})]_vars

\* An attempt does not disappear: it gets a final status in the review, or
\* its worker died, or neither log could be written (the catch clauses of
\* autoCaptureClaudeStop).
AttemptsAreSettled ==
  \A w \in Workers :
    pc[w] = "extract" ~>
      \/ Reviewed(w) \in {"captured", "empty", "failed"}
      \/ pc[w] \in {"lost", "dead"}

=============================================================================
