------------------------- MODULE JournalCheckpoints -------------------------
(***************************************************************************)
(* Rotation of the journal into immutable segments with checkpoints: what  *)
(* compactJournal and listJournalCheckpoints of MemoryStore (store.ts) do  *)
(* to journal.log, .journal-segments and .journal-checkpoints, one step    *)
(* per file that changes, with crashes, I/O errors and retries between.    *)
(*                                                                         *)
(* compactJournal holds the mutation and the journal lock to its end, so   *)
(* writers wait and one compaction is under way at a time (FileLock).      *)
(* Abstractions:                                                           *)
(*  - an entry adds or removes one clause of a namespace or, as "audit",   *)
(*    changes none (remember, auto_capture, a repeated no-op);             *)
(*  - a segment is named by its range, its digest being right whenever     *)
(*    its entries are, and a checkpoint by the end of that range;          *)
(*  - a .dl file says what the journal says (MutationCommit), so only the  *)
(*    set of files matters; the sources kept beside the clauses are left   *)
(*    out, being read from the same entries;                               *)
(*  - temporary files are left out: publishing is the atomic rename.       *)
(***************************************************************************)
EXTENDS Naturals, Sequences, FiniteSets

CONSTANTS
  Namespaces,    \* names of .dl files
  Born,          \* the files the store starts with
  Clauses,       \* clauses an entry may add or remove
  Requests,      \* compaction requests, records [opId, at]
  MaxSegments,   \* MAX_JOURNAL_SEGMENTS
  MaxActive,     \* MAX_JOURNAL_ENTRIES
  MaxTotal,      \* MAX_TOTAL_JOURNAL_ENTRIES
  MaxWrites,     \* bound on entries ever written
  MaxCalls,      \* bound on compactions and listings
  MaxFailures,   \* bound on crashes and I/O errors
  None,          \* no operation id, no timestamp, no request
  Recovered      \* the recovered-<digest> operation id of a repair

ASSUME LimitsAssumption ==
  /\ {MaxSegments, MaxActive, MaxTotal, MaxWrites, MaxCalls, MaxFailures}
       \subseteq Nat
  /\ Born \subseteq Namespaces

ASSUME RequestsAssumption ==
  \A r \in Requests : /\ DOMAIN r = {"opId", "at"}
                      /\ r.opId # Recovered
                      /\ r # None

VARIABLES
  files,         \* the namespaces that have a .dl file
  active,        \* the entries of journal.log
  segments,      \* the segments in order: records [first, last, entries]
                 \* and, as history, the opId their rotation was asked under
  checkpoints,   \* end of a segment -> its checkpoint [opId, at, state]
  pc,            \* what the compaction under way does next
  req,           \* its request, or the last one
  dry,           \* ... and whether it was a dry run
  artifact,      \* the checkpoint it is about to publish
  answer,        \* what the last call returned or threw
  calls, failures

disk == <<files, active, segments, checkpoints>>
vars == <<disk, pc, req, dry, artifact, answer, calls, failures>>

Entry == [ns : Namespaces, op : {"add", "remove"}, clause : Clauses]
           \cup [ns : Namespaces, op : {"audit"}]
Answers == {"none", "rotated", "prior", "nothing", "preview", "listed",
            "conflict", "full", "refused", "failed"}
-----------------------------------------------------------------------------
(***************************************************************************)
(* Reading                                                                 *)
(***************************************************************************)
\* The entries of the first k segments.
Before[k \in Nat] == IF k = 0 THEN <<>>
                     ELSE Before[k - 1] \o segments[k].entries

\* The logical journal: the segment chain, then the active tail.
Journal == Before[Len(segments)] \o active

\* The sequence number that ends the chain.
ChainEnd == IF segments = <<>> THEN 0 ELSE segments[Len(segments)].last

\* What replaying the first n entries of journal j says namespace ns holds.
Replay(j, n, ns) ==
  {c \in Clauses :
     \E i \in 1..n :
        /\ j[i] = [ns |-> ns, op |-> "add", clause |-> c]
        /\ \A k \in (i + 1)..n :
              j[k] # [ns |-> ns, op |-> "remove", clause |-> c]}

\* The state of every namespace listed now, as of sequence number n.
StateAt(n) == [ns \in files |-> Replay(Journal, n, ns)]

\* A replay reads the whole journal, and refuses one that is too long; with no
\* namespace to replay nothing is read.
Readable == files = {} \/ Len(Journal) <= MaxTotal

HasSegment(n) == \E k \in 1..Len(segments) : segments[k].last = n

Unpublished == {k \in 1..Len(segments) :
                  segments[k].last \notin DOMAIN checkpoints}

\* Every segment starts where the one before it ended and holds as many
\* entries as its name says.
Contiguous ==
  \A k \in 1..Len(segments) :
     /\ segments[k].first = IF k = 1 THEN 1 ELSE segments[k - 1].last + 1
     /\ Len(segments[k].entries) = segments[k].last - segments[k].first + 1

\* Each checkpoint has its segment and equals what replaying to its end gives.
Replays == \A n \in DOMAIN checkpoints :
              HasSegment(n) /\ checkpoints[n].state = StateAt(n)

Accepted ==
  /\ Contiguous /\ Len(segments) <= MaxSegments
  /\ checkpoints # << >> => Readable
  /\ Replays
-----------------------------------------------------------------------------
Init ==
  /\ files = Born
  /\ active = <<>> /\ segments = <<>> /\ checkpoints = << >>
  /\ pc = "idle" /\ req = None /\ dry = FALSE /\ artifact = None
  /\ answer = "none"
  /\ calls = 0 /\ failures = 0

\* Mutation of Answer: the computed checkpoint is not dropped.
AnswerOnly(a) == pc' = "idle" /\ answer' = a /\ UNCHANGED artifact
Answer(a) == pc' = "idle" /\ answer' = a /\ artifact' = None
KeepJob == UNCHANGED <<req, dry, calls, failures>>

\* A committed mutation or an audit event appends its entry; the first clause
\* of a namespace creates the file.  Only the active journal is bounded.
Write ==
  /\ pc = "idle"
  /\ Len(Journal) < MaxWrites /\ Len(active) < MaxActive
  /\ \E e \in Entry :
       /\ e.op = "add" => e.clause \notin Replay(Journal, Len(Journal), e.ns)
       /\ e.op = "remove" => e.clause \in Replay(Journal, Len(Journal), e.ns)
       /\ active' = Append(active, e)
       /\ files' = IF e.op = "add" THEN files \cup {e.ns} ELSE files
  /\ UNCHANGED <<segments, checkpoints, pc, artifact, answer>> /\ KeepJob

\* listJournalCheckpoints: the artifacts, once verified.
List ==
  /\ pc = "idle" /\ calls < MaxCalls
  /\ calls' = calls + 1
  /\ answer' = IF Accepted THEN "listed" ELSE "refused"
  /\ UNCHANGED <<disk, pc, req, dry, artifact, failures>>

\* compactJournal verifies every artifact before it changes one.
Compact(r, preview) ==
  /\ pc = "idle" /\ calls < MaxCalls
  /\ calls' = calls + 1
  /\ req' = r /\ dry' = preview
  /\ IF Accepted THEN pc' = "repair" /\ answer' = "none" /\ artifact' = None
                 ELSE Answer("refused")
  /\ UNCHANGED <<disk, failures>>

\* Mutation of Repair: the state of now under the boundary of then.
RepairWithTodaysState ==
  /\ pc = "repair" /\ ~dry /\ Readable
  /\ \E k \in Unpublished :
       /\ \A j \in Unpublished : k <= j
       /\ checkpoints' =
            [n \in DOMAIN checkpoints \cup {segments[k].last} |->
               IF n \in DOMAIN checkpoints THEN checkpoints[n]
               ELSE [opId |-> Recovered, at |-> None,
                     state |-> StateAt(Len(Journal))]]
  /\ UNCHANGED <<files, active, segments, pc, artifact, answer>> /\ KeepJob

\* The first segment without a checkpoint gets one under the recovered id.
Repair ==
  /\ pc = "repair" /\ ~dry /\ Readable
  /\ \E k \in Unpublished :
       /\ \A j \in Unpublished : k <= j
       /\ checkpoints' =
            [n \in DOMAIN checkpoints \cup {segments[k].last} |->
               IF n \in DOMAIN checkpoints THEN checkpoints[n]
               ELSE [opId |-> Recovered, at |-> None, state |-> StateAt(n)]]
  /\ UNCHANGED <<files, active, segments, pc, artifact, answer>> /\ KeepJob

\* The history is too long for the checkpoint to be computed: for a missing
\* one of an earlier rotation, or for the rotation asked for.
TooLong ==
  /\ pc = "repair" /\ ~Readable
  /\ Unpublished # {} \/ (active # <<>> /\ Len(segments) < MaxSegments)
  /\ Answer("refused")
  /\ UNCHANGED disk /\ KeepJob

\* Mutation of Settled: one missing checkpoint may be left out.
SettledAfterOne == pc = "repair" /\ (dry \/ Cardinality(Unpublished) < 2)

\* Nothing is left to repair; a dry run only computes what it would repair.
Settled == pc = "repair" /\ (dry \/ Unpublished = {})

\* Mutation of Prior: the operation id is not looked up.
NotLookedUp == {}

\* The checkpoints that already carry the caller's operation id.
Prior == {n \in DOMAIN checkpoints :
            req.opId # None /\ checkpoints[n].opId = req.opId}

\* The operation ran before: its checkpoint is the answer, unless the
\* timestamp given differs.
Repeat ==
  /\ Settled
  /\ \E n \in Prior :
       Answer(IF checkpoints[n].at = req.at THEN "prior" ELSE "conflict")
  /\ UNCHANGED disk /\ KeepJob

NothingToRotate ==
  /\ Settled /\ Prior = {} /\ active = <<>>
  /\ Answer("nothing")
  /\ UNCHANGED disk /\ KeepJob

TooManySegments ==
  /\ Settled /\ Prior = {} /\ active # <<>>
  /\ Len(segments) >= MaxSegments
  /\ Answer("full")
  /\ UNCHANGED disk /\ KeepJob

Rotatable == /\ Settled /\ Prior = {} /\ active # <<>>
             /\ Len(segments) < MaxSegments /\ Readable

\* The checkpoint of a rotation that ends the chain at n.
CheckpointAt(n) == [opId |-> req.opId, at |-> req.at, state |-> StateAt(n)]

Preview ==
  /\ Rotatable /\ dry
  /\ Answer("preview")
  /\ UNCHANGED disk /\ KeepJob

\* Mutation of Rotate: journal.log is copied and not moved.
RotateCopy ==
  /\ Rotatable /\ ~dry
  /\ segments' = Append(segments, [first |-> ChainEnd + 1,
                                   last |-> ChainEnd + Len(active),
                                   entries |-> active, opId |-> req.opId])
  /\ artifact' = CheckpointAt(ChainEnd + Len(active))
  /\ pc' = "publish"
  /\ UNCHANGED <<files, active, checkpoints, answer>> /\ KeepJob

\* Mutation of Rotate: the new range starts at the end of the last one.
RotateFromChainEnd ==
  /\ Rotatable /\ ~dry
  /\ segments' = Append(segments, [first |-> ChainEnd,
                                   last |-> ChainEnd + Len(active) - 1,
                                   entries |-> active, opId |-> req.opId])
  /\ active' = <<>>
  /\ artifact' = CheckpointAt(ChainEnd + Len(active) - 1)
  /\ pc' = "publish"
  /\ UNCHANGED <<files, checkpoints, answer>> /\ KeepJob

\* journal.log becomes the next segment by one rename.
Rotate ==
  /\ Rotatable /\ ~dry
  /\ segments' = Append(segments, [first |-> ChainEnd + 1,
                                   last |-> ChainEnd + Len(active),
                                   entries |-> active, opId |-> req.opId])
  /\ active' = <<>>
  /\ artifact' = CheckpointAt(ChainEnd + Len(active))
  /\ pc' = "publish"
  /\ UNCHANGED <<files, checkpoints, answer>> /\ KeepJob

\* The checkpoint computed before the rename is published.
Publish ==
  /\ pc = "publish"
  /\ checkpoints' = [n \in DOMAIN checkpoints \cup {ChainEnd} |->
                       IF n = ChainEnd THEN artifact ELSE checkpoints[n]]
  /\ Answer("rotated")
  /\ UNCHANGED <<files, active, segments>> /\ KeepJob

\* A write or a rename fails: the call throws and what was done stays.
Fail ==
  /\ failures < MaxFailures
  /\ \/ pc = "publish"
     \/ pc = "repair" /\ ~dry /\ Unpublished # {}
     \/ Rotatable /\ ~dry
  /\ failures' = failures + 1
  /\ Answer("failed")
  /\ UNCHANGED <<disk, req, dry, calls>>

\* The process dies; the lock it held is broken later, and the next caller
\* finds the files as they are.
Crash ==
  /\ failures < MaxFailures /\ pc # "idle"
  /\ failures' = failures + 1
  /\ Answer("none")
  /\ UNCHANGED <<disk, req, dry, calls>>

Next ==
  \/ Write \/ List
  \/ \E r \in Requests, preview \in BOOLEAN : Compact(r, preview)
  \/ Repair \/ TooLong \/ Repeat \/ NothingToRotate \/ TooManySegments
  \/ Preview \/ Rotate \/ Publish \/ Fail \/ Crash

Spec == Init /\ [][Next]_vars
-----------------------------------------------------------------------------
(***************************************************************************)
(* Properties                                                              *)
(***************************************************************************)
Checkpoint == [opId : {r.opId : r \in Requests} \cup {Recovered},
               at : {r.at : r \in Requests} \cup {None},
               state : UNION {[S -> SUBSET Clauses] : S \in SUBSET Namespaces}]

\* Every variable holds a value of its kind, and a compaction has computed a
\* checkpoint exactly while it is between the rename and the publication.
TypeOK ==
  /\ files \in SUBSET Namespaces
  /\ active \in Seq(Entry)
  /\ segments \in Seq([first : Nat, last : Nat, entries : Seq(Entry),
                        opId : {r.opId : r \in Requests}])
  /\ DOMAIN checkpoints \subseteq Nat
  /\ \A n \in DOMAIN checkpoints : checkpoints[n] \in Checkpoint
  /\ pc \in {"idle", "repair", "publish"}
  /\ req \in {None} \cup Requests
  /\ dry \in BOOLEAN
  /\ IF pc = "publish" THEN artifact \in Checkpoint /\ ~dry
                       ELSE artifact = None
  /\ answer \in Answers
  /\ calls \in 0..MaxCalls /\ failures \in 0..MaxFailures

\* Whatever is rotated, repaired, interrupted or retried, a recorded sequence
\* number keeps its entry for ever and a step records one entry at most
\* (compactJournal's rename, readJournalUnlocked).
SequencesKeepTheirMeaning ==
  [][/\ Len(Journal') \in {Len(Journal), Len(Journal) + 1}
     /\ SubSeq(Journal', 1, Len(Journal)) = Journal]_vars

\* The readers never find a broken chain, an entry count that contradicts a
\* name or a checkpoint whose segment is not there (journalSegmentsUnlocked,
\* first half of assertCheckpointReplayUnlocked), at any point where a crash
\* may leave the directories.
ArtifactsAgree ==
  /\ Contiguous
  /\ \A n \in DOMAIN checkpoints : HasSegment(n)

\* A checkpoint says of every namespace it lists exactly what the journal says
\* of it at its sequence number, also when a repair computed it long after
\* the rotation it belongs to (checkpointArtifact).
CheckpointsTellTheTruth ==
  \A n \in DOMAIN checkpoints :
     \A ns \in DOMAIN checkpoints[n].state :
        checkpoints[n].state[ns] = Replay(Journal, n, ns)

\* A compaction that returns normally leaves no segment without a checkpoint,
\* whatever earlier compactions were interrupted (the repair loop).
ReturnsRepaired ==
  /\ pc = "idle" /\ ~dry
  /\ answer \in {"rotated", "prior", "nothing"}
  => Unpublished = {}

\* An operation rotates the journal twice only when its first rotation was
\* interrupted before its checkpoint was published and then repaired, under
\* a recovered id that no later lookup connects with the operation (the prior
\* lookup and the repair loop of compactJournal).
OperationRotatesOnce ==
  \A j, k \in 1..Len(segments) :
     j < k /\ segments[j].opId = segments[k].opId /\ segments[j].opId # None
     => /\ segments[j].last \in DOMAIN checkpoints
        /\ checkpoints[segments[j].last].opId = Recovered

\* "A caller-supplied operation ID makes rotation retry-safe"
\* (docs/JOURNAL-CHECKPOINTS.md): whatever interrupted it, an operation and
\* its retries rotate the journal once.
RetriesRotateOnce ==
  \A j, k \in 1..Len(segments) :
     segments[j].opId = segments[k].opId /\ segments[j].opId # None => j = k

\* From its call to its return a dry run changes no file.
DryRunChangesNothing == [][pc # "idle" /\ dry => UNCHANGED disk]_vars

\* "checkpoint state that differs from deterministic replay" is rejected
\* (docs/JOURNAL-CHECKPOINTS.md): a checkpoint the store published itself must
\* therefore always agree with replay (assertCheckpointReplayUnlocked).
PublishedCheckpointsReplay == Replays
=============================================================================
