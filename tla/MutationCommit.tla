--------------------------- MODULE MutationCommit ---------------------------
(***************************************************************************)
(* The crash-recoverable commit protocol of MemoryStore (store.ts): how a  *)
(* mutator checks for an earlier run of the same operation, computes a     *)
(* candidate, and replaces a namespace file and appends its journal entry  *)
(* through the files .pending-mutation.next, .before and .json, and how    *)
(* the next recovery completes or rolls back what a crash left behind.     *)
(*                                                                         *)
(* Every file-system call that changes the store is a step of its own, so  *)
(* a crash may fall between any two of them.  Abstractions:                *)
(*  - the mutation, namespace and journal locks, always taken in that      *)
(*    order and held to the end of the call, are one lock (FileLock is the *)
(*    module of the lock file itself; mutual exclusion is assumed here);   *)
(*  - a namespace text is the set of its clauses, and a mutator is a       *)
(*    request that removes some clauses and adds others: assert, retract,  *)
(*    supersede, rule_change and memory_change share this one shape;       *)
(*  - a read under the lock returns what the file holds (the cache of      *)
(*    loadCached is the subject of another module);                        *)
(*  - the marker's and the journal's temporary files, whose names nobody   *)
(*    reads back, are left out: publishing is the atomic rename.           *)
(***************************************************************************)
EXTENDS Naturals, Sequences, FiniteSets

CONSTANTS
  Procs,       \* processes that open the store: CLI, MCP server, hook, web
  Namespaces,  \* the <namespace>.dl files
  Facts,       \* clauses
  Requests,    \* what callers may ask: records [op, ns, opId, remove, add]
  Faults,      \* the steps at which an I/O error is considered
  MaxCrashes,  \* bound on crashes
  MaxCalls,    \* bound on mutator and snapshot calls
  None,        \* no file, no marker, no caller-supplied operation id
  Stale,       \* the lock file of a process that died holding it
  Boot,        \* the call that the constructor makes
  Snapshot     \* the call of knowledgeSnapshot

FaultKinds == {"stage", "publish", "replace", "cleanup", "recovery"}

ASSUME RequestsAssumption ==
  \A r \in Requests :
     /\ DOMAIN r = {"op", "ns", "opId", "remove", "add"}
     /\ r.op \in STRING
     /\ r.ns \in Namespaces
     /\ r.opId \notin Nat
     /\ r.remove \subseteq Facts
     /\ r.add \subseteq Facts

ASSUME BoundsAssumption ==
  /\ Faults \subseteq FaultKinds
  /\ MaxCrashes \in Nat
  /\ MaxCalls \in Nat

ASSUME NullsAssumption ==
  /\ None \notin Procs /\ Stale \notin Procs /\ None # Stale
  /\ Boot \notin Requests /\ Snapshot \notin Requests /\ Boot # Snapshot
  /\ None \notin Requests /\ None # Boot /\ None # Snapshot
  /\ \A t \in SUBSET Facts : None # t

VARIABLES
  file,      \* [Namespaces -> text or None], the .dl files
  next,      \* .pending-mutation.next
  before,    \* .pending-mutation.before
  marker,    \* .pending-mutation.json
  journal,   \* journal.log and its segments
  holder,    \* owner of the locks: a process, Stale or None
  pc,        \* where each process is
  req,       \* the call it is serving
  entry,     \* the journal entry it built
  cand,      \* the candidate text it built
  then,      \* where it goes once a recovery or a completion is over
  recorded,  \* history: what a replay of the journal yields
  acked,     \* history: keys of the operations answered with success
  abandoned, \* history: pending files were left to processes that live on
  crashes,   \* crashes so far
  calls      \* calls so far

disk  == <<file, next, before, marker, journal>>
local == <<req, entry, cand, then>>
ghost == <<recorded, acked, abandoned>>
vars  == <<disk, holder, pc, local, ghost, crashes, calls>>

-----------------------------------------------------------------------------
(* Types *)

Texts == SUBSET Facts

Keys == [op : STRING, ns : Namespaces, opId : {r.opId : r \in Requests} \cup Nat]

Entries == [op : STRING, ns : Namespaces,
            opId : {r.opId : r \in Requests} \cup Nat,
            want : Requests, removed : Texts, added : Texts]

Markers == [ns : Namespaces, hadPrevious : BOOLEAN, entry : Entries]

ASSUME NoneIsNoRecord == None \notin Entries /\ None \notin Markers

CommitSteps   == {"stage", "publish", "setAside", "install", "append"}
RecoverySteps == {"recover", "restore", "putBack",
                  "dropBefore", "dropNext", "dropMarker"}
Locked == CommitSteps \cup RecoverySteps \cup {"evaluate", "done", "failed"}
Labels == Locked \cup {"down", "ready", "wait"}

TypeOK ==
  /\ file \in [Namespaces -> {None} \cup Texts]
  /\ next \in {None} \cup Texts
  /\ before \in {None} \cup Texts
  /\ marker \in {None} \cup Markers
  /\ journal \in Seq(Entries)
  /\ holder \in Procs \cup {None, Stale}
  /\ pc \in [Procs -> Labels]
  /\ req \in [Procs -> {None, Boot, Snapshot} \cup Requests]
  /\ entry \in [Procs -> {None} \cup Entries]
  /\ cand \in [Procs -> Texts]
  /\ then \in [Procs -> {"stage", "done", "failed"}]
  /\ recorded \in [Namespaces -> Texts]
  /\ acked \subseteq Keys
  /\ abandoned \in BOOLEAN
  /\ crashes \in Nat
  /\ calls \in Nat

-----------------------------------------------------------------------------
(* Helpers *)

(* loadCached reads an absent namespace file as an empty program.          *)
Text(f) == IF f = None THEN {} ELSE f

Logged(e) == \E i \in DOMAIN journal : journal[i] = e

(* recoverPendingMutationUnlocked looks for the marker's exact entry.      *)
Committed == marker # None /\ Logged(marker.entry)

Explicit(r) == r.opId # None

(* Mutation of Prior: an id reused for another request is not recognised.  *)
PriorSameRequest(r) == {i \in DOMAIN journal : journal[i].want = r}

(* The entry an earlier run of this very operation journaled, if any.      *)
Prior(r) ==
  {i \in DOMAIN journal :
     /\ journal[i].op = r.op
     /\ journal[i].ns = r.ns
     /\ journal[i].opId = r.opId}

Candidate(r) == (Text(file[r.ns]) \ r.remove) \cup r.add

(* createOperationId: an id no entry of the journal carries.  An implicit  *)
(* entry's id is its own position, which is unique and needs no counter.   *)
OperationId(r) == IF Explicit(r) THEN r.opId ELSE Len(journal) + 1

NewEntry(r) ==
  [op |-> r.op, ns |-> r.ns, opId |-> OperationId(r), want |-> r,
   removed |-> Text(file[r.ns]) \ Candidate(r),
   added |-> Candidate(r) \ Text(file[r.ns])]

(* Exactly what the later replay of an entry does to a namespace.          *)
Replayed(e) ==
  [recorded EXCEPT ![e.ns] = (@ \ e.removed) \cup e.added]

(* appendJournalUnlocked: the whole journal is rewritten and renamed.      *)
AppendJournal(e) ==
  /\ journal' = Append(journal, e)
  /\ recorded' = Replayed(e)

Goto(p, label) == pc' = [pc EXCEPT ![p] = label]

(* A file operation of the lock's owner: the call it serves is unchanged.  *)
KeepCall ==
  UNCHANGED <<holder, req, entry, cand, acked, abandoned, crashes, calls>>
KeepJournal == UNCHANGED <<journal, recorded>>

-----------------------------------------------------------------------------
(* Calls, locks and crashes *)

Init ==
  /\ file = [n \in Namespaces |-> None]
  /\ next = None
  /\ before = None
  /\ marker = None
  /\ journal = <<>>
  /\ holder = None
  /\ pc = [p \in Procs |-> "down"]
  /\ req = [p \in Procs |-> None]
  /\ entry = [p \in Procs |-> None]
  /\ cand = [p \in Procs |-> {}]
  /\ then = [p \in Procs |-> "done"]
  /\ recorded = [n \in Namespaces |-> {}]
  /\ acked = {}
  /\ abandoned = FALSE
  /\ crashes = 0
  /\ calls = 0

(* A process starts and constructs its MemoryStore.                        *)
Start(p) ==
  /\ pc[p] = "down"
  /\ Goto(p, "wait")
  /\ req' = [req EXCEPT ![p] = Boot]
  /\ UNCHANGED <<disk, holder, entry, cand, then, ghost, crashes, calls>>

(* A caller asks for a mutation, or for a consistent snapshot.             *)
Call(p, r) ==
  /\ pc[p] = "ready"
  /\ calls < MaxCalls
  /\ Goto(p, "wait")
  /\ req' = [req EXCEPT ![p] = r]
  /\ calls' = calls + 1
  /\ UNCHANGED <<disk, holder, entry, cand, then, ghost, crashes>>

(* Mutation of Acquire: the constructor does not recover.                  *)
AcquireNoRecovery(p) ==
  /\ pc[p] = "wait"
  /\ holder = None
  /\ holder' = p
  /\ Goto(p, IF req[p] \in {Boot, Snapshot} THEN "done" ELSE "evaluate")
  /\ then' = [then EXCEPT ![p] = "done"]
  /\ UNCHANGED <<disk, req, entry, cand, ghost, crashes, calls>>

(* withMutationLock and the locks under it.  The constructor and           *)
(* knowledgeSnapshot recover first; a mutator evaluates its request first. *)
Acquire(p) ==
  /\ pc[p] = "wait"
  /\ holder = None
  /\ holder' = p
  /\ Goto(p, IF req[p] \in {Boot, Snapshot} THEN "recover" ELSE "evaluate")
  /\ then' = [then EXCEPT ![p] = "done"]
  /\ UNCHANGED <<disk, req, entry, cand, ghost, crashes, calls>>

(* The owner is dead and the lock file old: a waiter removes it.           *)
BreakStaleLock(p) ==
  /\ pc[p] = "wait"
  /\ holder = Stale
  /\ holder' = None
  /\ UNCHANGED <<disk, pc, local, ghost, crashes, calls>>

Forget(p) ==
  /\ req' = [req EXCEPT ![p] = None]
  /\ entry' = [entry EXCEPT ![p] = None]
  /\ cand' = [cand EXCEPT ![p] = {}]
  /\ then' = [then EXCEPT ![p] = "done"]

(* LOCK_WAIT_MS is over: the call fails; a constructor that fails leaves   *)
(* no store behind.                                                        *)
LockTimeout(p) ==
  /\ pc[p] = "wait"
  /\ holder # None
  /\ Goto(p, IF req[p] = Boot THEN "down" ELSE "ready")
  /\ Forget(p)
  /\ UNCHANGED <<disk, holder, ghost, crashes, calls>>

(* The call returns or throws, and releases the locks.                     *)
Return(p) ==
  /\ pc[p] \in {"done", "failed"}
  /\ holder' = None
  /\ Goto(p, IF pc[p] = "failed" /\ req[p] = Boot THEN "down" ELSE "ready")
  /\ acked' = IF pc[p] = "done" /\ req[p] \in Requests /\ Explicit(req[p])
              THEN acked \cup {[op |-> req[p].op, ns |-> req[p].ns,
                                opId |-> req[p].opId]}
              ELSE acked
  /\ Forget(p)
  /\ UNCHANGED <<disk, recorded, abandoned, crashes, calls>>

(* Pending files beside processes that will not recover before they read:  *)
(* all that live, but for those that are constructing their store.         *)
LeftTo(procs) ==
  /\ marker # None
  /\ \E q \in procs : pc[q] # "down" /\ req[q] # Boot

(* One process dies; the lock files it held stay behind, and the pending   *)
(* files of its commit to whoever is still alive.                          *)
Crash(p) ==
  /\ pc[p] # "down"
  /\ crashes < MaxCrashes
  /\ crashes' = crashes + 1
  /\ Goto(p, "down")
  /\ holder' = IF holder = p THEN Stale ELSE holder
  /\ abandoned' = (abandoned \/ (holder = p /\ LeftTo(Procs \ {p})))
  /\ Forget(p)
  /\ UNCHANGED <<disk, recorded, acked, calls>>

(* Every process dies at once.                                             *)
CrashAll ==
  /\ \E p \in Procs : pc[p] # "down"
  /\ crashes < MaxCrashes
  /\ crashes' = crashes + 1
  /\ pc' = [p \in Procs |-> "down"]
  /\ holder' = IF holder = None THEN None ELSE Stale
  /\ req' = [p \in Procs |-> None]
  /\ entry' = [p \in Procs |-> None]
  /\ cand' = [p \in Procs |-> {}]
  /\ then' = [p \in Procs |-> "done"]
  /\ UNCHANGED <<disk, ghost, calls>>

-----------------------------------------------------------------------------
(* Evaluating a mutator under the locks                                    *)

(* A mutator whose caller supplied an id that the journal already holds    *)
(* answers from the entry, or refuses a request that differs from it.      *)
Replay(p) ==
  /\ pc[p] = "evaluate"
  /\ Explicit(req[p])
  /\ Prior(req[p]) # {}
  /\ Goto(p, IF \E i \in Prior(req[p]) : journal[i].want = req[p]
             THEN "done" ELSE "failed")
  /\ UNCHANGED <<disk, holder, local, ghost, crashes, calls>>

Evaluates(p) ==
  /\ pc[p] = "evaluate"
  /\ Explicit(req[p]) => Prior(req[p]) = {}

NoOp(r) == Candidate(r) = Text(file[r.ns])

(* The request changes the text: its candidate and entry go to commit.     *)
Propose(p) ==
  /\ Evaluates(p)
  /\ ~NoOp(req[p])
  /\ entry' = [entry EXCEPT ![p] = NewEntry(req[p])]
  /\ cand' = [cand EXCEPT ![p] = Candidate(req[p])]
  /\ then' = [then EXCEPT ![p] = "stage"]
  /\ Goto(p, "recover")
  /\ UNCHANGED <<disk, holder, req, ghost, crashes, calls>>

(* Mutation of NothingToDo: no replay marker for an explicit no-op.        *)
NothingRecorded(p) ==
  /\ Evaluates(p)
  /\ NoOp(req[p])
  /\ Goto(p, "done")
  /\ UNCHANGED <<disk, holder, local, ghost, crashes, calls>>

(* It changes nothing: an explicit operation still leaves its marker in    *)
(* the journal, an implicit one leaves nothing.                            *)
NothingToDo(p) ==
  /\ Evaluates(p)
  /\ NoOp(req[p])
  /\ IF Explicit(req[p])
     THEN AppendJournal(NewEntry(req[p]))
     ELSE KeepJournal
  /\ Goto(p, "done")
  /\ UNCHANGED <<file, next, before, marker, holder, local, acked, abandoned,
                 crashes, calls>>

(* Enforcement rejects the candidate, or the journal is full.              *)
Refuse(p) ==
  /\ Evaluates(p)
  /\ Goto(p, "failed")
  /\ UNCHANGED <<disk, holder, local, ghost, crashes, calls>>

-----------------------------------------------------------------------------
(* recoverPendingMutationUnlocked and the two ways it can end              *)

Recover(p) ==
  /\ pc[p] = "recover"
  /\ IF marker = None
     THEN IF before # None
          THEN Goto(p, "failed") /\ UNCHANGED next     \* orphaned backup
          ELSE Goto(p, then[p]) /\ next' = None
     ELSE /\ UNCHANGED next
          /\ Goto(p, IF ~Committed THEN "restore"
                     ELSE IF file[marker.ns] = None THEN "failed"
                     ELSE "dropBefore")
  /\ UNCHANGED <<file, before, marker, then>>
  /\ KeepCall /\ KeepJournal

(* Mutation of Restore: a namespace file that did not exist before stays.  *)
RestoreKeepsNewFile(p) ==
  /\ pc[p] = "restore"
  /\ IF before # None
     THEN file' = [file EXCEPT ![marker.ns] = None] /\ Goto(p, "putBack")
     ELSE UNCHANGED file /\ Goto(p, "dropNext")
  /\ UNCHANGED <<next, before, marker, then>>
  /\ KeepCall /\ KeepJournal

(* rollbackPendingMutationUnlocked                                         *)
Restore(p) ==
  /\ pc[p] = "restore"
  /\ IF before # None
     THEN file' = [file EXCEPT ![marker.ns] = None] /\ Goto(p, "putBack")
     ELSE IF marker.hadPrevious
     THEN /\ UNCHANGED file
          /\ Goto(p, IF file[marker.ns] = None THEN "failed" ELSE "dropNext")
     ELSE file' = [file EXCEPT ![marker.ns] = None] /\ Goto(p, "dropNext")
  /\ UNCHANGED <<next, before, marker, then>>
  /\ KeepCall /\ KeepJournal

PutBack(p) ==
  /\ pc[p] = "putBack"
  /\ file' = [file EXCEPT ![marker.ns] = before]
  /\ before' = None
  /\ Goto(p, "dropNext")
  /\ UNCHANGED <<next, marker, then>>
  /\ KeepCall /\ KeepJournal

(* Mutation of DropBefore: the backup is not removed.                      *)
BackupStays(p) ==
  /\ pc[p] = "dropBefore"
  /\ Goto(p, "dropNext")
  /\ UNCHANGED <<file, next, before, marker, then>>
  /\ KeepCall /\ KeepJournal

(* completePendingMutationUnlocked; the last two steps end a rollback too. *)
DropBefore(p) ==
  /\ pc[p] = "dropBefore"
  /\ before' = None
  /\ Goto(p, "dropNext")
  /\ UNCHANGED <<file, next, marker, then>>
  /\ KeepCall /\ KeepJournal

DropNext(p) ==
  /\ pc[p] = "dropNext"
  /\ next' = None
  /\ Goto(p, "dropMarker")
  /\ UNCHANGED <<file, before, marker, then>>
  /\ KeepCall /\ KeepJournal

DropMarker(p) ==
  /\ pc[p] = "dropMarker"
  /\ marker' = None
  /\ Goto(p, then[p])
  /\ UNCHANGED <<file, next, before, then>>
  /\ KeepCall /\ KeepJournal

-----------------------------------------------------------------------------
(* commitMutation, after its recovery                                      *)

Stage(p) ==
  /\ pc[p] = "stage"
  /\ IF next # None \/ before # None \/ marker # None
     THEN Goto(p, "failed") /\ UNCHANGED next
     ELSE Goto(p, "publish") /\ next' = cand[p]
  /\ UNCHANGED <<file, before, marker, then>>
  /\ KeepCall /\ KeepJournal

(* Mutation of Publish: the flag holds the file instead of a test for it.  *)
PublishFileAsFlag(p) ==
  /\ pc[p] = "publish"
  /\ marker' = [ns |-> entry[p].ns, entry |-> entry[p],
                hadPrevious |-> file[entry[p].ns]]
  /\ Goto(p, "setAside")
  /\ UNCHANGED <<file, next, before, then>>
  /\ KeepCall /\ KeepJournal

Publish(p) ==
  /\ pc[p] = "publish"
  /\ marker' = [ns |-> entry[p].ns, entry |-> entry[p],
                hadPrevious |-> file[entry[p].ns] # None]
  /\ Goto(p, "setAside")
  /\ UNCHANGED <<file, next, before, then>>
  /\ KeepCall /\ KeepJournal

(* Mutation of SetAside: the new file is renamed over the old one.         *)
NoBackup(p) ==
  /\ pc[p] = "setAside"
  /\ Goto(p, "install")
  /\ UNCHANGED <<file, before, next, marker, then>>
  /\ KeepCall /\ KeepJournal

SetAside(p) ==
  /\ pc[p] = "setAside"
  /\ IF marker.hadPrevious
     THEN /\ before' = file[marker.ns]
          /\ file' = [file EXCEPT ![marker.ns] = None]
     ELSE UNCHANGED <<before, file>>
  /\ Goto(p, "install")
  /\ UNCHANGED <<next, marker, then>>
  /\ KeepCall /\ KeepJournal

Install(p) ==
  /\ pc[p] = "install"
  /\ file' = [file EXCEPT ![marker.ns] = next]
  /\ next' = None
  /\ Goto(p, "append")
  /\ UNCHANGED <<before, marker, then>>
  /\ KeepCall /\ KeepJournal

(* The commit point.                                                       *)
AppendEntry(p) ==
  /\ pc[p] = "append"
  /\ AppendJournal(entry[p])
  /\ then' = [then EXCEPT ![p] = "done"]
  /\ Goto(p, "dropBefore")
  /\ UNCHANGED <<file, next, before, marker>>
  /\ KeepCall

-----------------------------------------------------------------------------
(* I/O errors, and what the catch clauses do about them                    *)

(* Writing .next fails and may leave it behind; nothing is cleaned up.     *)
StageFails(p) ==
  /\ "stage" \in Faults
  /\ pc[p] = "stage"
  /\ next = None /\ before = None /\ marker = None
  /\ next' \in {None, cand[p]}
  /\ Goto(p, "failed")
  /\ UNCHANGED <<file, before, marker, then>>
  /\ KeepCall /\ KeepJournal

PublishFails(p) ==
  /\ "publish" \in Faults
  /\ pc[p] = "publish"
  /\ next' = None
  /\ Goto(p, "failed")
  /\ UNCHANGED <<file, before, marker, then>>
  /\ KeepCall /\ KeepJournal

(* Mutation of ReplaceFails: the call throws without rolling back.         *)
ReplaceFailsUnrolled(p) ==
  /\ "replace" \in Faults
  /\ pc[p] \in {"setAside", "install", "append"}
  /\ Goto(p, "failed")
  /\ UNCHANGED <<disk, then>>
  /\ KeepCall /\ KeepJournal

(* A rename or the append fails: the call rolls back and throws.           *)
ReplaceFails(p) ==
  /\ "replace" \in Faults
  /\ pc[p] \in {"setAside", "install", "append"}
  /\ then' = [then EXCEPT ![p] = "failed"]
  /\ Goto(p, "restore")
  /\ UNCHANGED disk
  /\ KeepCall /\ KeepJournal

Completing(p) ==
  /\ pc[p] \in {"dropBefore", "dropNext", "dropMarker"}
  /\ req[p] \in Requests
  /\ then[p] = "done"

(* Mutation of CleanupFails: the cleanup is retried until it succeeds.     *)
CleanupRetries(p) ==
  /\ "cleanup" \in Faults
  /\ Completing(p)
  /\ Goto(p, "recover")
  /\ UNCHANGED <<disk, then>>
  /\ KeepCall /\ KeepJournal

(* An unlink fails after the commit point: the call recovers, which        *)
(* completes the same mutation again, and throws although it took effect.  *)
CleanupFails(p) ==
  /\ "cleanup" \in Faults
  /\ Completing(p)
  /\ then' = [then EXCEPT ![p] = "failed"]
  /\ Goto(p, "recover")
  /\ UNCHANGED disk
  /\ KeepCall /\ KeepJournal

(* A file operation of a recovery or a rollback fails: the call throws and *)
(* leaves the pending files to a later recovery.                           *)
RecoveryFails(p) ==
  /\ "recovery" \in Faults
  /\ pc[p] \in RecoverySteps
  /\ ~Completing(p)
  /\ Goto(p, "failed")
  /\ abandoned' = (abandoned \/ LeftTo(Procs))
  /\ UNCHANGED <<disk, holder, local, recorded, acked, crashes, calls>>

-----------------------------------------------------------------------------

Evaluate(p) == Replay(p) \/ Propose(p) \/ NothingToDo(p) \/ Refuse(p)

Recovery(p) ==
  \/ Recover(p) \/ Restore(p) \/ PutBack(p)
  \/ DropBefore(p) \/ DropNext(p) \/ DropMarker(p)

Commit(p) ==
  \/ Stage(p) \/ Publish(p) \/ SetAside(p) \/ Install(p) \/ AppendEntry(p)

Fault(p) ==
  \/ StageFails(p) \/ PublishFails(p) \/ ReplaceFails(p)
  \/ CleanupFails(p) \/ RecoveryFails(p)

(* A process that is inside a call keeps going: the calls are synchronous. *)
Step(p) ==
  \/ Acquire(p) \/ BreakStaleLock(p) \/ LockTimeout(p)
  \/ Evaluate(p) \/ Recovery(p) \/ Commit(p) \/ Fault(p) \/ Return(p)

Next ==
  \/ \E p \in Procs :
       \/ Start(p)
       \/ \E r \in Requests \cup {Snapshot} : Call(p, r)
       \/ Step(p)
       \/ Crash(p)
  \/ CrashAll

Spec == Init /\ [][Next]_vars

FairSpec == Spec /\ \A p \in Procs : WF_vars(Step(p))

-----------------------------------------------------------------------------
(* Properties                                                              *)

(* What a recovery that ran now would leave in namespace n.                *)
Effective(n) ==
  IF marker = None \/ Committed THEN file[n]
  ELSE IF marker.ns # n THEN file[n]
  ELSE IF before # None THEN before
  ELSE IF marker.hadPrevious THEN file[n]
  ELSE None

EffectiveText == [n \in Namespaces |-> Text(Effective(n))]

(* Whatever a crash or an I/O error leaves on disk, the next recovery can  *)
(* finish it: the code's refusals (an orphaned backup, a committed         *)
(* mutation without a namespace file, a previous file that was lost, a     *)
(* commit on top of unresolved pending files) are never reached.           *)
RecoveryNeverRefuses ==
  /\ marker = None => before = None
  /\ Committed => file[marker.ns] # None
  /\ (marker # None /\ ~Committed /\ marker.hadPrevious /\ before = None)
       => file[marker.ns] # None
  /\ \A p \in Procs : pc[p] = "stage" =>
       next = None /\ before = None /\ marker = None

(* The journal append is the only commit point: no rename, unlink, crash,  *)
(* error or recovery changes what the store will turn out to hold.         *)
OnlyTheJournalCommits ==
  [][EffectiveText' # EffectiveText => journal' # journal]_vars

(* Crashes, errors answered after the commit point, and retries: an        *)
(* operation id takes effect at most once per operation and namespace.     *)
AppliedAtMostOnce ==
  \A i, j \in DOMAIN journal :
    (/\ journal[i].op = journal[j].op
     /\ journal[i].ns = journal[j].ns
     /\ journal[i].opId = journal[j].opId) => i = j

(* A caller that was told its operation succeeded finds it in the journal  *)
(* for ever after, so its retry returns the first result.                  *)
AnsweredIsJournaled ==
  \A k \in acked : \E i \in DOMAIN journal :
    journal[i].op = k.op /\ journal[i].ns = k.ns /\ journal[i].opId = k.opId

(* "one crash-safe change or writes nothing" (docs/MEMORY-APPLICATION.md): *)
(* whoever dies and whoever lives on, the files, as a recovery would leave *)
(* them, agree with the journal.                                           *)
FilesMatchJournal == EffectiveText = recorded

(* The namespace files, as a recovery would leave them, hold exactly what  *)
(* replaying the journal yields: no fact without an entry, no entry        *)
(* without its effect (commitMutation, recoverPendingMutationUnlocked), as *)
(* long as pending files are not left to processes that live on.           *)
StoreMatchesJournal == ~abandoned => FilesMatchJournal

(* knowledgeSnapshot reads whole committed states: when it has the locks   *)
(* and has recovered, the files themselves are what the journal records.   *)
SnapshotIsRecorded ==
  \A p \in Procs : (pc[p] = "done" /\ req[p] = Snapshot /\ ~abandoned) =>
    \A n \in Namespaces : Text(file[n]) = recorded[n]

(* The files, the journal and the recovery together implement the atomic   *)
(* store, up to the step that leaves pending files to living processes.    *)
Store == INSTANCE AtomicStore WITH Initial <- [n \in Namespaces |-> {}],
                                  content <- EffectiveText, log <- journal
ImplementsAtomicStore ==
  Store!Init /\ [][~abandoned' => [Store!Next]_(Store!vars)]_vars

(* A call never hangs: it returns, throws or times out on the lock, or its *)
(* process dies.                                                           *)
CallsEnd == \A p \in Procs : pc[p] = "wait" ~> pc[p] \in {"ready", "down"}

=============================================================================
