------------------------ MODULE MutationCommitProofs ------------------------
(***************************************************************************)
(* What the commit protocol guarantees for every set of processes,         *)
(* namespaces, facts and requests, every number of crashes and calls, and  *)
(* every choice of the I/O errors, whoever dies and whoever lives on.      *)
(*                                                                         *)
(* The properties are not inductive by themselves.  The invariant IInv     *)
(* below adds who holds the lock (LockHeld), what the pending files mean   *)
(* whoever wrote them (PendingFiles), what the lock's owner may assume at  *)
(* each of its steps (OwnerKnows) and why its entry is new (EntryIsNew).   *)
(***************************************************************************)
EXTENDS MutationCommit, TLAPS

SameKey(e, f) == e.op = f.op /\ e.ns = f.ns /\ e.opId = f.opId

LockHeld == \A p \in Procs : pc[p] \in Locked <=> holder = p

(* An entry that goes through commitMutation changes something, which      *)
(* tells it from the entry of an explicit no-op.                           *)
Changes(e) == e.removed \cup e.added # {}

PendingFiles ==
  /\ before # None => marker # None /\ marker.hadPrevious
  /\ marker # None => marker.ns = marker.entry.ns /\ Changes(marker.entry)
  /\ Committed => file[marker.ns] # None
  /\ (marker # None /\ ~Committed /\ marker.hadPrevious /\ before = None)
       => file[marker.ns] # None

(* The marker on disk is the owner's own, and its entry is not journaled.  *)
Ours(p) == marker # None /\ marker.entry = entry[p] /\ ~Committed

(* Nothing is left of the pending mutation but the marker and perhaps next. *)
Settled ==
  /\ marker # None
  /\ before = None
  /\ (~Committed /\ ~marker.hadPrevious) => file[marker.ns] = None

OwnerKnows(p) ==
  /\ pc[p] = "stage" => next = None /\ before = None /\ marker = None
  /\ pc[p] = "publish" => next # None /\ before = None /\ marker = None
  /\ pc[p] = "setAside" =>
       /\ Ours(p) /\ before = None /\ next # None
       /\ marker.hadPrevious <=> file[marker.ns] # None
  /\ pc[p] = "install" =>
       /\ Ours(p) /\ next # None
       /\ marker.hadPrevious => before # None
  /\ pc[p] = "append" =>
       /\ Ours(p) /\ file[marker.ns] # None
       /\ marker.hadPrevious => before # None
  /\ pc[p] = "restore" => marker # None /\ ~Committed
  /\ pc[p] = "putBack" => marker # None /\ ~Committed /\ before # None
  /\ pc[p] = "dropBefore" => Committed
  /\ pc[p] = "dropNext" => Settled
  /\ pc[p] = "dropMarker" => Settled /\ next = None

(* The owner has an entry of its own that it has not journaled yet.        *)
Uncommitted(p) ==
  \/ pc[p] \in CommitSteps
  \/ pc[p] \in RecoverySteps /\ then[p] = "stage"

EntryIsNew(p) == Uncommitted(p) =>
  /\ req[p] \in Requests
  /\ entry[p] \in Entries
  /\ entry[p].op = req[p].op /\ entry[p].ns = req[p].ns
  /\ entry[p].opId = OperationId(req[p])
  /\ Changes(entry[p])
  /\ \A i \in DOMAIN journal : ~SameKey(journal[i], entry[p])

HasKey(r) == \E i \in DOMAIN journal :
  journal[i].op = r.op /\ journal[i].ns = r.ns /\ journal[i].opId = r.opId

(* An operation about to be answered with success is in the journal.       *)
Answering(p) == pc[p] = "done" \/ (pc[p] \in RecoverySteps /\ then[p] = "done")

AnswerIsJournaled(p) ==
  (Answering(p) /\ req[p] \in Requests /\ Explicit(req[p])) => HasKey(req[p])

(* What the owner of the lock, or any other process, knows where it is.    *)
Knows(p) ==
  /\ OwnerKnows(p)
  /\ pc[p] = "evaluate" => req[p] \in Requests
  /\ EntryIsNew(p)
  /\ AnswerIsJournaled(p)

(* A position that serves as an implicit operation id is its own entry's.  *)
IdsArePositions ==
  \A i \in DOMAIN journal : journal[i].opId \in Nat => journal[i].opId = i

CallersAsk == \A p \in Procs : pc[p] = "wait" => req[p] # None

IInv ==
  /\ TypeOK
  /\ CallersAsk
  /\ LockHeld
  /\ PendingFiles
  /\ \A p \in Procs : Knows(p)
  /\ IdsArePositions
  /\ AppliedAtMostOnce
  /\ AnsweredIsJournaled
-----------------------------------------------------------------------------
(* Every step is a step of one process or takes the machine down.          *)
LEMMA NextCases ==
  ASSUME Next
  PROVE  \/ \E p \in Procs :
              \/ Start(p)
              \/ \E r \in Requests \cup {Snapshot} : Call(p, r)
              \/ Acquire(p) \/ BreakStaleLock(p) \/ LockTimeout(p) \/ Return(p)
              \/ Crash(p) \/ Replay(p) \/ Propose(p) \/ NothingToDo(p)
              \/ Refuse(p) \/ Recover(p) \/ Restore(p) \/ PutBack(p)
              \/ DropBefore(p) \/ DropNext(p) \/ DropMarker(p) \/ Stage(p)
              \/ Publish(p) \/ SetAside(p) \/ Install(p) \/ AppendEntry(p)
              \/ StageFails(p) \/ PublishFails(p) \/ ReplaceFails(p)
              \/ CleanupFails(p) \/ RecoveryFails(p)
         \/ CrashAll
  BY DEF Next, Step, Evaluate, Recovery, Commit, Fault

(* What the helpers build is well typed.                                   *)
LEMMA HelperTypes ==
  ASSUME TypeOK, NEW r \in Requests
  PROVE  /\ Text(file[r.ns]) \in Texts
         /\ Candidate(r) \in Texts
         /\ OperationId(r) \in {s.opId : s \in Requests} \cup Nat
         /\ NewEntry(r) \in Entries
  <1>1. r.ns \in Namespaces /\ r.op \in STRING /\ r.add \subseteq Facts
    BY RequestsAssumption
  <1>2. Text(file[r.ns]) \in Texts
    BY <1>1 DEF TypeOK, Text, Texts
  <1>3. Candidate(r) \in Texts
    BY <1>1, <1>2 DEF Candidate, Texts
  <1>4. OperationId(r) \in {s.opId : s \in Requests} \cup Nat
    <2>1. Len(journal) \in Nat
      BY DEF TypeOK
    <2> QED BY <2>1 DEF OperationId
  <1>5. NewEntry(r) \in Entries
    BY <1>1, <1>2, <1>3, <1>4 DEF NewEntry, Entries, Texts
  <1> QED BY <1>2, <1>3, <1>4, <1>5

(* An append keeps the journal and its replay well typed.                  *)
LEMMA AppendTypes ==
  ASSUME TypeOK, NEW e \in Entries, AppendJournal(e)
  PROVE  journal' \in Seq(Entries) /\ recorded' \in [Namespaces -> Texts]
  BY DEF TypeOK, AppendJournal, Replayed, Entries, Texts

(* A process that forgets its call stays well typed.                       *)
LEMMA ForgetTypes ==
  ASSUME TypeOK, NEW p \in Procs, Forget(p)
  PROVE  /\ req' \in [Procs -> {None, Boot, Snapshot} \cup Requests]
         /\ entry' \in [Procs -> {None} \cup Entries]
         /\ cand' \in [Procs -> Texts]
         /\ then' \in [Procs -> {"stage", "done", "failed"}]
  <1>1. {} \in Texts
    BY DEF Texts
  <1> QED BY <1>1 DEF TypeOK, Forget

(* So does one that moves to another step.                                 *)
LEMMA GotoTypes ==
  ASSUME TypeOK, NEW p \in Procs, NEW l \in Labels, Goto(p, l)
  PROVE  pc' \in [Procs -> Labels]
  BY DEF TypeOK, Goto

(* Every step keeps every variable in its type. The invariant is needed: a *)
(* step that reads the marker or the entry is only taken when there is     *)
(* one.                                                                    *)
LEMMA TypeStep == IInv /\ [Next]_vars => TypeOK'
  <1> SUFFICES ASSUME IInv, [Next]_vars PROVE TypeOK'
    OBVIOUS
  <1>0. TypeOK
    BY DEF IInv
  <1> USE <1>0 DEF TypeOK, Goto, KeepCall, KeepJournal, disk, local, ghost, Forget, Labels, Locked, CommitSteps, RecoverySteps
  <1>1. ASSUME NEW p \in Procs, Start(p) PROVE TypeOK'
    BY <1>1 DEF Start
  <1>2. ASSUME NEW p \in Procs, Acquire(p) PROVE TypeOK'
    BY <1>2 DEF Acquire
  <1>3. ASSUME NEW p \in Procs, BreakStaleLock(p) PROVE TypeOK'
    BY <1>3 DEF BreakStaleLock
  <1>4. ASSUME NEW p \in Procs, LockTimeout(p) PROVE TypeOK'
    <2>1. pc' \in [Procs -> Labels]
      BY <1>4 DEF LockTimeout
    <2>2. Forget(p)
      BY <1>4 DEF LockTimeout
    <2> HIDE DEF Forget
    <2> QED BY <1>4, <2>1, <2>2, ForgetTypes DEF LockTimeout
  <1>5. ASSUME NEW p \in Procs, Return(p) PROVE TypeOK'
    <2>1. pc' \in [Procs -> Labels]
      BY <1>5 DEF Return
    <2>2. acked' \subseteq Keys
      <3>1. ASSUME req[p] \in Requests
            PROVE [op |-> req[p].op, ns |-> req[p].ns, opId |-> req[p].opId] \in Keys
        BY <3>1, RequestsAssumption DEF Keys
      <3> QED BY <1>5, <3>1 DEF Return
    <2>3. Forget(p)
      BY <1>5 DEF Return
    <2> HIDE DEF Forget
    <2> QED BY <1>5, <2>1, <2>2, <2>3, ForgetTypes DEF Return
  <1>6. ASSUME NEW p \in Procs, Crash(p) PROVE TypeOK'
    <2>1. pc' \in [Procs -> Labels]
      BY <1>6 DEF Crash
    <2>2. Forget(p)
      BY <1>6 DEF Crash
    <2> HIDE DEF Forget
    <2> QED BY <1>6, <2>1, <2>2, ForgetTypes DEF Crash
  <1>7. ASSUME NEW p \in Procs, Replay(p) PROVE TypeOK'
    BY <1>7 DEF Replay
  <1>8. ASSUME NEW p \in Procs, Propose(p) PROVE TypeOK'
    <2>1. req[p] \in Requests
      BY <1>8 DEF IInv, Knows, Propose, Evaluates
    <2>2. NewEntry(req[p]) \in Entries /\ Candidate(req[p]) \in Texts
      BY <2>1, HelperTypes
    <2>3. entry' \in [Procs -> {None} \cup Entries] /\ cand' \in [Procs -> Texts]
      BY <1>8, <2>2 DEF Propose
    <2>4. pc' \in [Procs -> Labels] /\ then' \in [Procs -> {"stage", "done", "failed"}]
      BY <1>8 DEF Propose
    <2> QED BY <1>8, <2>3, <2>4 DEF Propose
  <1>9. ASSUME NEW p \in Procs, NothingToDo(p) PROVE TypeOK'
    <2>1. req[p] \in Requests
      BY <1>9 DEF IInv, Knows, NothingToDo, Evaluates
    <2>2. NewEntry(req[p]) \in Entries
      BY <2>1, HelperTypes
    <2>3. journal' \in Seq(Entries) /\ recorded' \in [Namespaces -> Texts]
      BY <1>9, <2>2, AppendTypes DEF NothingToDo
    <2> QED BY <1>9, <2>3 DEF NothingToDo
  <1>10. ASSUME NEW p \in Procs, Refuse(p) PROVE TypeOK'
    BY <1>10 DEF Refuse
  <1>11. ASSUME NEW p \in Procs, Recover(p) PROVE TypeOK'
    BY <1>11 DEF Recover
  <1>12. ASSUME NEW p \in Procs, Restore(p) PROVE TypeOK'
    BY <1>12 DEF Restore
  <1>13. ASSUME NEW p \in Procs, PutBack(p) PROVE TypeOK'
    BY <1>13 DEF PutBack
  <1>14. ASSUME NEW p \in Procs, DropBefore(p) PROVE TypeOK'
    BY <1>14 DEF DropBefore
  <1>15. ASSUME NEW p \in Procs, DropNext(p) PROVE TypeOK'
    BY <1>15 DEF DropNext
  <1>16. ASSUME NEW p \in Procs, DropMarker(p) PROVE TypeOK'
    BY <1>16 DEF DropMarker
  <1>17. ASSUME NEW p \in Procs, Stage(p) PROVE TypeOK'
    BY <1>17 DEF Stage
  <1>18. ASSUME NEW p \in Procs, Publish(p) PROVE TypeOK'
    <2>1. entry[p] \in Entries
      BY <1>18 DEF IInv, Knows, EntryIsNew, Uncommitted, Publish
    <2>2. marker' \in Markers
      BY <1>18, <2>1 DEF Publish, Markers, Entries
    <2> QED BY <1>18, <2>2 DEF Publish
  <1>19. ASSUME NEW p \in Procs, SetAside(p) PROVE TypeOK'
    <2>1. marker \in Markers
      BY <1>19 DEF IInv, Knows, OwnerKnows, Ours, SetAside
    <2>2. file[marker.ns] \in {None} \cup Texts
      BY <2>1 DEF Markers
    <2>3. before' \in {None} \cup Texts /\ file' \in [Namespaces -> {None} \cup Texts]
      BY <1>19, <2>2 DEF SetAside
    <2> QED BY <1>19, <2>3 DEF SetAside
  <1>20. ASSUME NEW p \in Procs, Install(p) PROVE TypeOK'
    BY <1>20 DEF Install
  <1>21. ASSUME NEW p \in Procs, AppendEntry(p) PROVE TypeOK'
    <2>1. entry[p] \in Entries
      BY <1>21 DEF IInv, Knows, EntryIsNew, Uncommitted, AppendEntry
    <2>2. journal' \in Seq(Entries) /\ recorded' \in [Namespaces -> Texts]
      BY <1>21, <2>1, AppendTypes DEF AppendEntry
    <2> QED BY <1>21, <2>2 DEF AppendEntry
  <1>22. ASSUME NEW p \in Procs, StageFails(p) PROVE TypeOK'
    BY <1>22 DEF StageFails
  <1>23. ASSUME NEW p \in Procs, PublishFails(p) PROVE TypeOK'
    BY <1>23 DEF PublishFails
  <1>24. ASSUME NEW p \in Procs, ReplaceFails(p) PROVE TypeOK'
    BY <1>24 DEF ReplaceFails
  <1>25. ASSUME NEW p \in Procs, CleanupFails(p) PROVE TypeOK'
    BY <1>25 DEF CleanupFails
  <1>26. ASSUME NEW p \in Procs, RecoveryFails(p) PROVE TypeOK'
    BY <1>26 DEF RecoveryFails
  <1>27. ASSUME NEW p \in Procs, NEW r \in Requests \cup {Snapshot}, Call(p, r) PROVE TypeOK'
    BY <1>27 DEF Call
  <1>28. CASE CrashAll
    <2>1. {} \in Texts
      BY DEF Texts
    <2>2. pc' \in [Procs -> Labels] /\ holder' \in Procs \cup {None, Stale}
      BY <1>28 DEF CrashAll
    <2>3. /\ req' \in [Procs -> {None, Boot, Snapshot} \cup Requests]
          /\ entry' \in [Procs -> {None} \cup Entries]
          /\ cand' \in [Procs -> Texts]
          /\ then' \in [Procs -> {"stage", "done", "failed"}]
      BY <1>28, <2>1 DEF CrashAll
    <2>4. crashes' \in Nat
      BY <1>28 DEF CrashAll
    <2> QED BY <1>28, <2>2, <2>3, <2>4 DEF CrashAll
  <1>29. CASE UNCHANGED vars
    BY <1>29 DEF vars
  <1> QED BY NextCases, <1>1, <1>2, <1>3, <1>4, <1>5, <1>6, <1>7, <1>8, <1>9, <1>10, <1>11, <1>12, <1>13, <1>14, <1>15, <1>16, <1>17, <1>18, <1>19, <1>20, <1>21, <1>22, <1>23, <1>24, <1>25, <1>26, <1>27, <1>28, <1>29
-----------------------------------------------------------------------------
(* What is preserved by a step that leaves the marker and the journal, or  *)
(* all of the disk, alone.                                                 *)
LEMMA SameCommitted ==
  ASSUME marker' = marker, journal' = journal
  PROVE  Committed' <=> Committed
  BY DEF Committed, Logged

(* A step that leaves the disk alone disturbs nothing but what the         *)
(* processes it moves know.                                                *)
LEMMA SameDisk ==
  ASSUME IInv, UNCHANGED disk
  PROVE  /\ PendingFiles'
         /\ IdsArePositions'
         /\ AppliedAtMostOnce'
         /\ acked' = acked => AnsweredIsJournaled'
         /\ \A p \in Procs :
              (/\ pc'[p] = pc[p] /\ then'[p] = then[p]
               /\ req'[p] = req[p] /\ entry'[p] = entry[p]) => Knows(p)'
  <1> USE DEF disk
  <1>1. Committed' <=> Committed
    BY SameCommitted
  <1>2. PendingFiles'
    BY <1>1 DEF IInv, PendingFiles
  <1>3. IdsArePositions' /\ AppliedAtMostOnce' /\ (acked' = acked => AnsweredIsJournaled')
    BY DEF IInv, IdsArePositions, AppliedAtMostOnce, AnsweredIsJournaled
  <1>4. ASSUME NEW p \in Procs, pc'[p] = pc[p], then'[p] = then[p],
               req'[p] = req[p], entry'[p] = entry[p]
        PROVE  Knows(p)'
    <2>1. Knows(p)
      BY DEF IInv
    <2>2. OwnerKnows(p)'
      BY <1>1, <1>4, <2>1 DEF Knows, OwnerKnows, Ours, Settled
    <2>3. EntryIsNew(p)'
      BY <1>4, <2>1 DEF Knows, EntryIsNew, Uncommitted, OperationId
    <2>4. AnswerIsJournaled(p)'
      BY <1>4, <2>1 DEF Knows, AnswerIsJournaled, Answering, HasKey
    <2> QED BY <1>4, <2>1, <2>2, <2>3, <2>4 DEF Knows
  <1> QED BY <1>2, <1>3, <1>4

(* A process without the lock has nothing to know.                         *)
LEMMA UnlockedKnows ==
  \A p \in Procs : pc'[p] \notin Locked => Knows(p)'
  BY DEF Knows, OwnerKnows, EntryIsNew, Uncommitted, AnswerIsJournaled, Answering,
         Locked, CommitSteps, RecoverySteps

(* A step of the lock's owner that keeps the lock: only what the owner     *)
(* knows can change.                                                       *)
LEMMA OwnerStep ==
  ASSUME IInv, NEW p \in Procs, pc[p] \in Locked, NEW l \in Locked, Goto(p, l),
         holder' = holder, Knows(p)'
  PROVE  LockHeld' /\ \A q \in Procs : Knows(q)'
  <1>1. holder = p /\ pc \in [Procs -> Labels]
    BY DEF IInv, LockHeld, TypeOK
  <1>2. \A q \in Procs : q # p => pc'[q] = pc[q] /\ pc[q] \notin Locked
    BY <1>1 DEF IInv, LockHeld, Goto
  <1>3. pc'[p] = l
    BY <1>1 DEF Goto
  <1>4. LockHeld'
    BY <1>1, <1>2, <1>3 DEF LockHeld
  <1> QED BY <1>2, <1>4, UnlockedKnows

(* A file operation of the owner: what is left to show is what the pending *)
(* files mean afterwards and that the owner knows it.                      *)
LEMMA FileStep ==
  ASSUME IInv, TypeOK', NEW p \in Procs, pc[p] \in Locked,
         NEW l \in Locked \ {"evaluate"}, Goto(p, l), KeepJournal,
         UNCHANGED <<holder, req, entry, acked>>,
         Uncommitted(p)' => Uncommitted(p), Answering(p)' => Answering(p),
         PendingFiles', OwnerKnows(p)'
  PROVE  IInv'
  <1>1. Knows(p)
    BY DEF IInv
  <1>2. pc'[p] = l
    BY DEF IInv, TypeOK, Goto
  <1>3. EntryIsNew(p)'
    BY <1>1 DEF Knows, EntryIsNew, KeepJournal, OperationId
  <1>4. AnswerIsJournaled(p)'
    BY <1>1 DEF Knows, AnswerIsJournaled, HasKey, KeepJournal
  <1>5. Knows(p)'
    BY <1>2, <1>3, <1>4 DEF Knows
  <1>6. LockHeld' /\ \A q \in Procs : Knows(q)'
    BY <1>5, OwnerStep
  <1>7. CallersAsk'
    BY <1>2 DEF IInv, CallersAsk, TypeOK, Goto, Locked, CommitSteps, RecoverySteps
  <1>8. IdsArePositions' /\ AppliedAtMostOnce' /\ AnsweredIsJournaled'
    BY DEF IInv, IdsArePositions, AppliedAtMostOnce, AnsweredIsJournaled, KeepJournal
  <1> QED BY <1>6, <1>7, <1>8 DEF IInv

(* Every step of a recovery, a completion or a rollback preserves IInv.    *)
LEMMA RecoveryInv ==
  ASSUME IInv, TypeOK', NEW p \in Procs
  PROVE  /\ Recover(p) => IInv'
         /\ Restore(p) => IInv'
         /\ PutBack(p) => IInv'
         /\ DropBefore(p) => IInv'
         /\ DropNext(p) => IInv'
         /\ DropMarker(p) => IInv'
  <1> USE DEF Locked, CommitSteps, RecoverySteps
  <1>1. ASSUME Recover(p) PROVE IInv'
    <2>1. PendingFiles'
      BY <1>1, SameCommitted DEF Recover, IInv, TypeOK, Knows, OwnerKnows, PendingFiles, KeepCall, KeepJournal, Ours, Settled
    <2>2. OwnerKnows(p)'
      BY <1>1, SameCommitted DEF Recover, IInv, TypeOK, Knows, OwnerKnows, PendingFiles, Goto, KeepCall, KeepJournal, Ours, Settled
    <2>3. PICK l \in Locked \ {"evaluate"} : Goto(p, l)
      BY <1>1 DEF Recover, IInv, TypeOK
    <2>4. (Uncommitted(p)' => Uncommitted(p)) /\ (Answering(p)' => Answering(p))
      BY <1>1 DEF Recover, IInv, TypeOK, Goto, Uncommitted, Answering, Completing
    <2> QED BY <1>1, <2>1, <2>2, <2>3, <2>4, FileStep DEF Recover, KeepCall
  <1>2. ASSUME Restore(p) PROVE IInv'
    <2>1. PendingFiles'
      BY <1>2, SameCommitted DEF Restore, IInv, TypeOK, Knows, OwnerKnows, PendingFiles, KeepCall, KeepJournal, Ours, Settled
    <2>2. OwnerKnows(p)'
      <3>1. marker # None /\ ~Committed /\ marker \in Markers /\ pc'[p] \in {"putBack", "dropNext", "failed"}
        BY <1>2 DEF Restore, IInv, TypeOK, Knows, OwnerKnows, Goto
      <3>2. marker' = marker /\ before' = before /\ ~Committed'
        BY <1>2, <3>1, SameCommitted DEF Restore, KeepJournal
      <3>3. pc'[p] = "putBack" => before # None
        BY <1>2, <3>1 DEF Restore, IInv, TypeOK, Goto
      <3>4. pc'[p] = "dropNext" => before = None
        BY <1>2 DEF Restore, IInv, TypeOK, Goto
      <3>5. pc'[p] = "dropNext" /\ ~marker.hadPrevious => file'[marker.ns] = None
        BY <1>2, <3>1, <3>4 DEF Restore, IInv, TypeOK, Goto, Markers
      <3> QED BY <3>1, <3>2, <3>3, <3>4, <3>5 DEF OwnerKnows, Settled
    <2>3. PICK l \in Locked \ {"evaluate"} : Goto(p, l)
      BY <1>2 DEF Restore, IInv, TypeOK
    <2>4. (Uncommitted(p)' => Uncommitted(p)) /\ (Answering(p)' => Answering(p))
      BY <1>2 DEF Restore, IInv, TypeOK, Goto, Uncommitted, Answering, Completing
    <2> QED BY <1>2, <2>1, <2>2, <2>3, <2>4, FileStep DEF Restore, KeepCall
  <1>3. ASSUME PutBack(p) PROVE IInv'
    <2>1. PendingFiles'
      BY <1>3, SameCommitted DEF PutBack, IInv, TypeOK, Knows, OwnerKnows, PendingFiles, KeepCall, KeepJournal, Ours, Settled
    <2>2. OwnerKnows(p)'
      BY <1>3, SameCommitted DEF PutBack, IInv, TypeOK, Knows, OwnerKnows, PendingFiles, Goto, KeepCall, KeepJournal, Ours, Settled
    <2>3. PICK l \in Locked \ {"evaluate"} : Goto(p, l)
      BY <1>3 DEF PutBack, IInv, TypeOK
    <2>4. (Uncommitted(p)' => Uncommitted(p)) /\ (Answering(p)' => Answering(p))
      BY <1>3 DEF PutBack, IInv, TypeOK, Goto, Uncommitted, Answering, Completing
    <2> QED BY <1>3, <2>1, <2>2, <2>3, <2>4, FileStep DEF PutBack, KeepCall
  <1>4. ASSUME DropBefore(p) PROVE IInv'
    <2>1. PendingFiles'
      BY <1>4, SameCommitted DEF DropBefore, IInv, TypeOK, Knows, OwnerKnows, PendingFiles, KeepCall, KeepJournal, Ours, Settled
    <2>2. OwnerKnows(p)'
      <3>1. Committed /\ marker # None /\ pc'[p] = "dropNext"
        BY <1>4 DEF DropBefore, IInv, TypeOK, Knows, OwnerKnows, Goto, Committed
      <3>2. Committed' /\ marker' = marker /\ before' = None
        BY <1>4, <3>1, SameCommitted DEF DropBefore, KeepJournal
      <3> QED BY <3>1, <3>2 DEF OwnerKnows, Settled
    <2>3. PICK l \in Locked \ {"evaluate"} : Goto(p, l)
      BY <1>4 DEF DropBefore, IInv, TypeOK
    <2>4. (Uncommitted(p)' => Uncommitted(p)) /\ (Answering(p)' => Answering(p))
      BY <1>4 DEF DropBefore, IInv, TypeOK, Goto, Uncommitted, Answering, Completing
    <2> QED BY <1>4, <2>1, <2>2, <2>3, <2>4, FileStep DEF DropBefore, KeepCall
  <1>5. ASSUME DropNext(p) PROVE IInv'
    <2>1. PendingFiles'
      BY <1>5, SameCommitted DEF DropNext, IInv, TypeOK, Knows, OwnerKnows, PendingFiles, KeepCall, KeepJournal, Ours, Settled
    <2>2. OwnerKnows(p)'
      BY <1>5, SameCommitted DEF DropNext, IInv, TypeOK, Knows, OwnerKnows, PendingFiles, Goto, KeepCall, KeepJournal, Ours, Settled
    <2>3. PICK l \in Locked \ {"evaluate"} : Goto(p, l)
      BY <1>5 DEF DropNext, IInv, TypeOK
    <2>4. (Uncommitted(p)' => Uncommitted(p)) /\ (Answering(p)' => Answering(p))
      BY <1>5 DEF DropNext, IInv, TypeOK, Goto, Uncommitted, Answering, Completing
    <2> QED BY <1>5, <2>1, <2>2, <2>3, <2>4, FileStep DEF DropNext, KeepCall
  <1>6. ASSUME DropMarker(p) PROVE IInv'
    <2>1. PendingFiles'
      <3>1. marker' = None /\ before' = None
        BY <1>6 DEF DropMarker, IInv, Knows, OwnerKnows, Settled
      <3> QED BY <3>1 DEF PendingFiles, Committed
    <2>2. OwnerKnows(p)'
      BY <1>6, SameCommitted DEF DropMarker, IInv, TypeOK, Knows, OwnerKnows, PendingFiles, Goto, KeepCall, KeepJournal, Ours, Settled
    <2>3. PICK l \in Locked \ {"evaluate"} : Goto(p, l)
      BY <1>6 DEF DropMarker, IInv, TypeOK
    <2>4. (Uncommitted(p)' => Uncommitted(p)) /\ (Answering(p)' => Answering(p))
      BY <1>6 DEF DropMarker, IInv, TypeOK, Goto, Uncommitted, Answering, Completing
    <2> QED BY <1>6, <2>1, <2>2, <2>3, <2>4, FileStep DEF DropMarker, KeepCall
  <1> QED BY <1>1, <1>2, <1>3, <1>4, <1>5, <1>6

(* So does every step of commitMutation up to its commit point.            *)
LEMMA CommitInv ==
  ASSUME IInv, TypeOK', NEW p \in Procs
  PROVE  /\ Stage(p) => IInv'
         /\ Publish(p) => IInv'
         /\ SetAside(p) => IInv'
         /\ Install(p) => IInv'
  <1> USE DEF Locked, CommitSteps, RecoverySteps
  <1>1. ASSUME Stage(p) PROVE IInv'
    <2>1. PendingFiles'
      BY <1>1, SameCommitted DEF Stage, IInv, TypeOK, Knows, OwnerKnows, PendingFiles, KeepCall, KeepJournal, Ours, Settled
    <2>2. OwnerKnows(p)'
      <3>1. pc'[p] \in {"publish", "failed"} /\ cand[p] # None
        BY <1>1, NullsAssumption DEF Stage, IInv, TypeOK, Texts, Goto
      <3>2. pc'[p] = "publish" => next' = cand[p] /\ before' = None /\ marker' = None
        BY <1>1 DEF Stage, IInv, TypeOK, Goto
      <3> QED BY <3>1, <3>2 DEF OwnerKnows
    <2>3. PICK l \in Locked \ {"evaluate"} : Goto(p, l)
      BY <1>1 DEF Stage, IInv, TypeOK
    <2>4. (Uncommitted(p)' => Uncommitted(p)) /\ (Answering(p)' => Answering(p))
      BY <1>1 DEF Stage, IInv, TypeOK, Goto, Uncommitted, Answering, Completing
    <2> QED BY <1>1, <2>1, <2>2, <2>3, <2>4, FileStep DEF Stage, KeepCall
  <1>2. ASSUME Publish(p) PROVE IInv'
    <2>1. PendingFiles' /\ OwnerKnows(p)'
      <3>1. /\ next # None /\ before = None
            /\ entry[p] \in Entries /\ Changes(entry[p])
            /\ \A i \in DOMAIN journal : ~SameKey(journal[i], entry[p])
        BY <1>2 DEF Publish, IInv, Knows, OwnerKnows, EntryIsNew, Uncommitted
      <3>2. /\ marker'.ns = entry[p].ns
            /\ marker'.entry = entry[p]
            /\ marker'.hadPrevious = (file[entry[p].ns] # None)
            /\ marker' # None
        <4>1. marker' \in Markers
          BY <1>2, <3>1 DEF Publish, IInv, TypeOK, Markers, Entries
        <4>2. marker' = [ns |-> entry[p].ns, entry |-> entry[p],
                         hadPrevious |-> file[entry[p].ns] # None]
          BY <1>2 DEF Publish
        <4> QED BY <4>1, <4>2, NoneIsNoRecord
      <3>3. UNCHANGED <<file, next, before, journal, entry>> /\ pc'[p] = "setAside"
        BY <1>2 DEF Publish, KeepCall, KeepJournal, IInv, TypeOK, Goto
      <3>4. ~Committed'
        BY <3>1, <3>2, <3>3 DEF Committed, Logged, SameKey
      <3>5. PendingFiles'
        BY <3>1, <3>2, <3>3, <3>4 DEF PendingFiles
      <3>6. OwnerKnows(p)'
        BY <3>1, <3>2, <3>3, <3>4 DEF OwnerKnows, Ours
      <3> QED BY <3>5, <3>6
    <2>3. PICK l \in Locked \ {"evaluate"} : Goto(p, l)
      BY <1>2 DEF Publish, IInv, TypeOK
    <2>4. (Uncommitted(p)' => Uncommitted(p)) /\ (Answering(p)' => Answering(p))
      BY <1>2 DEF Publish, IInv, TypeOK, Goto, Uncommitted, Answering, Completing
    <2> QED BY <1>2, <2>1, <2>3, <2>4, FileStep DEF Publish, KeepCall
  <1>3. ASSUME SetAside(p) PROVE IInv'
    <2>1. PendingFiles'
      BY <1>3, SameCommitted DEF SetAside, IInv, TypeOK, Knows, OwnerKnows, PendingFiles, KeepCall, KeepJournal, Ours, Settled
    <2>2. OwnerKnows(p)'
      BY <1>3, SameCommitted DEF SetAside, IInv, TypeOK, Knows, OwnerKnows, PendingFiles, Goto, KeepCall, KeepJournal, Ours, Settled
    <2>3. PICK l \in Locked \ {"evaluate"} : Goto(p, l)
      BY <1>3 DEF SetAside, IInv, TypeOK
    <2>4. (Uncommitted(p)' => Uncommitted(p)) /\ (Answering(p)' => Answering(p))
      BY <1>3 DEF SetAside, IInv, TypeOK, Goto, Uncommitted, Answering, Completing
    <2> QED BY <1>3, <2>1, <2>2, <2>3, <2>4, FileStep DEF SetAside, KeepCall
  <1>4. ASSUME Install(p) PROVE IInv'
    <2>1. PendingFiles'
      BY <1>4, SameCommitted DEF Install, IInv, TypeOK, Knows, OwnerKnows, PendingFiles, KeepCall, KeepJournal, Ours, Settled
    <2>2. OwnerKnows(p)'
      BY <1>4, SameCommitted DEF Install, IInv, TypeOK, Knows, OwnerKnows, PendingFiles, Goto, KeepCall, KeepJournal, Ours, Settled
    <2>3. PICK l \in Locked \ {"evaluate"} : Goto(p, l)
      BY <1>4 DEF Install, IInv, TypeOK
    <2>4. (Uncommitted(p)' => Uncommitted(p)) /\ (Answering(p)' => Answering(p))
      BY <1>4 DEF Install, IInv, TypeOK, Goto, Uncommitted, Answering, Completing
    <2> QED BY <1>4, <2>1, <2>2, <2>3, <2>4, FileStep DEF Install, KeepCall
  <1> QED BY <1>1, <1>2, <1>3, <1>4

(* So does every I/O error, wherever it strikes.                           *)
LEMMA FaultInv ==
  ASSUME IInv, TypeOK', NEW p \in Procs
  PROVE  /\ StageFails(p) => IInv'
         /\ PublishFails(p) => IInv'
         /\ ReplaceFails(p) => IInv'
         /\ CleanupFails(p) => IInv'
         /\ RecoveryFails(p) => IInv'
  <1> USE DEF Locked, CommitSteps, RecoverySteps, disk
  <1>1. ASSUME StageFails(p) PROVE IInv'
    <2>1. PendingFiles'
      BY <1>1, SameCommitted DEF StageFails, IInv, TypeOK, Knows, OwnerKnows, PendingFiles, KeepCall, KeepJournal, Ours, Settled
    <2>2. OwnerKnows(p)'
      BY <1>1, SameCommitted DEF StageFails, IInv, TypeOK, Knows, OwnerKnows, PendingFiles, Goto, KeepCall, KeepJournal, Ours, Settled
    <2>3. PICK l \in Locked \ {"evaluate"} : Goto(p, l)
      BY <1>1 DEF StageFails, IInv, TypeOK
    <2>4. (Uncommitted(p)' => Uncommitted(p)) /\ (Answering(p)' => Answering(p))
      BY <1>1 DEF StageFails, IInv, TypeOK, Goto, Uncommitted, Answering, Completing
    <2> QED BY <1>1, <2>1, <2>2, <2>3, <2>4, FileStep DEF StageFails, KeepCall
  <1>2. ASSUME PublishFails(p) PROVE IInv'
    <2>1. PendingFiles'
      BY <1>2, SameCommitted DEF PublishFails, IInv, TypeOK, Knows, OwnerKnows, PendingFiles, KeepCall, KeepJournal, Ours, Settled
    <2>2. OwnerKnows(p)'
      BY <1>2, SameCommitted DEF PublishFails, IInv, TypeOK, Knows, OwnerKnows, PendingFiles, Goto, KeepCall, KeepJournal, Ours, Settled
    <2>3. PICK l \in Locked \ {"evaluate"} : Goto(p, l)
      BY <1>2 DEF PublishFails, IInv, TypeOK
    <2>4. (Uncommitted(p)' => Uncommitted(p)) /\ (Answering(p)' => Answering(p))
      BY <1>2 DEF PublishFails, IInv, TypeOK, Goto, Uncommitted, Answering, Completing
    <2> QED BY <1>2, <2>1, <2>2, <2>3, <2>4, FileStep DEF PublishFails, KeepCall
  <1>3. ASSUME ReplaceFails(p) PROVE IInv'
    <2>1. PendingFiles'
      BY <1>3, SameCommitted DEF ReplaceFails, IInv, TypeOK, Knows, OwnerKnows, PendingFiles, KeepCall, KeepJournal, Ours, Settled
    <2>2. OwnerKnows(p)'
      BY <1>3, SameCommitted DEF ReplaceFails, IInv, TypeOK, Knows, OwnerKnows, PendingFiles, Goto, KeepCall, KeepJournal, Ours, Settled
    <2>3. PICK l \in Locked \ {"evaluate"} : Goto(p, l)
      BY <1>3 DEF ReplaceFails, IInv, TypeOK
    <2>4. (Uncommitted(p)' => Uncommitted(p)) /\ (Answering(p)' => Answering(p))
      BY <1>3 DEF ReplaceFails, IInv, TypeOK, Goto, Uncommitted, Answering, Completing
    <2> QED BY <1>3, <2>1, <2>2, <2>3, <2>4, FileStep DEF ReplaceFails, KeepCall
  <1>4. ASSUME CleanupFails(p) PROVE IInv'
    <2>1. PendingFiles'
      BY <1>4, SameCommitted DEF CleanupFails, IInv, TypeOK, Knows, OwnerKnows, PendingFiles, KeepCall, KeepJournal, Ours, Settled
    <2>2. OwnerKnows(p)'
      BY <1>4, SameCommitted DEF CleanupFails, IInv, TypeOK, Knows, OwnerKnows, PendingFiles, Goto, KeepCall, KeepJournal, Ours, Settled
    <2>3. PICK l \in Locked \ {"evaluate"} : Goto(p, l)
      BY <1>4 DEF CleanupFails, IInv, TypeOK
    <2>4. (Uncommitted(p)' => Uncommitted(p)) /\ (Answering(p)' => Answering(p))
      BY <1>4 DEF CleanupFails, IInv, TypeOK, Goto, Uncommitted, Answering, Completing
    <2>5. pc[p] \in Locked /\ UNCHANGED <<holder, req, entry, acked>> /\ KeepJournal
      BY <1>4 DEF CleanupFails, Completing, KeepCall
    <2> QED BY <2>1, <2>2, <2>3, <2>4, <2>5, FileStep
  <1>5. ASSUME RecoveryFails(p) PROVE IInv'
    <2>1. PendingFiles'
      BY <1>5, SameCommitted DEF RecoveryFails, IInv, TypeOK, Knows, OwnerKnows, PendingFiles, KeepCall, KeepJournal, Ours, Settled
    <2>2. OwnerKnows(p)'
      BY <1>5, SameCommitted DEF RecoveryFails, IInv, TypeOK, Knows, OwnerKnows, PendingFiles, Goto, KeepCall, KeepJournal, Ours, Settled
    <2>3. PICK l \in Locked \ {"evaluate"} : Goto(p, l)
      BY <1>5 DEF RecoveryFails, IInv, TypeOK
    <2>4. (Uncommitted(p)' => Uncommitted(p)) /\ (Answering(p)' => Answering(p))
      BY <1>5 DEF RecoveryFails, IInv, TypeOK, Goto, Uncommitted, Answering, Completing
    <2> QED BY <1>5, <2>1, <2>2, <2>3, <2>4, FileStep
         DEF RecoveryFails, KeepJournal, local
  <1> QED BY <1>1, <1>2, <1>3, <1>4, <1>5

(* Steps that leave the disk alone: other processes know what they knew.   *)
LEMMA CallInv ==
  ASSUME IInv, TypeOK', NEW p \in Procs
  PROVE  /\ Start(p) => IInv'
         /\ (\E r \in Requests \cup {Snapshot} : Call(p, r)) => IInv'
         /\ Acquire(p) => IInv'
         /\ BreakStaleLock(p) => IInv'
         /\ LockTimeout(p) => IInv'
         /\ Return(p) => IInv'
         /\ Crash(p) => IInv'
  <1>0. TypeOK /\ LockHeld /\ CallersAsk
    BY DEF IInv
  <1> USE <1>0 DEF Locked, CommitSteps, RecoverySteps
  <1>f. ASSUME UNCHANGED disk, UNCHANGED acked, LockHeld', CallersAsk', Knows(p)',
               \A q \in Procs \ {p} : pc'[q] = pc[q] /\ then'[q] = then[q]
                                    /\ req'[q] = req[q] /\ entry'[q] = entry[q]
        PROVE  IInv'
    BY <1>f, SameDisk DEF IInv
  <1>1. ASSUME Start(p) PROVE IInv'
    <2>1. LockHeld' /\ CallersAsk'
      BY <1>1, NullsAssumption DEF Start, Goto, LockHeld, CallersAsk, TypeOK, local, Forget
    <2>2. Knows(p)'
      BY <1>1, UnlockedKnows DEF Start, Goto, TypeOK
    <2>3. \A q \in Procs \ {p} : pc'[q] = pc[q] /\ then'[q] = then[q]
                                 /\ req'[q] = req[q] /\ entry'[q] = entry[q]
      BY <1>1 DEF Start, Goto, Forget, TypeOK, local
    <2> QED BY <1>1, <2>1, <2>2, <2>3, <1>f DEF Start, ghost
  <1>2. ASSUME NEW r \in Requests \cup {Snapshot}, Call(p, r) PROVE IInv'
    <2>1. LockHeld' /\ CallersAsk'
      BY <1>2, NullsAssumption DEF Call, Goto, LockHeld, CallersAsk, TypeOK, local, Forget
    <2>2. Knows(p)'
      BY <1>2, UnlockedKnows DEF Call, Goto, TypeOK
    <2>3. \A q \in Procs \ {p} : pc'[q] = pc[q] /\ then'[q] = then[q]
                                 /\ req'[q] = req[q] /\ entry'[q] = entry[q]
      BY <1>2 DEF Call, Goto, Forget, TypeOK, local
    <2> QED BY <1>2, <2>1, <2>2, <2>3, <1>f DEF Call, ghost
  <1>3. ASSUME Acquire(p) PROVE IInv'
    <2>1. LockHeld' /\ CallersAsk'
      BY <1>3, NullsAssumption DEF Acquire, Goto, LockHeld, CallersAsk, TypeOK, local, Forget
    <2>2. Knows(p)'
      <3>1. pc'[p] \in {"recover", "evaluate"} /\ then'[p] = "done" /\ req'[p] = req[p]
        BY <1>3 DEF Acquire, Goto, TypeOK
      <3>2. pc'[p] = "recover" => req[p] \notin Requests
        BY <1>3, NullsAssumption DEF Acquire, Goto, TypeOK
      <3>3. pc'[p] = "evaluate" => req[p] \in Requests
        BY <1>3 DEF Acquire, Goto, TypeOK, CallersAsk
      <3> QED BY <3>1, <3>2, <3>3 DEF Knows, OwnerKnows, EntryIsNew, Uncommitted, AnswerIsJournaled, Answering
    <2>3. \A q \in Procs \ {p} : pc'[q] = pc[q] /\ then'[q] = then[q]
                                 /\ req'[q] = req[q] /\ entry'[q] = entry[q]
      BY <1>3 DEF Acquire, Goto, Forget, TypeOK, local
    <2> QED BY <1>3, <2>1, <2>2, <2>3, <1>f DEF Acquire, ghost
  <1>4. ASSUME BreakStaleLock(p) PROVE IInv'
    <2>1. LockHeld' /\ CallersAsk'
      BY <1>4, NullsAssumption DEF BreakStaleLock, Goto, LockHeld, CallersAsk, TypeOK, local, Forget
    <2>2. Knows(p)'
      BY <1>4, UnlockedKnows DEF BreakStaleLock
    <2>3. \A q \in Procs \ {p} : pc'[q] = pc[q] /\ then'[q] = then[q]
                                 /\ req'[q] = req[q] /\ entry'[q] = entry[q]
      BY <1>4 DEF BreakStaleLock, Goto, Forget, TypeOK, local
    <2> QED BY <1>4, <2>1, <2>2, <2>3, <1>f DEF BreakStaleLock, ghost
  <1>5. ASSUME LockTimeout(p) PROVE IInv'
    <2>1. LockHeld' /\ CallersAsk'
      BY <1>5, NullsAssumption DEF LockTimeout, Goto, LockHeld, CallersAsk, TypeOK, local, Forget
    <2>2. Knows(p)'
      BY <1>5, UnlockedKnows DEF LockTimeout, Goto, TypeOK
    <2>3. \A q \in Procs \ {p} : pc'[q] = pc[q] /\ then'[q] = then[q]
                                 /\ req'[q] = req[q] /\ entry'[q] = entry[q]
      BY <1>5 DEF LockTimeout, Goto, Forget, TypeOK, local
    <2> QED BY <1>5, <2>1, <2>2, <2>3, <1>f DEF LockTimeout, ghost
  <1>6. ASSUME Return(p) PROVE IInv'
    <2>1. LockHeld' /\ CallersAsk'
      BY <1>6, NullsAssumption DEF Return, Goto, LockHeld, CallersAsk, TypeOK, local, Forget
    <2>2. Knows(p)'
      BY <1>6, UnlockedKnows DEF Return, Goto, TypeOK
    <2>3. \A q \in Procs \ {p} : pc'[q] = pc[q] /\ then'[q] = then[q]
                                 /\ req'[q] = req[q] /\ entry'[q] = entry[q]
      BY <1>6 DEF Return, Goto, Forget, TypeOK
    <2>4. UNCHANGED disk
      BY <1>6 DEF Return
    <2>5. AnsweredIsJournaled'
      <3>1. journal' = journal
        BY <2>4 DEF disk
      <3>2. CASE pc[p] = "done" /\ req[p] \in Requests /\ Explicit(req[p])
        <4>1. HasKey(req[p])
          BY <3>2 DEF IInv, Knows, AnswerIsJournaled, Answering
        <4>2. acked' = acked \cup {[op |-> req[p].op, ns |-> req[p].ns, opId |-> req[p].opId]}
          BY <1>6, <3>2 DEF Return
        <4> QED BY <3>1, <4>1, <4>2 DEF IInv, AnsweredIsJournaled, HasKey
      <3>3. CASE ~(pc[p] = "done" /\ req[p] \in Requests /\ Explicit(req[p]))
        BY <1>6, <3>1, <3>3 DEF Return, IInv, AnsweredIsJournaled
      <3> QED BY <3>2, <3>3
    <2> QED BY <2>1, <2>2, <2>3, <2>4, <2>5, SameDisk DEF IInv
  <1>7. ASSUME Crash(p) PROVE IInv'
    <2>1. LockHeld' /\ CallersAsk'
      BY <1>7, NullsAssumption DEF Crash, Goto, LockHeld, CallersAsk, TypeOK, local, Forget
    <2>2. Knows(p)'
      BY <1>7, UnlockedKnows DEF Crash, Goto, TypeOK
    <2>3. \A q \in Procs \ {p} : pc'[q] = pc[q] /\ then'[q] = then[q]
                                 /\ req'[q] = req[q] /\ entry'[q] = entry[q]
      BY <1>7 DEF Crash, Goto, Forget, TypeOK, local
    <2> QED BY <1>7, <2>1, <2>2, <2>3, <1>f DEF Crash, ghost
  <1> QED BY <1>1, <1>2, <1>3, <1>4, <1>5, <1>6, <1>7

(* So does the loss of every process at once: the files keep their         *)
(* meaning.                                                                *)
LEMMA CrashAllInv ==
  ASSUME IInv, TypeOK', CrashAll
  PROVE  IInv'
  <1>1. \A p \in Procs : pc'[p] = "down"
    BY DEF CrashAll
  <1>2. \A p \in Procs : pc'[p] \notin Locked
    BY <1>1 DEF Locked, CommitSteps, RecoverySteps
  <1>3. LockHeld' /\ CallersAsk'
    BY <1>1, <1>2, NullsAssumption DEF CrashAll, LockHeld, CallersAsk
  <1>4. \A p \in Procs : Knows(p)'
    BY <1>2, UnlockedKnows
  <1> QED BY <1>3, <1>4, SameDisk DEF IInv, CrashAll, ghost

(* A journal that gets one more entry, of a new operation.                 *)
LEMMA JournalGrows ==
  ASSUME IInv, NEW e \in Entries, journal' = Append(journal, e), acked' = acked,
         \A i \in DOMAIN journal : ~SameKey(journal[i], e),
         e.opId \in Nat => e.opId = Len(journal) + 1
  PROVE  /\ IdsArePositions' /\ AppliedAtMostOnce' /\ AnsweredIsJournaled'
         /\ \A x : Logged(x)' <=> (Logged(x) \/ x = e)
         /\ \E i \in DOMAIN journal' : journal'[i] = e
  <1>1. journal \in Seq(Entries)
    BY DEF IInv, TypeOK
  <1>2. /\ DOMAIN journal = 1..Len(journal) /\ Len(journal) \in Nat
        /\ DOMAIN journal' = 1..(Len(journal) + 1)
        /\ \A i \in DOMAIN journal : journal'[i] = journal[i]
        /\ journal'[Len(journal) + 1] = e
    BY <1>1
  <1>3. DOMAIN journal' = DOMAIN journal \cup {Len(journal) + 1}
    BY <1>2
  <1>4. IdsArePositions'
    BY <1>2, <1>3 DEF IInv, IdsArePositions
  <1>5. AppliedAtMostOnce'
    BY <1>2, <1>3 DEF IInv, AppliedAtMostOnce, SameKey
  <1>6. AnsweredIsJournaled'
    BY <1>2, <1>3 DEF IInv, AnsweredIsJournaled
  <1>7. \A x : Logged(x)' <=> (Logged(x) \/ x = e)
    BY <1>2, <1>3 DEF Logged
  <1> QED BY <1>2, <1>3, <1>4, <1>5, <1>6, <1>7

(* An operation that the journal does not hold gets an entry that is new.  *)
LEMMA NewKey ==
  ASSUME IInv, NEW r \in Requests, Explicit(r) => Prior(r) = {}
  PROVE  /\ NewEntry(r) \in Entries
         /\ \A i \in DOMAIN journal : ~SameKey(journal[i], NewEntry(r))
         /\ NewEntry(r).opId \in Nat => NewEntry(r).opId = Len(journal) + 1
         /\ Changes(NewEntry(r)) <=> ~NoOp(r)
  <1>1. NewEntry(r) \in Entries
    BY HelperTypes DEF IInv
  <1>2. /\ NewEntry(r).op = r.op /\ NewEntry(r).ns = r.ns
        /\ NewEntry(r).opId = OperationId(r)
    BY DEF NewEntry
  <1>3. Len(journal) \in Nat /\ DOMAIN journal = 1..Len(journal)
    BY DEF IInv, TypeOK
  <1>4. Changes(NewEntry(r)) <=> ~NoOp(r)
    BY <1>1, HelperTypes DEF IInv, Changes, NewEntry, NoOp, Texts
  <1>5. CASE Explicit(r)
    <2>1. OperationId(r) = r.opId /\ r.opId \notin Nat
      BY <1>5, RequestsAssumption DEF OperationId
    <2> QED BY <1>1, <1>2, <1>4, <1>5, <2>1 DEF Prior, SameKey
  <1>6. CASE ~Explicit(r)
    <2>1. OperationId(r) = Len(journal) + 1
      BY <1>6 DEF OperationId
    <2>2. \A i \in DOMAIN journal : journal[i].opId # Len(journal) + 1
      BY <1>3 DEF IInv, IdsArePositions
    <2> QED BY <1>1, <1>2, <1>4, <2>1, <2>2 DEF SameKey
  <1> QED BY <1>5, <1>6

(* So does a mutator's evaluation, whether it replays an earlier answer,   *)
(* proposes a candidate, records a no-op or refuses.                       *)
LEMMA EvaluateInv ==
  ASSUME IInv, TypeOK', NEW p \in Procs
  PROVE  /\ Replay(p) => IInv'
         /\ Refuse(p) => IInv'
         /\ Propose(p) => IInv'
         /\ NothingToDo(p) => IInv'
  <1> USE DEF Locked, CommitSteps, RecoverySteps
  <1>0. TypeOK /\ LockHeld /\ CallersAsk /\ PendingFiles /\ Knows(p)
    BY DEF IInv
  <1>1. ASSUME Replay(p) PROVE IInv'
    <2>1. PICK l \in {"done", "failed"} : Goto(p, l)
      BY <1>1 DEF Replay
    <2>2. pc'[p] = l
      BY <1>0, <2>1 DEF TypeOK, Goto
    <2>3. HasKey(req[p])'
      BY <1>1 DEF Replay, Prior, HasKey, disk, local
    <2>4. Knows(p)'
      BY <1>1, <2>2, <2>3 DEF Replay, local, Knows, OwnerKnows, EntryIsNew, Uncommitted,
                              AnswerIsJournaled, Answering
    <2>5. LockHeld' /\ \A q \in Procs : Knows(q)'
      BY <1>1, <2>1, <2>4, OwnerStep DEF Replay
    <2>6. CallersAsk'
      BY <1>0, <1>1, <2>1 DEF Replay, local, CallersAsk, Goto, TypeOK
    <2> QED BY <1>1, <2>5, <2>6, SameDisk DEF IInv, Replay, ghost
  <1>2. ASSUME Refuse(p) PROVE IInv'
    <2>1. pc'[p] = "failed"
      BY <1>0, <1>2 DEF TypeOK, Refuse, Goto
    <2>2. Knows(p)'
      BY <2>1 DEF Knows, OwnerKnows, EntryIsNew, Uncommitted, AnswerIsJournaled, Answering
    <2>3. LockHeld' /\ \A q \in Procs : Knows(q)'
      BY <1>2, <2>2, OwnerStep DEF Refuse, Evaluates
    <2>4. CallersAsk'
      BY <1>0, <1>2 DEF Refuse, local, CallersAsk, Goto, TypeOK
    <2> QED BY <1>2, <2>3, <2>4, SameDisk DEF IInv, Refuse, ghost
  <1>3. ASSUME Propose(p) PROVE IInv'
    <2>1. req[p] \in Requests /\ (Explicit(req[p]) => Prior(req[p]) = {}) /\ ~NoOp(req[p])
      BY <1>0, <1>3 DEF Knows, Propose, Evaluates
    <2>2. pc'[p] = "recover" /\ then'[p] = "stage" /\ entry'[p] = NewEntry(req[p])
      BY <1>0, <1>3 DEF Propose, Goto, TypeOK
    <2>3. UNCHANGED disk /\ req' = req
      BY <1>3 DEF Propose
    <2>4. NewEntry(req[p]).op = req[p].op /\ NewEntry(req[p]).ns = req[p].ns
          /\ NewEntry(req[p]).opId = OperationId(req[p])
      BY DEF NewEntry
    <2>5. OperationId(req[p])' = OperationId(req[p])
      BY <2>3 DEF OperationId, disk
    <2>6. EntryIsNew(p)'
      BY <2>1, <2>2, <2>3, <2>4, <2>5, NewKey DEF EntryIsNew, disk
    <2>7. Knows(p)'
      BY <2>2, <2>6 DEF Knows, OwnerKnows, AnswerIsJournaled, Answering
    <2>8. LockHeld' /\ \A q \in Procs : Knows(q)'
      BY <1>3, <2>7, OwnerStep DEF Propose, Evaluates
    <2>9. CallersAsk'
      BY <1>0, <1>3 DEF Propose, CallersAsk, Goto, TypeOK
    <2> QED BY <1>3, <2>8, <2>9, SameDisk DEF IInv, Propose, ghost
  <1>4. ASSUME NothingToDo(p) PROVE IInv'
    <2>1. req[p] \in Requests /\ (Explicit(req[p]) => Prior(req[p]) = {}) /\ NoOp(req[p])
      BY <1>0, <1>4 DEF Knows, NothingToDo, Evaluates
    <2>2. pc'[p] = "done" /\ req' = req /\ acked' = acked
      BY <1>0, <1>4 DEF NothingToDo, Goto, TypeOK, local
    <2>3. CallersAsk'
      BY <1>0, <1>4 DEF NothingToDo, local, CallersAsk, Goto, TypeOK
    <2>4. Explicit(req[p]) => HasKey(req[p])' /\ PendingFiles' /\ IdsArePositions'
                              /\ AppliedAtMostOnce' /\ AnsweredIsJournaled'
      <3> SUFFICES ASSUME Explicit(req[p])
                   PROVE  HasKey(req[p])' /\ PendingFiles' /\ IdsArePositions'
                          /\ AppliedAtMostOnce' /\ AnsweredIsJournaled'
        OBVIOUS
      <3> DEFINE e == NewEntry(req[p])
      <3>1. journal' = Append(journal, e) /\ UNCHANGED <<file, next, before, marker>>
        BY <1>4 DEF NothingToDo, AppendJournal
      <3>2. /\ e \in Entries /\ ~Changes(e)
            /\ \A i \in DOMAIN journal : ~SameKey(journal[i], e)
            /\ e.opId \in Nat => e.opId = Len(journal) + 1
        BY <2>1, NewKey
      <3>3. e.op = req[p].op /\ e.ns = req[p].ns /\ e.opId = req[p].opId
        BY DEF NewEntry, OperationId
      <3> HIDE DEF e
      <3>4. /\ IdsArePositions' /\ AppliedAtMostOnce' /\ AnsweredIsJournaled'
            /\ \A x : Logged(x)' <=> (Logged(x) \/ x = e)
            /\ \E i \in DOMAIN journal' : journal'[i] = e
        BY <2>2, <3>1, <3>2, JournalGrows
      <3>5. HasKey(req[p])'
        BY <2>2, <3>3, <3>4 DEF HasKey
      <3>6. Committed' <=> Committed
        BY <1>0, <3>1, <3>2, <3>4 DEF Committed, PendingFiles
      <3>7. PendingFiles'
        BY <1>0, <3>1, <3>6 DEF PendingFiles
      <3> QED BY <3>4, <3>5, <3>7
    <2>5. ~Explicit(req[p]) => PendingFiles' /\ IdsArePositions'
                              /\ AppliedAtMostOnce' /\ AnsweredIsJournaled'
      BY <1>4, <2>2, SameDisk DEF NothingToDo, KeepJournal, disk
    <2>6. Knows(p)'
      BY <2>2, <2>4 DEF Knows, OwnerKnows, EntryIsNew, Uncommitted, AnswerIsJournaled, Answering
    <2>7. LockHeld' /\ \A q \in Procs : Knows(q)'
      BY <1>4, <2>6, OwnerStep DEF NothingToDo, Evaluates
    <2> QED BY <2>3, <2>4, <2>5, <2>7 DEF IInv
  <1> QED BY <1>1, <1>2, <1>3, <1>4

(* The commit point.                                                       *)
LEMMA AppendInv ==
  ASSUME IInv, TypeOK', NEW p \in Procs, AppendEntry(p)
  PROVE  IInv'
  <1>0. TypeOK /\ LockHeld /\ CallersAsk /\ PendingFiles /\ Knows(p) /\ pc[p] = "append"
    BY DEF IInv, AppendEntry
  <1>1. /\ req[p] \in Requests /\ entry[p] \in Entries
        /\ entry[p].op = req[p].op /\ entry[p].ns = req[p].ns
        /\ entry[p].opId = OperationId(req[p])
        /\ \A i \in DOMAIN journal : ~SameKey(journal[i], entry[p])
    BY <1>0 DEF Knows, EntryIsNew, Uncommitted, CommitSteps
  <1>2. Explicit(req[p]) => OperationId(req[p]) = req[p].opId
    BY DEF OperationId
  <1>3. entry[p].opId \in Nat => entry[p].opId = Len(journal) + 1
    BY <1>1, RequestsAssumption DEF OperationId
  <1>4. /\ journal' = Append(journal, entry[p])
        /\ UNCHANGED <<file, next, before, marker, req, entry, acked, holder>>
        /\ pc'[p] = "dropBefore" /\ then'[p] = "done"
    BY <1>0 DEF AppendEntry, AppendJournal, KeepCall, Goto, TypeOK
  <1>5. /\ IdsArePositions' /\ AppliedAtMostOnce' /\ AnsweredIsJournaled'
        /\ \A x : Logged(x)' <=> (Logged(x) \/ x = entry[p])
        /\ \E i \in DOMAIN journal' : journal'[i] = entry[p]
    BY <1>1, <1>3, <1>4, JournalGrows
  <1>6. Committed' /\ file[marker.ns] # None
    BY <1>0, <1>4, <1>5 DEF Knows, OwnerKnows, Ours, Committed
  <1>7. PendingFiles'
    BY <1>0, <1>4, <1>6 DEF PendingFiles
  <1>8. HasKey(req[p])' \/ ~Explicit(req[p])
    BY <1>1, <1>2, <1>4, <1>5 DEF HasKey
  <1>9. Knows(p)'
    BY <1>4, <1>6, <1>8 DEF Knows, OwnerKnows, EntryIsNew, Uncommitted, CommitSteps,
                          AnswerIsJournaled
  <1>10. LockHeld' /\ \A q \in Procs : Knows(q)'
    BY <1>0, <1>4, <1>9, OwnerStep DEF AppendEntry, Locked, CommitSteps, RecoverySteps
  <1>11. CallersAsk'
    BY <1>0, <1>4 DEF AppendEntry, CallersAsk, Goto, TypeOK
  <1> QED BY <1>5, <1>7, <1>10, <1>11 DEF IInv

(* Nothing has happened yet.                                               *)
LEMMA InitInv == Init => IInv
  <1> SUFFICES ASSUME Init PROVE IInv
    OBVIOUS
  <1>1. TypeOK
    <2>1. abandoned \in BOOLEAN
      BY DEF Init
    <2> QED BY <2>1 DEF Init, TypeOK, Labels, Texts
  <1>2. LockHeld /\ CallersAsk
    BY NullsAssumption DEF Init, LockHeld, CallersAsk, Locked, CommitSteps, RecoverySteps
  <1>3. PendingFiles
    BY DEF Init, PendingFiles, Committed
  <1>4. ASSUME NEW p \in Procs PROVE Knows(p)
    BY DEF Init, Knows, OwnerKnows, EntryIsNew, Uncommitted, AnswerIsJournaled, Answering,
           CommitSteps, RecoverySteps
  <1>5. IdsArePositions /\ AppliedAtMostOnce /\ AnsweredIsJournaled
    BY DEF Init, IdsArePositions, AppliedAtMostOnce, AnsweredIsJournaled
  <1> QED BY <1>1, <1>2, <1>3, <1>4, <1>5 DEF IInv

(* Every step preserves the invariant.                                     *)
LEMMA InvStep == IInv /\ [Next]_vars => IInv'
  <1> SUFFICES ASSUME IInv, [Next]_vars PROVE IInv'
    OBVIOUS
  <1>1. TypeOK'
    BY TypeStep
  <1>2. CASE UNCHANGED vars
    <2>1. UNCHANGED disk /\ UNCHANGED <<holder, pc, req, entry, then, acked>>
      BY <1>2 DEF vars, local, ghost
    <2>2. LockHeld' /\ CallersAsk'
      BY <2>1 DEF IInv, LockHeld, CallersAsk
    <2> QED BY <1>1, <2>1, <2>2, SameDisk DEF IInv
  <1>3. CASE Next
    BY <1>1, <1>3, NextCases, CallInv, CrashAllInv, EvaluateInv, RecoveryInv, CommitInv,
       AppendInv, FaultInv
  <1> QED BY <1>2, <1>3

(* What a recovery would leave depends on these files only.                *)
LEMMA SameEffect ==
  ASSUME UNCHANGED <<file, before, marker, journal>>
  PROVE  EffectiveText' = EffectiveText
  <1>1. Committed' <=> Committed
    BY SameCommitted
  <1>2. \A n \in Namespaces : Text(Effective(n))' = Text(Effective(n))
    BY <1>1 DEF Effective, Text
  <1> QED BY <1>2 DEF EffectiveText

(* The renames and unlinks that touch a namespace file, its backup or the  *)
(* marker leave what a recovery would leave as it is.                      *)
LEMMA FileEffect ==
  ASSUME IInv, NEW p \in Procs,
         Restore(p) \/ PutBack(p) \/ DropBefore(p) \/ DropMarker(p)
           \/ Publish(p) \/ SetAside(p) \/ Install(p)
  PROVE  EffectiveText' = EffectiveText
  <1>1. TypeOK /\ PendingFiles /\ OwnerKnows(p)
    BY DEF IInv, Knows
  <1>2. journal' = journal
    BY DEF Restore, PutBack, DropBefore, DropMarker, Publish, SetAside, Install, KeepJournal
  <1>3. marker' = marker => (Committed' <=> Committed)
    BY <1>2, SameCommitted
  <1>4. file \in [Namespaces -> {None} \cup Texts]
    BY <1>1 DEF TypeOK
  <1>5. Committed => marker # None
    BY DEF Committed
  <1> SUFFICES ASSUME NEW n \in Namespaces PROVE Effective(n)' = Effective(n)
    BY DEF EffectiveText, Text
  <1>6. CASE Restore(p)
    <2>1. marker # None /\ ~Committed
      BY <1>1, <1>6 DEF OwnerKnows, Restore
    <2> QED BY <1>1, <1>3, <1>4, <1>6, <2>1 DEF Restore, Effective, PendingFiles
  <1>7. CASE PutBack(p)
    <2>1. marker # None /\ ~Committed /\ before # None /\ marker.hadPrevious
      BY <1>1, <1>7 DEF OwnerKnows, PutBack, PendingFiles
    <2> QED BY <1>3, <1>4, <1>7, <2>1 DEF PutBack, Effective
  <1>8. CASE DropBefore(p)
    <2>1. Committed
      BY <1>1, <1>8 DEF OwnerKnows, DropBefore
    <2> QED BY <1>3, <1>8, <2>1 DEF DropBefore, Effective
  <1>9. CASE DropMarker(p)
    <2>1. Settled
      BY <1>1, <1>9 DEF OwnerKnows, DropMarker
    <2> QED BY <1>9, <2>1 DEF DropMarker, Effective, Settled
  <1>10. CASE Publish(p)
    <2>1. before = None /\ marker = None
      BY <1>1, <1>10 DEF OwnerKnows, Publish
    <2>2. marker'.ns = entry[p].ns /\ marker'.hadPrevious = (file[entry[p].ns] # None)
          /\ file' = file /\ before' = before
      BY <1>10 DEF Publish
    <2> QED BY <2>1, <2>2 DEF Effective
  <1>11. CASE SetAside(p)
    <2>1. /\ marker # None /\ ~Committed /\ before = None
          /\ marker.hadPrevious <=> file[marker.ns] # None
      BY <1>1, <1>11 DEF OwnerKnows, Ours, SetAside
    <2> QED BY <1>3, <1>4, <1>11, <2>1 DEF SetAside, Effective
  <1>12. CASE Install(p)
    <2>1. /\ marker # None /\ ~Committed
          /\ marker.hadPrevious => before # None
      BY <1>1, <1>12 DEF OwnerKnows, Ours, Install
    <2> QED BY <1>3, <1>4, <1>12, <2>1 DEF Install, Effective
  <1> QED BY <1>6, <1>7, <1>8, <1>9, <1>10, <1>11, <1>12

(* A step that changes what a recovery would leave appends to the journal. *)
LEMMA CommitPoint ==
  ASSUME IInv, [Next]_vars, journal' = journal
  PROVE  EffectiveText' = EffectiveText
  <1>1. CASE UNCHANGED vars
    BY <1>1, SameEffect DEF vars, disk
  <1>2. CASE CrashAll
    BY <1>2, SameEffect DEF CrashAll, disk
  <1>3. ASSUME NEW p \in Procs,
               \/ Start(p) \/ (\E r \in Requests \cup {Snapshot} : Call(p, r))
               \/ Acquire(p) \/ BreakStaleLock(p) \/ LockTimeout(p) \/ Return(p)
               \/ Crash(p) \/ Replay(p) \/ Propose(p) \/ Refuse(p)
        PROVE  EffectiveText' = EffectiveText
    BY <1>3, SameEffect DEF disk, Start, Call, Acquire, BreakStaleLock, LockTimeout,
         Return, Crash, Replay, Propose, Refuse
  <1>4. ASSUME NEW p \in Procs,
               \/ Recover(p) \/ DropNext(p) \/ Stage(p) \/ StageFails(p) \/ PublishFails(p)
               \/ ReplaceFails(p) \/ CleanupFails(p) \/ RecoveryFails(p) \/ NothingToDo(p)
        PROVE  EffectiveText' = EffectiveText
    BY <1>4, SameEffect DEF disk, Recover, DropNext, Stage, StageFails, PublishFails,
         ReplaceFails, CleanupFails, RecoveryFails, NothingToDo, KeepJournal
  <1>5. ASSUME NEW p \in Procs, AppendEntry(p) PROVE FALSE
    <2>1. journal \in Seq(Entries) /\ journal = Append(journal, entry[p])
      BY <1>5 DEF IInv, TypeOK, AppendEntry, AppendJournal
    <2>2. Len(Append(journal, entry[p])) = Len(journal) + 1 /\ Len(journal) \in Nat
      BY <2>1
    <2> QED BY <2>1, <2>2
  <1> QED BY <1>1, <1>2, <1>3, <1>4, <1>5, FileEffect, NextCases

(***************************************************************************)
(* The theorems.                                                           *)
(***************************************************************************)
(* The strengthened invariant holds in every state.                        *)
THEOREM Invariance == Spec => []IInv
  BY InitInv, InvStep, PTL DEF Spec

(* Every variable stays in its type.                                       *)
THEOREM TypeCorrect == Spec => []TypeOK
  <1>1. IInv => TypeOK
    BY DEF IInv
  <1> QED BY <1>1, Invariance, PTL

(* Whatever a crash or an I/O error leaves on disk, the code's refusals    *)
(* (an orphaned backup, a lost previous file, a committed mutation without *)
(* its file, unresolved pending files at a commit) are never reached.      *)
THEOREM RecoveryAlwaysPossible == Spec => []RecoveryNeverRefuses
  <1>1. IInv => RecoveryNeverRefuses
    BY DEF IInv, PendingFiles, Knows, OwnerKnows, RecoveryNeverRefuses
  <1> QED BY <1>1, Invariance, PTL

(* An operation id takes effect at most once per operation and namespace,  *)
(* through any number of crashes, late errors and retries.                 *)
THEOREM AtMostOnce == Spec => []AppliedAtMostOnce
  <1>1. IInv => AppliedAtMostOnce
    BY DEF IInv
  <1> QED BY <1>1, Invariance, PTL

(* An operation answered with success is in the journal for ever after.    *)
THEOREM AnswersAreDurable == Spec => []AnsweredIsJournaled
  <1>1. IInv => AnsweredIsJournaled
    BY DEF IInv
  <1> QED BY <1>1, Invariance, PTL

(* The journal append is the only commit point: no rename, unlink, crash,  *)
(* error or recovery changes what the store will turn out to hold.         *)
THEOREM CommitsOnlyByJournal == Spec => OnlyTheJournalCommits
  <1>1. IInv /\ [Next]_vars => [EffectiveText' # EffectiveText => journal' # journal]_vars
    BY CommitPoint
  <1> QED BY <1>1, Invariance, PTL DEF Spec, OnlyTheJournalCommits
-----------------------------------------------------------------------------
(* The locks of the commit protocol are one LockOwner, the specification   *)
(* that the lock file implements (FileLockProofs).                         *)

Inside == {p \in Procs : pc[p] \in Locked}

Lock == INSTANCE LockOwner WITH inside <- Inside

(* Who is inside follows from who owns the lock.                           *)
LEMMA InsideIsOwner ==
  /\ IInv => Inside = {p \in Procs : holder = p}
  /\ IInv' => Inside' = {p \in Procs : holder' = p}
  BY DEF IInv, LockHeld, Inside

(* Only these steps have to do with the lock.                              *)
LEMMA HolderSteps ==
  ASSUME [Next]_vars, holder' # holder
  PROVE  \/ \E p \in Procs : Acquire(p) \/ BreakStaleLock(p) \/ Return(p) \/ Crash(p)
         \/ CrashAll
  <1>1. Next
    BY DEF vars
  <1>2. ASSUME NEW p \in Procs,
               Start(p) \/ (\E r \in Requests \cup {Snapshot} : Call(p, r))
                 \/ LockTimeout(p) \/ Evaluate(p)
        PROVE  FALSE
    BY <1>2 DEF Start, Call, LockTimeout, Evaluate, Replay, Propose, NothingToDo, Refuse
  <1>3. ASSUME NEW p \in Procs, Recovery(p) PROVE FALSE
    BY <1>3 DEF Recovery, Recover, Restore, PutBack, DropBefore, DropNext, DropMarker, KeepCall
  <1>4. ASSUME NEW p \in Procs, Commit(p) PROVE FALSE
    BY <1>4 DEF Commit, Stage, Publish, SetAside, Install, AppendEntry, KeepCall
  <1>5. ASSUME NEW p \in Procs, Fault(p) PROVE FALSE
    BY <1>5 DEF Fault, StageFails, PublishFails, ReplaceFails, CleanupFails,
      RecoveryFails, KeepCall
  <1> QED BY <1>1, <1>2, <1>3, <1>4, <1>5 DEF Next, Step

(* Every step of the protocol uses the lock as LockOwner says.             *)
LEMMA StepUsesLock ==
  ASSUME IInv, IInv', [Next]_vars
  PROVE  [Lock!Next]_(Lock!vars)
  <1> USE NullsAssumption
  <1>i. /\ Inside = {p \in Procs : holder = p}
        /\ Inside' = {p \in Procs : holder' = p}
    BY InsideIsOwner
  <1>1. CASE holder' = holder
    BY <1>1, <1>i DEF Lock!vars
  <1>2. ASSUME NEW p \in Procs, Acquire(p) PROVE Lock!Acquire(p)
    BY <1>2, <1>i DEF Acquire, Lock!Acquire
  <1>3. ASSUME NEW p \in Procs, BreakStaleLock(p) PROVE Lock!Break
    BY <1>3, <1>i DEF BreakStaleLock, Lock!Break
  <1>4. ASSUME NEW p \in Procs, Return(p) PROVE Lock!Release(p)
    <2>1. holder = p
      BY <1>4 DEF Return, IInv, LockHeld, Locked
    <2> QED BY <1>4, <2>1, <1>i DEF Return, Lock!Release
  <1>5. ASSUME NEW p \in Procs, Crash(p), holder' # holder PROVE Lock!Die(p)
    BY <1>5, <1>i DEF Crash, Lock!Die
  <1>6. ASSUME CrashAll, holder' # holder PROVE \E p \in Procs : Lock!Die(p)
    <2>1. holder \in Procs /\ holder' = Stale
      BY <1>6 DEF CrashAll, IInv, TypeOK
    <2>2. Lock!Die(holder)
      BY <2>1, <1>i DEF Lock!Die
    <2> QED BY <2>1, <2>2
  <1>7. CASE holder' # holder
    BY <1>7, HolderSteps, <1>2, <1>3, <1>4, <1>5, <1>6 DEF Lock!Next
  <1> QED BY <1>1, <1>7

(* The mutation lock, the namespace's and the journal's, taken together by *)
(* whoever changes the store, behave as the one lock that a lock file      *)
(* implements: for its safety the commit protocol needs no more of it.     *)
THEOREM CommitsUnderOneLock == Spec => Lock!Spec
  <1>1. Init => Lock!Init
    BY DEF Init, Lock!Init, Inside, Locked, CommitSteps, RecoverySteps
  <1>2. IInv /\ IInv' /\ [Next]_vars => [Lock!Next]_(Lock!vars)
    BY StepUsesLock
  <1> QED BY Invariance, <1>1, <1>2, PTL DEF Spec, Lock!Spec
=============================================================================
