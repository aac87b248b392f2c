------------------------- MODULE AtomicCommitProofs -------------------------
(***************************************************************************)
(* The commit protocol implements the atomic store of AtomicStore, for     *)
(* every set of processes, namespaces, facts and requests and any crashes  *)
(* and I/O errors, as long as no pending files are left to processes that  *)
(* live on (abandoned): when all that live are dead or constructing their  *)
(* store, the next to read has recovered first.  From then on the promise  *)
(* is broken: a mutator evaluates its request before it recovers, so one   *)
(* that lives on computes from a text that the journal does not record.    *)
(*                                                                         *)
(* To the invariant IInv of MutationCommitProofs the proof adds who is     *)
(* dealing with the pending files (Attended), what the candidate of a      *)
(* commit is and where it lies (Carries), and the property itself.         *)
(***************************************************************************)
EXTENDS MutationCommitProofs

(* Between the publication of a marker and its removal.                    *)
Working(p) == pc[p] \in {"setAside", "install", "append"} \cup RecoverySteps

(* Every process is dead or constructing its store.                        *)
NobodyReads == \A p \in Procs : pc[p] = "down" \/ req[p] = Boot

Attended ==
  /\ marker # None => NobodyReads \/ \E p \in Procs : Working(p)
  /\ \A p \in Procs :
       pc[p] \in {"evaluate", "stage", "publish", "done"} => marker = None
  /\ \A p \in Procs : pc[p] = "failed" => marker = None \/ NobodyReads
  /\ \A p \in Procs : pc[p] = "ready" => req[p] = None

(* The candidate is what the entry makes of the recorded text, and it lies *)
(* in the staging file until it is installed.                              *)
Carries(p) ==
  /\ Uncommitted(p) =>
       cand[p] = (recorded[entry[p].ns] \ entry[p].removed) \cup entry[p].added
  /\ pc[p] \in {"publish", "setAside", "install"} => next = cand[p]
  /\ pc[p] = "append" => file[marker.ns] = cand[p]

RecordInv ==
  /\ IInv
  /\ Attended
  /\ \A p \in Procs : Carries(p)
  /\ FilesMatchJournal
-----------------------------------------------------------------------------
(* Only the lock's owner is anywhere between its evaluation and its end.   *)
LEMMA OneOwner ==
  ASSUME IInv, NEW p \in Procs, pc[p] \in Locked
  PROVE  holder = p /\ \A q \in Procs \ {p} : pc[q] \notin Locked
  BY DEF IInv, LockHeld

(* Whoever is not dead and not constructing its store reads.               *)
LEMMA NobodyIsLeft == marker # None /\ ~LeftTo(Procs) => NobodyReads
  BY DEF LeftTo, NobodyReads

(* A step that abandons nothing leaves the pending files to somebody who   *)
(* works on them or to processes that recover before they read.            *)
LEMMA AttendedStep ==
  ASSUME IInv, Attended, Next, ~abandoned'
  PROVE  Attended'
  <1>0. TypeOK /\ LockHeld /\ PendingFiles /\ \A p \in Procs : OwnerKnows(p)
    BY DEF IInv, Knows
  <1> USE DEF Locked, CommitSteps, RecoverySteps
  <1>1. ASSUME NEW p \in Procs, Start(p) PROVE Attended'
    BY <1>0, <1>1 DEF Start, Attended, NobodyReads, Working, TypeOK, Goto, disk
  <1>2. ASSUME NEW p \in Procs, NEW r \in Requests \cup {Snapshot}, Call(p, r) PROVE Attended'
    <2>1. pc[p] = "ready" /\ ~NobodyReads /\ marker' = marker
      BY <1>2, NullsAssumption DEF Call, Attended, NobodyReads, disk
    <2>2. pc'[p] = "wait" /\ \A q \in Procs \ {p} : pc'[q] = pc[q] /\ req'[q] = req[q]
      BY <1>0, <1>2 DEF Call, TypeOK, Goto
    <2> QED BY <2>1, <2>2 DEF Attended, Working
  <1>3. ASSUME NEW p \in Procs, Acquire(p) PROVE Attended'
    <2>1. \A q \in Procs : pc[q] \notin Locked
      BY <1>0, <1>3, NullsAssumption DEF Acquire, LockHeld
    <2>2. marker # None => NobodyReads
      BY <2>1 DEF Attended, Working
    <2>3. /\ pc'[p] = IF req[p] \in {Boot, Snapshot} THEN "recover" ELSE "evaluate"
          /\ \A q \in Procs \ {p} : pc'[q] = pc[q]
          /\ pc[p] = "wait" /\ req' = req /\ marker' = marker
      BY <1>0, <1>3 DEF Acquire, TypeOK, Goto, disk
    <2>4. NobodyReads => req[p] = Boot /\ NobodyReads'
      BY <2>3 DEF NobodyReads
    <2> QED BY <2>1, <2>2, <2>3, <2>4 DEF Attended, Working
  <1>4. ASSUME NEW p \in Procs, BreakStaleLock(p) PROVE Attended'
    BY <1>0, <1>4 DEF BreakStaleLock, Attended, NobodyReads, Working, TypeOK, Goto, disk, local
  <1>5. ASSUME NEW p \in Procs, LockTimeout(p) PROVE Attended'
    <2>1. /\ pc'[p] = IF req[p] = Boot THEN "down" ELSE "ready"
          /\ \A q \in Procs \ {p} : pc'[q] = pc[q] /\ req'[q] = req[q]
          /\ pc[p] = "wait" /\ req'[p] = None /\ marker' = marker
      BY <1>0, <1>5 DEF LockTimeout, TypeOK, Goto, disk, Forget
    <2>2. NobodyReads => NobodyReads'
      BY <2>1 DEF NobodyReads
    <2> QED BY <2>1, <2>2 DEF Attended, Working
  <1>6. ASSUME NEW p \in Procs, Return(p) PROVE Attended'
    <2>1. /\ pc'[p] = IF pc[p] = "failed" /\ req[p] = Boot THEN "down" ELSE "ready"
          /\ \A q \in Procs \ {p} : pc'[q] = pc[q] /\ req'[q] = req[q]
          /\ pc[p] \in {"done", "failed"} /\ req'[p] = None /\ marker' = marker
      BY <1>0, <1>6 DEF Return, TypeOK, Goto, disk, Forget
    <2>2. marker # None => pc[p] = "failed" /\ NobodyReads
      BY <2>1 DEF Attended
    <2>3. NobodyReads /\ pc[p] = "failed" => NobodyReads'
      BY <2>1 DEF NobodyReads
    <2> QED BY <2>1, <2>2, <2>3 DEF Attended, Working
  <1>7. ASSUME NEW p \in Procs, Crash(p) PROVE Attended'
    <2>1. /\ pc'[p] = "down" /\ marker' = marker
          /\ \A q \in Procs \ {p} : pc'[q] = pc[q] /\ req'[q] = req[q]
      BY <1>0, <1>7 DEF Crash, TypeOK, Goto, Forget, disk
    <2>2. NobodyReads => NobodyReads'
      BY <2>1 DEF NobodyReads
    <2>3. CASE holder = p /\ marker # None
      <3>1. ~LeftTo(Procs \ {p})
        BY <1>7, <2>3 DEF Crash
      <3>2. NobodyReads'
        BY <2>1, <2>3, <3>1 DEF LeftTo, NobodyReads
      <3> QED BY <2>1, <3>2, <1>0, <2>3 DEF Attended, LockHeld
    <2>4. CASE holder # p
      <3>1. pc[p] \notin Locked
        BY <1>0, <2>4 DEF LockHeld
      <3> QED BY <2>1, <2>2, <3>1 DEF Attended, Working
    <2>5. CASE marker = None
      BY <2>1, <2>5 DEF Attended
    <2> QED BY <2>3, <2>4, <2>5
  <1>8. CASE CrashAll
    BY <1>8 DEF CrashAll, Attended, NobodyReads, disk
  <1>9. ASSUME NEW p \in Procs, Replay(p) \/ Propose(p) \/ NothingToDo(p) \/ Refuse(p) PROVE Attended'
    <2>1. marker = None /\ marker' = None /\ pc'[p] # "ready" /\ req' = req
          /\ \A q \in Procs \ {p} : pc'[q] = pc[q]
      BY <1>0, <1>9 DEF Replay, Propose, NothingToDo, Refuse, Evaluates, Attended, disk, local,
           TypeOK, Goto
    <2> QED BY <2>1 DEF Attended
  <1>10. ASSUME NEW p \in Procs,
           Stage(p) \/ StageFails(p) \/ PublishFails(p) \/ DropMarker(p) PROVE Attended'
    <2>1. marker' = None /\ req' = req
      BY <1>10 DEF Stage, StageFails, PublishFails, DropMarker, Attended, KeepCall
    <2>2. pc'[p] # "ready" /\ \A q \in Procs \ {p} : pc'[q] = pc[q]
      BY <1>0, <1>10 DEF Stage, StageFails, PublishFails, DropMarker, TypeOK, Goto
    <2> QED BY <2>1, <2>2 DEF Attended
  <1>11. ASSUME NEW p \in Procs, pc[p] \in Locked, Working(p)', req' = req,
                \A q \in Procs \ {p} : pc'[q] = pc[q] PROVE Attended'
    BY <1>11, OneOwner DEF Attended, Working
  <1>12. ASSUME NEW p \in Procs, Recover(p) PROVE Attended'
    <2>0. pc[p] = "recover" /\ req' = req /\ marker' = marker
      BY <1>12 DEF Recover, KeepCall
    <2>1. CASE marker = None
      <3>1. pc'[p] # "ready" /\ \A q \in Procs \ {p} : pc'[q] = pc[q]
        BY <1>0, <1>12 DEF Recover, TypeOK, Goto
      <3> QED BY <2>0, <2>1, <3>1 DEF Attended
    <2>2. CASE marker # None
      <3>1. Goto(p, IF ~Committed THEN "restore" ELSE "dropBefore")
        BY <1>0, <1>12, <2>2 DEF Recover, PendingFiles
      <3> QED BY <1>0, <2>0, <3>1, <1>11 DEF TypeOK, Goto, Working
    <2> QED BY <2>1, <2>2
  <1>13. ASSUME NEW p \in Procs, Restore(p) PROVE Attended'
    <2>1. marker # None /\ ~Committed
      BY <1>0, <1>13 DEF OwnerKnows, Restore
    <2>2. \E l \in {"putBack", "dropNext"} : Goto(p, l)
      BY <1>0, <1>13, <2>1 DEF Restore, PendingFiles
    <2> QED BY <1>0, <1>13, <2>2, <1>11 DEF TypeOK, Goto, Working, Restore, KeepCall
  <1>14. ASSUME NEW p \in Procs, PutBack(p) \/ DropBefore(p) \/ DropNext(p) \/ Publish(p)
                \/ SetAside(p) \/ Install(p) \/ AppendEntry(p)
                \/ ReplaceFails(p) \/ CleanupFails(p)
         PROVE Attended'
    <2>1. /\ pc[p] \in Locked /\ req' = req
          /\ \E l \in {"setAside", "install", "append"} \cup RecoverySteps : Goto(p, l)
      BY <1>14 DEF PutBack, DropBefore, DropNext, Publish, SetAside, Install, AppendEntry,
            ReplaceFails, CleanupFails, Completing, KeepCall
    <2> QED BY <1>0, <2>1, <1>11 DEF TypeOK, Goto, Working
  <1>15. ASSUME NEW p \in Procs, RecoveryFails(p) PROVE Attended'
    <2>1. /\ pc'[p] = "failed" /\ pc[p] \in RecoverySteps /\ req' = req /\ marker' = marker
          /\ \A q \in Procs \ {p} : pc'[q] = pc[q]
      BY <1>0, <1>15 DEF RecoveryFails, TypeOK, Goto, disk, local
    <2>2. ~LeftTo(Procs)
      BY <1>15 DEF RecoveryFails
    <2>3. marker # None => NobodyReads
      BY <2>2, NobodyIsLeft
    <2>4. NobodyReads => NobodyReads'
      BY <2>1 DEF NobodyReads
    <2> QED BY <2>1, <2>3, <2>4 DEF Attended
  <1> QED BY NextCases, <1>1, <1>2, <1>3, <1>4, <1>5, <1>6, <1>7, <1>8, <1>9, <1>10, <1>12,
             <1>13, <1>14, <1>15

(* The journal and its replay change together, and only at two steps: the  *)
(* append of a commit, and the marker of an explicit no-op.                *)
LEMMA JournalSteps ==
  ASSUME Next
  PROVE  \/ UNCHANGED <<journal, recorded>>
         \/ \E p \in Procs : AppendEntry(p)
         \/ \E p \in Procs : NothingToDo(p) /\ Explicit(req[p])
  <1>1. ASSUME NEW p \in Procs,
               \/ Start(p) \/ (\E r \in Requests \cup {Snapshot} : Call(p, r))
               \/ Acquire(p) \/ BreakStaleLock(p) \/ LockTimeout(p) \/ Return(p)
               \/ Crash(p) \/ Replay(p) \/ Propose(p) \/ Refuse(p)
        PROVE  UNCHANGED <<journal, recorded>>
    BY <1>1 DEF disk, ghost, Start, Call, Acquire, BreakStaleLock, LockTimeout,
         Return, Crash, Replay, Propose, Refuse
  <1>2. ASSUME NEW p \in Procs,
               \/ Recover(p) \/ Restore(p) \/ PutBack(p) \/ DropBefore(p) \/ DropNext(p)
               \/ DropMarker(p) \/ Stage(p) \/ Publish(p) \/ SetAside(p) \/ Install(p)
               \/ StageFails(p) \/ PublishFails(p) \/ ReplaceFails(p) \/ CleanupFails(p)
               \/ RecoveryFails(p)
        PROVE  UNCHANGED <<journal, recorded>>
    BY <1>2 DEF KeepJournal, Recover, Restore, PutBack, DropBefore, DropNext, DropMarker,
         Stage, Publish, SetAside, Install, StageFails, PublishFails, ReplaceFails,
         CleanupFails, RecoveryFails, disk
  <1>3. CASE CrashAll
    BY <1>3 DEF CrashAll, disk, ghost
  <1>4. ASSUME NEW p \in Procs, NothingToDo(p), ~Explicit(req[p])
        PROVE  UNCHANGED <<journal, recorded>>
    BY <1>4 DEF NothingToDo, KeepJournal
  <1> QED BY <1>1, <1>2, <1>3, <1>4, NextCases

(* While no marker is pending, the files are what the store holds.         *)
LEMMA FilesAreRecorded ==
  ASSUME FilesMatchJournal, marker = None, NEW n \in Namespaces
  PROVE  Text(file[n]) = recorded[n]
  <1>1. EffectiveText[n] = recorded[n]
    BY DEF FilesMatchJournal
  <1> QED BY <1>1 DEF EffectiveText, Effective, Text

(* An entry that was evaluated against the recorded text describes the     *)
(* whole difference to the candidate.                                      *)
LEMMA EntryIsDifference ==
  ASSUME IInv, FilesMatchJournal, marker = None, NEW r \in Requests
  PROVE  /\ NewEntry(r).ns = r.ns /\ r.ns \in Namespaces
         /\ Candidate(r) = (recorded[r.ns] \ NewEntry(r).removed) \cup NewEntry(r).added
         /\ NoOp(r) => Candidate(r) = recorded[r.ns]
  <1>1. r.ns \in Namespaces
    BY RequestsAssumption
  <1>2. Text(file[r.ns]) = recorded[r.ns]
    BY <1>1, FilesAreRecorded
  <1>3. /\ NewEntry(r).ns = r.ns
        /\ NewEntry(r).removed = recorded[r.ns] \ Candidate(r)
        /\ NewEntry(r).added = Candidate(r) \ recorded[r.ns]
    BY <1>2 DEF NewEntry
  <1> HIDE DEF NewEntry, Candidate
  <1>4. \A A, B : B = (A \ (A \ B)) \cup (B \ A)
    OBVIOUS
  <1> QED BY <1>1, <1>2, <1>3, <1>4 DEF NoOp

(* The marker of an explicit no-op leaves the replay of the journal alone. *)
LEMMA NoOpRecords ==
  ASSUME RecordInv, NEW p \in Procs, NothingToDo(p), Explicit(req[p])
  PROVE  /\ journal' = Append(journal, NewEntry(req[p]))
         /\ recorded' = recorded /\ EffectiveText' = EffectiveText
         /\ recorded' = Replayed(NewEntry(req[p]))
         /\ NewEntry(req[p]) \in Entries
         /\ \A i \in DOMAIN journal : ~SameKey(journal[i], NewEntry(req[p]))
  <1> DEFINE r == req[p]
  <1> DEFINE e == NewEntry(r)
  <1>1. /\ r \in Requests /\ Prior(r) = {} /\ NoOp(r) /\ marker = None
        /\ IInv /\ TypeOK /\ FilesMatchJournal
    BY DEF RecordInv, IInv, Knows, NothingToDo, Evaluates, Attended
  <1>2. /\ journal' = Append(journal, e) /\ recorded' = Replayed(e)
        /\ UNCHANGED <<file, next, before, marker>>
    BY DEF NothingToDo, AppendJournal
  <1>3. /\ e.ns = r.ns /\ r.ns \in Namespaces
        /\ recorded[r.ns] = (recorded[r.ns] \ e.removed) \cup e.added
    BY <1>1, EntryIsDifference
  <1>4. e \in Entries /\ \A i \in DOMAIN journal : ~SameKey(journal[i], e)
    BY <1>1, NewKey
  <1> HIDE DEF e, r
  <1>5. recorded' = recorded
    BY <1>1, <1>2, <1>3 DEF Replayed, TypeOK
  <1>6. EffectiveText' = EffectiveText
    <2>1. \A n \in Namespaces : Text(Effective(n))' = Text(Effective(n))
      BY <1>1, <1>2 DEF Effective, Text
    <2> QED BY <2>1 DEF EffectiveText
  <1> QED BY <1>2, <1>4, <1>5, <1>6 DEF e, r

(* The commit point installs the text that the entry describes.            *)
LEMMA AppendRecords ==
  ASSUME RecordInv, NEW p \in Procs, AppendEntry(p)
  PROVE  /\ journal' = Append(journal, entry[p])
         /\ recorded' = Replayed(entry[p])
         /\ EffectiveText' = recorded'
         /\ entry[p] \in Entries
         /\ \A i \in DOMAIN journal : ~SameKey(journal[i], entry[p])
  <1>1. /\ journal' = Append(journal, entry[p]) /\ recorded' = Replayed(entry[p])
        /\ UNCHANGED <<file, next, before, marker>> /\ pc[p] = "append"
    BY DEF AppendEntry, AppendJournal
  <1>2. IInv /\ TypeOK /\ PendingFiles /\ Knows(p) /\ Carries(p) /\ FilesMatchJournal
    BY DEF RecordInv, IInv
  <1>3. /\ entry[p] \in Entries
        /\ \A i \in DOMAIN journal : ~SameKey(journal[i], entry[p])
    BY <1>1, <1>2 DEF Knows, EntryIsNew, Uncommitted, CommitSteps
  <1>4. /\ marker # None /\ marker.entry = entry[p] /\ marker.ns = entry[p].ns /\ ~Committed
    BY <1>1, <1>2 DEF Knows, OwnerKnows, Ours, PendingFiles
  <1>5. file[marker.ns] = (recorded[marker.ns] \ entry[p].removed) \cup entry[p].added
    BY <1>1, <1>2, <1>4 DEF Carries, Uncommitted, CommitSteps
  <1>6. marker.ns \in Namespaces
    BY <1>3, <1>4 DEF Entries
  <1>7. Committed'
    <2>1. journal \in Seq(Entries)
      BY <1>2 DEF TypeOK
    <2>2. Len(journal) + 1 \in DOMAIN journal' /\ journal'[Len(journal) + 1] = entry[p]
      BY <1>1, <1>3, <2>1
    <2> QED BY <1>1, <1>4, <2>2 DEF Committed, Logged
  <1>8. file[marker.ns] # None /\ Text(file[marker.ns]) = file[marker.ns]
    BY <1>1, <1>2 DEF Knows, OwnerKnows, Text
  <1>9. ASSUME NEW n \in Namespaces PROVE Text(Effective(n))' = recorded'[n]
    <2>1. Effective(n)' = file[n]
      BY <1>1, <1>7 DEF Effective
    <2>2. CASE n = marker.ns
      <3>1. recorded'[n] = file[n]
        BY <1>1, <1>2, <1>4, <1>5, <1>6, <2>2 DEF Replayed, TypeOK
      <3> QED BY <1>8, <2>1, <2>2, <3>1 DEF Text
    <2>3. CASE n # marker.ns
      <3>1. recorded'[n] = recorded[n]
        BY <1>1, <1>2, <1>4, <1>6, <2>3 DEF Replayed, TypeOK
      <3>2. Effective(n) = file[n]
        BY <1>4, <2>3 DEF Effective
      <3>3. EffectiveText[n] = recorded[n]
        BY <1>2 DEF FilesMatchJournal
      <3> QED BY <2>1, <3>1, <3>2, <3>3 DEF EffectiveText, Text
    <2> QED BY <2>2, <2>3
  <1>10. EffectiveText' = recorded'
    <2>1. recorded' = [n \in Namespaces |-> recorded'[n]]
      BY <1>1, <1>2 DEF Replayed, TypeOK
    <2>2. EffectiveText' = [n \in Namespaces |-> Text(Effective(n))']
      BY DEF EffectiveText
    <2> QED BY <1>9, <2>1, <2>2
  <1> QED BY <1>1, <1>3, <1>10

(* Every step keeps the store what the journal records.                    *)
LEMMA MatchStep ==
  ASSUME RecordInv, Next
  PROVE  FilesMatchJournal'
  <1>1. CASE UNCHANGED <<journal, recorded>>
    BY <1>1, CommitPoint DEF RecordInv, FilesMatchJournal
  <1>2. ASSUME NEW p \in Procs, AppendEntry(p) PROVE FilesMatchJournal'
    BY <1>2, AppendRecords DEF FilesMatchJournal
  <1>3. ASSUME NEW p \in Procs, NothingToDo(p), Explicit(req[p]) PROVE FilesMatchJournal'
    BY <1>3, NoOpRecords DEF RecordInv, FilesMatchJournal
  <1> QED BY <1>1, <1>2, <1>3, JournalSteps

(* A process without the lock carries nothing.                             *)
LEMMA UnlockedCarries ==
  \A p \in Procs : pc'[p] \notin Locked => Carries(p)'
  BY DEF Carries, Uncommitted, Locked, CommitSteps, RecoverySteps

(* A step of the lock's owner: only what the owner carries can change.     *)
LEMMA OwnerCarries ==
  ASSUME IInv, NEW p \in Procs, pc[p] \in Locked,
         \A q \in Procs \ {p} : pc'[q] = pc[q], Carries(p)'
  PROVE  \A q \in Procs : Carries(q)'
  BY OneOwner, UnlockedCarries

(* Every step keeps the candidate what the entry makes of the recorded     *)
(* text, from its evaluation to its installation.                          *)
LEMMA CarriesStep ==
  ASSUME RecordInv, Next
  PROVE  \A p \in Procs : Carries(p)'
  <1>0. /\ IInv /\ TypeOK /\ PendingFiles /\ FilesMatchJournal /\ Attended
        /\ \A p \in Procs : Knows(p) /\ Carries(p)
    BY DEF RecordInv, IInv
  <1> USE DEF Locked, CommitSteps, RecoverySteps
  <1>1. ASSUME NEW p \in Procs,
               Start(p) \/ (\E r \in Requests \cup {Snapshot} : Call(p, r)) \/ LockTimeout(p)
                 \/ Return(p) \/ BreakStaleLock(p) \/ Crash(p) \/ Acquire(p)
        PROVE  \A q \in Procs : Carries(q)'
    <2> SUFFICES ASSUME NEW q \in Procs PROVE Carries(q)'
      OBVIOUS
    <2>1. UNCHANGED disk /\ UNCHANGED recorded
      BY <1>1 DEF Start, Call, LockTimeout, Return, BreakStaleLock, Crash, Acquire, ghost
    <2>2. CASE q = p
      <3>1. BreakStaleLock(p) => pc'[p] = "wait"
        BY DEF BreakStaleLock
      <3>2. pc'[p] \in {"wait", "down", "ready", "evaluate"}
              \/ (pc'[p] = "recover" /\ then'[p] = "done")
        BY <1>0, <1>1, <3>1 DEF Start, Call, LockTimeout, Return, Crash, Acquire, Goto, TypeOK
      <3> QED BY <2>2, <3>2 DEF Carries, Uncommitted
    <2>3. CASE q # p
      <3>1. pc'[q] = pc[q] /\ then'[q] = then[q] /\ entry'[q] = entry[q] /\ cand'[q] = cand[q]
        BY <1>0, <1>1, <2>3 DEF Start, Call, LockTimeout, Return, BreakStaleLock, Crash, Acquire,
             Goto, Forget, TypeOK, local
      <3> QED BY <1>0, <2>1, <3>1 DEF Carries, Uncommitted, disk
    <2> QED BY <2>2, <2>3
  <1>2. CASE CrashAll
    BY <1>2, UnlockedCarries DEF CrashAll
  <1>3. ASSUME NEW p \in Procs, Replay(p) \/ NothingToDo(p) \/ Refuse(p)
        PROVE  \A q \in Procs : Carries(q)'
    <2>1. pc[p] = "evaluate" /\ \E l \in {"done", "failed"} : Goto(p, l)
      BY <1>3 DEF Replay, NothingToDo, Refuse, Evaluates
    <2>2. Carries(p)'
      BY <1>0, <2>1 DEF Goto, TypeOK, Carries, Uncommitted
    <2> QED BY <1>0, <2>1, <2>2, OwnerCarries DEF Goto, TypeOK
  <1>4. ASSUME NEW p \in Procs, Propose(p) PROVE \A q \in Procs : Carries(q)'
    <2>1. req[p] \in Requests /\ pc[p] = "evaluate" /\ marker = None
      BY <1>0, <1>4 DEF Knows, Propose, Evaluates, Attended
    <2>2. /\ Goto(p, "recover") /\ cand'[p] = Candidate(req[p])
          /\ entry'[p] = NewEntry(req[p]) /\ recorded' = recorded
      BY <1>0, <1>4 DEF Propose, TypeOK, ghost
    <2>3. Candidate(req[p]) = (recorded[NewEntry(req[p]).ns] \ NewEntry(req[p]).removed)
                                \cup NewEntry(req[p]).added
      BY <1>0, <2>1, EntryIsDifference
    <2>4. pc'[p] = "recover" /\ \A q \in Procs \ {p} : pc'[q] = pc[q]
      BY <1>0, <2>2 DEF Goto, TypeOK
    <2> HIDE DEF Candidate, NewEntry
    <2>5. Carries(p)'
      BY <2>2, <2>3, <2>4 DEF Carries
    <2> QED BY <1>0, <2>1, <2>4, <2>5, OwnerCarries
  <1>5. ASSUME NEW p \in Procs, pc[p] \in Locked,
               NEW l \in RecoverySteps \cup {"failed", "done"}, Goto(p, l),
               Uncommitted(p)' => Uncommitted(p), UNCHANGED <<recorded, entry, cand>>
        PROVE  \A q \in Procs : Carries(q)'
    <2>1. pc'[p] = l /\ \A q \in Procs \ {p} : pc'[q] = pc[q]
      BY <1>0, <1>5 DEF Goto, TypeOK
    <2>2. Carries(p)'
      BY <1>0, <1>5, <2>1 DEF Carries
    <2> QED BY <1>0, <1>5, <2>1, <2>2, OwnerCarries
  <1>6. ASSUME NEW p \in Procs,
               Restore(p) \/ PutBack(p) \/ DropBefore(p) \/ DropNext(p)
                 \/ StageFails(p) \/ PublishFails(p) \/ ReplaceFails(p)
                 \/ CleanupFails(p) \/ RecoveryFails(p)
        PROVE  \A q \in Procs : Carries(q)'
    <2>1. PICK l \in RecoverySteps \cup {"failed"} : Goto(p, l) /\ pc[p] \in Locked
      BY <1>6 DEF Restore, PutBack, DropBefore, DropNext, StageFails, PublishFails,
           ReplaceFails, CleanupFails, RecoveryFails, Completing
    <2>2. UNCHANGED <<recorded, entry, cand>>
      BY <1>6 DEF Restore, PutBack, DropBefore, DropNext, StageFails, PublishFails,
           ReplaceFails, CleanupFails, RecoveryFails, KeepCall, KeepJournal, local
    <2>3. Uncommitted(p)' => Uncommitted(p)
      BY <1>0, <1>6 DEF Restore, PutBack, DropBefore, DropNext, StageFails, PublishFails,
           ReplaceFails, CleanupFails, RecoveryFails, Completing, Goto, TypeOK, Uncommitted
    <2> QED BY <2>1, <2>2, <2>3, <1>5
  <1>7. ASSUME NEW p \in Procs, Recover(p) \/ DropMarker(p) PROVE \A q \in Procs : Carries(q)'
    <2>1. /\ pc[p] \in RecoverySteps /\ UNCHANGED <<recorded, entry, cand, then>>
          /\ \E l \in RecoverySteps \cup {"failed", then[p]} : Goto(p, l)
      BY <1>7 DEF Recover, DropMarker, KeepCall, KeepJournal
    <2>2. /\ pc'[p] \in RecoverySteps \cup {"failed", then[p]}
          /\ \A q \in Procs \ {p} : pc'[q] = pc[q]
      BY <1>0, <2>1 DEF Goto, TypeOK
    <2>3. then[p] \in {"stage", "done", "failed"}
      BY <1>0 DEF TypeOK
    <2>4. Carries(p)'
      BY <1>0, <2>1, <2>2, <2>3 DEF Carries, Uncommitted
    <2> QED BY <1>0, <2>1, <2>2, <2>4, OwnerCarries
  <1>8. ASSUME NEW p \in Procs, Stage(p) \/ Publish(p) \/ SetAside(p) \/ Install(p)
        PROVE  \A q \in Procs : Carries(q)'
    <2>1. /\ pc[p] \in CommitSteps /\ UNCHANGED <<recorded, entry, cand>>
          /\ \E l \in CommitSteps \cup {"failed"} : Goto(p, l)
      BY <1>8 DEF Stage, Publish, SetAside, Install, KeepCall, KeepJournal
    <2>2. /\ pc'[p] \in CommitSteps \cup {"failed"} /\ \A q \in Procs \ {p} : pc'[q] = pc[q]
      BY <1>0, <2>1 DEF Goto, TypeOK
    <2>3. pc'[p] \in {"publish", "setAside", "install"} => next' = cand'[p]
      BY <1>0, <1>8 DEF Stage, Publish, SetAside, Install, KeepCall, Goto, TypeOK, Carries
    <2>4. pc'[p] = "append" => file'[marker'.ns] = cand'[p]
      <3>1. SUFFICES ASSUME Install(p) PROVE file'[marker'.ns] = cand'[p]
        BY <1>0, <1>8 DEF Stage, Publish, SetAside, Install, Goto, TypeOK
      <3>2. marker \in Markers /\ next = cand[p]
        BY <1>0, <3>1 DEF Install, Knows, OwnerKnows, Ours, TypeOK, Carries
      <3> QED BY <1>0, <3>1, <3>2 DEF Install, TypeOK, Markers, KeepCall
    <2>5. Carries(p)'
      BY <1>0, <2>1, <2>2, <2>3, <2>4 DEF Carries, Uncommitted
    <2> QED BY <1>0, <2>1, <2>2, <2>5, OwnerCarries
  <1>9. ASSUME NEW p \in Procs, AppendEntry(p) PROVE \A q \in Procs : Carries(q)'
    <2>1. pc[p] = "append" /\ pc'[p] = "dropBefore" /\ then'[p] = "done"
          /\ \A q \in Procs \ {p} : pc'[q] = pc[q]
      BY <1>0, <1>9 DEF AppendEntry, Goto, TypeOK
    <2>2. Carries(p)'
      BY <2>1 DEF Carries, Uncommitted
    <2> QED BY <1>0, <2>1, <2>2, OwnerCarries
  <1> QED BY NextCases, <1>1, <1>2, <1>3, <1>4, <1>6, <1>7, <1>8, <1>9

(* Nothing has happened yet.                                               *)
LEMMA InitRecord == Init => RecordInv
  <1> SUFFICES ASSUME Init PROVE RecordInv
    OBVIOUS
  <1>1. Attended /\ \A p \in Procs : Carries(p)
    BY DEF Init, Attended, NobodyReads, Carries, Uncommitted, CommitSteps, RecoverySteps
  <1>2. \A n \in Namespaces : Text(Effective(n)) = {}
    BY DEF Init, Effective, Text
  <1>3. FilesMatchJournal
    BY <1>2 DEF Init, FilesMatchJournal, EffectiveText
  <1> QED BY <1>1, <1>3, InitInv DEF RecordInv

(* Every step that abandons no pending files preserves the invariant.      *)
LEMMA RecordStep == RecordInv /\ [Next]_vars /\ ~abandoned' => RecordInv'
  <1> SUFFICES ASSUME RecordInv, [Next]_vars, ~abandoned' PROVE RecordInv'
    OBVIOUS
  <1>1. IInv'
    BY InvStep DEF RecordInv
  <1>2. CASE UNCHANGED vars
    <2>1. EffectiveText' = EffectiveText
      BY <1>2, CommitPoint DEF RecordInv, vars, disk
    <2> QED BY <1>1, <1>2, <2>1 DEF vars, disk, local, ghost, RecordInv, Attended, NobodyReads,
          Working, Carries, Uncommitted, FilesMatchJournal
  <1>3. CASE Next
    BY <1>1, <1>3, AttendedStep, CarriesStep, MatchStep DEF RecordInv
  <1> QED BY <1>2, <1>3

(* What was abandoned stays so.                                            *)
LEMMA AbandonedStays == [Next]_vars /\ abandoned => abandoned'
  <1> SUFFICES ASSUME [Next]_vars, abandoned PROVE abandoned'
    OBVIOUS
  <1>1. ASSUME NEW p \in Procs, Crash(p) \/ RecoveryFails(p) PROVE abandoned'
    BY <1>1 DEF Crash, RecoveryFails
  <1>2. ASSUME NEW p \in Procs,
               \/ Start(p) \/ (\E r \in Requests \cup {Snapshot} : Call(p, r))
               \/ Acquire(p) \/ BreakStaleLock(p) \/ LockTimeout(p) \/ Return(p)
               \/ Replay(p) \/ Propose(p) \/ NothingToDo(p) \/ Refuse(p)
        PROVE  abandoned' = abandoned
    BY <1>2 DEF ghost, Start, Call, Acquire, BreakStaleLock, LockTimeout, Return, Replay,
         Propose, NothingToDo, Refuse
  <1>3. ASSUME NEW p \in Procs,
               \/ Recover(p) \/ Restore(p) \/ PutBack(p) \/ DropBefore(p) \/ DropNext(p)
               \/ DropMarker(p) \/ Stage(p) \/ Publish(p) \/ SetAside(p) \/ Install(p)
               \/ AppendEntry(p) \/ StageFails(p) \/ PublishFails(p) \/ ReplaceFails(p)
               \/ CleanupFails(p)
        PROVE  abandoned' = abandoned
    BY <1>3 DEF KeepCall, Recover, Restore, PutBack, DropBefore, DropNext, DropMarker, Stage,
         Publish, SetAside, Install, AppendEntry, StageFails, PublishFails, ReplaceFails,
         CleanupFails
  <1>4. CASE CrashAll
    BY <1>4 DEF CrashAll, ghost
  <1>5. CASE UNCHANGED vars
    BY <1>5 DEF vars, ghost
  <1> QED BY <1>1, <1>2, <1>3, <1>4, <1>5, NextCases

(* A step that appends to the journal is one operation of the atomic       *)
(* store, and any other step leaves the atomic store as it is.             *)
LEMMA StepIsAtomic ==
  ASSUME RecordInv, RecordInv', [Next]_vars
  PROVE  [Store!Next]_(Store!vars)
  <1>1. EffectiveText = recorded /\ EffectiveText' = recorded' /\ journal \in Seq(Entries)
    BY DEF RecordInv, FilesMatchJournal, IInv, TypeOK
  <1>2. ASSUME NEW e \in Entries, journal' = Append(journal, e), recorded' = Replayed(e),
               \A i \in DOMAIN journal : ~SameKey(journal[i], e)
        PROVE  Store!Next
    <2>1. /\ Len(journal') = Len(journal) + 1
          /\ journal'[Len(journal')] = e
      BY <1>1, <1>2
    <2>2. Store!Record(e)
      BY <1>1, <1>2 DEF Store!Record, Store!SameKey, SameKey, Replayed
    <2> QED BY <2>1, <2>2 DEF Store!Next
  <1>3. CASE UNCHANGED <<journal, recorded>>
    BY <1>1, <1>3 DEF Store!vars
  <1>4. ASSUME NEW p \in Procs, AppendEntry(p) PROVE Store!Next
    BY <1>2, <1>4, AppendRecords
  <1>5. ASSUME NEW p \in Procs, NothingToDo(p), Explicit(req[p]) PROVE Store!Next
    BY <1>2, <1>5, NoOpRecords
  <1>6. CASE UNCHANGED vars
    BY <1>3, <1>6 DEF vars, disk, ghost
  <1> QED BY <1>3, <1>4, <1>5, <1>6, JournalSteps

(***************************************************************************)
(* The theorems.                                                           *)
(***************************************************************************)
(* The strengthened invariant holds until pending files are abandoned.     *)
THEOREM RecordInvariance == Spec => [](abandoned \/ RecordInv)
  <1>1. Init => RecordInv
    BY InitRecord
  <1>2. (abandoned \/ RecordInv) /\ [Next]_vars => (abandoned \/ RecordInv)'
    BY RecordStep, AbandonedStays
  <1> QED BY <1>1, <1>2, PTL DEF Spec

(* The namespace files, as a recovery would leave them, hold exactly what  *)
(* replaying the journal yields: no fact without an entry and no entry     *)
(* without its effect, between any two file operations of commitMutation   *)
(* and of recoverPendingMutationUnlocked.                                  *)
THEOREM StoreIsItsJournal == Spec => []StoreMatchesJournal
  <1>1. abandoned \/ RecordInv => StoreMatchesJournal
    BY DEF RecordInv, StoreMatchesJournal
  <1> QED BY <1>1, RecordInvariance, PTL

(* What knowledgeSnapshot reads, once it has the locks and has recovered,  *)
(* is a whole committed state.                                             *)
THEOREM SnapshotsAreCommitted == Spec => []SnapshotIsRecorded
  <1>1. abandoned \/ RecordInv => SnapshotIsRecorded
    BY FilesAreRecorded DEF RecordInv, Attended, SnapshotIsRecorded
  <1> QED BY <1>1, RecordInvariance, PTL

(* The files, the journal and the recovery together implement the atomic   *)
(* store: each operation takes effect in one step, once, up to a step that *)
(* abandons pending files.                                                 *)
THEOREM CommitImplementsStore == Spec => ImplementsAtomicStore
  <1>1. Init => Store!Init
    BY InitRecord DEF RecordInv, FilesMatchJournal, Init, Store!Init
  <1>2. (abandoned \/ RecordInv) /\ (abandoned \/ RecordInv)' /\ [Next]_vars
          => [~abandoned' => [Store!Next]_(Store!vars)]_vars
    BY AbandonedStays, StepIsAtomic
  <1> QED BY <1>1, <1>2, RecordInvariance, PTL DEF Spec, ImplementsAtomicStore
=============================================================================
