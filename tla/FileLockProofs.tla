--------------------------- MODULE FileLockProofs ---------------------------
(***************************************************************************)
(* The lock file excludes, for any number of processes, crashes and calls, *)
(* as long as no waiter unlinks another file than the one it judged.       *)
(*                                                                         *)
(* The argument: a process between its open and its unlink is named by the *)
(* lock file (OwnersHoldTheFile).  Only a break could take the file from   *)
(* it, and a waiter about to break the file it judged knows that its owner *)
(* is gone (VerdictIsRight): an old file names its owner or has lost it    *)
(* (OldIsNamed), a file seen old is old (AgeWasSeen), and an owner that is *)
(* gone stays gone, since a restart takes a new life (LivesGoOn).          *)
(*                                                                         *)
(* That it is one lock, and implements LockOwner, takes the converse: the  *)
(* file of a process that runs is the file of a call that is under way     *)
(* (LiveOwnersAreInside), so that no call leaves one behind.               *)
(***************************************************************************)
EXTENDS FileLock, TLAPS

InodesAreFresh ==
  /\ lockFile # None => lockFile.ino <= inodes
  /\ \A p \in Procs : seen[p].ino <= inodes

LivesGoOn == lockFile # None => lockFile.life <= life[lockFile.proc]

OldIsNamed ==
  (lockFile # None /\ lockFile.old) => (lockFile.named \/ ~OwnerAlive(lockFile))

AgeWasSeen ==
  \A p \in Procs :
    (pc[p] = "read" /\ seen[p].old /\ lockFile # None
       /\ lockFile.ino = seen[p].ino) => lockFile.old

VerdictIsRight ==
  \A p \in Procs :
    (pc[p] = "break" /\ lockFile # None /\ lockFile.ino = seen[p].ino)
      => ~OwnerAlive(lockFile)

OwnersHoldTheFile ==
  ~stolen => \A p \in Procs :
    pc[p] \in Owning => /\ lockFile # None
                        /\ lockFile.ino = mine[p]
                        /\ lockFile.proc = p
                        /\ lockFile.life = life[p]

LiveOwnersAreInside ==
  (~stolen /\ lockFile # None /\ OwnerAlive(lockFile))
    => pc[lockFile.proc] \in Owning

IInv ==
  /\ TypeOK
  /\ InodesAreFresh
  /\ LivesGoOn
  /\ OldIsNamed
  /\ AgeWasSeen
  /\ VerdictIsRight
  /\ OwnersHoldTheFile
  /\ LiveOwnersAreInside
-----------------------------------------------------------------------------
(* The actions of one process, as one disjunction.                         *)
LEMMA NextCases ==
  ASSUME Next
  PROVE  \/ \E p \in Procs :
              \/ Call(p) \/ Open(p) \/ WriteOwner(p) \/ WriteOwnerFails(p)
              \/ Lstat(p) \/ ReadOwner(p) \/ BreakStale(p) \/ RetryOrThrow(p)
              \/ Close(p) \/ Compare(p) \/ Unlink(p)
              \/ Deadline(p) \/ Crash(p) \/ Restart(p)
         \/ GrowOld
  BY DEF Next, Acquiring, Releasing

(* The value of seen outside a round of the loop.                         *)
LEMMA NotSeenFacts ==
  /\ NotSeen \in [ino : Nat, old : BOOLEAN]
  /\ NotSeen.ino = 0
  /\ NotSeen.old = FALSE
  BY DEF NotSeen

(* Writing the owner's name leaves the rest of the lock file alone.        *)
LEMMA NamingKeeps ==
  ASSUME TypeOK, NEW p \in Procs, WriteOwner(p), lockFile # None
  PROVE  /\ lockFile' # None
         /\ lockFile'.ino = lockFile.ino
         /\ lockFile'.proc = lockFile.proc
         /\ lockFile'.life = lockFile.life
  <1>1. lockFile \in LockFiles
    BY DEF TypeOK
  <1>2. CASE lockFile.ino = mine[p]
    <2>1. lockFile' = [lockFile EXCEPT !.named = TRUE]
      BY <1>2 DEF WriteOwner
    <2>2. lockFile' \in LockFiles
      BY <1>1, <2>1 DEF LockFiles
    <2> QED BY <1>1, <2>1, <2>2, LockAssumption DEF LockFiles
  <1>3. CASE lockFile.ino # mine[p]
    BY <1>3 DEF WriteOwner
  <1> QED BY <1>2, <1>3

(* What opening an absent lock file does.                                  *)
LEMMA OpenCreates ==
  ASSUME TypeOK, NEW p \in Procs, Open(p), lockFile = None
  PROVE  /\ inodes' = inodes + 1
         /\ lockFile' = [ino |-> inodes + 1, proc |-> p, life |-> life[p],
                         named |-> FALSE, old |-> FALSE]
         /\ lockFile' \in LockFiles /\ lockFile' # None
         /\ mine' = [mine EXCEPT ![p] = inodes + 1]
         /\ seen' = [seen EXCEPT ![p] = NotSeen]
         /\ seen' \in [Procs -> [ino : Nat, old : BOOLEAN]]
         /\ late' = [late EXCEPT ![p] = FALSE]
         /\ pc' = [pc EXCEPT ![p] = "write"]
         /\ UNCHANGED <<life, stolen, crashes, calls>>
  <1>1. /\ inodes' = inodes + 1
        /\ lockFile' = [ino |-> inodes', proc |-> p, life |-> life[p],
                        named |-> FALSE, old |-> FALSE]
        /\ mine' = [mine EXCEPT ![p] = inodes']
        /\ seen' = [seen EXCEPT ![p] = NotSeen]
        /\ late' = [late EXCEPT ![p] = FALSE]
        /\ pc' = [pc EXCEPT ![p] = "write"]
        /\ UNCHANGED <<life, stolen, crashes, calls>>
    BY DEF Open, Goto, LeaveLoop
  <1>2. lockFile' \in LockFiles
    BY <1>1 DEF LockFiles, TypeOK
  <1>3. seen' \in [Procs -> [ino : Nat, old : BOOLEAN]]
    BY <1>1, NotSeenFacts DEF TypeOK
  <1> QED BY <1>1, <1>2, <1>3, LockAssumption

(* Every step keeps the types.                                             *)
LEMMA TypeStep == TypeOK /\ [Next]_vars => TypeOK'
  <1> SUFFICES ASSUME TypeOK, [Next]_vars PROVE TypeOK'
    OBVIOUS
  <1> USE NotSeenFacts DEF TypeOK, LockFiles, Owning, Waiting, Goto, LeaveLoop
  <1>1. ASSUME NEW p \in Procs, Call(p) PROVE TypeOK'
    BY <1>1 DEF Call
  <1>2. ASSUME NEW p \in Procs, Open(p) PROVE TypeOK'
    <2>1. CASE lockFile = None
      <3>1. lockFile' \in LockFiles /\ inodes' \in Nat /\ mine' \in [Procs -> Nat]
        BY <1>2, <2>1, OpenCreates
      <3>2. seen' \in [Procs -> [ino : Nat, old : BOOLEAN]] /\ late' \in [Procs -> BOOLEAN]
        BY <1>2, <2>1, OpenCreates
      <3>3. pc' \in [Procs -> {"down", "idle"} \cup Waiting \cup Owning]
        BY <1>2, <2>1, OpenCreates
      <3>4. UNCHANGED <<life, stolen, crashes, calls>>
        BY <1>2, <2>1, OpenCreates
      <3> QED BY <3>1, <3>2, <3>3, <3>4
    <2>2. CASE ~(lockFile = None)
      BY <1>2, <2>2 DEF Open
    <2> QED BY <2>1, <2>2
  <1>3. ASSUME NEW p \in Procs, WriteOwner(p) PROVE TypeOK'
    BY <1>3 DEF WriteOwner
  <1>4. ASSUME NEW p \in Procs, WriteOwnerFails(p) PROVE TypeOK'
    BY <1>4 DEF WriteOwnerFails
  <1>5. ASSUME NEW p \in Procs, Lstat(p) PROVE TypeOK'
    <2>1. CASE lockFile = None
      BY <1>5, <2>1 DEF Lstat
    <2>2. CASE ~(lockFile = None)
      <3>1. [ino |-> lockFile.ino, old |-> lockFile.old] \in [ino : Nat, old : BOOLEAN]
        BY <2>2
      <3>2. seen' = [seen EXCEPT ![p] = [ino |-> lockFile.ino, old |-> lockFile.old]]
        BY <1>5, <2>2 DEF Lstat
      <3>3. seen' \in [Procs -> [ino : Nat, old : BOOLEAN]]
        BY <3>1, <3>2
      <3> QED BY <1>5, <2>2, <3>3 DEF Lstat
    <2> QED BY <2>1, <2>2
  <1>6. ASSUME NEW p \in Procs, ReadOwner(p) PROVE TypeOK'
    BY <1>6 DEF ReadOwner
  <1>7. ASSUME NEW p \in Procs, BreakStale(p) PROVE TypeOK'
    BY <1>7 DEF BreakStale
  <1>8. ASSUME NEW p \in Procs, RetryOrThrow(p) PROVE TypeOK'
    <2>1. CASE late[p]
      <3>1. seen' \in [Procs -> [ino : Nat, old : BOOLEAN]]
        BY <1>8, <2>1 DEF RetryOrThrow
      <3>2. late' \in [Procs -> BOOLEAN] /\ pc' \in [Procs -> {"down", "idle"} \cup Waiting \cup Owning]
        BY <1>8, <2>1 DEF RetryOrThrow
      <3> QED BY <1>8, <3>1, <3>2 DEF RetryOrThrow
    <2>2. CASE ~(late[p])
      BY <1>8, <2>2 DEF RetryOrThrow
    <2> QED BY <2>1, <2>2
  <1>9. ASSUME NEW p \in Procs, Close(p) PROVE TypeOK'
    BY <1>9 DEF Close
  <1>10. ASSUME NEW p \in Procs, Compare(p) PROVE TypeOK'
    BY <1>10 DEF Compare
  <1>11. ASSUME NEW p \in Procs, Unlink(p) PROVE TypeOK'
    BY <1>11 DEF Unlink
  <1>12. ASSUME NEW p \in Procs, Deadline(p) PROVE TypeOK'
    BY <1>12 DEF Deadline
  <1>13. ASSUME NEW p \in Procs, Crash(p) PROVE TypeOK'
    BY <1>13 DEF Crash
  <1>14. ASSUME NEW p \in Procs, Restart(p) PROVE TypeOK'
    BY <1>14 DEF Restart
  <1>15. CASE GrowOld
    BY <1>15 DEF GrowOld
  <1>16. CASE UNCHANGED vars
    BY <1>16 DEF vars
  <1> QED BY NextCases, <1>1, <1>2, <1>3, <1>4, <1>5, <1>6, <1>7, <1>8, <1>9, <1>10, <1>11, <1>12, <1>13, <1>14, <1>15, <1>16

(* The initial state is well typed.                                        *)
LEMMA TypeCorrectInit == Init => TypeOK
  BY NotSeenFacts DEF Init, TypeOK, Waiting, Owning

(* In every behaviour of withLock each variable holds a value of its kind. *)
THEOREM TypeCorrect == Spec => []TypeOK
  BY TypeCorrectInit, TypeStep, PTL DEF Spec
-----------------------------------------------------------------------------
(* The strengthened invariant holds at first ...                           *)
LEMMA InitInv == Init => IInv
  <1> SUFFICES ASSUME Init PROVE IInv
    OBVIOUS
  <1>1. TypeOK
    BY TypeCorrectInit
  <1>2. InodesAreFresh /\ LivesGoOn /\ OldIsNamed
    BY NotSeenFacts DEF Init, InodesAreFresh, LivesGoOn, OldIsNamed
  <1>3. AgeWasSeen /\ VerdictIsRight /\ OwnersHoldTheFile
    BY DEF Init, AgeWasSeen, VerdictIsRight, OwnersHoldTheFile, Owning
  <1>4. LiveOwnersAreInside
    BY DEF Init, LiveOwnersAreInside
  <1> QED BY <1>1, <1>2, <1>3, <1>4 DEF IInv

(* ... and every step keeps it.                                            *)
LEMMA InvStep == IInv /\ [Next]_vars => IInv'
  <1> SUFFICES ASSUME IInv, [Next]_vars PROVE IInv'
    OBVIOUS
  <1>0. TypeOK'
    BY TypeStep DEF IInv
  <1> USE LockAssumption, NotSeenFacts, <1>0
      DEF IInv, TypeOK, LockFiles, Owning, Goto, OwnerAlive, LeaveLoop
  <1> USE DEF InodesAreFresh, LivesGoOn, OldIsNamed, AgeWasSeen, VerdictIsRight, OwnersHoldTheFile
  <1>1. ASSUME NEW p \in Procs, Call(p) PROVE IInv'
    <2>1. InodesAreFresh' /\ LivesGoOn' /\ OldIsNamed'
      BY <1>1 DEF Call
    <2>2. AgeWasSeen' /\ VerdictIsRight'
      BY <1>1 DEF Call
    <2>3. OwnersHoldTheFile'
      BY <1>1 DEF Call
    <2>4. LiveOwnersAreInside'
      BY <1>1 DEF Call, LiveOwnersAreInside
    <2> QED BY <2>1, <2>2, <2>3, <2>4
  <1>2. ASSUME NEW p \in Procs, Open(p) PROVE IInv'
    <2>1. InodesAreFresh' /\ LivesGoOn' /\ OldIsNamed'
      BY <1>2 DEF Open
    <2>2. CASE lockFile # None
      BY <1>2, <2>2, <2>1 DEF Open, LiveOwnersAreInside
    <2>3. CASE lockFile = None
      <3>1. lockFile'.ino = inodes + 1 /\ lockFile' # None /\ mine'[p] = inodes + 1
        BY <1>2, <2>3, OpenCreates
      <3>2. lockFile'.proc = p /\ lockFile'.life = life[p]
        BY <1>2, <2>3, OpenCreates
      <3>3. \A q \in Procs : seen[q].ino # inodes + 1
        BY <2>3
      <3>4. \A q \in Procs : pc'[q] \in {"read", "break"} => seen'[q] = seen[q]
        BY <1>2, <2>3, OpenCreates
      <3>5. AgeWasSeen'
        BY <3>1, <3>3, <3>4
      <3>6. VerdictIsRight'
        BY <3>1, <3>3, <3>4
      <3>7. OwnersHoldTheFile'
        <4>1. \A q \in Procs : q # p => pc'[q] = pc[q]
          BY <1>2, <2>3, OpenCreates
        <4>2. stolen' = stolen /\ life' = life
          BY <1>2 DEF Open
        <4> QED BY <2>3, <3>1, <3>2, <4>1, <4>2
      <3>8. LiveOwnersAreInside'
        BY <1>2, <2>3, <3>1, <3>2, OpenCreates DEF LiveOwnersAreInside
      <3> QED BY <2>1, <3>5, <3>6, <3>7, <3>8
    <2> QED BY <2>2, <2>3
  <1>3. ASSUME NEW p \in Procs, WriteOwner(p) PROVE IInv'
    <2>1. InodesAreFresh' /\ LivesGoOn' /\ OldIsNamed'
      BY <1>3 DEF WriteOwner
    <2>2. AgeWasSeen' /\ VerdictIsRight'
      BY <1>3 DEF WriteOwner
    <2>3. OwnersHoldTheFile'
      <3>1. lockFile # None => /\ lockFile' # None
                               /\ lockFile'.ino = lockFile.ino
                               /\ lockFile'.proc = lockFile.proc
                               /\ lockFile'.life = lockFile.life
        BY <1>3, NamingKeeps
      <3>2. \A q \in Procs : pc'[q] \in Owning => pc[q] \in Owning
        BY <1>3 DEF WriteOwner
      <3>3. stolen' = stolen /\ mine' = mine /\ life' = life
        BY <1>3 DEF WriteOwner
      <3> QED BY <3>1, <3>2, <3>3
    <2>4. LiveOwnersAreInside'
      BY <1>3 DEF WriteOwner, LiveOwnersAreInside
    <2> QED BY <2>1, <2>2, <2>3, <2>4
  <1>4. ASSUME NEW p \in Procs, WriteOwnerFails(p) PROVE IInv'
    <2>1. InodesAreFresh' /\ LivesGoOn' /\ OldIsNamed'
      BY <1>4 DEF WriteOwnerFails
    <2>2. AgeWasSeen' /\ VerdictIsRight'
      BY <1>4 DEF WriteOwnerFails
    <2>3. OwnersHoldTheFile'
      BY <1>4 DEF WriteOwnerFails
    <2>4. LiveOwnersAreInside'
      BY <1>4 DEF WriteOwnerFails, LiveOwnersAreInside
    <2> QED BY <2>1, <2>2, <2>3, <2>4
  <1>5. ASSUME NEW p \in Procs, Lstat(p) PROVE IInv'
    <2>1. InodesAreFresh' /\ LivesGoOn' /\ OldIsNamed'
      BY <1>5 DEF Lstat
    <2>2. AgeWasSeen' /\ VerdictIsRight'
      <3>1. AgeWasSeen'
        BY <1>5 DEF Lstat
      <3>2. VerdictIsRight'
        BY <1>5 DEF Lstat
      <3> QED BY <3>1, <3>2
    <2>3. OwnersHoldTheFile'
      BY <1>5 DEF Lstat
    <2>4. LiveOwnersAreInside'
      BY <1>5 DEF Lstat, LiveOwnersAreInside
    <2> QED BY <2>1, <2>2, <2>3, <2>4
  <1>6. ASSUME NEW p \in Procs, ReadOwner(p) PROVE IInv'
    <2>1. InodesAreFresh' /\ LivesGoOn' /\ OldIsNamed'
      BY <1>6 DEF ReadOwner
    <2>2. AgeWasSeen' /\ VerdictIsRight'
      <3>1. AgeWasSeen'
        BY <1>6 DEF ReadOwner
      <3>2. VerdictIsRight'
        BY <1>6 DEF ReadOwner
      <3> QED BY <3>1, <3>2
    <2>3. OwnersHoldTheFile'
      BY <1>6 DEF ReadOwner
    <2>4. LiveOwnersAreInside'
      BY <1>6 DEF ReadOwner, LiveOwnersAreInside
    <2> QED BY <2>1, <2>2, <2>3, <2>4
  <1>7. ASSUME NEW p \in Procs, BreakStale(p) PROVE IInv'
    <2>1. InodesAreFresh' /\ LivesGoOn' /\ OldIsNamed'
      BY <1>7 DEF BreakStale
    <2>2. AgeWasSeen' /\ VerdictIsRight'
      <3>1. AgeWasSeen'
        BY <1>7 DEF BreakStale
      <3>2. VerdictIsRight'
        BY <1>7 DEF BreakStale
      <3> QED BY <3>1, <3>2
    <2>3. OwnersHoldTheFile'
      BY <1>7 DEF BreakStale
    <2>4. LiveOwnersAreInside'
      BY <1>7 DEF BreakStale, LiveOwnersAreInside
    <2> QED BY <2>1, <2>2, <2>3, <2>4
  <1>8. ASSUME NEW p \in Procs, RetryOrThrow(p) PROVE IInv'
    <2>1. InodesAreFresh' /\ LivesGoOn' /\ OldIsNamed'
      BY <1>8 DEF RetryOrThrow
    <2>2. AgeWasSeen' /\ VerdictIsRight'
      <3>1. \A q \in Procs : pc'[q] \in {"read", "break"} =>
              pc'[q] = pc[q] /\ seen'[q] = seen[q]
        BY <1>8 DEF RetryOrThrow
      <3>2. lockFile' = lockFile /\ life' = life /\
            \A q \in Procs : pc'[q] = "down" <=> pc[q] = "down"
        BY <1>8 DEF RetryOrThrow
      <3> QED BY <3>1, <3>2
    <2>3. OwnersHoldTheFile'
      BY <1>8 DEF RetryOrThrow
    <2>4. LiveOwnersAreInside'
      BY <1>8 DEF RetryOrThrow, LiveOwnersAreInside
    <2> QED BY <2>1, <2>2, <2>3, <2>4
  <1>9. ASSUME NEW p \in Procs, Close(p) PROVE IInv'
    <2>1. InodesAreFresh' /\ LivesGoOn' /\ OldIsNamed'
      BY <1>9 DEF Close
    <2>2. AgeWasSeen' /\ VerdictIsRight'
      BY <1>9 DEF Close
    <2>3. OwnersHoldTheFile'
      BY <1>9 DEF Close
    <2>4. LiveOwnersAreInside'
      BY <1>9 DEF Close, LiveOwnersAreInside
    <2> QED BY <2>1, <2>2, <2>3, <2>4
  <1>10. ASSUME NEW p \in Procs, Compare(p) PROVE IInv'
    <2>1. InodesAreFresh' /\ LivesGoOn' /\ OldIsNamed'
      BY <1>10 DEF Compare
    <2>2. AgeWasSeen' /\ VerdictIsRight'
      BY <1>10 DEF Compare
    <2>3. OwnersHoldTheFile'
      BY <1>10 DEF Compare
    <2>4. LiveOwnersAreInside'
      BY <1>10 DEF Compare, LiveOwnersAreInside
    <2> QED BY <2>1, <2>2, <2>3, <2>4
  <1>11. ASSUME NEW p \in Procs, Unlink(p) PROVE IInv'
    <2>1. InodesAreFresh' /\ LivesGoOn' /\ OldIsNamed'
      BY <1>11 DEF Unlink
    <2>2. AgeWasSeen' /\ VerdictIsRight'
      BY <1>11 DEF Unlink
    <2>3. OwnersHoldTheFile'
      BY <1>11 DEF Unlink
    <2>4. LiveOwnersAreInside'
      BY <1>11 DEF Unlink, LiveOwnersAreInside
    <2> QED BY <2>1, <2>2, <2>3, <2>4
  <1>12. ASSUME NEW p \in Procs, Deadline(p) PROVE IInv'
    <2>1. InodesAreFresh' /\ LivesGoOn' /\ OldIsNamed'
      BY <1>12 DEF Deadline
    <2>2. AgeWasSeen' /\ VerdictIsRight'
      BY <1>12 DEF Deadline
    <2>3. OwnersHoldTheFile'
      BY <1>12 DEF Deadline
    <2>4. LiveOwnersAreInside'
      BY <1>12 DEF Deadline, LiveOwnersAreInside
    <2> QED BY <2>1, <2>2, <2>3, <2>4
  <1>13. ASSUME NEW p \in Procs, Crash(p) PROVE IInv'
    <2>1. InodesAreFresh' /\ LivesGoOn' /\ OldIsNamed'
      BY <1>13 DEF Crash
    <2>2. AgeWasSeen' /\ VerdictIsRight'
      BY <1>13 DEF Crash
    <2>3. OwnersHoldTheFile'
      BY <1>13 DEF Crash
    <2>4. LiveOwnersAreInside'
      BY <1>13 DEF Crash, LiveOwnersAreInside
    <2> QED BY <2>1, <2>2, <2>3, <2>4
  <1>14. ASSUME NEW p \in Procs, Restart(p) PROVE IInv'
    <2>1. InodesAreFresh' /\ LivesGoOn' /\ OldIsNamed'
      BY <1>14 DEF Restart
    <2>2. AgeWasSeen' /\ VerdictIsRight'
      BY <1>14 DEF Restart
    <2>3. OwnersHoldTheFile'
      BY <1>14 DEF Restart
    <2>4. LiveOwnersAreInside'
      BY <1>14 DEF Restart, LiveOwnersAreInside
    <2> QED BY <2>1, <2>2, <2>3, <2>4
  <1>15. CASE GrowOld
    <2>1. InodesAreFresh' /\ LivesGoOn' /\ OldIsNamed'
      BY <1>15 DEF GrowOld
    <2>2. AgeWasSeen' /\ VerdictIsRight'
      BY <1>15 DEF GrowOld
    <2>3. OwnersHoldTheFile'
      BY <1>15 DEF GrowOld
    <2>4. LiveOwnersAreInside'
      BY <1>15 DEF GrowOld, LiveOwnersAreInside
    <2> QED BY <2>1, <2>2, <2>3, <2>4
  <1>16. CASE UNCHANGED vars
    BY <1>16 DEF vars, LiveOwnersAreInside
  <1> QED BY NextCases, <1>1, <1>2, <1>3, <1>4, <1>5, <1>6, <1>7, <1>8, <1>9, <1>10, <1>11, <1>12, <1>13, <1>14, <1>15, <1>16

(* Whatever the number of processes, crashes and calls, two operations run *)
(* under one lock file only after a waiter unlinked another file than the  *)
(* one it had judged stale: withLock has no second way to fail.            *)
THEOREM LockExcludes == Spec => []ExclusiveUnlessStolen
  <1>1. IInv => ExclusiveUnlessStolen
    BY DEF IInv, OwnersHoldTheFile, ExclusiveUnlessStolen, MutualExclusion, Owning
  <1> QED BY InitInv, InvStep, <1>1, PTL DEF Spec
-----------------------------------------------------------------------------
(* The lock file as one lock                                               *)

(* Whose the lock is, as the invariant has it: a process inside is the     *)
(* owner, and an owner is inside.                                          *)
LEMMA OwnerIsInside ==
  ASSUME IInv, ~stolen
  PROVE  /\ \A p \in Procs : p \in Inside <=> Owner = p
         /\ Owner \in Procs \cup {None, Stale}
  <1> USE OwnersAssumption, LockAssumption
      DEF IInv, TypeOK, LockFiles, Owner, Inside, OwnerAlive
  <1>1. ASSUME NEW p \in Procs, p \in Inside PROVE Owner = p
    BY <1>1 DEF OwnersHoldTheFile, Owning
  <1>2. ASSUME NEW p \in Procs, Owner = p PROVE p \in Inside
    BY <1>2 DEF LiveOwnersAreInside
  <1>3. Owner \in Procs \cup {None, Stale}
    OBVIOUS
  <1> QED BY <1>1, <1>2, <1>3

(* Whose the lock is, is a matter of who created the file and whether it   *)
(* still runs.                                                             *)
LEMMA SameOwner ==
  ASSUME \/ lockFile = None /\ lockFile' = None
         \/ /\ lockFile # None /\ lockFile' # None
            /\ lockFile'.proc = lockFile.proc
            /\ OwnerAlive(lockFile)' <=> OwnerAlive(lockFile)
  PROVE  Owner' = Owner
  BY DEF Owner

(* A step that leaves the lock file, the lives, and who is up or inside    *)
(* alone is no step of the lock.                                           *)
LEMMA QuietStep ==
  ASSUME TypeOK, TypeOK', UNCHANGED <<lockFile, life>>,
         \A q \in Procs : pc'[q] = "down" <=> pc[q] = "down",
         \A q \in Procs : pc'[q] \in Owning <=> pc[q] \in Owning
  PROVE  UNCHANGED <<Owner, Inside>>
  <1>1. Inside' = Inside
    BY DEF Inside, Owning
  <1>2. lockFile # None => (OwnerAlive(lockFile)' <=> OwnerAlive(lockFile))
    <2>1. SUFFICES ASSUME lockFile # None
                   PROVE  OwnerAlive(lockFile)' <=> OwnerAlive(lockFile)
      OBVIOUS
    <2>2. lockFile.proc \in Procs
      BY <2>1 DEF TypeOK, LockFiles
    <2>3. lockFile' = lockFile /\ life' = life
      OBVIOUS
    <2>4. pc'[lockFile.proc] = "down" <=> pc[lockFile.proc] = "down"
      BY <2>2
    <2> QED BY <2>3, <2>4 DEF OwnerAlive
  <1>3. Owner' = Owner
    BY <1>2, SameOwner
  <1> QED BY <1>1, <1>3

(* Until a waiter unlinks a file that it did not judge, every step of      *)
(* withLock is a step of the one lock or leaves it alone.                  *)
LEMMA StepImplementsLock ==
  ASSUME IInv, [Next]_vars, ~stolen'
  PROVE  [Lock!Next]_(Lock!vars)
  <1> DEFINE Quiet == UNCHANGED <<Owner, Inside>>
  <1>0. TypeOK /\ TypeOK'
    BY TypeStep DEF IInv
  <1>q. Quiet => [Lock!Next]_(Lock!vars)
    BY DEF Lock!vars
  <1>s. ~stolen
    <2>1. stolen \in BOOLEAN /\ (stolen => stolen')
      BY <1>0 DEF TypeOK, Next, vars, Acquiring, Releasing, Call, Open, WriteOwner,
        WriteOwnerFails, Lstat, ReadOwner, BreakStale, RetryOrThrow, Close,
        Compare, Unlink, Deadline, Crash, Restart, GrowOld
    <2> QED BY <2>1
  <1>o. \A p \in Procs : p \in Inside <=> Owner = p
    BY <1>s, OwnerIsInside
  <1>h. \A p \in Procs : pc[p] \in Owning =>
          lockFile # None /\ lockFile.ino = mine[p]
    BY <1>s DEF IInv, OwnersHoldTheFile
  <1>1. ASSUME NEW p \in Procs, Call(p) PROVE Quiet
    BY <1>0, <1>1, QuietStep DEF Call, Goto, Owning, TypeOK
  <1>2. ASSUME NEW p \in Procs, Open(p) PROVE [Lock!Next]_(Lock!vars)
    <2>1. CASE lockFile = None
      <3>1. Owner = None
        BY <2>1 DEF Owner
      <3>2. lockFile' # None /\ lockFile'.proc = p /\ lockFile'.life = life[p]
        BY <1>0, <1>2, <2>1, OpenCreates
      <3>3. pc'[p] = "write" /\ life' = life
        BY <1>0, <1>2, <2>1, OpenCreates DEF TypeOK
      <3>4. Owner' = p
        BY <3>2, <3>3 DEF Owner, OwnerAlive
      <3>5. Inside' = Inside \cup {p}
        BY <1>0, <1>2, <2>1, OpenCreates DEF Inside, Owning, TypeOK
      <3> QED BY <3>1, <3>4, <3>5 DEF Lock!Next, Lock!Acquire
    <2>2. CASE lockFile # None
      <3>1. Quiet
        BY <1>0, <1>2, <2>2, QuietStep DEF Open, Goto, Owning, TypeOK
      <3> QED BY <3>1, <1>q
    <2> QED BY <2>1, <2>2
  <1>3. ASSUME NEW p \in Procs, WriteOwner(p) PROVE Quiet
    <2>1. lockFile # None
      BY <1>3, <1>h DEF WriteOwner, Owning
    <2>2. /\ lockFile' # None /\ lockFile'.proc = lockFile.proc
          /\ lockFile'.life = lockFile.life
      BY <1>0, <1>3, <2>1, NamingKeeps
    <2>3. OwnerAlive(lockFile)' <=> OwnerAlive(lockFile)
      BY <1>0, <1>3, <2>1, <2>2 DEF OwnerAlive, WriteOwner, Goto, TypeOK, LockFiles
    <2>4. Owner' = Owner
      BY <2>1, <2>2, <2>3, SameOwner
    <2>5. Inside' = Inside
      BY <1>0, <1>3 DEF WriteOwner, Goto, Inside, Owning, TypeOK
    <2> QED BY <2>4, <2>5
  <1>4. ASSUME NEW p \in Procs, WriteOwnerFails(p) PROVE Lock!Release(p)
    <2>1. Owner = p
      BY <1>4, <1>o DEF WriteOwnerFails, Inside, Owning
    <2>2. Owner' = None
      BY <1>4 DEF WriteOwnerFails, Owner
    <2>3. Inside' = Inside \ {p}
      BY <1>0, <1>4 DEF WriteOwnerFails, Goto, Inside, Owning, TypeOK
    <2> QED BY <2>1, <2>2, <2>3 DEF Lock!Release
  <1>5. ASSUME NEW p \in Procs, Lstat(p) PROVE Quiet
    BY <1>0, <1>5, QuietStep DEF Lstat, Goto, Owning, TypeOK
  <1>6. ASSUME NEW p \in Procs, ReadOwner(p) PROVE Quiet
    BY <1>0, <1>6, QuietStep DEF ReadOwner, Goto, Owning, TypeOK
  <1>7. ASSUME NEW p \in Procs, BreakStale(p) PROVE [Lock!Next]_(Lock!vars)
    <2>1. lockFile' = None /\ Owner' = None
      BY <1>7 DEF BreakStale, Owner
    <2>2. Inside' = Inside
      BY <1>0, <1>7 DEF BreakStale, Goto, Inside, Owning, TypeOK
    <2>3. CASE lockFile = None
      BY <2>1, <2>2, <2>3, <1>q DEF Owner
    <2>4. CASE lockFile # None
      <3>1. lockFile.ino = seen[p].ino
        BY <1>0, <1>7, <2>4 DEF BreakStale, TypeOK
      <3>2. Owner = Stale
        BY <1>7, <2>4, <3>1 DEF IInv, VerdictIsRight, BreakStale, Owner
      <3> QED BY <2>1, <2>2, <3>2 DEF Lock!Next, Lock!Break
    <2> QED BY <2>3, <2>4
  <1>8. ASSUME NEW p \in Procs, RetryOrThrow(p) PROVE Quiet
    BY <1>0, <1>8, QuietStep DEF RetryOrThrow, Goto, Owning, TypeOK
  <1>9. ASSUME NEW p \in Procs, Close(p) PROVE Quiet
    BY <1>0, <1>9, QuietStep DEF Close, Goto, Owning, TypeOK
  <1>10. ASSUME NEW p \in Procs, Compare(p) PROVE Quiet
    <2>1. pc' = [pc EXCEPT ![p] = "unlink"]
      BY <1>10, <1>h DEF Compare, Goto, Owning
    <2> QED BY <1>0, <1>10, <2>1, QuietStep DEF Compare, Owning, TypeOK
  <1>11. ASSUME NEW p \in Procs, Unlink(p) PROVE Lock!Release(p)
    <2>1. Owner = p
      BY <1>11, <1>o DEF Unlink, Inside, Owning
    <2>2. Owner' = None
      BY <1>11 DEF Unlink, Owner
    <2>3. Inside' = Inside \ {p}
      BY <1>0, <1>11 DEF Unlink, Goto, Inside, Owning, TypeOK
    <2> QED BY <2>1, <2>2, <2>3 DEF Lock!Release
  <1>12. ASSUME NEW p \in Procs, Deadline(p) PROVE Quiet
    BY <1>0, <1>12, QuietStep DEF Deadline
  <1>13. ASSUME NEW p \in Procs, Crash(p) PROVE [Lock!Next]_(Lock!vars)
    <2>1. pc' = [pc EXCEPT ![p] = "down"] /\ UNCHANGED <<lockFile, life>>
      BY <1>13 DEF Crash, Goto
    <2>2. Inside' = Inside \ {p}
      BY <1>0, <2>1 DEF Inside, Owning, TypeOK
    <2>3. CASE p \in Inside
      <3>1. Owner = p
        BY <1>o, <2>3
      <3>2. lockFile # None /\ lockFile.proc = p
        BY <3>1, OwnersAssumption DEF Owner
      <3>3. Owner' = Stale
        BY <1>0, <2>1, <3>2 DEF Owner, OwnerAlive, TypeOK
      <3> QED BY <2>2, <3>1, <3>3 DEF Lock!Next, Lock!Die
    <2>4. CASE p \notin Inside
      <3>1. lockFile # None /\ lockFile.proc = p => ~OwnerAlive(lockFile)
        BY <1>o, <2>4 DEF Owner
      <3>2. lockFile # None => (OwnerAlive(lockFile)' <=> OwnerAlive(lockFile))
        BY <1>0, <2>1, <3>1 DEF OwnerAlive, TypeOK, LockFiles
      <3>3. Owner' = Owner
        BY <2>1, <3>2, SameOwner
      <3> QED BY <2>2, <2>4, <3>3, <1>q
    <2> QED BY <2>3, <2>4
  <1>14. ASSUME NEW p \in Procs, Restart(p) PROVE Quiet
    <2>1. /\ pc[p] = "down" /\ pc' = [pc EXCEPT ![p] = "idle"]
          /\ life' = [life EXCEPT ![p] = @ + 1] /\ lockFile' = lockFile
      BY <1>14 DEF Restart, Goto
    <2>2. Inside' = Inside
      BY <1>0, <2>1 DEF Inside, Owning, TypeOK
    <2>3. lockFile # None => (OwnerAlive(lockFile)' <=> OwnerAlive(lockFile))
      BY <1>0, <2>1 DEF IInv, LivesGoOn, OwnerAlive, TypeOK, LockFiles
    <2>4. Owner' = Owner
      BY <2>1, <2>3, SameOwner
    <2> QED BY <2>2, <2>4
  <1>15. CASE GrowOld
    <2>1. lockFile # None /\ lockFile \in LockFiles
      BY <1>0, <1>15 DEF GrowOld, TypeOK
    <2>2. lockFile' = [lockFile EXCEPT !.old = TRUE] /\ UNCHANGED <<pc, life>>
      BY <1>15 DEF GrowOld
    <2>3. lockFile' \in LockFiles /\ lockFile'.proc = lockFile.proc
            /\ lockFile'.life = lockFile.life
      BY <2>1, <2>2 DEF LockFiles
    <2>4. lockFile' # None
      BY <2>3, LockAssumption
    <2>5. Owner' = Owner
      BY <2>1, <2>2, <2>3, <2>4, SameOwner DEF OwnerAlive
    <2>6. Inside' = Inside
      BY <2>2 DEF Inside, Owning
    <2> QED BY <2>5, <2>6, <1>q
  <1>16. CASE UNCHANGED vars
    <2>1. UNCHANGED <<lockFile, life>> /\ pc' = pc
      BY <1>16 DEF vars
    <2> QED BY <1>0, <2>1, <1>q, QuietStep
  <1>r. ASSUME NEW p \in Procs, Lock!Release(p) PROVE [Lock!Next]_(Lock!vars)
    BY <1>r DEF Lock!Next
  <1> HIDE DEF Quiet
  <1>17. CASE Next
    BY <1>17, NextCases, <1>q, <1>r, <1>1, <1>2, <1>3, <1>4, <1>5, <1>6, <1>7,
       <1>8, <1>9, <1>10, <1>11, <1>12, <1>13, <1>14, <1>15
  <1> QED BY <1>16, <1>17, <1>q

(* The lock file implements LockOwner, for any processes, crashes, restarts *)
(* and calls, until a waiter unlinks a file that it did not judge: one      *)
(* process inside at a time, no change of hands but by a release or by the  *)
(* breaking of a dead owner's lock, and no call that ends and leaves its    *)
(* lock file behind.                                                        *)
THEOREM FileLockIsALock == Spec => ImplementsLockOwner
  <1>1. Init => Lock!Init
    BY DEF Init, Lock!Init, Owner, Inside, Owning
  <1>2. IInv /\ [Next]_vars => [~stolen' => [Lock!Next]_(Lock!vars)]_vars
    BY StepImplementsLock
  <1> QED BY InitInv, InvStep, <1>1, <1>2, PTL DEF Spec, ImplementsLockOwner
=============================================================================
