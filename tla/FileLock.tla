------------------------------ MODULE FileLock ------------------------------
(***************************************************************************)
(* MemoryStore.withLock (store.ts): the lock file that serializes every    *)
(* writer.  It is created with O_EXCL, names its owner, is judged stale    *)
(* when it is old and its owner is dead, and is removed by its inode.      *)
(* Each file-system call is a step.  What is left out: symbolic links, the *)
(* re-entrant case (heldLocks), a pid or an inode number used again.       *)
(***************************************************************************)
EXTENDS Naturals

CONSTANTS
  Procs,
  MaxCrashes,   \* bound on crashes
  MaxCalls,     \* bound on calls of withLock
  None,         \* no lock file
  Stale         \* the lock of an owner that is gone

LockFiles ==
  [ino : Nat, proc : Procs, life : Nat, named : BOOLEAN, old : BOOLEAN]

ASSUME LockAssumption ==
  /\ MaxCrashes \in Nat
  /\ MaxCalls \in Nat
  /\ None \notin LockFiles

ASSUME OwnersAssumption ==
  /\ None \notin Procs /\ Stale \notin Procs
  /\ None # Stale

VARIABLES
  lockFile,  \* the file at lockPath: its inode, its creator, whether the
             \* creator has written its name, and whether it is over 30 s old
  inodes,    \* inodes used so far
  pc,        \* where each process is in withLock
  life,      \* the incarnation of each process (a new pid at every start)
  mine,      \* the inode that a process created (ownedInode)
  seen,      \* what its lstat returned: inode and age
  late,      \* its deadline (LOCK_WAIT_MS) has passed
  stolen,    \* history: a waiter unlinked another file than the one it judged
  crashes, calls

vars == <<lockFile, inodes, pc, life, mine, seen, late, stolen, crashes, calls>>

Owning == {"write", "held", "compare", "unlink"}
Waiting == {"open", "lstat", "read", "break", "pause"}

TypeOK ==
  /\ lockFile \in {None} \cup LockFiles
  /\ inodes \in Nat
  /\ pc \in [Procs -> {"down", "idle"} \cup Waiting \cup Owning]
  /\ life \in [Procs -> Nat]
  /\ mine \in [Procs -> Nat]
  /\ seen \in [Procs -> [ino : Nat, old : BOOLEAN]]
  /\ late \in [Procs -> BOOLEAN]
  /\ stolen \in BOOLEAN
  /\ crashes \in Nat
  /\ calls \in Nat

Goto(p, label) == pc' = [pc EXCEPT ![p] = label]
NotSeen == [ino |-> 0, old |-> FALSE]

(* The loop's local values end with the loop.                              *)
LeaveLoop(p) ==
  /\ seen' = [seen EXCEPT ![p] = NotSeen]
  /\ late' = [late EXCEPT ![p] = FALSE]

(* The creator of a lock file is running, and is still the same process.   *)
OwnerAlive(f) == pc[f.proc] # "down" /\ life[f.proc] = f.life

-----------------------------------------------------------------------------

Init ==
  /\ lockFile = None
  /\ inodes = 0
  /\ pc = [p \in Procs |-> "idle"]
  /\ life = [p \in Procs |-> 0]
  /\ mine = [p \in Procs |-> 0]
  /\ seen = [p \in Procs |-> NotSeen]
  /\ late = [p \in Procs |-> FALSE]
  /\ stolen = FALSE
  /\ crashes = 0
  /\ calls = 0

Call(p) ==
  /\ pc[p] = "idle"
  /\ calls < MaxCalls
  /\ calls' = calls + 1
  /\ Goto(p, "open")
  /\ UNCHANGED <<lockFile, inodes, life, mine, seen, late, stolen, crashes>>

(* openSync(lockPath, 'wx').                                               *)
Open(p) ==
  /\ pc[p] = "open"
  /\ IF lockFile = None
     THEN /\ inodes' = inodes + 1
          /\ lockFile' = [ino |-> inodes', proc |-> p, life |-> life[p],
                          named |-> FALSE, old |-> FALSE]
          /\ mine' = [mine EXCEPT ![p] = inodes']
          /\ LeaveLoop(p)
          /\ Goto(p, "write")
     ELSE /\ Goto(p, "lstat")
          /\ UNCHANGED <<lockFile, inodes, mine, seen, late>>
  /\ UNCHANGED <<life, stolen, crashes, calls>>

(* The owner line goes to the open descriptor, wherever the path now leads. *)
WriteOwner(p) ==
  /\ pc[p] = "write"
  /\ lockFile' = IF lockFile # None /\ lockFile.ino = mine[p]
                 THEN [lockFile EXCEPT !.named = TRUE] ELSE lockFile
  /\ Goto(p, "held")
  /\ UNCHANGED <<inodes, life, mine, seen, late, stolen, crashes, calls>>

(* The write fails: the acquirer unlinks the path and throws.              *)
WriteOwnerFails(p) ==
  /\ pc[p] = "write"
  /\ lockFile' = None
  /\ stolen' = (stolen \/ (lockFile # None /\ lockFile.ino # mine[p]))
  /\ mine' = [mine EXCEPT ![p] = 0]
  /\ Goto(p, "idle")
  /\ UNCHANGED <<inodes, life, seen, late, crashes, calls>>

Lstat(p) ==
  /\ pc[p] = "lstat"
  /\ IF lockFile = None
     THEN Goto(p, "open") /\ UNCHANGED seen
     ELSE /\ Goto(p, "read")
          /\ seen' = [seen EXCEPT ![p] = [ino |-> lockFile.ino,
                                          old |-> lockFile.old]]
  /\ UNCHANGED <<lockFile, inodes, life, mine, late, stolen, crashes, calls>>

(* Mutation of ReadOwner: age alone makes a lock file stale.               *)
JudgeByAge(p) ==
  /\ pc[p] = "read"
  /\ Goto(p, IF seen[p].old THEN "break" ELSE "pause")
  /\ UNCHANGED <<lockFile, inodes, life, mine, seen, late, stolen, crashes, calls>>

(* The owner is read through the path again.  A file that is gone, or does *)
(* not name its owner yet, counts as having no live owner.                 *)
ReadOwner(p) ==
  /\ pc[p] = "read"
  /\ LET ownerAlive == lockFile # None /\ lockFile.named /\ OwnerAlive(lockFile)
     IN Goto(p, IF seen[p].old /\ ~ownerAlive THEN "break" ELSE "pause")
  /\ UNCHANGED <<lockFile, inodes, life, mine, seen, late, stolen, crashes, calls>>

(* unlinkSync(lockPath): whatever the path now names.                      *)
BreakStale(p) ==
  /\ pc[p] = "break"
  /\ lockFile' = None
  /\ stolen' = (stolen \/ (lockFile # None /\ lockFile.ino # seen[p].ino))
  /\ Goto(p, "open")
  /\ seen' = [seen EXCEPT ![p] = NotSeen]
  /\ UNCHANGED <<inodes, life, mine, late, crashes, calls>>

(* Mutation of RetryOrThrow: the deadline is set again at every retry.     *)
RetryForEver(p) ==
  /\ pc[p] = "pause"
  /\ Goto(p, "open")
  /\ late' = [late EXCEPT ![p] = FALSE]
  /\ UNCHANGED <<lockFile, inodes, life, mine, seen, stolen, crashes, calls>>

(* Past the deadline the call throws, before it the loop sleeps and goes on. *)
RetryOrThrow(p) ==
  /\ pc[p] = "pause"
  /\ IF late[p]
     THEN Goto(p, "idle") /\ LeaveLoop(p)
     ELSE Goto(p, "open") /\ seen' = [seen EXCEPT ![p] = NotSeen] /\ UNCHANGED late
  /\ UNCHANGED <<lockFile, inodes, life, mine, stolen, crashes, calls>>

(* The operation is over: the descriptor is closed.                        *)
Close(p) ==
  /\ pc[p] = "held"
  /\ Goto(p, "compare")
  /\ UNCHANGED <<lockFile, inodes, life, mine, seen, late, stolen, crashes, calls>>

(* Mutation of Compare: the ages are compared, not the inodes.             *)
LeaveOldFile(p) ==
  /\ pc[p] = "compare"
  /\ Goto(p, IF lockFile # None /\ ~lockFile.old THEN "unlink" ELSE "idle")
  /\ UNCHANGED <<lockFile, inodes, life, mine, seen, late, stolen, crashes, calls>>

(* lstat and the comparison with the inode that was created.               *)
Compare(p) ==
  /\ pc[p] = "compare"
  /\ Goto(p, IF lockFile # None /\ lockFile.ino = mine[p] THEN "unlink" ELSE "idle")
  /\ UNCHANGED <<lockFile, inodes, life, mine, seen, late, stolen, crashes, calls>>

Unlink(p) ==
  /\ pc[p] = "unlink"
  /\ lockFile' = None
  /\ mine' = [mine EXCEPT ![p] = 0]
  /\ Goto(p, "idle")
  /\ UNCHANGED <<inodes, life, seen, late, stolen, crashes, calls>>

-----------------------------------------------------------------------------
(* Time, crashes and restarts                                              *)

(* LOCK_STALE_MS goes by.  A live creator writes its name well within it.  *)
GrowOld ==
  /\ lockFile # None
  /\ ~lockFile.old
  /\ lockFile.named \/ ~OwnerAlive(lockFile)
  /\ lockFile' = [lockFile EXCEPT !.old = TRUE]
  /\ UNCHANGED <<inodes, pc, life, mine, seen, late, stolen, crashes, calls>>

(* LOCK_WAIT_MS goes by.                                                   *)
Deadline(p) ==
  /\ pc[p] \in Waiting
  /\ ~late[p]
  /\ late' = [late EXCEPT ![p] = TRUE]
  /\ UNCHANGED <<lockFile, inodes, pc, life, mine, seen, stolen, crashes, calls>>

Crash(p) ==
  /\ pc[p] # "down"
  /\ crashes < MaxCrashes
  /\ crashes' = crashes + 1
  /\ Goto(p, "down")
  /\ mine' = [mine EXCEPT ![p] = 0]
  /\ LeaveLoop(p)
  /\ UNCHANGED <<lockFile, inodes, life, stolen, calls>>

Restart(p) ==
  /\ pc[p] = "down"
  /\ Goto(p, "idle")
  /\ life' = [life EXCEPT ![p] = @ + 1]
  /\ UNCHANGED <<lockFile, inodes, mine, seen, late, stolen, crashes, calls>>

Acquiring(p) ==
  \/ Open(p) \/ WriteOwner(p) \/ WriteOwnerFails(p) \/ Lstat(p)
  \/ ReadOwner(p) \/ BreakStale(p) \/ RetryOrThrow(p)

Releasing(p) == Close(p) \/ Compare(p) \/ Unlink(p)

Next ==
  \/ \E p \in Procs :
       \/ Call(p) \/ Acquiring(p) \/ Releasing(p)
       \/ Deadline(p) \/ Crash(p) \/ Restart(p)
  \/ GrowOld

Spec == Init /\ [][Next]_vars

(* A running process runs on, and clocks advance.                          *)
Fairness ==
  \A p \in Procs :
    /\ WF_vars(Acquiring(p) \/ Releasing(p))
    /\ WF_vars(Deadline(p))

FairSpec == Spec /\ Fairness

-----------------------------------------------------------------------------
(* Properties                                                              *)

(* Two operations never run under the same lock at once.                   *)
MutualExclusion ==
  \A p, q \in Procs : (pc[p] = "held" /\ pc[q] = "held") => p = q

(* As long as no waiter has unlinked a file other than the one it judged   *)
(* stale, the lock excludes: every other step of the protocol is safe,     *)
(* with any number of contenders, crashes and restarts.                    *)
ExclusiveUnlessStolen == ~stolen => MutualExclusion

(* Whose the lock is: the lock file's creator, as long as it runs.         *)
Owner ==
  IF lockFile = None THEN None
  ELSE IF OwnerAlive(lockFile) THEN lockFile.proc ELSE Stale

Inside == {p \in Procs : pc[p] \in Owning}

(* Up to a theft (stolen) the lock file, with its system calls, deaths and *)
(* restarts, is one lock: it changes hands only as LockOwner says, and no  *)
(* operation ends and leaves its lock file behind.                         *)
Lock == INSTANCE LockOwner WITH holder <- Owner, inside <- Inside
ImplementsLockOwner ==
  Lock!Init /\ [][~stolen' => [Lock!Next]_(Lock!vars)]_vars

(* A caller does not wait for ever: it gets the lock, times out or dies.   *)
WaitEnds ==
  \A p \in Procs : pc[p] = "open" ~> pc[p] \in {"held", "idle", "down"}

=============================================================================
