----------------------------- MODULE LockOwner -----------------------------
(***************************************************************************)
(* What withLock promises to the operations that run under it: one process *)
(* at a time is inside.  It leaves by giving the lock back, or dies and    *)
(* leaves a stale lock behind, which stays in everybody's way until a      *)
(* waiter breaks it.  Nothing else ever changes the owner.                 *)
(***************************************************************************)
CONSTANTS
  Procs,
  None,   \* the lock is free
  Stale   \* its owner died

VARIABLES
  holder,  \* the owner: a process, Stale or None
  inside   \* the processes whose operation holds the lock

vars == <<holder, inside>>

Init ==
  /\ holder = None
  /\ inside = {}

Acquire(p) ==
  /\ holder = None
  /\ holder' = p
  /\ inside' = inside \cup {p}

Release(p) ==
  /\ holder = p
  /\ holder' = None
  /\ inside' = inside \ {p}

Die(p) ==
  /\ holder = p
  /\ holder' = Stale
  /\ inside' = inside \ {p}

Break ==
  /\ holder = Stale
  /\ holder' = None
  /\ UNCHANGED inside

Next ==
  \/ \E p \in Procs : Acquire(p) \/ Release(p) \/ Die(p)
  \/ Break

Spec == Init /\ [][Next]_vars
=============================================================================
