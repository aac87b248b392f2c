---------------------------- MODULE NamespaceCache ----------------------------
(***************************************************************************)
(* The parsed programs a process remembers (store/store.ts, fileStamp and  *)
(* loadCached) beside the namespace files, which commits replace under the *)
(* mutation lock by two renames that readers without the lock can see      *)
(* (commitMutation, rollbackPendingMutationUnlocked).                      *)
(*                                                                         *)
(* A program is a set of clauses.  A file's size is its number of clauses; *)
(* its mtime is read from a clock that may stand still between two writes. *)
(* Crashes and the marker that recovers from them are MutationCommit's:    *)
(* here a commit ends with its journal entry or with a rollback.           *)
(***************************************************************************)
EXTENDS Naturals, FiniteSets

CONSTANTS
  Procs,       \* processes with a store open
  Namespaces,
  Clauses,
  MaxTime,     \* the last instant
  None

ASSUME CacheBounds == IsFiniteSet(Clauses) /\ MaxTime \in Nat

VARIABLES
  clock,
  file,       \* [Namespaces -> a file or None]
  writer,     \* the commit under way, which holds the mutation lock, or None
  cache,      \* [Procs -> [Namespaces -> a program with its stamp or None]]
  stat,       \* [Procs -> the stamp an unlocked load has taken, or None]
  repeated,   \* have two programs of a namespace borne one stamp?
  straddled   \* has a load read another file than the one it stamped?

cacheVars == <<clock, file, writer, cache, stat, repeated, straddled>>

\* mtime and size, and nothing for a file that is absent.
Stamp(f) == IF f = None THEN <<>> ELSE <<f.time, Cardinality(f.text)>>
Text(f)  == IF f = None THEN {} ELSE f.text

Stamps   == {<<>>} \cup ((0..MaxTime) \X (0..Cardinality(Clauses)))
Programs == [text : SUBSET Clauses, stamp : Stamps]
Files    == [text : SUBSET Clauses, time : 0..MaxTime]

ASSUME NoneIsNoProgram == None \notin Files \cup Programs

Program(f) == [text |-> Text(f), stamp |-> Stamp(f)]

\* Mutation of Hit: what is remembered is believed.
HitUnstamped(p, n) == cache[p][n] # None

Hit(p, n) == cache[p][n] # None /\ cache[p][n].stamp = Stamp(file[n])

\* What a load whose stat and read see one file returns and remembers.
Loaded(p, n) == IF Hit(p, n) THEN cache[p][n].text ELSE Text(file[n])
Remember(p, names) ==
  cache' = [cache EXCEPT ![p] =
             [n \in Namespaces |->
                IF n \in names THEN [text |-> Loaded(p, n), stamp |-> Stamp(file[n])]
                               ELSE cache[p][n]]]

Idle(p) == stat[p] = None /\ (writer # None => writer.proc # p)

\* No commit is under way: the mutation lock is free.
Unlocked == writer = None

-----------------------------------------------------------------------------
CacheInit(contents) ==
  /\ clock = 0
  /\ file = [n \in Namespaces |-> IF contents[n] = {} THEN None
                                  ELSE [text |-> contents[n], time |-> 0]]
  /\ writer = None
  /\ cache = [p \in Procs |-> [n \in Namespaces |-> None]]
  /\ stat = [p \in Procs |-> None]
  /\ repeated = FALSE /\ straddled = FALSE

Tick ==
  /\ clock < MaxTime
  /\ clock' = clock + 1
  /\ UNCHANGED <<file, writer, cache, stat, repeated, straddled>>

\* A process ends and another one starts with nothing remembered.
Restart(p) ==
  /\ writer # None => writer.proc # p
  /\ cache' = [cache EXCEPT ![p] = [n \in Namespaces |-> None]]
  /\ stat' = [stat EXCEPT ![p] = None]
  /\ UNCHANGED <<clock, file, writer, repeated, straddled>>

\* An unlocked load that the cache does not answer: the stamp is taken first,
StatFile(p, n) ==
  /\ Idle(p) /\ ~Hit(p, n)
  /\ stat' = [stat EXCEPT ![p] = [ns |-> n, stamp |-> Stamp(file[n])]]
  /\ UNCHANGED <<clock, file, writer, cache, repeated, straddled>>

\* ... and the program read after it; a file that cannot be read is taken
\* for an empty one.
ReadFile(p) ==
  /\ stat[p] # None
  /\ LET n == stat[p].ns
     IN  /\ cache' = [cache EXCEPT ![p][n] = [text |-> Text(file[n]),
                                              stamp |-> stat[p].stamp]]
         /\ straddled' = (straddled \/ stat[p].stamp # Stamp(file[n]))
  /\ stat' = [stat EXCEPT ![p] = None]
  /\ UNCHANGED <<clock, file, writer, repeated>>

-----------------------------------------------------------------------------
(* A commit: the next file is written before the others are touched        *)

Begin(p, n, text, entry) ==
  writer' = [proc |-> p, ns |-> n, step |-> "aside", entry |-> entry,
             next |-> [text |-> text, time |-> clock], backup |-> None]

\* renameSync(target, backup), where there is a file.
SetAside ==
  /\ ~Unlocked /\ writer.step = "aside"
  /\ writer' = [writer EXCEPT !.step = "publish", !.backup = file[writer.ns]]
  /\ file' = [file EXCEPT ![writer.ns] = None]
  /\ UNCHANGED <<clock, cache, stat, repeated, straddled>>

\* Does the new file bear a stamp that another program is known by?
Repeats(n, next, backup) ==
  \E known \in {cache[p][n] : p \in Procs} \cup {None, Program(backup)} :
    /\ known # None
    /\ known.stamp = Stamp(next) /\ known.text # next.text

\* renameSync(next, target)
Publish ==
  /\ ~Unlocked /\ writer.step = "publish"
  /\ writer' = [writer EXCEPT !.step = "append"]
  /\ file' = [file EXCEPT ![writer.ns] = writer.next]
  /\ repeated' = (repeated \/ Repeats(writer.ns, writer.next, writer.backup))
  /\ UNCHANGED <<clock, cache, stat, straddled>>

\* The entry is in the journal: the writer remembers what it wrote.
Finish ==
  /\ ~Unlocked /\ writer.step = "append"
  /\ writer' = None
  /\ cache' = [cache EXCEPT ![writer.proc][writer.ns] = Program(writer.next)]
  /\ UNCHANGED <<clock, file, stat, repeated, straddled>>

\* The append fails: the file set aside is back, with its stamp.
Rollback ==
  /\ ~Unlocked /\ writer.step = "append"
  /\ writer' = None
  /\ file' = [file EXCEPT ![writer.ns] = writer.backup]
  /\ cache' = [cache EXCEPT ![writer.proc][writer.ns] = None]
  /\ UNCHANGED <<clock, stat, repeated, straddled>>
=============================================================================
