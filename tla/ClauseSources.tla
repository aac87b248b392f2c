----------------------------- MODULE ClauseSources -----------------------------
(***************************************************************************)
(* Where the clauses of the store come from: for every clause that it      *)
(* finds in the namespaces asked for and that a journal entry added,       *)
(* store/store.ts sourcesFor names the latest such entry.                  *)
(*                                                                         *)
(* Called by knowledgeSnapshot it holds the mutation lock.  Called on its  *)
(* own (reviewTentativeClaims, rememberTranscriptText) it loads the        *)
(* namespaces one after the other without a lock and then reads the        *)
(* journal under the journal's lock, among the commits, restarts and other *)
(* loads of ReviewedChanges.                                               *)
(***************************************************************************)
EXTENDS ReviewedChanges

CONSTANTS
  NamesAsked,   \* sets of namespaces that callers ask for
  MaxAsked      \* bound on entries and proposals when they ask

VARIABLES
  lookup,   \* [Procs -> the sourcesFor without lock under way, or None]
  told      \* the answer that the last step gave, or None

sourcesVars == <<vars, lookup, told>>

Calling(p) == lookup[p] # None

\* Mutation of LatestAdds: the first entry is kept.
FirstAdds(n, c) ==
  {i \in 0..Len(journal) : /\ Adds(n, c, i)
                           /\ \A j \in 0..Len(journal) : Adds(n, c, j) => i <= j}

\* Entry 0 stands for those before the model's.
LatestAdds(n, c) ==
  {i \in 0..Len(journal) : /\ Adds(n, c, i)
                           /\ \A j \in i+1..Len(journal) : ~Adds(n, c, j)}

\* What is known of a namespace once it is loaded: its clauses, how long the
\* journal was then, and whether the load came amid a commit, between its
\* first rename and its journal entry.
Amid(n)       == ~Unlocked /\ writer.ns = n /\ writer.step # "aside"
Found(n, txt) == [text |-> txt, began |-> Len(journal), amid |-> Amid(n)]

Loads   == [text : SUBSET Clauses, began : Nat, amid : BOOLEAN]
Founds  == UNION {[names -> Loads] : names \in SUBSET Namespaces}
Lookups == [names : SUBSET Namespaces, found : Founds]

ASSUME NoneIsNoLookup == None \notin Lookups
ASSUME NamesAssumption == NamesAsked \subseteq SUBSET Namespaces

\* The clauses found that some entry added, each with the latest of them: a
\* clause of a commit that is rolled back has no source.
SourcesOf(n, text) ==
  [c \in {d \in text : LatestAdds(n, d) # {}} |-> LatestAdds(n, c)]

\* The answer is the sources; a snapshot also returns the clauses found.
Answered(locked, found) ==
  [locked  |-> locked,
   found   |-> found,
   sources |-> [n \in DOMAIN found |-> SourcesOf(n, found[n].text)]]

-----------------------------------------------------------------------------
SourcesInit ==
  /\ Init
  /\ lookup = [p \in Procs |-> None]
  /\ told = None

Askable(p) == ~Calling(p) /\ Idle(p) /\ Len(journal) + Cardinality(proposals) <= MaxAsked

\* sourcesFor is called without the lock.
SourcesFor(p, names) ==
  /\ Askable(p)
  /\ lookup' = [lookup EXCEPT ![p] = [names |-> names, found |-> <<>>]]
  /\ told' = None
  /\ UNCHANGED vars

\* The namespaces still to be loaded.
Wanted(p) == IF Calling(p) THEN lookup[p].names \ DOMAIN lookup[p].found ELSE {}

WithFound(p, n, txt) ==
  [lookup EXCEPT ![p].found =
     [m \in DOMAIN lookup[p].found \cup {n} |->
        IF m = n THEN Found(n, txt) ELSE lookup[p].found[m]]]

\* A load that the cache answers,
LoadHit(p, n) ==
  /\ n \in Wanted(p) /\ stat[p] = None /\ Hit(p, n)
  /\ lookup' = WithFound(p, n, cache[p][n].text)
  /\ told' = None
  /\ UNCHANGED vars

\* or that takes the file's stamp
LoadStat(p, n) ==
  /\ n \in Wanted(p) /\ StatFile(p, n) /\ StoreKept
  /\ told' = None
  /\ UNCHANGED lookup

\* and then reads the file.
LoadRead(p) ==
  /\ Calling(p) /\ ReadFile(p) /\ StoreKept
  /\ lookup' = WithFound(p, stat[p].ns, Text(file[stat[p].ns]))
  /\ told' = None

\* The journal is read once its lock is free, which a commit holds to its end.
Attribute(p) ==
  /\ Calling(p) /\ Wanted(p) = {} /\ Unlocked
  /\ told' = Answered(FALSE, lookup[p].found)
  /\ lookup' = [lookup EXCEPT ![p] = None]
  /\ UNCHANGED vars

\* Mutation of Snapshot: no lock is taken.
SnapshotUnlocked(p, names) ==
  /\ Askable(p)
  /\ Remember(p, names)
  /\ told' = Answered(TRUE, [n \in names |-> Found(n, Loaded(p, n))])
  /\ UNCHANGED <<clock, file, writer, stat, repeated, straddled, journal, proposals,
                 answers, reports, lookup>>

\* knowledgeSnapshot: all of it under the mutation lock.
Snapshot(p, names) ==
  /\ Askable(p) /\ Unlocked
  /\ Remember(p, names)
  /\ told' = Answered(TRUE, [n \in names |-> Found(n, Loaded(p, n))])
  /\ UNCHANGED <<clock, file, writer, stat, repeated, straddled, journal, proposals,
                 answers, reports, lookup>>

\* A process ends, and with it the call it has under way.
EndCall(p) ==
  /\ Calling(p) /\ Restart(p) /\ StoreKept
  /\ lookup' = [lookup EXCEPT ![p] = None]
  /\ told' = None

\* What ReviewedChanges does, by the processes that are not within a call.
OtherStep ==
  /\ \/ CommonStep
     \/ \E p \in Procs : ~Calling(p) /\ ProcStep(p)
  /\ told' = None
  /\ UNCHANGED lookup

SourcesNext ==
  \/ OtherStep
  \/ \E p \in Procs :
       \/ \E names \in NamesAsked : SourcesFor(p, names) \/ Snapshot(p, names)
       \/ \E n \in Namespaces : LoadHit(p, n) \/ LoadStat(p, n)
       \/ LoadRead(p)
       \/ Attribute(p)
       \/ EndCall(p)

SourcesSpec == SourcesInit /\ [][SourcesNext]_sourcesVars

-----------------------------------------------------------------------------
(* Properties                                                              *)

\* Entry i added clause c to namespace n, which has held it ever since.
HeldSince(n, c, i) ==
  /\ Adds(n, c, i)
  /\ \A k \in i..Len(journal) : c \in Recorded(n, k)

\* The clauses that namespace n held from its load until the answer.
Kept(n) ==
  {c \in Clauses : \A k \in told.found[n].began..Len(journal) : c \in Recorded(n, k)}

\* The answer tells of all of these, and since when.
TellsOfKept(n) ==
  \A c \in Kept(n) :
    /\ c \in DOMAIN told.sources[n]
    /\ \E i \in 0..Len(journal) : told.sources[n][c] = {i} /\ HeldSince(n, c, i)

\* It tells of no clause that the namespace did not hold meanwhile.
TellsOfHeld(n) ==
  \A c \in DOMAIN told.sources[n] :
    \E k \in told.found[n].began..Len(journal) : c \in Recorded(n, k)

Tells(n) == TellsOfKept(n) /\ TellsOfHeld(n)

\* A snapshot is one moment of the store, its sources too
\* (store.ts, knowledgeSnapshot).
SnapshotsAreOneMoment ==
  Faithful /\ told # None /\ told.locked =>
    \A n \in DOMAIN told.found :
      Tells(n) /\ told.found[n].text = Recorded(n, Len(journal))

\* Without the lock an answer is right about all that did not change while it
\* was put together, unless a load came amid a commit (store.ts:4403).
SourcesAreOfTheCall ==
  Faithful /\ told # None =>
    \A n \in DOMAIN told.found : ~told.found[n].amid => Tells(n)

\* "Latest durable assertion source for every currently stored clause."
\* (store.ts:4396): no clause that was stored all through the call is left
\* out, also when a load comes amid a commit.
EveryStoredClauseHasItsSource ==
  Faithful /\ told # None => \A n \in DOMAIN told.found : TellsOfKept(n)
=============================================================================
