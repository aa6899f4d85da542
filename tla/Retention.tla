------------------------------ MODULE Retention ------------------------------
(***************************************************************************)
(* The output directory of the rebalance reports: ProcessFile and          *)
(* RemoveOldestFiles of pkg/couchbase/watcher.go. One goroutine calls them, *)
(* so a call is one action. File names are numbers, in the order ReadDir    *)
(* lists them; modification times are ranks among the files that exist, so  *)
(* that the directory can be used for ever.                                *)
(***************************************************************************)
EXTENDS Integers, FiniteSets, Functions

CONSTANTS
  Names,        \* the names os.CreateTemp can choose, and those of Nested
  Nested,       \* names of directories that can be in the output directory
  Full,         \* those that are not empty
  MaxCBFiles,   \* as in the code, where it is 5
  CoarseClock,  \* whether two files can have the same modification time
  MaxFailures   \* bound: no call fails once there are so many leftovers

ASSUME RetentionAssumption ==
  /\ Names \subseteq Nat /\ IsFiniteSet(Names) /\ Nested \subseteq Names /\ Full \subseteq Nested
  /\ MaxCBFiles \in Nat \ {0} /\ MaxFailures \in Nat
  /\ CoarseClock \in BOOLEAN

VARIABLES
  mtime,     \* the entries of the directory, each with its modification time
  latest,    \* history: the output ProcessFile wrote last, if newer than all others
  leftovers, \* history: since the last call that succeeded, how many have failed, but
             \* for a second removal, and how many directories it and they have removed
  result     \* what the last ProcessFile that wrote its output returned: "ok", the error
             \* of removing a file a second time ("twice"), or any other

vars == <<mtime, latest, leftovers, result>>

Entries == DOMAIN mtime
Rank(times, f) == Cardinality({times[g] : g \in {h \in DOMAIN times : times[h] <= times[f]}})
Ranked(times) == [f \in DOMAIN times |-> Rank(times, f)]

Init ==
  /\ \E dirs \in SUBSET Nested : mtime = [d \in dirs |-> 1]
  /\ latest = {} /\ leftovers = 0 /\ result = "ok"

-----------------------------------------------------------------------------
\* os.ReadDir: sorted by name.
ReadDir(files) ==
  [k \in 1..Cardinality(files) |->
     CHOOSE f \in files : Cardinality({g \in files : g <= f}) = k]

\* The clock is never set.
BugStamp == {0}

\* The modification times a file written now can have: a new one, or that of the
\* newest file.
Newest == Cardinality({mtime[f] : f \in Entries})
Stamp == {Newest + 1} \cup {t \in {Newest} : CoarseClock /\ t > 0}

\* The directory with an output of the name n, written at t.
With(n, t) == [f \in Entries \cup {n} |-> IF f = n THEN t ELSE mtime[f]]

\* The list that is sorted: the loop over the listing writes every file that is
\* not a directory to files[0], and then as many entries as there are such files
\* are kept.
Listed(files) ==
  LET plain == files \ Nested
      names == ReadDir(files)
  IN  [k \in 1..Cardinality(plain) |->
         IF k = 1 THEN CHOOSE f \in plain : \A g \in plain : g <= f ELSE names[k]]

\* The list is cut at the wrong end, or one entry too early.
BugSurplus(length) == IF length > MaxCBFiles THEN MaxCBFiles ELSE 0
BugSurplusShort(length) == length - MaxCBFiles - 1

\* How many entries are removed: none when there are no more than MaxCBFiles.
Surplus(length) == length - MaxCBFiles

\* After instead of Before.
BugNotAfter(times, f, g) == times[g] <= times[f]

\* The order of sort.Slice: f can come before g.
NotAfter(times, f, g) == times[f] <= times[g]

\* filesToDelete, as positions in the list: the oldest first, in any order that
\* agrees with the modification times (sort.Slice is not stable).
FilesToDelete(list, times) ==
  LET surplus == Surplus(Cardinality(DOMAIN list))
  IN  {del \in Injection(1..surplus, DOMAIN list) :
         \A a \in 1..surplus : \A p \in DOMAIN list \ {del[b] : b \in 1..a} :
           NotAfter(times, list[del[a]], list[p])}

\* os.Remove fails for a name it has removed, and for a directory that is not empty.
Twice(names, a) == \E b \in 1..(a - 1) : names[b] = names[a]
Stays(names, a) == Twice(names, a) \/ names[a] \in Full

\* A number of removals, and then os.Remove fails, for these or any other reasons, and
\* RemoveOldestFiles returns, or there is nothing left to remove.
RemoveOldestFiles(times) ==
  LET list == Listed(DOMAIN times)
  IN  \E del \in FilesToDelete(list, times) : \E done \in 0..Cardinality(DOMAIN del) :
        LET names == [a \in DOMAIN del |-> list[del[a]]]
            removed == {names[a] : a \in 1..done}
            directories == Cardinality(removed \cap Nested)
        IN  /\ \A a \in 1..done : ~Stays(names, a)
            /\ mtime' = Ranked(Restrict(times, DOMAIN times \ removed))
            /\ \/ /\ DOMAIN del = 1..done
                  /\ result' = "ok" /\ leftovers' = directories
               \/ /\ done + 1 \in DOMAIN del /\ Twice(names, done + 1)
                  /\ result' = "twice" /\ leftovers' = leftovers + directories
               \/ /\ done + 1 \in DOMAIN del /\ ~Twice(names, done + 1)
                  /\ leftovers < MaxFailures
                  /\ result' = "error" /\ leftovers' = leftovers + directories + 1

-----------------------------------------------------------------------------
\* ProcessFile, with an output that has been written, under the name n. (If the
\* report cannot be read, or the output cannot be made, it changes nothing.)
ProcessFile(n) ==
  /\ n \in Names \ (Entries \cup Nested)
  /\ \E t \in Stamp :
       /\ RemoveOldestFiles(With(n, t))
       /\ latest' = IF t > Newest THEN {n} ELSE {}

\* A write fails, or the listing in RemoveOldestFiles: ProcessFile returns, its output
\* stays, nothing is removed.
WriteFails(n) ==
  /\ n \in Names \ (Entries \cup Nested)
  /\ leftovers < MaxFailures
  /\ \E t \in Stamp : mtime' = With(n, t)
  /\ leftovers' = leftovers + 1
  /\ latest' = {} /\ result' = "error"

Next == \E n \in Names : ProcessFile(n) \/ WriteFails(n)

Spec == Init /\ [][Next]_vars
-----------------------------------------------------------------------------
(* Properties.                                                             *)

\* Type invariant of the output directory.
TypeOK ==
  /\ Entries \subseteq Names
  /\ \A f \in Entries : mtime[f] \in 1..Cardinality(Entries)
  /\ latest \subseteq Names
  /\ leftovers \in 0..(MaxFailures + Cardinality(Nested))
  /\ result \in {"ok", "twice", "error"}

\* As long as the calls succeed the directory does not fill up: it holds no more than
\* MaxCBFiles outputs, and one for each call that has failed since the last one that
\* succeeded, however many failed before that, and for each directory removed in place
\* of an output. A file that is removed twice is no such failure: it costs no output.
\* A directory that is not empty, once it is the oldest entry of the list, makes every
\* call fail, and nothing bounds the outputs any more (RemoveOldestFiles).
OutputBounded == Cardinality(Entries \ Nested) <= MaxCBFiles + leftovers

\* The output just written is not among those removed, whatever happened before:
\* Fluent Bit can read it (ProcessFile calls RemoveOldestFiles on the directory it
\* has just written to). It takes MaxCBFiles > 1, as an output can be listed
\* twice, and a modification time of its own.
LatestKept == latest \subseteq Entries

\* An entry is removed only if at least MaxCBFiles - 1 others that are as new stay: a
\* burst of reports cannot push out an output sooner, although the first file is never
\* in the list, the last one twice, and directories take the places of files
\* (RemoveOldestFiles, called by ProcessFile).
RecentKept ==
  [][\A gone \in Entries \ Entries' :
       Cardinality({f \in Entries' : f \in Entries => mtime[f] >= mtime[gone]})
         >= MaxCBFiles - 1]_vars

\* A file is removed a second time only after a call that failed for another reason, or
\* a directory removed in place of an output, since the last call that succeeded:
\* otherwise there is never more than one file too many (RemoveOldestFiles, whose list
\* can hold its last file twice).
TwiceAfterLeftovers == result = "twice" => leftovers > 0

\* "So we remove the lowest numbers first", "remove the oldest": no output is
\* removed while an older one stays (test and comment on RemoveOldestFiles).
OldestRemoved ==
  [][\A gone \in Entries \ Entries', kept \in Entries \cap Entries' :
       mtime[gone] <= mtime[kept]]_vars
=============================================================================
