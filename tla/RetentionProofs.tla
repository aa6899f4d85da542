--------------------------- MODULE RetentionProofs ---------------------------
(***************************************************************************)
(* Proofs about Retention, for every number of names, directories, failed  *)
(* calls and every limit: what RemoveOldestFiles, whose list lacks its    *)
(* first file and can have its last one twice, still guarantees.           *)
(***************************************************************************)
EXTENDS Retention, FiniteSetTheorems, TLAPS

\* A directory: a set of names and a time for each.
Directory(times) == DOMAIN times \subseteq Names /\ \A f \in DOMAIN times : times[f] \in Nat

-----------------------------------------------------------------------------
\* The position of a file in its directory's listing.
Position(files, f) == Cardinality({g \in files : g <= f})

\* The positions of the files are 1 up to their number, each taken once.
LEMMA Positions ==
  ASSUME NEW files, files \subseteq Nat, IsFiniteSet(files)
  PROVE  /\ Cardinality(files) \in Nat
         /\ \A f \in files : Position(files, f) \in 1..Cardinality(files)
         /\ \A k \in 1..Cardinality(files) : \E f \in files : Position(files, f) = k
<1>. DEFINE n == Cardinality(files)
            pos == [f \in files |-> Position(files, f)]
<1>1. n \in Nat
  BY FS_CardinalityType
<1>2. ASSUME NEW f \in files
      PROVE  Position(files, f) \in 1..n
  <2>. DEFINE before == {g \in files : g <= f}
  <2>1. before \in SUBSET files /\ f \in before
    OBVIOUS
  <2>2. IsFiniteSet(before) /\ Cardinality(before) <= n
    BY <2>1, FS_Subset
  <2>3. Cardinality(before) \in Nat /\ Cardinality(before) # 0
    BY <2>1, <2>2, FS_CardinalityType, FS_EmptySet
  <2> QED BY <1>1, <2>2, <2>3 DEF Position
<1>3. ASSUME NEW f \in files, NEW g \in files, f < g
      PROVE  Position(files, f) # Position(files, g)
  <2>. DEFINE S == {h \in files : h <= f}
              T == {h \in files : h <= g}
  <2>0. \A h \in files : h \in Nat
    OBVIOUS
  <2>1. S \subseteq T /\ g \in T /\ g \notin S
    <3>1. ASSUME NEW h \in files, h <= f
          PROVE  h <= g
      BY <1>3, <2>0, <3>1
    <3>2. g \in Nat /\ f \in Nat /\ g <= g /\ ~(g <= f)
      BY <1>3, <2>0
    <3> QED BY <3>1, <3>2
  <2>2. IsFiniteSet(T)
    BY FS_Subset
  <2>3. Cardinality(T) = Cardinality(S) => T = S
    BY <2>1, <2>2, FS_Subset
  <2> QED BY <2>1, <2>3 DEF Position
<1>4. pos \in Injection(files, 1..n)
  <2>1. pos \in [files -> 1..n]
    BY <1>2
  <2>2. \A f, g \in files : pos[f] = pos[g] => f = g
    BY <1>3
  <2> QED BY <2>1, <2>2 DEF Injection, IsInjective
<1>5. IsFiniteSet(1..n) /\ Cardinality(1..n) = n
  BY <1>1, FS_Interval
<1>6. pos \in Surjection(files, 1..n)
  BY <1>4, <1>5, FS_Injection
<1>7. \A k \in 1..n : \E f \in files : pos[f] = k
  BY <1>6 DEF Surjection
<1> QED BY <1>1, <1>2, <1>7

\* ReadDir lists every file at most once.
LEMMA ReadDirLists ==
  ASSUME NEW files, files \subseteq Nat, IsFiniteSet(files)
  PROVE  /\ \A k \in 1..Cardinality(files) : ReadDir(files)[k] \in files
         /\ \A j, k \in 1..Cardinality(files) : ReadDir(files)[j] = ReadDir(files)[k] => j = k
<1>. DEFINE names == ReadDir(files)
<1>1. ASSUME NEW k \in 1..Cardinality(files)
      PROVE  names[k] \in files /\ Position(files, names[k]) = k
  <2>1. \E f \in files : Position(files, f) = k
    BY Positions
  <2>2. names[k] = CHOOSE f \in files : Position(files, f) = k
    BY DEF ReadDir, Position
  <2>. HIDE DEF names
  <2> QED BY <2>1, <2>2
<1>. HIDE DEF names
<1>2. \A j, k \in 1..Cardinality(files) : names[j] = names[k] => j = k
  BY <1>1
<1> QED BY <1>1, <1>2 DEF names

\* The last of a set of files.
LEMMA LastExists ==
  ASSUME NEW files, files \subseteq Nat, IsFiniteSet(files), files # {}
  PROVE  \E f \in files : \A g \in files : g <= f
<1>1. Cardinality(files) \in Nat /\ Cardinality(files) # 0
  BY FS_CardinalityType, FS_EmptySet
<1>. Cardinality(files) \in 1..Cardinality(files)
  BY <1>1
<1>2. PICK f \in files : Position(files, f) = Cardinality(files)
  BY Positions
<1>3. {g \in files : g <= f} = files
  BY <1>2, FS_Subset DEF Position
<1> QED BY <1>3

\* A function that is injective on a finite set has as many values as arguments there.
LEMMA ImageSize ==
  ASSUME NEW D, IsFiniteSet(D), NEW f,
         \A i, j \in D : f[i] = f[j] => i = j
  PROVE  /\ IsFiniteSet({f[i] : i \in D})
         /\ Cardinality({f[i] : i \in D}) = Cardinality(D)
<1>. DEFINE S == {f[i] : i \in D}
            g == [i \in D |-> f[i]]
<1>1. g \in Surjection(D, S)
  BY DEF Surjection
<1>2. g \in Injection(D, S)
  BY DEF Injection, IsInjective
<1> QED BY <1>1, <1>2, FS_Surjection

-----------------------------------------------------------------------------
\* The list RemoveOldestFiles sorts has as many positions as there are outputs, and
\* holds files; only the first position can repeat another.
LEMMA ListedOnce ==
  ASSUME NEW files, files \subseteq Names
  PROVE  /\ IsFiniteSet(files) /\ Cardinality(files \ Nested) \in Nat
         /\ DOMAIN Listed(files) = 1..Cardinality(files \ Nested)
         /\ \A p \in DOMAIN Listed(files) : Listed(files)[p] \in files
         /\ \A p, q \in DOMAIN Listed(files) \ {1} :
              Listed(files)[p] = Listed(files)[q] => p = q
<1>. DEFINE plain == files \ Nested
            n == Cardinality(plain)
            names == ReadDir(files)
            list == Listed(files)
<1>1. /\ files \subseteq Nat /\ plain \subseteq Nat
      /\ IsFiniteSet(files) /\ IsFiniteSet(plain) /\ n <= Cardinality(files)
      /\ n \in Nat /\ Cardinality(files) \in Nat
  BY RetentionAssumption, FS_Subset, FS_CardinalityType
<1>2. list = [k \in 1..n |-> IF k = 1 THEN CHOOSE f \in plain : \A g \in plain : g <= f
                             ELSE names[k]]
  BY DEF Listed
<1>3. ASSUME NEW k \in 1..n
      PROVE  list[k] \in files
  <2>1. CASE k = 1
    <3>1. plain # {}
      BY <1>1, FS_EmptySet
    <3>2. \E f \in plain : \A g \in plain : g <= f
      BY <1>1, <3>1, LastExists
    <3> QED BY <1>2, <2>1, <3>2
  <2>2. CASE k # 1
    <3>1. list[k] = names[k] /\ k \in 1..Cardinality(files)
      BY <1>1, <1>2, <2>2
    <3> QED BY <1>1, <3>1, ReadDirLists
  <2> QED BY <2>1, <2>2
<1>4. ASSUME NEW p \in (1..n) \ {1}, NEW q \in (1..n) \ {1}, list[p] = list[q]
      PROVE  p = q
  <2>1. list[p] = names[p] /\ list[q] = names[q]
    BY <1>2
  <2>2. p \in 1..Cardinality(files) /\ q \in 1..Cardinality(files)
    BY <1>1
  <2> QED BY <1>1, <1>4, <2>1, <2>2, ReadDirLists
<1>5. DOMAIN list = 1..n
  BY <1>2
<1>. HIDE DEF list
<1>6. /\ \A p \in DOMAIN list : list[p] \in files
      /\ \A p, q \in DOMAIN list \ {1} : list[p] = list[q] => p = q
  BY <1>3, <1>4, <1>5
<1> QED BY <1>1, <1>5, <1>6 DEF list

\* The positions of a list of length n that are not deleted.
Kept(n, s, del) == (1..n) \ {del[b] : b \in 1..s}

\* Of the positions that are not deleted, all but one hold names that occur once among
\* them and are not deleted elsewhere.
LEMMA OneSpoiled ==
  ASSUME NEW n, NEW s, NEW list, NEW del, \A b \in 1..s : del[b] \in 1..n,
         \A p, r \in (1..n) \ {1} : list[p] = list[r] => p = r
  PROVE  \E q : /\ \A p \in Kept(n, s, del) \ {q} : \A b \in 1..s : list[p] # list[del[b]]
                /\ \A p, r \in Kept(n, s, del) \ {q} : list[p] = list[r] => p = r
<1>. DEFINE kept == Kept(n, s, del)
<1>1. \A b \in 1..s : del[b] \in 1..n /\ del[b] \notin kept
  BY DEF Kept
<1>2. kept \subseteq 1..n
  BY DEF Kept
<1>3. CASE 1 \in kept
  <2>1. \A p \in kept \ {1} : \A b \in 1..s : list[p] # list[del[b]]
    BY <1>1, <1>2, <1>3
  <2>2. \A p, r \in kept \ {1} : list[p] = list[r] => p = r
    BY <1>2
  <2> QED BY <2>1, <2>2
<1>4. CASE 1 \notin kept
  <2>1. \A p, r \in kept : list[p] = list[r] => p = r
    BY <1>2, <1>4
  <2>2. \A p \in kept : \A b \in 1..s : list[p] = list[del[b]] => list[p] = list[1]
    BY <1>1, <1>2, <1>4
  <2>3. CASE \E p \in kept : list[p] = list[1]
    <3>1. PICK q \in kept : list[q] = list[1]
      BY <2>3
    <3>2. \A p \in kept \ {q} : \A b \in 1..s : list[p] # list[del[b]]
      BY <2>1, <2>2, <3>1
    <3> QED BY <2>1, <3>2
  <2>4. CASE ~ \E p \in kept : list[p] = list[1]
    BY <2>1, <2>2, <2>4
  <2> QED BY <2>3, <2>4
<1> QED BY <1>3, <1>4

-----------------------------------------------------------------------------
\* The names RemoveOldestFiles removes, one after the other, for a choice of positions.
Chosen(times, del) == [a \in DOMAIN del |-> Listed(DOMAIN times)[del[a]]]
Choices(times) == FilesToDelete(Listed(DOMAIN times), times)
Excess(times) == Cardinality(DOMAIN times \ Nested) - MaxCBFiles

\* They are names of files, as many as there are too many outputs; the oldest goes first.
LEMMA ChosenOldest ==
  ASSUME NEW times, Directory(times), NEW del \in Choices(times)
  PROVE  /\ Excess(times) \in Int
         /\ del \in Injection(1..Excess(times), DOMAIN Listed(DOMAIN times))
         /\ DOMAIN del = 1..Excess(times) /\ DOMAIN Chosen(times, del) = 1..Excess(times)
         /\ \A a \in 1..Excess(times) :
              /\ Chosen(times, del)[a] = Listed(DOMAIN times)[del[a]]
              /\ Chosen(times, del)[a] \in DOMAIN times
              /\ \A p \in DOMAIN Listed(DOMAIN times) \ {del[b] : b \in 1..a} :
                   times[Chosen(times, del)[a]] <= times[Listed(DOMAIN times)[p]]
<1>. DEFINE list == Listed(DOMAIN times)
            n == Cardinality(DOMAIN times \ Nested)
<1>1. n \in Nat /\ DOMAIN list = 1..n /\ \A p \in DOMAIN list : list[p] \in DOMAIN times
  BY ListedOnce DEF Directory
<1>. HIDE DEF list
<1>2. Cardinality(DOMAIN list) = n
  BY <1>1, FS_Interval
<1>3. Surplus(Cardinality(DOMAIN list)) = Excess(times) /\ Excess(times) \in Int
  BY <1>1, <1>2, RetentionAssumption DEF Surplus, Excess
<1>4. /\ del \in Injection(1..Excess(times), DOMAIN list)
      /\ \A a \in 1..Excess(times) : \A p \in DOMAIN list \ {del[b] : b \in 1..a} :
           times[list[del[a]]] <= times[list[p]]
  BY <1>3 DEF Choices, FilesToDelete, NotAfter, list
<1>5. DOMAIN del = 1..Excess(times) /\ \A a \in 1..Excess(times) : del[a] \in DOMAIN list
  BY <1>4 DEF Injection
<1>6. Chosen(times, del) = [a \in DOMAIN del |-> list[del[a]]]
  BY DEF Chosen, list
<1>. HIDE DEF Chosen
<1> QED BY <1>1, <1>3, <1>4, <1>5, <1>6 DEF list

\* What has been removed after a number of removals.
Gone(names, done) == {names[a] : a \in 1..done}

\* It is among them, and is as many as the removals, if none was of the same name again.
LEMMA GoneCounted ==
  ASSUME NEW names, NEW done \in Nat, \A a \in 1..done : ~Twice(names, a)
  PROVE  IsFiniteSet(Gone(names, done)) /\ Cardinality(Gone(names, done)) = done
<1>1. ASSUME NEW a \in 1..done, NEW b \in 1..done, names[a] = names[b], a < b
      PROVE  FALSE
  <2>1. a \in 1..(b - 1)
    BY <1>1
  <2> QED BY <1>1, <2>1 DEF Twice
<1>2. \A a, b \in 1..done : names[a] = names[b] => a = b
  BY <1>1
<1>3. IsFiniteSet(1..done) /\ Cardinality(1..done) = done
  BY FS_Interval
<1> QED BY <1>2, <1>3, ImageSize DEF Gone

\* Whatever is removed, MaxCBFiles - 1 entries that are as new stay.
LEMMA Survivors ==
  ASSUME NEW times, Directory(times), NEW del \in Choices(times), NEW done,
         1..done \subseteq DOMAIN del, NEW gone \in Gone(Chosen(times, del), done)
  PROVE  LET rest == DOMAIN times \ Gone(Chosen(times, del), done)
         IN  Cardinality({f \in rest : times[f] >= times[gone]}) >= MaxCBFiles - 1
<1>. DEFINE list == Listed(DOMAIN times)
            n == Cardinality(DOMAIN times \ Nested)
            s == Excess(times)
            names == Chosen(times, del)
            kept == Kept(n, s, del)
            removed == Gone(names, done)
            stay == {f \in DOMAIN times \ removed : times[f] >= times[gone]}
<1>1. /\ n \in Nat /\ s = n - MaxCBFiles /\ s \in Int
      /\ IsFiniteSet(DOMAIN times) /\ DOMAIN list = 1..n
  <2>1. n \in Nat /\ IsFiniteSet(DOMAIN times) /\ DOMAIN list = 1..n
    BY ListedOnce DEF Directory
  <2> QED BY <2>1, RetentionAssumption DEF Excess
<1>2. /\ \A p \in DOMAIN list : list[p] \in DOMAIN times
      /\ \A p, q \in DOMAIN list \ {1} : list[p] = list[q] => p = q
  BY ListedOnce DEF Directory
<1>3. /\ del \in Injection(1..s, DOMAIN list) /\ DOMAIN names = 1..s
      /\ \A a \in 1..s :
           /\ names[a] = list[del[a]] /\ names[a] \in DOMAIN times
           /\ \A p \in DOMAIN list \ {del[b] : b \in 1..a} : times[names[a]] <= times[list[p]]
      /\ 1..done \subseteq 1..s
  BY ChosenOldest
<1>. HIDE DEF list, n, s, names
<1>4. /\ del \in Injection(1..s, 1..n)
      /\ \A b \in 1..s : del[b] \in 1..n
      /\ \A i, j \in 1..s : del[i] = del[j] => i = j
  BY <1>1, <1>3 DEF Injection, IsInjective
<1>5. PICK a \in 1..s : gone = names[a]
  BY <1>3 DEF Gone, names
<1>6. PICK q : /\ \A p \in kept \ {q} : \A b \in 1..s : list[p] # list[del[b]]
               /\ \A p, r \in kept \ {q} : list[p] = list[r] => p = r
  <2>1. \A p, r \in (1..n) \ {1} : list[p] = list[r] => p = r
    BY <1>1, <1>2
  <2>2. \A b \in 1..s : del[b] \in 1..n
    BY <1>4
  <2>3. \E q : /\ \A p \in Kept(n, s, del) \ {q} : \A b \in 1..s : list[p] # list[del[b]]
               /\ \A p, r \in Kept(n, s, del) \ {q} : list[p] = list[r] => p = r
    <3>. HIDE DEF kept, stay
    <3> QED BY ONLY <2>1, <2>2, OneSpoiled
  <2> QED BY <2>3
<1>7. IsFiniteSet(kept) /\ Cardinality(kept) = MaxCBFiles
  <2>. DEFINE D == 1..s
              N == 1..n
              gaps == {del[b] : b \in D}
  <2>1. IsFiniteSet(D) /\ Cardinality(D) = s /\ IsFiniteSet(N) /\ Cardinality(N) = n
    BY <1>1, <1>5, FS_Interval
  <2>2. /\ \A i, j \in D : del[i] = del[j] => i = j
        /\ \A i \in D : del[i] \in N
    BY <1>4
  <2>. HIDE DEF D, N
  <2>3. Cardinality(gaps) = s
    BY <2>1, <2>2, ImageSize
  <2>4. N \cap gaps = gaps
    BY <2>2
  <2>. HIDE DEF gaps
  <2>5. IsFiniteSet(N \ gaps) /\ Cardinality(N \ gaps) = Cardinality(N) - Cardinality(N \cap gaps)
    BY <2>1, FS_Difference
  <2>6. IsFiniteSet(N \ gaps) /\ Cardinality(N \ gaps) = n - s
    BY <2>1, <2>3, <2>4, <2>5
  <2> QED BY <1>1, <2>6, RetentionAssumption DEF D, N, gaps, Kept
<1>. DEFINE good == {list[p] : p \in kept \ {q}}
<1>8. IsFiniteSet(kept \ {q}) /\ Cardinality(kept \ {q}) >= MaxCBFiles - 1
  <2>. HIDE DEF kept
  <2>1. /\ IsFiniteSet(kept \ {q})
        /\ Cardinality(kept \ {q}) = IF q \in kept THEN Cardinality(kept) - 1 ELSE Cardinality(kept)
    BY <1>7, FS_RemoveElement
  <2> QED BY <1>7, <2>1, RetentionAssumption
<1>9. Cardinality(good) >= MaxCBFiles - 1
  <2>. DEFINE D == kept \ {q}
  <2>1. IsFiniteSet(D) /\ Cardinality(D) >= MaxCBFiles - 1 /\ \A p, r \in D : list[p] = list[r] => p = r
    BY <1>6, <1>8
  <2>. HIDE DEF D
  <2>2. Cardinality({list[p] : p \in D}) = Cardinality(D)
    BY <2>1, ImageSize
  <2> QED BY <2>1, <2>2 DEF D
<1>10. ASSUME NEW p \in kept \ {q}
       PROVE  list[p] \in stay
  <2>1. p \in DOMAIN list /\ p \in DOMAIN list \ {del[b] : b \in 1..a}
    BY <1>1, <1>5 DEF Kept
  <2>2. list[p] \in DOMAIN times /\ times[gone] <= times[list[p]]
    BY <1>2, <1>3, <1>5, <2>1
  <2>3. times[gone] \in Nat /\ times[list[p]] \in Nat
    BY <1>3, <1>5, <2>2 DEF Directory
  <2>4. \A b \in 1..s : list[p] # names[b]
    BY <1>3, <1>6
  <2>5. list[p] \notin removed
    BY <1>3, <2>4 DEF Gone
  <2> QED BY <2>2, <2>3, <2>5
<1>11. IsFiniteSet(stay) /\ good \in SUBSET stay
  BY <1>1, <1>10, FS_Subset
<1>12. Cardinality(good) <= Cardinality(stay) /\ Cardinality(stay) \in Nat /\ Cardinality(good) \in Nat
  BY <1>11, FS_Subset, FS_CardinalityType
<1> QED BY <1>9, <1>12, RetentionAssumption DEF names

-----------------------------------------------------------------------------
\* The modification times of the entries have no gaps: a time is a rank.
Dense == {mtime[f] : f \in Entries} = 1..Newest

\* A call fails only while there are few leftovers, and each directory is removed once.
LeftoversCounted ==
  leftovers + Cardinality(Entries \cap Nested) <= MaxFailures + Cardinality(Nested)

\* The inductive invariant.
IInv ==
  /\ Entries \subseteq Names /\ latest \subseteq Names
  /\ leftovers \in Nat /\ result \in {"ok", "twice", "error"}
  /\ Dense /\ LeftoversCounted /\ OutputBounded /\ TwiceAfterLeftovers

\* Ranks are dense.
LEMMA RanksDense ==
  ASSUME NEW times, Directory(times)
  PROVE  /\ DOMAIN Ranked(times) = DOMAIN times
         /\ \E m \in Nat : {Ranked(times)[f] : f \in DOMAIN times} = 1..m
<1>. DEFINE T == {times[f] : f \in DOMAIN times}
            rank == Ranked(times)
<1>1. IsFiniteSet(DOMAIN times)
  BY RetentionAssumption, FS_Subset DEF Directory
<1>2. IsFiniteSet(T) /\ T \subseteq Nat
  <2>1. [f \in DOMAIN times |-> times[f]] \in Surjection(DOMAIN times, T)
    BY DEF Surjection
  <2> QED BY <1>1, <2>1, FS_Surjection DEF Directory
<1>3. \A f \in DOMAIN times : rank[f] = Position(T, times[f])
  <2>1. ASSUME NEW f \in DOMAIN times
        PROVE  {times[g] : g \in {h \in DOMAIN times : times[h] <= times[f]}}
                 = {t \in T : t <= times[f]}
    OBVIOUS
  <2> QED BY <2>1 DEF Ranked, Rank, Position
<1>4. DOMAIN rank = DOMAIN times
  BY DEF Ranked
<1>. HIDE DEF rank
<1>5. {rank[f] : f \in DOMAIN times} = {Position(T, t) : t \in T}
  BY <1>3
<1>. HIDE DEF T
<1>6. /\ Cardinality(T) \in Nat
      /\ \A t \in T : Position(T, t) \in 1..Cardinality(T)
      /\ \A k \in 1..Cardinality(T) : \E t \in T : Position(T, t) = k
  BY <1>2, Positions
<1>7. {Position(T, t) : t \in T} = 1..Cardinality(T)
  BY <1>6
<1> QED BY <1>4, <1>5, <1>6, <1>7 DEF rank

\* What RemoveOldestFiles does, for the positions it chooses and the removals it makes.
Removes(times, del, done) ==
  LET names == Chosen(times, del)
      removed == Gone(names, done)
      directories == Cardinality(removed \cap Nested)
  IN  /\ done \in Nat /\ 1..done \subseteq DOMAIN del
      /\ \A a \in 1..done : ~Twice(names, a)
      /\ mtime' = Ranked(Restrict(times, DOMAIN times \ removed))
      /\ \/ /\ DOMAIN del = 1..done
            /\ result' = "ok" /\ leftovers' = directories
         \/ /\ done + 1 \in DOMAIN del /\ Twice(names, done + 1)
            /\ result' = "twice" /\ leftovers' = leftovers + directories
         \/ /\ leftovers < MaxFailures
            /\ result' = "error" /\ leftovers' = leftovers + directories + 1

\* A call is one of a choice of files and a number of removals.
LEMMA Removing ==
  ASSUME NEW times, Directory(times), RemoveOldestFiles(times)
  PROVE  \E del \in Choices(times), done \in Nat : Removes(times, del, done)
<1>. DEFINE Call(del, done) ==
        LET names == Chosen(times, del)
            removed == {names[a] : a \in 1..done}
            directories == Cardinality(removed \cap Nested)
        IN  /\ \A a \in 1..done : ~Stays(names, a)
            /\ mtime' = Ranked(Restrict(times, DOMAIN times \ removed))
            /\ \/ /\ DOMAIN del = 1..done
                  /\ result' = "ok" /\ leftovers' = directories
               \/ /\ done + 1 \in DOMAIN del /\ Twice(names, done + 1)
                  /\ result' = "twice" /\ leftovers' = leftovers + directories
               \/ /\ done + 1 \in DOMAIN del /\ ~Twice(names, done + 1)
                  /\ leftovers < MaxFailures
                  /\ result' = "error" /\ leftovers' = leftovers + directories + 1
<1>0. \E del \in Choices(times) : \E done \in 0..Cardinality(DOMAIN del) : Call(del, done)
  BY DEF RemoveOldestFiles, Choices, Chosen
<1>. HIDE DEF Call
<1>1. PICK del \in Choices(times) : \E done \in 0..Cardinality(DOMAIN del) : Call(del, done)
  BY <1>0
<1>2. DOMAIN del = 1..Excess(times) /\ Excess(times) \in Int
  BY ChosenOldest
<1>3. Cardinality(DOMAIN del) = IF Excess(times) > 0 THEN Excess(times) ELSE 0
  <2>1. CASE Excess(times) > 0
    BY <1>2, <2>1, FS_Interval
  <2>2. CASE ~(Excess(times) > 0)
    <3>1. DOMAIN del = {}
      BY <1>2, <2>2
    <3> QED BY <2>2, <3>1, FS_EmptySet
  <2> QED BY <2>1, <2>2
<1>4. PICK done \in 0..Cardinality(DOMAIN del) : Call(del, done)
  BY <1>1
<1>5. done \in Nat /\ 1..done \subseteq DOMAIN del
  BY <1>2, <1>3
<1>6. \A a \in 1..done : ~Twice(Chosen(times, del), a)
  BY <1>4 DEF Call, Stays
<1>7. Removes(times, del, done)
  BY <1>4, <1>5, <1>6 DEF Removes, Gone, Call
<1> QED BY <1>5, <1>7

\* It leaves what it does not remove, with times that are ranks again, and each removal
\* is of an entry of its own.
LEMMA RemovesFacts ==
  ASSUME NEW times, Directory(times), NEW del \in Choices(times), NEW done,
         Removes(times, del, done)
  PROVE  LET removed == Gone(Chosen(times, del), done)
         IN  /\ IsFiniteSet(removed) /\ removed \subseteq DOMAIN times
             /\ Cardinality(removed) = done
             /\ Entries' = DOMAIN times \ removed
             /\ Dense'
<1>. DEFINE removed == Gone(Chosen(times, del), done)
            rest == Restrict(times, DOMAIN times \ removed)
<1>1. removed \subseteq DOMAIN times
  BY ChosenOldest DEF Gone, Removes
<1>2. IsFiniteSet(removed) /\ Cardinality(removed) = done
  BY GoneCounted DEF Removes
<1>3. Directory(rest) /\ DOMAIN rest = DOMAIN times \ removed
  BY DEF Directory, Restrict
<1>4. mtime' = Ranked(rest)
  BY DEF Removes
<1>. HIDE DEF rest
<1>5. PICK m \in Nat : {Ranked(rest)[f] : f \in DOMAIN rest} = 1..m
  BY <1>3, RanksDense
<1>6. Entries' = DOMAIN rest
  BY <1>3, <1>4, RanksDense DEF Entries
<1>7. {mtime'[f] : f \in Entries'} = 1..m
  BY <1>4, <1>5, <1>6
<1>8. Cardinality(1..m) = m
  BY FS_Interval
<1>9. Newest' = m
  BY <1>7, <1>8 DEF Newest
<1> QED BY <1>1, <1>2, <1>3, <1>6, <1>7, <1>9 DEF Dense

-----------------------------------------------------------------------------
\* The directory with a new output, which is as new as any other.
LEMMA WithFacts ==
  ASSUME IInv, NEW n \in Names \ (Entries \cup Nested), NEW t \in Stamp
  PROVE  /\ IsFiniteSet(Entries) /\ Newest \in Nat /\ t \in Nat
         /\ Directory(With(n, t)) /\ DOMAIN With(n, t) = Entries \cup {n}
         /\ \A f \in Entries : With(n, t)[f] = mtime[f] /\ mtime[f] \in 1..Newest /\ mtime[f] <= t
         /\ With(n, t)[n] = t
<1>1. IsFiniteSet(Entries)
  BY RetentionAssumption, FS_Subset DEF IInv
<1>2. Newest \in Nat
  <2>. DEFINE T == {mtime[f] : f \in Entries}
  <2>1. [f \in Entries |-> mtime[f]] \in Surjection(Entries, T)
    BY DEF Surjection
  <2> QED BY <1>1, <2>1, FS_Surjection, FS_CardinalityType DEF Newest
<1>3. \A f \in Entries : mtime[f] \in 1..Newest
  BY DEF IInv, Dense
<1>4. t \in Nat /\ t >= Newest
  BY <1>2 DEF Stamp
<1>5. /\ DOMAIN With(n, t) = Entries \cup {n}
      /\ \A f \in Entries : With(n, t)[f] = mtime[f]
      /\ With(n, t)[n] = t
  BY DEF With
<1>. HIDE DEF With
<1>6. Entries \cup {n} \subseteq Names
  BY DEF IInv
<1> QED BY <1>1, <1>2, <1>3, <1>4, <1>5, <1>6 DEF Directory

\* A call of ProcessFile, as its parts.
LEMMA Processing ==
  ASSUME IInv, NEW n \in Names, ProcessFile(n)
  PROVE  /\ n \notin Entries \cup Nested
         /\ \E t \in Stamp : \E del \in Choices(With(n, t)), done \in Nat :
              Removes(With(n, t), del, done) /\ latest' = IF t > Newest THEN {n} ELSE {}
<1>1. n \in Names \ (Entries \cup Nested)
  BY DEF ProcessFile
<1>2. PICK t \in Stamp : RemoveOldestFiles(With(n, t)) /\ latest' = IF t > Newest THEN {n} ELSE {}
  BY DEF ProcessFile
<1>3. Directory(With(n, t))
  BY <1>1, WithFacts
<1>4. \E del \in Choices(With(n, t)), done \in Nat : Removes(With(n, t), del, done)
  BY <1>2, <1>3, Removing
<1> QED BY <1>1, <1>2, <1>4

\* E is what is left of D without its part R.
Rest(E, D, R) == R \subseteq D /\ E = D \ R

\* Counting what is in Nested, and what is not, after R has been removed from D.
LEMMA Without ==
  ASSUME NEW D, IsFiniteSet(D), NEW R, NEW E, Rest(E, D, R)
  PROVE  /\ Cardinality(R) \in Nat /\ Cardinality(R \cap Nested) \in Nat
         /\ Cardinality(D \cap Nested) \in Nat /\ Cardinality(D \ Nested) \in Nat
         /\ Cardinality(E \cap Nested) = Cardinality(D \cap Nested) - Cardinality(R \cap Nested)
         /\ Cardinality(E \ Nested)
              = Cardinality(D \ Nested) - Cardinality(R) + Cardinality(R \cap Nested)
<1>1. /\ IsFiniteSet(R) /\ IsFiniteSet(R \cap Nested) /\ IsFiniteSet(R \ Nested)
      /\ IsFiniteSet(D \cap Nested) /\ IsFiniteSet(D \ Nested)
  <2>1. R \subseteq D
    BY DEF Rest
  <2> QED BY <2>1, FS_Subset
<1>2. /\ Cardinality(R) \in Nat /\ Cardinality(R \cap Nested) \in Nat /\ Cardinality(R \ Nested) \in Nat
      /\ Cardinality(D \cap Nested) \in Nat /\ Cardinality(D \ Nested) \in Nat
  BY <1>1, FS_CardinalityType
<1>3. Cardinality((D \cap Nested) \ (R \cap Nested)) = Cardinality(D \cap Nested) - Cardinality(R \cap Nested)
  <2>1. (D \cap Nested) \cap (R \cap Nested) = R \cap Nested
    BY DEF Rest
  <2>2. Cardinality((D \cap Nested) \ (R \cap Nested))
          = Cardinality(D \cap Nested) - Cardinality((D \cap Nested) \cap (R \cap Nested))
    BY <1>1, FS_Difference
  <2> QED BY <2>1, <2>2
<1>4. Cardinality((D \ Nested) \ (R \ Nested)) = Cardinality(D \ Nested) - Cardinality(R \ Nested)
  <2>1. (D \ Nested) \cap (R \ Nested) = R \ Nested
    BY DEF Rest
  <2>2. Cardinality((D \ Nested) \ (R \ Nested))
          = Cardinality(D \ Nested) - Cardinality((D \ Nested) \cap (R \ Nested))
    BY <1>1, FS_Difference
  <2> QED BY <2>1, <2>2
<1>5. Cardinality(R \ Nested) = Cardinality(R) - Cardinality(R \cap Nested)
  BY <1>1, FS_Difference
<1>6. E \cap Nested = (D \cap Nested) \ (R \cap Nested) /\ E \ Nested = (D \ Nested) \ (R \ Nested)
  BY DEF Rest
<1>7. /\ Cardinality(E \cap Nested) = Cardinality(D \cap Nested) - Cardinality(R \cap Nested)
      /\ Cardinality(E \ Nested) = Cardinality(D \ Nested) - Cardinality(R \ Nested)
  BY <1>3, <1>4, <1>6, Zenon
<1>8. Cardinality(D \ Nested) - Cardinality(R \ Nested)
        = Cardinality(D \ Nested) - Cardinality(R) + Cardinality(R \cap Nested)
  BY <1>2, <1>5
<1> QED BY <1>2, <1>7, <1>8

\* There is one output more with it, and no other directory.
LEMMA OneMore ==
  ASSUME IInv, NEW n \in Names \ (Entries \cup Nested)
  PROVE  /\ Cardinality(Entries \ Nested) \in Nat /\ Cardinality(Entries \cap Nested) \in Nat
         /\ Cardinality((Entries \cup {n}) \ Nested) = Cardinality(Entries \ Nested) + 1
         /\ (Entries \cup {n}) \cap Nested = Entries \cap Nested
<1>1. IsFiniteSet(Entries \ Nested) /\ IsFiniteSet(Entries \cap Nested)
  <2>1. Entries \ Nested \subseteq Names /\ Entries \cap Nested \subseteq Names
    BY DEF IInv
  <2> QED BY <2>1, RetentionAssumption, FS_Subset
<1>2. (Entries \cup {n}) \ Nested = (Entries \ Nested) \cup {n} /\ n \notin Entries \ Nested
  OBVIOUS
<1>3. Cardinality((Entries \ Nested) \cup {n}) = Cardinality(Entries \ Nested) + 1
  BY <1>1, <1>2, FS_AddElement
<1> QED BY <1>1, <1>2, <1>3, FS_CardinalityType

\* ProcessFile preserves the inductive invariant.
LEMMA ProcessFileInv ==
  ASSUME IInv, NEW n \in Names, ProcessFile(n)
  PROVE  IInv'
<1>0. n \notin Entries \cup Nested
  BY Processing
<1>1. PICK t \in Stamp : \E del \in Choices(With(n, t)), done \in Nat :
        Removes(With(n, t), del, done) /\ latest' = IF t > Newest THEN {n} ELSE {}
  BY Processing
<1>. DEFINE times == With(n, t)
<1>2. PICK del \in Choices(times), done \in Nat :
        Removes(times, del, done) /\ latest' = IF t > Newest THEN {n} ELSE {}
  BY <1>1
<1>. DEFINE names == Chosen(times, del)
            removed == Gone(names, done)
            D == Entries \cup {n}
            e == Excess(times)
            p == Cardinality(Entries \ Nested)
            d == Cardinality(removed \cap Nested)
<1>3. Directory(times) /\ DOMAIN times = D /\ IsFiniteSet(Entries)
  BY <1>0, WithFacts
<1>. HIDE DEF times
<1>4. /\ removed \subseteq D /\ Entries' = D \ removed /\ Dense'
      /\ Cardinality(removed) = done
  BY <1>2, <1>3, RemovesFacts
<1>5. /\ p \in Nat /\ Cardinality(Entries \cap Nested) \in Nat
      /\ Cardinality(D \ Nested) = p + 1 /\ D \cap Nested = Entries \cap Nested
  BY <1>0, OneMore
<1>6. e = p + 1 - MaxCBFiles /\ e \in Int /\ DOMAIN del = 1..e
  <2>1. DOMAIN del = 1..e
    BY <1>2, <1>3, ChosenOldest
  <2>2. e = p + 1 - MaxCBFiles
    <3>1. Cardinality(DOMAIN times \ Nested) = p + 1
      BY <1>3, <1>5, Zenon
    <3> QED BY <1>5, <3>1, RetentionAssumption DEF Excess
  <2> QED BY <1>5, <2>1, <2>2, RetentionAssumption
<1>7. /\ done \in Nat /\ d \in Nat
      /\ Cardinality(Entries' \cap Nested) = Cardinality(Entries \cap Nested) - d
      /\ Cardinality(Entries' \ Nested) = p + 1 - done + d
  <2>0. IsFiniteSet(D) /\ done \in Nat
    BY <1>2, <1>3, FS_AddElement DEF Removes
  <2>. HIDE DEF removed, D
  <2>1. /\ Cardinality(removed \cap Nested) \in Nat
        /\ Cardinality(Entries' \cap Nested)
             = Cardinality(D \cap Nested) - Cardinality(removed \cap Nested)
        /\ Cardinality(Entries' \ Nested)
             = Cardinality(D \ Nested) - Cardinality(removed) + Cardinality(removed \cap Nested)
    <3>1. Rest(Entries', D, removed)
      BY <1>4 DEF Rest
    <3> QED BY <2>0, <3>1, Without
  <2>2. Cardinality(D \cap Nested) = Cardinality(Entries \cap Nested)
    BY <1>5
  <2> QED BY <1>4, <1>5, <2>0, <2>1, <2>2
<1>8. \/ /\ 1..e = 1..done
         /\ result' = "ok" /\ leftovers' = d
      \/ /\ done + 1 \in 1..e /\ Twice(names, done + 1)
         /\ result' = "twice" /\ leftovers' = leftovers + d
      \/ /\ leftovers < MaxFailures
         /\ result' = "error" /\ leftovers' = leftovers + d + 1
  BY <1>2, <1>6 DEF Removes
<1>9. /\ leftovers \in Nat /\ p <= MaxCBFiles + leftovers
      /\ leftovers + Cardinality(Entries \cap Nested) <= MaxFailures + Cardinality(Nested)
  BY DEF IInv, OutputBounded, LeftoversCounted, p
<1>10. Cardinality(Nested) \in Nat /\ Cardinality(Entries \cap Nested) <= Cardinality(Nested)
  <2>1. IsFiniteSet(Nested)
    BY RetentionAssumption, FS_Subset
  <2> QED BY <2>1, FS_Subset, FS_CardinalityType
<1>11. Entries' \subseteq Names /\ latest' \subseteq Names
  BY <1>2, <1>4 DEF IInv
<1>. HIDE DEF removed, D, e, p, d
<1>12. leftovers' \in Nat /\ LeftoversCounted'
  BY <1>5, <1>7, <1>8, <1>9, <1>10, RetentionAssumption, SMTT(30) DEF LeftoversCounted
<1>13. CASE 1..e = 1..done /\ result' = "ok" /\ leftovers' = d
  <2>1. IF e > 0 THEN done = e ELSE done = 0
    BY <1>6, <1>7, <1>13
  <2>2. OutputBounded'
    BY <1>5, <1>6, <1>7, <1>9, <1>13, <2>1, RetentionAssumption DEF OutputBounded
  <2> QED BY <1>4, <1>11, <1>12, <1>13, <2>2 DEF IInv, TwiceAfterLeftovers
<1>14. CASE /\ done + 1 \in 1..e /\ Twice(names, done + 1)
            /\ result' = "twice" /\ leftovers' = leftovers + d
  <2>1. done >= 1
    BY <1>7, <1>14 DEF Twice
  <2>2. leftovers > 0
    BY <1>5, <1>6, <1>7, <1>9, <1>14, <2>1, RetentionAssumption
  <2>3. OutputBounded'
    BY <1>5, <1>7, <1>9, <1>14, <2>1, RetentionAssumption DEF OutputBounded
  <2>4. TwiceAfterLeftovers'
    BY <1>7, <1>9, <1>14, <2>2 DEF TwiceAfterLeftovers
  <2> QED BY <1>4, <1>11, <1>12, <1>14, <2>3, <2>4 DEF IInv
<1>15. CASE /\ leftovers < MaxFailures
            /\ result' = "error" /\ leftovers' = leftovers + d + 1
  <2>1. OutputBounded'
    BY <1>5, <1>7, <1>9, <1>15, RetentionAssumption DEF OutputBounded
  <2> QED BY <1>4, <1>11, <1>12, <1>15, <2>1 DEF IInv, TwiceAfterLeftovers
<1> QED BY <1>8, <1>13, <1>14, <1>15

\* So does a failed write.
LEMMA WriteFailsInv ==
  ASSUME IInv, NEW n \in Names, WriteFails(n)
  PROVE  IInv'
<1>1. n \in Names \ (Entries \cup Nested) /\ leftovers < MaxFailures
  BY DEF WriteFails
<1>2. PICK t \in Stamp : mtime' = With(n, t)
  BY DEF WriteFails
<1>3. leftovers' = leftovers + 1 /\ latest' = {} /\ result' = "error"
  BY DEF WriteFails
<1>4. leftovers \in Nat
  BY DEF IInv
<1>5. /\ Newest \in Nat /\ Entries' = Entries \cup {n}
      /\ \A f \in Entries : mtime'[f] = mtime[f]
      /\ mtime'[n] = t
  BY <1>1, <1>2, WithFacts DEF Entries
<1>6. Dense'
  <2>. DEFINE now == {mtime'[f] : f \in Entries'}
  <2>1. now = {mtime[f] : f \in Entries} \cup {t}
    BY <1>1, <1>5
  <2>2. {mtime[f] : f \in Entries} = 1..Newest
    BY DEF IInv, Dense
  <2>3. \E m \in Nat : now = 1..m
    <3>1. CASE t = Newest + 1
      <4>1. now = 1..t
        BY <1>5, <2>1, <2>2, <3>1
      <4> QED BY <1>5, <3>1, <4>1
    <3>2. CASE t = Newest /\ t > 0
      <4>1. now = 1..Newest
        BY <1>5, <2>1, <2>2, <3>2
      <4> QED BY <1>5, <4>1
    <3> QED BY <3>1, <3>2 DEF Stamp
  <2>4. PICK m \in Nat : now = 1..m
    BY <2>3
  <2>5. Cardinality(1..m) = m
    BY FS_Interval
  <2>6. Newest' = m
    BY <2>4, <2>5 DEF Newest
  <2> QED BY <2>4, <2>6 DEF Dense
<1>7. LeftoversCounted'
  <2>1. Cardinality(Entries' \cap Nested) = Cardinality(Entries \cap Nested)
    BY <1>1, <1>5, OneMore
  <2>2. Cardinality(Entries \cap Nested) \in Nat /\ Cardinality(Entries \cap Nested) <= Cardinality(Nested)
        /\ Cardinality(Nested) \in Nat
    <3>1. IsFiniteSet(Nested)
      BY RetentionAssumption, FS_Subset
    <3> QED BY <3>1, FS_Subset, FS_CardinalityType
  <2> QED BY <1>1, <1>3, <1>4, <2>1, <2>2, RetentionAssumption DEF LeftoversCounted
<1>8. OutputBounded'
  <2>1. Cardinality(Entries' \ Nested) = Cardinality(Entries \ Nested) + 1
        /\ Cardinality(Entries \ Nested) \in Nat
    BY <1>1, <1>5, OneMore
  <2>2. Cardinality(Entries \ Nested) <= MaxCBFiles + leftovers
    BY DEF IInv, OutputBounded
  <2> QED BY <1>3, <1>4, <2>1, <2>2, RetentionAssumption DEF OutputBounded
<1>9. Entries' \subseteq Names
  BY <1>5 DEF IInv
<1> QED BY <1>3, <1>4, <1>6, <1>7, <1>8, <1>9 DEF IInv, TwiceAfterLeftovers

\* The invariant holds in every state.
LEMMA InitInv == Init => IInv
<1> SUFFICES ASSUME Init
             PROVE  IInv
  OBVIOUS
<1>1. PICK dirs \in SUBSET Nested : mtime = [d \in dirs |-> 1]
  BY DEF Init
<1>2. Entries = dirs /\ latest = {} /\ leftovers = 0 /\ result = "ok"
  BY <1>1 DEF Init, Entries
<1>3. Dense
  <2>1. CASE dirs = {}
    <3>1. {mtime[f] : f \in Entries} = {} /\ 1..0 = {}
      BY <1>2, <2>1
    <3> QED BY <3>1, FS_EmptySet DEF Dense, Newest
  <2>2. CASE dirs # {}
    <3>1. {mtime[f] : f \in Entries} = {1} /\ 1..1 = {1}
      BY <1>1, <1>2, <2>2
    <3> QED BY <3>1, FS_Singleton DEF Dense, Newest
  <2> QED BY <2>1, <2>2
<1>4. LeftoversCounted
  <2>1. IsFiniteSet(Nested) /\ Entries \cap Nested \subseteq Nested
    BY RetentionAssumption, FS_Subset
  <2>2. /\ Cardinality(Nested) \in Nat /\ Cardinality(Entries \cap Nested) \in Nat
        /\ Cardinality(Entries \cap Nested) <= Cardinality(Nested)
    BY <2>1, FS_Subset, FS_CardinalityType
  <2> QED BY <1>2, <2>2, RetentionAssumption DEF LeftoversCounted
<1>5. OutputBounded
  <2>1. Entries \ Nested = {}
    BY <1>2
  <2>2. Cardinality(Entries \ Nested) = 0
    BY <2>1, FS_EmptySet
  <2> QED BY <1>2, <2>2, RetentionAssumption DEF OutputBounded
<1> QED BY <1>2, <1>3, <1>4, <1>5, RetentionAssumption DEF IInv, TwiceAfterLeftovers

\* IInv holds initially and is kept by every step.
LEMMA Invariance == Spec => []IInv
<1>1. IInv /\ [Next]_vars => IInv'
  <2> SUFFICES ASSUME IInv, [Next]_vars
               PROVE  IInv'
    OBVIOUS
  <2>1. ASSUME NEW n \in Names, ProcessFile(n)
        PROVE  IInv'
    BY <2>1, ProcessFileInv
  <2>2. ASSUME NEW n \in Names, WriteFails(n)
        PROVE  IInv'
    BY <2>2, WriteFailsInv
  <2>3. CASE UNCHANGED vars
    BY <2>3 DEF vars, IInv, Dense, Newest, LeftoversCounted, OutputBounded, TwiceAfterLeftovers, Entries
  <2> QED BY <2>1, <2>2, <2>3 DEF Next
<1> QED BY InitInv, <1>1, PTL DEF Spec

-----------------------------------------------------------------------------
\* What a call of ProcessFile removes, its own output included, leaves MaxCBFiles - 1
\* entries that are as new; so its output is not removed if there is one of those, and
\* all others are older.
LEMMA ProcessFileKeeps ==
  ASSUME IInv, NEW n \in Names, ProcessFile(n), NEW gone \in Entries \cup {n}, gone \notin Entries'
  PROVE  /\ gone \in Entries =>
              Cardinality({f \in Entries' : f \in Entries => mtime[f] >= mtime[gone]})
                >= MaxCBFiles - 1
         /\ gone = n /\ latest' # {} => MaxCBFiles = 1
<1>0. n \in Names \ (Entries \cup Nested)
  BY Processing
<1>1. PICK t \in Stamp : \E del \in Choices(With(n, t)), done \in Nat :
        Removes(With(n, t), del, done) /\ latest' = IF t > Newest THEN {n} ELSE {}
  BY Processing
<1>. DEFINE times == With(n, t)
            stay == {f \in Entries' : times[f] >= times[gone]}
<1>2. PICK del \in Choices(times), done \in Nat :
        Removes(times, del, done) /\ latest' = IF t > Newest THEN {n} ELSE {}
  BY <1>1
<1>3. /\ Directory(times) /\ DOMAIN times = Entries \cup {n}
      /\ Newest \in Nat /\ t \in Nat /\ times[n] = t
      /\ \A f \in Entries : times[f] = mtime[f] /\ mtime[f] \in 1..Newest /\ mtime[f] <= t
  BY <1>0, WithFacts
<1>. HIDE DEF times
<1>4. Entries' = DOMAIN times \ Gone(Chosen(times, del), done)
  BY <1>2, <1>3, RemovesFacts
<1>5. gone \in Gone(Chosen(times, del), done)
  BY <1>3, <1>4
<1>6. Cardinality(stay) >= MaxCBFiles - 1
  <2>1. 1..done \subseteq DOMAIN del
    BY <1>2 DEF Removes
  <2> QED BY <1>2, <1>3, <1>4, <1>5, <2>1, Survivors
<1>7. ASSUME gone \in Entries
      PROVE  {f \in Entries' : f \in Entries => mtime[f] >= mtime[gone]} = stay
  <2>1. mtime[gone] \in Nat /\ times[gone] = mtime[gone] /\ t >= mtime[gone]
    BY <1>3, <1>7
  <2> QED BY <1>0, <1>3, <1>4, <2>1
<1>8. ASSUME gone = n, latest' # {}
      PROVE  MaxCBFiles = 1
  <2>1. t > Newest
    BY <1>2, <1>8
  <2>2. \A f \in Entries' : ~(times[f] >= times[gone])
    BY <1>3, <1>4, <1>8, <2>1
  <2>3. Cardinality(stay) = 0
    BY <2>2, FS_EmptySet
  <2> QED BY <1>6, <2>3, RetentionAssumption
<1> QED BY <1>6, <1>7, <1>8

\* The output directory, for any names and limits, holds no gaps in its modification
\* times, and its leftovers are failed writes and directories (ProcessFile,
\* RemoveOldestFiles).
THEOREM TypeCorrect == Spec => []TypeOK
<1>1. IInv => TypeOK
  <2> SUFFICES ASSUME IInv
               PROVE  TypeOK
    OBVIOUS
  <2>. DEFINE T == {mtime[f] : f \in Entries}
  <2>1. IsFiniteSet(Entries)
    BY RetentionAssumption, FS_Subset DEF IInv
  <2>2. [f \in Entries |-> mtime[f]] \in Surjection(Entries, T)
    BY DEF Surjection
  <2>3. /\ Newest \in Nat /\ Cardinality(Entries) \in Nat /\ Newest <= Cardinality(Entries)
    BY <2>1, <2>2, FS_Surjection, FS_CardinalityType DEF Newest
  <2>4. \A f \in Entries : mtime[f] \in 1..Newest
    BY DEF IInv, Dense
  <2>5. IsFiniteSet(Nested) /\ IsFiniteSet(Entries \cap Nested)
    BY <2>1, RetentionAssumption, FS_Subset
  <2>6. Cardinality(Nested) \in Nat /\ Cardinality(Entries \cap Nested) \in Nat
    BY <2>5, FS_CardinalityType
  <2>7. leftovers \in 0..(MaxFailures + Cardinality(Nested))
    BY <2>6, RetentionAssumption DEF IInv, LeftoversCounted
  <2> QED BY <2>3, <2>4, <2>7 DEF IInv, TypeOK
<1> QED BY Invariance, <1>1, PTL

\* The directory never holds more outputs than the limit, one for each call that has
\* failed since the last one that succeeded, and one for each directory removed: whatever
\* the list repeats and lacks, a call that succeeds makes up for all failures before it
\* (RemoveOldestFiles).
THEOREM DirectoryBounded == Spec => []OutputBounded
<1>1. IInv => OutputBounded
  BY DEF IInv
<1> QED BY Invariance, <1>1, PTL

\* A file is removed a second time only after another failure or the removal of a
\* directory since the last call that succeeded: it takes two files too many.
THEOREM TwiceNeedsLeftovers == Spec => []TwiceAfterLeftovers
<1>1. IInv => TwiceAfterLeftovers
  BY DEF IInv
<1> QED BY Invariance, <1>1, PTL

\* The output just written stays, if more than one may stay: the code's limit is 5.
THEOREM NewestStays ==
  ASSUME MaxCBFiles > 1
  PROVE  Spec => []LatestKept
<1>1. Init => LatestKept
  BY DEF Init, LatestKept
<1>2. IInv /\ LatestKept /\ [Next]_vars => LatestKept'
  <2> SUFFICES ASSUME IInv, LatestKept, [Next]_vars
               PROVE  LatestKept'
    OBVIOUS
  <2>1. ASSUME NEW n \in Names, ProcessFile(n)
        PROVE  latest' \subseteq Entries'
    <3>1. latest' \subseteq {n} /\ n \in Entries \cup {n}
      BY <2>1, Processing
    <3>2. latest' # {} => n \in Entries'
      <4>1. n \notin Entries' /\ latest' # {} => MaxCBFiles = 1
        BY <2>1, <3>1, ProcessFileKeeps
      <4> QED BY <4>1
    <3> QED BY <3>1, <3>2
  <2>2. ASSUME NEW n \in Names, WriteFails(n)
        PROVE  LatestKept'
    BY <2>2 DEF WriteFails, LatestKept
  <2>3. CASE UNCHANGED vars
    BY <2>3 DEF vars, LatestKept, Entries
  <2> QED BY <2>1, <2>2, <2>3 DEF Next, LatestKept
<1> QED BY Invariance, <1>1, <1>2, PTL DEF Spec

\* What is removed is not pushed out by less than MaxCBFiles - 1 entries that are as new
\* and stay (ProcessFile, RemoveOldestFiles).
THEOREM RecentStay == Spec => RecentKept
<1>. DEFINE Pushed(gone) ==
              Cardinality({f \in Entries' : f \in Entries => mtime[f] >= mtime[gone]})
                >= MaxCBFiles - 1
<1>1. IInv /\ [Next]_vars => \A gone \in Entries \ Entries' : Pushed(gone)
  <2> SUFFICES ASSUME IInv, [Next]_vars, NEW gone \in Entries \ Entries'
               PROVE  Pushed(gone)
    OBVIOUS
  <2>1. ASSUME NEW n \in Names, ProcessFile(n)
        PROVE  Pushed(gone)
    BY <2>1, ProcessFileKeeps
  <2>2. ASSUME NEW n \in Names, WriteFails(n)
        PROVE  FALSE
    BY <2>2 DEF WriteFails, With, Entries
  <2>3. CASE UNCHANGED vars
    BY <2>3 DEF vars, Entries
  <2> QED BY <2>1, <2>2, <2>3 DEF Next
<1> QED BY Invariance, <1>1, PTL DEF Spec, RecentKept
=============================================================================
