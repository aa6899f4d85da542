--------------------------- MODULE MemLimitsProofs ---------------------------
(***************************************************************************)
(* Proofs about the environment, the parser and the memory buffer limits,  *)
(* for all files, configurations and environments that satisfy the         *)
(* assumptions. First the arithmetic of the limits, then what the loading  *)
(* of the environment makes of its sources (EnvInv), what BuildConfigFile  *)
(* makes of a configuration, and what a Start makes of the environment;    *)
(* IInv puts them together, and the theorems are at the end.               *)
(***************************************************************************)
EXTENDS MemLimits, Induction, FiniteSetTheorems, SequenceTheorems

\* What division by a positive number returns.
LEMMA Quotient ==
  ASSUME NEW memory \in Nat, NEW d \in Nat, d > 0
  PROVE  /\ memory \div d \in Nat
         /\ d * (memory \div d) <= memory
OBVIOUS

\* Multiplication is monotonic.
LEMMA Scaled ==
  ASSUME NEW a \in Nat, NEW b \in Nat, NEW c \in Nat, a <= b
  PROVE  c * a <= b * c
OBVIOUS

\* The divisor is at least the number of inputs, although its fraction is cut off.
LEMMA DivisorCovers ==
  ASSUME NEW inputs \in Nat, NEW outputs \in Nat, inputs + outputs > 0
  PROVE  LET d == (12 * (inputs + 2 * outputs)) \div 10
         IN  d \in Nat /\ d > 0 /\ inputs <= d
OBVIOUS

\* The inputs that were counted, each with the limit, fit into the memory together;
\* and the division is never one by zero (calculatePerInputMemoryLimit, called with
\* an input or an output at least).
THEOREM LimitsFit ==
  ASSUME NEW memory \in Nat, NEW inputs \in Nat, NEW outputs \in Nat, inputs + outputs > 0
  PROVE  LET limit == CalculatePerInputMemoryLimit(memory, inputs, outputs)
         IN  limit \in Nat /\ limit * inputs <= memory
<1>. DEFINE d == (12 * (inputs + 2 * outputs)) \div 10
            q == memory \div d
<1>1. d \in Nat /\ d > 0 /\ inputs <= d
  BY DivisorCovers
<1>2. q \in Nat /\ d * q <= memory
  BY <1>1, Quotient
<1>3. q * inputs <= d * q
  BY <1>1, <1>2, Scaled
<1>4. q * inputs \in Int /\ d * q \in Int
  BY <1>1, <1>2
<1> QED BY <1>2, <1>3, <1>4 DEF CalculatePerInputMemoryLimit

-----------------------------------------------------------------------------
(* The order of the annotations.                                           *)

\* s lists the members of S, each once.
Lists(s, S) == s \in Seq(S) /\ IsInjective(s) /\ {s[i] : i \in DOMAIN s} = S

\* SetToSeqs lists the members of a finite set.
LEMMA Enumerates ==
  ASSUME NEW S, IsFiniteSet(S), NEW s \in SetToSeqs(S)
  PROVE  Lists(s, S)
<1>. DEFINE n == Cardinality(S)
<1>1. n \in Nat
  BY FS_CardinalityType
<1>2. s \in [1..n -> S] /\ \A i, j \in 1..n : i # j => s[i] # s[j]
  BY DEF SetToSeqs
<1>3. IsInjective(s)
  BY <1>2, Zenon DEF IsInjective
<1>4. IsFiniteSet(1..n) /\ Cardinality(1..n) = n
  BY <1>1, FS_Interval
<1>5. s \in Injection(1..n, S)
  BY <1>2, <1>3, Zenon DEF Injection
<1>6. s \in Surjection(1..n, S)
  BY <1>4, <1>5, FS_Injection
<1>7. \A x \in S : \E i \in 1..n : s[i] = x
  BY <1>6, Zenon DEF Surjection
<1>. HIDE DEF n
<1>8. s \in Seq(S)
  BY <1>1, <1>2
<1>9. {s[i] : i \in DOMAIN s} = S
  BY <1>2, <1>7
<1> QED BY <1>3, <1>8, <1>9 DEF Lists

\* Two lists without a common member, one after the other.
LEMMA ListsBoth ==
  ASSUME NEW S, NEW T, NEW s, NEW t, Lists(s, S), Lists(t, T), S \cap T = {}
  PROVE  Lists(s \o t, S \cup T)
<1>1. s \in Seq(S \cup T) /\ t \in Seq(S \cup T)
  BY SeqMonotonic DEF Lists
<1>. DEFINE m == Len(s)
            n == Len(t)
            u == s \o t
<1>2. m \in Nat /\ n \in Nat /\ DOMAIN s = 1..m /\ DOMAIN t = 1..n
  BY <1>1, LenProperties
<1>3. /\ u \in Seq(S \cup T) /\ Len(u) = m + n
      /\ \A i \in 1..(m + n) : u[i] = IF i <= m THEN s[i] ELSE t[i - m]
  BY <1>1, ConcatProperties
<1>4. DOMAIN u = 1..(m + n)
  BY <1>3, LenProperties
<1>5. \A i \in 1..m : s[i] \in S
  BY <1>2, Zenon DEF Lists
<1>6. \A i \in 1..n : t[i] \in T
  BY <1>2, Zenon DEF Lists
<1>. HIDE DEF m, n, u
<1>7. \A i \in 1..m : i \in 1..(m + n) /\ u[i] = s[i]
  BY <1>2, <1>3
<1>8. \A i \in 1..n : i + m \in 1..(m + n) /\ u[i + m] = t[i]
  <2>1. ASSUME NEW i \in 1..n
        PROVE  i + m \in 1..(m + n) /\ ~(i + m <= m) /\ (i + m) - m = i
    BY <1>2
  <2> QED BY <1>3, <2>1
<1>9. \A i \in 1..(m + n) : i \in 1..m \/ \E k \in 1..n : i = k + m
  <2>1. ASSUME NEW i \in 1..(m + n), i \notin 1..m
        PROVE  i - m \in 1..n /\ i = (i - m) + m
    BY <1>2, <2>1
  <2> QED BY <2>1
<1>10. ASSUME NEW i \in 1..(m + n), NEW j \in 1..(m + n), u[i] = u[j]
       PROVE  i = j
  <2>1. \A k, l \in 1..m : s[k] = s[l] => k = l
    BY <1>2, Zenon DEF Lists, IsInjective
  <2>2. \A k, l \in 1..n : t[k] = t[l] => k = l
    BY <1>2, Zenon DEF Lists, IsInjective
  <2>3. CASE i \in 1..m /\ j \in 1..m
    BY <1>7, <1>10, <2>1, <2>3
  <2>4. CASE i \notin 1..m /\ j \notin 1..m
    BY <1>8, <1>9, <1>10, <2>2, <2>4
  <2>5. CASE i \in 1..m /\ j \notin 1..m
    BY <1>5, <1>6, <1>7, <1>8, <1>9, <1>10, <2>5
  <2>6. CASE i \notin 1..m /\ j \in 1..m
    BY <1>5, <1>6, <1>7, <1>8, <1>9, <1>10, <2>6
  <2> QED BY <2>3, <2>4, <2>5, <2>6
<1>11. {u[i] : i \in 1..(m + n)} = S \cup T
  <2>1. {s[i] : i \in 1..m} = S /\ {t[i] : i \in 1..n} = T
    BY <1>2, Zenon DEF Lists
  <2>2. \A i \in 1..(m + n) : u[i] \in S \cup T
    BY <1>5, <1>6, <1>7, <1>8, <1>9
  <2>3. \A x \in S : \E i \in 1..(m + n) : u[i] = x
    BY <1>7, <2>1
  <2>4. \A x \in T : \E i \in 1..(m + n) : u[i] = x
    BY <1>8, <2>1
  <2> QED BY <2>2, <2>3, <2>4
<1>12. IsInjective(u)
  BY <1>4, <1>10, Zenon DEF IsInjective
<1> QED BY <1>3, <1>4, <1>11, <1>12, Zenon DEF Lists, u

\* The members of a finite set can be listed with their ranks in descending order.
LEMMA Ranked ==
  ASSUME NEW S, IsFiniteSet(S), NEW rank, \A x \in S : rank[x] \in Nat
  PROVE  \E s : /\ Lists(s, S)
                /\ \A i, j \in DOMAIN s : i < j => rank[s[i]] >= rank[s[j]]
<1>. DEFINE Falls(s) == \A i, j \in DOMAIN s : i < j => rank[s[i]] >= rank[s[j]]
            Done == {n \in Nat : \A T \in SUBSET S : Cardinality(T) = n =>
                                   \E s : Lists(s, T) /\ Falls(s)}
<1>1. \A T \in SUBSET S : IsFiniteSet(T) /\ Cardinality(T) \in Nat
  BY FS_Subset, FS_CardinalityType
<1>2. 0 \in Done
  <2>1. ASSUME NEW T \in SUBSET S, Cardinality(T) = 0 PROVE \E s : Lists(s, T) /\ Falls(s)
    <3>1. T = {}
      BY <1>1, <2>1, FS_EmptySet
    <3>2. <<>> \in Seq(T) /\ DOMAIN <<>> = {}
      OBVIOUS
    <3>3. Lists(<<>>, T) /\ Falls(<<>>)
      BY <3>1, <3>2 DEF Lists, IsInjective
    <3> QED BY <3>3
  <2>. HIDE DEF Falls
  <2> QED BY <2>1
<1>3. ASSUME NEW n \in Done PROVE n + 1 \in Done
  <2>0. n \in Nat /\ n + 1 # 0 /\ (n + 1) - 1 = n
    OBVIOUS
  <2>1. ASSUME NEW T \in SUBSET S, Cardinality(T) = n + 1 PROVE \E s : Lists(s, T) /\ Falls(s)
    <3>1. T # {}
      BY <2>0, <2>1, FS_EmptySet
    <3>. DEFINE ranks == {rank[x] : x \in T}
    <3>2. \E m \in ranks : \A k \in ranks : m <= k
      <4>1. ranks \in SUBSET Nat /\ ranks # {}
        BY <3>1
      <4>. HIDE DEF ranks
      <4> QED BY <4>1, Least
    <3>3. PICK last \in T : \A x \in T : rank[last] <= rank[x]
      BY <3>2
    <3>. DEFINE rest == T \ {last}
    <3>4. Cardinality(rest) = n /\ rest \in SUBSET S /\ last \notin rest /\ T = rest \cup {last}
      <4>1. IsFiniteSet(T)
        BY <1>1
      <4>2. Cardinality(rest) = Cardinality(T) - 1
        BY <4>1, FS_RemoveElement
      <4> QED BY <2>0, <2>1, <4>2
    <3>. HIDE DEF rest
    <3>5. PICK s : Lists(s, rest) /\ Falls(s)
      <4>. HIDE DEF Falls
      <4> QED BY <3>4
    <3>. DEFINE t == s \o <<last>>
    <3>6. Lists(<<last>>, {last})
      <4>1. <<last>> \in Seq({last}) /\ DOMAIN <<last>> = {1} /\ <<last>>[1] = last
        OBVIOUS
      <4> QED BY <4>1 DEF Lists, IsInjective
    <3>7. Lists(t, T)
      <4>1. rest \cap {last} = {}
        BY <3>4
      <4> QED BY <3>4, <3>5, <3>6, <4>1, ListsBoth
    <3>8. Falls(t)
      <4>1. s \in Seq(T) /\ <<last>> \in Seq(T) /\ Len(<<last>>) = 1
        BY <3>4, <3>5, SeqMonotonic DEF Lists
      <4>2. /\ Len(s) \in Nat /\ DOMAIN s = 1..Len(s) /\ t \in Seq(T) /\ Len(t) = Len(s) + 1
            /\ \A i \in 1..Len(s) + 1 : t[i] = IF i <= Len(s) THEN s[i] ELSE last
        <5>1. /\ t \in Seq(T) /\ Len(t) = Len(s) + Len(<<last>>)
              /\ \A i \in 1..Len(s) + Len(<<last>>) :
                   t[i] = IF i <= Len(s) THEN s[i] ELSE <<last>>[i - Len(s)]
          BY <4>1, ConcatProperties
        <5>2. Len(s) \in Nat /\ DOMAIN s = 1..Len(s)
          BY <4>1, LenProperties
        <5>3. \A i \in 1..Len(s) + 1 : ~(i <= Len(s)) => i - Len(s) = 1
          BY <5>2
        <5>. HIDE DEF t
        <5> QED BY <4>1, <5>1, <5>2, <5>3
      <4>3. DOMAIN t = 1..Len(s) + 1
        BY <4>2, LenProperties
      <4>. HIDE DEF t
      <4>4. ASSUME NEW i \in DOMAIN t, NEW j \in DOMAIN t, i < j PROVE rank[t[i]] >= rank[t[j]]
        <5>1. i \in DOMAIN s /\ t[i] = s[i]
          BY <4>2, <4>3, <4>4
        <5>2. CASE j <= Len(s)
          <6>1. j \in DOMAIN s /\ t[j] = s[j]
            BY <4>2, <4>3, <5>2
          <6> QED BY <3>5, <4>4, <5>1, <6>1
        <5>3. CASE ~(j <= Len(s))
          <6>1. t[j] = last
            BY <4>2, <4>3, <5>3
          <6>2. s[i] \in T
            BY <4>1, <5>1, ElementOfSeq, <4>2
          <6>3. rank[last] \in Nat /\ rank[s[i]] \in Nat /\ rank[last] <= rank[s[i]]
            BY <3>3, <6>2
          <6> QED BY <5>1, <6>1, <6>3
        <5> QED BY <5>2, <5>3
      <4> QED BY <4>4
    <3> QED BY <3>7, <3>8
  <2>. HIDE DEF Falls
  <2> QED BY <2>0, <2>1
<1>4. Done = Nat
  <2>1. Done \in SUBSET Nat
    OBVIOUS
  <2>. HIDE DEF Done
  <2> QED BY <1>2, <1>3, <2>1, Upwards
<1>5. S \in SUBSET S /\ Cardinality(S) \in Nat
  BY <1>1
<1>. HIDE DEF Falls
<1>6. \E s : Lists(s, S) /\ Falls(s)
  BY <1>4, <1>5
<1> QED BY <1>6 DEF Falls

\* A list of a finite set is one SetToSeqs returns, and has the length of the set.
LEMMA Enumerated ==
  ASSUME NEW S, IsFiniteSet(S), NEW s, Lists(s, S)
  PROVE  s \in SetToSeqs(S) /\ Len(s) = Cardinality(S)
<1>. DEFINE n == Len(s)
<1>1. n \in Nat /\ s \in [1..n -> S] /\ IsInjective(s) /\ {s[i] : i \in 1..n} = S
  BY LenProperties DEF Lists
<1>. HIDE DEF n
<1>2. \A x \in S : \E i \in 1..n : s[i] = x
  BY <1>1
<1>3. s \in Injection(1..n, S) /\ s \in Surjection(1..n, S)
  BY <1>1, <1>2, Zenon DEF Injection, Surjection
<1>4. IsFiniteSet(1..n) /\ Cardinality(1..n) = n
  <2>1. IsFiniteSet(1..n) /\ Cardinality(1..n) = IF 1 > n THEN 0 ELSE n - 1 + 1
    <3>1. 1 \in Int /\ n \in Int
      BY <1>1
    <3> QED BY <3>1, FS_Interval
  <2> QED BY <1>1, <2>1
<1>5. Cardinality(1..n) = Cardinality(S)
  BY <1>3, <1>4, FS_Surjection
<1>6. \A i, j \in 1..n : i # j => s[i] # s[j]
  BY <1>1 DEF IsInjective
<1>7. n = Cardinality(S)
  BY <1>4, <1>5
<1> QED BY <1>1, <1>6, <1>7 DEF SetToSeqs, n

-----------------------------------------------------------------------------
(* What the files make of the environment.                                 *)

\* The value after the first k files of a walk: that of the last of them that sets it.
LastSet(walk, initial, k, name) ==
  LET from == {i \in 1..k : name \in DOMAIN walk[i]}
  IN  IF from = {} THEN Getenv(initial, name)
      ELSE walk[CHOOSE i \in from : \A j \in from : j <= i][name]

\* One file more.
LEMMA LastSetNext ==
  ASSUME NEW walk, NEW initial, NEW k \in Nat, NEW name
  PROVE  LastSet(walk, initial, k + 1, name)
           = IF name \in DOMAIN walk[k + 1] THEN walk[k + 1][name]
             ELSE LastSet(walk, initial, k, name)
<1>. DEFINE from(n) == {i \in 1..n : name \in DOMAIN walk[i]}
            valued(F) == IF F = {} THEN Getenv(initial, name)
                         ELSE walk[CHOOSE i \in F : \A j \in F : j <= i][name]
<1>. HIDE DEF valued
<1>0. \A n : LastSet(walk, initial, n, name) = valued(from(n))
  BY Zenon DEF LastSet, valued
<1>1. CASE name \in DOMAIN walk[k + 1]
  <2>. DEFINE F == from(k + 1)
  <2>1. k + 1 \in F /\ \A i \in F : i \in Nat /\ i <= k + 1
    BY <1>1
  <2>2. (CHOOSE i \in F : \A j \in F : j <= i) = k + 1
    <3>. HIDE DEF F
    <3>1. PICK i \in F : i = CHOOSE l \in F : \A j \in F : j <= l
      BY <2>1
    <3>2. \A j \in F : j <= i
      BY <2>1, <3>1
    <3> QED BY <2>1, <3>1, <3>2
  <2>3. LastSet(walk, initial, k + 1, name) = valued(F)
    BY <1>0
  <2>. HIDE DEF F
  <2> QED BY <1>1, <2>1, <2>2, <2>3 DEF valued
<1>2. CASE name \notin DOMAIN walk[k + 1]
  <2>1. from(k + 1) = from(k)
    <3>1. \A i \in 1..(k + 1) : i \in 1..k \/ i = k + 1
      OBVIOUS
    <3>2. \A i \in 1..k : i \in 1..(k + 1)
      OBVIOUS
    <3> QED BY <1>2, <3>1, <3>2
  <2>. HIDE DEF from
  <2> QED BY <1>0, <1>2, <2>1
<1> QED BY <1>1, <1>2

\* What no file sets.
LEMMA LastSetNone ==
  ASSUME NEW walk, NEW initial, NEW k \in Nat, NEW name,
         \A i \in 1..k : name \notin DOMAIN walk[i]
  PROVE  LastSet(walk, initial, k, name) = Getenv(initial, name)
<1>1. {i \in 1..k : name \in DOMAIN walk[i]} = {}
  OBVIOUS
<1> QED BY <1>1, Zenon DEF LastSet

\* What is read before main makes anything of it.
Read ==
  DOMAIN sources.initial \cup DOMAIN ConfigEnv
    \cup UNION {DOMAIN sources.walk[i] : i \in Readable}

\* The value once the buffer directory has been set.
Buffered(name) ==
  IF name = "STORAGE_BUFFER_PATH"
  THEN Clean(IF Filed(name) = "" THEN "/tmp/buffer" ELSE Filed(name))
  ELSE Filed(name)

\* The sources stay, and nothing is loaded, configured or started before its time.
HistoryOK ==
  /\ DOMAIN sources = {"initial", "walk", "left", "files"}
  /\ sources.initial \in Initials
  /\ sources.walk \in Walks
  /\ sources.files \in ConfigEnvs
  /\ stage \in {"walk", "buffer", "annotations"} => loaded = <<>>
  /\ stage \in {"walk", "buffer", "annotations", "loaded"} => config = <<>> /\ given = <<>>

\* The walk has come to its file k, or failed after it.
WalkOK ==
  stage = "walk" =>
    \E k \in 0..Len(sources.walk) :
      /\ \A i \in 1..k : sources.walk[i] # Unreadable
      /\ \/ sources.left = SubSeq(sources.walk, k + 1, Len(sources.walk))
         \/ /\ sources.left = <<>>
            /\ k + 1 \in 1..Len(sources.walk)
            /\ sources.walk[k + 1] = Unreadable
      /\ DOMAIN env = DOMAIN sources.initial \cup UNION {DOMAIN sources.walk[i] : i \in 1..k}
      /\ \A name \in DOMAIN env : env[name] = LastSet(sources.walk, sources.initial, k, name)

\* All files have been read, then the buffer directory is set.
ReadOK ==
  /\ stage = "buffer" =>
       DOMAIN env = Read /\ \A name \in DOMAIN env : env[name] = Filed(name)
  /\ stage = "annotations" =>
       /\ DOMAIN env = Read \cup {"STORAGE_BUFFER_PATH"}
       /\ \A name \in DOMAIN env : env[name] = Buffered(name)

EnvInv ==
  HistoryOK /\ Lists(order, DOMAIN env \cap Annotations) /\ WalkOK /\ ReadOK /\ PrecedenceKept

\* What the walk of a program consists of.
LEMMA WalkType ==
  ASSUME HistoryOK
  PROVE  /\ Len(sources.walk) \in Nat
         /\ DOMAIN sources.walk = 1..Len(sources.walk)
         /\ sources.walk \in Seq(Range(sources.walk))
         /\ \A i \in DOMAIN sources.walk :
              sources.walk[i] # Unreadable => "" \notin DOMAIN sources.walk[i]
<1>1. sources.walk \in Seq(Range(sources.walk))
  BY EnvironmentAssumption DEF HistoryOK
<1>2. \A entry \in Range(sources.walk) \ {Unreadable} : "" \notin DOMAIN entry
  BY EnvironmentAssumption DEF HistoryOK
<1>3. \A i \in DOMAIN sources.walk : sources.walk[i] \in Range(sources.walk)
  BY Zenon DEF Range
<1> QED BY <1>1, <1>2, <1>3, LenProperties

\* Where the walk ends is what can be read of it.
LEMMA ReadableTo ==
  ASSUME HistoryOK,
         NEW k \in 0..Len(sources.walk),
         \A i \in 1..k : sources.walk[i] # Unreadable,
         \/ SubSeq(sources.walk, k + 1, Len(sources.walk)) = <<>>
         \/ k + 1 \in 1..Len(sources.walk) /\ sources.walk[k + 1] = Unreadable
  PROVE  /\ Readable = 1..k
         /\ \A name : Walked(name) = LastSet(sources.walk, sources.initial, k, name)
<1>. DEFINE w == sources.walk
            n == Len(w)
            bad == {i \in 1..n : w[i] = Unreadable}
<1>1. n \in Nat /\ DOMAIN w = 1..n /\ w \in Seq(Range(w))
  BY WalkType
<1>2. Readable = {i \in 1..n : \A b \in bad : i < b}
  BY <1>1, Zenon DEF Readable
<1>3. k = n \/ (k + 1 \in 1..n /\ w[k + 1] = Unreadable)
  <2>1. ASSUME SubSeq(w, k + 1, n) = <<>>, k # n
        PROVE  FALSE
    <3>1. k + 1 \in Int /\ n \in Int /\ k + 1 <= n
      BY <1>1, <2>1
    <3>2. \A i \in (k + 1)..n : w[i] \in Range(w)
      BY <1>1, ElementOfSeq
    <3>3. Len(SubSeq(w, k + 1, n)) = n - (k + 1) + 1
      BY <1>1, <3>1, <3>2, SubSeqProperties
    <3>4. Len(<<>>) = 0 /\ n - (k + 1) + 1 > 0
      BY <3>1
    <3>5. Len(SubSeq(w, k + 1, n)) = 0
      BY <2>1, <3>4, Zenon
    <3>. DEFINE length == Len(SubSeq(w, k + 1, n))
    <3>6. length = n - (k + 1) + 1 /\ length = 0
      BY <3>3, <3>5, Zenon
    <3>. HIDE DEF length
    <3> QED BY ONLY <3>4, <3>6
  <2> QED BY <2>1
<1>4. k \in Nat /\ k <= n
  BY <1>1
<1>5. \A i \in 1..k : w[i] # Unreadable
  OBVIOUS
<1>. HIDE DEF w, n
<1>6. ASSUME NEW i \in 1..n
      PROVE  (\A b \in bad : i < b) <=> i \in 1..k
  <2>1. CASE i \in 1..k
    <3>1. \A b \in bad : b \in 1..n /\ b \notin 1..k
      BY <1>5
    <3>2. \A b \in 1..n : b \notin 1..k => i < b
      BY <1>1, <1>4, <2>1
    <3>. HIDE DEF bad
    <3> QED BY <2>1, <3>1, <3>2
  <2>2. CASE i \notin 1..k
    <3>1. i > k /\ k # n
      BY <1>1, <1>4, <2>2
    <3>2. k + 1 \in bad /\ ~(i < k + 1)
      BY <1>1, <1>3, <1>4, <3>1
    <3>. HIDE DEF bad
    <3> QED BY <2>2, <3>2
  <2> QED BY <2>1, <2>2
<1>7. Readable = 1..k
  <2>1. \A i \in 1..k : i \in 1..n
    BY <1>1, <1>4
  <2>. HIDE DEF bad
  <2> QED BY <1>2, <1>6, <2>1
<1>8. ASSUME NEW name
      PROVE  Walked(name) = LastSet(sources.walk, sources.initial, k, name)
  <2>. DEFINE valued(F) == IF F = {} THEN Getenv(sources.initial, name)
                           ELSE sources.walk[CHOOSE i \in F : \A j \in F : j <= i][name]
              from(S) == {i \in S : name \in DOMAIN sources.walk[i]}
  <2>. HIDE DEF valued
  <2>1. Walked(name) = valued(from(Readable))
    BY Zenon DEF Walked, valued
  <2>2. LastSet(sources.walk, sources.initial, k, name) = valued(from(1..k))
    BY Zenon DEF LastSet, valued
  <2>. HIDE DEF from
  <2> QED BY <1>7, <2>1, <2>2
<1> QED BY <1>7, <1>8

\* What is not read is empty.
LEMMA Unread ==
  ASSUME NEW name, name \notin Read
  PROVE  Filed(name) = ""
<1>1. {i \in Readable : name \in DOMAIN sources.walk[i]} = {}
  BY DEF Read
<1>2. Walked(name) = Getenv(sources.initial, name)
  BY <1>1, Zenon DEF Walked
<1>3. name \notin DOMAIN ConfigEnv /\ name \notin DOMAIN sources.initial
  BY Zenon DEF Read
<1>4. Filed(name) = Getenv(sources.initial, name)
  BY <1>2, <1>3, Zenon DEF Filed
<1> QED BY <1>3, <1>4 DEF Getenv

\* The empty name is not read.
LEMMA EmptyUnread ==
  ASSUME HistoryOK
  PROVE  "" \notin Read
<1>1. "" \notin DOMAIN sources.initial
  BY EnvironmentAssumption DEF HistoryOK
<1>2. \A i \in Readable : "" \notin DOMAIN sources.walk[i]
  <2>1. \A i \in Readable : i \in DOMAIN sources.walk /\ sources.walk[i] # Unreadable
    <3>. DEFINE bad == {i \in DOMAIN sources.walk : sources.walk[i] = Unreadable}
    <3>1. Readable = {i \in DOMAIN sources.walk : \A b \in bad : i < b}
      BY Zenon DEF Readable
    <3>2. \A i \in DOMAIN sources.walk : i \in Nat
      <4>1. PICK n \in Nat : DOMAIN sources.walk = 1..n
        BY WalkType
      <4> QED BY <4>1
    <3>3. \A i \in Nat : ~(i < i)
      OBVIOUS
    <3> QED BY <3>1, <3>2, <3>3
  <2> QED BY <2>1, WalkType
<1>3. "" \notin DOMAIN ConfigEnv
  <2>1. ConfigEnv = <<>> \/ \E dir \in DOMAIN sources.files : ConfigEnv = sources.files[dir]
    BY Zenon DEF ConfigEnv
  <2>2. \A dir \in DOMAIN sources.files : "" \notin DOMAIN sources.files[dir]
    BY EnvironmentAssumption DEF HistoryOK
  <2>3. "" \notin DOMAIN <<>>
    OBVIOUS
  <2> QED BY <2>1, <2>2, <2>3
<1> QED BY <1>1, <1>2, <1>3 DEF Read

\* Overload adds the annotations that are new.
LEMMA OverloadLists ==
  ASSUME Lists(order, DOMAIN env \cap Annotations), NEW pairs, Overload(pairs)
  PROVE  /\ DOMAIN env' = DOMAIN pairs \cup DOMAIN env
         /\ \A name : name \in DOMAIN pairs => env'[name] = pairs[name]
         /\ \A name \in DOMAIN env : name \notin DOMAIN pairs => env'[name] = env[name]
         /\ Lists(order', DOMAIN env' \cap Annotations)
<1>. DEFINE S == (DOMAIN pairs \cap Annotations) \ DOMAIN env
<1>1. PICK new \in SetToSeqs(S) : order' = order \o new
  BY Zenon DEF Overload
<1>2. IsFiniteSet(S)
  BY EnvironmentAssumption, FS_Subset
<1>3. Lists(new, S)
  <2>. HIDE DEF S
  <2> QED BY <1>1, <1>2, Enumerates
<1>4. Lists(order', (DOMAIN env \cap Annotations) \cup S)
  <2>1. (DOMAIN env \cap Annotations) \cap S = {}
    OBVIOUS
  <2>. HIDE DEF S
  <2> QED BY <1>1, <1>3, <2>1, ListsBoth
<1>5. env' = Over(pairs, env)
  BY DEF Overload
<1>6. DOMAIN env' = DOMAIN pairs \cup DOMAIN env
  BY <1>5 DEF Over
<1>7. DOMAIN env' \cap Annotations = (DOMAIN env \cap Annotations) \cup S
  BY <1>6
<1> QED BY <1>4, <1>5, <1>6, <1>7 DEF Over

\* What the files say depends on the sources only, on the walk and not on what is left of it.
LEMMA SameSources ==
  ASSUME sources'.walk = sources.walk, sources'.initial = sources.initial,
         sources'.files = sources.files
  PROVE  /\ Read' = Read
         /\ \A name : Filed(name)' = Filed(name)
         /\ \A name : Buffered(name)' = Buffered(name)
<1>1. Readable' = Readable
  BY DEF Readable
<1>2. \A name : Walked(name)' = Walked(name)
  BY <1>1 DEF Walked
<1>3. ConfigEnv' = ConfigEnv
  BY <1>2 DEF ConfigEnv
<1>4. \A name : Filed(name)' = Filed(name)
  BY <1>2, <1>3 DEF Filed
<1>5. Read' = Read
  BY <1>1, <1>3 DEF Read
<1> QED BY <1>4, <1>5 DEF Buffered

\* The environment at the end of the walk.
LEMMA WalkEnds ==
  ASSUME HistoryOK, WalkOK, stage = "walk", sources.left = <<>>
  PROVE  /\ DOMAIN env = DOMAIN sources.initial
                           \cup UNION {DOMAIN sources.walk[i] : i \in Readable}
         /\ \A name : Getenv(env, name) = Walked(name)
<1>1. PICK k \in 0..Len(sources.walk) :
        /\ \A i \in 1..k : sources.walk[i] # Unreadable
        /\ \/ SubSeq(sources.walk, k + 1, Len(sources.walk)) = <<>>
           \/ k + 1 \in 1..Len(sources.walk) /\ sources.walk[k + 1] = Unreadable
        /\ DOMAIN env = DOMAIN sources.initial \cup UNION {DOMAIN sources.walk[i] : i \in 1..k}
        /\ \A name \in DOMAIN env : env[name] = LastSet(sources.walk, sources.initial, k, name)
  BY DEF WalkOK
<1>2. /\ Readable = 1..k
      /\ \A name : Walked(name) = LastSet(sources.walk, sources.initial, k, name)
  BY <1>1, ReadableTo
<1>3. k \in Nat
  <2>1. Len(sources.walk) \in Nat
    BY WalkType
  <2> QED BY <2>1
<1>4. ASSUME NEW name
      PROVE  Getenv(env, name) = Walked(name)
  <2>1. CASE name \in DOMAIN env
    BY <1>1, <1>2, <2>1 DEF Getenv
  <2>2. CASE name \notin DOMAIN env
    <3>1. name \notin DOMAIN sources.initial /\ \A i \in 1..k : name \notin DOMAIN sources.walk[i]
      BY <1>1, <2>2
    <3>2. Walked(name) = Getenv(sources.initial, name)
      BY <1>2, <1>3, <3>1, LastSetNone
    <3> QED BY <2>2, <3>1, <3>2 DEF Getenv
  <2> QED BY <2>1, <2>2
<1> QED BY <1>1, <1>2, <1>4

\* The environment when all files have been read.
LEMMA FilesRead ==
  ASSUME ReadOK, stage = "buffer"
  PROVE  \A name : Getenv(env, name) = Filed(name)
BY Unread DEF ReadOK, Getenv

\* The environment when the buffer directory has been set, of an annotation.
LEMMA BufferSet ==
  ASSUME ReadOK, stage = "annotations"
  PROVE  /\ DOMAIN env = Read \cup {"STORAGE_BUFFER_PATH"}
         /\ \A name \in DOMAIN env : env[name] = Buffered(name)
BY DEF ReadOK

\* Before the first file, the environment is the initial one.
LEMMA InitEnv == MemInit => EnvInv
<1> SUFFICES ASSUME MemInit PROVE EnvInv
  OBVIOUS
<1>1. PICK e \in Initials, walk \in Walks, configEnvs \in ConfigEnvs :
        /\ stage = "walk" /\ env = e /\ config = <<>> /\ loaded = <<>>
        /\ order \in SetToSeqs(DOMAIN e \cap Annotations)
        /\ sources = [initial |-> e, walk |-> walk, left |-> walk, files |-> configEnvs]
  BY Zenon DEF MemInit, Init
<1>2. /\ sources.initial = e /\ sources.walk = walk /\ sources.left = walk
      /\ sources.files = configEnvs /\ DOMAIN sources = {"initial", "walk", "left", "files"}
  BY <1>1
<1>3. HistoryOK
  BY <1>1, <1>2 DEF HistoryOK, MemInit
<1>4. Lists(order, DOMAIN env \cap Annotations)
  <2>1. IsFiniteSet(DOMAIN e \cap Annotations)
    BY EnvironmentAssumption, FS_Subset
  <2> QED BY <1>1, <2>1, Enumerates
<1>5. WalkOK
  <2>1. walk \in Seq(Range(walk)) /\ Len(walk) \in Nat
    BY <1>2, <1>3, WalkType
  <2>2. SubSeq(walk, 0 + 1, Len(walk)) = walk
    BY <2>1, SubSeqFull
  <2>3. 1..0 = {} /\ 0 \in 0..Len(walk)
    BY <2>1
  <2>4. UNION {DOMAIN walk[i] : i \in 1..0} = {}
    BY <2>3
  <2>5. \A name : LastSet(walk, e, 0, name) = Getenv(e, name)
    BY <2>3, LastSetNone
  <2>6. \A name \in DOMAIN e : Getenv(e, name) = e[name]
    BY DEF Getenv
  <2>7. /\ \A i \in 1..0 : walk[i] # Unreadable
        /\ DOMAIN e = DOMAIN e \cup UNION {DOMAIN walk[i] : i \in 1..0}
        /\ \A name \in DOMAIN e : e[name] = LastSet(walk, e, 0, name)
    BY <2>3, <2>4, <2>5, <2>6
  <2> QED BY <1>1, <1>2, <2>2, <2>3, <2>7, Zenon DEF WalkOK
<1>6. ReadOK /\ PrecedenceKept
  BY <1>1 DEF ReadOK, PrecedenceKept
<1> QED BY <1>3, <1>4, <1>5, <1>6 DEF EnvInv

\* The next file of the walk, or its failure.
LEMMA WalkKeeps ==
  ASSUME EnvInv, Walk, given' = given
  PROVE  EnvInv'
<1>. DEFINE w == sources.walk
            n == Len(w)
            Come(k) == /\ \A i \in 1..k : w[i] # Unreadable
                       /\ \/ sources'.left = SubSeq(w, k + 1, n)
                          \/ sources'.left = <<>> /\ k + 1 \in 1..n /\ w[k + 1] = Unreadable
                       /\ DOMAIN env' = DOMAIN sources.initial
                                          \cup UNION {DOMAIN w[i] : i \in 1..k}
                       /\ \A name \in DOMAIN env' :
                            env'[name] = LastSet(w, sources.initial, k, name)
<1>1. /\ stage = "walk" /\ stage' = "walk" /\ sources.left # <<>>
      /\ loaded' = loaded /\ config' = config
  BY DEF Walk
<1>2. HistoryOK /\ Lists(order, DOMAIN env \cap Annotations) /\ WalkOK
  BY DEF EnvInv
<1>3. /\ sources'.walk = w /\ sources'.initial = sources.initial /\ sources'.files = sources.files
      /\ DOMAIN sources' = {"initial", "walk", "left", "files"}
      /\ sources'.left = IF Head(sources.left) # Unreadable THEN Tail(sources.left) ELSE <<>>
  BY <1>2 DEF Walk, HistoryOK
<1>4. HistoryOK'
  BY <1>1, <1>2, <1>3 DEF HistoryOK
<1>5. n \in Nat /\ w \in Seq(Range(w)) /\ DOMAIN w = 1..n
  BY <1>2, WalkType
<1>6. PICK k \in 0..n :
        /\ \A i \in 1..k : w[i] # Unreadable
        /\ sources.left = SubSeq(w, k + 1, n)
        /\ DOMAIN env = DOMAIN sources.initial \cup UNION {DOMAIN w[i] : i \in 1..k}
        /\ \A name \in DOMAIN env : env[name] = LastSet(w, sources.initial, k, name)
  BY <1>1, <1>2 DEF WalkOK
<1>7. k \in Nat /\ k + 1 \in 1..n
  <2>1. CASE k = n
    <3>1. SubSeq(w, k + 1, n) = <<>>
      BY <1>5, <2>1, SubSeqEmpty
    <3> QED BY <1>1, <1>6, <3>1
  <2>2. CASE k # n
    BY <1>5, <2>2
  <2> QED BY <2>1, <2>2
<1>8. Head(sources.left) = w[k + 1] /\ Tail(sources.left) = SubSeq(w, (k + 1) + 1, n)
  <2>1. n \in (k + 1)..n
    BY <1>5, <1>7
  <2> QED BY <1>5, <1>6, <1>7, <2>1, HeadTailOfSubSeq
<1>9. (\E l \in 0..n : Come(l)) => WalkOK'
  BY <1>3, ZenonT(60) DEF WalkOK
<1>. HIDE DEF w, n
<1>10. CASE w[k + 1] = Unreadable
  <2>1. env' = env /\ order' = order /\ sources'.left = <<>>
    BY <1>3, <1>8, <1>10 DEF Walk
  <2>2. Come(k)
    BY <1>6, <1>7, <1>10, <2>1
  <2>3. WalkOK'
    BY <1>6, <1>9, <2>2
  <2>4. Lists(order', DOMAIN env' \cap Annotations)
    BY <1>2, <2>1
  <2> QED BY <1>1, <1>2, <1>4, <2>3, <2>4 DEF EnvInv, ReadOK, PrecedenceKept, HistoryOK
<1>11. CASE w[k + 1] # Unreadable
  <2>1. Overload(w[k + 1])
    BY <1>8, <1>11 DEF Walk
  <2>2. /\ DOMAIN env' = DOMAIN w[k + 1] \cup DOMAIN env
        /\ \A name : name \in DOMAIN w[k + 1] => env'[name] = w[k + 1][name]
        /\ \A name \in DOMAIN env : name \notin DOMAIN w[k + 1] => env'[name] = env[name]
        /\ Lists(order', DOMAIN env' \cap Annotations)
    BY <1>2, <2>1, OverloadLists
  <2>3. \A i \in 1..(k + 1) : i \in 1..k \/ i = k + 1
    BY <1>7
  <2>4. \A i \in 1..k : i \in 1..(k + 1)
    BY <1>7
  <2>5. k + 1 \in 1..(k + 1)
    BY <1>7
  <2>6. DOMAIN env' = DOMAIN sources.initial \cup UNION {DOMAIN w[i] : i \in 1..(k + 1)}
    <3>1. UNION {DOMAIN w[i] : i \in 1..(k + 1)}
            = DOMAIN w[k + 1] \cup UNION {DOMAIN w[i] : i \in 1..k}
      BY <2>3, <2>4, <2>5
    <3> QED BY <1>6, <2>2, <3>1
  <2>7. ASSUME NEW name \in DOMAIN env'
        PROVE  env'[name] = LastSet(w, sources.initial, k + 1, name)
    <3>1. LastSet(w, sources.initial, k + 1, name)
            = IF name \in DOMAIN w[k + 1] THEN w[k + 1][name]
              ELSE LastSet(w, sources.initial, k, name)
      BY <1>7, LastSetNext
    <3> QED BY <1>6, <2>2, <3>1
  <2>8. sources'.left = SubSeq(w, (k + 1) + 1, n)
    BY <1>3, <1>8, <1>11
  <2>9. \A i \in 1..(k + 1) : w[i] # Unreadable
    BY <1>6, <1>11, <2>3
  <2>10. Come(k + 1)
    BY <2>6, <2>7, <2>8, <2>9
  <2>11. k + 1 \in 0..n
    BY <1>5, <1>7
  <2>12. WalkOK'
    <3>. HIDE DEF Come
    <3> QED BY <1>9, <2>10, <2>11
  <2> QED BY <1>1, <1>2, <1>4, <2>2, <2>12 DEF EnvInv, ReadOK, PrecedenceKept, HistoryOK
<1> QED BY <1>10, <1>11

\* config.env.
LEMMA OverloadConfigEnvKeeps ==
  ASSUME EnvInv, OverloadConfigEnv, given' = given
  PROVE  EnvInv'
<1>. DEFINE dir == GetDynamicConfigDir(env)
<1>1. /\ stage = "walk" /\ stage' = "buffer" /\ sources.left = <<>>
      /\ loaded' = loaded /\ config' = config /\ sources' = sources
      /\ IF dir \in DOMAIN sources.files THEN Overload(sources.files[dir])
         ELSE env' = env /\ order' = order
  BY DEF OverloadConfigEnv
<1>2. HistoryOK /\ Lists(order, DOMAIN env \cap Annotations) /\ WalkOK
  BY DEF EnvInv
<1>3. HistoryOK'
  BY <1>1, <1>2 DEF HistoryOK
<1>4. /\ DOMAIN env = DOMAIN sources.initial
                        \cup UNION {DOMAIN sources.walk[i] : i \in Readable}
      /\ \A name : Getenv(env, name) = Walked(name)
  BY <1>1, <1>2, WalkEnds
<1>5. ConfigEnv = IF dir \in DOMAIN sources.files THEN sources.files[dir] ELSE <<>>
  BY <1>4 DEF ConfigEnv, GetDynamicConfigDir, GetDirectory
<1>6. /\ DOMAIN env' = Read
      /\ \A name : name \in DOMAIN ConfigEnv => env'[name] = ConfigEnv[name]
      /\ \A name \in DOMAIN env : name \notin DOMAIN ConfigEnv => env'[name] = env[name]
      /\ Lists(order', DOMAIN env' \cap Annotations)
  <2>1. CASE dir \in DOMAIN sources.files
    <3>1. Overload(ConfigEnv)
      BY <1>1, <1>5, <2>1
    <3> QED BY <1>2, <1>4, <3>1, OverloadLists DEF Read
  <2>2. CASE dir \notin DOMAIN sources.files
    <3>1. DOMAIN ConfigEnv = {}
      BY <1>5, <2>2
    <3> QED BY <1>1, <1>2, <1>4, <2>2, <3>1 DEF Read
  <2> QED BY <2>1, <2>2
<1>7. \A name \in Read : env'[name] = Filed(name)
  <2>1. \A name \in DOMAIN env : env[name] = Walked(name)
    BY <1>4 DEF Getenv
  <2>2. \A name \in Read : name \in DOMAIN ConfigEnv \/ name \in DOMAIN env
    BY <1>4 DEF Read
  <2> QED BY <1>6, <2>1, <2>2 DEF Filed
<1>8. Read' = Read /\ \A name : Filed(name)' = Filed(name)
  BY <1>1, SameSources
<1>9. ReadOK'
  BY <1>1, <1>6, <1>7, <1>8 DEF ReadOK
<1> QED BY <1>1, <1>2, <1>3, <1>6, <1>9 DEF EnvInv, WalkOK, PrecedenceKept, HistoryOK

\* The directory of the buffer.
LEMMA SetBufferDirectoryKeeps ==
  ASSUME EnvInv, SetBufferDirectory, given' = given
  PROVE  EnvInv'
<1>. DEFINE buf == "STORAGE_BUFFER_PATH"
            value == Clean(IF Filed(buf) = "" THEN "/tmp/buffer" ELSE Filed(buf))
<1>1. /\ stage = "buffer" /\ stage' = "annotations" /\ order' = order
      /\ loaded' = loaded /\ config' = config /\ sources' = sources
  BY DEF SetBufferDirectory
<1>2. HistoryOK /\ Lists(order, DOMAIN env \cap Annotations) /\ ReadOK
  BY DEF EnvInv
<1>3. HistoryOK'
  BY <1>1, <1>2 DEF HistoryOK
<1>4. /\ DOMAIN env = Read
      /\ \A name \in DOMAIN env : env[name] = Filed(name)
      /\ \A name : Getenv(env, name) = Filed(name)
  BY <1>1, <1>2, FilesRead DEF ReadOK
<1>5. GetStorageBufferDir(env) = value
  BY <1>4 DEF GetStorageBufferDir, GetDirectory
<1>6. env' = Over([n \in {buf} |-> value], env)
  BY <1>5 DEF SetBufferDirectory, Setenv
<1>. HIDE DEF value
<1>7. /\ DOMAIN env' = Read \cup {buf}
      /\ env'[buf] = value
      /\ \A name \in Read : name # buf => env'[name] = Filed(name)
  BY <1>4, <1>6 DEF Over
<1>8. \A name \in DOMAIN env' : env'[name] = Buffered(name)
  BY <1>7 DEF Buffered, value
<1>9. Read' = Read /\ \A name : Buffered(name)' = Buffered(name)
  BY <1>1, SameSources
<1>10. ReadOK'
  BY <1>1, <1>7, <1>8, <1>9 DEF ReadOK
<1>11. DOMAIN env' \cap Annotations = DOMAIN env \cap Annotations
  BY <1>4, <1>7, EnvironmentAssumption
<1> QED BY <1>1, <1>2, <1>3, <1>10, <1>11 DEF EnvInv, WalkOK, PrecedenceKept, HistoryOK

\* The annotations that become a variable.
Setters(e, name) ==
  {a \in DOMAIN e \cap Annotations : VariableOf[a] = name /\ e[a] \notin Unsplittable}

\* The annotations set a variable to what one of them says.
LEMMA SetByOne ==
  ASSUME NEW e, Lists(order, DOMAIN e \cap Annotations)
  PROVE  /\ \A name : name \in DOMAIN FromAnnotations(e) <=> name # "" /\ Setters(e, name) # {}
         /\ \A name \in DOMAIN FromAnnotations(e) :
              \E a \in Setters(e, name) : FromAnnotations(e)[name] = e[a]
<1>. DEFINE A == DOMAIN e \cap Annotations
            split == {i \in DOMAIN order : e[order[i]] \notin Unsplittable}
            by(name) == {i \in split : VariableOf[order[i]] = name}
            D == {VariableOf[order[i]] : i \in split} \ {""}
<1>1. FromAnnotations(e) = [name \in D |-> e[order[Max(by(name))]]]
  BY Zenon DEF FromAnnotations
<1>2. {order[i] : i \in DOMAIN order} = A
  BY Zenon DEF Lists
<1>3. \A name : Setters(e, name) = {order[i] : i \in by(name)}
  BY <1>2 DEF Setters
<1>4. \A name : name \in D <=> name # "" /\ Setters(e, name) # {}
  <2>1. \A name : name \in D <=> name # "" /\ by(name) # {}
    OBVIOUS
  <2>2. \A name : Setters(e, name) # {} <=> by(name) # {}
    <3>. HIDE DEF by
    <3> QED BY <1>3
  <2>. HIDE DEF D, by
  <2> QED BY <2>1, <2>2
<1>5. ASSUME NEW name \in D
      PROVE  Max(by(name)) \in by(name)
  <2>1. PICK n \in Nat : DOMAIN order = 1..n
    <3>1. order \in Seq(A)
      BY Zenon DEF Lists
    <3> QED BY <3>1, LenProperties
  <2>2. by(name) \in SUBSET (1..n) /\ by(name) # {}
    BY <2>1
  <2>. DEFINE B == by(name)
  <2>. HIDE DEF B
  <2>3. B \in SUBSET (1..n) /\ B # {}
    BY <2>2 DEF B
  <2>4. \E m \in B : \A k \in B : k <= m
    BY <2>1, <2>3, Greatest
  <2>5. \E m \in B : \A k \in B : m >= k
    BY <2>3, <2>4
  <2>6. Max(B) \in B
    BY <2>5, Zenon DEF Max
  <2> QED BY <2>6 DEF B
<1>6. ASSUME NEW name \in D
      PROVE  \E a \in Setters(e, name) : FromAnnotations(e)[name] = e[a]
  <2>1. order[Max(by(name))] \in Setters(e, name)
    <3>. HIDE DEF by
    <3> QED BY <1>3, <1>5
  <2> QED BY <1>1, <2>1, Zenon
<1>7. DOMAIN FromAnnotations(e) = D
  <2>. HIDE DEF D, by
  <2> QED BY <1>1
<1>. HIDE DEF D
<1> QED BY <1>4, <1>6, <1>7

\* The annotations become variables.
LEMMA AnnotationsKeep ==
  ASSUME EnvInv, ProcessCouchbaseAnnotations, given' = given
  PROVE  EnvInv'
<1>. DEFINE F == FromAnnotations(env)
<1>1. /\ stage = "annotations" /\ stage' = "loaded" /\ order' = order
      /\ loaded' = env' /\ config' = config /\ sources' = sources /\ env' = Over(F, env)
  BY Zenon DEF ProcessCouchbaseAnnotations, Annotated
<1>2. HistoryOK /\ Lists(order, DOMAIN env \cap Annotations) /\ ReadOK
  BY DEF EnvInv
<1>3. HistoryOK'
  BY <1>1, <1>2 DEF HistoryOK
<1>4. /\ DOMAIN env = Read \cup {"STORAGE_BUFFER_PATH"}
      /\ \A name \in DOMAIN env : env[name] = Buffered(name)
  BY <1>1, <1>2, BufferSet
<1>5. /\ \A name : name \in DOMAIN F <=> name # "" /\ Setters(env, name) # {}
      /\ \A name \in DOMAIN F : \E a \in Setters(env, name) : F[name] = env[a]
  BY <1>2, SetByOne, Zenon
<1>. HIDE DEF F
<1>6. /\ DOMAIN env' = DOMAIN F \cup DOMAIN env
      /\ \A name \in DOMAIN F : env'[name] = F[name]
      /\ \A name \in DOMAIN env : name \notin DOMAIN F => env'[name] = env[name]
  BY <1>1 DEF Over
<1>7. ASSUME NEW name \in DOMAIN F
      PROVE  name \notin Annotations
  <2>1. PICK a \in Setters(env, name) : TRUE
    BY <1>5
  <2>2. a \in Annotations /\ VariableOf[a] = name
    BY DEF Setters
  <2> QED BY <2>2, EnvironmentAssumption
<1>8. DOMAIN env' \cap Annotations = DOMAIN env \cap Annotations
  BY <1>6, <1>7
<1>9. \A a \in DOMAIN env \cap Annotations : env[a] = Filed(a)
  BY <1>4, EnvironmentAssumption DEF Buffered
<1>10. "" \notin DOMAIN loaded' \cup Read
  BY <1>1, <1>2, <1>4, <1>5, <1>6, EmptyUnread
<1>11. Names' = DOMAIN loaded' \cup Read
  <2>1. Names = DOMAIN loaded \cup Read
    BY DEF Names, Read
  <2>2. (Names = DOMAIN loaded \cup Read)'
    BY DEF Names, Read
  <2>3. Read' = Read
    BY <1>1, SameSources
  <2> QED BY <2>2, <2>3
<1>12. \A name : Filed(name)' = Filed(name)
  BY <1>1, SameSources
<1>13. ASSUME NEW name \in DOMAIN loaded' \cup Read
       PROVE  LET annotated == {Filed(a) : a \in {b \in Annotations \cap DOMAIN loaded' :
                                  VariableOf[b] = name /\ Filed(b) \notin Unsplittable}}
              IN  IF annotated # {} THEN Getenv(loaded', name) \in annotated
                  ELSE IF name = "STORAGE_BUFFER_PATH"
                       THEN Getenv(loaded', name) = Clean(IF Filed(name) = ""
                                                          THEN "/tmp/buffer" ELSE Filed(name))
                       ELSE Getenv(loaded', name) = Filed(name)
  <2>. DEFINE B == {b \in Annotations \cap DOMAIN loaded' :
                      VariableOf[b] = name /\ Filed(b) \notin Unsplittable}
              annotated == {Filed(a) : a \in B}
  <2>1. B = Setters(env, name)
    BY <1>1, <1>8, <1>9 DEF Setters
  <2>2. name # ""
    BY <1>10
  <2>3. \A a \in Setters(env, name) : env[a] = Filed(a)
    BY <1>9 DEF Setters
  <2>4. name \in DOMAIN loaded'
    BY <1>1, <1>4, <1>6
  <2>5. Getenv(loaded', name) = env'[name]
    BY <1>1, <2>4 DEF Getenv
  <2>6. annotated # {} <=> Setters(env, name) # {}
    BY <2>1
  <2>7. CASE Setters(env, name) # {}
    <3>1. name \in DOMAIN F
      BY <1>5, <2>2, <2>7
    <3>2. PICK a \in Setters(env, name) : env'[name] = env[a]
      BY <1>5, <1>6, <3>1
    <3>3. a \in B /\ env'[name] = Filed(a)
      BY <2>1, <2>3, <3>2
    <3>4. env'[name] \in annotated
      BY <3>3
    <3>. HIDE DEF annotated
    <3>5. Getenv(loaded', name) \in annotated /\ annotated # {}
      BY <2>5, <3>4
    <3> QED BY <3>5 DEF annotated
  <2>8. CASE Setters(env, name) = {}
    <3>1. name \notin DOMAIN F
      BY <1>5, <2>8
    <3>2. name \in DOMAIN env /\ env'[name] = Buffered(name)
      BY <1>1, <1>4, <1>6, <2>4, <3>1
    <3>3. annotated = {}
      BY <2>1, <2>8
    <3>. HIDE DEF annotated
    <3>4. Getenv(loaded', name) = Buffered(name) /\ ~(annotated # {})
      BY <2>5, <3>2, <3>3
    <3> QED BY <3>4 DEF annotated, Buffered
  <2> QED BY <2>7, <2>8
<1>14. PrecedenceKept'
  BY <1>11, <1>12, <1>13, ZenonT(60) DEF PrecedenceKept
<1> QED BY <1>1, <1>2, <1>3, <1>8, <1>14 DEF EnvInv, WalkOK, ReadOK

-----------------------------------------------------------------------------
(* The parser.                                                             *)

\* FlattenSeq puts sequences over A together to one over A.
LEMMA Flattened ==
  ASSUME NEW A, NEW s \in Seq(Seq(A))
  PROVE  FlattenSeq(s) \in Seq(A)
<1>. DEFINE n == Len(s)
<1>1. n \in Nat /\ \A i \in 1..n : s[i] \in Seq(A)
  BY LenProperties
<1>2. CASE n = 0
  <2>1. s = <<>>
    BY <1>2, EmptySeq
  <2> QED BY <1>2, <2>1, Zenon, EmptySeq DEF FlattenSeq
<1>. HIDE DEF n
<1>3. CASE n # 0
  <2>. DEFINE step == [i \in Nat |-> [t \in Seq(A) |-> IF i \in 1..n THEN t \o s[i] ELSE t]]
  <2>1. step \in [Nat -> [Seq(A) -> Seq(A)]]
    <3>1. \A t \in Seq(A) : \A i \in 1..n : t \o s[i] \in Seq(A)
      BY <1>1, ConcatProperties
    <3> QED BY <3>1
  <2>2. PICK g : Iteration(g, Seq(A), <<>>, step, n)
    <3>1. <<>> \in Seq(A)
      BY EmptySeq
    <3>. HIDE DEF step
    <3> QED BY ONLY <1>1, <2>1, <3>1, Iterates
  <2>3. /\ g \in [0..n -> Seq(A)] /\ g[0] = <<>>
        /\ \A i \in 1..n : g[i] = g[i - 1] \o s[i]
    <3>1. /\ g \in [0..n -> Seq(A)] /\ g[0] = <<>>
          /\ \A i \in 1..n : g[i] = step[i][g[i - 1]]
      BY <2>2, Zenon DEF Iteration
    <3>2. \A i \in 1..n : i \in Nat /\ g[i - 1] \in Seq(A)
      BY <1>1, <3>1
    <3> QED BY <3>1, <3>2
  <2>. DEFINE h == [i \in 1..n |-> g[i]]
  <2>4. h = [i \in 1..n |-> IF i = 1 THEN s[i] ELSE h[i - 1] \o s[i]]
    <3>1. \A i \in 1..n : i # 1 => i - 1 \in 1..n
      BY <1>1
    <3>2. ASSUME NEW i \in 1..n, i = 1 PROVE g[i] = s[i]
      <4>0. 1 \in 1..n /\ 1 - 1 = 0
        BY <3>2
      <4>1. g[1] = <<>> \o s[1] /\ s[1] \in Seq(A)
        BY <1>1, <2>3, <4>0
      <4> QED BY <3>2, <4>1, ConcatEmptySeq
    <3> QED BY <2>3, <3>1, <3>2
  <2>5. PICK f : f = [i \in 1..n |-> IF i = 1 THEN s[i] ELSE f[i - 1] \o s[i]]
                 /\ FlattenSeq(s) = f[n]
    <3>1. \E f : f = [i \in 1..n |-> IF i = 1 THEN s[i] ELSE f[i - 1] \o s[i]]
      <4>. HIDE DEF h
      <4> QED BY <2>4
    <3>2. n # 0
      BY <1>3
    <3> QED BY <3>1, <3>2, Zenon DEF FlattenSeq, n
  <2>6. \A i \in 1..n : f[i] = IF i = 1 THEN s[i] ELSE f[i - 1] \o s[i]
    BY <2>5
  <2>. DEFINE T == {i \in Nat : i \in 1..n => f[i] \in Seq(A)}
  <2>7. \A i \in T : i + 1 \in T
    <3> SUFFICES ASSUME NEW i \in T, i + 1 \in 1..n PROVE f[i + 1] \in Seq(A)
      OBVIOUS
    <3>1. CASE i = 0
      <4>1. i + 1 = 1 /\ 1 \in 1..n
        BY <1>1, <1>3, <3>1
      <4>2. f[1] = s[1]
        BY <2>6, <4>1
      <4> QED BY <1>1, <4>1, <4>2
    <3>2. CASE i # 0
      <4>1. i \in 1..n /\ (i + 1) - 1 = i /\ i + 1 # 1
        BY <1>1, <3>2
      <4>2. f[i] \in Seq(A) /\ s[i + 1] \in Seq(A)
        BY <1>1, <4>1
      <4>3. f[i + 1] = f[i] \o s[i + 1]
        BY <2>6, <4>1
      <4> QED BY <4>2, <4>3, ConcatProperties
    <3> QED BY <3>1, <3>2
  <2>8. n \in T
    <3>1. 0 \in T /\ T \in SUBSET Nat
      OBVIOUS
    <3>2. T = Nat
      <4>. HIDE DEF T
      <4> QED BY <2>7, <3>1, Upwards
    <3> QED BY <1>1, <3>2
  <2>9. n \in 1..n
    BY <1>1, <1>3
  <2> QED BY <2>5, <2>8, <2>9
<1> QED BY <1>2, <1>3

\* What a file can be put together to.
Results == {Failed} \cup {Whole(lines) : lines \in Seq(Written)}

\* What is built consists of lines that can be written.
LEMMA ResultType ==
  /\ \A r \in Results : r.lines \in Seq(Written)
  /\ \A lines \in Seq(Written) : Whole(lines) \in Results
  /\ Failed \in Results
<1>1. <<>> \in Seq(Written)
  BY EmptySeq
<1>2. Failed.lines = <<>> /\ \A lines : Whole(lines).lines = lines
  BY DEF Failed, Whole
<1> QED BY <1>1, <1>2 DEF Results

\* Configuration files with what they can hold.
FilesOK(t) == DOMAIN t \subseteq DOMAIN Texts /\ \A p \in DOMAIN t : t[p] \in Texts[p]

\* Two environments that differ in nothing but limits.
Agree(e, f) == \A name : name \notin LimitVariables => Getenv(e, name) = Getenv(f, name)

\* A file consists of lines.
LEMMA LinesWritten ==
  ASSUME NEW t, FilesOK(t), NEW path \in DOMAIN t
  PROVE  t[path] \in Seq(Written)
<1>1. path \in DOMAIN Texts /\ t[path] \in Texts[path]
  BY DEF FilesOK
<1>2. t[path] \in Seq(Range(t[path]))
  BY <1>1, MemLimitsAssumption
<1>3. t[path] \in UNION Range(Texts)
  BY <1>1 DEF Range
<1>4. Range(t[path]) \subseteq Written
  BY <1>3, Zenon DEF Written
<1> QED BY <1>2, <1>4, SeqMonotonic

\* An include does not depend on the limits.
LEMMA IncludeAgrees ==
  ASSUME NEW e, NEW f, Agree(e, f), NEW base, NEW line \in Written, line.kind = "@include"
  PROVE  HandleIncludeFilePaths(e, base, line) = HandleIncludeFilePaths(f, base, line)
<1>1. line.var \notin LimitVariables
  BY MemLimitsAssumption
<1>2. Getenv(e, line.var) = Getenv(f, line.var)
  BY <1>1 DEF Agree
<1> QED BY <1>2, Zenon DEF HandleIncludeFilePaths

\* What a file is put together to, from the parts of its lines.
Part(e, t, path, built, line) ==
  IF line.kind = "@include"
  THEN LET named == HandleIncludeFilePaths(e, path, line)
       IN  IF named \in DOMAIN t THEN built[named] ELSE Failed
  ELSE IF line.kind = "#" THEN Whole(<<>>) ELSE Whole(<<line>>)

\* A file is built of the parts of its lines.
LEMMA FileOfParts ==
  ASSUME NEW e, NEW t, NEW path, NEW built
  PROVE  LET parts == [i \in DOMAIN t[path] |-> Part(e, t, path, built, t[path][i])]
         IN  BuildFile(e, t, path, built)
               = IF \E i \in DOMAIN parts : ~parts[i].ok THEN Failed
                 ELSE Whole(FlattenSeq([i \in DOMAIN parts |-> parts[i].lines]))
<1>. DEFINE Include(named) == IF named \in DOMAIN t THEN built[named] ELSE Failed
            Piece(line) ==
              CASE line.kind = "@include" -> Include(HandleIncludeFilePaths(e, path, line))
                [] line.kind = "#" -> Whole(<<>>)
                [] OTHER -> Whole(<<line>>)
            pieces == [i \in DOMAIN t[path] |-> Piece(t[path][i])]
            parts  == [i \in DOMAIN t[path] |-> Part(e, t, path, built, t[path][i])]
            File(p) == IF \E i \in DOMAIN p : ~p[i].ok THEN Failed
                       ELSE Whole(FlattenSeq([i \in DOMAIN p |-> p[i].lines]))
<1>1. ASSUME NEW line
      PROVE  Piece(line) = Part(e, t, path, built, line)
  BY DEF Part
<1>2. pieces = parts
  <2>. HIDE DEF Piece
  <2> QED BY <1>1
<1>3. BuildFile(e, t, path, built) = File(pieces)
  BY Zenon DEF BuildFile
<1>4. BuildFile(e, t, path, built) = File(parts)
  <2>. HIDE DEF File, pieces, parts
  <2> QED BY <1>2, <1>3
<1> QED BY <1>4, Zenon

\* One file, of what the others were built to.
LEMMA BuildFileType ==
  ASSUME NEW e, NEW t, FilesOK(t), NEW path \in DOMAIN t, NEW built \in [DOMAIN t -> Results]
  PROVE  BuildFile(e, t, path, built) \in Results
<1>. DEFINE parts == [i \in DOMAIN t[path] |-> Part(e, t, path, built, t[path][i])]
            texts == [i \in DOMAIN parts |-> parts[i].lines]
<1>1. BuildFile(e, t, path, built)
        = IF \E i \in DOMAIN parts : ~parts[i].ok THEN Failed ELSE Whole(FlattenSeq(texts))
  BY FileOfParts, Zenon
<1>2. PICK n \in Nat : DOMAIN t[path] = 1..n
  BY LinesWritten, LenProperties
<1>3. ASSUME NEW i \in 1..n
      PROVE  parts[i] \in Results
  <2>. DEFINE line == t[path][i]
  <2>1. line \in Written
    BY <1>2, LinesWritten, ElementOfSeq, LenProperties
  <2>. HIDE DEF line
  <2>2. <<>> \in Seq(Written) /\ <<line>> \in Seq(Written)
    BY <2>1
  <2>3. Part(e, t, path, built, line) \in Results
    <3>1. Whole(<<>>) \in Results /\ Whole(<<line>>) \in Results /\ Failed \in Results
      BY <2>2, ResultType
    <3>2. \A named \in DOMAIN t : built[named] \in Results
      OBVIOUS
    <3> QED BY <3>1, <3>2, Zenon DEF Part
  <2> QED BY <1>2, <2>3 DEF line
<1>4. texts \in Seq(Seq(Written))
  <2>1. DOMAIN parts = 1..n
    BY <1>2
  <2>. HIDE DEF parts
  <2>2. \A i \in 1..n : parts[i].lines \in Seq(Written)
    BY <1>3, ResultType
  <2>3. texts = [i \in 1..n |-> parts[i].lines]
    BY <2>1
  <2> QED BY <2>2, <2>3
<1>5. Whole(FlattenSeq(texts)) \in Results
  <2>. HIDE DEF texts
  <2> QED BY <1>4, Flattened, ResultType
<1>. HIDE DEF parts, texts
<1> QED BY <1>1, <1>5, ResultType

\* It does not depend on the limits.
LEMMA BuildFileAgrees ==
  ASSUME NEW e, NEW f, Agree(e, f), NEW t, FilesOK(t), NEW path \in DOMAIN t, NEW built
  PROVE  BuildFile(e, t, path, built) = BuildFile(f, t, path, built)
<1>. DEFINE parts(g) == [i \in DOMAIN t[path] |-> Part(g, t, path, built, t[path][i])]
            File(p) == IF \E i \in DOMAIN p : ~p[i].ok THEN Failed
                       ELSE Whole(FlattenSeq([i \in DOMAIN p |-> p[i].lines]))
<1>1. ASSUME NEW i \in DOMAIN t[path]
      PROVE  Part(e, t, path, built, t[path][i]) = Part(f, t, path, built, t[path][i])
  <2>. DEFINE line == t[path][i]
  <2>1. line \in Written
    BY LinesWritten, ElementOfSeq, LenProperties
  <2>. HIDE DEF line
  <2>2. CASE line.kind = "@include"
    <3>1. HandleIncludeFilePaths(e, path, line) = HandleIncludeFilePaths(f, path, line)
      BY <2>1, <2>2, IncludeAgrees
    <3> QED BY <2>2, <3>1, Zenon DEF Part, line
  <2>3. CASE line.kind # "@include"
    BY <2>3, Zenon DEF Part, line
  <2> QED BY <2>2, <2>3
<1>2. parts(e) = parts(f)
  BY <1>1
<1>3. \A g : BuildFile(g, t, path, built) = File(parts(g))
  BY FileOfParts, Zenon
<1>. HIDE DEF parts, File
<1> QED BY <1>2, <1>3

\* The stages of BuildConfigFile, by the number of files that can still be opened.
Stages(b, e, t) ==
  /\ b \in [0..MaxOpen -> [DOMAIN t -> Results]]
  /\ b[0] = [path \in DOMAIN t |-> Failed]
  /\ \A n \in 1..MaxOpen : b[n] = [path \in DOMAIN t |-> BuildFile(e, t, path, b[n - 1])]

\* BuildConfigFile takes its value from such stages.
LEMMA Building ==
  ASSUME NEW e, NEW t, FilesOK(t)
  PROVE  \E b : /\ Stages(b, e, t)
                /\ \A root : BuildConfigFile(e, t, root)
                               = IF root \in DOMAIN t THEN b[MaxOpen][root] ELSE Failed
<1>. DEFINE B == [DOMAIN t -> Results]
            none == [path \in DOMAIN t |-> Failed]
            next(built) == [path \in DOMAIN t |-> BuildFile(e, t, path, built)]
            step == [n \in Nat |-> [built \in B |-> next(built)]]
            rec(b) == [left \in 0..MaxOpen |->
                         [path \in DOMAIN t |->
                            IF left = 0 THEN Failed ELSE BuildFile(e, t, path, b[left - 1])]]
<1>0. MaxOpen \in Nat
  BY MemLimitsAssumption
<1>1. none \in B
  BY ResultType
<1>2. \A built \in B : next(built) \in B
  BY BuildFileType
<1>3. step \in [Nat -> [B -> B]]
  <2>. HIDE DEF B, next
  <2> QED BY <1>2
<1>4. PICK g : Iteration(g, B, none, step, MaxOpen)
  <2>. HIDE DEF B, none, step
  <2> QED BY ONLY <1>0, <1>1, <1>3, Iterates
<1>5. /\ g \in [0..MaxOpen -> B] /\ g[0] = none
      /\ \A n \in 1..MaxOpen : g[n] = next(g[n - 1])
  <2>. HIDE DEF B, none, next
  <2>1. /\ g \in [0..MaxOpen -> B] /\ g[0] = none
        /\ \A n \in 1..MaxOpen : g[n] = step[n][g[n - 1]]
    BY <1>4, Zenon DEF Iteration
  <2>2. \A n \in 1..MaxOpen : n \in Nat /\ g[n - 1] \in B
    BY <1>0, <2>1
  <2> QED BY <2>1, <2>2
<1>6. g = rec(g)
  <2>1. ASSUME NEW left \in 0..MaxOpen
        PROVE  g[left] = [path \in DOMAIN t |->
                            IF left = 0 THEN Failed ELSE BuildFile(e, t, path, g[left - 1])]
    <3>1. CASE left = 0
      BY <1>5, <3>1
    <3>2. CASE left # 0
      <4>1. left \in 1..MaxOpen
        BY <1>0, <3>2
      <4> QED BY <1>5, <3>2, <4>1
    <3> QED BY <3>1, <3>2
  <2>2. g = [left \in 0..MaxOpen |-> g[left]]
    BY <1>5
  <2> QED BY <2>1, <2>2
<1>7. PICK b : /\ b = rec(b)
               /\ \A root : BuildConfigFile(e, t, root)
                              = IF root \in DOMAIN t THEN b[MaxOpen][root] ELSE Failed
  BY <1>6, Zenon DEF BuildConfigFile
<1>8. b[0] = none /\ \A n \in 1..MaxOpen : b[n] = next(b[n - 1])
  <2>1. 0 \in 0..MaxOpen /\ \A n \in 1..MaxOpen : n \in 0..MaxOpen /\ n # 0
    BY <1>0
  <2> QED BY <1>7, <2>1
<1>9. \A n \in 0..MaxOpen : b[n] \in B
  <2>. DEFINE T == {n \in Nat : n \in 0..MaxOpen => b[n] \in B}
  <2>. HIDE DEF B, none, next, rec
  <2>1. 0 \in T
    BY <1>1, <1>8
  <2>2. ASSUME NEW n \in T PROVE n + 1 \in T
    <3>1. CASE n + 1 \in 0..MaxOpen
      <4>1. n \in 0..MaxOpen /\ n + 1 \in 1..MaxOpen /\ (n + 1) - 1 = n
        BY <1>0, <3>1
      <4>2. b[n + 1] = next(b[n]) /\ b[n] \in B
        BY <1>8, <4>1
      <4> QED BY <1>2, <4>2
    <3>2. CASE n + 1 \notin 0..MaxOpen
      BY <3>2
    <3> QED BY <3>1, <3>2
  <2>3. T = Nat
    <3>1. T \in SUBSET Nat
      OBVIOUS
    <3>. HIDE DEF T
    <3> QED BY <2>1, <2>2, <3>1, Upwards
  <2> QED BY <2>3
<1>10. b \in [0..MaxOpen -> B]
  <2>1. b = [left \in 0..MaxOpen |-> b[left]]
    BY <1>7
  <2>. HIDE DEF B, rec
  <2> QED BY <1>9, <2>1
<1>11. Stages(b, e, t)
  BY <1>8, <1>10, Zenon DEF Stages
<1> QED BY <1>7, <1>11, Zenon

\* The configuration file is put together from lines that can be written.
LEMMA BuildType ==
  ASSUME NEW e, NEW t, FilesOK(t), NEW root
  PROVE  BuildConfigFile(e, t, root) \in Results
<1>1. PICK b : /\ Stages(b, e, t)
               /\ BuildConfigFile(e, t, root)
                    = IF root \in DOMAIN t THEN b[MaxOpen][root] ELSE Failed
  BY Building
<1>2. MaxOpen \in 0..MaxOpen
  <2>1. MaxOpen \in Nat
    BY MemLimitsAssumption
  <2> QED BY <2>1
<1>3. b[MaxOpen] \in [DOMAIN t -> Results]
  BY <1>1, <1>2, Zenon DEF Stages
<1> QED BY <1>1, <1>3, ResultType

\* And it does not depend on the limits.
LEMMA BuildAgrees ==
  ASSUME NEW e, NEW f, Agree(e, f), NEW t, FilesOK(t), NEW root
  PROVE  BuildConfigFile(e, t, root) = BuildConfigFile(f, t, root)
<1>0. MaxOpen \in Nat
  BY MemLimitsAssumption
<1>1. PICK b : /\ Stages(b, e, t)
               /\ BuildConfigFile(e, t, root)
                    = IF root \in DOMAIN t THEN b[MaxOpen][root] ELSE Failed
  BY Building
<1>2. PICK c : /\ Stages(c, f, t)
               /\ BuildConfigFile(f, t, root)
                    = IF root \in DOMAIN t THEN c[MaxOpen][root] ELSE Failed
  BY Building
<1>. DEFINE T == {n \in Nat : n \in 0..MaxOpen => b[n] = c[n]}
<1>3. 0 \in T
  BY <1>1, <1>2 DEF Stages
<1>4. ASSUME NEW n \in T PROVE n + 1 \in T
  <2>1. CASE n + 1 \in 0..MaxOpen
    <3>1. n \in 0..MaxOpen /\ n + 1 \in 1..MaxOpen /\ (n + 1) - 1 = n
      BY <1>0, <2>1
    <3>2. /\ b[n + 1] = [path \in DOMAIN t |-> BuildFile(e, t, path, b[n])]
          /\ c[n + 1] = [path \in DOMAIN t |-> BuildFile(f, t, path, c[n])]
      BY <1>1, <1>2, <3>1 DEF Stages
    <3>3. b[n] = c[n]
      BY <3>1
    <3>4. \A path \in DOMAIN t : BuildFile(e, t, path, b[n]) = BuildFile(f, t, path, b[n])
      BY BuildFileAgrees
    <3>5. b[n + 1] = c[n + 1]
      BY <3>2, <3>3, <3>4
    <3> QED BY <3>5
  <2>2. CASE n + 1 \notin 0..MaxOpen
    BY <2>2
  <2> QED BY <2>1, <2>2
<1>5. T = Nat
  <2>1. T \in SUBSET Nat
    OBVIOUS
  <2>. HIDE DEF T
  <2> QED BY <1>3, <1>4, <2>1, Upwards
<1>6. b[MaxOpen] = c[MaxOpen]
  BY <1>0, <1>5
<1> QED BY <1>1, <1>2, <1>6

\* The files that a file includes.
Named(e, t, path) ==
  {HandleIncludeFilePaths(e, path, line) : line \in {l \in Range(t[path]) : l.kind = "@include"}}

\* A file can be built if those it includes are there and can.
LEMMA BuiltFile ==
  ASSUME NEW e, NEW t, NEW path, NEW built
  PROVE  BuildFile(e, t, path, built).ok
           <=> \A named \in Named(e, t, path) : named \in DOMAIN t /\ built[named].ok
<1>. DEFINE text == t[path]
            To(line) == HandleIncludeFilePaths(e, path, line)
            parts == [i \in DOMAIN text |-> Part(e, t, path, built, text[i])]
<1>1. BuildFile(e, t, path, built)
        = IF \E i \in DOMAIN parts : ~parts[i].ok THEN Failed
          ELSE Whole(FlattenSeq([i \in DOMAIN parts |-> parts[i].lines]))
  BY FileOfParts, Zenon
<1>2. ~Failed.ok /\ \A lines : Whole(lines).ok
  BY DEF Failed, Whole
<1>3. ASSUME NEW line
      PROVE  Part(e, t, path, built, line).ok
               <=> (line.kind = "@include" => To(line) \in DOMAIN t /\ built[To(line)].ok)
  <2>1. CASE line.kind = "@include" /\ To(line) \in DOMAIN t
    BY <2>1, Zenon DEF Part
  <2>2. CASE line.kind = "@include" /\ To(line) \notin DOMAIN t
    <3>1. Part(e, t, path, built, line) = Failed
      BY <2>2, Zenon DEF Part
    <3> QED BY <1>2, <2>2, <3>1
  <2>3. CASE line.kind # "@include"
    <3>1. Part(e, t, path, built, line) \in {Whole(<<>>), Whole(<<line>>)}
      BY <2>3, Zenon DEF Part
    <3> QED BY <1>2, <2>3, <3>1
  <2> QED BY <2>1, <2>2, <2>3
<1>. HIDE DEF To, text
<1>4. BuildFile(e, t, path, built).ok
        <=> \A i \in DOMAIN text :
              text[i].kind = "@include" => To(text[i]) \in DOMAIN t /\ built[To(text[i])].ok
  <2>1. DOMAIN parts = DOMAIN text
        /\ \A i \in DOMAIN text : parts[i] = Part(e, t, path, built, text[i])
    OBVIOUS
  <2>2. BuildFile(e, t, path, built).ok <=> \A i \in DOMAIN parts : parts[i].ok
    <3>. HIDE DEF parts
    <3> QED BY <1>1, <1>2
  <2>. HIDE DEF parts
  <2> QED BY <1>3, <2>1, <2>2
<1>5. Named(e, t, path) = {To(l) : l \in {text[i] : i \in {j \in DOMAIN text :
                                                            text[j].kind = "@include"}}}
  <2>1. Range(text) = {text[i] : i \in DOMAIN text}
    BY DEF Range
  <2>2. {l \in Range(text) : l.kind = "@include"}
          = {text[i] : i \in {j \in DOMAIN text : text[j].kind = "@include"}}
    BY <2>1
  <2> QED BY <2>2 DEF Named, To, text
<1> QED BY <1>4, <1>5

\* The same of the stages.
LEMMA BuiltStage ==
  ASSUME NEW e, NEW t, NEW b, Stages(b, e, t), NEW path \in DOMAIN t
  PROVE  /\ ~b[0][path].ok
         /\ \A n \in 1..MaxOpen :
              b[n][path].ok <=> \A named \in Named(e, t, path) :
                                  named \in DOMAIN t /\ b[n - 1][named].ok
<1>1. b[0][path] = Failed /\ ~Failed.ok
  BY DEF Stages, Failed
<1>2. ASSUME NEW n \in 1..MaxOpen
      PROVE  b[n][path] = BuildFile(e, t, path, b[n - 1])
  BY DEF Stages
<1> QED BY <1>1, <1>2, BuiltFile

\* Files in an order in which each includes only later ones can be built, the last one
\* first: no more of them are open at a time than there are.
LEMMA OrderBuilds ==
  ASSUME NEW e, NEW t, NEW b, Stages(b, e, t), NEW list \in Seq(DOMAIN t),
         Len(list) <= MaxOpen, 1 \in DOMAIN list,
         \A i \in DOMAIN list :
           Named(e, t, list[i]) \subseteq {list[j] : j \in i + 1..Len(list)}
  PROVE  b[MaxOpen][list[1]].ok
<1>. DEFINE len == Len(list)
            Done == {k \in Nat : \A i \in DOMAIN list : \A n \in 0..MaxOpen :
                                   len - i <= k /\ k < n => b[n][list[i]].ok}
<1>1. len \in Nat /\ DOMAIN list = 1..len /\ \A i \in 1..len : list[i] \in DOMAIN t
  BY LenProperties
<1>2. MaxOpen \in Nat
  BY MemLimitsAssumption
<1>3. ASSUME NEW i \in DOMAIN list, NEW n \in 1..MaxOpen,
             \A j \in i + 1..len : b[n - 1][list[j]].ok
      PROVE  b[n][list[i]].ok
  <2>1. Named(e, t, list[i]) \subseteq {list[j] : j \in i + 1..len}
    OBVIOUS
  <2>2. \A j \in i + 1..len : j \in 1..len
    BY <1>1
  <2>3. \A named \in Named(e, t, list[i]) : named \in DOMAIN t /\ b[n - 1][named].ok
    BY <1>1, <1>3, <2>1, <2>2
  <2>4. list[i] \in DOMAIN t
    BY <1>1
  <2> QED BY <2>3, <2>4, BuiltStage
<1>. HIDE DEF len
<1>4. 0 \in Done
  <2>1. ASSUME NEW i \in DOMAIN list, NEW n \in 0..MaxOpen, len - i <= 0, 0 < n
        PROVE  b[n][list[i]].ok
    <3>1. n \in 1..MaxOpen /\ i + 1..len = {}
      BY <1>1, <1>2, <2>1
    <3> QED BY <1>3, <3>1
  <2> QED BY <2>1
<1>5. ASSUME NEW k \in Done PROVE k + 1 \in Done
  <2>1. ASSUME NEW i \in DOMAIN list, NEW n \in 0..MaxOpen, len - i <= k + 1, k + 1 < n
        PROVE  b[n][list[i]].ok
    <3>1. n \in 1..MaxOpen /\ n - 1 \in 0..MaxOpen /\ k < n - 1
      BY <1>1, <1>2, <2>1
    <3>2. \A j \in i + 1..len : j \in DOMAIN list /\ len - j <= k
      BY <1>1, <2>1
    <3>3. \A j \in i + 1..len : b[n - 1][list[j]].ok
      BY <3>1, <3>2
    <3> QED BY <1>3, <3>1, <3>3
  <2> QED BY <2>1
<1>6. Done = Nat
  <2>1. Done \in SUBSET Nat
    OBVIOUS
  <2>. HIDE DEF Done
  <2> QED BY <1>4, <1>5, <2>1, Upwards
<1>7. len - 1 \in Done /\ len - 1 < MaxOpen /\ MaxOpen \in 0..MaxOpen
  <2>1. len - 1 \in Nat
    BY <1>1
  <2>. HIDE DEF Done
  <2> QED BY <1>1, <1>2, <1>6, <2>1 DEF len
<1> QED BY <1>1, <1>7

\* What makes a configuration one that can be taken as a whole.
InOrder(e, t, root, used, s) ==
  LET list == <<root>> \o s
  IN  /\ root \in used
      /\ \A i \in DOMAIN list :
           Named(e, t, list[i]) \subseteq {list[j] : j \in i + 1..Len(list)}

\* Files that are built come in such an order: by the stage at which they first are.
LEMMA BuildOrders ==
  ASSUME NEW e, NEW t, IsFiniteSet(DOMAIN t), NEW b, Stages(b, e, t), NEW root \in DOMAIN t,
         b[MaxOpen][root].ok
  PROVE  \E used \in SUBSET DOMAIN t : \E s \in SetToSeqs(used \ {root}) :
           InOrder(e, t, root, used, s)
<1>. DEFINE at(path) == {n \in 0..MaxOpen : b[n][path].ok}
            okay == {path \in DOMAIN t : at(path) # {}}
            rank == [path \in okay |-> CHOOSE n \in at(path) : \A m \in at(path) : n <= m]
<1>1. MaxOpen \in Nat
  BY MemLimitsAssumption
<1>2. ASSUME NEW path \in okay
      PROVE  /\ rank[path] \in 0..MaxOpen /\ b[rank[path]][path].ok
             /\ \A m \in at(path) : rank[path] <= m
  <2>1. at(path) \in SUBSET Nat /\ at(path) # {}
    BY <1>1
  <2>2. rank[path] = CHOOSE n \in at(path) : \A m \in at(path) : n <= m
    OBVIOUS
  <2>3. \A n \in at(path) : n \in 0..MaxOpen /\ b[n][path].ok
    OBVIOUS
  <2>. HIDE DEF at, okay, rank
  <2>4. \E n \in at(path) : \A m \in at(path) : n <= m
    BY <2>1, Least
  <2>5. rank[path] \in at(path) /\ \A m \in at(path) : rank[path] <= m
    BY <2>2, <2>4
  <2> QED BY <2>3, <2>5
<1>3. \A path \in DOMAIN t : \A n \in 0..MaxOpen : b[n][path].ok => path \in okay /\ n \in at(path)
  OBVIOUS
<1>4. okay \subseteq DOMAIN t
  OBVIOUS
<1>. HIDE DEF at, okay, rank
<1>5. ASSUME NEW path \in okay, NEW named \in Named(e, t, path)
      PROVE  named \in okay /\ rank[named] < rank[path]
  <2>1. path \in DOMAIN t /\ rank[path] \in 0..MaxOpen /\ b[rank[path]][path].ok
    BY <1>2, <1>4
  <2>2. ~b[0][path].ok
    BY <2>1, BuiltStage
  <2>3. rank[path] # 0
    BY <2>1, <2>2
  <2>4. rank[path] \in 1..MaxOpen /\ rank[path] - 1 \in 0..MaxOpen
    BY <1>1, <2>1, <2>3
  <2>5. named \in DOMAIN t /\ b[rank[path] - 1][named].ok
    BY <2>1, <2>4, BuiltStage
  <2>6. named \in okay /\ rank[named] <= rank[path] - 1
    BY <1>2, <1>3, <2>4, <2>5
  <2>7. rank[named] \in Int /\ rank[path] \in Int
    BY <1>2, <2>6
  <2> QED BY <2>6, <2>7
<1>6. root \in okay
  <2>1. MaxOpen \in 0..MaxOpen
    BY <1>1
  <2> QED BY <1>3, <2>1
<1>. DEFINE used == {path \in okay : path = root \/ rank[path] < rank[root]}
            rest == used \ {root}
<1>7. used \in SUBSET DOMAIN t /\ IsFiniteSet(rest) /\ root \in used
  <2>1. rest \subseteq DOMAIN t /\ used \subseteq DOMAIN t /\ root \in used
    BY <1>4, <1>6
  <2> QED BY <2>1, FS_Subset
<1>8. \A path \in rest : rank[path] \in Nat
  BY <1>1, <1>2
<1>9. PICK s : Lists(s, rest) /\ \A i, j \in DOMAIN s : i < j => rank[s[i]] >= rank[s[j]]
  <2>. HIDE DEF rest
  <2> QED BY <1>7, <1>8, Ranked
<1>. DEFINE list == <<root>> \o s
<1>10. /\ Len(s) \in Nat /\ DOMAIN s = 1..Len(s) /\ Len(list) = Len(s) + 1
       /\ DOMAIN list = 1..Len(s) + 1 /\ list[1] = root
       /\ \A i \in 1..Len(s) : list[i + 1] = s[i]
  <2>1. s \in Seq(used) /\ <<root>> \in Seq(used) /\ Len(<<root>>) = 1 /\ <<root>>[1] = root
    <3>1. s \in Seq(rest) /\ rest \subseteq used /\ root \in used
      BY <1>7, <1>9 DEF Lists
    <3>. HIDE DEF used, rest
    <3> QED BY <3>1, SeqMonotonic
  <2>. HIDE DEF used
  <2>2. Len(s) \in Nat /\ DOMAIN s = 1..Len(s)
    BY <2>1, LenProperties
  <2>3. /\ list \in Seq(used) /\ Len(list) = Len(<<root>>) + Len(s)
        /\ \A i \in 1..Len(<<root>>) + Len(s) :
             list[i] = IF i <= Len(<<root>>) THEN <<root>>[i] ELSE s[i - Len(<<root>>)]
    BY <2>1, ConcatProperties
  <2>4. DOMAIN list = 1..Len(list)
    BY <2>3, LenProperties
  <2>. HIDE DEF list
  <2>5. 1 \in 1..1 + Len(s) /\ \A i \in 1..Len(s) : i + 1 \in 1..1 + Len(s) /\ ~(i + 1 <= 1)
                                                    /\ (i + 1) - 1 = i
    BY <2>2
  <2> QED BY <2>1, <2>2, <2>3, <2>4, <2>5
<1>11. \A i \in 1..Len(s) : s[i] \in rest
  BY <1>9, <1>10 DEF Lists
<1>12. \A path \in rest : \E i \in 1..Len(s) : s[i] = path
  <2>. HIDE DEF rest
  <2> QED BY <1>9, <1>10 DEF Lists
<1>. HIDE DEF list
<1>13. ASSUME NEW i \in DOMAIN list, NEW named \in Named(e, t, list[i])
       PROVE  \E j \in i + 1..Len(list) : list[j] = named
  <2>1. list[i] \in used
    <3>1. CASE i = 1
      BY <1>7, <1>10, <3>1
    <3>2. CASE i # 1
      <4>1. i - 1 \in 1..Len(s) /\ (i - 1) + 1 = i
        BY <1>10, <3>2
      <4> QED BY <1>10, <1>11, <4>1
    <3> QED BY <3>1, <3>2
  <2>. DEFINE path == list[i]
  <2>2. path \in okay /\ rank[path] <= rank[root] /\ rank[path] \in Int /\ rank[root] \in Int
    BY <1>2, <1>6, <2>1
  <2>. HIDE DEF path
  <2>3. named \in okay /\ rank[named] < rank[path] /\ rank[named] \in Int
    BY <1>2, <1>5, <2>2 DEF path
  <2>4. named # root /\ rank[named] < rank[root]
    BY <2>2, <2>3
  <2>5. named \in rest
    BY <2>3, <2>4
  <2>6. PICK k \in 1..Len(s) : s[k] = named
    BY <1>12, <2>5
  <2>7. i < k + 1
    <3>1. SUFFICES ASSUME ~(i < k + 1) PROVE FALSE
      OBVIOUS
    <3>2. i - 1 \in 1..Len(s) /\ k <= i - 1 /\ (i - 1) + 1 = i
      BY <1>10, <3>1
    <3>3. path = s[i - 1]
      BY <1>10, <3>2 DEF path
    <3>4. rank[s[k]] >= rank[s[i - 1]]
      <4>1. CASE k = i - 1
        BY <2>2, <3>3, <4>1
      <4>2. CASE k < i - 1
        BY <1>9, <1>10, <3>2, <4>2
      <4> QED BY <3>2, <4>1, <4>2
    <3> QED BY <2>2, <2>3, <2>6, <3>3, <3>4
  <2>8. k + 1 \in i + 1..Len(list)
    BY <1>10, <2>7
  <2> QED BY <1>10, <2>6, <2>8
<1>14. InOrder(e, t, root, used, s)
  BY <1>7, <1>13 DEF InOrder, list
<1>15. s \in SetToSeqs(rest)
  <2>. HIDE DEF rest
  <2> QED BY <1>7, <1>9, Enumerated
<1> QED BY <1>7, <1>14, <1>15

\* A configuration can be built if, and only if, there is such an order.
LEMMA WholeOrNot ==
  ASSUME NEW e, NEW t, FilesOK(t), NEW root
  PROVE  BuildConfigFile(e, t, root).ok
           <=> \E used \in SUBSET DOMAIN t : \E s \in SetToSeqs(used \ {root}) :
                 InOrder(e, t, root, used, s)
<1>1. PICK b : /\ Stages(b, e, t)
               /\ BuildConfigFile(e, t, root)
                    = IF root \in DOMAIN t THEN b[MaxOpen][root] ELSE Failed
  BY Building
<1>2. /\ IsFiniteSet(DOMAIN Texts) /\ MaxOpen \in Nat /\ Cardinality(DOMAIN Texts) < MaxOpen
      /\ DOMAIN t \subseteq DOMAIN Texts /\ Cardinality(DOMAIN Texts) \in Nat
  BY MemLimitsAssumption, FS_CardinalityType DEF FilesOK
<1>3. IsFiniteSet(DOMAIN t)
  BY <1>2, FS_Subset
<1>4. ASSUME BuildConfigFile(e, t, root).ok
      PROVE  \E used \in SUBSET DOMAIN t : \E s \in SetToSeqs(used \ {root}) :
               InOrder(e, t, root, used, s)
  <2>1. root \in DOMAIN t /\ b[MaxOpen][root].ok
    BY <1>1, <1>4 DEF Failed
  <2> QED BY <1>1, <1>3, <2>1, BuildOrders
<1>5. ASSUME NEW used \in SUBSET DOMAIN t, NEW s \in SetToSeqs(used \ {root}),
             InOrder(e, t, root, used, s)
      PROVE  BuildConfigFile(e, t, root).ok
  <2>. DEFINE list == <<root>> \o s
              rest == used \ {root}
  <2>1. root \in used /\ root \in DOMAIN t
    BY <1>5 DEF InOrder
  <2>2. IsFiniteSet(used) /\ IsFiniteSet(rest)
    BY <1>3, FS_Subset
  <2>3. Lists(s, rest)
    <3>. HIDE DEF rest
    <3>1. s \in SetToSeqs(rest)
      BY DEF rest
    <3> QED BY <2>2, <3>1, Enumerates
  <2>4. Len(s) = Cardinality(rest)
    <3>. HIDE DEF rest
    <3> QED BY <2>2, <2>3, Enumerated
  <2>5. Len(s) \in Nat /\ Len(s) < MaxOpen
    <3>1. Cardinality(rest) <= Cardinality(DOMAIN Texts)
      <4>1. rest \in SUBSET DOMAIN Texts
        BY <1>2
      <4> QED BY <1>2, <4>1, FS_Subset
    <3>2. Cardinality(rest) \in Nat
      BY <2>2, FS_CardinalityType
    <3>. HIDE DEF rest
    <3> QED BY <1>2, <2>4, <3>1, <3>2
  <2>6. s \in Seq(DOMAIN t) /\ <<root>> \in Seq(DOMAIN t) /\ Len(<<root>>) = 1
        /\ <<root>>[1] = root
    <3>1. s \in Seq(rest) /\ rest \subseteq DOMAIN t
      BY <2>3 DEF Lists
    <3>. HIDE DEF rest
    <3> QED BY <2>1, <3>1, SeqMonotonic
  <2>7. /\ list \in Seq(DOMAIN t) /\ Len(list) = Len(<<root>>) + Len(s)
        /\ \A i \in 1..Len(<<root>>) + Len(s) :
             list[i] = IF i <= Len(<<root>>) THEN <<root>>[i] ELSE s[i - Len(<<root>>)]
    BY <2>6, ConcatProperties
  <2>8. DOMAIN list = 1..Len(list)
    BY <2>7, LenProperties
  <2>9. \A i \in DOMAIN list :
          Named(e, t, list[i]) \subseteq {list[j] : j \in i + 1..Len(list)}
    BY <1>5 DEF InOrder
  <2>. HIDE DEF list
  <2>10. 1 \in DOMAIN list /\ list[1] = root /\ Len(list) <= MaxOpen
    BY <1>2, <2>5, <2>6, <2>7, <2>8
  <2>11. b[MaxOpen][root].ok
    BY <1>1, <2>7, <2>9, <2>10, OrderBuilds
  <2> QED BY <1>1, <2>1, <2>11
<1> QED BY <1>4, <1>5

\* The least of a set.
LEMMA MinIsLeast ==
  ASSUME NEW S \in SUBSET Nat, S # {}
  PROVE  Min(S) \in S /\ \A x \in S : Min(S) <= x
<1>1. \E m \in S : \A k \in S : m =< k
  BY Least
<1> QED BY <1>1, Zenon DEF Min

\* The line that is found has the prefix, and no header comes before it.
LEMMA FoundAt ==
  ASSUME NEW lines \in Seq(Written), NEW prefix, NEW from \in Nat \ {0}
  PROVE  LET at == FindNextPrefix(lines, prefix, from)
         IN  \/ at = 0
             \/ at \in from..Len(lines) /\ at \in DOMAIN lines /\ lines[at].kind = prefix
<1>. DEFINE stops == {j \in from..Len(lines) : lines[j].kind \in Headers \cup {prefix}}
            at == FindNextPrefix(lines, prefix, from)
<1>1. at = IF stops # {} /\ lines[Min(stops)].kind = prefix THEN Min(stops) ELSE 0
  BY Zenon DEF FindNextPrefix
<1>2. Len(lines) \in Nat /\ DOMAIN lines = 1..Len(lines)
  BY LenProperties
<1>3. stops \in SUBSET Nat
  BY <1>2
<1>4. \A j \in stops : j \in from..Len(lines) /\ j \in DOMAIN lines
  BY <1>2
<1>. HIDE DEF stops
<1>5. stops # {} => Min(stops) \in stops
  BY <1>3, MinIsLeast
<1> QED BY <1>1, <1>4, <1>5

\* A section consists of lines of the file.
LEMMA SectionType ==
  ASSUME NEW lines \in Seq(Written), NEW start \in DOMAIN lines
  PROVE  ExtractSection(lines, start) \in Seq(Written)
<1>. DEFINE next == {j \in start + 1..Len(lines) : lines[j].kind \in Headers}
            last == IF next = {} THEN Len(lines) ELSE Min(next) - 1
<1>1. ExtractSection(lines, start) = SubSeq(lines, start, last)
  BY Zenon DEF ExtractSection
<1>2. Len(lines) \in Nat /\ DOMAIN lines = 1..Len(lines) /\ start \in Nat /\ start >= 1
  BY LenProperties
<1>3. last \in Int /\ last <= Len(lines)
  <2>1. next \in SUBSET Nat /\ \A j \in next : j \in Nat /\ j <= Len(lines)
    BY <1>2
  <2>. HIDE DEF next
  <2>2. CASE next = {}
    BY <1>2, <2>2
  <2>3. CASE next # {}
    <3>. DEFINE m == Min(next)
    <3>1. m \in Nat /\ m <= Len(lines)
      BY <2>1, <2>3, MinIsLeast
    <3>. HIDE DEF m
    <3>2. m - 1 \in Int /\ m - 1 <= Len(lines)
      BY <1>2, <3>1
    <3> QED BY <2>3, <3>2 DEF m
  <2> QED BY <2>2, <2>3
<1>. HIDE DEF last
<1>4. \A i \in start..last : lines[i] \in Written
  <2>1. \A i \in start..last : i \in 1..Len(lines)
    BY <1>2, <1>3
  <2> QED BY <2>1, ElementOfSeq
<1> QED BY <1>1, <1>2, <1>3, <1>4, SubSeqProperties

\* So do all sections with a header.
LEMMA SectionsType ==
  ASSUME NEW lines \in Seq(Written), NEW header
  PROVE  /\ DOMAIN BuildSections(lines, header) \subseteq DOMAIN lines
         /\ \A s \in DOMAIN BuildSections(lines, header) :
              BuildSections(lines, header)[s] \in Seq(Written)
BY SectionType DEF BuildSections

\* What an output matches does not depend on the limits.
LEMMA OutputAgrees ==
  ASSUME NEW e, NEW f, Agree(e, f), NEW section \in Seq(Written)
  PROVE  OutputCounts(e, section) <=> OutputCounts(f, section)
<1>. DEFINE at(i) == FindNextPrefix(section, "MATCH", i + 1)
            Sets(g, i) == at(i) # 0 /\ Getenv(g, section[at(i)].var) \notin {"", "no-match"}
<1>1. ASSUME NEW i \in DOMAIN section
      PROVE  Sets(e, i) <=> Sets(f, i)
  <2>1. i + 1 \in Nat \ {0}
    <3>1. PICK n \in Nat : DOMAIN section = 1..n
      BY LenProperties
    <3> QED BY <3>1
  <2>2. at(i) = 0 \/ (at(i) \in DOMAIN section /\ section[at(i)].kind = "MATCH")
    BY <2>1, FoundAt
  <2>. DEFINE k == at(i)
  <2>. HIDE DEF k
  <2>3. CASE k # 0
    <3>1. section[k] \in Written /\ section[k].kind = "MATCH"
      BY <2>2, <2>3, ElementOfSeq, LenProperties DEF k
    <3>2. section[k].var \notin LimitVariables
      BY <3>1, MemLimitsAssumption
    <3>3. Getenv(e, section[k].var) = Getenv(f, section[k].var)
      BY <3>2 DEF Agree
    <3> QED BY <3>3 DEF k
  <2>4. CASE k = 0
    BY <2>4 DEF k
  <2> QED BY <2>3, <2>4
<1>2. \A g : OutputCounts(g, section) <=> \E i \in DOMAIN section : Sets(g, i)
  BY Zenon DEF OutputCounts
<1>. HIDE DEF Sets
<1> QED BY <1>1, <1>2

\* Whether audit is enabled, and which file is the root, does not depend on the limits.
LEMMA SettingsAgree ==
  ASSUME NEW e, NEW f, Agree(e, f)
  PROVE  /\ GetAuditEnabled(e) <=> GetAuditEnabled(f)
         /\ GetConfigFile(e) = GetConfigFile(f)
         /\ Getenv(e, "MEM_BUF_LIMITS_ENABLED") = Getenv(f, "MEM_BUF_LIMITS_ENABLED")
         /\ Getenv(e, "CONTAINER_LIMITS_MEMORY_MEGABYTES")
              = Getenv(f, "CONTAINER_LIMITS_MEMORY_MEGABYTES")
<1>1. /\ "COUCHBASE_LOGS_CONFIG_FILE" \notin LimitVariables
      /\ "COUCHBASE_LOGS_DYNAMIC_CONFIG" \notin LimitVariables
      /\ "MEM_BUF_LIMITS_ENABLED" \notin LimitVariables
      /\ "CONTAINER_LIMITS_MEMORY_MEGABYTES" \notin LimitVariables
      /\ "AUDIT_ENABLED" \notin LimitVariables
  BY MemLimitsAssumption
<1>2. /\ Getenv(e, "COUCHBASE_LOGS_CONFIG_FILE") = Getenv(f, "COUCHBASE_LOGS_CONFIG_FILE")
      /\ Getenv(e, "COUCHBASE_LOGS_DYNAMIC_CONFIG") = Getenv(f, "COUCHBASE_LOGS_DYNAMIC_CONFIG")
      /\ Getenv(e, "AUDIT_ENABLED") = Getenv(f, "AUDIT_ENABLED")
  BY <1>1 DEF Agree
<1>3. GetDynamicConfigDir(e) = GetDynamicConfigDir(f)
  BY <1>2, Zenon DEF GetDynamicConfigDir, GetDirectory
<1>4. GetConfigFile(e) = GetConfigFile(f)
  BY <1>2, <1>3, Zenon DEF GetConfigFile, GetDirectory
<1>5. GetAuditEnabled(e) <=> GetAuditEnabled(f)
  BY <1>2, Zenon DEF GetAuditEnabled
<1> QED BY <1>1, <1>4, <1>5 DEF Agree

\* Nor does what is counted.
LEMMA CountsAgree ==
  ASSUME NEW e, NEW f, Agree(e, f), NEW lines \in Seq(Written)
  PROVE  CreateMemBufLimitConfig(e, lines) = CreateMemBufLimitConfig(f, lines)
<1>. DEFINE outputs == BuildSections(lines, "[OUTPUT]")
            counted(g) == {s \in DOMAIN outputs : OutputCounts(g, outputs[s])}
<1>1. GetAuditEnabled(e) = GetAuditEnabled(f)
  BY SettingsAgree DEF GetAuditEnabled
<1>2. \A s \in DOMAIN outputs : OutputCounts(e, outputs[s]) <=> OutputCounts(f, outputs[s])
  BY SectionsType, OutputAgrees
<1>3. counted(e) = counted(f)
  <2>. HIDE DEF outputs
  <2> QED BY <1>2
<1> QED BY <1>1, <1>3, Zenon DEF CreateMemBufLimitConfig

\* The variable of a limit is one.
LEMMA NamesType ==
  ASSUME NEW e, NEW lines \in Seq(Written)
  PROVE  CreateMemBufLimitConfig(e, lines).names \subseteq LimitVariables \cup {""}
<1>. DEFINE inputs == BuildSections(lines, "[INPUT]")
            limited == {s \in DOMAIN inputs : FindNextPrefix(inputs[s], "MEM_BUF_LIMIT", 2) # 0}
<1>1. CreateMemBufLimitConfig(e, lines).names = {LimitName(inputs[s]) : s \in limited}
  BY DEF CreateMemBufLimitConfig
<1>2. ASSUME NEW s \in limited
      PROVE  LimitName(inputs[s]) \in LimitVariables \cup {""}
  <2>. DEFINE section == inputs[s]
              at == FindNextPrefix(section, "MEM_BUF_LIMIT", 2)
  <2>1. section \in Seq(Written) /\ at # 0
    BY SectionsType
  <2>. HIDE DEF section
  <2>2. at \in DOMAIN section /\ section[at].kind = "MEM_BUF_LIMIT"
    BY <2>1, FoundAt
  <2>3. section[at] \in Written
    BY <2>1, <2>2, ElementOfSeq, LenProperties
  <2>4. LimitName(section) = section[at].var
    BY Zenon DEF LimitName
  <2> QED BY <2>2, <2>3, <2>4 DEF LimitVariables, section
<1>. HIDE DEF limited, inputs
<1> QED BY <1>1, <1>2

\* The sum over the empty set is 0, over another the value at a member and the sum over
\* the rest: SumFunction takes its values from such a function.
LEMMA Summed ==
  ASSUME NEW w, IsFiniteSet(DOMAIN w), \A x \in DOMAIN w : w[x] \in Nat
  PROVE  \E sum : /\ sum = [s \in SUBSET DOMAIN w |-> IF s = {} THEN 0
                              ELSE w[CHOOSE x \in s : TRUE] + sum[s \ {CHOOSE x \in s : TRUE}]]
                  /\ SumFunction(w) = sum[DOMAIN w]
<1>. DEFINE S == DOMAIN w
            N == Cardinality(S)
            F == [SUBSET S -> Nat]
            Pick(s) == CHOOSE x \in s : TRUE
            next(g) == [s \in SUBSET S |-> IF s = {} THEN 0 ELSE w[Pick(s)] + g[s \ {Pick(s)}]]
            step == [n \in Nat |-> [g \in F |-> next(g)]]
            zero == [s \in SUBSET S |-> 0]
<1>1. N \in Nat /\ \A s \in SUBSET S : Cardinality(s) \in 0..N /\ IsFiniteSet(s)
  BY FS_CardinalityType, FS_Subset
<1>2. \A s \in SUBSET S : s # {} =>
         Pick(s) \in s /\ w[Pick(s)] \in Nat /\ s \ {Pick(s)} \in SUBSET S
  OBVIOUS
<1>. HIDE DEF S
<1>3. ASSUME NEW s \in SUBSET S, s # {}
      PROVE  Cardinality(s) \in 1..N /\ Cardinality(s \ {Pick(s)}) = Cardinality(s) - 1
  <2>1. Cardinality(s) # 0
    BY <1>1, <1>3, FS_EmptySet
  <2>2. Cardinality(s \ {Pick(s)}) = Cardinality(s) - 1
    BY <1>1, <1>2, <1>3, FS_RemoveElement
  <2> QED BY <1>1, <2>1, <2>2
<1>. HIDE DEF Pick
<1>4. step \in [Nat -> [F -> F]]
  <2>1. ASSUME NEW g \in F PROVE next(g) \in F
    <3>1. \A s \in SUBSET S : s # {} => w[Pick(s)] + g[s \ {Pick(s)}] \in Nat
      BY <1>2
    <3> QED BY <3>1
  <2>. HIDE DEF next, F
  <2> QED BY <2>1
<1>5. zero \in F
  OBVIOUS
<1>6. \E f : Iteration(f, F, zero, step, N)
  <2>. HIDE DEF F, step, N, zero
  <2> QED BY ONLY <1>1, <1>4, <1>5, Iterates
<1>7. PICK f : f \in [0..N -> F] /\ f[0] = zero /\ \A n \in 1..N : f[n] = next(f[n - 1])
  <2>1. PICK f : f \in [0..N -> F] /\ f[0] = zero /\ \A n \in 1..N : f[n] = step[n][f[n - 1]]
    BY <1>6, Zenon DEF Iteration
  <2>2. \A n \in 1..N : n \in Nat /\ n - 1 \in 0..N
    BY <1>1
  <2>. HIDE DEF F, next
  <2>3. ASSUME NEW n \in 1..N
        PROVE  step[n][f[n - 1]] = next(f[n - 1])
    <3>1. n \in Nat /\ f[n - 1] \in F
      BY <2>1, <2>2
    <3> QED BY <3>1
  <2>. HIDE DEF step
  <2> QED BY <2>1, <2>3, Zenon
<1>. DEFINE h == [s \in SUBSET S |-> f[Cardinality(s)][s]]
            Sums(g) == g = [s \in SUBSET S |-> IF s = {} THEN 0
                                  ELSE w[CHOOSE x \in s : TRUE] + g[s \ {CHOOSE x \in s : TRUE}]]
<1>8. Sums(h)
  <2>1. ASSUME NEW s \in SUBSET S, s = {} PROVE f[Cardinality(s)][s] = 0
    <3>1. Cardinality(s) = 0
      BY <2>1, FS_EmptySet
    <3> QED BY <1>7, <3>1
  <2>2. ASSUME NEW s \in SUBSET S, s # {}
        PROVE  f[Cardinality(s)][s] = w[Pick(s)] + h[s \ {Pick(s)}]
    <3>1. f[Cardinality(s)] = next(f[Cardinality(s) - 1])
      BY <1>3, <1>7, <2>2
    <3>2. f[Cardinality(s)][s] = w[Pick(s)] + f[Cardinality(s) - 1][s \ {Pick(s)}]
      BY <2>2, <3>1
    <3>3. h[s \ {Pick(s)}] = f[Cardinality(s) - 1][s \ {Pick(s)}]
      BY <1>2, <1>3, <2>2
    <3> QED BY <3>2, <3>3
  <2> QED BY <2>1, <2>2 DEF Pick
<1>9. \E g : Sums(g)
  <2>. HIDE DEF h, Sums
  <2> QED BY <1>8
<1>10. SumFunction(w) = (CHOOSE g : Sums(g))[S]
  BY DEF SumFunction, SumFunctionOnSet, FoldFunctionOnSet, MapThenFoldSet, S
<1>. DEFINE sum == CHOOSE g : Sums(g)
<1>11. Sums(sum)
  <2>. HIDE DEF Sums
  <2> QED BY <1>9
<1>. HIDE DEF sum
<1> QED BY <1>10, <1>11 DEF S, sum

\* A sum of natural numbers is one, and no less than the number of those that are not 0.
LEMMA SumCovers ==
  ASSUME NEW w, IsFiniteSet(DOMAIN w), \A x \in DOMAIN w : w[x] \in Nat,
         NEW T \in SUBSET DOMAIN w, \A x \in T : w[x] # 0
  PROVE  SumFunction(w) \in Nat /\ Cardinality(T) <= SumFunction(w)
<1>. DEFINE S == DOMAIN w
            Pick(s) == CHOOSE x \in s : TRUE
<1>1. PICK sum : /\ sum = [s \in SUBSET S |-> IF s = {} THEN 0
                                               ELSE w[Pick(s)] + sum[s \ {Pick(s)}]]
                 /\ SumFunction(w) = sum[S]
  BY Summed
<1>2. \A s \in SUBSET S : sum[s] = IF s = {} THEN 0 ELSE w[Pick(s)] + sum[s \ {Pick(s)}]
  BY <1>1
<1>3. \A s \in SUBSET S : s # {} => Pick(s) \in s /\ s \ {Pick(s)} \in SUBSET S
  OBVIOUS
<1>. HIDE DEF Pick, S
<1>. DEFINE Covered(s) == sum[s] \in Nat /\ Cardinality(s \cap T) <= sum[s]
            Done == {n \in Nat : \A s \in SUBSET S : Cardinality(s) = n => Covered(s)}
<1>4. \A s \in SUBSET S : /\ IsFiniteSet(s) /\ Cardinality(s) \in Nat
                          /\ IsFiniteSet(s \cap T) /\ Cardinality(s \cap T) \in Nat
  BY FS_Subset, FS_CardinalityType DEF S
<1>5. 0 \in Done
  <2>1. ASSUME NEW s \in SUBSET S, Cardinality(s) = 0 PROVE Covered(s)
    <3>1. s = {}
      BY <1>4, <2>1, FS_EmptySet
    <3>2. s \cap T = {} /\ Cardinality({}) = 0
      BY <3>1, FS_EmptySet
    <3>3. sum[s] = 0
      BY <1>2, <3>1
    <3> QED BY <3>2, <3>3
  <2> QED BY <2>1
<1>6. ASSUME NEW n \in Done PROVE n + 1 \in Done
  <2>1. ASSUME NEW s \in SUBSET S, Cardinality(s) = n + 1 PROVE Covered(s)
    <3>. DEFINE x == Pick(s)
                rest == s \ {x}
    <3>0. n \in Nat /\ n + 1 # 0 /\ (n + 1) - 1 = n
      OBVIOUS
    <3>1. s # {}
      BY <2>1, <3>0, FS_EmptySet
    <3>2. x \in s /\ rest \in SUBSET S /\ x \in S
      BY <1>3, <3>1
    <3>3. Cardinality(rest) = n
      <4>1. IsFiniteSet(s)
        BY <1>4
      <4>. HIDE DEF x
      <4>2. Cardinality(s \ {x}) = Cardinality(s) - 1
        BY <3>2, <4>1, FS_RemoveElement
      <4> QED BY <2>1, <3>0, <4>2
    <3>4. Covered(rest)
      <4>. HIDE DEF rest, Covered
      <4> QED BY <3>2, <3>3
    <3>5. sum[s] = w[x] + sum[rest] /\ w[x] \in Nat
      BY <1>2, <3>1, <3>2 DEF S
    <3>6. CASE x \in T
      <4>1. s \cap T = (rest \cap T) \cup {x} /\ x \notin rest \cap T
        BY <3>2, <3>6
      <4>2. Cardinality(s \cap T) = Cardinality(rest \cap T) + 1
        BY <1>4, <3>2, <4>1, FS_AddElement
      <4>3. w[x] # 0
        BY <3>6
      <4>. HIDE DEF x, rest
      <4> QED BY <1>4, <3>2, <3>4, <3>5, <4>2, <4>3
    <3>7. CASE x \notin T
      <4>1. s \cap T = rest \cap T
        BY <3>7
      <4>2. Cardinality(rest \cap T) \in Nat /\ sum[rest] \in Nat
        BY <1>4, <3>2, <3>4
      <4>3. Cardinality(s \cap T) = Cardinality(rest \cap T)
        BY <4>1
      <4>4. Cardinality(rest \cap T) <= sum[rest]
        BY <3>4
      <4>. HIDE DEF x, rest
      <4> QED BY <3>5, <4>2, <4>3, <4>4
    <3> QED BY <3>6, <3>7
  <2> QED BY <2>1
<1>7. Done = Nat
  <2>1. Done \in SUBSET Nat
    OBVIOUS
  <2>. HIDE DEF Done
  <2> QED BY <1>5, <1>6, <2>1, Upwards
<1>8. Covered(S)
  <2>1. S \in SUBSET S
    OBVIOUS
  <2>2. Cardinality(S) \in Nat
    BY <1>4, <2>1
  <2>. HIDE DEF Covered
  <2> QED BY <1>7, <2>1, <2>2
<1>9. S \cap T = T
  BY DEF S
<1> QED BY <1>1, <1>8, <1>9

\* A section is its header and the lines up to the next one.
LEMMA SectionBody ==
  ASSUME NEW lines \in Seq(Written), NEW start \in DOMAIN lines
  PROVE  LET section == ExtractSection(lines, start)
         IN  /\ Len(section) \in Nat /\ 1 \in DOMAIN section /\ section[1] = lines[start]
             /\ \A i \in DOMAIN section \ {1} : section[i].kind \notin Headers
<1>. DEFINE next == {j \in start + 1..Len(lines) : lines[j].kind \in Headers}
            last == IF next = {} THEN Len(lines) ELSE Min(next) - 1
            section == SubSeq(lines, start, last)
<1>1. ExtractSection(lines, start) = section
  BY Zenon DEF ExtractSection
<1>2. Len(lines) \in Nat /\ DOMAIN lines = 1..Len(lines) /\ start \in Nat /\ start >= 1
      /\ start <= Len(lines)
  BY LenProperties
<1>3. /\ last \in start..Len(lines)
      /\ \A j \in start + 1..last : lines[j].kind \notin Headers
  <2>1. /\ next \in SUBSET Nat
        /\ \A j \in next : j \in Nat /\ j <= Len(lines) /\ j > start
        /\ \A j \in start + 1..Len(lines) : lines[j].kind \in Headers => j \in next
    BY <1>2
  <2>. HIDE DEF next
  <2>2. CASE next = {}
    BY <1>2, <2>1, <2>2
  <2>3. CASE next # {}
    <3>. DEFINE m == Min(next)
    <3>1. m \in Nat /\ m <= Len(lines) /\ m > start /\ \A j \in next : m <= j
      BY <2>1, <2>3, MinIsLeast
    <3>. HIDE DEF m
    <3>2. m - 1 \in start..Len(lines)
      BY <1>2, <3>1
    <3>3. \A j \in start + 1..m - 1 : j \in start + 1..Len(lines) /\ ~(m <= j)
      BY <1>2, <3>1
    <3>4. \A j \in start + 1..m - 1 : lines[j].kind \notin Headers
      BY <2>1, <3>1, <3>3
    <3> QED BY <2>3, <3>2, <3>4 DEF m
  <2> QED BY <2>2, <2>3
<1>. HIDE DEF last
<1>4. \A i \in start..last : lines[i] \in Written
  <2>1. \A i \in start..last : i \in 1..Len(lines)
    BY <1>2, <1>3
  <2> QED BY <2>1, ElementOfSeq
<1>5. /\ section \in Seq(Written) /\ Len(section) = (last - start) + 1
      /\ \A i \in 1..(last - start) + 1 : section[i] = lines[start + i - 1]
  BY <1>2, <1>3, <1>4, SubSeqProperties
<1>6. DOMAIN section = 1..(last - start) + 1
  BY <1>5, LenProperties
<1>7. Len(section) \in Nat /\ 1 \in DOMAIN section /\ section[1] = lines[start]
  <2>1. 1 \in 1..(last - start) + 1 /\ start + 1 - 1 = start /\ (last - start) + 1 \in Nat
    BY <1>2, <1>3
  <2>. HIDE DEF section
  <2> QED BY <1>5, <1>6, <2>1
<1>8. ASSUME NEW i \in DOMAIN section \ {1} PROVE section[i].kind \notin Headers
  <2>1. i \in 1..(last - start) + 1 /\ start + i - 1 \in start + 1..last
    BY <1>2, <1>3, <1>6
  <2>. HIDE DEF section
  <2> QED BY <1>3, <1>5, <2>1
<1>. HIDE DEF section
<1> QED BY <1>1, <1>7, <1>8

\* The limit of a section is found, wherever it is in it.
LEMMA LimitFound ==
  ASSUME NEW section \in Seq(Written), section[1].kind \in Headers,
         \A i \in DOMAIN section \ {1} : section[i].kind \notin Headers,
         NEW k \in DOMAIN section, section[k].kind = "MEM_BUF_LIMIT"
  PROVE  FindNextPrefix(section, "MEM_BUF_LIMIT", 2) # 0
<1>. DEFINE stops == {j \in 2..Len(section) :
                        section[j].kind \in Headers \cup {"MEM_BUF_LIMIT"}}
<1>1. FindNextPrefix(section, "MEM_BUF_LIMIT", 2)
        = IF stops # {} /\ section[Min(stops)].kind = "MEM_BUF_LIMIT" THEN Min(stops) ELSE 0
  BY Zenon DEF FindNextPrefix
<1>2. Len(section) \in Nat /\ DOMAIN section = 1..Len(section)
  BY LenProperties
<1>3. k # 1
  BY DEF Headers
<1>4. k \in 2..Len(section)
  BY <1>2, <1>3
<1>5. k \in stops /\ stops \in SUBSET Nat
  BY <1>2, <1>4
<1>6. \A j \in stops : j \in DOMAIN section \ {1} /\ j # 0
                       /\ section[j].kind \in Headers \cup {"MEM_BUF_LIMIT"}
  BY <1>2
<1>. HIDE DEF stops
<1>7. Min(stops) \in stops
  BY <1>5, MinIsLeast
<1> QED BY <1>1, <1>5, <1>6, <1>7

\* What a section adds to the count is a number; a section with a limit that is enabled
\* adds one.
LEMMA SectionCounts ==
  ASSUME NEW audit \in BOOLEAN, NEW section \in Seq(Written)
  PROVE  /\ InputCount(audit, section) \in Nat
         /\ /\ FindNextPrefix(section, "MEM_BUF_LIMIT", 2) # 0
            /\ audit \/ \A line \in Range(section) : line.text # "AUDIT.LOG"
            => InputCount(audit, section) = 1
<1>. DEFINE w == [i \in DOMAIN section |-> HandleAuditInputs(audit, section, i)]
<1>1. \A i : HandleAuditInputs(audit, section, i) \in {0, 1}
  BY Zenon DEF HandleAuditInputs
<1>2. PICK n \in Nat : DOMAIN section = 1..n
  BY LenProperties
<1>3. IsFiniteSet(DOMAIN section)
  BY <1>2, FS_Interval
<1>4. SumFunction(w) \in Nat
  <2>1. DOMAIN w = DOMAIN section /\ \A x \in DOMAIN w : w[x] \in Nat
    BY <1>1
  <2>2. {} \in SUBSET DOMAIN w /\ \A x \in {} : w[x] # 0
    OBVIOUS
  <2>. HIDE DEF w
  <2> QED BY <1>3, <2>1, <2>2, SumCovers
<1>5. InputCount(audit, section)
        = IF FindNextPrefix(section, "MEM_BUF_LIMIT", 2) # 0
          THEN HandleAuditInputs(audit, section, 1) ELSE SumFunction(w)
  BY Zenon DEF InputCount
<1>6. ASSUME audit \/ \A line \in Range(section) : line.text # "AUDIT.LOG"
      PROVE  HandleAuditInputs(audit, section, 1) = 1
  <2>. DEFINE path == FindNextPrefix(section, "PATH", 1 + 1)
  <2>1. HandleAuditInputs(audit, section, 1)
          = IF path # 0 /\ section[path].text = "AUDIT.LOG" /\ ~audit THEN 0 ELSE 1
    BY Zenon DEF HandleAuditInputs
  <2>2. path = 0 \/ path \in DOMAIN section
    BY FoundAt
  <2>. HIDE DEF path
  <2>3. path # 0 => section[path] \in Range(section)
    BY <2>2 DEF Range
  <2> QED BY <1>6, <2>1, <2>3
<1>. HIDE DEF w
<1> QED BY <1>1, <1>4, <1>5, <1>6

\* The inputs counted are at least those that are enabled and have a limit.
LEMMA CountsCover ==
  ASSUME NEW e, NEW lines \in Seq(Written),
         NEW T \in SUBSET DOMAIN BuildSections(lines, "[INPUT]"),
         \A s \in T : LET section == BuildSections(lines, "[INPUT]")[s]
                      IN  /\ FindNextPrefix(section, "MEM_BUF_LIMIT", 2) # 0
                          /\ GetAuditEnabled(e) \/
                             \A line \in Range(section) : line.text # "AUDIT.LOG"
  PROVE  LET found == CreateMemBufLimitConfig(e, lines)
         IN  /\ found.inputs \in Nat /\ found.outputs \in Nat
             /\ Cardinality(T) \in Nat /\ Cardinality(T) <= found.inputs
<1>. DEFINE inputs == BuildSections(lines, "[INPUT]")
            outputs == BuildSections(lines, "[OUTPUT]")
            audit == GetAuditEnabled(e)
            counted == {s \in DOMAIN outputs : OutputCounts(e, outputs[s])}
            w == [s \in DOMAIN inputs |-> InputCount(audit, inputs[s])]
            found == CreateMemBufLimitConfig(e, lines)
<1>1. found.inputs = SumFunction(w) /\ found.outputs = Cardinality(counted)
  BY DEF CreateMemBufLimitConfig, CountInputs
<1>2. PICK n \in Nat : DOMAIN lines = 1..n
  BY LenProperties
<1>3. IsFiniteSet(DOMAIN lines)
  BY <1>2, FS_Interval
<1>4. DOMAIN inputs \subseteq DOMAIN lines /\ DOMAIN outputs \subseteq DOMAIN lines
  BY SectionsType
<1>5. IsFiniteSet(DOMAIN inputs) /\ IsFiniteSet(counted) /\ IsFiniteSet(T)
  <2>1. counted \subseteq DOMAIN lines /\ T \subseteq DOMAIN lines
    BY <1>4
  <2>. HIDE DEF counted, inputs
  <2> QED BY <1>3, <1>4, <2>1, FS_Subset
<1>6. \A s \in DOMAIN inputs : inputs[s] \in Seq(Written)
  BY SectionsType
<1>7. audit \in BOOLEAN
  BY DEF GetAuditEnabled
<1>8. /\ \A s \in DOMAIN inputs : InputCount(audit, inputs[s]) \in Nat
      /\ \A s \in T : InputCount(audit, inputs[s]) = 1
  <2>. HIDE DEF audit
  <2>1. \A s \in DOMAIN inputs : InputCount(audit, inputs[s]) \in Nat
    BY <1>6, <1>7, SectionCounts
  <2>2. ASSUME NEW s \in T PROVE InputCount(audit, inputs[s]) = 1
    <3>1. /\ FindNextPrefix(inputs[s], "MEM_BUF_LIMIT", 2) # 0
          /\ audit \/ \A line \in Range(inputs[s]) : line.text # "AUDIT.LOG"
      BY DEF audit
    <3>2. inputs[s] \in Seq(Written)
      BY <1>6
    <3>. HIDE DEF inputs
    <3> QED BY <1>7, <3>1, <3>2, SectionCounts
  <2> QED BY <2>1, <2>2
<1>. HIDE DEF inputs, audit, counted, found
<1>9. /\ DOMAIN w = DOMAIN inputs /\ \A s \in DOMAIN w : w[s] \in Nat
      /\ T \in SUBSET DOMAIN w /\ \A s \in T : w[s] # 0
  BY <1>8 DEF inputs
<1>. HIDE DEF w
<1>10. SumFunction(w) \in Nat /\ Cardinality(T) <= SumFunction(w)
  BY <1>5, <1>9, SumCovers
<1>11. Cardinality(counted) \in Nat /\ Cardinality(T) \in Nat
  BY <1>5, FS_CardinalityType
<1> QED BY <1>1, <1>10, <1>11 DEF found

-----------------------------------------------------------------------------
(* What a Start makes of the environment.                                  *)

\* What a Start with the files t counts, in the environment e.
FoundBy(e, t) == CreateMemBufLimitConfig(e, BuildConfigFile(e, t, GetConfigFile(e)).lines)

\* Whether it sets limits, which, and what it makes of a variable.
Limiting(e, t) ==
  /\ Getenv(e, "MEM_BUF_LIMITS_ENABLED") \in Truths
  /\ Getenv(e, "CONTAINER_LIMITS_MEMORY_MEGABYTES") \in DOMAIN MemoryOf
  /\ FoundBy(e, t).inputs + FoundBy(e, t).outputs # 0
LimitOf(e, t) ==
  ToString(CalculatePerInputMemoryLimit(
             MemoryOf[Getenv(e, "CONTAINER_LIMITS_MEMORY_MEGABYTES")],
             FoundBy(e, t).inputs, FoundBy(e, t).outputs)) \o "MB"
After(e, t, name) ==
  IF Limiting(e, t) /\ name \in FoundBy(e, t).names \ {""} THEN LimitOf(e, t)
  ELSE IF name \in Known THEN "false" ELSE Getenv(e, name)

\* Whether it ends the program.
Ends(e, t) ==
  \/ Getenv(e, "MEM_BUF_LIMITS_ENABLED") \notin Truths \cup Falsehoods \cup {""}
  \/ /\ Getenv(e, "MEM_BUF_LIMITS_ENABLED") \in Truths
     /\ Getenv(e, "CONTAINER_LIMITS_MEMORY_MEGABYTES") # ""
     /\ \/ Getenv(e, "CONTAINER_LIMITS_MEMORY_MEGABYTES") \notin DOMAIN MemoryOf
        \/ ~BuildConfigFile(e, t, GetConfigFile(e)).ok

\* All of this does not depend on the limits.
LEMMA FoundAgrees ==
  ASSUME NEW e, NEW f, Agree(e, f), NEW t, FilesOK(t)
  PROVE  /\ BuildConfigFile(e, t, GetConfigFile(e)) = BuildConfigFile(f, t, GetConfigFile(f))
         /\ FoundBy(e, t) = FoundBy(f, t)
         /\ Limiting(e, t) <=> Limiting(f, t)
         /\ LimitOf(e, t) = LimitOf(f, t)
         /\ Ends(e, t) <=> Ends(f, t)
<1>1. BuildConfigFile(e, t, GetConfigFile(e)) = BuildConfigFile(f, t, GetConfigFile(f))
  BY SettingsAgree, BuildAgrees
<1>2. BuildConfigFile(e, t, GetConfigFile(e)).lines \in Seq(Written)
  BY BuildType, ResultType
<1>3. FoundBy(e, t) = FoundBy(f, t)
  BY <1>1, <1>2, CountsAgree DEF FoundBy
<1>4. /\ Getenv(e, "MEM_BUF_LIMITS_ENABLED") = Getenv(f, "MEM_BUF_LIMITS_ENABLED")
      /\ Getenv(e, "CONTAINER_LIMITS_MEMORY_MEGABYTES")
           = Getenv(f, "CONTAINER_LIMITS_MEMORY_MEGABYTES")
  BY SettingsAgree
<1>5. Limiting(e, t) <=> Limiting(f, t)
  BY <1>3, <1>4, Zenon DEF Limiting
<1>6. LimitOf(e, t) = LimitOf(f, t)
  BY <1>3, <1>4, Zenon DEF LimitOf
<1>7. Ends(e, t) <=> Ends(f, t)
  BY <1>1, <1>4, Zenon DEF Ends
<1> QED BY <1>1, <1>3, <1>5, <1>6, <1>7

\* The variables of the limits are reset.
LEMMA ResetAgrees ==
  ASSUME NEW e
  PROVE  /\ Agree(SetMemoryBufLimitDefaults(e), e)
         /\ DOMAIN SetMemoryBufLimitDefaults(e) = Known \cup DOMAIN e
         /\ \A name : Getenv(SetMemoryBufLimitDefaults(e), name)
                        = IF name \in Known THEN "false" ELSE Getenv(e, name)
<1>. DEFINE d == [k \in Known |-> "false"]
<1>1. SetMemoryBufLimitDefaults(e) = Over(d, e)
  BY Zenon DEF SetMemoryBufLimitDefaults
<1>2. DOMAIN d = Known /\ \A name \in Known : d[name] = "false"
  OBVIOUS
<1>. HIDE DEF d
<1>3. /\ DOMAIN Over(d, e) = DOMAIN d \cup DOMAIN e
      /\ \A name : Getenv(Over(d, e), name)
                     = IF name \in DOMAIN d THEN d[name] ELSE Getenv(e, name)
  BY DEF Over, Getenv
<1>4. ASSUME NEW name
      PROVE  Getenv(SetMemoryBufLimitDefaults(e), name)
               = IF name \in Known THEN "false" ELSE Getenv(e, name)
  <2>1. Getenv(Over(d, e), name) = IF name \in DOMAIN d THEN d[name] ELSE Getenv(e, name)
    BY <1>3
  <2>2. CASE name \in Known
    BY <1>1, <1>2, <2>1, <2>2, Zenon
  <2>3. CASE name \notin Known
    BY <1>1, <1>2, <2>1, <2>3, Zenon
  <2> QED BY <2>2, <2>3, Zenon
<1> QED BY <1>1, <1>2, <1>3, <1>4 DEF Agree, LimitVariables

\* The same limit for every variable that is named.
LEMMA LimitsSet ==
  ASSUME NEW e, NEW memory, NEW found
  PROVE  LET limits == found.inputs + found.outputs # 0
             limit  == ToString(CalculatePerInputMemoryLimit(memory, found.inputs, found.outputs))
                         \o "MB"
             result == SetLimits(e, memory, found)
         IN  /\ DOMAIN e \subseteq DOMAIN result
             /\ DOMAIN result \subseteq DOMAIN e \cup (found.names \ {""})
             /\ \A name : Getenv(result, name) = IF limits /\ name \in found.names \ {""}
                                                 THEN limit ELSE Getenv(e, name)
<1>. DEFINE limit == ToString(CalculatePerInputMemoryLimit(memory, found.inputs, found.outputs))
                       \o "MB"
            S == found.names \ {""}
            new == [name \in S |-> limit]
            result == SetLimits(e, memory, found)
<1>1. CASE found.inputs + found.outputs = 0 \/ found.names = {}
  <2>1. result = e
    BY <1>1, Zenon DEF SetLimits
  <2> QED BY <1>1, <2>1
<1>2. CASE ~(found.inputs + found.outputs = 0 \/ found.names = {})
  <2>1. result = Over(new, e)
    BY <1>2, Zenon DEF SetLimits
  <2>2. DOMAIN new = S /\ \A name \in S : new[name] = limit
    BY Zenon
  <2>. HIDE DEF new, limit, result
  <2>3. /\ DOMAIN Over(new, e) = DOMAIN new \cup DOMAIN e
        /\ \A name : Getenv(Over(new, e), name)
                       = IF name \in DOMAIN new THEN new[name] ELSE Getenv(e, name)
    BY DEF Over, Getenv
  <2>4. DOMAIN result = S \cup DOMAIN e
    BY <2>1, <2>2, <2>3
  <2>5. \A name : Getenv(result, name) = IF name \in S THEN limit ELSE Getenv(e, name)
    <3> SUFFICES ASSUME NEW name
                 PROVE  Getenv(result, name) = IF name \in S THEN limit ELSE Getenv(e, name)
      OBVIOUS
    <3>1. Getenv(Over(new, e), name) = IF name \in DOMAIN new THEN new[name] ELSE Getenv(e, name)
      BY <2>3
    <3>2. CASE name \in S
      BY <2>1, <2>2, <3>1, <3>2, Zenon
    <3>3. CASE name \notin S
      BY <2>1, <2>2, <3>1, <3>3, Zenon
    <3> QED BY <3>2, <3>3, Zenon
  <2> QED BY <1>2, <2>4, <2>5 DEF limit, result
<1> QED BY <1>1, <1>2

\* What a Start does.
LEMMA StartEffect ==
  ASSUME NEW e, NEW t, FilesOK(t)
  PROVE  LET result == CheckAndEnableMemoryBufLimits(e, t)
         IN  /\ Agree(result.env, e)
             /\ DOMAIN e \subseteq DOMAIN result.env
             /\ DOMAIN result.env \subseteq DOMAIN e \cup LimitVariables
             /\ result.exit <=> Ends(e, t)
             /\ \A name : Getenv(result.env, name)
                            = IF result.exit /\ name \in Known THEN "false"
                              ELSE IF result.exit THEN Getenv(e, name) ELSE After(e, t, name)
<1>. DEFINE enabled == Getenv(e, "MEM_BUF_LIMITS_ENABLED")
            memory  == Getenv(e, "CONTAINER_LIMITS_MEMORY_MEGABYTES")
            reset   == SetMemoryBufLimitDefaults(e)
            again   == SetMemoryBufLimitDefaults(reset)
            built   == BuildConfigFile(reset, t, GetConfigFile(reset))
            found   == CreateMemBufLimitConfig(reset, built.lines)
            result  == CheckAndEnableMemoryBufLimits(e, t)
            Plain(f) == /\ Agree(f, e)
                        /\ DOMAIN f = Known \cup DOMAIN e
                        /\ \A name : Getenv(f, name)
                                       = IF name \in Known THEN "false" ELSE Getenv(e, name)
<1>1. Plain(reset)
  BY ResetAgrees
<1>2. Plain(again)
  <2>1. /\ DOMAIN again = Known \cup DOMAIN reset
        /\ \A name : Getenv(again, name) = IF name \in Known THEN "false" ELSE Getenv(reset, name)
    BY ResetAgrees
  <2>. HIDE DEF again, reset
  <2> QED BY <1>1, <2>1 DEF Agree, LimitVariables
<1>3. /\ BuildConfigFile(e, t, GetConfigFile(e)) = built
      /\ FoundBy(e, t) = found
      /\ Getenv(reset, "CONTAINER_LIMITS_MEMORY_MEGABYTES") = memory
  BY <1>1, FoundAgrees, SettingsAgree DEF FoundBy
<1>4. found.names \subseteq LimitVariables \cup {""}
  <2>1. built.lines \in Seq(Written)
    BY BuildType, ResultType
  <2>. HIDE DEF built, reset
  <2> QED BY <2>1, NamesType
<1>5. /\ enabled \in Truths => enabled \notin Falsehoods \cup {""}
      /\ memory \in DOMAIN MemoryOf => memory # ""
  BY MemLimitsAssumption DEF Truths, Falsehoods
<1>6. UpdateMemoryBufLimits(reset, t) =
        CASE memory = "" -> Keep(again)
          [] memory \notin DOMAIN MemoryOf \cup {""} -> Exit(reset)
          [] memory \in DOMAIN MemoryOf /\ ~built.ok -> Exit(reset)
          [] memory \in DOMAIN MemoryOf /\ built.ok -> Keep(SetLimits(reset, MemoryOf[memory], found))
  BY <1>3, Zenon DEF UpdateMemoryBufLimits
<1>7. result =
        CASE enabled \in Truths -> UpdateMemoryBufLimits(reset, t)
          [] enabled \in Falsehoods \cup {""} -> Keep(reset)
          [] OTHER -> Exit(reset)
  BY Zenon DEF CheckAndEnableMemoryBufLimits
<1>8. /\ Ends(e, t) <=> \/ enabled \notin Truths \cup Falsehoods \cup {""}
                        \/ /\ enabled \in Truths /\ memory # ""
                           /\ memory \notin DOMAIN MemoryOf \/ ~built.ok
      /\ Limiting(e, t) <=> /\ enabled \in Truths /\ memory \in DOMAIN MemoryOf
                            /\ found.inputs + found.outputs # 0
      /\ LimitOf(e, t) = ToString(CalculatePerInputMemoryLimit(MemoryOf[memory], found.inputs,
                                                               found.outputs)) \o "MB"
  BY <1>3, Zenon DEF Ends, Limiting, LimitOf
<1>9. \A f : Keep(f).env = f /\ ~Keep(f).exit /\ Exit(f).env = f /\ Exit(f).exit
  BY DEF Keep, Exit
<1>10. /\ \A name : After(e, t, name)
                      = IF Limiting(e, t) /\ name \in found.names \ {""} THEN LimitOf(e, t)
                        ELSE IF name \in Known THEN "false" ELSE Getenv(e, name)
  BY <1>3, Zenon DEF After
<1>. DEFINE Goal == /\ Agree(result.env, e)
                    /\ DOMAIN e \subseteq DOMAIN result.env
                    /\ DOMAIN result.env \subseteq DOMAIN e \cup LimitVariables
                    /\ result.exit <=> Ends(e, t)
                    /\ \A name : Getenv(result.env, name)
                            = IF result.exit /\ name \in Known THEN "false"
                              ELSE IF result.exit THEN Getenv(e, name) ELSE After(e, t, name)
<1>11. Known \subseteq LimitVariables
  BY DEF LimitVariables
<1>. HIDE DEF enabled, memory, reset, again, built, found, result
<1>12. CASE enabled \notin Truths \cup Falsehoods \cup {""}
  <2>1. result = Exit(reset)
    BY <1>7, <1>12
  <2> QED BY <1>1, <1>8, <1>9, <1>11, <1>12, <2>1 DEF result
<1>13. CASE enabled \in Falsehoods \cup {""}
  <2>1. result = Keep(reset) /\ enabled \notin Truths
    BY <1>5, <1>7, <1>13
  <2> QED BY <1>1, <1>8, <1>9, <1>10, <1>11, <1>13, <2>1 DEF result
<1>14. CASE enabled \in Truths /\ memory = ""
  <2>1. result = Keep(again) /\ memory \notin DOMAIN MemoryOf
    BY <1>5, <1>6, <1>7, <1>14
  <2> QED BY <1>2, <1>8, <1>9, <1>10, <1>11, <1>14, <2>1 DEF result
<1>15. CASE enabled \in Truths /\ memory # "" /\ (memory \notin DOMAIN MemoryOf \/ ~built.ok)
  <2>1. result = Exit(reset)
    BY <1>5, <1>6, <1>7, <1>15
  <2> QED BY <1>1, <1>8, <1>9, <1>11, <1>15, <2>1 DEF result
<1>16. CASE enabled \in Truths /\ memory \in DOMAIN MemoryOf /\ built.ok
  <2>. DEFINE limited == SetLimits(reset, MemoryOf[memory], found)
  <2>1. result = Keep(limited) /\ ~Ends(e, t)
    BY <1>5, <1>6, <1>7, <1>8, <1>16
  <2>2. /\ DOMAIN reset \subseteq DOMAIN limited
        /\ DOMAIN limited \subseteq DOMAIN reset \cup (found.names \ {""})
        /\ \A name : Getenv(limited, name)
             = IF found.inputs + found.outputs # 0 /\ name \in found.names \ {""}
               THEN ToString(CalculatePerInputMemoryLimit(MemoryOf[memory], found.inputs,
                                                          found.outputs)) \o "MB"
               ELSE Getenv(reset, name)
    BY LimitsSet, Zenon
  <2>. HIDE DEF limited
  <2>3. \A name : Getenv(limited, name) = After(e, t, name)
    BY <1>1, <1>8, <1>10, <1>16, <2>2
  <2>4. \A name : name \notin LimitVariables => Getenv(limited, name) = Getenv(e, name)
    BY <1>1, <1>4, <1>11, <2>2
  <2>5. result.env = limited /\ ~result.exit
    BY <1>9, <2>1
  <2>6. DOMAIN e \subseteq DOMAIN limited /\ DOMAIN limited \subseteq DOMAIN e \cup LimitVariables
    BY <1>1, <1>4, <1>11, <2>2
  <2> QED BY <2>1, <2>3, <2>4, <2>5, <2>6 DEF Agree, result
<1> QED BY <1>12, <1>13, <1>14, <1>15, <1>16

-----------------------------------------------------------------------------
(* The invariant.                                                          *)

\* No limits are ever set: they are off, or there is no memory to limit.
Unlimited(e) ==
  \/ Getenv(e, "MEM_BUF_LIMITS_ENABLED") \notin Truths
  \/ Getenv(e, "CONTAINER_LIMITS_MEMORY_MEGABYTES") \notin DOMAIN MemoryOf

\* The environment stays what was loaded, but for the limits.
LoadedKept ==
  /\ stage = "loaded" => env = loaded
  /\ stage \in {"run", "exit"} =>
       /\ config.file = GetConfigFile(env)
       /\ \A name \in (DOMAIN env \cup DOMAIN loaded) \ LimitVariables :
            Getenv(env, name) = Getenv(loaded, name)
       /\ Unlimited(loaded) =>
            \A name \in (DOMAIN env \cup DOMAIN loaded) \ Known :
              Getenv(env, name) = Getenv(loaded, name)

\* The limits are those of the last Start.
StartKept ==
  Started =>
    /\ ~Ends(loaded, given)
    /\ \A name \in Known \cup (IF Limiting(loaded, given) THEN FoundBy(loaded, given).names
                               ELSE {}) :
         Getenv(env, name) = After(loaded, given, name)

LimitsInv ==
  /\ stage \in {"walk", "buffer", "annotations", "loaded", "run", "exit"}
  /\ FilesOK(files) /\ FilesOK(given)
  /\ LoadedKept
  /\ StartKept

IInv == EnvInv /\ LimitsInv

\* A name that is not set is the same in both.
LEMMA AgreeLoaded ==
  ASSUME LoadedKept, stage \in {"run", "exit"}
  PROVE  /\ Agree(env, loaded)
         /\ Unlimited(loaded) =>
              \A name : name \notin Known => Getenv(env, name) = Getenv(loaded, name)
<1>1. \A name : name \notin DOMAIN env \cup DOMAIN loaded => Getenv(env, name) = Getenv(loaded, name)
  BY DEF Getenv
<1>2. /\ \A name \in (DOMAIN env \cup DOMAIN loaded) \ LimitVariables :
           Getenv(env, name) = Getenv(loaded, name)
      /\ Unlimited(loaded) =>
           \A name \in (DOMAIN env \cup DOMAIN loaded) \ Known :
             Getenv(env, name) = Getenv(loaded, name)
  BY DEF LoadedKept
<1> QED BY <1>1, <1>2 DEF Agree

\* What the annotations say of a variable.
Said(name) ==
  {Filed(a) : a \in {b \in Annotations \cap DOMAIN loaded :
                      VariableOf[b] = name /\ Filed(b) \notin Unsplittable}}

\* The value of a variable has precedence over the others.
Precedes(name) ==
  IF Said(name) # {} THEN Getenv(loaded, name) \in Said(name)
  ELSE IF name = "STORAGE_BUFFER_PATH"
       THEN Getenv(loaded, name) = Clean(IF Filed(name) = "" THEN "/tmp/buffer" ELSE Filed(name))
       ELSE Getenv(loaded, name) = Filed(name)

\* What was loaded keeps its precedence as long as neither it nor its sources change.
LEMMA PrecedenceStays ==
  ASSUME PrecedenceKept, loaded' = loaded, sources' = sources
  PROVE  PrecedenceKept'
<1>1. Read' = Read /\ \A name : Filed(name)' = Filed(name)
  BY SameSources
<1>2. Names = DOMAIN loaded \cup Read
  BY DEF Names, Read
<1>3. Names' = DOMAIN loaded' \cup Read'
  <2>1. (Names = DOMAIN loaded \cup Read)'
    BY DEF Names, Read
  <2> QED BY <2>1
<1>4. Names' = Names
  BY <1>1, <1>2, <1>3
<1>5. \A name : Said(name)' = Said(name)
  <2> SUFFICES ASSUME NEW name PROVE Said(name)' = Said(name)
    OBVIOUS
  <2>1. \A b : VariableOf[b] = name /\ Filed(b)' \notin Unsplittable
                <=> VariableOf[b] = name /\ Filed(b) \notin Unsplittable
    BY <1>1
  <2>2. {b \in Annotations \cap DOMAIN loaded' :
           VariableOf[b] = name /\ Filed(b)' \notin Unsplittable}
          = {b \in Annotations \cap DOMAIN loaded :
               VariableOf[b] = name /\ Filed(b) \notin Unsplittable}
    BY <2>1
  <2> QED BY <1>1, <2>2 DEF Said
<1>6. PrecedenceKept <=> (loaded # <<>> => \A name \in Names : Precedes(name))
  BY Zenon DEF PrecedenceKept, Precedes, Said
<1>7. (PrecedenceKept <=> (loaded # <<>> => \A name \in Names : Precedes(name)))'
  BY Zenon DEF PrecedenceKept, Precedes, Said
<1>8. \A name : Precedes(name)' <=> Precedes(name)
  BY <1>1, <1>5 DEF Precedes
<1> QED BY <1>4, <1>6, <1>7, <1>8

\* Nothing that happens once the environment is loaded changes what it was loaded from.
LEMMA RunKeepsEnv ==
  ASSUME EnvInv, stage \in {"loaded", "run"}, stage' \in {"run", "exit"},
         loaded' = loaded, sources' = sources, order' = order,
         DOMAIN env' \cap Annotations = DOMAIN env \cap Annotations
  PROVE  EnvInv'
<1>1. HistoryOK /\ Lists(order, DOMAIN env \cap Annotations) /\ PrecedenceKept
  BY DEF EnvInv
<1>2. HistoryOK' /\ WalkOK' /\ ReadOK'
  BY <1>1 DEF HistoryOK, WalkOK, ReadOK
<1>3. PrecedenceKept'
  BY <1>1, PrecedenceStays
<1> QED BY <1>1, <1>2, <1>3 DEF EnvInv

\* Nothing happens.
LEMMA Stuttering ==
  ASSUME IInv, UNCHANGED vars
  PROVE  IInv'
<1>1. /\ stage' = stage /\ env' = env /\ order' = order /\ config' = config
      /\ sources' = sources /\ loaded' = loaded /\ files' = files /\ given' = given
  BY DEF vars, envVars
<1>2. EnvInv /\ LimitsInv
  BY DEF IInv
<1>3. Read' = Read /\ \A name : Filed(name)' = Filed(name) /\ Buffered(name)' = Buffered(name)
  BY <1>1, SameSources
<1>4. HistoryOK' /\ Lists(order', DOMAIN env' \cap Annotations)
  BY <1>1, <1>2 DEF EnvInv, HistoryOK
<1>5. WalkOK'
  <2>. DEFINE w == sources.walk
              n == Len(w)
              Come(k) == /\ \A i \in 1..k : w[i] # Unreadable
                         /\ \/ sources'.left = SubSeq(w, k + 1, n)
                            \/ sources'.left = <<>> /\ k + 1 \in 1..n /\ w[k + 1] = Unreadable
                         /\ DOMAIN env' = DOMAIN sources.initial
                                            \cup UNION {DOMAIN w[i] : i \in 1..k}
                         /\ \A name \in DOMAIN env' :
                              env'[name] = LastSet(w, sources.initial, k, name)
  <2>1. stage # "walk" => WalkOK'
    BY <1>1 DEF WalkOK
  <2>2. stage = "walk" => \E k \in 0..n : Come(k)
    BY <1>1, <1>2 DEF EnvInv, WalkOK
  <2>3. (\E k \in 0..n : Come(k)) => WalkOK'
    BY <1>1, ZenonT(60) DEF WalkOK
  <2> QED BY <2>1, <2>2, <2>3
<1>6. ReadOK'
  BY <1>1, <1>2, <1>3 DEF EnvInv, ReadOK
<1>7. PrecedenceKept'
  BY <1>1, <1>2, PrecedenceStays DEF EnvInv
<1>8. LimitsInv'
  BY <1>1, <1>2 DEF LimitsInv, LoadedKept, StartKept, Started
<1> QED BY <1>4, <1>5, <1>6, <1>7, <1>8 DEF EnvInv, IInv

\* The program starts with files that can be written, and no limits.
LEMMA InitLimits == MemInit => LimitsInv
<1> SUFFICES ASSUME MemInit PROVE LimitsInv
  OBVIOUS
<1>1. stage = "walk" /\ given = <<>>
  BY DEF MemInit, Init
<1>2. FilesOK(files)
  BY DEF MemInit, FilesOK
<1>3. FilesOK(given)
  BY <1>1 DEF FilesOK
<1> QED BY <1>1, <1>2, <1>3 DEF LimitsInv, LoadedKept, StartKept, Started

\* While the environment is loaded, nothing has been configured or started.
LEMMA LoadKeepsLimits ==
  ASSUME HistoryOK, LimitsInv, files' = files, given' = given,
         \/ Walk \/ OverloadConfigEnv \/ SetBufferDirectory \/ ProcessCouchbaseAnnotations
  PROVE  LimitsInv'
<1>1. /\ stage \in {"walk", "buffer", "annotations"}
      /\ stage' \in {"walk", "buffer", "annotations", "loaded"}
      /\ stage' = "loaded" => env' = loaded'
  BY DEF Walk, OverloadConfigEnv, SetBufferDirectory, ProcessCouchbaseAnnotations
<1>2. given = <<>>
  BY <1>1 DEF HistoryOK
<1>3. FilesOK(files') /\ FilesOK(given')
  BY DEF LimitsInv
<1> QED BY <1>1, <1>2, <1>3 DEF LimitsInv, LoadedKept, StartKept, Started

\* The configuration.
LEMMA ConfigKeeps ==
  ASSUME IInv, NewWatcherConfigFromDefaults, files' = files, given' = given
  PROVE  IInv'
<1>1. /\ stage = "loaded" /\ stage' = "run" /\ env' = env /\ order' = order
      /\ sources' = sources /\ loaded' = loaded /\ config'.file = GetConfigFile(env)
  BY DEF NewWatcherConfigFromDefaults
<1>2. EnvInv /\ LimitsInv
  BY DEF IInv
<1>3. EnvInv'
  BY <1>1, <1>2, RunKeepsEnv
<1>4. given = <<>> /\ env = loaded
  BY <1>1, <1>2 DEF EnvInv, HistoryOK, LimitsInv, LoadedKept
<1>5. LoadedKept'
  BY <1>1, <1>4 DEF LoadedKept
<1>6. FilesOK(files') /\ FilesOK(given')
  BY <1>2 DEF LimitsInv
<1>7. LimitsInv'
  BY <1>1, <1>4, <1>5, <1>6 DEF LimitsInv, StartKept, Started
<1> QED BY <1>3, <1>7 DEF IInv

\* A Start.
LEMMA StartKeeps ==
  ASSUME IInv, StartLimits
  PROVE  IInv'
<1>. DEFINE result == CheckAndEnableMemoryBufLimits(env, files)
            after(name) == IF result.exit /\ name \in Known THEN "false"
                           ELSE IF result.exit THEN Getenv(env, name) ELSE After(env, files, name)
<1>1. /\ stage = "run" /\ stage' = IF result.exit THEN "exit" ELSE "run"
      /\ env' = result.env /\ order' = order /\ sources' = sources /\ loaded' = loaded
      /\ config' = config /\ files' = files /\ given' = files
  BY Zenon DEF StartLimits
<1>2. EnvInv /\ LimitsInv
  BY DEF IInv
<1>3. FilesOK(files) /\ LoadedKept /\ Agree(env, loaded)
  BY <1>1, <1>2, AgreeLoaded DEF LimitsInv
<1>4. /\ Agree(result.env, env)
      /\ DOMAIN env \subseteq DOMAIN result.env
      /\ DOMAIN result.env \subseteq DOMAIN env \cup LimitVariables
      /\ result.exit <=> Ends(env, files)
      /\ \A name : Getenv(result.env, name) = after(name)
  BY <1>3, StartEffect, Zenon
<1>. HIDE DEF result
<1>5. stage' \in {"run", "exit"}
  BY <1>1
<1>6. EnvInv'
  <2>1. LimitVariables \cap Annotations = {}
    BY MemLimitsAssumption
  <2>2. DOMAIN env' \cap Annotations = DOMAIN env \cap Annotations
    BY <1>1, <1>4, <2>1
  <2> QED BY <1>1, <1>2, <1>5, <2>2, RunKeepsEnv
<1>7. Agree(env', loaded')
  BY <1>1, <1>3, <1>4 DEF Agree
<1>8. /\ FoundBy(env, files) = FoundBy(loaded, files)
      /\ Limiting(env, files) <=> Limiting(loaded, files)
      /\ LimitOf(env, files) = LimitOf(loaded, files)
      /\ Ends(env, files) <=> Ends(loaded, files)
  BY <1>3, FoundAgrees
<1>9. LoadedKept'
  <2>1. GetConfigFile(env') = GetConfigFile(env) /\ config.file = GetConfigFile(env)
    BY <1>1, <1>3, <1>4, SettingsAgree DEF LoadedKept
  <2>2. \A name : name \notin LimitVariables => Getenv(env', name) = Getenv(loaded', name)
    BY <1>7 DEF Agree
  <2>3. ASSUME Unlimited(loaded), NEW name, name \notin Known
        PROVE  Getenv(env', name) = Getenv(loaded', name)
    <3>1. Getenv(env, name) = Getenv(loaded, name)
      BY <1>1, <1>3, <2>3, AgreeLoaded
    <3>2. ~Limiting(env, files)
      BY <1>8, <2>3, Zenon DEF Unlimited, Limiting
    <3>3. After(env, files, name) = Getenv(env, name)
      BY <2>3, <3>2, Zenon DEF After
    <3>4. after(name) = Getenv(env, name)
      BY <2>3, <3>3
    <3>. HIDE DEF after
    <3> QED BY <1>1, <1>4, <3>1, <3>4
  <2> QED BY <1>1, <1>5, <2>1, <2>2, <2>3 DEF LoadedKept
<1>10. StartKept'
  <2>. DEFINE N == Known \cup (IF Limiting(loaded, files) THEN FoundBy(loaded, files).names ELSE {})
  <2> SUFFICES ASSUME stage' = "run"
               PROVE  /\ ~Ends(loaded, files)
                      /\ \A name \in N : Getenv(env', name) = After(loaded, files, name)
    BY <1>1 DEF StartKept, Started
  <2>1. ~result.exit /\ ~Ends(loaded, files)
    BY <1>1, <1>4, <1>8
  <2>2. ASSUME NEW name \in N
        PROVE  Getenv(env', name) = After(loaded, files, name)
    <3>1. Getenv(env', name) = After(env, files, name)
      BY <1>1, <1>4, <2>1
    <3>2. CASE name \in Known
      BY <1>8, <3>1, <3>2, Zenon DEF After
    <3>3. CASE Limiting(loaded, files) /\ name \in FoundBy(loaded, files).names \ {""}
      BY <1>8, <3>1, <3>3, Zenon DEF After
    <3>4. CASE name = "" /\ name \notin Known
      <4>1. name \notin LimitVariables
        BY <3>4 DEF LimitVariables
      <4>2. Getenv(env, name) = Getenv(loaded, name)
        BY <1>3, <4>1 DEF Agree
      <4> QED BY <1>8, <3>1, <3>4, <4>2 DEF After
    <3> QED BY <3>2, <3>3, <3>4
  <2> QED BY <2>1, <2>2
<1>11. FilesOK(files') /\ FilesOK(given')
  BY <1>1, <1>3
<1>12. LimitsInv'
  BY <1>5, <1>9, <1>10, <1>11 DEF LimitsInv
<1> QED BY <1>6, <1>12 DEF IInv

\* A configuration file is replaced or removed.
LEMMA EditKeeps ==
  ASSUME IInv, NEW path \in DOMAIN Texts, Edit(path)
  PROVE  IInv'
<1>1. /\ stage = "run" /\ stage' = stage /\ env' = env /\ order' = order /\ config' = config
      /\ sources' = sources /\ loaded' = loaded /\ given' = given
  BY DEF Edit, envVars
<1>2. EnvInv /\ LimitsInv
  BY DEF IInv
<1>3. EnvInv'
  BY <1>1, <1>2, RunKeepsEnv
<1>4. FilesOK(files')
  <2>1. FilesOK(files)
    BY <1>2 DEF LimitsInv
  <2>2. ASSUME NEW text \in Texts[path], files' = Over([p \in {path} |-> text], files)
        PROVE  FilesOK(files')
    BY <2>1, <2>2 DEF FilesOK, Over
  <2>3. ASSUME files' = Restrict(files, DOMAIN files \ {path})
        PROVE  FilesOK(files')
    BY <2>1, <2>3 DEF FilesOK, Restrict
  <2> QED BY <2>2, <2>3 DEF Edit
<1>5. LoadedKept' /\ StartKept'
  BY <1>1, <1>2 DEF LimitsInv, LoadedKept, StartKept, Started
<1>6. LimitsInv'
  BY <1>1, <1>2, <1>4, <1>5 DEF LimitsInv
<1> QED BY <1>3, <1>6 DEF IInv

\* IInv holds initially and is kept by every step.
LEMMA Invariance == Spec => []IInv
<1>1. MemInit => IInv
  BY InitEnv, InitLimits DEF IInv
<1>2. IInv /\ [Next]_vars => IInv'
  <2> SUFFICES ASSUME IInv, [Next]_vars PROVE IInv'
    OBVIOUS
  <2>1. EnvInv /\ LimitsInv /\ HistoryOK
    BY DEF IInv, EnvInv
  <2>2. ASSUME Walk, files' = files, given' = given PROVE IInv'
    BY <2>1, <2>2, WalkKeeps, LoadKeepsLimits DEF IInv
  <2>3. ASSUME OverloadConfigEnv, files' = files, given' = given PROVE IInv'
    BY <2>1, <2>3, OverloadConfigEnvKeeps, LoadKeepsLimits DEF IInv
  <2>4. ASSUME SetBufferDirectory, files' = files, given' = given PROVE IInv'
    BY <2>1, <2>4, SetBufferDirectoryKeeps, LoadKeepsLimits DEF IInv
  <2>5. ASSUME ProcessCouchbaseAnnotations, files' = files, given' = given PROVE IInv'
    BY <2>1, <2>5, AnnotationsKeep, LoadKeepsLimits DEF IInv
  <2>6. ASSUME NewWatcherConfigFromDefaults, files' = files, given' = given PROVE IInv'
    BY <2>6, ConfigKeeps
  <2>7. CASE StartLimits
    BY <2>7, StartKeeps
  <2>8. ASSUME NEW path \in DOMAIN Texts, Edit(path) PROVE IInv'
    BY <2>8, EditKeeps
  <2>9. CASE UNCHANGED vars
    BY <2>9, Stuttering
  <2> QED BY <2>2, <2>3, <2>4, <2>5, <2>6, <2>7, <2>8, <2>9 DEF Next, LoadStep
<1> QED BY <1>1, <1>2, PTL DEF Spec

-----------------------------------------------------------------------------
(* The properties.                                                         *)

\* TypeOK holds: the order lists the annotations that are set, and the files are such
\* as can be written.
THEOREM TypeCorrect == Spec => []TypeOK
<1>1. IInv => TypeOK
  BY DEF IInv, EnvInv, LimitsInv, Lists, FilesOK, TypeOK
<1> QED BY <1>1, Invariance, PTL

\* An annotation overrides config.env, config.env the files of the walk, a later file
\* an earlier one, and all of them the initial environment (LoadEnvironment), for all
\* annotations, variables and files, and every order the walk and os.Environ have.
THEOREM PrecedenceHolds == Spec => []PrecedenceKept
<1>1. IInv => PrecedenceKept
  BY DEF IInv, EnvInv
<1> QED BY <1>1, Invariance, PTL

\* No variable that is set for a limit changes which configuration file the limits are
\* worked out from: it is the one Fluent Bit is started with (GetConfigFile).
THEOREM SeesWhatRuns == Spec => []LimitsSeeWhatRuns
<1>1. IInv => LimitsSeeWhatRuns
  <2> SUFFICES ASSUME IInv, config # <<>> PROVE Root = config.file
    BY DEF LimitsSeeWhatRuns
  <2>1. stage \in {"run", "exit"}
    BY DEF IInv, EnvInv, LimitsInv, HistoryOK
  <2> QED BY <2>1 DEF IInv, LimitsInv, LoadedKept, Root
<1> QED BY <1>1, Invariance, PTL

\* The variables of the limits: those of the sections that have one.
LEMMA NamedFound ==
  ASSUME NEW e, NEW lines
  PROVE  {LimitName(s) : s \in {t \in Range(BuildSections(lines, "[INPUT]")) :
                                  FindNextPrefix(t, "MEM_BUF_LIMIT", 2) # 0}}
           = CreateMemBufLimitConfig(e, lines).names
<1>. DEFINE inputs == BuildSections(lines, "[INPUT]")
            Has(t) == FindNextPrefix(t, "MEM_BUF_LIMIT", 2) # 0
<1>1. CreateMemBufLimitConfig(e, lines).names
        = {LimitName(inputs[s]) : s \in {r \in DOMAIN inputs : Has(inputs[r])}}
  BY DEF CreateMemBufLimitConfig
<1>2. Range(inputs) = {inputs[s] : s \in DOMAIN inputs}
  BY DEF Range
<1>. HIDE DEF inputs, Has
<1>3. {LimitName(s) : s \in {t \in Range(inputs) : Has(t)}}
        = {LimitName(inputs[s]) : s \in {r \in DOMAIN inputs : Has(inputs[r])}}
  BY <1>2
<1> QED BY <1>1, <1>3 DEF inputs, Has

\* What Fluent Bit inherits after a Start is what a first Start would have set.
LEMMA Follows ==
  ASSUME IInv, Started
  PROVE  LET first == CheckAndEnableMemoryBufLimits(loaded, given).env
             found == CreateMemBufLimitConfig(env, Lines)
             named == {LimitName(s) : s \in {t \in Range(BuildSections(Lines, "[INPUT]")) :
                                               FindNextPrefix(t, "MEM_BUF_LIMIT", 2) # 0}}
         IN  \A name \in Known \cup (IF On /\ found.inputs + found.outputs # 0
                                     THEN named ELSE {}) :
               Getenv(env, name) = Getenv(first, name)
<1>. DEFINE first == CheckAndEnableMemoryBufLimits(loaded, given).env
            found == CreateMemBufLimitConfig(env, Lines)
            named == {LimitName(s) : s \in {t \in Range(BuildSections(Lines, "[INPUT]")) :
                                              FindNextPrefix(t, "MEM_BUF_LIMIT", 2) # 0}}
<1>1. stage = "run" /\ LoadedKept /\ StartKept /\ FilesOK(given)
  BY DEF Started, IInv, LimitsInv
<1>2. /\ Agree(env, loaded)
      /\ Unlimited(loaded) =>
           \A name : name \notin Known => Getenv(env, name) = Getenv(loaded, name)
  BY <1>1, AgreeLoaded
<1>3. /\ ~Ends(loaded, given)
      /\ \A name \in Known \cup (IF Limiting(loaded, given) THEN FoundBy(loaded, given).names
                                 ELSE {}) :
           Getenv(env, name) = After(loaded, given, name)
  BY <1>1 DEF StartKept
<1>4. \A name : Getenv(first, name) = After(loaded, given, name)
  <2>. DEFINE result == CheckAndEnableMemoryBufLimits(loaded, given)
  <2>1. /\ result.exit <=> Ends(loaded, given)
        /\ \A name : Getenv(result.env, name)
                       = IF result.exit /\ name \in Known THEN "false"
                         ELSE IF result.exit THEN Getenv(loaded, name)
                         ELSE After(loaded, given, name)
    BY <1>1, StartEffect, Zenon
  <2>. HIDE DEF result
  <2>2. \A name : Getenv(result.env, name) = After(loaded, given, name)
    BY <1>3, <2>1
  <2> QED BY <2>2 DEF result
<1>5. FoundBy(env, given) = FoundBy(loaded, given)
  BY <1>1, <1>2, FoundAgrees
<1>6. found = FoundBy(env, given)
  BY DEF FoundBy, Lines, Root
<1>7. named = found.names
  BY NamedFound, Zenon
<1>8. Getenv(env, "CONTAINER_LIMITS_MEMORY_MEGABYTES")
        = Getenv(loaded, "CONTAINER_LIMITS_MEMORY_MEGABYTES")
  BY <1>2, SettingsAgree
<1>9. On <=> Getenv(loaded, "MEM_BUF_LIMITS_ENABLED") \in Truths
  BY <1>2, SettingsAgree DEF On
<1>. HIDE DEF first, found, named
<1>10. ASSUME NEW name \in named, name \notin Known, On, found.inputs + found.outputs # 0
       PROVE  Getenv(env, name) = Getenv(first, name)
  <2>1. CASE Getenv(loaded, "CONTAINER_LIMITS_MEMORY_MEGABYTES") \in DOMAIN MemoryOf
    <3>1. Limiting(loaded, given)
      BY <1>5, <1>6, <1>9, <1>10, <2>1, Zenon DEF Limiting
    <3> QED BY <1>3, <1>4, <1>5, <1>6, <1>7, <1>10, <3>1
  <2>2. CASE Getenv(loaded, "CONTAINER_LIMITS_MEMORY_MEGABYTES") \notin DOMAIN MemoryOf
    <3>1. Unlimited(loaded) /\ ~Limiting(loaded, given)
      BY <2>2, Zenon DEF Unlimited, Limiting
    <3>2. After(loaded, given, name) = Getenv(loaded, name)
      BY <1>10, <3>1, Zenon DEF After
    <3> QED BY <1>2, <1>4, <1>10, <3>1, <3>2
  <2> QED BY <2>1, <2>2
<1>11. \A name \in Known : Getenv(env, name) = Getenv(first, name)
  BY <1>3, <1>4
<1>12. \A name \in Known \cup (IF On /\ found.inputs + found.outputs # 0 THEN named ELSE {}) :
         Getenv(env, name) = Getenv(first, name)
  BY <1>10, <1>11
<1> QED BY <1>12 DEF first, found, named

\* After every Start the variables of the limits are what the first Fluent Bit would
\* have got from the same files, whatever was started before, and no other variable is
\* ever changed (checkAndEnableMemoryBufLimits, updateMemoryBufLimits).
THEOREM FollowsConfig == Spec => []LimitsFollowConfig
<1>1. IInv => LimitsFollowConfig
  <2> SUFFICES ASSUME IInv PROVE LimitsFollowConfig
    OBVIOUS
  <2>1. ASSUME loaded # <<>>
        PROVE  \A name \in (DOMAIN env \cup DOMAIN loaded) \ LimitVariables :
                 Getenv(env, name) = Getenv(loaded, name)
    <3>1. stage \in {"loaded", "run", "exit"} /\ LoadedKept
      BY <2>1 DEF IInv, EnvInv, LimitsInv, HistoryOK
    <3> QED BY <3>1 DEF LoadedKept
  <2> QED BY <2>1, Follows, Zenon DEF LimitsFollowConfig
<1> QED BY <1>1, Invariance, PTL

\* The sections of the last Start that are enabled and have a variable for a limit.
Limited ==
  LET inputs == BuildSections(Lines, "[INPUT]")
  IN  {s \in DOMAIN inputs :
         /\ \E line \in Range(inputs[s]) : line.kind = "MEM_BUF_LIMIT"
         /\ \A line \in Range(inputs[s]) : line.kind = "MEM_BUF_LIMIT" => line.var # ""
         /\ GetAuditEnabled(env) \/ \A line \in Range(inputs[s]) : line.text # "AUDIT.LOG"}

\* Each of them counts, and sets the limit.
LEMMA LimitedFound ==
  ASSUME Lines \in Seq(Written), NEW s \in Limited
  PROVE  LET section == BuildSections(Lines, "[INPUT]")[s]
         IN  /\ s \in DOMAIN BuildSections(Lines, "[INPUT]")
             /\ FindNextPrefix(section, "MEM_BUF_LIMIT", 2) # 0
             /\ LimitName(section) # ""
             /\ GetAuditEnabled(env) \/ \A line \in Range(section) : line.text # "AUDIT.LOG"
<1>. DEFINE inputs == BuildSections(Lines, "[INPUT]")
            section == inputs[s]
            at == FindNextPrefix(section, "MEM_BUF_LIMIT", 2)
<1>1. /\ s \in DOMAIN inputs
      /\ \E line \in Range(section) : line.kind = "MEM_BUF_LIMIT"
      /\ \A line \in Range(section) : line.kind = "MEM_BUF_LIMIT" => line.var # ""
      /\ GetAuditEnabled(env) \/ \A line \in Range(section) : line.text # "AUDIT.LOG"
  BY DEF Limited
<1>2. /\ s \in DOMAIN Lines /\ Lines[s].kind = "[INPUT]"
      /\ section = ExtractSection(Lines, s)
  BY <1>1 DEF BuildSections
<1>. HIDE DEF section, inputs
<1>3. section \in Seq(Written)
  BY <1>2, SectionType
<1>4. section[1] = Lines[s] /\ \A i \in DOMAIN section \ {1} : section[i].kind \notin Headers
  BY <1>2, SectionBody
<1>5. PICK k \in DOMAIN section : section[k].kind = "MEM_BUF_LIMIT"
  BY <1>1 DEF Range
<1>6. at # 0
  BY <1>2, <1>3, <1>4, <1>5, LimitFound DEF Headers
<1>7. at \in DOMAIN section /\ section[at].kind = "MEM_BUF_LIMIT"
  <2>1. 2 \in Nat \ {0}
    OBVIOUS
  <2> QED BY <1>3, <1>6, <2>1, FoundAt
<1>8. LimitName(section) = section[at].var
  BY Zenon DEF LimitName
<1>9. section[at].var # ""
  BY <1>1, <1>7 DEF Range
<1> QED BY <1>1, <1>6, <1>8, <1>9 DEF section, inputs

\* The limit of no more buffers than are counted.
LEMMA ShareFits ==
  ASSUME NEW memory \in Nat, NEW inputs \in Nat, NEW outputs \in Nat, inputs + outputs # 0,
         NEW c \in Nat, c <= inputs
  PROVE  LET limit == CalculatePerInputMemoryLimit(memory, inputs, outputs)
         IN  limit \in 0..memory /\ limit * c <= memory
<1>. DEFINE d == (12 * (inputs + 2 * outputs)) \div 10
            limit == CalculatePerInputMemoryLimit(memory, inputs, outputs)
<1>1. d \in Nat /\ d > 0
  BY DivisorCovers
<1>2. limit \in Nat /\ limit * inputs <= memory
  BY LimitsFit
<1>3. limit = memory \div d
  BY DEF CalculatePerInputMemoryLimit
<1>. HIDE DEF d, limit
<1>4. d * limit <= memory
  BY <1>1, <1>3, Quotient
<1>5. limit * 1 <= d * limit
  BY <1>1, <1>2, Scaled
<1>6. limit * c <= inputs * limit
  BY <1>2, Scaled
<1>7. d * limit \in Nat /\ inputs * limit \in Nat /\ limit * c \in Nat /\ limit * 1 = limit
      /\ inputs * limit = limit * inputs
  BY <1>1, <1>2
<1>8. limit <= memory /\ limit * c <= memory
  BY <1>2, <1>4, <1>5, <1>6, <1>7
<1> QED BY <1>2, <1>8 DEF limit

\* The buffers fit after a Start.
LEMMA Fits ==
  ASSUME IInv, Started, On, Memory \in DOMAIN MemoryOf
  PROVE  \E n \in 0..MemoryOf[Memory] :
           /\ \A s \in Limited :
                Getenv(env, LimitName(BuildSections(Lines, "[INPUT]")[s])) = ToString(n) \o "MB"
           /\ n * Cardinality(Limited) <= MemoryOf[Memory]
<1>. DEFINE inputs == BuildSections(Lines, "[INPUT]")
            found == CreateMemBufLimitConfig(env, Lines)
            memory == MemoryOf[Memory]
            limit == CalculatePerInputMemoryLimit(memory, found.inputs, found.outputs)
<1>1. stage = "run" /\ LoadedKept /\ StartKept /\ FilesOK(given)
  BY DEF Started, IInv, LimitsInv
<1>2. Agree(env, loaded)
  BY <1>1, AgreeLoaded
<1>3. found = FoundBy(env, given) /\ Lines \in Seq(Written)
  BY <1>1, BuildType, ResultType DEF FoundBy, Lines, Root
<1>4. memory \in Nat
  BY MemLimitsAssumption
<1>5. /\ found.inputs \in Nat /\ found.outputs \in Nat
      /\ Cardinality(Limited) \in Nat /\ Cardinality(Limited) <= found.inputs
  <2>1. Limited \in SUBSET DOMAIN inputs
    BY DEF Limited
  <2>2. \A s \in Limited :
          /\ FindNextPrefix(inputs[s], "MEM_BUF_LIMIT", 2) # 0
          /\ GetAuditEnabled(env) \/ \A line \in Range(inputs[s]) : line.text # "AUDIT.LOG"
    BY <1>3, LimitedFound
  <2> QED BY ONLY <1>3, <2>1, <2>2, CountsCover
<1>6. CASE found.inputs + found.outputs = 0
  <2>. HIDE DEF found, memory
  <2>1. Cardinality(Limited) = 0
    BY <1>5, <1>6
  <2>2. IsFiniteSet(Limited)
    <3>1. PICK m \in Nat : DOMAIN Lines = 1..m
      BY <1>3, LenProperties
    <3>2. Limited \subseteq DOMAIN inputs /\ DOMAIN inputs \subseteq DOMAIN Lines
      BY <1>3, SectionsType DEF Limited
    <3>3. IsFiniteSet(DOMAIN Lines)
      BY <3>1, FS_Interval
    <3>. HIDE DEF inputs
    <3> QED BY <3>2, <3>3, FS_Subset
  <2>3. Limited = {}
    BY <2>1, <2>2, FS_EmptySet
  <2>4. 0 \in 0..memory /\ 0 * Cardinality(Limited) <= memory
    BY <1>4, <2>1
  <2> QED BY <2>3, <2>4 DEF memory
<1>7. CASE found.inputs + found.outputs # 0
  <2>1. limit \in 0..memory /\ limit * Cardinality(Limited) <= memory
    <3>. HIDE DEF found, memory
    <3> QED BY <1>4, <1>5, <1>7, ShareFits
  <2>2. Limiting(env, given) /\ LimitOf(env, given) = ToString(limit) \o "MB"
    BY <1>3, <1>7, Zenon DEF Limiting, LimitOf, On, Memory
  <2>3. /\ Limiting(loaded, given) /\ LimitOf(loaded, given) = LimitOf(env, given)
        /\ FoundBy(loaded, given) = FoundBy(env, given)
    BY <1>1, <1>2, <2>2, FoundAgrees
  <2>4. ASSUME NEW s \in Limited
        PROVE  Getenv(env, LimitName(inputs[s])) = ToString(limit) \o "MB"
    <3>. DEFINE name == LimitName(inputs[s])
    <3>1. name \in found.names /\ name # ""
      BY <1>3, LimitedFound DEF CreateMemBufLimitConfig
    <3>. HIDE DEF name, found, limit
    <3>2. name \in FoundBy(loaded, given).names
      BY <1>3, <2>3, <3>1
    <3>3. Getenv(env, name) = After(loaded, given, name)
      BY <1>1, <2>3, <3>2 DEF StartKept
    <3>4. After(loaded, given, name) = LimitOf(loaded, given)
      BY <2>3, <3>1, <3>2, Zenon DEF After
    <3> QED BY <2>2, <2>3, <3>3, <3>4 DEF name
  <2>. HIDE DEF limit
  <2> QED BY <2>1, <2>4
<1> QED BY <1>6, <1>7

\* The buffers of the inputs that are enabled and have a limit fit into the container's
\* memory together, however many inputs and outputs are counted besides, whatever they
\* include, and whatever the environment holds (createMemBufLimitConfig,
\* calculatePerInputMemoryLimit).
THEOREM BuffersAlwaysFit == Spec => []BuffersFit
<1>1. IInv => BuffersFit
  BY Fits, Zenon DEF BuffersFit, Limited
<1> QED BY <1>1, Invariance, PTL

\* The configuration is built exactly if its files, the root first, can be put in an
\* order in which each includes only later ones, whatever the files are.
THEOREM IncludesAreFollowed == Spec => []IncludesFollowed
<1>1. IInv => IncludesFollowed
  <2> SUFFICES ASSUME IInv PROVE IncludesFollowed
    OBVIOUS
  <2>1. FilesOK(files)
    BY DEF IInv, LimitsInv
  <2>2. BuildConfigFile(env, files, Root).ok
          <=> \E used \in SUBSET DOMAIN files : \E s \in SetToSeqs(used \ {Root}) :
                InOrder(env, files, Root, used, s)
    BY <2>1, WholeOrNot
  <2> QED BY <2>2, Zenon DEF IncludesFollowed, InOrder, Named, Includes
<1> QED BY <1>1, Invariance, PTL

-----------------------------------------------------------------------------
(* The watched directories.                                                *)

\* What is set in one of the sources is among the values.
LEMMA ValuesSet ==
  /\ \A e \in Initials : \A name \in DOMAIN e : e[name] \in Values
  /\ \A walk \in Walks : \A entry \in Range(walk) \ {Unreadable} :
       \A name \in DOMAIN entry : entry[name] \in Values
  /\ \A f \in ConfigEnvs : \A dir \in DOMAIN f :
       \A name \in DOMAIN f[dir] : f[dir][name] \in Values
<1>1. \A f : \A x \in DOMAIN f : f[x] \in Range(f)
  BY Zenon DEF Range
<1>2. ASSUME NEW e \in Sources, NEW name \in DOMAIN e PROVE e[name] \in Values
  BY <1>1, <1>2 DEF Values
<1>3. /\ \A e \in Initials : e \in Sources
      /\ \A walk \in Walks : \A entry \in Range(walk) \ {Unreadable} : entry \in Sources
      /\ \A f \in ConfigEnvs : \A dir \in DOMAIN f : f[dir] \in Sources
  BY <1>1 DEF Sources
<1> QED BY <1>2, <1>3

\* A part of a walk sets what an entry of the walk, or the initial environment, holds.
LEMMA LastSetValue ==
  ASSUME HistoryOK, NEW name, NEW k \in 0..Len(sources.walk),
         \A i \in 1..k : sources.walk[i] # Unreadable
  PROVE  LastSet(sources.walk, sources.initial, k, name) \in Values \cup {""}
<1>. DEFINE w == sources.walk
            n == Len(w)
            value(j) == LastSet(w, sources.initial, j, name)
            S == {j \in Nat : j <= k => value(j) \in Values \cup {""}}
<1>1. n \in Nat /\ DOMAIN w = 1..n /\ w \in Walks /\ sources.initial \in Initials
  BY WalkType DEF HistoryOK
<1>0. k \in Nat /\ k <= n
  BY <1>1
<1>2. Getenv(sources.initial, name) \in Values \cup {""}
  BY <1>1, ValuesSet DEF Getenv
<1>3. 0 \in S
  <2>1. value(0) = Getenv(sources.initial, name)
    BY LastSetNone
  <2>. HIDE DEF value
  <2> QED BY <1>2, <2>1
<1>4. ASSUME NEW j \in S PROVE j + 1 \in S
  <2>0. j \in Nat /\ (j <= k => value(j) \in Values \cup {""})
    OBVIOUS
  <2>1. value(j + 1) = IF name \in DOMAIN w[j + 1] THEN w[j + 1][name] ELSE value(j)
    BY <2>0, LastSetNext
  <2>. HIDE DEF value, w, n, S
  <2>2. ASSUME j + 1 <= k, name \in DOMAIN w[j + 1] PROVE w[j + 1][name] \in Values
    <3>1. j + 1 \in 1..k /\ j + 1 \in DOMAIN w
      <4>1. \A a, b, c \in Nat : a + 1 <= b /\ b <= c => a + 1 \in 1..b /\ a + 1 \in 1..c
        OBVIOUS
      <4> QED BY <1>0, <1>1, <2>0, <2>2, <4>1
    <3>2. w[j + 1] \in Range(w) \ {Unreadable}
      BY <3>1 DEF Range, w
    <3> QED BY <1>1, <2>2, <3>2, ValuesSet
  <2>3. j + 1 \in Nat /\ (j + 1 <= k => j <= k)
    <3>1. \A a, b \in Nat : a + 1 \in Nat /\ (a + 1 <= b => a <= b)
      OBVIOUS
    <3> QED BY <1>0, <2>0, <3>1
  <2>4. j + 1 <= k => value(j + 1) \in Values \cup {""}
    BY <2>0, <2>1, <2>2, <2>3
  <2> QED BY <2>3, <2>4 DEF S
<1>5. S = Nat
  <2>1. S \in SUBSET Nat
    OBVIOUS
  <2>. HIDE DEF S
  <2> QED BY <1>3, <1>4, <2>1, Upwards
<1>6. k \in S /\ k <= k
  <2>. HIDE DEF S
  <2> QED BY <1>0, <1>5
<1>. HIDE DEF value
<1>7. value(k) \in Values \cup {""}
  BY <1>6
<1> QED BY <1>7 DEF value

\* What the files say is what one of them, or the initial environment, holds.
LEMMA FiledValue ==
  ASSUME HistoryOK, NEW name
  PROVE  Filed(name) \in Values \cup {""}
<1>. DEFINE w == sources.walk
            n == Len(w)
            bad == {i \in 1..n : w[i] = Unreadable}
<1>1. n \in Nat /\ DOMAIN w = 1..n /\ w \in Seq(Range(w))
  BY WalkType
<1>2. PICK k \in 0..n : /\ \A i \in 1..k : w[i] # Unreadable
                        /\ k = n \/ (k + 1 \in 1..n /\ w[k + 1] = Unreadable)
  <2>1. CASE bad = {}
    BY <1>1, <2>1
  <2>2. CASE bad # {}
    <3>1. bad \in SUBSET Nat
      BY <1>1
    <3>2. PICK m \in bad : \A b \in bad : m <= b
      <4>. HIDE DEF bad
      <4> QED BY <2>2, <3>1, Least
    <3>3. m \in 1..n /\ w[m] = Unreadable /\ m - 1 \in 0..n /\ (m - 1) + 1 = m
      BY <1>1, <3>2
    <3>4. ASSUME NEW i \in 1..(m - 1) PROVE w[i] # Unreadable
      <4>1. i \in 1..n /\ ~(m <= i)
        BY <1>1, <3>3
      <4> QED BY <3>2, <4>1
    <3>. HIDE DEF bad, w, n
    <3> QED BY <3>3, <3>4
  <2> QED BY <2>1, <2>2
<1>3. Walked(name) = LastSet(w, sources.initial, k, name)
  <2>1. \/ SubSeq(w, k + 1, n) = <<>>
        \/ k + 1 \in 1..n /\ w[k + 1] = Unreadable
    <3>1. k = n => SubSeq(w, k + 1, n) = <<>>
      BY <1>1, SubSeqEmpty
    <3> QED BY <1>2, <3>1
  <2> QED BY <1>2, <2>1, ReadableTo
<1>4. Walked(name) \in Values \cup {""}
  BY <1>2, <1>3, LastSetValue
<1>5. name \in DOMAIN ConfigEnv => ConfigEnv[name] \in Values
  <2> SUFFICES ASSUME name \in DOMAIN ConfigEnv PROVE ConfigEnv[name] \in Values
    OBVIOUS
  <2>1. ConfigEnv = <<>> \/ \E dir \in DOMAIN sources.files : ConfigEnv = sources.files[dir]
    BY Zenon DEF ConfigEnv
  <2>2. PICK dir \in DOMAIN sources.files : ConfigEnv = sources.files[dir]
    <3>1. DOMAIN <<>> = {}
      OBVIOUS
    <3> QED BY <2>1, <3>1
  <2>3. sources.files \in ConfigEnvs
    BY DEF HistoryOK
  <2> QED BY <2>2, <2>3, ValuesSet
<1> QED BY <1>4, <1>5 DEF Filed

\* A variable is not set, or to a value somebody has set.
LEMMA LoadedValue ==
  ASSUME EnvInv, loaded # <<>>, NEW name, name # "STORAGE_BUFFER_PATH"
  PROVE  Getenv(loaded, name) \in Values \cup {""}
<1>1. HistoryOK /\ PrecedenceKept
  BY DEF EnvInv
<1>2. CASE name \notin Names
  <2>1. name \notin DOMAIN loaded
    BY <1>2 DEF Names
  <2> QED BY <2>1 DEF Getenv
<1>3. CASE name \in Names
  <2>1. Precedes(name)
    BY <1>1, <1>3, Zenon DEF PrecedenceKept, Precedes, Said
  <2>2. \A v \in Said(name) : v \in Values \cup {""}
    BY <1>1, FiledValue DEF Said
  <2> QED BY <1>1, <2>1, <2>2, FiledValue DEF Precedes
<1> QED BY <1>2, <1>3

\* A directory that is configured, or not, is not the current one.
LEMMA NotCurrent ==
  ASSUME NoneIsCurrent, EnvInv, loaded # <<>>, NEW name, name # "STORAGE_BUFFER_PATH",
         NEW default \in Defaults
  PROVE  /\ GetDirectory(loaded, default, name) # "."
         /\ GetDirectory(loaded, default, name) \o "/rebalance" # "."
<1>1. default \in Values /\ default # ""
  BY DEF Values, Defaults
<1>2. Getenv(loaded, name) \in Values \cup {""}
  BY LoadedValue
<1> QED BY <1>1, <1>2 DEF GetDirectory, NoneIsCurrent

\* No step makes the current directory one that is watched.
LEMMA WatchedKept ==
  ASSUME NoneIsCurrent, IInv, NoWatchOfCurrentDir, [Next]_vars
  PROVE  NoWatchOfCurrentDir'
<1>1. CASE config' = config
  BY <1>1 DEF NoWatchOfCurrentDir
<1>2. CASE NewWatcherConfigFromDefaults
  <2>1. /\ config'.configs = GetDynamicConfigDir(env)
        /\ config'.logs = GetLogsDir(env)
        /\ config'.reports = GetRebalanceReportDir(env)
        /\ config'.certs = Optional(GetTLSCertsDir(env))
        /\ stage = "loaded"
    BY <1>2 DEF NewWatcherConfigFromDefaults
  <2>2. EnvInv /\ env = loaded
    BY <2>1 DEF IInv, LimitsInv, LoadedKept
  <2>3. CASE loaded = <<>>
    <3>1. \A name : Getenv(env, name) = ""
      BY <2>2, <2>3 DEF Getenv
    <3>2. \A default \in Defaults : default \in Values /\ default # ""
      BY DEF Values, Defaults
    <3>3. \A default \in Defaults : Clean(default) # "." /\ Clean(default) \o "/rebalance" # "."
      BY <3>2 DEF NoneIsCurrent
    <3>4. ASSUME NEW name, NEW default \in Defaults
          PROVE  GetDirectory(env, default, name) = Clean(default)
      BY <3>1 DEF GetDirectory
    <3>5. /\ GetDynamicConfigDir(env) # "." /\ GetLogsDir(env) # "."
          /\ GetRebalanceReportDir(env) # "." /\ Optional(GetTLSCertsDir(env)) # "."
      BY <3>1, <3>3, <3>4
      DEF GetDynamicConfigDir, GetLogsDir, GetRebalanceReportDir, GetTLSCertsDir, Optional,
          Defaults
    <3> QED BY <2>1, <3>5 DEF NoWatchOfCurrentDir
  <2>4. CASE loaded # <<>>
    <3>1. GetDynamicConfigDir(env) # "."
      <4>1. "/fluent-bit/config" \in Defaults
        BY DEF Defaults
      <4>2. "COUCHBASE_LOGS_DYNAMIC_CONFIG" # "STORAGE_BUFFER_PATH"
        OBVIOUS
      <4> QED BY <2>2, <2>4, <4>1, <4>2, NotCurrent DEF GetDynamicConfigDir
    <3>2. GetLogsDir(env) # "." /\ GetRebalanceReportDir(env) # "."
      <4>1. "/opt/couchbase/var/lib/couchbase/logs/" \in Defaults
        BY DEF Defaults
      <4>2. "COUCHBASE_LOGS" # "STORAGE_BUFFER_PATH"
        OBVIOUS
      <4> QED BY <2>2, <2>4, <4>1, <4>2, NotCurrent DEF GetLogsDir, GetRebalanceReportDir
    <3>3. Optional(GetTLSCertsDir(env)) # "."
      <4>1. "COUCHBASE_LOGS_TLS_CERTS" # "STORAGE_BUFFER_PATH"
        OBVIOUS
      <4>2. GetTLSCertsDir(env) \in Values \cup {""}
        BY <2>2, <2>4, <4>1, LoadedValue DEF GetTLSCertsDir
      <4> QED BY <4>2 DEF Optional, NoneIsCurrent
    <3> QED BY <2>1, <3>1, <3>2, <3>3 DEF NoWatchOfCurrentDir
  <2> QED BY <2>3, <2>4
<1>3. config' = config \/ NewWatcherConfigFromDefaults
  BY DEF Next, LoadStep, Walk, OverloadConfigEnv, SetBufferDirectory,
         ProcessCouchbaseAnnotations, StartLimits, Edit, envVars, vars
<1> QED BY <1>1, <1>2, <1>3

\* Unless somebody asks for it, the program never watches the directory it runs in: what
\* is not configured gets its default, or is left out, in whatever file, annotation or
\* variable it could have been (GetDirectory, GetTLSCertsDir, LoadEnvironment).
THEOREM CurrentDirUnwatched ==
  ASSUME NoneIsCurrent
  PROVE  Spec => []NoWatchOfCurrentDir
<1>1. MemInit => NoWatchOfCurrentDir
  BY DEF MemInit, Init, NoWatchOfCurrentDir
<1>2. IInv /\ NoWatchOfCurrentDir /\ [Next]_vars => NoWatchOfCurrentDir'
  BY WatchedKept
<1> QED BY <1>1, <1>2, Invariance, PTL DEF Spec
=============================================================================
