--------------------------- MODULE RebalanceProofs ---------------------------
(***************************************************************************)
(* Proofs about Rebalance, for any sets of files and any number of         *)
(* restarts: its type invariant, that no file is copied twice, that a      *)
(* report the watcher knows of is not lost, that one file of the log       *)
(* directory at most is taken for a report, that a watcher without a watch *)
(* stays without one, and that it implements ReportCopies.                 *)
(***************************************************************************)
EXTENDS Rebalance, FiniteSetTheorems, SequenceTheorems, TLAPS

Events == [watch : {"log", "dir"}, file : Copyable \cup {Dir}]

\* Files are copied once they exist, and the reports are in the directory.
FilesInv ==
  /\ \A r \in Reports : r \in exists => Dir \in exists
  /\ \A f \in Copyable : copies[f] <= 1 /\ (copies[f] > 0 => f \in exists)

\* An event is for a file that exists and has not been copied; there is one per file;
\* those for reports, and only those, come from the watch of the directory.
QueueInv ==
  /\ \A i \in 1..Len(queue) :
       /\ queue[i].file \in exists
       /\ queue[i].file \in Copyable => copies[queue[i].file] = 0
       /\ queue[i].file \in Reports => "dir" \in watching /\ queue[i].watch = "dir"
       /\ queue[i].file \notin Reports => queue[i].watch # "dir"
  /\ \A i, j \in 1..Len(queue) : queue[i].file = queue[j].file => i = j

\* What is listed has not been copied, and is copied before anything else happens.
TodoInv ==
  /\ todo \subseteq exists
  /\ \A r \in todo : copies[r] = 0
  /\ todo # {} => pc \in {"existing", "copying"}

\* The directory is listed only as long as no report has been copied, and watched only
\* after that.
PhaseInv ==
  /\ "dir" \in watching => found /\ pc \in {"idle", "done"}
  /\ pc \in {"remove", "list", "existing"} => ~found /\ Dir \in exists
  /\ pc \in {"stat", "watch", "once", "copying", "exit"} => watching = {} /\ queue = <<>>
  /\ pc \in {"stat", "once", "copying", "exit"} => found
  /\ found /\ pc \in {"watch", "idle", "done"} => Dir \in exists
  /\ (~found /\ pc # "existing") \/ pc = "once" => \A r \in Reports : copies[r] = 0

CoreInv == TypeOK /\ FilesInv /\ QueueInv /\ TodoInv /\ PhaseInv

\* The file of the log directory that is, or will be, taken for a report.
Stray(f) == copies[f] > 0 \/ \E i \in 1..Len(queue) : queue[i] = Event("log", f)

\* There is one of them, once the watch of the log directory has been removed.
Switched == pc \in {"list", "existing"} \/ (found /\ pc \in {"idle", "done"})
StrayInv ==
  /\ \A f, g \in LogFiles : copies[f] > 0 /\ copies[g] > 0 => f = g
  /\ \A f \in LogFiles : copies[f] > 0 => Dir \in exists
  /\ ~found /\ ~Switched => \A f \in LogFiles : copies[f] = 0
  /\ Switched => /\ "log" \notin watching
                 /\ \A f, g \in LogFiles : Stray(f) /\ Stray(g) => f = g

\* As long as the directory has not been found, the log directory is watched.
BlindInv == pc = "idle" /\ ~found => watching # {}

IInv == CoreInv /\ NoticedIsHandled /\ StrayInv /\ BlindInv

-----------------------------------------------------------------------------
\* Receiving takes the first event away.
LEMMA Pop ==
  ASSUME queue \in Seq(Events), NEW e, Received(e)
  PROVE  /\ e \in Events /\ e = queue[1] /\ 1 \in 1..Len(queue)
         /\ queue' \in Seq(Events) /\ Len(queue') = Len(queue) - 1
         /\ \A i \in 1..Len(queue') : i + 1 \in 1..Len(queue) /\ queue'[i] = queue[i + 1]
<1>. DEFINE S == Events
<1>1. queue \in Seq(S) /\ queue # <<>> /\ queue' = Tail(queue) /\ e = Head(queue)
  BY DEF Received
<1>. HIDE DEF S
<1>2. /\ Len(queue) \in Nat /\ Len(queue) > 0 /\ Tail(queue) \in Seq(S)
      /\ Head(queue) = queue[1] /\ Head(queue) \in S
      /\ Len(Tail(queue)) = Len(queue) - 1
      /\ \A i \in 1..Len(Tail(queue)) : Tail(queue)[i] = queue[i + 1]
  BY <1>1
<1> QED BY <1>1, <1>2 DEF S

\* Creating a file may add an event at the end.
LEMMA Push ==
  ASSUME queue \in Seq(Events), NEW f \in Copyable \cup {Dir}, NEW w \in {"log", "dir"},
         Create(f, w)
  PROVE  /\ queue' \in Seq(Events) /\ Len(queue) \in Nat
         /\ Len(queue') = IF w \in watching THEN Len(queue) + 1 ELSE Len(queue)
         /\ \A i \in 1..Len(queue) : queue'[i] = queue[i]
         /\ w \in watching => queue'[Len(queue) + 1] = Event(w, f)
<1>1. Event(w, f) \in Events
  BY DEF Event, Events
<1>. DEFINE S == Events
           e == Event(w, f)
<1>2. queue \in Seq(S) /\ e \in S /\ queue' = IF w \in watching THEN Append(queue, e) ELSE queue
  BY <1>1 DEF Create
<1>. HIDE DEF S, e
<1>3. /\ Append(queue, e) \in Seq(S) /\ Len(queue) \in Nat
      /\ Len(Append(queue, e)) = Len(queue) + 1
      /\ \A i \in 1..Len(queue) : Append(queue, e)[i] = queue[i]
      /\ Append(queue, e)[Len(queue) + 1] = e
  BY <1>2
<1> QED BY <1>2, <1>3 DEF S, e

\* Removing the watch leaves the first event at most.
LEMMA Truncated ==
  ASSUME queue \in Seq(Events), NEW sending \in 0..1, RemoveWatch(sending)
  PROVE  /\ queue' \in Seq(Events) /\ Len(queue') \in Nat /\ Len(queue') <= Len(queue)
         /\ \A i \in 1..Len(queue') : i = 1 /\ queue'[i] = queue[i]
<1>. DEFINE S == Events
<1>1. queue \in Seq(S) /\ sending <= Len(queue) /\ queue' = SubSeq(queue, 1, sending)
  BY DEF RemoveWatch
<1>. HIDE DEF S
<1>2. Len(queue) \in Nat /\ \A i \in 1..sending : queue[i] \in S
  BY <1>1
<1>3. /\ SubSeq(queue, 1, sending) \in Seq(S)
      /\ Len(SubSeq(queue, 1, sending)) = sending
      /\ \A i \in 1..sending : SubSeq(queue, 1, sending)[i] = queue[i]
  BY <1>2, SubSeqProperties
<1> QED BY <1>1, <1>2, <1>3 DEF S

\* The steps of the program and of Couchbase Server.
LEMMA NextCases ==
  ASSUME [Next]_vars, NEW G,
         Stat \/ ListExisting \/ ListOnce \/ AddWatch \/ ExitOnce \/ Return => G,
         FirstWatch => G, Restart => G, UNCHANGED vars => G,
         queue # <<>> /\ HandleFile(Head(queue)) => G,
         queue # <<>> /\ HandleDirectory(Head(queue)) => G,
         \A sending \in 0..1 : RemoveWatch(sending) => G,
         \A f \in Reports : CopyExisting(f) \/ CreateReport(f) => G,
         CreateInLogs => G
  PROVE  G
BY DEF Next, Actor, Server

-----------------------------------------------------------------------------
\* What ProcessFile does to the copies.
LEMMA OneCopy ==
  ASSUME copies \in [Copyable -> Nat], NEW f \in Copyable, failed \subseteq Copyable \cup {Dir},
         NEW given \in SUBSET Copyable, Copy(f) \/ Fail(f, given)
  PROVE  /\ copies' \in [Copyable -> Nat]
         /\ failed \subseteq failed' /\ failed' \subseteq Copyable \cup {Dir}
         /\ \A g \in Copyable : g # f => copies'[g] = copies[g]
         /\ copies'[f] \in {copies[f], copies[f] + 1}
         /\ copies'[f] = copies[f] + 1 \/ given \subseteq failed'
BY DEF Copy, Copied, Fail

\* rebalanceFileHandler.
LEMMA OneEvent ==
  ASSUME CoreInv, queue # <<>>, NEW e, e = Head(queue), HandleFile(e)
  PROVE  /\ copies' \in [Copyable -> Nat]
         /\ failed \subseteq failed' /\ failed' \subseteq Copyable \cup {Dir}
         /\ \A g \in Copyable : g # e.file => copies'[g] = copies[g]
         /\ e.file \in Copyable =>
              /\ copies'[e.file] \in {copies[e.file], copies[e.file] + 1}
              /\ copies'[e.file] = copies[e.file] + 1 \/ e.file \in failed'
<1>1. e \in Events
  BY Pop DEF HandleFile, CoreInv, TypeOK, Events
<1>2. e.file \in Copyable \cup {Dir} /\ copies \in [Copyable -> Nat]
      /\ failed \subseteq Copyable \cup {Dir}
  BY <1>1 DEF CoreInv, TypeOK, Events
<1>3. CASE e.file \in Copyable
  <2>1. PICK given \in SUBSET Copyable : e.file \in given /\ (Copy(e.file) \/ Fail(e.file, given))
    <3>1. {e.file} \in SUBSET Copyable BY <1>3
    <3>2. Copy(e.file) \/ Fail(e.file, {e.file}) BY DEF HandleFile
    <3> QED BY <3>1, <3>2
  <2> QED BY <1>2, <1>3, <2>1, OneCopy
<1>4. CASE e.file = Dir
  <2>1. copies' = copies /\ failed' = failed \cup {e.file}
    BY <1>4 DEF HandleFile, Fail
  <2> QED BY <1>2, <1>4, <2>1, FilesAssumption
<1> QED BY <1>2, <1>3, <1>4

-----------------------------------------------------------------------------
\* The core of the invariant holds initially.
LEMMA InitCore == Init => CoreInv
<1>. SUFFICES ASSUME Init PROVE CoreInv
  OBVIOUS
<1>1. Len(queue) = 0 /\ queue \in Seq(Events)
  BY DEF Init
<1>2. TypeOK
  BY <1>1, FilesAssumption DEF Init, TypeOK, Events, Copyable
<1> QED
  BY <1>1, <1>2 DEF Init, CoreInv, FilesInv, QueueInv, TodoInv, PhaseInv, Copyable

\* The queue stays as it is: what the other parts of the invariant need.
LEMMA QueueKept ==
  ASSUME QueueInv, UNCHANGED queue,
         \A f \in exists : f \in exists',
         "dir" \in watching => "dir" \in watching',
         \A i \in 1..Len(queue) :
           queue[i].file \in Copyable => copies'[queue[i].file] = copies[queue[i].file]
  PROVE  QueueInv'
BY DEF QueueInv

\* Every step keeps the core of the invariant.
LEMMA CoreKept == CoreInv /\ [Next]_vars => CoreInv'
<1>. SUFFICES ASSUME CoreInv, [Next]_vars PROVE CoreInv'
  OBVIOUS
<1>0. /\ TypeOK /\ FilesInv /\ QueueInv /\ TodoInv /\ PhaseInv
      /\ queue \in Seq(Events) /\ Len(queue) \in Nat
  BY DEF CoreInv, TypeOK, Events
<1>. USE <1>0, FilesAssumption
<1>1. CASE Stat \/ ListExisting \/ ListOnce \/ AddWatch \/ ExitOnce \/ Return
  <2>1. UNCHANGED <<queue, exists, copies, failed, restarts>>
    BY <1>1 DEF Stat, ListExisting, ListOnce, AddWatch, ExitOnce, Return, copyVars
  <2>2. TypeOK' /\ PhaseInv'
    <3>1. CASE Stat
      <4>0. found' = (Dir \in exists)
        BY <3>1, Zenon DEF Stat
      <4>1. /\ pc = "stat" /\ pc' = "watch" /\ UNCHANGED <<watching, todo, noticed>>
        BY <3>1 DEF Stat, Goto
      <4>2. TypeOK'
        <5>1. found' \in BOOLEAN BY <4>0
        <5> QED BY <2>1, <4>1, <5>1 DEF TypeOK
      <4>3. Dir \notin exists => \A r \in Reports : copies'[r] = 0
        BY <2>1 DEF FilesInv, TypeOK, Copyable
      <4>4. PhaseInv'
        <5>1. found' <=> Dir \in exists BY <4>0, Zenon
        <5> QED BY <2>1, <4>1, <4>3, <5>1 DEF PhaseInv
      <4> QED BY <4>2, <4>4
    <3>2. CASE ListExisting
      BY <2>1, <3>2 DEF ListExisting, Goto, TypeOK, PhaseInv
    <3>3. CASE ListOnce
      BY <2>1, <3>3 DEF ListOnce, Goto, TypeOK, PhaseInv
    <3>4. CASE AddWatch
      BY <2>1, <3>4 DEF AddWatch, Goto, TypeOK, PhaseInv
    <3>5. CASE ExitOnce
      BY <2>1, <3>5 DEF ExitOnce, Goto, TypeOK, PhaseInv
    <3>6. CASE Return
      BY <2>1, <3>6 DEF Return, Goto, TypeOK, PhaseInv
    <3> QED BY <1>1, <3>1, <3>2, <3>3, <3>4, <3>5, <3>6
  <2>3. QueueInv'
    <3>1. "dir" \in watching => "dir" \in watching'
      BY <1>1 DEF Stat, ListExisting, ListOnce, AddWatch, ExitOnce, Return
    <3> QED BY <2>1, <3>1, QueueKept
  <2>4. FilesInv'
    BY <2>1 DEF FilesInv
  <2>5. TodoInv'
    BY <1>1, <2>1 DEF Stat, ListExisting, ListOnce, AddWatch, ExitOnce, Return, Goto,
         TodoInv, PhaseInv
  <2> QED BY <2>2, <2>3, <2>4, <2>5 DEF CoreInv
<1>2. CASE FirstWatch
  <2>1. UNCHANGED <<found, queue, todo, exists, copies, failed, noticed, restarts>>
    BY <1>2 DEF FirstWatch, copyVars
  <2>2. pc = "watch" /\ pc' \in {"idle", "done"} /\ queue = <<>> /\ watching = {}
        /\ watching' \in {{"dir"}, {"log"}, {}} /\ ("dir" \in watching' => found)
    BY <1>2 DEF FirstWatch, Goto, PhaseInv
  <2> QED BY <2>1, <2>2 DEF CoreInv, TypeOK, FilesInv, QueueInv, TodoInv, PhaseInv
<1>3. CASE Restart
  <2>1. /\ found' = TRUE /\ watching' = {} /\ queue' = <<>> /\ todo' = {}
        /\ failed' = {} /\ noticed' = {} /\ UNCHANGED exists
        /\ restarts' \in 0..MaxRestarts
    BY <1>3 DEF Restart, TypeOK
  <2>2. Len(queue') = 0
    BY <2>1
  <2>3. /\ pc' = "stat" \/ (pc' = "once" /\ \A r \in Reports : copies'[r] = 0)
        /\ copies' \in [Copyable -> Nat]
        /\ \A f \in Copyable : copies'[f] \in {0, copies[f]}
    BY <1>3 DEF Restart, TypeOK, Copyable
  <2> QED BY <2>1, <2>2, <2>3, SMTT(30) DEF CoreInv, TypeOK, FilesInv, QueueInv, TodoInv, PhaseInv
<1>4. CASE UNCHANGED vars
  BY <1>4 DEF vars, CoreInv, TypeOK, FilesInv, QueueInv, TodoInv, PhaseInv
<1>5. ASSUME queue # <<>>, HandleFile(Head(queue)) PROVE CoreInv'
  <2>. DEFINE e == Head(queue)
  <2>1. /\ UNCHANGED <<pc, found, watching, todo, exists, noticed, restarts>>
        /\ pc = "idle" /\ found /\ Received(e)
    BY <1>5 DEF HandleFile
  <2>2. /\ e \in Events /\ e = queue[1] /\ 1 \in 1..Len(queue) /\ queue' \in Seq(Events)
        /\ \A i \in 1..Len(queue') : i + 1 \in 1..Len(queue) /\ queue'[i] = queue[i + 1]
    BY <2>1, Pop
  <2>3. /\ copies' \in [Copyable -> Nat] /\ failed' \subseteq Copyable \cup {Dir}
        /\ \A g \in Copyable : g # e.file => copies'[g] = copies[g]
        /\ e.file \in Copyable => copies'[e.file] \in {copies[e.file], copies[e.file] + 1}
    BY <1>5, OneEvent
  <2>4. e.file \in exists /\ (e.file \in Copyable => copies[e.file] = 0)
    BY <2>2 DEF QueueInv
  <2>. HIDE DEF e
  <2>5. TypeOK'
    BY <2>1, <2>2, <2>3 DEF TypeOK, Events
  <2>6. FilesInv'
    BY <2>1, <2>3, <2>4 DEF FilesInv, TypeOK
  <2>7. QueueInv'
    <3>1. ASSUME NEW i \in 1..Len(queue') PROVE queue'[i].file # e.file
      <4>1. i + 1 # 1 BY <2>2
      <4> QED BY <2>2, <4>1 DEF QueueInv
    <3>2. ASSUME NEW i \in 1..Len(queue'), NEW j \in 1..Len(queue'),
                 queue'[i].file = queue'[j].file
          PROVE  i = j
      <4>1. /\ i + 1 \in 1..Len(queue) /\ j + 1 \in 1..Len(queue)
            /\ queue[i + 1].file = queue[j + 1].file
        BY <2>2, <3>2
      <4>2. i + 1 = j + 1 BY <4>1 DEF QueueInv
      <4>3. i \in Nat /\ j \in Nat OBVIOUS
      <4> QED BY <4>2, <4>3
    <3>3. ASSUME NEW i \in 1..Len(queue')
          PROVE  /\ queue'[i].file \in exists'
                 /\ queue'[i].file \in Copyable => copies'[queue'[i].file] = 0
                 /\ queue'[i].file \in Reports => "dir" \in watching' /\ queue'[i].watch = "dir"
                 /\ queue'[i].file \notin Reports => queue'[i].watch # "dir"
      BY <2>1, <2>2, <2>3, <3>1, SMTT(30) DEF QueueInv
    <3> QED BY <3>2, <3>3 DEF QueueInv
  <2>8. TodoInv'
    BY <2>1 DEF TodoInv
  <2>9. PhaseInv'
    BY <2>1 DEF PhaseInv
  <2> QED BY <2>5, <2>6, <2>7, <2>8, <2>9 DEF CoreInv
<1>6. ASSUME queue # <<>>, HandleDirectory(Head(queue)) PROVE CoreInv'
  <2>. DEFINE e == Head(queue)
  <2>1. /\ UNCHANGED <<found, watching, todo, exists, copies, failed, noticed, restarts>>
        /\ pc = "idle" /\ ~found /\ Received(e)
        /\ pc' = IF Dir \in exists THEN "remove" ELSE "idle"
    BY <1>6 DEF HandleDirectory, copyVars
  <2>2. /\ queue' \in Seq(Events)
        /\ \A i \in 1..Len(queue') : i + 1 \in 1..Len(queue) /\ queue'[i] = queue[i + 1]
    BY <2>1, Pop
  <2>3. QueueInv'
    <3>1. ASSUME NEW i \in 1..Len(queue'), NEW j \in 1..Len(queue'),
                 queue'[i].file = queue'[j].file
          PROVE  i = j
      <4>1. /\ i + 1 \in 1..Len(queue) /\ j + 1 \in 1..Len(queue)
            /\ queue[i + 1].file = queue[j + 1].file
        BY <2>2, <3>1
      <4>2. i + 1 = j + 1 BY <4>1 DEF QueueInv
      <4>3. i \in Nat /\ j \in Nat OBVIOUS
      <4> QED BY <4>2, <4>3
    <3> QED BY <2>1, <2>2, <3>1 DEF QueueInv
  <2>4. TypeOK'
    BY <2>1, <2>2 DEF TypeOK, Events
  <2>5. FilesInv' /\ TodoInv' /\ PhaseInv'
    BY <2>1 DEF FilesInv, TodoInv, PhaseInv
  <2> QED BY <2>3, <2>4, <2>5 DEF CoreInv
<1>7. ASSUME NEW sending \in 0..1, RemoveWatch(sending) PROVE CoreInv'
  <2>1. /\ UNCHANGED <<found, todo, exists, copies, failed, noticed, restarts>>
        /\ pc = "remove" /\ pc' = "list" /\ watching' = watching \ {"log"}
    BY <1>7 DEF RemoveWatch, Goto, copyVars
  <2>2. /\ queue' \in Seq(Events)
        /\ \A i \in 1..Len(queue') : i \in 1..Len(queue) /\ i = 1 /\ queue'[i] = queue[i]
    BY <1>7, Truncated
  <2>3. \A i \in 1..Len(queue) : queue[i].file \notin Reports
    BY <2>1 DEF QueueInv, PhaseInv
  <2>4. QueueInv'
    BY <2>1, <2>2, <2>3 DEF QueueInv
  <2>5. TypeOK'
    BY <2>1, <2>2 DEF TypeOK, Events
  <2>6. FilesInv' /\ TodoInv' /\ PhaseInv'
    BY <2>1 DEF FilesInv, TodoInv, PhaseInv
  <2> QED BY <2>4, <2>5, <2>6 DEF CoreInv
<1>8. ASSUME NEW f \in Reports, CopyExisting(f) \/ CreateReport(f) PROVE CoreInv'
  <2>0. f \in Copyable
    BY DEF Copyable
  <2>1. CASE CopyExisting(f)
    <3>1. /\ UNCHANGED <<pc, found, watching, queue, exists, noticed, restarts>>
          /\ pc \in {"existing", "copying"} /\ f \in todo
          /\ Copy(f) \/ Fail(f, todo)
          /\ todo' \subseteq todo \ {f} /\ todo \in SUBSET Copyable
      BY <2>1 DEF CopyExisting, TypeOK, Copyable
    <3>2. /\ copies' \in [Copyable -> Nat] /\ failed' \subseteq Copyable \cup {Dir}
          /\ \A g \in Copyable : g # f => copies'[g] = copies[g]
          /\ copies'[f] \in {copies[f], copies[f] + 1}
      BY <2>0, <3>1, OneCopy DEF TypeOK
    <3>3. copies[f] = 0 /\ f \in exists
      BY <3>1 DEF TodoInv
    <3>4. \A i \in 1..Len(queue) : queue[i].file \notin Reports
      BY <3>1 DEF QueueInv, PhaseInv
    <3>5. QueueInv'
      BY <3>1, <3>2, <3>4, QueueKept
    <3>6. TypeOK'
      BY <3>1, <3>2 DEF TypeOK
    <3>7. FilesInv' /\ TodoInv'
      BY <3>1, <3>2, <3>3 DEF FilesInv, TodoInv, TypeOK, Copyable
    <3>8. PhaseInv'
      BY <3>1 DEF PhaseInv
    <3> QED BY <3>5, <3>6, <3>7, <3>8 DEF CoreInv
  <2>2. CASE CreateReport(f)
    <3>1. /\ Dir \in exists /\ Create(f, "dir")
          /\ noticed' \in {noticed, noticed \cup {f}}
      BY <2>2 DEF CreateReport
    <3>2. /\ UNCHANGED <<pc, found, watching, todo, copies, failed, restarts>>
          /\ f \notin exists /\ exists' = exists \cup {f}
          /\ "dir" \notin watching => UNCHANGED queue
      BY <3>1 DEF Create, copyVars
    <3>3. /\ queue' \in Seq(Events)
          /\ Len(queue') = IF "dir" \in watching THEN Len(queue) + 1 ELSE Len(queue)
          /\ \A i \in 1..Len(queue) : queue'[i] = queue[i]
          /\ "dir" \in watching => queue'[Len(queue) + 1] = Event("dir", f)
      BY <2>0, <3>1, Push
    <3>4. copies[f] = 0
      BY <2>0, <3>2 DEF FilesInv, TypeOK
    <3>5. QueueInv'
      <4>1. CASE "dir" \notin watching
        BY <3>2, <4>1, QueueKept
      <4>2. CASE "dir" \in watching
        <5>1. ASSUME NEW i \in 1..Len(queue'), i # Len(queue) + 1
              PROVE  i \in 1..Len(queue) /\ queue'[i] = queue[i]
          BY <3>3, <4>2, <5>1
        <5>2. queue'[Len(queue) + 1].file = f /\ queue'[Len(queue) + 1].watch = "dir"
          BY <3>3, <4>2 DEF Event
        <5>3. \A i \in 1..Len(queue) : queue[i].file # f
          BY <3>2 DEF QueueInv
        <5> QED BY <2>0, <3>2, <3>3, <3>4, <4>2, <5>1, <5>2, <5>3 DEF QueueInv
      <4> QED BY <4>1, <4>2
    <3>6. TypeOK'
      BY <2>0, <3>1, <3>2, <3>3 DEF TypeOK, Events
    <3>7. FilesInv' /\ TodoInv' /\ PhaseInv'
      BY <3>1, <3>2 DEF FilesInv, TodoInv, PhaseInv
    <3> QED BY <3>5, <3>6, <3>7 DEF CoreInv
  <2> QED BY <1>8, <2>1, <2>2
<1>9. CASE CreateInLogs
  <2>1. PICK f \in LogFiles \cup {Dir} : Create(f, "log") /\ UNCHANGED noticed
    BY <1>9 DEF CreateInLogs
  <2>2. f \in Copyable \cup {Dir} /\ f \notin Reports
    BY DEF Copyable
  <2>3. /\ UNCHANGED <<pc, found, watching, todo, copies, failed, restarts>>
        /\ f \notin exists /\ exists' = exists \cup {f}
        /\ "log" \notin watching => UNCHANGED queue
    BY <2>1 DEF Create, copyVars
  <2>4. /\ queue' \in Seq(Events)
        /\ Len(queue') = IF "log" \in watching THEN Len(queue) + 1 ELSE Len(queue)
        /\ \A i \in 1..Len(queue) : queue'[i] = queue[i]
        /\ "log" \in watching => queue'[Len(queue) + 1] = Event("log", f)
    BY <2>1, <2>2, Push
  <2>5. f \in Copyable => copies[f] = 0
    BY <2>3 DEF FilesInv, TypeOK
  <2>6. QueueInv'
    <3>1. CASE "log" \notin watching
      BY <2>3, <3>1, QueueKept
    <3>2. CASE "log" \in watching
      <4>1. ASSUME NEW i \in 1..Len(queue'), i # Len(queue) + 1
            PROVE  i \in 1..Len(queue) /\ queue'[i] = queue[i]
        BY <2>4, <3>2, <4>1
      <4>2. queue'[Len(queue) + 1].file = f /\ queue'[Len(queue) + 1].watch = "log"
        BY <2>4, <3>2 DEF Event
      <4>3. \A i \in 1..Len(queue) : queue[i].file # f
        BY <2>3 DEF QueueInv
      <4> QED BY <2>2, <2>3, <2>4, <2>5, <3>2, <4>1, <4>2, <4>3 DEF QueueInv
    <3> QED BY <3>1, <3>2
  <2>7. TypeOK'
    BY <2>1, <2>2, <2>3, <2>4 DEF TypeOK, Events
  <2>8. FilesInv' /\ TodoInv'
    BY <2>2, <2>3 DEF FilesInv, TodoInv
  <2>9. PhaseInv'
    <3>1. pc \in {"stat", "watch", "once", "copying", "exit"} => UNCHANGED queue
      BY <2>3 DEF PhaseInv
    <3> QED BY <2>2, <2>3, <3>1 DEF PhaseInv
  <2> QED BY <2>6, <2>7, <2>8, <2>9 DEF CoreInv
<1> QED
  BY NextCases, <1>1, <1>2, <1>3, <1>4, <1>5, <1>6, <1>7, <1>8, <1>9

-----------------------------------------------------------------------------
\* Every step keeps what is known of the noticed reports.
LEMMA NoticedKept == CoreInv /\ NoticedIsHandled /\ [Next]_vars => NoticedIsHandled'
<1>. SUFFICES ASSUME CoreInv, NoticedIsHandled, [Next]_vars PROVE NoticedIsHandled'
  OBVIOUS
<1>0. /\ TypeOK /\ QueueInv /\ TodoInv /\ PhaseInv
      /\ queue \in Seq(Events) /\ Len(queue) \in Nat
  BY DEF CoreInv, TypeOK, Events
<1>. USE <1>0, FilesAssumption
<1>1. CASE Stat \/ ListExisting \/ ListOnce \/ AddWatch \/ ExitOnce \/ Return
  <2>1. UNCHANGED <<queue, copies, failed>>
    BY <1>1 DEF Stat, ListExisting, ListOnce, AddWatch, ExitOnce, Return, copyVars
  <2>2. todo \subseteq todo' /\ noticed' \subseteq noticed \cup todo'
    BY <1>1 DEF Stat, ListExisting, ListOnce, AddWatch, ExitOnce, Return, Goto, TodoInv
  <2> QED BY <2>1, <2>2 DEF NoticedIsHandled, Queued
<1>2. CASE FirstWatch
  BY <1>2 DEF FirstWatch, copyVars, NoticedIsHandled, Queued
<1>3. CASE Restart
  BY <1>3 DEF Restart, NoticedIsHandled
<1>4. CASE UNCHANGED vars
  BY <1>4 DEF vars, NoticedIsHandled, Queued
<1>5. ASSUME queue # <<>>, HandleFile(Head(queue)) PROVE NoticedIsHandled'
  <2>. DEFINE e == Head(queue)
  <2>1. UNCHANGED <<todo, noticed>> /\ Received(e)
    BY <1>5 DEF HandleFile
  <2>2. /\ e = queue[1] /\ Len(queue') = Len(queue) - 1
        /\ \A i \in 1..Len(queue') : queue'[i] = queue[i + 1]
    BY <2>1, Pop
  <2>3. /\ \A g \in Copyable : g # e.file => copies'[g] = copies[g]
        /\ failed \subseteq failed'
        /\ e.file \in Copyable => copies'[e.file] = copies[e.file] + 1 \/ e.file \in failed'
    BY <1>5, OneEvent
  <2>. HIDE DEF e
  <2>4. ASSUME NEW r \in noticed, r # e.file, Queued(r) PROVE Queued(r)'
    <3>1. PICK i \in 1..Len(queue) : queue[i].file = r
      BY <2>4 DEF Queued
    <3>2. i # 1 BY <2>2, <2>4, <3>1
    <3>3. i - 1 \in 1..Len(queue') /\ queue'[i - 1] = queue[i]
      BY <2>2, <3>2
    <3> QED BY <3>1, <3>3 DEF Queued
  <2>5. \A r \in noticed : r \in Copyable
    BY DEF TypeOK, Copyable
  <2>6. \A f \in Copyable : copies[f] \in Nat
    BY DEF TypeOK
  <2> QED BY <2>1, <2>3, <2>4, <2>5, <2>6 DEF NoticedIsHandled
<1>6. ASSUME queue # <<>>, HandleDirectory(Head(queue)) PROVE NoticedIsHandled'
  <2>1. UNCHANGED <<todo, copies, failed, noticed>> /\ ~found
    BY <1>6 DEF HandleDirectory, copyVars
  <2>2. \A r \in noticed : ~Queued(r)
    BY <2>1 DEF Queued, QueueInv, PhaseInv, TypeOK
  <2> QED BY <2>1, <2>2 DEF NoticedIsHandled
<1>7. ASSUME NEW sending \in 0..1, RemoveWatch(sending) PROVE NoticedIsHandled'
  <2>1. UNCHANGED <<todo, copies, failed, noticed>>
    BY <1>7 DEF RemoveWatch, copyVars
  <2>2. \A r \in noticed : ~Queued(r)
    BY <1>7 DEF RemoveWatch, Goto, Queued, QueueInv, PhaseInv, TypeOK
  <2> QED BY <2>1, <2>2 DEF NoticedIsHandled
<1>8. ASSUME NEW f \in Reports, CopyExisting(f) \/ CreateReport(f) PROVE NoticedIsHandled'
  <2>0. f \in Copyable /\ \A r \in noticed : r \in Copyable /\ copies[r] \in Nat
    BY DEF Copyable, TypeOK
  <2>1. CASE CopyExisting(f)
    <3>1. /\ UNCHANGED <<queue, noticed>> /\ todo \in SUBSET Copyable /\ f \in todo
          /\ (Copy(f) /\ todo' = todo \ {f}) \/ Fail(f, todo)
      BY <2>1 DEF CopyExisting, TypeOK, Copyable
    <3>2. /\ \A g \in Copyable : g # f => copies'[g] = copies[g]
          /\ copies'[f] \in {copies[f], copies[f] + 1} /\ failed \subseteq failed'
      BY <2>0, <3>1, OneCopy DEF TypeOK
    <3>3. copies[f] \in Nat
      BY <2>0 DEF TypeOK
    <3>4. \A r \in todo : copies'[r] > 0 \/ r \in todo' \/ r \in failed'
      <4>1. CASE Copy(f) /\ todo' = todo \ {f}
        BY <2>0, <3>3, <4>1 DEF Copy, Copied, TypeOK
      <4>2. CASE Fail(f, todo)
        BY <4>2 DEF Fail
      <4> QED BY <3>1, <4>1, <4>2
    <3>5. \A r \in noticed : copies[r] > 0 => copies'[r] > 0
      BY <2>0, <3>2, <3>3
    <3> QED BY <3>1, <3>2, <3>4, <3>5 DEF NoticedIsHandled, Queued
  <2>2. CASE CreateReport(f)
    <3>1. /\ Create(f, "dir") /\ UNCHANGED <<todo, copies, failed>>
          /\ noticed' = IF "dir" \in watching THEN noticed \cup {f} ELSE noticed
      BY <2>2 DEF CreateReport, Create, copyVars
    <3>2. /\ Len(queue') = IF "dir" \in watching THEN Len(queue) + 1 ELSE Len(queue)
          /\ \A i \in 1..Len(queue) : queue'[i] = queue[i]
          /\ "dir" \in watching => queue'[Len(queue) + 1] = Event("dir", f)
      BY <2>0, <3>1, Push
    <3>3. \A r \in noticed : Queued(r) => Queued(r)'
      BY <3>2 DEF Queued
    <3>4. "dir" \in watching => Queued(f)'
      BY <3>2 DEF Queued, Event
    <3> QED BY <3>1, <3>3, <3>4 DEF NoticedIsHandled
  <2> QED BY <1>8, <2>1, <2>2
<1>9. CASE CreateInLogs
  <2>1. PICK f \in LogFiles \cup {Dir} : Create(f, "log") /\ UNCHANGED noticed
    BY <1>9 DEF CreateInLogs
  <2>2. UNCHANGED <<todo, copies, failed>>
    BY <2>1 DEF Create, copyVars
  <2>3. Len(queue) <= Len(queue') /\ \A i \in 1..Len(queue) : queue'[i] = queue[i]
        /\ Len(queue') \in Nat
    BY <2>1, Push DEF Copyable
  <2>4. \A r \in noticed : Queued(r) => Queued(r)'
    BY <2>3 DEF Queued
  <2> QED BY <2>1, <2>2, <2>4 DEF NoticedIsHandled
<1> QED
  BY NextCases, <1>1, <1>2, <1>3, <1>4, <1>5, <1>6, <1>7, <1>8, <1>9

-----------------------------------------------------------------------------
\* What the queue and the copies become leaves no new file to be taken for a report.
LEMMA StrayShrinks ==
  ASSUME StrayInv, Switched, Switched', "log" \notin watching',
         \A f \in LogFiles : Stray(f)' => Stray(f), Dir \in exists'
  PROVE  StrayInv'
<1>1. \A f \in LogFiles : copies'[f] > 0 => Stray(f)'
  BY DEF Stray
<1>2. \A f, g \in LogFiles : Stray(f)' /\ Stray(g)' => f = g
  BY DEF StrayInv
<1>. HIDE DEF Stray, Switched
<1> QED BY <1>1, <1>2 DEF StrayInv

\* Every step keeps what is known of the log directory's files.
LEMMA StrayKept == CoreInv /\ StrayInv /\ [Next]_vars => StrayInv'
<1>. SUFFICES ASSUME CoreInv, StrayInv, [Next]_vars PROVE StrayInv'
  OBVIOUS
<1>0. /\ TypeOK /\ FilesInv /\ QueueInv /\ TodoInv /\ PhaseInv
      /\ queue \in Seq(Events) /\ Len(queue) \in Nat
      /\ \A f \in LogFiles : f \in Copyable /\ f \notin Reports /\ copies[f] \in Nat
  BY FilesAssumption DEF CoreInv, TypeOK, Events, Copyable
<1>. USE <1>0, FilesAssumption
<1>1. CASE Stat \/ ListExisting \/ ListOnce \/ AddWatch \/ ExitOnce \/ Return
  <2>1. UNCHANGED <<queue, copies, exists>>
    BY <1>1 DEF Stat, ListExisting, ListOnce, AddWatch, ExitOnce, Return, copyVars
  <2>2. CASE Stat
    <3>1. found' = (Dir \in exists)
      BY <2>2, Zenon DEF Stat
    <3>2. pc' = "watch"
      BY <2>2 DEF Stat, Goto
    <3>3. ~found' => Dir \notin exists
      BY <3>1, Zenon
    <3> QED BY <2>1, <3>2, <3>3 DEF StrayInv, Switched
  <2>3. CASE ListExisting
    BY <2>1, <2>3 DEF ListExisting, Goto, StrayInv, Switched, Stray
  <2>4. CASE ListOnce
    BY <2>1, <2>4 DEF ListOnce, Goto, StrayInv, Switched, PhaseInv
  <2>5. CASE AddWatch
    BY <2>1, <2>5 DEF AddWatch, Goto, StrayInv, Switched, Stray
  <2>6. CASE ExitOnce
    BY <2>1, <2>6 DEF ExitOnce, Goto, StrayInv, Switched, PhaseInv
  <2>7. CASE Return
    BY <2>1, <2>7 DEF Return, Goto, StrayInv, Switched, Stray
  <2> QED BY <1>1, <2>2, <2>3, <2>4, <2>5, <2>6, <2>7
<1>2. CASE FirstWatch
  <2>1. UNCHANGED <<found, queue, exists, copies>>
    BY <1>2 DEF FirstWatch, copyVars
  <2>2. pc = "watch" /\ Len(queue) = 0 /\ watching = {}
        /\ pc' \in {"idle", "done"} /\ (found => "log" \notin watching')
    BY <1>2 DEF FirstWatch, Goto, PhaseInv
  <2> QED BY <2>1, <2>2 DEF StrayInv, Switched, Stray
<1>3. CASE Restart
  <2>1. pc' \in {"stat", "once"} /\ found' /\ UNCHANGED exists
        /\ \A f \in LogFiles : copies'[f] = copies[f]
    BY <1>3 DEF Restart
  <2> QED BY <2>1 DEF StrayInv, Switched
<1>4. CASE UNCHANGED vars
  BY <1>4 DEF vars, StrayInv, Switched, Stray
<1>5. ASSUME queue # <<>>, HandleFile(Head(queue)) PROVE StrayInv'
  <2>. DEFINE e == Head(queue)
  <2>1. UNCHANGED <<watching, exists>> /\ Received(e) /\ pc = "idle" /\ found
    BY <1>5 DEF HandleFile
  <2>2. /\ e \in Events /\ e = queue[1] /\ 1 \in 1..Len(queue)
        /\ \A i \in 1..Len(queue') : i + 1 \in 1..Len(queue) /\ queue'[i] = queue[i + 1]
    BY <2>1, Pop
  <2>3. \A g \in Copyable : g # e.file => copies'[g] = copies[g]
    BY <1>5, OneEvent
  <2>. HIDE DEF e
  <2>4. ASSUME NEW f \in LogFiles, copies'[f] > 0 PROVE Stray(f)
    <3>1. CASE copies[f] > 0
      BY <3>1 DEF Stray
    <3>2. CASE ~(copies[f] > 0)
      <4>1. e.file = f
        BY <2>3, <2>4, <3>2
      <4>2. e.watch = "log"
        BY <2>2, <4>1 DEF QueueInv, Events
      <4>3. queue[1] = Event("log", f)
        BY <2>2, <4>1, <4>2 DEF Event, Events
      <4> QED BY <2>2, <4>3 DEF Stray
    <3> QED BY <3>1, <3>2
  <2>5. \A f \in LogFiles : Stray(f)' => Stray(f)
    BY <2>2, <2>4 DEF Stray
  <2>6. UNCHANGED pc /\ UNCHANGED found
    BY <1>5 DEF HandleFile
  <2>7. Switched /\ Switched' /\ "log" \notin watching' /\ Dir \in exists'
    BY <2>1, <2>6 DEF Switched, StrayInv, PhaseInv
  <2> QED BY <2>5, <2>7, StrayShrinks
<1>6. ASSUME queue # <<>>, HandleDirectory(Head(queue)) PROVE StrayInv'
  <2>1. /\ UNCHANGED <<found, exists, copies>> /\ pc = "idle" /\ ~found
        /\ pc' \in {"remove", "idle"}
    BY <1>6 DEF HandleDirectory, copyVars
  <2> QED BY <2>1 DEF StrayInv, Switched
<1>7. ASSUME NEW sending \in 0..1, RemoveWatch(sending) PROVE StrayInv'
  <2>1. /\ UNCHANGED <<found, exists, copies>> /\ pc = "remove"
        /\ watching' = watching \ {"log"}
    BY <1>7 DEF RemoveWatch, Goto, copyVars
  <2>2. \A i \in 1..Len(queue') : i = 1
    BY <1>7, Truncated
  <2>3. \A f \in LogFiles : copies[f] = 0
    BY <2>1 DEF StrayInv, Switched, PhaseInv
  <2>4. ASSUME NEW f \in LogFiles, Stray(f)' PROVE queue'[1] = Event("log", f)
    <3>1. PICK i \in 1..Len(queue') : queue'[i] = Event("log", f)
      BY <2>1, <2>3, <2>4 DEF Stray
    <3> QED BY <2>2, <3>1
  <2>5. ASSUME NEW f \in LogFiles, NEW g \in LogFiles, Stray(f)', Stray(g)' PROVE f = g
    <3>1. Event("log", f) = Event("log", g) BY <2>4, <2>5
    <3> QED BY <3>1 DEF Event
  <2> QED BY <2>1, <2>3, <2>5 DEF StrayInv
<1>8. ASSUME NEW f \in Reports, CopyExisting(f) \/ CreateReport(f) PROVE StrayInv'
  <2>0. f \in Copyable /\ f \notin LogFiles
    BY DEF Copyable
  <2>1. CASE CopyExisting(f)
    <3>1. /\ UNCHANGED <<pc, found, watching, queue, exists>>
          /\ Copy(f) \/ Fail(f, todo)
          /\ todo \in SUBSET Copyable
      BY <2>1 DEF CopyExisting, TypeOK, Copyable
    <3>2. \A g \in LogFiles : copies'[g] = copies[g]
      BY <2>0, <3>1, OneCopy DEF TypeOK
    <3> QED BY <3>1, <3>2 DEF StrayInv, Switched, Stray
  <2>2. CASE CreateReport(f)
    <3>1. /\ Create(f, "dir") /\ UNCHANGED <<pc, found, watching, copies>>
          /\ exists \subseteq exists'
      BY <2>2 DEF CreateReport, Create, copyVars
    <3>2. /\ Len(queue') = IF "dir" \in watching THEN Len(queue) + 1 ELSE Len(queue)
          /\ \A i \in 1..Len(queue) : queue'[i] = queue[i]
          /\ "dir" \in watching => queue'[Len(queue) + 1] = Event("dir", f)
      BY <2>0, <3>1, Push
    <3>3. ASSUME NEW g \in LogFiles, Stray(g)' PROVE Stray(g)
      <4>1. ASSUME NEW i \in 1..Len(queue'), queue'[i] = Event("log", g)
            PROVE  i \in 1..Len(queue) /\ queue[i] = Event("log", g)
        <5>1. i # Len(queue) + 1 \/ "dir" \notin watching
          BY <3>2, <4>1 DEF Event
        <5> QED BY <3>2, <4>1, <5>1
      <4> QED BY <3>1, <3>3, <4>1 DEF Stray
    <3> QED BY <3>1, <3>3 DEF StrayInv, Switched
  <2> QED BY <1>8, <2>1, <2>2
<1>9. CASE CreateInLogs
  <2>1. PICK f \in LogFiles \cup {Dir} : Create(f, "log")
    BY <1>9 DEF CreateInLogs
  <2>2. /\ UNCHANGED <<pc, found, watching, copies>> /\ exists \subseteq exists'
        /\ "log" \notin watching => UNCHANGED queue
    BY <2>1 DEF Create, copyVars
  <2> QED BY <2>2 DEF StrayInv, Switched, Stray
<1> QED
  BY NextCases, <1>1, <1>2, <1>3, <1>4, <1>5, <1>6, <1>7, <1>8, <1>9

-----------------------------------------------------------------------------
\* The invariant holds at the start, and every step keeps it.
LEMMA InitIInv == Init => IInv
<1>. SUFFICES ASSUME Init PROVE IInv
  OBVIOUS
<1>1. CoreInv
  BY InitCore
<1>2. NoticedIsHandled /\ StrayInv
  BY DEF Init, NoticedIsHandled, StrayInv, Switched, Copyable
<1>3. BlindInv
  BY DEF Init, BlindInv
<1> QED BY <1>1, <1>2, <1>3 DEF IInv

\* The log directory is watched until the directory is found, and given up only then.
LEMMA BlindKept == BlindInv /\ [Next]_vars => BlindInv'
<1>. SUFFICES ASSUME BlindInv, [Next]_vars PROVE BlindInv'
  OBVIOUS
<1>1. ASSUME Stat \/ ListExisting \/ ListOnce \/ AddWatch \/ ExitOnce \/ Return PROVE BlindInv'
  BY <1>1 DEF Stat, ListExisting, ListOnce, AddWatch, ExitOnce, Return, Goto, BlindInv
<1>2. ASSUME FirstWatch PROVE BlindInv'
  BY <1>2 DEF FirstWatch, Goto, BlindInv
<1>3. ASSUME Restart PROVE BlindInv'
  BY <1>3 DEF Restart, BlindInv
<1>4. ASSUME UNCHANGED vars PROVE BlindInv'
  BY <1>4 DEF vars, BlindInv
<1>5. ASSUME queue # <<>>, HandleFile(Head(queue)) PROVE BlindInv'
  BY <1>5 DEF HandleFile, BlindInv
<1>6. ASSUME queue # <<>>, HandleDirectory(Head(queue)) PROVE BlindInv'
  BY <1>6 DEF HandleDirectory, BlindInv
<1>7. ASSUME NEW sending \in 0..1, RemoveWatch(sending) PROVE BlindInv'
  BY <1>7 DEF RemoveWatch, Goto, BlindInv
<1>8. ASSUME NEW f \in Reports, CopyExisting(f) \/ CreateReport(f) PROVE BlindInv'
  BY <1>8 DEF CopyExisting, CreateReport, Create, BlindInv
<1>9. ASSUME CreateInLogs PROVE BlindInv'
  BY <1>9 DEF CreateInLogs, Create, BlindInv
<1> QED
  BY NextCases, <1>1, <1>2, <1>3, <1>4, <1>5, <1>6, <1>7, <1>8, <1>9

\* Every step keeps the invariant.
LEMMA Inductive == IInv /\ [Next]_vars => IInv'
BY CoreKept, NoticedKept, StrayKept, BlindKept DEF IInv

\* The invariant holds in every state.
LEMMA Invariant == Safety => []IInv
<1> QED BY InitIInv, Inductive, PTL DEF Safety

\* The watcher's state has its types.
THEOREM TypeCorrect == Safety => []TypeOK
<1>1. IInv => TypeOK
  BY DEF IInv, CoreInv
<1> QED BY Invariant, <1>1, PTL

\* No file is copied twice, however the copies of the existing reports, the new
\* watch and the restarts of the program interleave with the reports that appear,
\* until a start with -ignoreExisting=false asks for all of them anew.
THEOREM OnceOnly == Safety => []CopiedOnce
<1>1. IInv => CopiedOnce
  BY DEF IInv, CoreInv, FilesInv, CopiedOnce
<1> QED BY Invariant, <1>1, PTL

\* A report the watcher was told of, or listed, is copied, listed still, its event is
\* on its way, or it was given up for its own error or that of one listed before it.
THEOREM NothingLost == Safety => []NoticedIsHandled
<1>1. IInv => NoticedIsHandled
  BY DEF IInv
<1> QED BY Invariant, <1>1, PTL

\* One file of the log directory at most is taken for a report.
THEOREM OneStray == Safety => []OneStrayAtMost
<1>1. ASSUME StrayInv PROVE OneStrayAtMost
  <2>. DEFINE strays == {f \in LogFiles : copies[f] > 0}
  <2>1. \A f, g \in strays : f = g
    BY <1>1 DEF StrayInv
  <2>2. CASE strays = {}
    BY <2>2, FS_EmptySet DEF OneStrayAtMost
  <2>3. CASE strays # {}
    <3>1. PICK f : f \in strays
      BY <2>3
    <3>2. strays = {f}
      BY <2>1, <3>1
    <3>3. Cardinality({f}) = 1
      BY FS_Singleton
    <3> QED BY <3>2, <3>3 DEF OneStrayAtMost
  <2> QED BY <2>2, <2>3
<1>2. IInv => OneStrayAtMost
  BY <1>1 DEF IInv
<1> QED BY Invariant, <1>2, PTL

\* A watcher whose second watch could not be added stays blind until the program is
\* started again.
THEOREM StaysBlind == Safety => BlindUntilRestart
<1>1. IInv /\ [Next]_vars =>
        [pc = "idle" /\ watching = {} /\ UNCHANGED restarts =>
           pc' \in {"idle", "done"} /\ watching' = {} /\ noticed' = noticed]_vars
  <2>. DEFINE Stays == pc' \in {"idle", "done"} /\ watching' = {} /\ noticed' = noticed
  <2> SUFFICES ASSUME IInv, [Next]_vars, pc = "idle", watching = {}, UNCHANGED restarts
               PROVE  Stays
    BY DEF vars
  <2>0. found /\ restarts \in Nat
    BY FilesAssumption DEF IInv, BlindInv, CoreInv, TypeOK
  <2>1. ASSUME Stat \/ ListExisting \/ ListOnce \/ AddWatch \/ ExitOnce \/ Return PROVE Stays
    BY <2>1 DEF Stat, ListExisting, ListOnce, AddWatch, ExitOnce, Return, Goto
  <2>2. ASSUME FirstWatch PROVE Stays
    BY <2>2 DEF FirstWatch, Goto
  <2>3. ASSUME Restart PROVE Stays
    BY <2>0, <2>3 DEF Restart
  <2>4. ASSUME UNCHANGED vars PROVE Stays
    BY <2>4 DEF vars
  <2>5. ASSUME queue # <<>>, HandleFile(Head(queue)) PROVE Stays
    BY <2>5 DEF HandleFile
  <2>6. ASSUME queue # <<>>, HandleDirectory(Head(queue)) PROVE Stays
    BY <2>0, <2>6 DEF HandleDirectory
  <2>7. ASSUME NEW sending \in 0..1, RemoveWatch(sending) PROVE Stays
    BY <2>7 DEF RemoveWatch, Goto
  <2>8. ASSUME NEW f \in Reports, CopyExisting(f) \/ CreateReport(f) PROVE Stays
    BY <2>8 DEF CopyExisting, CreateReport, Create
  <2>9. ASSUME CreateInLogs PROVE Stays
    BY <2>9 DEF CreateInLogs, Create
  <2>. HIDE DEF Stays
  <2> QED
    BY NextCases, <2>1, <2>2, <2>3, <2>4, <2>5, <2>6, <2>7, <2>8, <2>9
<1> QED BY <1>1, Invariant, PTL DEF Safety, BlindUntilRestart

-----------------------------------------------------------------------------
(* The refinement of ReportCopies.                                         *)

\* Handling an event takes its file, and no other, off the queue.
LEMMA Popped ==
  ASSUME CoreInv, queue # <<>>, NEW e, e = Head(queue), Received(e)
  PROVE  /\ Queued(e.file)
         /\ \A f : Queued(f)' <=> Queued(f) /\ f # e.file
<1>1. QueueInv /\ queue \in Seq(Events) /\ Len(queue) \in Nat
  BY DEF CoreInv, TypeOK, Events
<1>2. /\ e = queue[1] /\ 1 \in 1..Len(queue) /\ Len(queue') = Len(queue) - 1
      /\ \A i \in 1..Len(queue') : i + 1 \in 1..Len(queue) /\ queue'[i] = queue[i + 1]
  BY <1>1, Pop
<1>3. ASSUME NEW f, NEW i \in 1..Len(queue'), queue'[i].file = f
      PROVE  Queued(f) /\ f # e.file
  <2>1. i + 1 \in 1..Len(queue) /\ queue[i + 1].file = f /\ i + 1 # 1
    BY <1>2, <1>3
  <2> QED BY <1>1, <1>2, <2>1 DEF Queued, QueueInv
<1>4. ASSUME NEW f, f # e.file, NEW i \in 1..Len(queue), queue[i].file = f
      PROVE  Queued(f)'
  <2>1. i # 1
    BY <1>2, <1>4
  <2>2. i - 1 \in 1..Len(queue') /\ queue'[i - 1] = queue[i]
    BY <1>1, <1>2, <2>1
  <2> QED BY <1>4, <2>2 DEF Queued
<1> QED BY <1>2, <1>3, <1>4 DEF Queued

\* Creating a file puts it, and no other, on the queue, if it is watched.
LEMMA Pushed ==
  ASSUME CoreInv, NEW f \in Copyable \cup {Dir}, NEW w \in {"log", "dir"}, Create(f, w)
  PROVE  \A g : Queued(g)' <=> Queued(g) \/ (w \in watching /\ g = f)
<1>1. queue \in Seq(Events)
  BY DEF CoreInv, TypeOK, Events
<1>2. /\ Len(queue) \in Nat
      /\ Len(queue') = IF w \in watching THEN Len(queue) + 1 ELSE Len(queue)
      /\ \A i \in 1..Len(queue) : queue'[i] = queue[i]
      /\ w \in watching => queue'[Len(queue) + 1] = Event(w, f)
  BY <1>1, Push
<1>3. ASSUME NEW g, NEW i \in 1..Len(queue'), queue'[i].file = g
      PROVE  Queued(g) \/ (w \in watching /\ g = f)
  <2>1. CASE i \in 1..Len(queue)
    BY <1>2, <1>3, <2>1 DEF Queued
  <2>2. CASE i \notin 1..Len(queue)
    <3>1. w \in watching /\ i = Len(queue) + 1
      BY <1>2, <2>2
    <3> QED BY <1>2, <1>3, <3>1 DEF Event
  <2> QED BY <2>1, <2>2
<1>4. ASSUME NEW g, NEW i \in 1..Len(queue), queue[i].file = g
      PROVE  Queued(g)'
  <2>1. i \in 1..Len(queue') /\ queue'[i].file = g
    BY <1>2, <1>4
  <2> QED BY <2>1 DEF Queued
<1>5. w \in watching => Queued(f)'
  <2>1. w \in watching => Len(queue) + 1 \in 1..Len(queue')
    BY <1>2
  <2> QED BY <1>2, <2>1 DEF Queued, Event
<1> QED BY <1>3, <1>4, <1>5 DEF Queued

\* The initial states are those of ReportCopies.
LEMMA InitPromised == Init => Promise!Init
<1>. SUFFICES ASSUME Init PROVE Promise!Init
  OBVIOUS
<1>1. Len(queue) = 0
  BY DEF Init
<1>2. Due = {}
  BY <1>1 DEF Init, Due, Queued
<1> QED BY <1>2 DEF Init, Promise!Init, Copyable

\* What ProcessFile does to the copies and to the errors, in the terms of ReportCopies.
LEMMA StepOfFile ==
  ASSUME IInv, NEW f \in Copyable, UNCHANGED exists, copies[f] = 0,
         f \in Due \/ (f \in LogFiles /\ \A g \in LogFiles : copies[g] = 0),
         NEW given, given \cap Reports \subseteq Due, f \in given, given \subseteq Copyable,
         \/ Copy(f) /\ Due' = Due \ {f}
         \/ Fail(f, given) /\ Due' = Due \ given
  PROVE  Promise!Next
<1>1. /\ copies \in [Copyable -> Nat] /\ Copyable = Reports \cup LogFiles
      /\ Due \subseteq Reports
  BY DEF IInv, CoreInv, TypeOK, Copyable, Due
<1>2. Copied(f) = [copies EXCEPT ![f] = 1]
  BY <1>1 DEF Copied
<1>3. CASE Copy(f) /\ Due' = Due \ {f}
  <2>1. copies' = [copies EXCEPT ![f] = 1] /\ failed' = failed /\ Due' = Due \ {f}
    BY <1>2, <1>3 DEF Copy
  <2>2. Promise!Copy(f)
    BY <2>1 DEF Promise!Copy, Promise!Once
  <2> QED BY <1>1, <2>2 DEF Promise!Next
<1>4. CASE Fail(f, given) /\ Due' = Due \ given
  <2>. DEFINE lost == given \cap Reports
  <2>1. failed' = failed \cup given /\ copies' \in {copies, [copies EXCEPT ![f] = 1]}
    BY <1>2, <1>4 DEF Fail
  <2>2. f \in lost \cup LogFiles /\ lost \in SUBSET Due /\ Due' = Due \ lost
    BY <1>1, <1>4
  <2>3. UNCHANGED copies \/ Promise!Once(f)
    BY <2>1 DEF Promise!Once
  <2>4. (failed \cap Reports)' = (failed \cap Reports) \cup lost
    BY <2>1
  <2>. HIDE DEF lost
  <2>5. Promise!Fail
    BY <2>2, <2>3, <2>4 DEF Promise!Fail
  <2> QED BY <2>5 DEF Promise!Next
<1> QED BY <1>3, <1>4

\* Every step is a step of ReportCopies, or leaves its state alone.
LEMMA StepPromised == IInv /\ [Next]_vars => [Promise!Next]_(Promise!vars)
<1>. DEFINE G == Promise!Next \/ UNCHANGED Promise!vars
<1>. SUFFICES ASSUME IInv, [Next]_vars PROVE G
  OBVIOUS
<1>0. /\ CoreInv /\ TypeOK /\ FilesInv /\ QueueInv /\ TodoInv /\ PhaseInv /\ StrayInv
      /\ queue \in Seq(Events) /\ Len(queue) \in Nat
  BY DEF IInv, CoreInv, TypeOK, Events
<1>. USE <1>0, FilesAssumption
<1>1. ASSUME UNCHANGED <<todo, queue, copies, failed, exists>> PROVE G
  <2>1. Due' = Due
    BY <1>1 DEF Due, Queued
  <2> QED BY <1>1, <2>1 DEF Promise!vars
<1>2. \A r \in Reports : Queued(r) => "dir" \in watching
  BY DEF Queued, QueueInv
<1>3. ASSUME ListExisting \/ ListOnce PROVE G
  <2>1. /\ pc \in {"list", "once"} /\ UNCHANGED <<queue, exists, copies, failed>>
        /\ todo' = exists \cap Reports \/ UNCHANGED todo
    BY <1>3 DEF ListExisting, ListOnce, Goto, copyVars
  <2>2. CASE UNCHANGED todo
    BY <1>1, <2>1, <2>2
  <2>3. CASE todo' = exists \cap Reports
    <3>1. "dir" \notin watching /\ \A r \in Reports : copies[r] = 0
      BY <2>1 DEF PhaseInv
    <3>2. \A r \in Reports : ~Queued(r)'
      BY <1>2, <2>1, <3>1 DEF Queued
    <3>3. Due' = exists \cap Reports
      BY <2>3, <3>2 DEF Due
    <3>4. Promise!List
      BY <2>1, <3>1, <3>3 DEF Promise!List
    <3> QED BY <3>4 DEF Promise!Next
  <2> QED BY <2>1, <2>2, <2>3
<1>4. ASSUME Stat \/ ListExisting \/ ListOnce \/ AddWatch \/ ExitOnce \/ Return PROVE G
  <2>1. ASSUME Stat \/ AddWatch \/ ExitOnce \/ Return PROVE G
    BY <1>1, <2>1 DEF Stat, AddWatch, ExitOnce, Return, copyVars
  <2> QED BY <1>3, <1>4, <2>1
<1>5. ASSUME FirstWatch \/ UNCHANGED vars PROVE G
  BY <1>1, <1>5 DEF FirstWatch, vars, copyVars
<1>6. ASSUME Restart PROVE G
  <2>1. /\ queue' = <<>> /\ todo' = {} /\ failed' = {} /\ UNCHANGED exists
        /\ \/ UNCHANGED copies
           \/ copies' = [f \in Copyable |-> IF f \in Reports THEN 0 ELSE copies[f]]
    BY <1>6 DEF Restart
  <2>2. Due' = {}
    <3>1. Len(queue') = 0
      BY <2>1
    <3> QED BY <2>1, <3>1 DEF Due, Queued
  <2>3. DOMAIN copies = Copyable
    BY DEF TypeOK
  <2>4. Promise!Forget \/ Promise!Again
    BY <2>1, <2>2, <2>3 DEF Promise!Forget, Promise!Again
  <2> QED BY <2>4 DEF Promise!Next
<1>7. ASSUME queue # <<>>, HandleFile(Head(queue)) PROVE G
  <2>. DEFINE e == Head(queue)
  <2>1. /\ pc = "idle" /\ found /\ Received(e) /\ UNCHANGED <<todo, exists>>
        /\ (e.file # Dir /\ Copy(e.file)) \/ Fail(e.file, {e.file})
    BY <1>7 DEF HandleFile
  <2>2. /\ e \in Events /\ e = queue[1] /\ 1 \in 1..Len(queue)
        /\ Queued(e.file) /\ \A f : Queued(f)' <=> Queued(f) /\ f # e.file
    BY <1>7, <2>1, Pop, Popped
  <2>. HIDE DEF e
  <2>3. todo = {}
    BY <2>1 DEF TodoInv
  <2>4. Due' = Due \ {e.file}
    BY <2>1, <2>2, <2>3 DEF Due
  <2>5. CASE e.file # Dir
    <3>1. e.file \in Copyable /\ copies[e.file] = 0
      BY <2>2, <2>5 DEF Events, QueueInv
    <3>2. e.file \in LogFiles => \A g \in LogFiles : copies[g] = 0
      <4>1. SUFFICES ASSUME e.file \in LogFiles, NEW g \in LogFiles PROVE copies[g] = 0
        OBVIOUS
      <4>2. e.watch = "log"
        BY <2>2, <3>1, <4>1 DEF QueueInv, Events
      <4>3. queue[1] = Event("log", e.file)
        BY <2>2, <4>2 DEF Event, Events
      <4>4. Stray(e.file)
        BY <2>2, <4>3 DEF Stray
      <4>5. copies[g] > 0 => g = e.file
        BY <2>1, <4>1, <4>4 DEF StrayInv, Switched, Stray
      <4>6. copies[g] \in Nat
        BY DEF TypeOK, Copyable
      <4> QED BY <3>1, <4>5, <4>6
    <3>3. e.file \in Reports => e.file \in Due
      BY <2>2 DEF Due
    <3>4. Copy(e.file) \/ Fail(e.file, {e.file})
      BY <2>1
    <3>5. e.file \in Reports \cup LogFiles
      BY <3>1 DEF Copyable
    <3>. DEFINE given == {e.file}
    <3>6. given \cap Reports \subseteq Due /\ e.file \in given /\ given \subseteq Copyable
      BY <3>1, <3>3
    <3>7. (Copy(e.file) /\ Due' = Due \ {e.file}) \/ (Fail(e.file, given) /\ Due' = Due \ given)
      BY <2>4, <3>4
    <3>. HIDE DEF given
    <3> QED BY <2>1, <3>1, <3>2, <3>3, <3>5, <3>6, <3>7, StepOfFile
  <2>6. CASE e.file = Dir
    <3>1. copies' = copies /\ failed' = failed \cup {Dir}
      BY <2>1, <2>6 DEF Fail
    <3>2. Due' = Due /\ (failed \cap Reports)' = failed \cap Reports
      BY <2>4, <2>6, <3>1 DEF Due, Copyable
    <3> QED BY <2>1, <3>1, <3>2 DEF Promise!vars
  <2> QED BY <2>5, <2>6
<1>8. ASSUME queue # <<>>, HandleDirectory(Head(queue)) PROVE G
  <2>1. ~found /\ Received(Head(queue)) /\ UNCHANGED <<todo, copies, failed, exists>>
    BY <1>8 DEF HandleDirectory, copyVars
  <2>2. \A r \in Reports : ~Queued(r)
    BY <1>2, <2>1 DEF PhaseInv
  <2>3. Due' = Due
    BY <1>8, <2>1, <2>2, Popped DEF Due
  <2> QED BY <2>1, <2>3 DEF Promise!vars
<1>9. ASSUME NEW sending \in 0..1, RemoveWatch(sending) PROVE G
  <2>1. UNCHANGED <<todo, copies, failed, exists>>
    BY <1>9 DEF RemoveWatch, copyVars
  <2>2. \A r \in Reports : ~Queued(r)
    BY <1>2, <1>9 DEF RemoveWatch, Goto, PhaseInv
  <2>3. \A r \in Reports : ~Queued(r)'
    BY <1>9, <2>2, Truncated DEF Queued
  <2>4. Due' = Due
    BY <2>1, <2>2, <2>3 DEF Due
  <2> QED BY <2>1, <2>4 DEF Promise!vars
<1>10. ASSUME NEW f \in Reports, CopyExisting(f) \/ CreateReport(f) PROVE G
  <2>0. f \in Copyable
    BY DEF Copyable
  <2>1. CASE CopyExisting(f)
    <3>1. /\ pc \in {"existing", "copying"} /\ f \in todo /\ UNCHANGED <<queue, exists>>
          /\ \/ Copy(f) /\ todo' = todo \ {f}
             \/ Fail(f, todo) /\ todo' = {}
      BY <2>1 DEF CopyExisting
    <3>3. \A r \in Reports : ~Queued(r) /\ ~Queued(r)'
      BY <1>2, <3>1 DEF PhaseInv, Queued
    <3>4. copies[f] = 0 /\ f \in Due
      BY <3>1 DEF TodoInv, Due
    <3>5. Due = todo /\ Due' = todo'
      <4>1. todo \subseteq Reports /\ todo' \subseteq Reports
        BY <3>1 DEF TypeOK
      <4> QED BY <3>3, <4>1 DEF Due
    <3>6. todo \cap Reports \subseteq Due /\ todo \subseteq Copyable
      BY <3>5 DEF TypeOK, Copyable
    <3>7. (Copy(f) /\ Due' = Due \ {f}) \/ (Fail(f, todo) /\ Due' = Due \ todo)
      BY <3>1, <3>5
    <3> QED BY <2>0, <3>1, <3>4, <3>6, <3>7, StepOfFile
  <2>2. CASE CreateReport(f)
    <3>1. /\ Create(f, "dir") /\ UNCHANGED <<todo, copies, failed>>
          /\ f \notin exists /\ exists' = exists \cup {f}
      BY <2>2 DEF CreateReport, Create, copyVars
    <3>2. \A g : Queued(g)' <=> Queued(g) \/ ("dir" \in watching /\ g = f)
      BY <2>0, <3>1, Pushed
    <3>3. Due' \in {Due, Due \cup {f}}
      BY <3>1, <3>2 DEF Due
    <3>4. exists' \cap Reports = (exists \cap Reports) \cup {f}
      BY <3>1
    <3>5. Promise!Make(f)
      BY <3>1, <3>3, <3>4 DEF Promise!Make
    <3> QED BY <3>5 DEF Promise!Next
  <2> QED BY <1>10, <2>1, <2>2
<1>11. ASSUME CreateInLogs PROVE G
  <2>1. PICK f \in LogFiles \cup {Dir} : Create(f, "log")
    BY <1>11 DEF CreateInLogs
  <2>2. f \in Copyable \cup {Dir} /\ f \notin Reports
    BY DEF Copyable
  <2>3. UNCHANGED <<todo, copies, failed>> /\ exists' = exists \cup {f}
    BY <2>1 DEF Create, copyVars
  <2>4. \A g : Queued(g)' <=> Queued(g) \/ ("log" \in watching /\ g = f)
    BY <2>1, <2>2, Pushed
  <2>5. Due' = Due
    BY <2>2, <2>3, <2>4 DEF Due
  <2>6. exists' \cap Reports = exists \cap Reports
    BY <2>2, <2>3
  <2> QED BY <2>3, <2>5, <2>6 DEF Promise!vars
<1>. HIDE DEF G
<1> QED
  BY NextCases, <1>4, <1>5, <1>6, <1>7, <1>8, <1>9, <1>10, <1>11

\* The watcher keeps the promise of ReportCopies: one copy at most, and no report that
\* is due forgotten unless an error gives it up, however its two watches, the listing,
\* the events and the restarts of the program interleave.
THEOREM CopiesPromised == Safety => ImplementsReportCopies
<1>1. Safety => Promise!Init /\ [][Promise!Next]_(Promise!vars)
  BY InitPromised, StepPromised, Invariant, PTL DEF Safety
<1> QED BY <1>1 DEF ImplementsReportCopies, Promise!Spec
=============================================================================
