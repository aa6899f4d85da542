------------------------- MODULE FluentWatcherProofs -------------------------
(***************************************************************************)
(* Proofs that the supervisor keeps its safety invariants for any number   *)
(* of watchers, processes, file changes and restarts.                      *)
(***************************************************************************)
EXTENDS FluentWatcher, TLAPS

\* The queue of receivers holds goroutines that are blocked, each once.
WaitersInv ==
  /\ \A i \in 1..Len(waiters) : pc[waiters[i]] = "blocked"
  /\ \A i, j \in 1..Len(waiters) : waiters[i] = waiters[j] => i = j

\* The loop has a process from Start to the end of Wait, and only then.
LoopInv ==
  /\ pc[Loop] \in {"reap", "clear"} => cmd # NoProc
  /\ pc[Loop] \notin {"wait", "reap", "clear"} => cmd = NoProc

\* The mutex is held, between two steps, by the goroutine about to kill.
MutexInv == \A r \in Resetters : pc[r] = "kill" <=> mutex = r

\* Once the mutex is free again, a process marked as stopped, or waited for, no
\* longer runs.
MarkedInv ==
  mutex = Free /\ cmd # NoProc /\ (cleanStop \/ pc[Loop] = "clear") => ~Running(cmd)

\* What ties the processes to cmd, cleanStop, the mutex and the loop.
ProcInv == LoopInv /\ MutexInv /\ MarkedInv /\ KillHasTarget /\ RunningIsCurrent

\* No watcher has announced a version that has not been made.
AnnouncedInv == \A w \in Watchers : announced[w] <= version

\* The inductive invariant.
IInv == TypeOK /\ WaitersInv /\ ProcInv /\ AnnouncedInv /\ StaleIsPending /\ BackoffIsServed

-----------------------------------------------------------------------------
\* A step of Next is a step of one of the actions.
LEMMA NextCases ==
  ASSUME Next
  PROVE  \/ CheckCancel \/ StartFails \/ StartFatal \/ Wait \/ Reap \/ Clear \/ Arm
         \/ Load \/ Count \/ Fire \/ InterruptLoop
         \/ \E p \in Procs : StartOK(p) \/ ProcEnds(p)
         \/ \E g \in Goroutines : Receive(g)
         \/ \E r \in Resetters : \/ StopBegin(r) \/ Kill(r) \/ HaltTimer(r)
                                 \/ Rearm(r) \/ ZeroRestarts(r)
         \/ \E w \in Watchers : \/ Notice(w) \/ ReturnWatcher(w)
                                \/ \E kept \in 0..1 : InterruptWatcher(w, kept)
                                \/ \E kind \in Kinds : Change(w, kind)
BY DEF Next, LoopStep, WatcherStep, ResetStep, InterruptStep, Environment, Resetters,
       Goroutines

\* What the head and the tail of a queue hold.
LEMMA QueueFacts ==
  ASSUME NEW S, NEW s \in Seq(S), s # <<>>
  PROVE  /\ Head(s) \in S
         /\ Head(s) = s[1]
         /\ Tail(s) \in Seq(S)
         /\ Len(s) \in Nat /\ Len(s) > 0
         /\ Len(Tail(s)) = Len(s) - 1
         /\ \A i \in 1..Len(Tail(s)) : i + 1 \in 1..Len(s) /\ Tail(s)[i] = s[i + 1]
OBVIOUS

\* A goroutine that Goto moves reaches the place, and no other one moves.
LEMMA GotoMoves ==
  ASSUME TypeOK, NEW g \in Goroutines, NEW place, Goto(g, place)
  PROVE  /\ pc'[g] = place
         /\ \A h \in Goroutines : h # g => pc'[h] = pc[h]
         /\ DOMAIN pc' = Goroutines
BY DEF Goto, TypeOK

-----------------------------------------------------------------------------
(* Type correctness.                                                       *)

\* The initial state is well typed.
LEMMA InitTypeOK == Init => TypeOK
<1>. SUFFICES ASSUME Init PROVE TypeOK
  OBVIOUS
<1>1. waiters \in Seq(Goroutines) /\ events \in [Watchers -> Seq(Kinds)]
  BY DEF Init
<1>2. /\ pc \in [Goroutines -> LoopPlaces \cup ResetPlaces]
      /\ pc[Loop] \in LoopPlaces
      /\ \A r \in Resetters : pc[r] \in ResetPlaces
  BY ConstantsAssumption DEF Init, LoopPlaces, ResetPlaces, Resetters, Goroutines
<1>3. /\ 0 \in 0..MaxVersion /\ 0 \in 0..MaxRestartTimes
  BY ConstantsAssumption
<1>4. /\ seen \in [Procs -> 0..MaxVersion] /\ announced \in [Watchers -> 0..MaxVersion]
  BY <1>3 DEF Init
<1>5. cleanStop \in BOOLEAN /\ exited \in BOOLEAN
  BY DEF Init
<1> QED
  BY <1>1, <1>2, <1>3, <1>4, <1>5 DEF Init, TypeOK

\* Every step keeps the types.
LEMMA NextTypeOK == TypeOK /\ [Next]_vars => TypeOK'
<1>. SUFFICES ASSUME TypeOK, [Next]_vars PROVE TypeOK'
  OBVIOUS
<1>. USE ConstantsAssumption DEF TypeOK, Goto, Move, LoopPlaces, ResetPlaces, Resetters,
         Goroutines, fileVars, timerVars, procVars, countVars
<1>1. CASE CheckCancel BY <1>1 DEF CheckCancel
<1>2. CASE StartFails BY <1>2 DEF StartFails
<1>3. CASE StartFatal BY <1>3 DEF StartFatal
<1>4. CASE Wait BY <1>4 DEF Wait
<1>5. CASE Clear BY <1>5 DEF Clear
<1>6. CASE Arm BY <1>6 DEF Arm
<1>7. CASE Load BY <1>7 DEF Load
<1>8. CASE Count BY <1>8 DEF Count, Increment
<1>9. ASSUME NEW p \in Procs, StartOK(p) PROVE TypeOK'
  BY <1>9 DEF StartOK
<1>10. ASSUME NEW p \in Procs, ProcEnds(p) PROVE TypeOK'
  BY <1>10 DEF ProcEnds
<1>11. CASE Reap
  <2>1. restartTimes' \in 0..MaxRestartTimes BY <1>11 DEF Reap
  <2>2. procState' \in [Procs -> {"gone", "running", "killed", "zombie"}]
    BY <1>11 DEF Reap
  <2> QED BY <1>11, <2>1, <2>2 DEF Reap
<1>12. ASSUME NEW g \in Goroutines, Receive(g) PROVE TypeOK'
  <2>1. Append(waiters, g) \in Seq(Goroutines)
    BY <1>12
  <2>2. CASE timer = "fired"
    <3>1. pc' = [pc EXCEPT ![g] = AfterReceive(g)]
      BY <1>12, <2>2 DEF Receive
    <3>2. timer' = "idle" /\ UNCHANGED <<cmd, mutex, cleanStop, countVars, procVars,
                                        waiters, cancelled, fileVars, exited>>
      BY <1>12, <2>2 DEF Receive
    <3>3. /\ pc' \in [Goroutines -> LoopPlaces \cup ResetPlaces]
          /\ pc'[Loop] \in LoopPlaces
          /\ \A r \in Resetters : pc'[r] \in ResetPlaces
      <4>1. CASE g = Loop BY <3>1, <4>1 DEF AfterReceive
      <4>2. CASE g # Loop BY <3>1, <4>2 DEF AfterReceive
      <4> QED BY <4>1, <4>2
    <3> QED BY <3>2, <3>3
  <2>3. CASE timer # "fired" BY <1>12, <2>1, <2>3 DEF Receive
  <2> QED BY <2>2, <2>3
<1>13. CASE Fire
  <2>1. CASE waiters = <<>> BY <1>13, <2>1 DEF Fire
  <2>2. CASE waiters # <<>>
    <3>1. PICK h \in Goroutines : h = Head(waiters)
      BY <2>2
    <3>2. waiters' \in Seq(Goroutines)
      <4>1. waiters' = Tail(waiters) BY <1>13, <2>2 DEF Fire
      <4> QED BY <2>2, <4>1, QueueFacts
    <3>3. pc' = [pc EXCEPT ![h] = AfterReceive(h)]
      BY <1>13, <2>2, <3>1 DEF Fire
    <3>4. timer' = "idle" /\ UNCHANGED <<cmd, mutex, cleanStop, countVars, procVars,
                                        cancelled, fileVars, exited>>
      BY <1>13, <2>2 DEF Fire
    <3>5. /\ pc' \in [Goroutines -> LoopPlaces \cup ResetPlaces]
          /\ pc'[Loop] \in LoopPlaces
          /\ \A r \in Resetters : pc'[r] \in ResetPlaces
      <4>1. CASE h = Loop BY <3>3, <4>1 DEF AfterReceive
      <4>2. CASE h # Loop BY <3>3, <4>2 DEF AfterReceive
      <4> QED BY <4>1, <4>2
    <3> QED BY <3>2, <3>4, <3>5
  <2> QED BY <2>1, <2>2
<1>14. ASSUME NEW r \in Resetters, StopBegin(r) PROVE TypeOK'
  BY <1>14 DEF StopBegin
<1>15. ASSUME NEW r \in Resetters, Kill(r) PROVE TypeOK'
  BY <1>15 DEF Kill
<1>16. ASSUME NEW r \in Resetters, HaltTimer(r) PROVE TypeOK'
  BY <1>16 DEF HaltTimer
<1>17. ASSUME NEW r \in Resetters, Rearm(r) PROVE TypeOK'
  BY <1>17 DEF Rearm
<1>18. ASSUME NEW r \in Resetters, ZeroRestarts(r) PROVE TypeOK'
  BY <1>18 DEF ZeroRestarts
<1>19. ASSUME NEW w \in Watchers, Notice(w) PROVE TypeOK'
  BY <1>19 DEF Notice
<1>20. ASSUME NEW w \in Watchers, ReturnWatcher(w) PROVE TypeOK'
  BY <1>20 DEF ReturnWatcher
<1>21. ASSUME NEW w \in Watchers, NEW kept \in 0..1, InterruptWatcher(w, kept)
       PROVE  TypeOK'
  BY <1>21 DEF InterruptWatcher
<1>22. CASE InterruptLoop BY <1>22 DEF InterruptLoop
<1>23. ASSUME NEW w \in Watchers, NEW kind \in Kinds, Change(w, kind) PROVE TypeOK'
  BY <1>23 DEF Change
<1>24. CASE UNCHANGED vars BY <1>24 DEF vars
<1> QED
  BY NextCases, <1>1, <1>2, <1>3, <1>4, <1>5, <1>6, <1>7, <1>8, <1>9, <1>10, <1>11,
     <1>12, <1>13, <1>14, <1>15, <1>16, <1>17, <1>18, <1>19, <1>20, <1>21, <1>22,
     <1>23, <1>24

\* Every state of the supervisor is well typed.
THEOREM TypeCorrect == Spec => []TypeOK
BY InitTypeOK, NextTypeOK, PTL DEF Spec

-----------------------------------------------------------------------------
(* The queue of receivers.                                                 *)

\* Only Receive and Fire change the queue; every other step leaves it and
\* moves no blocked goroutine.
LEMMA OthersKeepWaiters ==
  ASSUME TypeOK, WaitersInv, waiters' = waiters,
         \A g \in Goroutines : pc[g] = "blocked" => pc'[g] = "blocked"
  PROVE  WaitersInv'
BY DEF WaitersInv, TypeOK

\* Every step keeps the queue of receivers in order.
LEMMA NextWaitersInv == TypeOK /\ WaitersInv /\ [Next]_vars => WaitersInv'
<1>. SUFFICES ASSUME TypeOK, WaitersInv, [Next]_vars PROVE WaitersInv'
  OBVIOUS
<1>1. ASSUME NEW g \in Goroutines, Receive(g) PROVE WaitersInv'
  <2>1. CASE timer = "fired"
    <3>1. waiters' = waiters /\ pc[g] = "receive" /\ Goto(g, AfterReceive(g))
      BY <1>1, <2>1 DEF Receive
    <3> QED BY <3>1, GotoMoves, OthersKeepWaiters
  <2>2. CASE timer # "fired"
    <3>1. waiters' = Append(waiters, g) /\ pc[g] = "receive" /\ Goto(g, "blocked")
      BY <1>1, <2>2 DEF Receive
    <3>2. waiters \in Seq(Goroutines) /\ Len(waiters) \in Nat
      BY DEF TypeOK
    <3>3. Len(waiters') = Len(waiters) + 1 /\ waiters'[Len(waiters) + 1] = g
      BY <3>1, <3>2
    <3>4. \A i \in 1..Len(waiters) : waiters'[i] = waiters[i] /\ waiters[i] # g
      BY <3>1, <3>2 DEF WaitersInv
    <3>5. \A i \in 1..Len(waiters) : waiters[i] \in Goroutines
      BY <3>2
    <3>6. pc'[g] = "blocked" /\ \A h \in Goroutines : h # g => pc'[h] = pc[h]
      BY <3>1, GotoMoves
    <3>7. \A i \in 1..Len(waiters') : i \in 1..Len(waiters) \/ i = Len(waiters) + 1
      BY <3>2, <3>3
    <3> QED BY <3>3, <3>4, <3>5, <3>6, <3>7 DEF WaitersInv
  <2> QED BY <2>1, <2>2
<1>2. CASE Fire
  <2>1. CASE waiters = <<>>
    BY <1>2, <2>1, OthersKeepWaiters DEF Fire
  <2>2. CASE waiters # <<>>
    <3>1. waiters' = Tail(waiters) /\ Goto(Head(waiters), AfterReceive(Head(waiters)))
      BY <1>2, <2>2 DEF Fire
    <3>2. waiters \in Seq(Goroutines)
      BY DEF TypeOK
    <3>3. /\ Head(waiters) \in Goroutines /\ Head(waiters) = waiters[1]
          /\ Len(waiters) \in Nat /\ Len(waiters) > 0
          /\ Len(waiters') = Len(waiters) - 1
          /\ \A i \in 1..Len(waiters') :
               i + 1 \in 1..Len(waiters) /\ waiters'[i] = waiters[i + 1]
      BY <2>2, <3>1, <3>2, QueueFacts
    <3>4. \A h \in Goroutines : h # Head(waiters) => pc'[h] = pc[h]
      BY <3>1, <3>3, GotoMoves
    <3>5. ASSUME NEW i \in 1..Len(waiters') PROVE pc'[waiters'[i]] = "blocked"
      <4>1. i + 1 # 1 /\ 1 \in 1..Len(waiters)
        BY <3>3
      <4>2. waiters[i + 1] # waiters[1] /\ pc[waiters[i + 1]] = "blocked"
        BY <3>3, <4>1 DEF WaitersInv
      <4>3. waiters[i + 1] \in Goroutines
        BY <3>2, <3>3
      <4> QED BY <3>3, <3>4, <4>2, <4>3
    <3>6. ASSUME NEW i \in 1..Len(waiters'), NEW j \in 1..Len(waiters'),
                 waiters'[i] = waiters'[j]
          PROVE  i = j
      <4>1. i + 1 = j + 1
        BY <3>3, <3>6 DEF WaitersInv
      <4> QED BY <3>3, <4>1
    <3> QED BY <3>5, <3>6 DEF WaitersInv
  <2> QED BY <2>1, <2>2
<1>3. CASE UNCHANGED vars
  BY <1>3, OthersKeepWaiters DEF vars
<1>4. ASSUME ~(UNCHANGED vars), ~Fire, \A g \in Goroutines : ~Receive(g)
      PROVE  /\ waiters' = waiters
             /\ \A g \in Goroutines : pc[g] = "blocked" => pc'[g] = "blocked"
  <2>. USE ConstantsAssumption DEF Goto, Move, fileVars, timerVars, procVars, countVars,
           Goroutines, Resetters, TypeOK
  <2>1. CASE CheckCancel \/ StartFails \/ StartFatal \/ Wait
    BY <2>1 DEF CheckCancel, StartFails, StartFatal, Wait
  <2>2. CASE Reap \/ Clear \/ Arm \/ Load \/ Count
    BY <2>2 DEF Reap, Clear, Arm, Load, Count
  <2>3. ASSUME NEW p \in Procs, StartOK(p) \/ ProcEnds(p)
        PROVE  /\ waiters' = waiters
               /\ \A g \in Goroutines : pc[g] = "blocked" => pc'[g] = "blocked"
    BY <2>3 DEF StartOK, ProcEnds
  <2>4. ASSUME NEW r \in Resetters, \/ StopBegin(r) \/ Kill(r) \/ HaltTimer(r)
                                    \/ Rearm(r) \/ ZeroRestarts(r)
        PROVE  /\ waiters' = waiters
               /\ \A g \in Goroutines : pc[g] = "blocked" => pc'[g] = "blocked"
    BY <2>4 DEF StopBegin, Kill, HaltTimer, Rearm, ZeroRestarts
  <2>5. ASSUME NEW w \in Watchers, \/ Notice(w) \/ ReturnWatcher(w)
                                   \/ \E kept \in 0..1 : InterruptWatcher(w, kept)
                                   \/ \E kind \in Kinds : Change(w, kind)
        PROVE  /\ waiters' = waiters
               /\ \A g \in Goroutines : pc[g] = "blocked" => pc'[g] = "blocked"
    BY <2>5 DEF Notice, ReturnWatcher, InterruptWatcher, Change
  <2>6. CASE InterruptLoop
    BY <2>6 DEF InterruptLoop
  <2> QED BY NextCases, <1>4, <2>1, <2>2, <2>3, <2>4, <2>5, <2>6
<1> QED BY <1>1, <1>2, <1>3, <1>4, OthersKeepWaiters

-----------------------------------------------------------------------------
(* A backoff is always served.                                             *)

\* A step that leaves the timer, moves no resetTimer away from its rearming
\* and does not bring the loop into its backoff.
LEMMA OthersKeepBackoff ==
  ASSUME TypeOK, BackoffIsServed, timer' = timer,
         \A r \in Resetters : pc[r] = "rearm" => pc'[r] = "rearm",
         pc'[Loop] \in {"receive", "blocked"} => pc[Loop] \in {"receive", "blocked"}
  PROVE  BackoffIsServed'
BY DEF BackoffIsServed

\* Every step keeps a firing or a rearming ahead of a loop in its backoff.
LEMMA NextBackoffIsServed ==
  TypeOK /\ WaitersInv /\ BackoffIsServed /\ [Next]_vars => BackoffIsServed'
<1>. SUFFICES ASSUME TypeOK, WaitersInv, BackoffIsServed, [Next]_vars
              PROVE  BackoffIsServed'
  OBVIOUS
<1>. USE ConstantsAssumption
<1>1. CASE Arm \/ \E r \in Resetters : Rearm(r)
  BY <1>1 DEF Arm, Rearm, BackoffIsServed
<1>2. ASSUME NEW r \in Resetters, HaltTimer(r) PROVE BackoffIsServed'
  <2>1. r # Loop /\ r \in Goroutines /\ pc[r] = "halt"
    BY <1>2 DEF HaltTimer, Move, Resetters, Goroutines
  <2>2. CASE timer = "idle"
    <3>1. Goto(r, "receive") /\ timer' = timer
      BY <1>2, <2>2 DEF HaltTimer, Move
    <3>2. pc'[Loop] = pc[Loop] /\ \A h \in Resetters : pc[h] = "rearm" => pc'[h] = "rearm"
      BY <2>1, <3>1, GotoMoves DEF Resetters, Goroutines
    <3> QED BY <3>1, <3>2, OthersKeepBackoff
  <2>3. CASE timer # "idle"
    <3>1. Goto(r, "rearm")
      BY <1>2, <2>3 DEF HaltTimer, Move
    <3> QED BY <2>1, <3>1, GotoMoves DEF BackoffIsServed
  <2> QED BY <2>2, <2>3
<1>3. ASSUME NEW g \in Goroutines, Receive(g) PROVE BackoffIsServed'
  <2>1. CASE timer = "fired"
    <3>1. Goto(g, AfterReceive(g))
      BY <1>3, <2>1 DEF Receive
    <3>2. pc'[g] = AfterReceive(g)
      BY <3>1, GotoMoves
    <3> QED BY <3>2 DEF AfterReceive, BackoffIsServed, Goroutines
  <2>2. CASE timer # "fired"
    <3>1. pc[g] = "receive" /\ Goto(g, "blocked") /\ timer' = timer
      BY <1>3, <2>2 DEF Receive
    <3>2. \A h \in Goroutines : h # g => pc'[h] = pc[h]
      BY <3>1, GotoMoves
    <3> QED BY <3>1, <3>2, OthersKeepBackoff DEF Resetters, Goroutines
  <2> QED BY <2>1, <2>2
<1>4. CASE Fire
  <2>1. CASE waiters = <<>>
    BY <1>4, <2>1 DEF Fire, BackoffIsServed
  <2>2. CASE waiters # <<>>
    <3>1. PICK h \in Goroutines : h = Head(waiters)
      BY <2>2 DEF TypeOK
    <3>2. pc'[h] = AfterReceive(h)
      BY <1>4, <2>2, <3>1, GotoMoves DEF Fire
    <3> QED BY <3>2 DEF AfterReceive, BackoffIsServed, Goroutines
  <2> QED BY <2>1, <2>2
<1>5. CASE UNCHANGED vars
  BY <1>5, OthersKeepBackoff DEF vars
<1>6. ASSUME ~(UNCHANGED vars), ~Fire, ~Arm, \A g \in Goroutines : ~Receive(g),
             \A r \in Resetters : ~HaltTimer(r) /\ ~Rearm(r)
      PROVE  /\ timer' = timer
             /\ \A r \in Resetters : pc[r] = "rearm" => pc'[r] = "rearm"
             /\ pc'[Loop] \in {"receive", "blocked"} => pc[Loop] \in {"receive", "blocked"}
  <2>. USE DEF Goto, Move, fileVars, timerVars, procVars, countVars, Goroutines, Resetters,
           TypeOK
  <2>1. CASE CheckCancel \/ StartFails \/ StartFatal \/ Wait
    BY <2>1 DEF CheckCancel, StartFails, StartFatal, Wait
  <2>2. CASE Reap \/ Clear \/ Load \/ Count \/ InterruptLoop
    BY <2>2 DEF Reap, Clear, Load, Count, InterruptLoop
  <2>3. ASSUME NEW p \in Procs, StartOK(p) \/ ProcEnds(p)
        PROVE  /\ timer' = timer
               /\ \A r \in Resetters : pc[r] = "rearm" => pc'[r] = "rearm"
               /\ pc'[Loop] \in {"receive", "blocked"} => pc[Loop] \in {"receive", "blocked"}
    BY <2>3 DEF StartOK, ProcEnds
  <2>4. ASSUME NEW r \in Resetters, StopBegin(r) \/ Kill(r) \/ ZeroRestarts(r)
        PROVE  /\ timer' = timer
               /\ \A h \in Resetters : pc[h] = "rearm" => pc'[h] = "rearm"
               /\ pc'[Loop] \in {"receive", "blocked"} => pc[Loop] \in {"receive", "blocked"}
    BY <2>4 DEF StopBegin, Kill, ZeroRestarts
  <2>5. ASSUME NEW w \in Watchers, \/ Notice(w) \/ ReturnWatcher(w)
                                   \/ \E kept \in 0..1 : InterruptWatcher(w, kept)
                                   \/ \E kind \in Kinds : Change(w, kind)
        PROVE  /\ timer' = timer
               /\ \A r \in Resetters : pc[r] = "rearm" => pc'[r] = "rearm"
               /\ pc'[Loop] \in {"receive", "blocked"} => pc[Loop] \in {"receive", "blocked"}
    BY <2>5 DEF Notice, ReturnWatcher, InterruptWatcher, Change
  <2> QED BY NextCases, <1>6, <2>1, <2>2, <2>3, <2>4, <2>5
<1> QED BY <1>1, <1>2, <1>3, <1>4, <1>5, <1>6, OthersKeepBackoff

\* A loop that backs off is never left asleep by concurrent resetTimers
\* (backoff, resetTimer).
THEOREM BackoffServed == Spec => []BackoffIsServed
<1>1. Init => WaitersInv /\ BackoffIsServed
  BY DEF Init, WaitersInv, BackoffIsServed, Goroutines
<1> QED
  BY <1>1, InitTypeOK, NextTypeOK, NextWaitersInv, NextBackoffIsServed, PTL DEF Spec

-----------------------------------------------------------------------------
(* The process and the mutex.                                              *)

\* A step that leaves cmd, mutex, cleanStop and the processes, does not bring
\* the loop to or from a place where it has a process and moves no goroutine to
\* or from its kill.
LEMMA OthersKeepProcInv ==
  ASSUME TypeOK, ProcInv, UNCHANGED <<cmd, mutex, cleanStop, procState>>,
         \A r \in Resetters : pc'[r] = "kill" <=> pc[r] = "kill",
         \/ pc'[Loop] = pc[Loop]
         \/ /\ pc[Loop] \notin {"wait", "reap", "clear"}
            /\ pc'[Loop] \notin {"wait", "reap", "clear"}
  PROVE  ProcInv'
BY DEF ProcInv, LoopInv, MutexInv, MarkedInv, KillHasTarget, RunningIsCurrent, Running

\* Every step keeps what ties the processes to cmd, cleanStop and the mutex.
LEMMA NextProcInv == TypeOK /\ WaitersInv /\ ProcInv /\ [Next]_vars => ProcInv'
<1>. SUFFICES ASSUME TypeOK, WaitersInv, ProcInv, [Next]_vars PROVE ProcInv'
  OBVIOUS
<1>. USE ConstantsAssumption
<1>1. ASSUME NEW p \in Procs, StartOK(p) PROVE ProcInv'
  <2>1. /\ pc' = [pc EXCEPT ![Loop] = "wait"] /\ mutex = Free /\ mutex' = Free
        /\ cmd = NoProc /\ cmd' = p /\ cleanStop' = FALSE
        /\ procState' = [procState EXCEPT ![p] = "running"]
    BY <1>1 DEF StartOK, Move, Goto
  <2>2. \A q \in Procs : procState[q] # "running"
    BY <2>1 DEF ProcInv, RunningIsCurrent, Running
  <2>3. pc'[Loop] = "wait" /\ \A r \in Resetters : pc'[r] = pc[r]
    BY <2>1 DEF TypeOK, Goroutines
  <2>4. LoopInv' /\ MarkedInv'
    BY <2>1, <2>3 DEF LoopInv, MarkedInv
  <2>5. MutexInv' /\ KillHasTarget'
    BY <2>1, <2>3 DEF ProcInv, MutexInv, KillHasTarget
  <2>6. RunningIsCurrent'
    BY <2>1, <2>2 DEF RunningIsCurrent, Running, TypeOK
  <2> QED BY <2>4, <2>5, <2>6 DEF ProcInv
<1>2. CASE StartFails
  <2>1. /\ pc' = [pc EXCEPT ![Loop] = "wait"] /\ cmd = NoProc
        /\ UNCHANGED <<cmd, mutex, procState>>
    BY <1>2 DEF StartFails, Move, Goto, procVars
  <2>2. pc'[Loop] = "wait" /\ \A r \in Resetters : pc'[r] = pc[r]
    BY <2>1 DEF TypeOK, Goroutines
  <2> QED
    BY <2>1, <2>2 DEF ProcInv, LoopInv, MutexInv, MarkedInv, KillHasTarget,
                      RunningIsCurrent, Running
<1>3. CASE Wait
  <2>1. /\ pc[Loop] = "wait" /\ UNCHANGED <<cmd, mutex, cleanStop, procState>>
        /\ pc' = [pc EXCEPT ![Loop] = IF cmd = NoProc THEN "arm"
                                      ELSE IF cleanStop THEN "clear" ELSE "reap"]
    BY <1>3 DEF Wait, Goto, procVars
  <2>2. /\ pc'[Loop] = IF cmd = NoProc THEN "arm" ELSE IF cleanStop THEN "clear" ELSE "reap"
        /\ \A r \in Resetters : pc'[r] = pc[r]
    BY <2>1 DEF TypeOK, Goroutines
  <2> QED
    BY <2>1, <2>2 DEF ProcInv, LoopInv, MutexInv, MarkedInv, KillHasTarget,
                      RunningIsCurrent, Running
<1>4. CASE Reap
  <2>1. /\ pc[Loop] = "reap" /\ UNCHANGED <<cmd, mutex, cleanStop>>
        /\ pc' = [pc EXCEPT ![Loop] = "clear"]
        /\ procState' = [procState EXCEPT ![cmd] = "gone"]
    BY <1>4 DEF Reap, Move, Goto
  <2>2. pc'[Loop] = "clear" /\ \A r \in Resetters : pc'[r] = pc[r]
    BY <2>1 DEF TypeOK, Goroutines
  <2>3. cmd \in Procs
    BY <2>1 DEF TypeOK, ProcInv, LoopInv
  <2>4. /\ procState'[cmd] = "gone"
        /\ \A q \in Procs : q # cmd => procState'[q] = procState[q]
    BY <2>1, <2>3 DEF TypeOK
  <2> QED
    BY <2>1, <2>2, <2>3, <2>4 DEF ProcInv, LoopInv, MutexInv, MarkedInv, KillHasTarget,
                                  RunningIsCurrent, Running
<1>5. CASE Clear
  <2>1. /\ pc[Loop] = "clear" /\ mutex = Free /\ cmd' = NoProc
        /\ UNCHANGED <<mutex, cleanStop, procState>>
        /\ pc' = [pc EXCEPT ![Loop] = "arm"]
    BY <1>5 DEF Clear, Move, Goto, procVars
  <2>2. pc'[Loop] = "arm" /\ \A r \in Resetters : pc'[r] = pc[r]
    BY <2>1 DEF TypeOK, Goroutines
  <2>3. \A q \in Procs : ~Running(q)
    BY <2>1 DEF ProcInv, LoopInv, MarkedInv, RunningIsCurrent
  <2> QED
    BY <2>1, <2>2, <2>3 DEF ProcInv, LoopInv, MutexInv, MarkedInv, KillHasTarget,
                            RunningIsCurrent, Running
<1>6. ASSUME NEW r \in Resetters, StopBegin(r) PROVE ProcInv'
  <2>1. CASE cmd = NoProc
    <3>1. UNCHANGED <<cmd, mutex, cleanStop, procState>> /\ pc[r] = "stop" /\ Goto(r, "halt")
      BY <1>6, <2>1 DEF StopBegin, procVars
    <3> QED BY <3>1, GotoMoves, OthersKeepProcInv DEF Resetters, Goroutines
  <2>2. CASE cmd # NoProc
    <3>1. /\ UNCHANGED <<cmd, procState>> /\ mutex = Free /\ mutex' = r
          /\ Goto(r, "kill")
      BY <1>6, <2>2 DEF StopBegin, procVars
    <3>2. pc'[r] = "kill" /\ \A g \in Goroutines : g # r => pc'[g] = pc[g]
      BY <3>1, GotoMoves DEF Goroutines
    <3>3. Loop # r /\ r # Free
      BY DEF Resetters
    <3> QED
      BY <2>2, <3>1, <3>2, <3>3
      DEF ProcInv, LoopInv, MutexInv, MarkedInv, KillHasTarget, RunningIsCurrent, Running,
          Goroutines
  <2> QED BY <2>1, <2>2
<1>7. ASSUME NEW r \in Resetters, Kill(r) PROVE ProcInv'
  <2>1. /\ pc[r] = "kill" /\ Goto(r, "halt") /\ mutex' = Free /\ UNCHANGED cmd
        /\ procState' = [procState EXCEPT ![cmd] = IF @ = "running" THEN "killed" ELSE @]
    BY <1>7 DEF Kill, Move
  <2>2. mutex = r /\ cmd \in Procs
    BY <2>1 DEF ProcInv, KillHasTarget, TypeOK
  <2>3. pc'[r] = "halt" /\ \A g \in Goroutines : g # r => pc'[g] = pc[g]
    BY <2>1, GotoMoves DEF Goroutines
  <2>4. /\ procState'[cmd] # "running"
        /\ \A q \in Procs : q # cmd => procState'[q] = procState[q]
    BY <2>1, <2>2 DEF TypeOK
  <2>5. Loop # r /\ Free \notin Resetters
    BY DEF Resetters
  <2> QED
    BY <2>1, <2>2, <2>3, <2>4, <2>5
    DEF ProcInv, LoopInv, MutexInv, MarkedInv, KillHasTarget, RunningIsCurrent, Running,
        Goroutines
<1>8. ASSUME NEW p \in Procs, ProcEnds(p) PROVE ProcInv'
  <2>1. UNCHANGED <<cmd, mutex, cleanStop, pc>>
    BY <1>8 DEF ProcEnds
  <2>2. \A q \in Procs : procState'[q] = "running" => procState[q] = "running"
    BY <1>8 DEF ProcEnds, TypeOK
  <2>3. cmd # NoProc => cmd \in Procs
    BY DEF TypeOK
  <2> QED
    BY <2>1, <2>2, <2>3 DEF ProcInv, LoopInv, MutexInv, MarkedInv, KillHasTarget,
                            RunningIsCurrent, Running
<1>9. CASE Fire
  <2>1. UNCHANGED <<cmd, mutex, cleanStop, procState>>
    BY <1>9 DEF Fire, procVars
  <2>2. CASE waiters = <<>>
    BY <1>9, <2>1, <2>2, OthersKeepProcInv DEF Fire
  <2>3. CASE waiters # <<>>
    <3>1. PICK h \in Goroutines : h = Head(waiters) /\ h = waiters[1] /\ Len(waiters) > 0
      BY <2>3, QueueFacts DEF TypeOK
    <3>2. pc[h] = "blocked"
      BY <3>1 DEF WaitersInv, TypeOK
    <3>3. Goto(h, AfterReceive(h))
      BY <1>9, <2>3, <3>1 DEF Fire
    <3>4. pc'[h] \in {"load", "rearm"} /\ \A g \in Goroutines : g # h => pc'[g] = pc[g]
      BY <3>3, GotoMoves DEF AfterReceive
    <3> QED BY <2>1, <3>2, <3>4, OthersKeepProcInv DEF Resetters, Goroutines
  <2> QED BY <2>2, <2>3
<1>10. CASE UNCHANGED vars
  BY <1>10, OthersKeepProcInv DEF vars
<1>11. ASSUME NEW g \in Goroutines, Receive(g) PROVE ProcInv'
  <2>1. UNCHANGED <<cmd, mutex, cleanStop, procState>> /\ pc[g] = "receive"
    BY <1>11 DEF Receive, procVars
  <2>2. PICK place \in {"load", "rearm", "blocked"} : Goto(g, place)
    BY <1>11 DEF Receive, AfterReceive
  <2>3. pc'[g] = place /\ \A h \in Goroutines : h # g => pc'[h] = pc[h]
    BY <2>2, GotoMoves
  <2> QED BY <2>1, <2>3, OthersKeepProcInv DEF Resetters, Goroutines
<1>12. CASE CheckCancel \/ StartFatal \/ Arm \/ Load \/ Count \/ InterruptLoop
  <2>1. UNCHANGED <<cmd, mutex, cleanStop, procState>>
    BY <1>12 DEF CheckCancel, StartFatal, Arm, Load, Count, InterruptLoop, procVars
  <2>2. CASE StartFatal
    BY <2>1, <2>2, OthersKeepProcInv DEF StartFatal
  <2>3. CASE InterruptLoop
    BY <2>1, <2>3, OthersKeepProcInv DEF InterruptLoop, Move, Goto, TypeOK, Resetters,
                                         Goroutines
  <2>4. CASE CheckCancel \/ Arm \/ Load \/ Count
    <3>1. /\ pc[Loop] \in {"check", "arm", "load", "count"}
          /\ pc'[Loop] \notin {"wait", "reap", "clear"}
          /\ \A r \in Resetters : pc'[r] = pc[r]
      BY <2>4 DEF CheckCancel, Arm, Load, Count, Move, Goto, TypeOK, Goroutines
    <3> QED BY <2>1, <3>1, OthersKeepProcInv
  <2> QED BY <1>12, <2>2, <2>3, <2>4
<1>13. ASSUME NEW r \in Resetters, HaltTimer(r) \/ Rearm(r) \/ ZeroRestarts(r)
       PROVE  ProcInv'
  <2>1. UNCHANGED <<cmd, mutex, cleanStop, procState>> /\ pc[r] \in {"halt", "rearm", "zero"}
    BY <1>13 DEF HaltTimer, Rearm, ZeroRestarts, Move, procVars
  <2>2. PICK place \in {"receive", "rearm", "zero", "done", "idle"} : Goto(r, place)
    BY <1>13 DEF HaltTimer, Rearm, ZeroRestarts, Move
  <2>3. pc'[r] = place /\ \A h \in Goroutines : h # r => pc'[h] = pc[h]
    BY <2>2, GotoMoves DEF Goroutines
  <2> QED BY <2>1, <2>3, OthersKeepProcInv DEF Resetters, Goroutines
<1>14. ASSUME NEW w \in Watchers, Notice(w) \/ ReturnWatcher(w) PROVE ProcInv'
  <2>1. UNCHANGED <<cmd, mutex, cleanStop, procState>> /\ pc[w] = "idle"
    BY <1>14 DEF Notice, ReturnWatcher, Move, procVars
  <2>2. PICK place \in {"stop", "idle", "done"} : Goto(w, place)
    BY <1>14 DEF Notice, ReturnWatcher, Move
  <2>3. pc'[w] = place /\ \A h \in Goroutines : h # w => pc'[h] = pc[h]
    BY <2>2, GotoMoves DEF Goroutines, Resetters
  <2> QED BY <2>1, <2>3, OthersKeepProcInv DEF Resetters, Goroutines
<1>15. ASSUME NEW w \in Watchers, \/ \E kept \in 0..1 : InterruptWatcher(w, kept)
                                  \/ \E kind \in Kinds : Change(w, kind)
       PROVE  ProcInv'
  BY <1>15, OthersKeepProcInv DEF InterruptWatcher, Change, procVars
<1> QED
  BY NextCases, <1>1, <1>2, <1>3, <1>4, <1>5, <1>6, <1>7, <1>8, <1>9, <1>10, <1>11,
     <1>12, <1>13, <1>14, <1>15

-----------------------------------------------------------------------------
(* No change is forgotten.                                                 *)

\* Watcher w is going to stop a Fluent Bit that runs with older files, or has
\* been shut down.
Due(w) ==
  \/ \E i \in 1..Len(events[w]) : IsValidEvent(events[w][i])
  \/ pc[w] \in {"stop", "kill", "done"}
  \/ w \in cancelled

\* StaleIsPending in terms of Due.
LEMMA StaleIsDue ==
  StaleIsPending <=>
    \A p \in Procs, w \in Watchers : Running(p) /\ seen[p] < announced[w] => Due(w)
BY DEF StaleIsPending, Due

\* A step that starts no process, announces no change and takes nothing that is
\* due away from a watcher.
LEMMA OthersKeepStale ==
  ASSUME StaleIsPending,
         \A p \in Procs : Running(p)' => Running(p) /\ seen'[p] = seen[p],
         announced' = announced,
         \A w \in Watchers : Due(w) => Due(w)'
  PROVE  StaleIsPending'
BY StaleIsDue DEF StaleIsPending, Due

\* The parts of a step that Due depends on.
LEMMA DueKept ==
  ASSUME TypeOK, NEW w \in Watchers, Due(w), events'[w] = events[w],
         cancelled \subseteq cancelled',
         pc[w] \in {"stop", "kill", "done"} => pc'[w] \in {"stop", "kill", "done"}
  PROVE  Due(w)'
BY DEF Due

\* The two invariants about versions, as they are kept together.
AnnouncedStaleInv == AnnouncedInv /\ StaleIsPending

\* Every step keeps the stop of a stale process on its way.
LEMMA NextStaleIsPending ==
  TypeOK /\ WaitersInv /\ ProcInv /\ AnnouncedStaleInv /\ [Next]_vars => AnnouncedStaleInv'
<1>. SUFFICES ASSUME TypeOK, WaitersInv, ProcInv, AnnouncedInv, StaleIsPending, [Next]_vars
              PROVE  AnnouncedInv' /\ StaleIsPending'
  BY DEF AnnouncedStaleInv
<1>. USE ConstantsAssumption
<1>1. ASSUME NEW w \in Watchers, NEW kind \in Kinds, Change(w, kind)
      PROVE  AnnouncedInv' /\ StaleIsPending'
  <2>1. version' = version + 1 /\ version \in Nat /\ version' \in Nat
    BY <1>1 DEF Change, TypeOK
  <2>2. \A v \in Watchers : v # w => announced'[v] = announced[v] /\ events'[v] = events[v]
    BY <1>1 DEF Change, TypeOK
  <2>3. announced'[w] = IF kind = "create" THEN version' ELSE announced[w]
    BY <1>1 DEF Change, TypeOK
  <2>4. \A v \in Watchers : announced[v] \in Nat /\ announced[v] <= version
    BY DEF AnnouncedInv, TypeOK
  <2>5. AnnouncedInv'
    BY <2>1, <2>2, <2>3, <2>4 DEF AnnouncedInv
  <2>6. UNCHANGED <<procState, seen, pc, cancelled>>
    BY <1>1 DEF Change, procVars
  <2>7. CASE w \in cancelled
    <3>1. Due(w)'
      BY <2>6, <2>7 DEF Due
    <3>2. \A v \in Watchers : v # w /\ Due(v) => Due(v)'
      BY <2>2, <2>6, DueKept
    <3>3. ASSUME NEW p \in Procs, NEW v \in Watchers, Running(p)', seen'[p] < announced'[v]
          PROVE  Due(v)'
      BY <2>2, <2>6, <3>1, <3>2, <3>3, StaleIsDue DEF Running
    <3> QED BY <2>5, <3>3 DEF StaleIsPending, Due
  <2>8. CASE w \notin cancelled
    <3>1. events'[w] = Append(events[w], kind) /\ events[w] \in Seq(Kinds)
      BY <1>1, <2>8 DEF Change, TypeOK
    <3>2. /\ Len(events[w]) \in Nat /\ Len(events'[w]) = Len(events[w]) + 1
          /\ events'[w][Len(events[w]) + 1] = kind
          /\ \A i \in 1..Len(events[w]) : events'[w][i] = events[w][i]
      BY <3>1
    <3>3. \A i \in 1..Len(events[w]) : i \in 1..Len(events'[w])
      BY <3>2
    <3>4. Due(w) => Due(w)'
      BY <2>6, <3>2, <3>3 DEF Due
    <3>5. kind = "create" => Due(w)'
      <4>1. Len(events[w]) + 1 \in 1..Len(events'[w])
        BY <3>2
      <4> QED BY <3>2, <4>1 DEF Due, IsValidEvent
    <3>6. \A v \in Watchers : v # w /\ Due(v) => Due(v)'
      BY <2>2, <2>6, DueKept
    <3>7. \A p \in Procs : Running(p)' => Running(p) /\ seen'[p] = seen[p]
      BY <2>6 DEF Running
    <3>8. ASSUME NEW p \in Procs, NEW v \in Watchers, Running(p)', seen'[p] < announced'[v]
          PROVE  Due(v)'
      BY <2>2, <2>3, <3>4, <3>5, <3>6, <3>7, <3>8, StaleIsDue
    <3> QED BY <2>5, <3>8 DEF StaleIsPending, Due
  <2> QED BY <2>5, <2>7, <2>8
<1>2. ASSUME UNCHANGED <<version, announced>> PROVE AnnouncedInv'
  BY <1>2 DEF AnnouncedInv
<1>3. ASSUME NEW p \in Procs, StartOK(p) PROVE AnnouncedInv' /\ StaleIsPending'
  <2>1. /\ procState' = [procState EXCEPT ![p] = "running"]
        /\ seen' = [seen EXCEPT ![p] = version]
        /\ cmd = NoProc /\ UNCHANGED <<version, announced>>
    BY <1>3 DEF StartOK, fileVars
  <2>2. \A q \in Procs : Running(q)' => q = p
    BY <2>1 DEF Running, ProcInv, RunningIsCurrent, TypeOK
  <2>3. seen'[p] = version /\ \A w \in Watchers : ~(version < announced[w])
    BY <2>1 DEF AnnouncedInv, TypeOK
  <2> QED BY <1>2, <2>1, <2>2, <2>3 DEF StaleIsPending
<1>4. ASSUME NEW w \in Watchers, Notice(w) PROVE AnnouncedInv' /\ StaleIsPending'
  <2>1. /\ UNCHANGED <<procState, seen, cancelled, version, announced>>
        /\ events[w] # <<>> /\ events[w] \in Seq(Kinds) /\ pc[w] = "idle"
        /\ events' = [events EXCEPT ![w] = Tail(@)]
        /\ pc' = [pc EXCEPT ![w] = IF IsValidEvent(Head(events[w])) THEN "stop" ELSE "idle"]
    BY <1>4 DEF Notice, Goto, procVars, TypeOK
  <2>2. /\ events'[w] = Tail(events[w])
        /\ pc'[w] = IF IsValidEvent(Head(events[w])) THEN "stop" ELSE "idle"
        /\ \A v \in Watchers : v # w => events'[v] = events[v] /\ pc'[v] = pc[v]
    BY <2>1 DEF TypeOK, Goroutines, Resetters
  <2>3. Due(w) => Due(w)'
    <3>1. CASE IsValidEvent(Head(events[w]))
      BY <2>2, <3>1 DEF Due
    <3>2. CASE ~IsValidEvent(Head(events[w]))
      <4>1. /\ Head(events[w]) = events[w][1]
            /\ Len(events[w]) \in Nat
            /\ Len(Tail(events[w])) = Len(events[w]) - 1
            /\ \A i \in 1..Len(Tail(events[w])) : Tail(events[w])[i] = events[w][i + 1]
        BY <2>1, QueueFacts
      <4>2. ASSUME NEW i \in 1..Len(events[w]), IsValidEvent(events[w][i]) PROVE Due(w)'
        <5>1. i # 1
          BY <3>2, <4>1, <4>2
        <5>2. i - 1 \in 1..Len(events'[w]) /\ events'[w][i - 1] = events[w][i]
          BY <2>2, <4>1, <5>1
        <5> QED BY <4>2, <5>2 DEF Due
      <4> QED BY <2>1, <4>2 DEF Due
    <3> QED BY <3>1, <3>2
  <2>4. \A v \in Watchers : v # w /\ Due(v) => Due(v)'
    BY <2>1, <2>2, DueKept
  <2>5. \A p \in Procs : Running(p)' => Running(p) /\ seen'[p] = seen[p]
    BY <2>1 DEF Running
  <2> QED BY <1>2, <2>1, <2>3, <2>4, <2>5, OthersKeepStale
<1>5. ASSUME NEW w \in Watchers, NEW kept \in 0..1, InterruptWatcher(w, kept)
      PROVE  AnnouncedInv' /\ StaleIsPending'
  <2>1. /\ UNCHANGED <<procState, seen, pc, version, announced>>
        /\ cancelled' = cancelled \cup {w}
        /\ \A v \in Watchers : v # w => events'[v] = events[v]
    BY <1>5 DEF InterruptWatcher, procVars, TypeOK
  <2>2. \A v \in Watchers : Due(v) => Due(v)'
    BY <2>1, DueKept DEF Due
  <2> QED BY <1>2, <2>1, <2>2, OthersKeepStale DEF Running
<1>6. ASSUME NEW r \in Resetters, Kill(r) PROVE AnnouncedInv' /\ StaleIsPending'
  <2>1. /\ UNCHANGED <<seen, version, announced>> /\ pc[r] = "kill"
        /\ procState' = [procState EXCEPT ![cmd] = IF @ = "running" THEN "killed" ELSE @]
    BY <1>6 DEF Kill, Move, fileVars
  <2>2. cmd \in Procs
    BY <2>1 DEF ProcInv, KillHasTarget, TypeOK
  <2>3. \A p \in Procs : ~Running(p)'
    BY <2>1, <2>2 DEF ProcInv, RunningIsCurrent, Running, TypeOK
  <2> QED BY <1>2, <2>1, <2>3 DEF StaleIsPending
<1>7. ASSUME NEW r \in Resetters, StopBegin(r) PROVE AnnouncedInv' /\ StaleIsPending'
  <2>1. /\ UNCHANGED <<procState, seen, cancelled, events, version, announced>>
        /\ pc' = [pc EXCEPT ![r] = pc'[r]] /\ (cmd # NoProc => pc'[r] = "kill")
    BY <1>7 DEF StopBegin, Goto, procVars, fileVars, TypeOK, Goroutines
  <2>2. CASE cmd = NoProc
    BY <1>2, <2>1, <2>2 DEF StaleIsPending, ProcInv, RunningIsCurrent, Running
  <2>3. CASE cmd # NoProc
    <3>1. \A v \in Watchers : Due(v) => Due(v)'
      BY <2>1, <2>3, DueKept DEF TypeOK, Goroutines, Resetters
    <3> QED BY <1>2, <2>1, <3>1, OthersKeepStale DEF Running
  <2> QED BY <2>2, <2>3
<1>8. ASSUME NEW p \in Procs, ProcEnds(p) PROVE AnnouncedInv' /\ StaleIsPending'
  <2>1. UNCHANGED <<pc, cancelled, events, version, announced>>
    BY <1>8 DEF ProcEnds, fileVars
  <2>2. \A q \in Procs : Running(q)' => Running(q) /\ seen'[q] = seen[q]
    BY <1>8 DEF ProcEnds, Running, TypeOK
  <2>3. \A v \in Watchers : Due(v) => Due(v)'
    BY <2>1, DueKept
  <2> QED BY <1>2, <2>1, <2>2, <2>3, OthersKeepStale
<1>9. CASE Fire
  <2>1. UNCHANGED <<procState, seen, cancelled, events, version, announced>>
    BY <1>9 DEF Fire, procVars, fileVars
  <2>2. \A w \in Watchers : pc[w] \in {"stop", "kill", "done"} => pc'[w] = pc[w]
    <3>1. CASE waiters = <<>>
      BY <1>9, <3>1 DEF Fire
    <3>2. CASE waiters # <<>>
      <4>1. PICK h \in Goroutines : h = Head(waiters) /\ h = waiters[1] /\ Len(waiters) > 0
        BY <3>2, QueueFacts DEF TypeOK
      <4>2. pc[h] = "blocked" /\ Goto(h, AfterReceive(h))
        BY <1>9, <3>2, <4>1 DEF WaitersInv, TypeOK, Fire
      <4> QED BY <4>2, GotoMoves DEF Goroutines, Resetters
    <3> QED BY <3>1, <3>2
  <2>3. \A v \in Watchers : Due(v) => Due(v)'
    BY <2>1, <2>2, DueKept
  <2> QED BY <1>2, <2>1, <2>3, OthersKeepStale DEF Running
<1>10. ASSUME UNCHANGED <<seen, cancelled, events, version, announced>>,
              \A q \in Procs : Running(q)' => Running(q),
              \A w \in Watchers :
                pc[w] \in {"stop", "kill", "done"} => pc'[w] \in {"stop", "kill", "done"}
       PROVE  AnnouncedInv' /\ StaleIsPending'
  <2>1. \A v \in Watchers : Due(v) => Due(v)'
    BY <1>10, DueKept
  <2> QED BY <1>2, <1>10, <2>1, OthersKeepStale
<1>11. CASE CheckCancel \/ StartFails \/ StartFatal \/ Wait \/ Clear \/ Arm \/ Load \/ Count
  BY <1>10, <1>11
  DEF CheckCancel, StartFails, StartFatal, Wait, Clear, Arm, Load, Count, Goto, Move,
      procVars, fileVars, Running, TypeOK, Goroutines, Resetters
<1>12. CASE Reap
  <2>1. /\ UNCHANGED <<seen, cancelled, events, version, announced>>
        /\ \A w \in Watchers : pc'[w] = pc[w]
    BY <1>12 DEF Reap, Goto, Move, fileVars, TypeOK, Goroutines, Resetters
  <2>2. \A q \in Procs : Running(q)' => Running(q)
    BY <1>12 DEF Reap, Running, TypeOK
  <2> QED BY <1>10, <2>1, <2>2
<1>13. ASSUME NEW g \in Goroutines, Receive(g) PROVE AnnouncedInv' /\ StaleIsPending'
  <2>1. /\ UNCHANGED <<procState, seen, cancelled, events, version, announced>>
        /\ pc[g] = "receive"
    BY <1>13 DEF Receive, procVars, fileVars
  <2>2. \A h \in Goroutines : h # g => pc'[h] = pc[h]
    BY <1>13, GotoMoves DEF Receive
  <2> QED BY <1>10, <2>1, <2>2 DEF Running, Goroutines, Resetters
<1>14. ASSUME NEW r \in Resetters, HaltTimer(r) \/ Rearm(r) \/ ZeroRestarts(r)
       PROVE  AnnouncedInv' /\ StaleIsPending'
  <2>1. /\ UNCHANGED <<procState, seen, cancelled, events, version, announced>>
        /\ pc[r] \in {"halt", "rearm", "zero"}
    BY <1>14 DEF HaltTimer, Rearm, ZeroRestarts, Move, procVars, fileVars
  <2>2. \A h \in Goroutines : h # r => pc'[h] = pc[h]
    BY <1>14, GotoMoves DEF HaltTimer, Rearm, ZeroRestarts, Move, Goroutines
  <2> QED BY <1>10, <2>1, <2>2 DEF Running, Goroutines, Resetters
<1>15. ASSUME NEW w \in Watchers, ReturnWatcher(w) PROVE AnnouncedInv' /\ StaleIsPending'
  <2>1. /\ UNCHANGED <<procState, seen, cancelled, events, version, announced>>
        /\ Goto(w, "done")
    BY <1>15 DEF ReturnWatcher, Move, procVars, fileVars
  <2>2. pc'[w] = "done" /\ \A h \in Goroutines : h # w => pc'[h] = pc[h]
    BY <2>1, GotoMoves DEF Goroutines, Resetters
  <2> QED BY <1>10, <2>1, <2>2 DEF Running, Goroutines, Resetters
<1>16. CASE InterruptLoop
  <2>1. UNCHANGED <<procState, seen, events, version, announced>>
    BY <1>16 DEF InterruptLoop, procVars, fileVars
  <2>2. cancelled \subseteq cancelled' /\ \A w \in Watchers : pc'[w] = pc[w]
    BY <1>16 DEF InterruptLoop, Move, Goto, TypeOK, Goroutines, Resetters
  <2>3. \A v \in Watchers : Due(v) => Due(v)'
    BY <2>1, <2>2, DueKept
  <2> QED BY <1>2, <2>1, <2>3, OthersKeepStale DEF Running
<1>17. CASE UNCHANGED vars
  BY <1>10, <1>17 DEF vars, Running
<1> QED
  BY NextCases, <1>1, <1>3, <1>4, <1>5, <1>6, <1>7, <1>8, <1>9, <1>11, <1>12, <1>13,
     <1>14, <1>15, <1>16, <1>17

-----------------------------------------------------------------------------
\* The initial state satisfies the inductive invariant.
LEMMA InitIInv == Init => IInv
<1>. SUFFICES ASSUME Init PROVE IInv
  OBVIOUS
<1>1. WaitersInv /\ BackoffIsServed
  BY DEF Init, WaitersInv, BackoffIsServed, Goroutines
<1>2. ProcInv
  BY ConstantsAssumption DEF Init, ProcInv, LoopInv, MutexInv, MarkedInv, KillHasTarget,
     RunningIsCurrent, Running, Resetters, Goroutines
<1>3. AnnouncedInv /\ StaleIsPending
  BY DEF Init, AnnouncedInv, StaleIsPending, Running
<1> QED BY <1>1, <1>2, <1>3, InitTypeOK DEF IInv

\* The inductive invariant holds in every state.
THEOREM Inductive == Spec => []IInv
<1>1. IInv /\ [Next]_vars => IInv'
  BY NextTypeOK, NextWaitersInv, NextProcInv, NextStaleIsPending, NextBackoffIsServed
  DEF IInv, AnnouncedStaleInv
<1> QED BY <1>1, InitIInv, PTL DEF Spec

\* A Fluent Bit nobody has signalled is the one the sidecar can still reach
\* (Start, Wait, Stop).
THEOREM RunningCurrent == Spec => []RunningIsCurrent
<1>1. IInv => RunningIsCurrent
  BY DEF IInv, ProcInv
<1> QED BY <1>1, Inductive, PTL

\* Stop kills the process it has checked for (Stop, Start, Wait).
THEOREM KillTargeted == Spec => []KillHasTarget
<1>1. IInv => KillHasTarget
  BY DEF IInv, ProcInv
<1> QED BY <1>1, Inductive, PTL

\* No file created in a watched directory is forgotten while a Fluent Bit with
\* older files runs (the watchers' select, Stop, Start).
THEOREM StalePending == Spec => []StaleIsPending
<1>1. IInv => StaleIsPending
  BY DEF IInv
<1> QED BY <1>1, Inductive, PTL
=============================================================================
