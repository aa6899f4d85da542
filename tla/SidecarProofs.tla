---------------------------- MODULE SidecarProofs ----------------------------
(***************************************************************************)
(* Proofs that the run group leaves nothing behind however it ends, and    *)
(* that the supervisor's invariants hold inside it.                        *)
(***************************************************************************)
EXTENDS Sidecar, FluentWatcherProofs

\* A step of the run group is a step of the supervisor, or leaves its state.
LEMMA StepImplements == [SidecarNext]_allVars => [Next]_vars
<1>. SUFFICES ASSUME [SidecarNext]_allVars PROVE [Next]_vars
  OBVIOUS
<1>1. CASE UNCHANGED allVars
  BY <1>1 DEF allVars
<1>2. CASE RunStep /\ Alive
  <2>1. CASE FirstReturn \/ InterruptOther \/ RunReturns
    BY <2>1 DEF FirstReturn, InterruptOther, RunReturns
  <2>2. CASE InterruptWatching
    <3>1. \E w \in Watchers, kept \in 0..1 : InterruptWatcher(w, kept)
      BY <2>2 DEF InterruptWatching
    <3> QED BY <1>2, <3>1 DEF Next, InterruptStep, Alive
  <2>3. CASE InterruptingLoop
    BY <1>2, <2>3 DEF InterruptingLoop, Next, InterruptStep, Alive
  <2> QED BY <1>2, <2>1, <2>2, <2>3 DEF RunStep
<1>3. CASE (LoopRuns \/ EnvironmentRuns) /\ Alive
  BY <1>3 DEF LoopRuns, EnvironmentRuns, Next, Alive
<1>4. ASSUME NEW w \in Watchers, WatcherRuns(w), Alive PROVE [Next]_vars
  BY <1>4 DEF WatcherRuns, WatcherStep, Next, Alive
<1>5. ASSUME NEW a \in Others, OtherReturns(a) PROVE [Next]_vars
  BY <1>5 DEF OtherReturns
<1> QED BY <1>1, <1>2, <1>3, <1>4, <1>5 DEF SidecarNext

\* So what is proved of FluentWatcher holds in the sidecar: the run group is built
\* from the supervisor's actions (CreateWatchers, run.Group.Run).
LEMMA SidecarImplements == SidecarSafety => Spec
<1>1. SidecarInit => Init
  BY DEF SidecarInit
<1> QED BY <1>1, StepImplements, PTL DEF SidecarSafety, Spec

-----------------------------------------------------------------------------
\* Run is inside an interrupt only while it is the loop's turn, and returns when
\* the watchers and the loop have. A fatal error leaves the loop in its Start.
RunInv ==
  /\ pc[Interrupter] \notin {"idle", "done"} => Interrupting(Loop)
  /\ turn = Returned => \A g \in Watchers \cup {Loop} : pc[g] = "done"
  /\ exited => pc[Loop] = "start"

\* The turns of the interrupts differ from the turns before and after them.
LEMMA OrderFacts ==
  /\ Len(Order) \in Nat
  /\ 0 \notin 1..Len(Order) /\ Waiting \notin 1..Len(Order) /\ Returned \notin 1..Len(Order)
  /\ Returned # Waiting /\ Returned # 0 /\ Returned # 1
  /\ \A n \in 1..Len(Order) : n + 1 # Returned
<1>1. \A S : \A s, t \in Seq(S) : Len(s \o t) \in Nat
  OBVIOUS
<1>2. Len(Order) \in Nat
  <2>1. PICK S : S = Others \cup {ConfigWatcher, Loop, TLSWatcher}
    OBVIOUS
  <2>2. <<Signal, Couchbase, ConfigWatcher, Loop>> \in Seq(S)
    BY <2>1 DEF Others
  <2>3. PICK t \in Seq(S) : t = IF TLSWatcher \in Watchers THEN <<TLSWatcher>> ELSE <<>>
    <3>1. <<TLSWatcher>> \in Seq(S) /\ <<>> \in Seq(S)
      BY <2>1
    <3>2. CASE TLSWatcher \in Watchers BY <3>1, <3>2
    <3>3. CASE TLSWatcher \notin Watchers BY <3>1, <3>3
    <3> QED BY <3>2, <3>3
  <2>4. Order = <<Signal, Couchbase, ConfigWatcher, Loop>> \o t
    BY <2>3 DEF Order
  <2> QED BY <1>1, <2>2, <2>4
<1> QED BY <1>2 DEF Waiting, Returned

\* Only the Interrupter's own steps bring it into or out of an interrupt.
LEMMA InterrupterStays ==
  ASSUME TypeOK, WaitersInv,
         LoopStep \/ Environment \/ \E w \in Watchers : WatcherStep(w)
  PROVE  pc'[Interrupter] \in {"idle", "done"} <=> pc[Interrupter] \in {"idle", "done"}
<1>. USE ConstantsAssumption
<1>. DEFINE Stays == pc'[Interrupter] \in {"idle", "done"} <=> pc[Interrupter] \in {"idle", "done"}
<1>1. ASSUME NEW g \in Goroutines, g # Interrupter, NEW place, Goto(g, place) PROVE Stays
  BY <1>1, GotoMoves DEF Goroutines, Resetters
<1>2. Loop \in Goroutines /\ Loop # Interrupter
  BY DEF Goroutines, Resetters
<1>3. CASE LoopStep
  <2>1. CASE StartFatal
    BY <2>1 DEF StartFatal
  <2>2. CASE ~StartFatal
    <3>1. \E place \in LoopPlaces : Goto(Loop, place)
      BY <1>3, <2>2 DEF LoopStep, CheckCancel, StartOK, StartFails, Wait, Reap, Clear, Arm,
                        Load, Count, Receive, AfterReceive, Move, LoopPlaces
    <3> QED BY <1>1, <1>2, <3>1
  <2> QED BY <2>1, <2>2
<1>4. ASSUME NEW w \in Watchers, WatcherStep(w) PROVE Stays
  <2>1. w \in Goroutines /\ w # Interrupter /\ w # Loop
    BY DEF Goroutines, Resetters
  <2>2. \E place \in ResetPlaces : Goto(w, place)
    BY <1>4, <2>1 DEF WatcherStep, ResetStep, StopBegin, Kill, HaltTimer, Receive,
         AfterReceive, Rearm, ZeroRestarts, Notice, ReturnWatcher, Move, ResetPlaces
  <2> QED BY <1>1, <2>1, <2>2
<1>5. CASE Fire
  <2>1. CASE waiters = <<>>
    BY <1>5, <2>1 DEF Fire
  <2>2. CASE waiters # <<>>
    <3>1. PICK h \in Goroutines : h = Head(waiters) /\ h = waiters[1] /\ Len(waiters) > 0
      BY <2>2, QueueFacts DEF TypeOK
    <3>2. pc[h] = "blocked" /\ Goto(h, AfterReceive(h))
      BY <1>5, <2>2, <3>1 DEF WaitersInv, TypeOK, Fire
    <3>3. pc'[h] \in {"load", "rearm"} /\ \A g \in Goroutines : g # h => pc'[g] = pc[g]
      BY <3>2, GotoMoves DEF AfterReceive
    <3> QED BY <3>2, <3>3 DEF Goroutines, Resetters
  <2> QED BY <2>1, <2>2
<1>6. CASE Environment /\ ~Fire
  BY <1>6 DEF Environment, ProcEnds, Change
<1> QED BY <1>3, <1>4, <1>5, <1>6

\* Only the fatal error of a Start ends the supervisor.
LEMMA OnlyStartIsFatal == Next /\ exited' => StartFatal
<1>. SUFFICES ASSUME Next, exited', ~StartFatal PROVE FALSE
  OBVIOUS
<1>1. ~exited
  BY DEF Next
<1>2. CASE LoopStep
  BY <1>1, <1>2 DEF LoopStep, CheckCancel, StartOK, StartFails, Wait, Reap, Clear, Arm, Load,
                    Receive, Count
<1>3. ASSUME NEW r, ResetStep(r) PROVE FALSE
  BY <1>1, <1>3 DEF ResetStep, StopBegin, Kill, HaltTimer, Receive, Rearm, ZeroRestarts
<1>4. CASE (\E w \in Watchers : WatcherStep(w)) \/ InterruptStep
  BY <1>1, <1>3, <1>4 DEF WatcherStep, Notice, ReturnWatcher, InterruptStep, InterruptLoop,
                          InterruptWatcher
<1>5. CASE Environment
  BY <1>1, <1>5 DEF Environment, Fire, ProcEnds, Change
<1> QED BY <1>2, <1>4, <1>5 DEF Next

\* Every step keeps RunInv.
LEMMA NextRunInv == IInv /\ RunInv /\ [SidecarNext]_allVars => RunInv'
<1>. SUFFICES ASSUME IInv, RunInv, [SidecarNext]_allVars PROVE RunInv'
  OBVIOUS
<1>e. exited' => pc'[Loop] = "start"
  <2>1. CASE Next
    BY <2>1, OnlyStartIsFatal DEF StartFatal
  <2>2. CASE UNCHANGED vars
    BY <2>2 DEF RunInv, vars
  <2> QED BY <2>1, <2>2, StepImplements
<1>. USE OrderFacts
<1>0. TypeOK /\ WaitersInv
  BY DEF IInv
<1>1. CASE UNCHANGED allVars
  BY <1>e, <1>1 DEF allVars, vars, runVars, RunInv, Interrupting
<1>2. CASE Alive /\ FirstReturn
  BY <1>e, <1>2 DEF FirstReturn, RunInv, Interrupting, vars
<1>3. CASE Alive /\ InterruptOther
  <2>1. PICK a \in Others : Interrupting(a) /\ turn' = turn + 1 /\ UNCHANGED vars
    BY <1>3 DEF InterruptOther
  <2>2. a # Loop
    BY ActorsAssumption DEF Goroutines
  <2> QED BY <1>e, <2>1, <2>2 DEF RunInv, Interrupting, vars
<1>4. CASE Alive /\ InterruptWatching
  <2>1. PICK w \in Watchers, kept \in 0..1 :
          Interrupting(w) /\ turn' = turn + 1 /\ InterruptWatcher(w, kept)
    BY <1>4 DEF InterruptWatching
  <2>2. w # Loop /\ pc' = pc
    BY <2>1, ConstantsAssumption DEF InterruptWatcher, Resetters
  <2> QED BY <1>e, <2>1, <2>2 DEF RunInv, Interrupting
<1>5. CASE Alive /\ InterruptingLoop
  <2>1. Interrupting(Loop) /\ turn' = IF pc'[Interrupter] = "done" THEN turn + 1 ELSE turn
    BY <1>5 DEF InterruptingLoop
  <2> QED BY <1>e, <2>1 DEF RunInv, Interrupting
<1>6. CASE Alive /\ RunReturns
  BY <1>e, <1>6 DEF RunReturns, RunInv, Interrupting, vars
<1>7. CASE Alive /\ (LoopRuns \/ EnvironmentRuns \/ \E w \in Watchers : WatcherRuns(w))
  <2>1. LoopStep \/ Environment \/ \E w \in Watchers : WatcherStep(w)
    BY <1>7 DEF LoopRuns, EnvironmentRuns, WatcherRuns, WatcherStep
  <2>2. turn' = turn /\ turn # Returned
    BY <1>7 DEF LoopRuns, EnvironmentRuns, WatcherRuns, runVars, Alive
  <2> QED BY <1>e, <1>0, <2>1, <2>2, InterrupterStays DEF RunInv, Interrupting
<1>8. CASE Alive /\ \E a \in Others : OtherReturns(a)
  BY <1>e, <1>8 DEF OtherReturns, RunInv, Interrupting, vars
<1> QED BY <1>1, <1>2, <1>3, <1>4, <1>5, <1>6, <1>7, <1>8 DEF SidecarNext, RunStep

\* However the program ends, nothing runs on, and Run returns with nothing held (Run, the
\* interrupt of addFluentBitWatcher, Stop, Wait, log.Fatalw in Start).
THEOREM ReturnClean == SidecarSafety => []ReturnIsClean
<1>1. SidecarInit => IInv /\ RunInv
  BY InitIInv, OrderFacts, ConstantsAssumption
  DEF SidecarInit, Init, RunInv, Goroutines, Resetters
<1>2. IInv /\ [SidecarNext]_allVars => IInv'
  BY StepImplements, NextTypeOK, NextWaitersInv, NextProcInv, NextStaleIsPending,
     NextBackoffIsServed DEF IInv, AnnouncedStaleInv
<1>3. IInv /\ RunInv => ReturnIsClean
  <2>. SUFFICES ASSUME IInv, RunInv PROVE ReturnIsClean
    OBVIOUS
  <2>1. turn = Returned => pc[Loop] = "done" /\ \A w \in Watchers : pc[w] = "done"
    BY DEF RunInv
  <2>2. turn = Returned => pc[Interrupter] \in {"idle", "done"}
    BY OrderFacts DEF RunInv, Interrupting
  <2>3. turn = Returned => mutex = Free
    BY <2>1, <2>2 DEF IInv, ProcInv, MutexInv, TypeOK, Resetters
  <2>4. turn = Returned \/ exited => cmd = NoProc
    BY <2>1 DEF IInv, ProcInv, LoopInv, RunInv
  <2>5. cmd = NoProc => \A p \in Procs : ~Running(p)
    BY ConstantsAssumption DEF IInv, ProcInv, RunningIsCurrent
  <2> QED BY <2>3, <2>4, <2>5 DEF ReturnIsClean
<1> QED BY <1>1, <1>2, <1>3, NextRunInv, PTL DEF SidecarSafety

-----------------------------------------------------------------------------
\* The run group's own state.
TurnOK == turn \in 0..Returned /\ asked \subseteq Others /\ ended \subseteq Others

\* How a step changes the turn.
TurnStep ==
  \/ turn' = turn \/ turn' = 1 \/ turn' = Returned
  \/ turn \in 1..Len(Order) /\ turn' = turn + 1

\* Such a step leaves the turn among its values.
LEMMA TurnMoves == TurnOK /\ TurnStep => turn' \in 0..Returned
BY OrderFacts DEF TurnOK, TurnStep, Waiting, Returned

\* The run group's state has its types (Run, CreateWatchers).
THEOREM SidecarTypeCorrect == SidecarSafety => []SidecarTypeOK
<1>1. SidecarInit => TurnOK
  BY OrderFacts DEF SidecarInit, TurnOK, Returned
<1>2. ASSUME TurnOK, [SidecarNext]_allVars PROVE TurnOK'
  <2>1. TurnStep
    BY <1>2, Zenon
    DEF TurnStep, SidecarNext, RunStep, FirstReturn, InterruptOther, InterruptWatching,
        InterruptingLoop, Interrupting, RunReturns, LoopRuns, WatcherRuns, EnvironmentRuns,
        OtherReturns, runVars, allVars
  <2>2. asked' \subseteq Others /\ ended' \subseteq Others
    BY <1>2
    DEF TurnOK, SidecarNext, RunStep, FirstReturn, InterruptOther, InterruptWatching,
        InterruptingLoop, RunReturns, LoopRuns, WatcherRuns, EnvironmentRuns, OtherReturns,
        runVars, allVars
  <2> QED BY <1>2, <2>1, <2>2, TurnMoves DEF TurnOK
<1>3. Spec => []TypeOK
  BY TypeCorrect
<1>4. TypeOK /\ TurnOK => SidecarTypeOK
  BY DEF TurnOK, SidecarTypeOK
<1> QED BY <1>1, <1>2, <1>3, <1>4, SidecarImplements, PTL DEF SidecarSafety

\* What holds of the supervisor's threads holds with the run group around them, which
\* chooses when they are interrupted and stops taking steps when Run has returned: one
\* Fluent Bit at most, a kill that has its process, no change used up without a stop,
\* and a backoff's timer that is never left idle (CreateWatchers).
THEOREM SidecarInvariants ==
  SidecarSafety => [](RunningIsCurrent /\ KillHasTarget /\ StaleIsPending /\ BackoffIsServed)
<1>1. Spec =>
        [](RunningIsCurrent /\ KillHasTarget /\ StaleIsPending /\ BackoffIsServed)
  BY RunningCurrent, KillTargeted, StalePending, BackoffServed, PTL
<1> QED BY <1>1, SidecarImplements, PTL
=============================================================================
