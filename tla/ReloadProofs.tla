---------------------------- MODULE ReloadProofs ----------------------------
(***************************************************************************)
(* Proof that the supervisor implements Reload, for any number of          *)
(* watchers, processes, file changes and restarts; with SidecarProofs, so  *)
(* does the whole run group.                                               *)
(***************************************************************************)
EXTENDS SidecarProofs

\* The initial state is one of Reload.
LEMMA InitImplements == Init => Promise!Init
BY ConstantsAssumption
DEF Init, Promise!Init, Live, Asked, Shut, HasCreate, Running, Goroutines, Resetters

\* A step that changes no process, file or queue of events, and brings no watcher
\* into or out of Stop, leaves the state of Reload alone.
LEMMA Hidden ==
  ASSUME TypeOK,
         UNCHANGED <<seen, events, version, announced>>,
         \A p \in Procs : Running(p)' = Running(p),
         \A w \in Watchers :
           /\ w \in cancelled' <=> w \in cancelled
           /\ pc'[w] = pc[w] \/ {pc[w], pc'[w]} \cap {"stop", "kill", "done"} = {}
  PROVE  UNCHANGED Promise!vars
<1>1. Live' = Live
  BY DEF Live
<1>2. \A w \in Watchers : Asked(w)' = Asked(w) /\ Shut(w)' = Shut(w)
  BY DEF Asked, HasCreate, Shut
<1> QED BY <1>1, <1>2 DEF Promise!vars

\* When the process in Config.cmd does not run, none does.
LEMMA NoneLive ==
  ASSUME RunningIsCurrent, cmd = NoProc \/ ~Running(cmd)
  PROVE  Live = {}
BY ConstantsAssumption DEF RunningIsCurrent, Live

-----------------------------------------------------------------------------
\* Every step of the supervisor is a step of Reload, or leaves its state alone.
LEMMA StepKeepsPromise == IInv /\ [Next]_vars => [Promise!Next]_(Promise!vars)
<1>. SUFFICES ASSUME IInv, [Next]_vars PROVE Promise!Next \/ UNCHANGED Promise!vars
  OBVIOUS
<1>0. TypeOK /\ WaitersInv /\ ProcInv /\ RunningIsCurrent
  BY DEF IInv, ProcInv
<1>. USE <1>0, ConstantsAssumption
<1>1. CASE UNCHANGED vars
  BY <1>1, Hidden DEF vars, Running
<1>2. CASE CheckCancel \/ StartFails \/ StartFatal \/ Wait \/ Clear \/ Arm \/ Load \/ Count
  <2>1. /\ UNCHANGED <<procState, seen, events, version, announced, cancelled>>
        /\ \A w \in Watchers : pc'[w] = pc[w]
    BY <1>2 DEF CheckCancel, StartFails, StartFatal, Wait, Clear, Arm, Load, Count, Goto,
         Move, procVars, fileVars, TypeOK, Goroutines, Resetters
  <2> QED BY <2>1, Hidden DEF Running
<1>3. CASE Reap
  <2>1. /\ UNCHANGED <<seen, events, version, announced, cancelled>>
        /\ \A w \in Watchers : pc'[w] = pc[w]
        /\ procState[cmd] = "zombie" /\ procState' = [procState EXCEPT ![cmd] = "gone"]
    BY <1>3 DEF Reap, Goto, Move, fileVars, TypeOK, Goroutines, Resetters
  <2>2. \A p \in Procs : Running(p)' = Running(p)
    BY <2>1 DEF Running, TypeOK
  <2> QED BY <2>1, <2>2, Hidden
<1>4. ASSUME NEW g \in Goroutines, Receive(g) PROVE UNCHANGED Promise!vars
  <2>1. UNCHANGED <<procState, seen, events, version, announced, cancelled>>
    BY <1>4 DEF Receive, procVars, fileVars
  <2>2. \A h \in Goroutines : h # g => pc'[h] = pc[h]
    BY <1>4, GotoMoves DEF Receive
  <2>3. pc[g] = "receive" /\ pc'[g] \in {"load", "rearm", "blocked"}
    BY <1>4, GotoMoves DEF Receive, AfterReceive
  <2> QED BY <2>1, <2>2, <2>3, Hidden DEF Running, Goroutines, Resetters
<1>5. CASE Fire
  <2>1. UNCHANGED <<procState, seen, events, version, announced, cancelled>>
    BY <1>5 DEF Fire, procVars, fileVars
  <2>2. CASE waiters = <<>>
    BY <1>5, <2>1, <2>2, Hidden DEF Fire, Running
  <2>3. CASE waiters # <<>>
    <3>1. PICK h \in Goroutines : h = Head(waiters) /\ h = waiters[1] /\ Len(waiters) > 0
      BY <2>3, QueueFacts DEF TypeOK
    <3>2. pc[h] = "blocked" /\ Goto(h, AfterReceive(h))
      BY <1>5, <2>3, <3>1 DEF WaitersInv, TypeOK, Fire
    <3>3. pc'[h] \in {"load", "rearm"} /\ \A g \in Goroutines : g # h => pc'[g] = pc[g]
      BY <3>2, GotoMoves DEF AfterReceive
    <3> QED BY <2>1, <3>2, <3>3, Hidden DEF Running, Goroutines, Resetters
  <2> QED BY <2>2, <2>3
<1>6. ASSUME NEW r \in Resetters, HaltTimer(r) \/ Rearm(r) \/ ZeroRestarts(r)
      PROVE  UNCHANGED Promise!vars
  <2>1. /\ UNCHANGED <<procState, seen, events, version, announced, cancelled>>
        /\ pc[r] \in {"halt", "rearm", "zero"}
    BY <1>6 DEF HaltTimer, Rearm, ZeroRestarts, Move, procVars, fileVars
  <2>2. \A h \in Goroutines : h # r => pc'[h] = pc[h]
    BY <1>6, GotoMoves DEF HaltTimer, Rearm, ZeroRestarts, Move, Goroutines
  <2>3. r \in Watchers => pc'[r] \in {"receive", "rearm", "zero", "idle"}
    BY <1>6, GotoMoves DEF HaltTimer, Rearm, ZeroRestarts, Move, Goroutines, Resetters
  <2> QED BY <2>1, <2>2, <2>3, Hidden DEF Running, Goroutines, Resetters
<1>7. CASE InterruptLoop
  <2>1. UNCHANGED <<procState, seen, events, version, announced>>
    BY <1>7 DEF InterruptLoop, procVars, fileVars
  <2>2. \A w \in Watchers : pc'[w] = pc[w] /\ (w \in cancelled' <=> w \in cancelled)
    BY <1>7 DEF InterruptLoop, Move, Goto, TypeOK, Goroutines, Resetters
  <2> QED BY <2>1, <2>2, Hidden DEF Running
<1>8. ASSUME NEW p \in Procs, StartOK(p) PROVE Promise!Start
  <2>1. /\ cmd = NoProc /\ UNCHANGED <<events, version, announced, cancelled>>
        /\ procState' = [procState EXCEPT ![p] = "running"]
        /\ seen' = [seen EXCEPT ![p] = version]
        /\ \A w \in Watchers : pc'[w] = pc[w]
    BY <1>8 DEF StartOK, Goto, Move, fileVars, TypeOK, Goroutines, Resetters
  <2>2. Live = {} /\ \A q \in Procs : ~Running(q)
    BY <2>1, NoneLive DEF RunningIsCurrent
  <2>3. \A q \in Procs : Running(q)' <=> q = p
    BY <2>1, <2>2 DEF Running, TypeOK
  <2>4. Live' = {version}
    BY <2>1, <2>3 DEF Live, TypeOK
  <2>5. \A w \in Watchers : Asked(w)' = Asked(w) /\ Shut(w)' = Shut(w)
    BY <2>1 DEF Asked, HasCreate, Shut
  <2> QED BY <2>1, <2>2, <2>4, <2>5 DEF Promise!Start
<1>9. ASSUME NEW p \in Procs, ProcEnds(p) PROVE Promise!End \/ UNCHANGED Promise!vars
  <2>1. /\ UNCHANGED <<pc, events, version, announced, cancelled>>
        /\ procState' = [procState EXCEPT ![p] = "zombie"]
        /\ seen' = [seen EXCEPT ![p] = 0]
    BY <1>9 DEF ProcEnds, fileVars
  <2>2. \A w \in Watchers : Asked(w)' = Asked(w) /\ Shut(w)' = Shut(w)
    BY <2>1 DEF Asked, HasCreate, Shut
  <2>3. CASE Running(p)
    <3>1. \A q \in Procs : ~Running(q)'
      BY <2>1, <2>3 DEF Running, RunningIsCurrent, TypeOK
    <3>2. Live' = {}
      BY <3>1 DEF Live
    <3> QED BY <2>1, <2>2, <3>2 DEF Promise!End
  <2>4. CASE ~Running(p)
    <3>1. \A q \in Procs : Running(q)' = Running(q) /\ (Running(q) => seen'[q] = seen[q])
      BY <2>1, <2>4 DEF Running, TypeOK
    <3>2. Live' = Live
      BY <3>1 DEF Live
    <3> QED BY <2>1, <2>2, <3>2 DEF Promise!vars
  <2> QED BY <2>3, <2>4
<1>10. ASSUME NEW r \in Resetters, StopBegin(r)
       PROVE  Promise!Next \/ UNCHANGED Promise!vars
  <2>1. /\ UNCHANGED <<procState, seen, events, version, announced, cancelled>>
        /\ pc[r] = "stop" /\ (cmd # NoProc => pc'[r] = "kill") /\ pc'[r] # "done"
        /\ \A h \in Goroutines : h # r => pc'[h] = pc[h]
    BY <1>10, GotoMoves DEF StopBegin, procVars, fileVars, Goroutines
  <2>2. Live' = Live /\ (cmd = NoProc => Live = {})
    BY <2>1, NoneLive DEF Live, Running
  <2>3. \A w \in Watchers \ {r} : Asked(w)' = Asked(w) /\ Shut(w)' = Shut(w)
    BY <2>1 DEF Asked, HasCreate, Shut, Goroutines, Resetters
  <2>4. r \in Watchers => Asked(r) /\ Shut(r)' = Shut(r) /\ (cmd # NoProc => Asked(r)')
    BY <2>1 DEF Asked, Shut
  <2>5. CASE r \in Watchers /\ ~Asked(r)'
    <3>1. Promise!Serve(r)
      BY <2>1, <2>2, <2>3, <2>4, <2>5 DEF Promise!Serve
    <3> QED BY <2>5, <3>1 DEF Promise!Next
  <2>6. CASE ~(r \in Watchers /\ ~Asked(r)')
    BY <2>1, <2>2, <2>3, <2>4, <2>6 DEF Promise!vars
  <2> QED BY <2>5, <2>6
<1>11. ASSUME NEW r \in Resetters, Kill(r) PROVE Promise!Next
  <2>1. /\ UNCHANGED <<seen, events, version, announced, cancelled>>
        /\ procState' = [procState EXCEPT ![cmd] = IF @ = "running" THEN "killed" ELSE @]
        /\ pc[r] = "kill" /\ pc'[r] = "halt"
        /\ \A h \in Goroutines : h # r => pc'[h] = pc[h]
    BY <1>11, GotoMoves DEF Kill, Move, fileVars, Goroutines
  <2>2. cmd \in Procs
    BY <2>1 DEF ProcInv, KillHasTarget, TypeOK
  <2>3. \A p \in Procs : ~Running(p)'
    BY <2>1, <2>2 DEF RunningIsCurrent, Running, TypeOK
  <2>4. Live' = {}
    BY <2>3 DEF Live
  <2>5. \A w \in Watchers \ {r} : Asked(w)' = Asked(w) /\ Shut(w)' = Shut(w)
    BY <2>1 DEF Asked, HasCreate, Shut, Goroutines, Resetters
  <2>6. r \in Watchers => Asked(r) /\ Shut(r)' = Shut(r)
    BY <2>1 DEF Asked, Shut
  <2>7. CASE r \in Watchers /\ ~Asked(r)'
    <3>1. Promise!Serve(r)
      BY <2>1, <2>4, <2>5, <2>6, <2>7 DEF Promise!Serve
    <3> QED BY <2>7, <3>1 DEF Promise!Next
  <2>8. CASE ~(r \in Watchers /\ ~Asked(r)')
    <3>1. Promise!End
      BY <2>1, <2>4, <2>5, <2>6, <2>8 DEF Promise!End
    <3> QED BY <3>1 DEF Promise!Next
  <2> QED BY <2>7, <2>8
<1>12. ASSUME NEW w \in Watchers, Notice(w) PROVE UNCHANGED Promise!vars
  <2>1. /\ UNCHANGED <<procState, seen, version, announced, cancelled>>
        /\ events[w] # <<>> /\ events[w] \in Seq(Kinds)
        /\ events' = [events EXCEPT ![w] = Tail(@)]
        /\ pc[w] = "idle"
        /\ pc'[w] = IF IsValidEvent(Head(events[w])) THEN "stop" ELSE "idle"
        /\ \A h \in Goroutines : h # w => pc'[h] = pc[h]
    BY <1>12, GotoMoves DEF Notice, procVars, TypeOK, Goroutines, Resetters
  <2>2. Live' = Live
    BY <2>1 DEF Live, Running
  <2>3. \A v \in Watchers \ {w} : Asked(v)' = Asked(v) /\ Shut(v)' = Shut(v)
    BY <2>1 DEF Asked, HasCreate, Shut, TypeOK, Goroutines, Resetters
  <2>4. events[w] \in Seq(Kinds) /\ events'[w] = Tail(events[w])
    BY <2>1 DEF TypeOK
  <2>5. /\ Head(events[w]) = events[w][1] /\ Len(events[w]) \in Nat /\ Len(events[w]) > 0
        /\ Len(Tail(events[w])) = Len(events[w]) - 1
        /\ \A i \in 1..Len(Tail(events[w])) :
             i + 1 \in 1..Len(events[w]) /\ Tail(events[w])[i] = events[w][i + 1]
    BY <2>1, <2>4, QueueFacts
  <2>6. /\ Len(events'[w]) = Len(events[w]) - 1
        /\ \A i \in 1..Len(events'[w]) :
             i + 1 \in 1..Len(events[w]) /\ events'[w][i] = events[w][i + 1]
    BY <2>4, <2>5
  <2>7. CASE IsValidEvent(Head(events[w]))
    <3>1. 1 \in 1..Len(events[w]) /\ IsValidEvent(events[w][1])
      BY <2>5, <2>7
    <3>2. Asked(w) /\ Asked(w)' /\ Shut(w)' = Shut(w)
      BY <2>1, <2>7, <3>1 DEF Asked, HasCreate, Shut
    <3> QED BY <2>1, <2>2, <2>3, <3>2 DEF Promise!vars
  <2>8. CASE ~IsValidEvent(Head(events[w]))
    <3>1. HasCreate(w)' => HasCreate(w)
      BY <2>5, <2>6 DEF HasCreate
    <3>2. ASSUME HasCreate(w) PROVE HasCreate(w)'
      <4>1. PICK i \in 1..Len(events[w]) : IsValidEvent(events[w][i])
        BY <3>2 DEF HasCreate
      <4>2. i - 1 \in 1..Len(events'[w]) /\ events'[w][i - 1] = events[w][i]
        <5>1. i # 1 BY <2>5, <2>8, <4>1
        <5> QED BY <2>5, <2>6, <5>1
      <4> QED BY <4>1, <4>2 DEF HasCreate
    <3>3. Asked(w)' = Asked(w) /\ Shut(w)' = Shut(w)
      BY <2>1, <2>8, <3>1, <3>2 DEF Asked, Shut
    <3> QED BY <2>1, <2>2, <2>3, <3>3 DEF Promise!vars
  <2> QED BY <2>7, <2>8
<1>13. ASSUME NEW w \in Watchers, ReturnWatcher(w) PROVE Promise!Close(w)
  <2>1. /\ UNCHANGED <<procState, seen, events, version, announced, cancelled>>
        /\ pc'[w] = "done"
        /\ \A h \in Goroutines : h # w => pc'[h] = pc[h]
    BY <1>13, GotoMoves DEF ReturnWatcher, Move, procVars, fileVars, Goroutines, Resetters
  <2>2. Live' = Live /\ ~Asked(w)' /\ Shut(w)'
    BY <2>1 DEF Live, Running, Asked, Shut
  <2>3. \A v \in Watchers \ {w} : Asked(v)' = Asked(v) /\ Shut(v)' = Shut(v)
    BY <2>1 DEF Asked, HasCreate, Shut, Goroutines, Resetters
  <2> QED BY <2>1, <2>2, <2>3 DEF Promise!Close
<1>14. ASSUME NEW w \in Watchers, NEW kept \in 0..1, InterruptWatcher(w, kept)
       PROVE  Promise!Close(w)
  <2>1. /\ UNCHANGED <<procState, seen, pc, version, announced>>
        /\ cancelled' = cancelled \cup {w}
        /\ kept <= Len(events[w]) /\ events[w] \in Seq(Kinds)
        /\ events'[w] = SubSeq(events[w], 1, kept)
        /\ \A v \in Watchers : v # w => events'[v] = events[v]
    BY <1>14 DEF InterruptWatcher, procVars, TypeOK
  <2>2. HasCreate(w)' => HasCreate(w)
    <3>1. Len(events'[w]) = kept /\ \A i \in 1..kept : events'[w][i] = events[w][i]
      BY <2>1
    <3> QED BY <2>1, <3>1 DEF HasCreate
  <2>3. Live' = Live /\ (Asked(w)' => Asked(w)) /\ Shut(w)'
    BY <2>1, <2>2 DEF Live, Running, Asked, Shut
  <2>4. \A v \in Watchers \ {w} : Asked(v)' = Asked(v) /\ Shut(v)' = Shut(v)
    BY <2>1 DEF Asked, HasCreate, Shut
  <2> QED BY <2>1, <2>3, <2>4 DEF Promise!Close
<1>15. ASSUME NEW w \in Watchers, NEW kind \in Kinds, Change(w, kind)
       PROVE  Promise!Edit \/ Promise!Announce(w)
  <2>1. /\ UNCHANGED <<procState, seen, pc, cancelled>>
        /\ version < MaxVersion /\ version' = version + 1
        /\ announced' = IF kind = "create" THEN [announced EXCEPT ![w] = version']
                                           ELSE announced
        /\ events' = IF w \in cancelled THEN events
                                        ELSE [events EXCEPT ![w] = Append(@, kind)]
    BY <1>15 DEF Change, procVars
  <2>2. Live' = Live
    BY <2>1 DEF Live, Running
  <2>3. \A v \in Watchers \ {w} : Asked(v)' = Asked(v)
    BY <2>1 DEF Asked, HasCreate, TypeOK
  <2>4. \A v \in Watchers : Shut(v)' = Shut(v)
    BY <2>1 DEF Shut
  <2>5. CASE w \in cancelled
    <3>1. Asked(w)' = Asked(w) /\ Shut(w)
      BY <2>1, <2>5 DEF Asked, HasCreate, Shut
    <3> QED BY <2>1, <2>2, <2>3, <2>4, <3>1 DEF Promise!Edit, Promise!Announce
  <2>6. CASE w \notin cancelled
    <3>1. /\ events[w] \in Seq(Kinds) /\ Len(events[w]) \in Nat
          /\ events'[w] = Append(events[w], kind)
          /\ Len(events'[w]) = Len(events[w]) + 1
          /\ events'[w][Len(events[w]) + 1] = kind
          /\ \A i \in 1..Len(events[w]) : events'[w][i] = events[w][i]
      BY <2>1, <2>6 DEF TypeOK
    <3>2. HasCreate(w)' <=> HasCreate(w) \/ IsValidEvent(kind)
      BY <3>1, SMTT(30) DEF HasCreate
    <3>3. CASE kind = "create"
      <4>1. Asked(w)' <=> pc[w] # "done"
        BY <2>1, <3>2, <3>3 DEF Asked, IsValidEvent
      <4>2. pc[w] = "done" => ~Asked(w) /\ Shut(w)
        BY DEF Asked, Shut
      <4>3. pc[w] # "done" => ~Shut(w)
        BY <2>6 DEF Shut
      <4> QED BY <2>1, <2>2, <2>3, <2>4, <3>3, <4>1, <4>2, <4>3 DEF Promise!Announce
    <3>4. CASE kind # "create"
      <4>1. Asked(w)' = Asked(w)
        BY <2>1, <3>2, <3>4 DEF Asked, IsValidEvent
      <4> QED BY <2>1, <2>2, <2>3, <2>4, <3>4, <4>1 DEF Promise!Edit
    <3> QED BY <3>3, <3>4
  <2> QED BY <2>5, <2>6
<1> QED
  BY NextCases, <1>1, <1>2, <1>3, <1>4, <1>5, <1>6, <1>7, <1>8, <1>9, <1>10, <1>11, <1>12,
     <1>13, <1>14, <1>15 DEF Promise!Next

\* The supervisor implements what Reload promises: one Fluent Bit at most, and no
\* announced change over with before that Fluent Bit is stopped (Start, Stop, Wait,
\* AddDynamicConfigWatcher, AddTLSCertsWatcher).
THEOREM ReloadImplemented == Spec => ImplementsReload
<1>1. Spec => Promise!Init
  BY InitImplements, PTL DEF Spec
<1>2. Spec => [][IInv /\ [Next]_vars]_vars
  BY Inductive, PTL DEF Spec
<1> QED
  BY <1>1, <1>2, Inductive, StepKeepsPromise, PTL DEF ImplementsReload, Promise!Spec, Spec

\* So does the run group, which takes the supervisor's steps (CreateWatchers).
THEOREM SidecarKeepsPromise == SidecarSafety => ImplementsReload
BY SidecarImplements, ReloadImplemented, PTL
=============================================================================
