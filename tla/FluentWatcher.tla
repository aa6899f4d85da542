---------------------------- MODULE FluentWatcher ----------------------------
(***************************************************************************)
(* The supervisor of pkg/fluent/watcher.go: one goroutine (Loop) starts    *)
(* Fluent Bit, waits for it and backs off; two goroutines (Watchers) watch *)
(* the configuration and the certificate directory; the goroutine that     *)
(* calls run.Group.Run (Interrupter) interrupts them all on shutdown.      *)
(* A watcher with a Create event, and the Interrupter, run Stop and then   *)
(* resetTimer: both are Resetters.                                         *)
(*                                                                         *)
(* All of them share one Config: cmd, cleanStop and restartTimes, of which *)
(* the mutex protects some accesses only, and one time.Timer that the      *)
(* backoff and every resetTimer receive from. totalStarts and cleanStart,   *)
(* which nothing but the getters of the tests reads, are left out.         *)
(***************************************************************************)
EXTENDS Integers, Sequences

CONSTANTS
  Procs,            \* slots for Fluent Bit processes; bounds those not yet reaped
  NoProc,           \* Config.cmd = nil
  Watchers,         \* the goroutines of AddDynamicConfigWatcher, AddTLSCertsWatcher
  Loop,             \* the goroutine of addFluentBitWatcher
  Interrupter,      \* the goroutine in run.Group.Run
  Free,             \* nobody holds Config.mutex
  Kinds,            \* the kinds of file system event that occur
  MaxVersion,       \* bound: number of file changes
  MaxRestartTimes   \* bound: restartTimes saturates here

Resetters  == Watchers \cup {Interrupter}
Goroutines == Resetters \cup {Loop}

ASSUME ConstantsAssumption ==
  /\ NoProc \notin Procs
  /\ Loop \notin Resetters
  /\ Interrupter \notin Watchers
  /\ Free \notin Resetters
  /\ MaxVersion \in Nat
  /\ MaxRestartTimes \in Nat \ {0}

VARIABLES
  cmd,           \* Config.cmd
  mutex,         \* the holder of Config.mutex between two steps
  cleanStop,     \* Config.cleanStop
  restartTimes,  \* Config.restartTimes
  counted,       \* the value `restartTimes++` has loaded
  timer,         \* Config.timer: "armed", "fired" (value not received), "idle"
  waiters,       \* goroutines blocked in <-timer.C, in the order they arrived
  procState,     \* "gone", "running", "killed" (signal sent), "zombie" (not reaped)
  seen,          \* the version of the files a live process started from
  pc,            \* where each goroutine is
  cancelled,     \* the closed cancel channels
  events,        \* events fsnotify has for each watcher
  version,       \* number of changes made to the files
  announced,     \* per watcher, the version its last Create event brought
  exited         \* log.Fatalw has ended the program

vars == <<cmd, mutex, cleanStop, restartTimes, counted, timer, waiters,
          procState, seen, pc, cancelled, events, version, announced, exited>>

procVars  == <<procState, seen>>
countVars == <<restartTimes, counted>>
timerVars == <<timer, waiters>>
fileVars  == <<events, version, announced>>

LoopPlaces  == {"check", "start", "wait", "reap", "clear", "arm", "receive",
                "blocked", "load", "count", "done"}
ResetPlaces == {"idle", "stop", "kill", "halt", "receive", "blocked", "rearm",
                "zero", "done"}

Running(p) == procState[p] = "running"
Goto(g, place) == pc' = [pc EXCEPT ![g] = place]
Move(g, from, to) == pc[g] = from /\ Goto(g, to)

Init ==
  /\ cmd = NoProc /\ mutex = Free
  /\ cleanStop = FALSE
  /\ restartTimes = 0 /\ counted = 0
  /\ timer = "armed" /\ waiters = <<>>
  /\ procState = [p \in Procs |-> "gone"]
  /\ seen = [p \in Procs |-> 0]
  /\ pc = [g \in Goroutines |-> IF g = Loop THEN "check" ELSE "idle"]
  /\ cancelled = {}
  /\ events = [w \in Watchers |-> <<>>]
  /\ version = 0 /\ announced = [w \in Watchers |-> 0]
  /\ exited = FALSE

-----------------------------------------------------------------------------
(* The loop: for { select cancel; Start; Wait; backoff }                   *)

(* The operators named Bug... are faulty variants of the definition that   *)
(* follows them: each property is checked to fail for one of them.         *)

CheckCancel ==
  /\ Move(Loop, "check", IF Loop \in cancelled THEN "done" ELSE "start")
  /\ UNCHANGED <<cmd, mutex, cleanStop, countVars, timerVars, procVars,
                 cancelled, fileVars, exited>>

\* cleanStop is not reset.
BugStartMarked(p) ==
  /\ Move(Loop, "start", "wait")
  /\ mutex = Free /\ cmd = NoProc
  /\ procState[p] \in {"gone", "zombie"}
  /\ cmd' = p
  /\ procState' = [procState EXCEPT ![p] = "running"]
  /\ seen' = [seen EXCEPT ![p] = version]
  /\ UNCHANGED <<mutex, cleanStop, countVars, timerVars, cancelled, fileVars, exited>>

\* Start holds the mutex from its first line to its last, so it is one step.
StartOK(p) ==
  /\ Move(Loop, "start", "wait")
  /\ mutex = Free /\ cmd = NoProc
  /\ procState[p] \in {"gone", "zombie"}
  /\ cmd' = p
  /\ cleanStop' = FALSE
  /\ procState' = [procState EXCEPT ![p] = "running"]
  /\ seen' = [seen EXCEPT ![p] = version]
  /\ UNCHANGED <<mutex, countVars, timerVars, cancelled, fileVars, exited>>

\* exec fails: cmd is nil again.
StartFails ==
  /\ Move(Loop, "start", "wait")
  /\ mutex = Free /\ cmd = NoProc
  /\ cleanStop' = FALSE
  /\ UNCHANGED <<cmd, mutex, countVars, timerVars, procVars, cancelled, fileVars, exited>>

\* CheckAndEnableMemoryBufLimits cannot parse what it reads: log.Fatalw.
StartFatal ==
  /\ pc[Loop] = "start" /\ mutex = Free /\ cmd = NoProc
  /\ exited' = TRUE
  /\ UNCHANGED <<cmd, mutex, cleanStop, countVars, timerVars, procVars,
                 pc, cancelled, fileVars>>

\* Wait reads cmd and cleanStop without the mutex; if Stop has been here it
\* does not call cmd.Wait.
Wait ==
  /\ pc[Loop] = "wait"
  /\ Goto(Loop, IF cmd = NoProc THEN "arm" ELSE IF cleanStop THEN "clear" ELSE "reap")
  /\ UNCHANGED <<cmd, mutex, cleanStop, countVars, timerVars, procVars,
                 cancelled, fileVars, exited>>

\* cmd.Wait returns once the process has ended; after a run of ten minutes or
\* more restartTimes is 0 again.
Reap ==
  /\ Move(Loop, "reap", "clear")
  /\ procState[cmd] = "zombie"
  /\ procState' = [procState EXCEPT ![cmd] = "gone"]
  /\ restartTimes' \in {restartTimes, 0}
  /\ UNCHANGED <<cmd, mutex, cleanStop, counted, timerVars, seen,
                 cancelled, fileVars, exited>>

\* Without the mutex.
BugClearUnlocked ==
  /\ Move(Loop, "clear", "arm")
  /\ cmd' = NoProc
  /\ UNCHANGED <<mutex, cleanStop, countVars, timerVars, procVars, cancelled, fileVars,
                 exited>>

Clear ==
  /\ Move(Loop, "clear", "arm")
  /\ mutex = Free
  /\ cmd' = NoProc
  /\ UNCHANGED <<mutex, cleanStop, countVars, timerVars, procVars,
                 cancelled, fileVars, exited>>

\* No timer.Reset.
BugArmForgotten ==
  /\ Move(Loop, "arm", "receive")
  /\ UNCHANGED <<cmd, mutex, cleanStop, countVars, timerVars, procVars, cancelled,
                 fileVars, exited>>

\* backoff: timer.Reset discards a value nobody received.
Arm ==
  /\ Move(Loop, "arm", "receive")
  /\ timer' = "armed"
  /\ UNCHANGED <<cmd, mutex, cleanStop, countVars, waiters, procVars,
                 cancelled, fileVars, exited>>

\* `fb.restartTimes++` without the mutex: a load, then a store.
Load ==
  /\ Move(Loop, "load", "count")
  /\ counted' = restartTimes
  /\ UNCHANGED <<cmd, mutex, cleanStop, restartTimes, timerVars, procVars,
                 cancelled, fileVars, exited>>

Increment(n) == IF n < MaxRestartTimes THEN n + 1 ELSE n

Count ==
  /\ Move(Loop, "count", "check")
  /\ restartTimes' = Increment(counted)
  /\ counted' = 0
  /\ UNCHANGED <<cmd, mutex, cleanStop, timerVars, procVars, cancelled,
                 fileVars, exited>>

-----------------------------------------------------------------------------
(* The timer's channel, shared by backoff and resetTimer.                  *)

\* resetTimer counts a restart.
BugAfterReceive(g) == "load"

AfterReceive(g) == IF g = Loop THEN "load" ELSE "rearm"

\* <-timer.C: takes a value that is there, or joins the queue of receivers.
Receive(g) ==
  /\ pc[g] = "receive"
  /\ \/ /\ timer = "fired"
        /\ timer' = "idle"
        /\ Goto(g, AfterReceive(g))
        /\ UNCHANGED waiters
     \/ /\ timer # "fired"
        /\ waiters' = Append(waiters, g)
        /\ Goto(g, "blocked")
        /\ UNCHANGED timer
  /\ UNCHANGED <<cmd, mutex, cleanStop, countVars, procVars, cancelled,
                 fileVars, exited>>

\* The runtime sends the value: to the first receiver, or it waits for one.
Fire ==
  /\ timer = "armed"
  /\ \/ /\ waiters = <<>>
        /\ timer' = "fired"
        /\ UNCHANGED <<waiters, pc>>
     \/ /\ waiters # <<>>
        /\ timer' = "idle"
        /\ waiters' = Tail(waiters)
        /\ Goto(Head(waiters), AfterReceive(Head(waiters)))
  /\ UNCHANGED <<cmd, mutex, cleanStop, countVars, procVars, cancelled,
                 fileVars, exited>>

-----------------------------------------------------------------------------
(* Stop and resetTimer, run by the watchers and by the loop's interrupt.   *)

\* TryLock instead of Lock.
BugStopTryLock(r) ==
  /\ pc[r] = "stop"
  /\ IF mutex = Free /\ cmd # NoProc
     THEN mutex' = r /\ cleanStop' = TRUE /\ Goto(r, "kill")
     ELSE Goto(r, "halt") /\ UNCHANGED <<mutex, cleanStop>>
  /\ UNCHANGED <<cmd, countVars, timerVars, procVars, cancelled, fileVars, exited>>

\* Stop takes the mutex. Without a process it returns; otherwise it marks the
\* stop as its own and holds the mutex until the kill.
StopBegin(r) ==
  /\ pc[r] = "stop"
  /\ mutex = Free
  /\ \/ /\ cmd = NoProc
        /\ Goto(r, "halt")
        /\ UNCHANGED <<mutex, cleanStop>>
     \/ /\ cmd # NoProc
        /\ mutex' = r
        /\ cleanStop' = TRUE
        /\ Goto(r, "kill")
  /\ UNCHANGED <<cmd, countVars, timerVars, procVars, cancelled,
                 fileVars, exited>>

\* The process is marked but not killed.
BugKillForgotten(r) ==
  /\ Move(r, "kill", "halt")
  /\ mutex' = Free
  /\ UNCHANGED <<cmd, cleanStop, countVars, timerVars, procVars, cancelled, fileVars,
                 exited>>

\* Process.Kill: an error, only logged, for a process that has ended.
Kill(r) ==
  /\ Move(r, "kill", "halt")
  /\ procState' = [procState EXCEPT ![cmd] = IF @ = "running" THEN "killed" ELSE @]
  /\ mutex' = Free
  /\ UNCHANGED <<cmd, cleanStop, countVars, timerVars, seen, cancelled,
                 fileVars, exited>>

\* The stopped timer is not rearmed.
BugHaltOnly(r) ==
  /\ Move(r, "halt", IF timer = "idle" THEN "receive" ELSE "zero")
  /\ timer' = "idle"
  /\ UNCHANGED <<cmd, mutex, cleanStop, countVars, waiters, procVars, cancelled,
                 fileVars, exited>>

\* timer.Stop is false only if the timer's value has been received already
\* (or it was stopped): then resetTimer waits for another one.
HaltTimer(r) ==
  /\ Move(r, "halt", IF timer = "idle" THEN "receive" ELSE "rearm")
  /\ timer' = "idle"
  /\ UNCHANGED <<cmd, mutex, cleanStop, countVars, waiters, procVars,
                 cancelled, fileVars, exited>>

\* timer.Reset(0)
Rearm(r) ==
  /\ Move(r, "rearm", "zero")
  /\ timer' = "armed"
  /\ UNCHANGED <<cmd, mutex, cleanStop, countVars, waiters, procVars,
                 cancelled, fileVars, exited>>

ZeroRestarts(r) ==
  /\ Move(r, "zero", IF r = Interrupter THEN "done" ELSE "idle")
  /\ restartTimes' = 0
  /\ UNCHANGED <<cmd, mutex, cleanStop, counted, timerVars, procVars,
                 cancelled, fileVars, exited>>

-----------------------------------------------------------------------------
(* The watchers' select, and the interrupts.                               *)

\* The wrong bit of event.Op.
BugIsWrite(kind) == kind = "write"

IsValidEvent(kind) == kind = "create"

\* case event := <-watcher.Events
Notice(w) ==
  /\ pc[w] = "idle"
  /\ events[w] # <<>>
  /\ events' = [events EXCEPT ![w] = Tail(@)]
  /\ Goto(w, IF IsValidEvent(Head(events[w])) THEN "stop" ELSE "idle")
  /\ UNCHANGED <<cmd, mutex, cleanStop, countVars, timerVars, procVars,
                 cancelled, version, announced, exited>>

\* case <-cancel, or case <-watcher.Errors (at any time: a queue overflow)
ReturnWatcher(w) ==
  /\ Move(w, "idle", "done")
  /\ UNCHANGED <<cmd, mutex, cleanStop, countVars, timerVars, procVars,
                 cancelled, fileVars, exited>>

\* The cancel channel is not closed.
BugInterruptOpen(w, kept) ==
  /\ pc[Interrupter] \in {"idle", "done"}
  /\ w \notin cancelled
  /\ kept \in 0..1 /\ kept <= Len(events[w])
  /\ events' = [events EXCEPT ![w] = SubSeq(@, 1, kept)]
  /\ UNCHANGED <<cmd, mutex, cleanStop, countVars, timerVars, procVars, pc, cancelled,
                 version, announced, exited>>

\* watcher.Close; close(cancel). fsnotify may still hand over the event it
\* was sending.
InterruptWatcher(w, kept) ==
  /\ pc[Interrupter] \in {"idle", "done"}
  /\ w \notin cancelled
  /\ kept \in 0..1 /\ kept <= Len(events[w])
  /\ cancelled' = cancelled \cup {w}
  /\ events' = [events EXCEPT ![w] = SubSeq(@, 1, kept)]
  /\ UNCHANGED <<cmd, mutex, cleanStop, countVars, timerVars, procVars,
                 pc, version, announced, exited>>

\* close(cancel), then Stop and resetTimer as any Resetter.
InterruptLoop ==
  /\ Move(Interrupter, "idle", "stop")
  /\ cancelled' = cancelled \cup {Loop}
  /\ UNCHANGED <<cmd, mutex, cleanStop, countVars, timerVars, procVars,
                 fileVars, exited>>

-----------------------------------------------------------------------------
(* Fluent Bit and the file system.                                         *)

\* A Fluent Bit process ends: on its own, or of the signal.
ProcEnds(p) ==
  /\ procState[p] \in {"running", "killed"}
  /\ procState' = [procState EXCEPT ![p] = "zombie"]
  /\ seen' = [seen EXCEPT ![p] = 0]
  /\ UNCHANGED <<cmd, mutex, cleanStop, countVars, timerVars, pc,
                 cancelled, fileVars, exited>>

\* A file in w's directory changes: by a new directory entry ("create", as when
\* a mounted ConfigMap or Secret is replaced) or by a write in place.
Change(w, kind) ==
  /\ version < MaxVersion
  /\ version' = version + 1
  /\ announced' = IF kind = "create" THEN [announced EXCEPT ![w] = version'] ELSE announced
  /\ events' = IF w \in cancelled THEN events ELSE [events EXCEPT ![w] = Append(@, kind)]
  /\ UNCHANGED <<cmd, mutex, cleanStop, countVars, timerVars, procVars,
                 pc, cancelled, exited>>

-----------------------------------------------------------------------------
LoopStep ==
  \/ CheckCancel \/ StartFails \/ StartFatal \/ Wait \/ Reap \/ Clear \/ Arm \/ Load
  \/ \E p \in Procs : StartOK(p)
  \/ Receive(Loop) \/ Count

ResetStep(r) ==
  StopBegin(r) \/ Kill(r) \/ HaltTimer(r) \/ Receive(r) \/ Rearm(r) \/ ZeroRestarts(r)

WatcherStep(w) == ResetStep(w) \/ Notice(w) \/ ReturnWatcher(w)

InterruptStep ==
  \/ ResetStep(Interrupter) \/ InterruptLoop
  \/ \E w \in Watchers, kept \in 0..1 : InterruptWatcher(w, kept)

Environment ==
  \/ Fire
  \/ \E p \in Procs : ProcEnds(p)
  \/ \E w \in Watchers, kind \in Kinds : Change(w, kind)

Next ==
  /\ ~exited
  /\ LoopStep \/ (\E w \in Watchers : WatcherStep(w)) \/ InterruptStep \/ Environment

Spec == Init /\ [][Next]_vars
-----------------------------------------------------------------------------
(* Properties.                                                             *)

\* Type invariant of the supervisor's state.
TypeOK ==
  /\ cmd \in Procs \cup {NoProc}
  /\ mutex \in Resetters \cup {Free}
  /\ cleanStop \in BOOLEAN /\ exited \in BOOLEAN
  /\ restartTimes \in 0..MaxRestartTimes /\ counted \in 0..MaxRestartTimes
  /\ timer \in {"armed", "fired", "idle"}
  /\ waiters \in Seq(Goroutines)
  /\ procState \in [Procs -> {"gone", "running", "killed", "zombie"}]
  /\ seen \in [Procs -> 0..MaxVersion]
  /\ pc \in [Goroutines -> LoopPlaces \cup ResetPlaces]
  /\ pc[Loop] \in LoopPlaces
  /\ \A r \in Resetters : pc[r] \in ResetPlaces
  /\ cancelled \subseteq Watchers \cup {Loop}
  /\ events \in [Watchers -> Seq(Kinds)]
  /\ version \in 0..MaxVersion
  /\ announced \in [Watchers -> 0..MaxVersion]

\* A Fluent Bit that nobody has signalled is the one Config.cmd holds: Wait's
\* shortcut past cmd.Wait and its `cmd = nil` never lose a live process, so
\* there is never a second one that Stop cannot reach (Start, Wait, Stop).
RunningIsCurrent == \A p \in Procs : Running(p) => cmd = p

\* Between `cleanStop = true` and Process.Kill, Config.cmd is still the process
\* Stop checked for: the loop cannot set it to nil, or start another, in
\* between (Stop's fb.cmd.Process after the nil check).
KillHasTarget ==
  \A r \in Resetters : pc[r] = "kill" => mutex = r /\ cmd # NoProc

\* A Fluent Bit that runs with files older than the last one created in a
\* watched directory has its stop coming: the Create event is queued, or the
\* watcher is in Stop, or the watcher has been shut down. No event is used up
\* without the stop it asks for (Start racing Stop).
StaleIsPending ==
  \A p \in Procs, w \in Watchers :
    Running(p) /\ seen[p] < announced[w] =>
      \/ \E i \in 1..Len(events[w]) : IsValidEvent(events[w][i])
      \/ pc[w] \in {"stop", "kill", "done"}
      \/ w \in cancelled

\* While the loop is in `<-timer.C` of backoff the timer is going to fire, or a
\* resetTimer that stopped it, or received its value, is about to rearm it:
\* concurrent resetTimers cannot leave the loop asleep for good.
BackoffIsServed ==
  pc[Loop] \in {"receive", "blocked"} =>
    timer # "idle" \/ \E r \in Resetters : pc[r] = "rearm"

\* What the supervisor does, seen from the watched directories: the versions in use,
\* the watchers that have a stop to carry out, those that have been shut down.
Live == {seen[p] : p \in {q \in Procs : Running(q)}}
HasCreate(w) == \E i \in 1..Len(events[w]) : IsValidEvent(events[w][i])
Asked(w) == pc[w] # "done" /\ (pc[w] \in {"stop", "kill"} \/ HasCreate(w))
Shut(w) == w \in cancelled \/ pc[w] = "done"

Promise == INSTANCE Reload WITH
  running <- Live,
  pending <- {w \in Watchers : Asked(w)},
  closed  <- {w \in Watchers : Shut(w)}

\* The supervisor implements Reload: never two Fluent Bits, no Create event
\* dropped before a shutdown, and no stop over with while a Fluent Bit still runs
\* unsignalled (Start, Stop, Wait, the watchers' select).
ImplementsReload == Promise!Spec
=============================================================================
