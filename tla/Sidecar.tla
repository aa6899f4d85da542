------------------------------- MODULE Sidecar -------------------------------
(***************************************************************************)
(* The run group CreateWatchers (pkg/couchbase/watcher.go) builds and main *)
(* runs: a signal handler, the couchbase watcher, the configuration        *)
(* watcher, the Fluent Bit loop and, if a directory is configured, the     *)
(* certificate watcher, around the supervisor of FluentWatcher.            *)
(* run.Group.Run starts every actor; when the first one returns it calls   *)
(* the actors' interrupts one after the other, in the order they were      *)
(* added, and then waits for every actor to return. What the couchbase     *)
(* watcher does in between is the subject of other modules: here it        *)
(* returns, on its own or because it is interrupted.                       *)
(***************************************************************************)
EXTENDS FluentWatcher

CONSTANTS
  Signal, Couchbase,          \* the actors FluentWatcher does not model
  ConfigWatcher, TLSWatcher,  \* the members of Watchers
  MayEnd                      \* whether signals and fsnotify errors occur

Others == {Signal, Couchbase}

ASSUME ActorsAssumption ==
  /\ Watchers \in {{ConfigWatcher}, {ConfigWatcher, TLSWatcher}}
  /\ Others \cap Goroutines = {} /\ Signal # Couchbase
  /\ MayEnd \in BOOLEAN

VARIABLES
  turn,    \* 0 while no actor has returned, then the interrupt Run calls next
  asked,   \* the Others that have been interrupted
  ended    \* the Others that have returned

runVars == <<turn, asked, ended>>
allVars == <<vars, runVars>>

\* The actors in the order CreateWatchers adds them (AddTLSCertsWatcher adds
\* none without a directory).
Order == <<Signal, Couchbase, ConfigWatcher, Loop>>
           \o (IF TLSWatcher \in Watchers THEN <<TLSWatcher>> ELSE <<>>)

Waiting  == Len(Order) + 1   \* Run waits for every actor
Returned == Len(Order) + 2   \* Run has returned and main exits

SidecarInit == Init /\ turn = 0 /\ asked = {} /\ ended = {}

-----------------------------------------------------------------------------
\* A signal arrives, fsnotify reports an error, or the actor was interrupted.
OtherReturns(a) ==
  /\ a \notin ended
  /\ MayEnd \/ a \in asked
  /\ ended' = ended \cup {a}
  /\ UNCHANGED <<vars, turn, asked>>

\* Run receives from the channel the first actor's result.
FirstReturn ==
  /\ turn = 0
  /\ ended # {} \/ \E w \in Watchers : pc[w] = "done"
  /\ turn' = 1
  /\ UNCHANGED <<vars, asked, ended>>

Interrupting(a) == turn \in 1..Len(Order) /\ Order[turn] = a

InterruptOther ==
  \E a \in Others :
    /\ Interrupting(a)
    /\ asked' = asked \cup {a}
    /\ turn' = turn + 1
    /\ UNCHANGED <<vars, ended>>

InterruptWatching ==
  \E w \in Watchers, kept \in 0..1 :
    /\ Interrupting(w)
    /\ InterruptWatcher(w, kept)
    /\ turn' = turn + 1
    /\ UNCHANGED <<asked, ended>>

\* The interrupt of the loop takes many steps; Run goes on after the last.
InterruptingLoop ==
  /\ Interrupting(Loop)
  /\ InterruptLoop \/ ResetStep(Interrupter)
  /\ turn' = IF pc'[Interrupter] = "done" THEN turn + 1 ELSE turn
  /\ UNCHANGED <<asked, ended>>

\* Run does not wait for the actors.
BugReturnsEarly ==
  /\ turn = Waiting
  /\ turn' = Returned
  /\ UNCHANGED <<vars, asked, ended>>

RunReturns ==
  /\ turn = Waiting
  /\ ended = Others
  /\ \A g \in Watchers \cup {Loop} : pc[g] = "done"
  /\ turn' = Returned
  /\ UNCHANGED <<vars, asked, ended>>

RunStep == FirstReturn \/ InterruptOther \/ InterruptWatching \/ InterruptingLoop \/ RunReturns

LoopRuns == LoopStep /\ UNCHANGED runVars
WatcherRuns(w) ==
  /\ ResetStep(w) \/ Notice(w) \/ ((MayEnd \/ w \in cancelled) /\ ReturnWatcher(w))
  /\ UNCHANGED runVars
EnvironmentRuns == Environment /\ UNCHANGED runVars

\* The program is over after a fatal error or when main returns.
Alive == ~exited /\ turn # Returned

SidecarNext ==
  /\ Alive
  /\ \/ RunStep \/ LoopRuns \/ EnvironmentRuns
     \/ \E w \in Watchers : WatcherRuns(w)
     \/ \E a \in Others : OtherReturns(a)

\* Every goroutine that can run does; the timer fires; a killed process ends
\* and an interrupted actor returns. Nothing is assumed of the files, of
\* signals, or of when Fluent Bit ends on its own.
Fairness ==
  /\ WF_allVars(Alive /\ RunStep)
  /\ WF_allVars(Alive /\ LoopRuns)
  /\ WF_allVars(Alive /\ Fire /\ UNCHANGED runVars)
  /\ \A p \in Procs :
       WF_allVars(Alive /\ procState[p] = "killed" /\ ProcEnds(p) /\ UNCHANGED runVars)
  /\ \A w \in Watchers :
       WF_allVars(/\ Alive
                  /\ \/ ResetStep(w) \/ Notice(w)
                     \/ w \in cancelled /\ ReturnWatcher(w)
                  /\ UNCHANGED runVars)
  /\ \A a \in Others : WF_allVars(Alive /\ a \in asked /\ OtherReturns(a))

SidecarSafety == SidecarInit /\ [][SidecarNext]_allVars
SidecarSpec   == SidecarSafety /\ Fairness

-----------------------------------------------------------------------------
(* Properties.                                                             *)

\* Type invariant of the run group's state.
SidecarTypeOK ==
  /\ TypeOK
  /\ turn \in 0..Returned
  /\ asked \subseteq Others /\ ended \subseteq Others

\* However the program ends, by Run's return or by log.Fatalw in the middle of a
\* Start, no Fluent Bit is left running; and Run returns with the mutex free (the
\* interrupt of addFluentBitWatcher, Run, CheckAndEnableMemoryBufLimits).
ReturnIsClean ==
  /\ turn = Returned \/ exited => cmd = NoProc /\ \A p \in Procs : ~Running(p)
  /\ turn = Returned => mutex = Free

\* Some Fluent Bit runs with files older than the last one w was told of.
Stale(w) == \E p \in Procs : Running(p) /\ seen[p] < announced[w]

Stopping == exited \/ turn # 0

\* A backoff ends: the loop goes on to start Fluent Bit again, unless it is
\* shut down (backoff, resetTimer).
BackoffEnds == pc[Loop] \in {"arm", "receive", "blocked"} ~> pc[Loop] = "start" \/ exited
                                                             \/ pc[Loop] = "done" \/ turn = Returned

\* After a file is created in a watched directory, Fluent Bit is stopped, unless
\* the watcher is held up in the `<-timer.C` of resetTimer.
ReloadUnlessDraining ==
  \A w \in Watchers : Stale(w) ~> ~Stale(w) \/ Stopping \/ pc[w] = "blocked"

\* The Fluent Bit the loop waits for, or waited for last, has ended.
HasEnded == pc[Loop] \in {"reap", "clear", "arm"} /\ \A p \in Procs : ~Running(p)

\* A watcher that waits in resetTimer goes on after the Fluent Bit the loop waits
\* for has ended, whichever is started next: it waits through one run, and the
\* backoff that follows does not pass it over (backoff, resetTimer).
DrainEndsWithProcess ==
  \A w \in Watchers : pc[w] = "blocked" /\ HasEnded ~> pc[w] # "blocked" \/ Stopping

\* After an actor has returned Run calls every interrupt and then returns, unless
\* somebody waits in resetTimer for a timer the loop no longer arms, or a Fluent
\* Bit that was started behind the loop's interrupt goes on running.
ShutdownUnlessCaught ==
  /\ turn # 0 ~> turn >= Waiting \/ exited \/ pc[Interrupter] = "blocked"
  /\ turn = Waiting ~> \/ turn = Returned \/ exited
                       \/ \E w \in Watchers : pc[w] = "blocked"
                       \/ pc[Loop] = "reap" /\ Running(cmd)

\* After the config file changed, the watcher stops Fluent Bit (comment in
\* AddDynamicConfigWatcher): a change is never left unapplied for good.
ReloadHappens ==
  \A w \in Watchers : Stale(w) ~> ~Stale(w) \/ Stopping

\* The termination handler ends the program (comment in CreateWatchers): once
\* an actor has returned, Run returns.
ShutdownReturns == turn # 0 ~> turn = Returned \/ exited
=============================================================================
