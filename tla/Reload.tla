-------------------------------- MODULE Reload --------------------------------
(***************************************************************************)
(* What the supervisor promises about its watched directories, whatever    *)
(* its goroutines do: at most one Fluent Bit runs; it starts with the      *)
(* files of that moment; every announced change makes a stop pending; and  *)
(* a stop is only done with when no Fluent Bit runs. How long that takes   *)
(* is not promised. FluentWatcher implements this.                         *)
(***************************************************************************)
EXTENDS Integers

CONSTANTS
  Watchers,     \* the watched directories
  MaxVersion    \* bound: number of file changes

VARIABLES
  running,    \* the version the Fluent Bit that runs has read; {} if none runs
  version,    \* the version of the files
  announced,  \* per directory, the last version the watcher is told of
  pending,    \* the watchers with a stop to carry out
  closed      \* the watchers that have been shut down

vars == <<running, version, announced, pending, closed>>

Init ==
  /\ running = {} /\ version = 0
  /\ announced = [w \in Watchers |-> 0]
  /\ pending = {} /\ closed = {}

Start ==
  /\ running = {}
  /\ running' = {version}
  /\ UNCHANGED <<version, announced, pending, closed>>

\* On its own, or stopped.
End == running' = {} /\ UNCHANGED <<version, announced, pending, closed>>

\* A change nobody is told of.
Edit ==
  /\ version < MaxVersion
  /\ version' = version + 1
  /\ UNCHANGED <<running, announced, pending, closed>>

Announce(w) ==
  /\ version < MaxVersion
  /\ version' = version + 1
  /\ announced' = [announced EXCEPT ![w] = version']
  /\ pending' = pending \cup ({w} \ closed)
  /\ UNCHANGED <<running, closed>>

\* The stop w asks for is done with: nothing runs on.
Serve(w) ==
  /\ w \in pending
  /\ running' = {}
  /\ pending' = pending \ {w}
  /\ UNCHANGED <<version, announced, closed>>

\* A watcher that is shut down may drop what it was told.
Close(w) ==
  /\ closed' = closed \cup {w}
  /\ pending' \in {pending, pending \ {w}}
  /\ UNCHANGED <<running, version, announced>>

Next ==
  \/ Start \/ End \/ Edit
  \/ \E w \in Watchers : Announce(w) \/ Serve(w) \/ Close(w)

Spec == Init /\ [][Next]_vars
=============================================================================
