CONSTANTS
  Procs = {p1, p2}
  NoProc = NoProc
  Watchers = {w1}
  Loop = Loop
  Interrupter = Interrupter
  Free = Free
  Kinds = {"create", "write"}
  MaxVersion = 2
  MaxRestartTimes = 1
SPECIFICATION Spec
SYMMETRY Symmetry
INVARIANTS TypeOK RunningIsCurrent KillHasTarget StaleIsPending BackoffIsServed
PROPERTIES ImplementsReload
\* The environment is bounded and shutdown ends every goroutine.
CHECK_DEADLOCK FALSE
