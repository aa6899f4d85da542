CONSTANTS
  Procs = {p1}
  NoProc = NoProc
  Watchers = {ConfigWatcher, TLSWatcher}
  ConfigWatcher = ConfigWatcher
  TLSWatcher = TLSWatcher
  Loop = Loop
  Interrupter = Interrupter
  Signal = Signal
  Couchbase = Couchbase
  Free = Free
  Kinds = {"create"}
  MaxVersion = 2
  MaxRestartTimes = 1
  MayEnd = FALSE
SPECIFICATION SidecarSpec
PROPERTIES BackoffEnds ReloadUnlessDraining DrainEndsWithProcess
\* The program ends: by a fatal error, or when Run has returned.
CHECK_DEADLOCK FALSE
