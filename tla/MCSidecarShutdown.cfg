CONSTANTS
  Procs = {p1}
  NoProc = NoProc
  Watchers = {ConfigWatcher}
  ConfigWatcher = ConfigWatcher
  TLSWatcher = TLSWatcher
  Loop = Loop
  Interrupter = Interrupter
  Signal = Signal
  Couchbase = Couchbase
  Free = Free
  Kinds = {"create"}
  MaxVersion = 1
  MaxRestartTimes = 1
  MayEnd = TRUE
SPECIFICATION SidecarSpec
INVARIANTS SidecarTypeOK ReturnIsClean
PROPERTIES ShutdownUnlessCaught
\* The program ends: by a fatal error, or when Run has returned.
CHECK_DEADLOCK FALSE
