CONSTANTS
  Reports = {r1}
  LogFiles = {}
  Dir = Dir
  MaxRestarts = 0
SPECIFICATION EarlySafety
INVARIANTS NothingMissed
\* The actor returns, and the files are finitely many.
CHECK_DEADLOCK FALSE
