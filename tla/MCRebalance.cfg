CONSTANTS
  Reports = {r1, r2, r3}
  LogFiles = {l1, l2}
  Dir = Dir
  MaxRestarts = 2
SPECIFICATION Spec
INVARIANTS TypeOK CopiedOnce OneStrayAtMost NoticedIsHandled
PROPERTIES NoticedIsCopied DirectoryIsFound BlindUntilRestart ImplementsReportCopies
\* The actor returns, and the files are finitely many.
CHECK_DEADLOCK FALSE
