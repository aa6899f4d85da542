CONSTANTS
  Bad = Bad
  Unreadable = Bad
  Initials <- MCInitials
  Walks <- MCWalks
  ConfigEnvs <- MCConfigEnvs
  VariableOf <- MCVariableOf
  Unsplittable <- MCUnsplittable
  CleanOf <- MCCleanOf
  DirOf <- MCDirOf
  Absolute <- MCAbsolute
  MaxOpen = 4
  Texts <- MCTexts
  MemoryOf <- MCMemoryOf
  Known = {"MBL_A"}
SPECIFICATION Spec
INVARIANTS TypeOK PrecedenceKept NoWatchOfCurrentDir LimitsSeeWhatRuns LimitsFollowConfig
           BuffersFit IncludesFollowed
\* The program ends on what it cannot parse.
CHECK_DEADLOCK FALSE
