CONSTANTS
  Names = {1, 2, 3, 4, 5, 6, 7, 8}
  Nested = {2, 5}
  Full = {5}
  MaxCBFiles = 3
  CoarseClock = TRUE
  MaxFailures = 2
SPECIFICATION Spec
INVARIANTS TypeOK OutputBounded LatestKept TwiceAfterLeftovers
PROPERTIES RecentKept
\* With all the names in use, nothing more can be written.
CHECK_DEADLOCK FALSE
