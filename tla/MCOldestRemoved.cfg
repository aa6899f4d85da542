CONSTANTS
  Names = {1, 2, 3, 4, 5, 6}
  Nested = {}
  Full = {}
  MaxCBFiles = 5
  CoarseClock = FALSE
  MaxFailures = 0
SPECIFICATION Spec
PROPERTIES OldestRemoved
\* With all the names in use, nothing more can be written.
CHECK_DEADLOCK FALSE
