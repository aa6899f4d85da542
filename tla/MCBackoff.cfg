CONSTANTS
  MaxRestarts = 80
  Saturates = FALSE
SPECIFICATION Spec
INVARIANTS TypeOK
PROPERTIES DocumentedAtFirst NoDelayAtLast
