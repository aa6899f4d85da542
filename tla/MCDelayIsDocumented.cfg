CONSTANTS
  MaxRestarts = 80
  Saturates = TRUE
SPECIFICATION Spec
PROPERTIES DelayIsDocumented
