SPECIFICATION Spec
CONSTANTS
  MaxDials = 2
  MaxStanzas = 1
  MaxCalls = 1
INVARIANT RunConnects
CHECK_DEADLOCK FALSE
