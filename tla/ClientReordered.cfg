SPECIFICATION Spec
CONSTANTS
  None = None
  Names <- TwoNames
  Values <- TwoClientValues
  WorkspaceDefined = TRUE
  Faults = {}
  MaxFaults = 0
  MaxChanges = 2
INVARIANT MirrorWhenQuiet
CHECK_DEADLOCK FALSE
