CONSTANTS
  MaxAsks = 2
  MaxCurFaults = 2
  MaxOutside = 1
SPECIFICATION CuratedSpec
INVARIANTS
  NeverUnderWarned
CHECK_DEADLOCK FALSE
