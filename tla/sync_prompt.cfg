CONSTANTS
  r1 = r1
  Names <- OneName
  MaxFilesLeft = 2
  MaxJournal = 9
  StuckFileStays = FALSE
  MaxSubs = 2
  MaxReadopts = 1
  MaxChanges = 3
SPECIFICATION Spec
INVARIANTS
  NoChangeIsLost
CHECK_DEADLOCK FALSE
