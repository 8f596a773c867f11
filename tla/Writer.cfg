\* Two writers, every policy, failing disks, with and without other programs.
SPECIFICATION FairSpec
CONSTANTS
  Writers = {w1, w2}
  Policies <- AllPolicies
  MaxNames = 1
  MaxChunks = 1
  DiskFails = TRUE
CHECK_DEADLOCK FALSE
INVARIANTS
  OnlyWholeFiles
PROPERTIES
  OthersKept FoldersStay WritersStop
