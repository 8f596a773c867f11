\* Two files around a directory, two chunks each, every fault.
SPECIFICATION FairSpec
CONSTANTS
  Files <- TwoFiles
  Dirs <- OneDir
  MaxChunks = 2
  Window = 2
  Faults <- AllFaults
CHECK_DEADLOCK FALSE
INVARIANTS
  NothingHalfWritten ReportsAgree NeverAccused
PROPERTIES
  ImplementsFileTransfer EndsOrWaits
