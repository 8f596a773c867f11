\* Nothing goes wrong but that the users may press Ctrl+C once.
SPECIFICATION FairSpec
CONSTANTS
  Files <- TwoFiles
  Dirs <- NoDir
  MaxChunks = 1
  Window = 1
  Faults <- CancelOnly
CHECK_DEADLOCK FALSE
PROPERTIES
  SenderCancelEnds
