\* Two receivers under the default policy, nothing failing.
SPECIFICATION Spec
CONSTANTS
  Writers = {w1, w2}
  Policies = {"rename"}
  MaxNames = 2
  MaxChunks = 1
  DiskFails = FALSE
CHECK_DEADLOCK FALSE
INVARIANTS
  ReceivedStays
