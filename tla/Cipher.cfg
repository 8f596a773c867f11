\* Every pair of limits, and counters that end while frames are under way.
SPECIFICATION Spec
CONSTANTS
  MaxCounter = 2
  MaxFrame = 2
  MinFrame = 1
  Caps = {1, 2}
CHECK_DEADLOCK FALSE
INVARIANTS
  HonestStreamHolds NonceUsedOnce OpenedInOrder
