\* Three connections are enough for a stale removal; no symmetry with liveness.
SPECIFICATION FairSpec
CONSTANTS
  None = None
  Conns = {c1, c2, c3}
  RoomNames = {r1}
  MaxRooms = 1
  MaxPending = 2
CHECK_DEADLOCK FALSE
PROPERTIES
  CancelComesToRest ClientsSettle
