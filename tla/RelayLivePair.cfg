SPECIFICATION Spec
CONSTANTS
  None = None
  Conns = {c1, c2, c3, c4}
  RoomNames = {r1}
  MaxRooms = 1
  MaxPending = 4
CHECK_DEADLOCK FALSE
INVARIANTS
  LivePairKeepsRoom
