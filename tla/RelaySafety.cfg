\* Four connections and two rooms on a relay that holds one room.
SPECIFICATION Spec
CONSTANTS
  None = None
  Conns = {c1, c2, c3, c4}
  RoomNames = {r1, r2}
  MaxRooms = 1
  MaxPending = 3
SYMMETRY Symmetry
CHECK_DEADLOCK FALSE
INVARIANTS
  NobodyStranded NoLeakedRoom SoundPairs CountersAgree IInv
PROPERTIES
  PairedNotDisplaced ImplementsMatchmaker
