\* A stranger that says nothing.
SPECIFICATION Spec
CONSTANTS
  SenderConns = {s1, s2}
  ReceiverConn = r
  RoomNames = {room}
  MaxRooms = 1
  MaxPending = 4
  None = None
  Setups <- LanOnly
  Codes = {"same"}
  MaxStrays = 1
  StrayKinds = {"silent"}
  Troubles <- NoTrouble
CHECK_DEADLOCK FALSE
INVARIANTS
  StrangersAreIgnored
