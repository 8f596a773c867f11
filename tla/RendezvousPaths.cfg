\* A receiver that starts first and waits at the relay, and a stranger.
SPECIFICATION Spec
CONSTANTS
  SenderConns = {s1, s2}
  ReceiverConn = r
  RoomNames = {room}
  MaxRooms = 1
  MaxPending = 4
  None = None
  Setups <- Both
  Codes = {"same"}
  MaxStrays = 1
  StrayKinds = {"garbage"}
  Troubles <- NoTrouble
CHECK_DEADLOCK FALSE
INVARIANTS
  SamePath
