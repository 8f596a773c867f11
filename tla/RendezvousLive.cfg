\* Every pair of options, few troubles or all of them, one stranger.
SPECIFICATION FairSpec
CONSTANTS
  SenderConns = {s1}
  ReceiverConn = r
  RoomNames = {room}
  MaxRooms = 1
  MaxPending = 4
  None = None
  Setups <- Everything
  Codes = {"same", "mistyped"}
  MaxStrays = 1
  StrayKinds = {"garbage", "unruly", "silent", "gone"}
  Troubles <- LittleOrAll
CHECK_DEADLOCK FALSE
PROPERTIES
  TheyMeet BothEnd
