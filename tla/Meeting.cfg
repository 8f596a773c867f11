\* The rendezvous with all options and troubles and strangers that leave; and,
\* each for itself, the search, the code on its way, the layers of settings,
\* frames cut anywhere, every pair of builds and codes, offers, and folders
\* made by two receives at once.
SPECIFICATION MeetingSpec
CONSTANTS
  \* Rendezvous
  SenderConns = {s1, s2}
  ReceiverConn = r
  RoomNames = {room}
  MaxRooms = 1
  MaxPending = 4
  None = None
  Setups <- Everything
  Codes = {"same", "mistyped"}
  MaxStrays = 1
  StrayKinds = {"garbage", "unruly", "gone"}
  Troubles <- AnyTrouble
  \* Discovery
  Senders = {near}
  SameRoom = {near}
  HostOf <- TheHost
  PortOf <- ThePort
  Patience = 5
  Interval = 2
  Backoff = 1
  Late = 1
  MaxInbox = 2
  \* Settings
  Files <- SomeFiles
  Envs <- SomeEnvs
  FlagSets <- SomeFlags
  MinWords = 3
  MaxWords = 6
  DefaultWords = 4
  DefaultPort = 9110
  Hosts = {"f", "e", "g"}
  Tokens = {"ft", "et", "gt"}
  Unset = Unset
  Empty = Empty
  Broken = Broken
  \* Codes
  Alphabet <- ThreeLetters
  Accented = {"e'", "i."}
  Lowercase <- SmallOf
  Words <- ThreeWords
  Rooms <- TwoRooms
  Chosen <- SomeChosen
  UniquePrefix = 2
  FewestWords = 2
  MostWords = 2
  MaxRoomLen = 2
  MinSecretChars = 4
  MaxEdits = 2
  \* Handshake
  Builds <- ThreeBuilds
  GivenCodes = {c1, c2}
  \* Framing
  Base = 3
  Prefix = 2
  OffsetLen = 1
  TagLen = 1
  DefaultMax = 7
  MinMax = 5
  RelayMax = 2
  DefaultChunk = 3
  MinChunk = 1
  TheirCaps <- SomeCaps
  ControlSizes = {0, 2, 6}
  Socket = 3
  MaxFrames = 2
  \* Folders
  FolderNames = {"a", "b"}
  Receives = {r1, r2}
  Chains <- SomeChains
  FoldersFail = TRUE
  \* Manifest
  CommandLines <- SomeCommandLines
  OtherOffers <- SomeOffers
  MaxComponent = 8
  MaxPath = 16
  MaxEntries = 5
  LastTry = 2
  Policies = {"skip", "fail", "rename"}
SYMMETRY Interchangeable
CHECK_DEADLOCK FALSE
INVARIANTS
  OneRegistration MeetingIsMutual StrangersRetried
  ChunksFit SameSession ErrorsAreTrue NobodyWaitsForNobody
  OfferIsAccepted PlanIsSound FoldersOnly SharedFoldersWork
  SearchKeepsTime HeardIsFound
  RetypedIsSame TyposAreNamed HighestLayerWins
PROPERTIES
  ImplementsFrameStream
