SPECIFICATION PartSpec
CONSTANTS
  Rosters <- MCRosters
  TrainScope = "TRAIN"
  LastNo = 3
  D4Engines = 2
  D4Trains = 1
  NoD4 = FALSE
  ForceSync = TRUE
  MaxStrays = 1
  MaxLost = 1
  Threads = {c1, c2, c3}
  Commander = Commander
  Closer = Closer
  Nobody = Nobody
  MaxTicks = 2
  aSwitch = aSwitch
  anEngine = anEngine
  Components = {aSwitch, anEngine}
  SnapshotVia <- MCSnapshotVia
  Changes <- MCSwitchThrown
  MaxUpdates = 3
  MaxSyncs = 2
  Syncer = Syncer
  NoSender = NoSender
  Begin = Begin
  Complete = Complete
  RampNodes = {n1, n2}
  TopSpeed = 2
  RampInc = 1
  RampAsks = 2
  RampsWait = TRUE
  HoldThreshold = 2
  RecoveryWindow = 2
  LeaveConfirm = 1
  RestartResume = 1
  Debounce = 1
  RepeatEvery = 1
  HoldCallbacks = {{"press"}, {"hold"}, {"press", "hold"}, {"repeat"}}
  HoldTouches = 3
  HoldTricks = 2
  SOP = 209
  STF = 222
  EOP = 223
  Payloads <- MCPayloads
  MaxFrames = 2
  RefreshKeys = {a, b}
  QuietFor = 2
  MaxDelay = 3
  RefreshPoll = 2
  KeepIdle = 4
  RefreshStops = 1
  CacheFiles = {f, g}
  CustomImages = {g}
  QuietFiles = {g}
  CacheClients = {k1}
  CacheServer = srv
  CacheEvents = 2
  Deletions = {d1, d2}
  xButton = xButton
  paddle = paddle
  l1 = l1
  l3 = l3
  aButton = aButton
  menu = menu
  DeckButtons = {xButton, paddle, l1, l3, aButton, menu}
  ButtonDoes <- MCButtonDoes
  DeckChords <- MCDeckChords
  Paddles = {paddle}
  SdlPaddles = TRUE
  DeckPanes = {left, right}
  AnalogPanes = {left}
  TopThrottle = 1
  DeckInputs = 4
  DeckTrouble = 1
  Digits = {"1"}
  HandButtons = {"forward", "boost", "startUp"}
  Roster <- MCMotives
  LegacyOnes <- MCLegacyOnes
  NoMotive = NoMotive
  NumLasts = 2
  Patient = TRUE
  KeyPresses = 5
  ButtonPresses = 2
INVARIANTS
  ProtocolTypes
  LoadSafety
  TrainsFollowEngines
  OneCountdownAtATime
  ClientConverges
  
  HoldSafety
  FrameSafety
  
  DeckSafety
  
PROPERTIES
  NothingAskedTwice
  OverMeansSilent
  ClientNeverGoesBack
  FiresUnderTheFinger
  CacheSafety
  HaltNeverStarts
CHECK_DEADLOCK FALSE
