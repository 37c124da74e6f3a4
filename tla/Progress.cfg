SPECIFICATION PartSpec
CONSTANTS
  WatchCap = 2
  WatchUpdates = 2
  LinkPlain = {}
  LinkMulti = {m, n}
  LinkParts = 2
  LinkCap = 8
  LinkTries = 2
  LinkHangUps = 1
  RegSessions = 2
  RegRetries = 1
  RegRestarts = 1
  TmccKinds = {"legacy", "tmcc1", "legacy4", "multi", "multi4", "variable"}
  SplitKinds = {"legacy", "tmcc1"}
  TmccSends = 3
  QueuedCommands = {q1, q2, q3}
  Noops = {q3}
  QueueCap = 2
  HasSer2 = FALSE
  BlockCount = 4
  Trains = {t1, t2, t3}
  NoTrain = NoTrain
  SensorIsPrompt = TRUE
  PicEngines = {lead, single}
  PicTrains = {lashup}
  LeadOf <- MCLeadOf
  Selectable = {single, lashup}
  Nothing = Nothing
  FetchWorkers = 2
  Choosings = 3
  ImageClears = 1
  FetchFailures = 1
INVARIANTS
  ProgressTypes
  PacketsAreKept
  OneSessionPerPort
  CommandsComeOutWhole
  QueueSafety
  OneTrainPerBlock
PROPERTIES
  
  LinkServes
  ClientsStayKnown
  CommandsComeOut
  
  TrainsKeepGoingRound
  PicturesArrive
CHECK_DEADLOCK FALSE
