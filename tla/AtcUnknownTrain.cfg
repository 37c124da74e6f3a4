SPECIFICATION AtcSpec
CONSTANTS
  BlockCount = 3
  Trains = {t1, t2}
  NoTrain = NoTrain
  SensorIsPrompt = FALSE
INVARIANTS
  OneTrainPerBlock
CHECK_DEADLOCK FALSE
