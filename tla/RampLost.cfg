SPECIFICATION RampSpec
CONSTANTS
  RampNodes = {n1}
  TopSpeed = 3
  RampInc = 1
  RampAsks = 2
  RampsWait = FALSE
INVARIANTS
  RampReachesTarget
CHECK_DEADLOCK FALSE
