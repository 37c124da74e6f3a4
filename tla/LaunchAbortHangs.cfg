SPECIFICATION FairLaunchSpec
CONSTANTS
  c1 = c1
  c2 = c2
  c3 = c3
  Threads = {c1}
  Commander = Commander
  Closer = Closer
  Nobody = Nobody
  MaxTicks = 1
PROPERTIES
  AbortReturns
CHECK_DEADLOCK FALSE
