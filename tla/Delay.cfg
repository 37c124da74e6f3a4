SPECIFICATION FairSpec
CONSTANTS
  r1 = r1
  r2 = r2
  r3 = r3
  k1 = k1
  k2 = k2
  c1 = c1
  c2 = c2
  Requests = {r1, r2}
  KeyOf <- MCKeyOf2
  Exempt = {r2}
  Cancelable = {r1}
  Delays = {1, 2}
  PurgeFrequency = 2
  Callers = {c1, c2}
  MaxTime = 3
  MaxCancels = 1
  SendMayFail = TRUE
  Everything = Everything
  Purge = Purge
  Handler = Handler
  Nobody = Nobody
INVARIANTS
  TypeOK
  FiresInDeadlineOrder
  
  WakesInTime
PROPERTIES
  ImplementsDelayedRequests
  EveryRequestSettles
CHECK_DEADLOCK FALSE
