SPECIFICATION Spec
CONSTANTS
  r1 = r1
  r2 = r2
  r3 = r3
  k1 = k1
  k2 = k2
  c1 = c1
  c2 = c2
  Requests = {r1, r2}
  KeyOf <- MCKeyOf2
  Exempt = {}
  Cancelable = {r1, r2}
  Delays = {1}
  PurgeFrequency = 2
  Callers = {c1}
  MaxTime = 2
  MaxCancels = 1
  SendMayFail = FALSE
  Everything = Everything
  Purge = Purge
  Handler = Handler
  Nobody = Nobody
INVARIANTS
  CanceledRequestsStaySilent
CHECK_DEADLOCK FALSE
