SPECIFICATION FairSpec
CONSTANTS
  a = a
  f = f
  h = h
  m = m
  o1 = o1
  o2 = o2
  s1 = s1
  s2 = s2
  key = key
  scope = scope
  Commands = {a, f, h, m}
  Halts = {h, m}
  Muted = {m}
  Fragile = {f}
  Topics = {key, scope, Broadcast}
  Broadcast = Broadcast
  Route <- MCRoute
  Reach <- MCReach
  Offerers = {o1, o2}
  Subscribers = {s1, s2}
  Dispatcher = Dispatcher
  Nobody = Nobody
  QueueSize = 4
  MaxChanges = 2
INVARIANTS
  NoLostWakeup
  NobodyCalledAfterUnsubscribe
PROPERTIES
  HaltReachesEverySubscriber
  EveryOfferReachesClients
CHECK_DEADLOCK FALSE
