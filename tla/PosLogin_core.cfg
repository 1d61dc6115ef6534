SPECIFICATION Spec
CONSTANTS
  cashier = cashier
  manager = manager
  front = front
  c1 = c1
  r1 = r1
  r2 = r2
  Users = {cashier, manager}
  Managers = {manager}
  Devices = {front}
  NoDevice = NoDevice
  Contexts = {c1}
  NoContext = NoContext
  DeviceOf <- ContextOnFront
  Nobody = Nobody
  Requests = {r1, r2}
  MaxSessions = 2
INVARIANT OneSeat
INVARIANT ContextWinsOnce
INVARIANT SessionHasOwner
PROPERTY EvictedByRight
PROPERTY ExpiredGivesWay
