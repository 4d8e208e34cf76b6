SPECIFICATION Spec
CONSTANTS
  a1 = a1
  a2 = a2
  c1 = c1
  c2 = c2
  p1 = p1
  p2 = p2
  s1 = s1
  s2 = s2
  None = None
  Agents = {a1, a2}
  Chats = {c1, c2}
  Procs = {p1, p2}
  Servers = {s1}
  ServerOf <- OneServer
  Limits = {1, 2}
  RedisReady = TRUE
  Calls = {"message", "claim", "reply", "transfer", "close", "availability", "presence", "settings"}
  MaxCalls = 3
  MaxFaults = 0
SYMMETRY Symmetric
INVARIANTS TypeOK ClosedIsUnassigned CounterExact CapacityRespected DrainFlagHeld
PROPERTY ServedOnOrders
