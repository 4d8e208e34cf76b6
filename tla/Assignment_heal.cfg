SPECIFICATION FairSpec
CONSTANTS
  a1 = a1
  a2 = a2
  c1 = c1
  c2 = c2
  p1 = p1
  p2 = p2
  s1 = s1
  s2 = s2
  None = None
  Agents = {a1}
  Chats = {c1}
  Procs = {p1, p2}
  Servers = {s1, s2}
  ServerOf <- TwoServers
  Limits = {1}
  RedisReady = TRUE
  Calls = {"message", "rebalance", "role", "availability", "close"}
  MaxCalls = 3
  MaxFaults = 1
PROPERTIES CountersHeal WaitingServed
