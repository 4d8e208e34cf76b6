SPECIFICATION Spec
CONSTANTS
  a1 = a1
  a2 = a2
  c1 = c1
  c2 = c2
  c3 = c3
  None = None
  Agents = {a1, a2}
  Chats = {c1, c2, c3}
  Topics = {"billing"}
  Limits = {1, 3}
  QueueLimit = 3
  MaxTime = 6
  MaxCloses = 1
  MaxChanges = 2
SYMMETRY Alike
CHECK_DEADLOCK FALSE
INVARIANTS NobodyWaits LoadedAlike
