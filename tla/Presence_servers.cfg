SPECIFICATION Spec
CONSTANTS
  u1 = u1
  k1 = k1
  k2 = k2
  Users = {u1}
  Sockets = {k1, k2}
  Servers = {s1, s2}
  Owner <- OneUser
  None = None
  MaxExits = 1
  MaxFaults = 1
CHECK_DEADLOCK FALSE
INVARIANTS LeasedIsOnline LiveIsOnline
