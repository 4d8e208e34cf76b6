SPECIFICATION LiveSpec
CONSTANTS
  u1 = u1
  Asking = {q1, q2, q3}
  Limit = 2
  MaxWindows = 2
  MaxCount = 5
  Procs = {p1, p2}
  MaxWrites = 3
  MaxFaults = 2
  MaxExpiries = 1
  Users = {u1}
  Sockets = {k1}
  Servers = {s1, s2}
  MaxExits = 1
  MaxFailures = 1
  MaxMisses = 1
  None = None
CHECK_DEADLOCK FALSE
INVARIANTS LimitHolds AnswerIsFresh
PROPERTIES LetInAgain StaleEnds GoneGoesOffline
