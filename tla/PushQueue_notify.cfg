SPECIFICATION FairSpec
CONSTANTS
  u1 = u1
  u2 = u2
  r1 = r1
  r2 = r2
  r3 = r3
  Users = {u1, u2}
  Rows = {r1, r2, r3}
  Endpoint <- Browser
  Answers <- Working
  Steady = {r1}
  Subscribed <- Both
  None = None
  MessageAttempts = 3
  DeliverAttempts = 3
  MaxFaults = 2
  MaxCrashes = 1
  MaxForgotten = 1
  MaxChanges = 1
CHECK_DEADLOCK FALSE
INVARIANTS OthersOnce FailuresCounted
PROPERTY Delivered
