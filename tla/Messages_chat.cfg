SPECIFICATION FairSpec
CONSTANTS
  m1 = m1
  m2 = m2
  cust = cust
  ann = ann
  bob = bob
  p1 = p1
  p2 = p2
  None = None
  Msgs = {m1, m2}
  Sockets = {cust, ann, bob}
  From <- OneEach
  SideOf <- TeamSides
  Procs = {p1, p2}
  MaxCalls = 4
  MaxTime = 2
  MaxFaults = 1
INVARIANTS NoMissedDelivery LatestOnTop
PROPERTIES KeepsReceipts Announced
