SPECIFICATION FairSpec
CONSTANTS
  tab1 = tab1
  tab2 = tab2
  phone = phone
  u1 = u1
  u2 = u2
  v1 = v1
  Typers = {tab1, tab2, phone}
  User <- UserOf
  Screens = {v1}
  MaxEvents = 3
  MaxLooks = 1
  MaxFaults = 1
CHECK_DEADLOCK FALSE
INVARIANTS IndicatorBacked ShownWhileTyping
PROPERTY IndicatorEnds
