SPECIFICATION PartsSpec
CONSTANTS
  Stamps = {1, 2}
  Ids = {1, 2, 3, 4}
  Batch = 2
  Users = {u1, u2}
  Browsers = {b1, b2, b3}
  Savers = {s1, s2}
  MaxDevices = 1
  MaxSaves = 4
  Tabs = {t1, t2}
  Dashboards = {d1}
  Own = {o1, o2}
  Others = {c1}
  MaxRooms = 1
  MaxOpen = 1
  MaxCommands = 3
  SlotLength = 2
  DayLength = 16
  DaysAsked = 1
  ChangeDay = 2
  MaxMessages = 1
  Horizon = 66
  MaxFresh = 5
  Availabilities = {"online", "busy", "offline"}
  MaxCalls = 4
  Workers = {w1, w2, w3}
  MaxWrites = 2
  MaxExpiries = 0
  WaitsForRoom = TRUE
  Procs = {p1, p2}
  None = None
  Limit = 2
  MaxFaults = 1
  Rounds = {r1, r2}
  SeriesLength = 2
  MinutesPerDay = 2
  MaxMinute = 2
CHECK_DEADLOCK FALSE
INVARIANTS Complete AtMostDevices OneThread WhereAsked DaysCountedRight OverOnlyByResends EndedForGood OnlyApproved StillLoggedIn OneProfile ChoiceKept SeesAll
