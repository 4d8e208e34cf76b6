SPECIFICATION FairSpec
CONSTANTS
  r1 = r1
  r2 = r2
  Rounds = {r1, r2}
  SeriesLength = 2
  MinutesPerDay = 2
  MaxMinute = 2
  MaxMessages = 1
  MaxFaults = 1
CHECK_DEADLOCK FALSE
PROPERTY BecomesRight
