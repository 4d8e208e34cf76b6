SPECIFICATION Spec
CONSTANTS
  SlotLength = 2
  DayLength = 16
  DaysAsked = 1
  Changes <- AnyChange
  ChangeDay = 3
  MaxMessages = 0
  Horizon = 70
CHECK_DEADLOCK FALSE
INVARIANT EachDayOnce
