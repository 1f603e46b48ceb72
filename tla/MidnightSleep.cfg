SPECIFICATION Spec
CONSTANTS
  IdleTimeout = 0
  MaxActivitySkew = 0
  Schedules <- MidnightSchedules
  SleepTimes = {0, 1, 5, 47}
  First = 384
  Last = 620
PROPERTIES
  SleepNotInThePast
