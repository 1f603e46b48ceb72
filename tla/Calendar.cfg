SPECIFICATION Spec
CONSTANTS
  IdleTimeout = 0
  MaxActivitySkew = 0
  Schedules <- NightSchedules
  SleepTimes = {0, 1, 5, 47}
  First = 384
  Last = 620
INVARIANTS
  WindowsAgreeButForTheShift
  NextStartIsNext
  OccurrenceIsNext
  SleepGivesWay
  SleepEndsInAWindow
