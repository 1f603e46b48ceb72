SPECIFICATION Spec
CONSTANTS
  IdleTimeout = 1
  MaxActivitySkew = 1
  MaxFaults = 0
  Drifts = {}
  InitialHolds = {}
  WorkingHours = {}
  Ticks = {t1}
  Sessions = {s1}
  Commands = {"keep-awake"}
  MaxCommands = 1
  MaxTime = 3
  SshWait = 1
  Durations = {1}
  SleepDelays = {1}
  SleepLengths = {2}
  Window = 2
  Interval = 1
PROPERTIES
  WaitNotTakenOut
