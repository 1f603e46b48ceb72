SPECIFICATION FairSpec
CONSTANTS
  IdleTimeout = 1
  MaxActivitySkew = 1
  MaxFaults = 1
  Drifts = {0, 2}
  InitialHolds <- Legacy
  WorkingHours = {1}
  Ticks = {t1}
  Sessions = {s1}
  Commands = {"wake", "keep-awake", "sleep", "sleep-at", "cancel"}
  MaxCommands = 1
  MaxTime = 2
  SshWait = 1
  Durations = {1}
  SleepDelays = {1}
  SleepLengths = {2}
  Window = 2
  Interval = 1
INVARIANTS
  MirrorsEngine
PROPERTIES
  CommandsReturn
  ExpiredDocumentCollected
  IdleVMSuspended
  SleepTakesEffect
