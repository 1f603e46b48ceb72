SPECIFICATION Spec
CONSTANTS
  IdleTimeout = 1
  MaxActivitySkew = 1
  MaxFaults = 1
  Drifts = {}
  InitialHolds = {}
  WorkingHours = {}
  Ticks = {t1, t2}
  Sessions = {s1}
  Commands = {"wake", "keep-awake", "sleep", "sleep-at", "cancel"}
  MaxCommands = 2
  MaxTime = 1
  SshWait = 1
  Durations = {1, 3}
  SleepDelays = {1}
  SleepLengths = {2}
  Window = 2
  Interval = 1
SYMMETRY ShellSymmetry
INVARIANTS
  HoldKept
  PromiseHonoured
  WokenUnderHold
PROPERTIES
  SleepCalledOff
  CollectsOnlyExpired
