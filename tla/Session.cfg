SPECIFICATION Spec
CONSTANTS
  IdleTimeout = 7
  MaxActivitySkew = 2
  MaxFaults = 0
  Drifts = {1}
  InitialHolds = {}
  WorkingHours = {}
  Ticks = {t1}
  Period = 1
  Accuracy = 1
  RunBound = 1
  Misses = 1
  Boot = 1
  SshWait = 1
  TickLag = 1
  MaxTime = 9
  MaxWakes = 2
INVARIANTS
  UseIsProtected
