SPECIFICATION FairSpec
CONSTANTS
  MaxMoves = 3
  MaxFaults = 1
INVARIANTS
  Truthful
PROPERTIES
  OneLook
  CallReturns
