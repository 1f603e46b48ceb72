SPECIFICATION Spec
CONSTANTS
  IdleTimeout = 2
  MaxActivitySkew = 1
  WorkingHours = {3}
  Documents <- SomeDocuments
  Starts <- SomeStarts
  Stamps = {0, 1, 3}
  SnapshotTTL = 2
  MaxMoves = 1
  MaxTime = 4
INVARIANTS
  NeverContradicts
  SaysWhatItKnows
  EarliestIsHonest
  DoctorAgrees
PROPERTIES
  StartIsFresh
