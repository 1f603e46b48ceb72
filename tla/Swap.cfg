SPECIFICATION Spec
CONSTANTS
  Sizes = {0, 1, 3}
INVARIANTS
  NeverBroken
  HeldFileStays
  Converges
