SPECIFICATION FairSpec
CHECK_DEADLOCK FALSE
CONSTANTS
  MaxListEntries = 2
  DefaultConnect = 1
  DefaultWait = 5
  Invocations <- SomeInvocations
  Failures <- SomeFailures
  WaitInterval = 1
  MaxMoves = 3
INVARIANTS
  CauseKept
  UpInTimeIsFound
  HintFollowsTheWait
  NothingWokenInVain
  DoctorAnswers
  ReadersAgree
  ReadersRefuseAlike
  ShortagesTold
  ReportsGrounded
PROPERTIES
  CommandEnds
