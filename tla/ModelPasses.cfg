SPECIFICATION FairSpec
CONSTANT HasFallback = TRUE
INVARIANTS
  NothingLeftRunning
  SpendBounded
  ResultFaithful
PROPERTY JudgementEnds
CHECK_DEADLOCK FALSE
