SPECIFICATION FairSpec
CONSTANTS
  Modes = {"live"}
  Owners = {o1}
  Window = 1
  Retries = 1
  MaxStepAttempts = 2
  Events = {"panic", "no provider"}
  MaxCrashes = 2
INVARIANTS FailureIsTruthful
PROPERTY ProposalEnds
CHECK_DEADLOCK FALSE
