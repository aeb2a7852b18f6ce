SPECIFICATION Spec
CONSTANTS
  Modes = {"live"}
  Owners = {o1}
  Window = 1
  Retries = 0
  MaxStepAttempts = 2
  Events = {"panic"}
  MaxCrashes = 0
INVARIANTS FailureAlwaysTruthful
CHECK_DEADLOCK FALSE
