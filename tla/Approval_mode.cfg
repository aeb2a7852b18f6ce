SPECIFICATION Spec
CONSTANTS
  Modes = {"live", "paper"}
  Owners = {o1}
  Window = 1
  Retries = 0
  MaxStepAttempts = 2
  Events = {"new mode"}
  MaxCrashes = 1
INVARIANTS ModeHolds
CHECK_DEADLOCK FALSE
