SPECIFICATION Spec
CONSTANTS
  Modes = {"live"}
  Owners = {o1, o2}
  Window = 1
  Retries = 1
  MaxStepAttempts = 2
  Events = {"stop", "panic"}
  MaxCrashes = 0
INVARIANTS TypeOK ApprovedFirst ExecutedWasPlaced FailureIsTruthful StopAccounts
PROPERTIES StopHolds FinalStays
SYMMETRY Symmetry
CHECK_DEADLOCK FALSE
