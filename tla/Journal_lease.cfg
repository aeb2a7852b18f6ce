SPECIFICATION Spec
CONSTANTS
    NoRunner = NoRunner
    New = r2
    Runners = {r1, r2}
    StepNames = {"place", "check", "verify"}
    Program <- LongerProgram
    MaxStepAttempts = 2
    MaxSteps = 200
    MaxBackoff = 3
    Lease = 3
    Interval = 1
    Grace = 1
    StoreTimeout = 1
    Retention = 1
    MaxFaults = 0
    MaxStalls = 1
    MaxJumps = 0
    MaxClaims = 2
INVARIANTS SuccessIsComplete StepExclusive OneUnfinished
PROPERTIES AttemptsNeverRepeat
