SPECIFICATION FairSpec
CONSTANTS
    NoRunner = NoRunner
    New = New
    Runners = {r1}
    StepNames = {"place", "check", "verify"}
    Program <- SleepProgram
    MaxStepAttempts = 2
    MaxSteps = 200
    MaxBackoff = 3
    Lease = 2
    Interval = 1
    Grace = 1
    StoreTimeout = 0
    Retention = 1
    MaxFaults = 2
    MaxStalls = 1
    MaxJumps = 1
    MaxClaims = 9
INVARIANTS TypeOK WriteAhead BoundedAttempts
PROPERTIES CompletedStaysCompleted Finishes WaitsOut
