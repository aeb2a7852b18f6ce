SPECIFICATION Spec
CONSTANTS
    NoRunner = NoRunner
    New = r3
    Runners = {r1, r2, r3}
    StepNames = {"place", "check", "verify"}
    Program <- RenamedProgram
    MaxStepAttempts = 2
    MaxSteps = 200
    MaxBackoff = 3
    Lease = 2
    Interval = 1
    Grace = 1
    StoreTimeout = 0
    Retention = 1
    MaxFaults = 1
    MaxStalls = 0
    MaxJumps = 0
    MaxClaims = 2
SYMMETRY Symmetry
INVARIANTS WriteAhead
PROPERTIES CancelObeyed TerminalStays ImplementsDurable
