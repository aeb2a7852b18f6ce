SPECIFICATION Spec
CONSTANTS
    Venues <- SpotById
    Settle = 3
    Retries = 2
    Backoff = 3
    Restart = 1
    Takeover = 4
    MaxStepAttempts = 3
    Gates = 0
    Flight = 1
    Show = 1
INVARIANTS AtMostOneOrder
