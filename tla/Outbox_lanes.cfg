SPECIFICATION FairSpec
CONSTANTS
    Decisions = {1, 2, 3, 4}
    Protective <- Margins
    Situation <- FundingsAndAlerts
    Severity <- Severities
    Window = 1
    Lease = 4
    MaxQueueAge = 1
    ComposeTime = 0
    SendTime = 2
    RetryDelays <- OneDelay
    ProtectiveEvery = 3
    ProtectiveWindow = 4
    DigestRetry = 1
    Slots = 1
    MaxBuffered = 2
    MaxRetries = 1
    MaxProtectiveRetries = 2
    MaxBacklog = 2
    DeferTries = 2
    MaxFaults = 1
INVARIANTS TypeOK Accounted Truthful LeaseKept OneMessage
PROPERTIES ProtectiveKept Heard
