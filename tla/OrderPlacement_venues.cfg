SPECIFICATION FairSpec
CONSTANTS
    Venues <- AllVenues
    Settle = 3
    Retries = 1
    Backoff = 3
    Restart = 3
    Takeover = 4
    MaxStepAttempts = 3
    Gates = 1
    Flight = 1
    Show = 1
INVARIANTS TypeOK AtMostOneOrder NothingPlacedIsTrue NoStrayOrder RetriesOutlastSettle
PROPERTIES Concludes
