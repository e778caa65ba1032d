\* Four messages in flight of a single-slot pair of channels; no failure of any kind.
CONSTANTS
    Workers = {w1}
    BatchSize = 1
    NumMsgs = 4
    Bad = {}
    LocalRetries = 1
    Rebalances = FALSE
    ClaimErrors = FALSE
SPECIFICATION FairSpec
PROPERTY AckEventuallyMarked
CHECK_DEADLOCK FALSE
