\* Two workers, batches of two, one undecodable message, cancellation and
\* claim errors at any moment.
CONSTANTS
    Workers = {w1, w2}
    BatchSize = 2
    NumMsgs = 4
    Bad = {2}
    LocalRetries = 1
    Rebalances = TRUE
    ClaimErrors = TRUE
SPECIFICATION FairSpec
INVARIANTS
    TypeOK
    NothingLost
    NoReplay
    CleanExit
    CrashLossBounded
PROPERTIES
    ImplementsConsumer
    Drains
\* An idle consumer waits for messages, and main never leaves its drain loop.
CHECK_DEADLOCK FALSE
