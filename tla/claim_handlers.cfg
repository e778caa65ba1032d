\* Each of the three handlers, one undecodable message, batches of three, and
\* two sessions that end.
CONSTANTS
    Handlers = {"sync", "batch", "async"}
    NumMsgs = 4
    MaxStops = 2
    Bad = {3}
    BatchSize = 3
SPECIFICATION FairSpec
INVARIANTS
    TypeOK
    MarksInOrder
    DuplicatesBounded
PROPERTIES
    ImplementsConsumer
    Progress
\* The partition ends, or no session starts again.
CHECK_DEADLOCK FALSE
