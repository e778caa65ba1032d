\* Two users, one call at a time beside the consumer, two writes, one event;
\* three errors, so that the event can be given up, and one session that ends.
CONSTANTS
    Users = {u1, u2}
    Calls = {c1}
    MaxWrites = 2
    MaxFaults = 3
    NumMsgs = 1
    MaxStops = 1
    Absent = Absent
SPECIFICATION FairSpec
INVARIANTS
    TypeOK
    CountsMatchRecords
    RepeatsHaveCause
    LossNeedsThreeErrors
PROPERTIES
    CacheConverges
\* The events end, or no session starts again.
CHECK_DEADLOCK FALSE
