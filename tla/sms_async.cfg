\* Two requests, two instances, two retries, one lost round for each row.
CONSTANTS
    NumSms = 2
    Nodes = {n1, n2}
    RetryMax = 2
    MaxLost = 1
SPECIFICATION FairSpec
INVARIANTS
    TypeOK
    OneHolder
    RetriesAccounted
    OutcomeEarned
PROPERTIES
    SettledForGood
    EverySmsSettles
\* Every request may be settled.
CHECK_DEADLOCK FALSE
