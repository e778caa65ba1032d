\* Two transactions on one or two rows each, two faults, every pattern.
CONSTANTS
    Writers = {w1, w2}
    NumRows = 2
    Patterns = {"SRC_ONLY", "SRC_FIRST", "DST_FIRST", "DST_ONLY"}
    Config = "SRC_ONLY"
    MaxTxs = 2
    MaxFaults = 2
SPECIFICATION PoolFairSpec
INVARIANTS
    AckedEverywhere
PROPERTIES
    TxEnds
