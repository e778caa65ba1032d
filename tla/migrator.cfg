\* Two transactions on two rows, one fault, one fixer, the first and the third phase.
CONSTANTS
    Writers = {w1, w2}
    NumRows = 2
    Patterns = {"SRC_ONLY", "DST_FIRST"}
    Config = "SRC_ONLY"
    MaxTxs = 2
    MaxFaults = 1
    Fixers = {f1}
SPECIFICATION FairSpec
INVARIANTS
    DstNeverAhead
PROPERTIES
    Converges
