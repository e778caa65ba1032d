\* Three nodes and four states of the articles: the second fails every run, the
\* third makes every run panic, the others can be ranked; three faults: two leases
\* lost during runs, so that all three nodes rank at once, and one more call that
\* fails.
CONSTANTS
    Nodes = {n1, n2, n3}
    MaxWorld = 4
    NoData = {2}
    Uncounted = {3}
    MaxFaults = 3
    NoNode = NoNode
SPECIFICATION FairSpec
INVARIANTS
    TypeOK
    RankingWhole
    OverlapNeedsFault
PROPERTIES
    RankingConverges
