\* Two rankings, two events or changes from outside: enough for the four
\* writers to cross with two different lists.
CONSTANTS
    Fetchers = {"fetch1", "fetch2"}
    MaxWorld = 2
    MaxOutside = 2
SPECIFICATION FairSpec
PROPERTIES
    ServedConverges
