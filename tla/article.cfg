\* One article, alone on a page of one (the page after it is empty), two
\* writes, two goroutines or handlers at work: a read can lose its race with a
\* write, and a second page can replace the first.
CONSTANTS
    Articles = {a1}
    PageSize = 1
    MaxWrites = 2
    NumSlots = 2
SPECIFICATION FairSpec
INVARIANTS
    TypeOK
    TablesAgree
    NoDraftServed
    StalePageHasCause
PROPERTIES
    ViewsConverge
