\* An address, an empty line, and a line too long for url with no newline;
\* a buffer that ends in the middle of a line; up to six processes.
SPECIFICATION FairSpec
CONSTANTS
    Size = 7
    Ends = {2, 3}
    BufBytes = 4
    UrlBytes = 3
    MaxForks = 6
INVARIANTS
    EveryLineTried
    OnceUnlessRewound
    WaitsForAll
PROPERTY
    ParentEnds
CHECK_DEADLOCK FALSE
