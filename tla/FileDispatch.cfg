\* A file and one named "exit...", two processes, one crash.
SPECIFICATION FairSpec
CONSTANTS
    Files = {f1, x}
    ExitFiles = {x}
    MaxForks = 5
    MaxPross = {0, 2}
    MaxDeaths = 1
    None = None
INVARIANTS
    CounterExact
    NoneLeftUnlessRaced
PROPERTIES
    ParentEnds
    ImplementsDispatch
CHECK_DEADLOCK FALSE
