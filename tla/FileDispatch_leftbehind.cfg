\* A child that is not counted outlives its parent.
SPECIFICATION Spec
CONSTANTS
    Files = {f1}
    ExitFiles = {}
    MaxForks = 5
    MaxPross = {2}
    MaxDeaths = 2
    None = None
INVARIANT
    WaitsForAll
CHECK_DEADLOCK FALSE
