\* Two workers pass their exit test before the handler runs.
SPECIFICATION FairSpec
CONSTANTS
    Clients = {c1}
    Workers = {w1, w2}
    Main = Main
    Nobody = Nobody
    Blank = Blank
    NoMsg = NoMsg
    MaxRequests = 1
    MaxSignals = 1
    MaxSpurious = 0
PROPERTY
    WorkersExit
CHECK_DEADLOCK FALSE
