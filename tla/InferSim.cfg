\* Two decoders with three pictures each, two handlers, a queue of one.
SPECIFICATION FairSpec
CONSTANTS
    Clients = {c1, c2}
    Workers = {w1, w2}
    QueueSize = 1
    Blank = Blank
    NoMsg = NoMsg
    MaxRequests = 3
INVARIANT
    RamfsBounded
PROPERTIES
    ImplementsService
    ClientsAcked
    PicturesRemoved
CHECK_DEADLOCK FALSE
