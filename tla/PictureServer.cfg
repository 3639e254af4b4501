\* One decoder with two pictures, two workers, one signal, one spurious wake-up.
SPECIFICATION FairSpec
CONSTANTS
    Clients = {c1}
    Workers = {w1, w2}
    Main = Main
    Nobody = Nobody
    Blank = Blank
    NoMsg = NoMsg
    MaxRequests = 2
    MaxSignals = 1
    MaxSpurious = 1
INVARIANTS
    NoWastedSignal
    FilesMatchPipeline
    HeldOnce
    AckedIsQueued
PROPERTIES
    ImplementsService
    PicturesRemoved
    ClientsAcked
    ShutdownOutcome
CHECK_DEADLOCK FALSE
