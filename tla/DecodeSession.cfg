\* Both programs, with the options of five command lines.
SPECIFICATION FairSpec
CONSTANTS
    Packets <- Video
    Options <- StartedWith
    Limit = 2
    QueueSize = 2
INVARIANTS
    SessionOutlivesReceiver
    NothingLost
    FramesFreed
    PicturesNumbered
    LeftBehind
PROPERTIES
    ImplementsDecode
    SessionEnds
CHECK_DEADLOCK FALSE
