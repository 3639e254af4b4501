\* Two files of two pictures each, two processes; the consumer stops twice,
\* and cannot read what it is told of one of the files.
SPECIFICATION FairSpec
CONSTANTS
    Files = {f1, f2}
    Children = {c1, c2}
    None = None
    Numbers = {1, 2}
    BadNames = {f2}
    MaxStops = 2
INVARIANTS
    OrphansKnown
    NeverRewritten
PROPERTIES
    PicturesDrain
    AnswersCome
CHECK_DEADLOCK FALSE
