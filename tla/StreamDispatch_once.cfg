\* Two addresses; the buffer ends with the first byte of the second one, and
\* the first child ends when fgets has just this byte.
SPECIFICATION Spec
CONSTANTS
    Size = 6
    Ends = {3, 6}
    BufBytes = 4
    UrlBytes = 5
    MaxForks = 4
INVARIANT
    EachLineOnce
CHECK_DEADLOCK FALSE
