\* Trees of three levels at most, their prefixes, and some with a fault.
SPECIFICATION FairSpec
CONSTANTS
    Inputs <- SomeInputs
    Symbols = {"<", ">", "/", " ", "a", "b", "x", "y", "k", "l"}
    Assignments = {"k", "l"}
    Null = Null
    Unknown = Unknown
INVARIANTS
    ParsesDocuments
    HeapAccounted
PROPERTIES
    ParseEnds
CHECK_DEADLOCK FALSE
