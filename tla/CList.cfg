\* Two lists, three nodes, two values, two item sizes.
SPECIFICATION FairSpec
CONSTANTS
    Lists = {a, b}
    Nodes = {n1, n2, n3}
    v1 = v1
    v2 = v2
    Vals = {v1, v2}
    Sizes = {s1, s2}
    Arrays <- SomeArrays
    Null = Null
INVARIANTS
    LinksInverse
    LoopPointersLive
    CountsAccurate
    ReadsAgree
PROPERTIES
    ImplementsDeque
    CallsReturn
