\* remove finds an equal item before the one it was given.
SPECIFICATION Spec
CONSTANTS
    Lists = {a, b}
    Nodes = {n1, n2, n3}
    v1 = v1
    v2 = v2
    Vals = {v1, v2}
    Sizes = {s1}
    Arrays <- SomeArrays
    Null = Null
PROPERTY
    RemovesPosition
