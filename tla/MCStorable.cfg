SPECIFICATION Spec
CONSTANTS
    Null = Null
    Vals = {i1, t1, s1}
    KeyVals = {i1}
    Static = {s1}
    Handles = {h1, h2, h3, k1, k2}
    KeyHandles = {k1, k2}
    ShortMax = 2
INVARIANTS NoDangling NoLeak CountersExact ReapTestExact
