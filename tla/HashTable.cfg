CONSTANTS
    Threads = {t1, t2}
    Vals = {1, 2}
    Keys = {1, 2, 3, 4, 5, 6}
    ValsOf <- MCValsOf
    Hash <- MCHash
    InitialSize = 6
    NoVal = NoVal
    Selections = {{3, 5, 6}}
SPECIFICATION Spec
SYMMETRY Symmetric
INVARIANTS TableSound
PROPERTIES IsDictionary
