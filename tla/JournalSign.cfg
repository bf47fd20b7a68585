SPECIFICATION Spec
CONSTANTS
    Val = {a, b}
    FileVal = a
    Appearance = app
    Null = Null
    FileLen = 1
    MaxNum = 2
    MaxNesting = 2
    MaxHistory = 1
    MaxSections = 3
    Budget = 2
    Ops = {"lookup", "local", "sign", "fail", "snapshot"}
    Careful = TRUE
    XrefStream = TRUE
INVARIANT JournalSound
PROPERTY SignedFrozen
CHECK_DEADLOCK FALSE
