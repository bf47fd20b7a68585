SPECIFICATION ShownSpec
CONSTANTS
    Val = {a, b}
    FileVal = a
    Appearance = app
    Null = Null
    FileLen = 1
    MaxNum = 2
    MaxNesting = 2
    MaxHistory = 2
    MaxSections = 2
    Budget = 3
    Ops = {"local", "fail", "snapshot"}
    Careful = TRUE
    XrefStream = FALSE
PROPERTY RefinesHistory
CHECK_DEADLOCK FALSE
