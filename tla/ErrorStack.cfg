CONSTANTS
    N = 5
    MaxFrames = 5
    Errors = {"limit", "format"}
    Habits = {}
SPECIFICATION Spec
INVARIANTS StackSound CatchOnlyOnError
PROPERTIES CleanupRuns ThrownIsCaught
CHECK_DEADLOCK FALSE
