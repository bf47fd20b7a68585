CONSTANTS
    Root = root
    Clones = {c1, c2, c3}
    Parts <- MCParts
    Overlap = FALSE
SPECIFICATION Spec
INVARIANTS NoUseAfterFree PartsShared NothingLeft
SYMMETRY Symmetric
CHECK_DEADLOCK FALSE
