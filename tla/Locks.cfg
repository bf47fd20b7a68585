SPECIFICATION FairSpec
CONSTANTS
    Threads = {a, b}
    None = None
    Fonts = {f}
    Others = {x}
    Listed = {}
    MaxType3 = 1
INVARIANTS OrderKept NotStuck UserIsHolder FaceOpenInUse
PROPERTY CallsReturn
