SPECIFICATION Spec
CONSTANTS
    Threads = {a, b}
    Doc = a
    Images = {i1, i2}
    Tiles = {t1, t2}
    Areas = {x}
    Objs = {o1}
    Direct = {}
    Ids = {d1, d2, d3}
    Size <- MCSize
    StoreMax = 16
    SizeMax = 31
    ShortMax = 10
    Ops = {"share", "defer", "nokey", "malloc"}
    Requests <- MCHugeRequests
    LeakBound = 32
    Null = Null
SYMMETRY Symmetric
INVARIANTS TypeOK IndexConsistent PendingWorkValid NoItemLost SizeAccounted ReapComplete
