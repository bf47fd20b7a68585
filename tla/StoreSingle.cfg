SPECIFICATION FairSpec
CONSTANTS
    Threads = {a}
    Doc = a
    Images = {i1}
    Tiles = {t1, t2, t3}
    Areas = {x, y}
    Objs = {o1, o2}
    Direct = {o2}
    Ids = {d1, d2, d3}
    Size <- MCUneven
    StoreMax = 16
    SizeMax = 255
    ShortMax = 10
    Ops = {"remove", "empty", "malloc", "shrink", "filter", "purge", "defer"}
    Requests <- MCAllRequests
    LeakBound = 32
    Null = Null
INVARIANT OversizeUnavoidable
PROPERTIES CallsReturn DyingFreed
