SPECIFICATION Spec
CONSTANTS
    Threads = {a, b}
    Doc = a
    Images = {i1}
    Tiles = {t1, t2}
    Areas = {x, y}
    Objs = {o1, o2}
    Direct = {o2}
    Ids = {d1, d2, d3, d4}
    Size <- MCSize
    StoreMax = 16
    SizeMax = 255
    ShortMax = 10
    Ops = {"filter", "purge", "share", "defer"}
    Requests = {}
    LeakBound = 32
    Null = Null
SYMMETRY Symmetric
PROPERTY RefinesStorable
