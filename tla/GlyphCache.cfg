CONSTANTS
    Threads = {t1, t2}
    narrow = narrow
    wide = wide
    type3 = type3
    Addresses = {narrow, wide, type3}
    Type3 = {type3}
    Glyphs = {g1, g2, g3, g4}
    GlyphSize <- MCGlyphSize
    MaxCacheSize = 4
    MaxMade <- MCMaxMade
    None = None
SPECIFICATION Spec
INVARIANTS CacheSound RightGlyph CountsExact
PROPERTIES LeastRecentlyUsed
SYMMETRY Symmetric
