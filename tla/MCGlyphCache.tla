---------------------------- MODULE MCGlyphCache ----------------------------
(* Two threads, two outline fonts and a type 3 font, and a cache that      *)
(* holds the glyphs of the type 3 font and of the narrow one, or the same  *)
(* type 3 glyph twice if the code let it, but not the wide one with any.   *)
EXTENDS GlyphCache, TLC

CONSTANTS narrow, wide, type3

MCGlyphSize(f) == IF f = wide THEN 3 ELSE 2

\* The address of the type 3 font is used twice.
MCMaxMade(f) == IF f = type3 THEN 2 ELSE 1

Symmetric == Permutations(Threads) \cup Permutations(Glyphs)
=============================================================================
