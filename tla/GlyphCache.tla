----------------------------- MODULE GlyphCache -----------------------------
(***************************************************************************)
(* The glyph cache the contexts of a family share (source/fitz/draw-glyph.c)*)
(* with the threads that render glyphs through it.                         *)
(*                                                                         *)
(* Everything the cache does happens under FZ_LOCK_GLYPHCACHE, so an       *)
(* action is one lock section.  fz_render_glyph has one when the glyph is  *)
(* found or comes from FreeType, and two when a type 3 glyph is rendered,  *)
(* because the lock is given up while the glyph's procedure runs: the      *)
(* other threads, and the owner of the fonts, move in between.             *)
(*                                                                         *)
(* A key is the address of a font together with a glyph number, a matrix   *)
(* and an antialiasing level; one glyph per font is enough here, so the    *)
(* key is the address.  made[f] counts the fonts that have lived at        *)
(* address f, and a glyph remembers which of them it was rendered from.    *)
(***************************************************************************)
EXTENDS Integers, SequencesExt, FiniteSetsExt

CONSTANTS Threads,
          Addresses,    \* where fonts are allocated
          Type3,        \* the addresses whose fonts are type 3 fonts
          Glyphs,       \* where glyphs are allocated
          GlyphSize(_), \* fz_glyph_size of the glyph of a font at an address
          MaxCacheSize, \* MAX_CACHE_SIZE
          MaxMade(_),   \* bound: fonts made at an address
          None          \* NULL

ASSUME GlyphCacheAssumption ==
    /\ Type3 \subseteq Addresses
    /\ \A f \in Addresses : GlyphSize(f) \in Nat /\ MaxMade(f) \in Nat
    /\ MaxCacheSize \in Nat
    /\ IsFiniteSet(Threads)
    /\ None \notin Addresses \cup Glyphs

VARIABLES
    lru,        \* the entries, lru_head first: each a key and a glyph
    total,      \* cache->total
    font,       \* each address: the font's references, 0 when it is free
    owned,      \* the fonts the document holds a reference to
    made,       \* how many fonts have been made at each address
    glyph,      \* each glyph: its references and the font it shows
    pc,         \* each thread: idle, the type 3 font it renders, or done
    held,       \* the glyph each thread got and still uses
    want        \* the font each thread asked for last

vars == <<lru, total, font, owned, made, glyph, pc, held, want>>

FontIds == Addresses \X Nat
This(f) == <<f, made[f]>>

Init ==
    /\ lru = <<>> /\ total = 0
    /\ font = [f \in Addresses |-> 0]
    /\ owned = {}
    /\ made = [f \in Addresses |-> 0]
    /\ glyph = [g \in Glyphs |-> [refs |-> 0, of |-> None]]
    /\ pc = [t \in Threads |-> None]
    /\ held = [t \in Threads |-> None]
    /\ want = [t \in Threads |-> None]

-----------------------------------------------------------------------------
Entries(l, f) == {i \in 1..Len(l) : l[i].key = f}
SizeOf(e) == GlyphSize(e.key)

(* move_to_front on the entry at position i.                               *)
\* Mutant: a hit does not move the entry.
ToFrontNot(l, i) == l
ToFront(l, i) == <<l[i]>> \o RemoveAt(l, i)

(* The eviction loop at the end of fz_render_glyph: how many entries stay, *)
(* dropping from lru_tail while total is over the limit.                   *)
Sum(l) ==
    LET upTo[n \in 0..Len(l)] == IF n = 0 THEN 0 ELSE upTo[n - 1] + SizeOf(l[n])
    IN  upTo[Len(l)]
\* Mutant: the limit is off by one.
KeptLate(l) == Max({n \in 0..Len(l) : Sum(SubSeq(l, 1, n)) <= MaxCacheSize + 1})
Kept(l) == Max({n \in 0..Len(l) : Sum(SubSeq(l, 1, n)) <= MaxCacheSize})

(* The references the entries of a sequence have to a font and to a glyph: *)
(* what drop_glyph_cache_entry gives back.                                 *)
FontsOf(l, f) == Cardinality(Entries(l, f))
GlyphsOf(l, g) == Cardinality({i \in 1..Len(l) : l[i].val = g})

-----------------------------------------------------------------------------
(* The document's side: a font is loaded at a free address, and dropped.   *)
(* Releasing the last reference frees the address.                         *)
LoadFont(f) ==
    /\ font[f] = 0 /\ made[f] < MaxMade(f)
    /\ font' = [font EXCEPT ![f] = 1]
    /\ made' = [made EXCEPT ![f] = @ + 1]
    /\ owned' = owned \cup {f}
    /\ UNCHANGED <<lru, total, glyph, pc, held, want>>

DropFont(f) ==
    /\ f \in owned
    /\ font' = [font EXCEPT ![f] = @ - 1]
    /\ owned' = owned \ {f}
    /\ UNCHANGED <<lru, total, made, glyph, pc, held, want>>

(* fz_purge_glyph_cache, called when a document is closed.                 *)
\* Mutant: the entries' references to fonts are forgotten.
PurgeGlyphsOnly ==
    /\ lru' = <<>> /\ total' = 0
    /\ glyph' = [g \in Glyphs |-> [glyph[g] EXCEPT !.refs = @ - GlyphsOf(lru, g)]]
    /\ UNCHANGED <<font, owned, made, pc, held, want>>
Purge ==
    /\ lru' = <<>> /\ total' = 0
    /\ font' = [f \in Addresses |-> font[f] - FontsOf(lru, f)]
    /\ glyph' = [g \in Glyphs |-> [glyph[g] EXCEPT !.refs = @ - GlyphsOf(lru, g)]]
    /\ UNCHANGED <<owned, made, pc, held, want>>

-----------------------------------------------------------------------------
(* fz_render_glyph, the lookup that succeeds.                              *)
\* Mutant: the caller gets a glyph nobody counted for it.
HitUnkept(t, f) ==
    LET i == Min(Entries(lru, f)) IN
    /\ pc[t] = None /\ held[t] = None /\ f \in owned
    /\ Entries(lru, f) # {}
    /\ lru' = ToFront(lru, i)
    /\ held' = [held EXCEPT ![t] = lru[i].val]
    /\ want' = [want EXCEPT ![t] = This(f)]
    /\ UNCHANGED <<total, font, owned, made, glyph, pc>>
Hit(t, f) ==
    LET i == Min(Entries(lru, f)) IN
    /\ pc[t] = None /\ held[t] = None /\ f \in owned
    /\ Entries(lru, f) # {}
    /\ lru' = ToFront(lru, i)
    /\ glyph' = [glyph EXCEPT ![lru[i].val].refs = @ + 1]
    /\ held' = [held EXCEPT ![t] = lru[i].val]
    /\ want' = [want EXCEPT ![t] = This(f)]
    /\ UNCHANGED <<total, font, owned, made, pc>>

(* Encaching the new glyph g of font f, which the thread goes on using:    *)
(* the entry takes a reference to both, goes to the front, and the oldest  *)
(* entries make room; it may have to go itself.                            *)
InsertWith(f, g, keeps) ==
    LET l == <<[key |-> f, val |-> g]>> \o lru
        n == Kept(l)
        out == SubSeq(l, n + 1, Len(l))
    IN
    /\ lru' = SubSeq(l, 1, n)
    /\ total' = total + GlyphSize(f) - Sum(out)
    /\ font' = [a \in Addresses |->
           font[a] + (IF a = f THEN keeps ELSE 0) - FontsOf(out, a)]
    /\ glyph' = [h \in Glyphs |->
           IF h = g THEN [refs |-> 2 - GlyphsOf(out, g), of |-> This(f)]
           ELSE [glyph[h] EXCEPT !.refs = @ - GlyphsOf(out, h)]]

\* Mutant: fz_keep_font forgotten.
InsertBare(f, g) == InsertWith(f, g, 0)
Insert(f, g) == InsertWith(f, g, 1)

(* A glyph that is not encached: too big, or the entry cannot be allocated *)
(* and the exception is swallowed.                                         *)
Uncached(f, g) ==
    /\ glyph' = [glyph EXCEPT ![g] = [refs |-> 1, of |-> This(f)]]
    /\ UNCHANGED <<lru, total, font>>

(* fz_render_glyph of an outline font, the lock held throughout.           *)
RenderOutline(t, f) ==
    /\ pc[t] = None /\ held[t] = None /\ f \in owned \ Type3
    /\ Entries(lru, f) = {}
    /\ \E g \in Glyphs :
           /\ glyph[g].refs = 0
           /\ held' = [held EXCEPT ![t] = g]
           /\ Insert(f, g) \/ Uncached(f, g)
    /\ want' = [want EXCEPT ![t] = This(f)]
    /\ UNCHANGED <<owned, made, pc>>

(* fz_render_glyph of a type 3 font, the section before the procedure runs;*)
(* the text being drawn has a reference to the font.                       *)
StartType3(t, f) ==
    /\ pc[t] = None /\ held[t] = None /\ f \in owned \cap Type3
    /\ Entries(lru, f) = {}
    /\ pc' = [pc EXCEPT ![t] = f]
    /\ font' = [font EXCEPT ![f] = @ + 1]
    /\ want' = [want EXCEPT ![t] = This(f)]
    /\ UNCHANGED <<lru, total, owned, made, glyph, held>>

(* ... and the section after it: another thread may have encached the same *)
(* glyph, in which case that one is used and the new one dropped.          *)
\* Mutant: the second look into the cache left out.
FinishType3Blind(t) ==
    /\ pc[t] \in Addresses /\ held[t] = None
    /\ \E g \in Glyphs :
           /\ glyph[g].refs = 0
           /\ held' = [held EXCEPT ![t] = g]
           /\ Insert(pc[t], g) \/ Uncached(pc[t], g)
    /\ UNCHANGED <<owned, made, pc, want>>
FinishType3(t) ==
    LET f == pc[t]
        i == Min(Entries(lru, f))
    IN
    /\ f \in Addresses /\ held[t] = None
    /\ \/ \E g \in Glyphs :
              /\ glyph[g].refs = 0
              /\ held' = [held EXCEPT ![t] = g]
              /\ \/ Uncached(f, g)
                 \/ Entries(lru, f) = {} /\ Insert(f, g)
       \/ /\ Entries(lru, f) # {}
          /\ lru' = ToFront(lru, i)
          /\ glyph' = [glyph EXCEPT ![lru[i].val].refs = @ + 1]
          /\ held' = [held EXCEPT ![t] = lru[i].val]
          /\ UNCHANGED <<total, font>>
    /\ UNCHANGED <<owned, made, pc, want>>

(* The procedure throws: nothing was locked, nothing is encached.          *)
ThrowType3(t) ==
    /\ pc[t] \in Addresses /\ held[t] = None
    /\ pc' = [pc EXCEPT ![t] = None]
    /\ font' = [font EXCEPT ![pc[t]] = @ - 1]
    /\ UNCHANGED <<lru, total, owned, made, glyph, held, want>>

(* The caller blits the glyph and drops it, and the text its font.         *)
Done(t) ==
    /\ held[t] # None
    /\ glyph' = [glyph EXCEPT ![held[t]].refs = @ - 1]
    /\ held' = [held EXCEPT ![t] = None]
    /\ font' = IF pc[t] = None THEN font ELSE [font EXCEPT ![pc[t]] = @ - 1]
    /\ pc' = [pc EXCEPT ![t] = None]
    /\ UNCHANGED <<lru, total, owned, made, want>>

Next ==
    \/ Purge
    \/ \E f \in Addresses : LoadFont(f) \/ DropFont(f)
    \/ \E t \in Threads :
        \/ FinishType3(t) \/ ThrowType3(t) \/ Done(t)
        \/ \E f \in Addresses : Hit(t, f) \/ RenderOutline(t, f) \/ StartType3(t, f)

Spec == Init /\ [][Next]_vars

-----------------------------------------------------------------------------
(* The types: no reference count of a font or a glyph, nor the total, ever *)
(* goes below zero, whatever is purged or evicted under a rendering thread.*)
TypeOK ==
    /\ lru \in Seq([key : Addresses, val : Glyphs])
    /\ total \in Nat
    /\ font \in [Addresses -> Nat]
    /\ owned \subseteq Addresses
    /\ made \in [Addresses -> Nat]
    /\ glyph \in [Glyphs -> [refs : Nat, of : FontIds \cup {None}]]
    /\ pc \in [Threads -> Type3 \cup {None}]
    /\ held \in [Threads -> Glyphs \cup {None}]
    /\ want \in [Threads -> FontIds \cup {None}]

(* Two threads that render the same type 3 glyph at once leave one entry.  *)
OneEntryPerGlyph == \A i, j \in 1..Len(lru) : lru[i].key = lru[j].key => i = j

(* The total is the size of the entries, and within the limit whenever the *)
(* lock is free.                                                           *)
TotalAccounted == total = Sum(lru) /\ total <= MaxCacheSize

(* The cache itself is sound whenever its lock is free: typed, one entry   *)
(* for each glyph, and no larger than it may be.                           *)
CacheSound == TypeOK /\ OneEntryPerGlyph /\ TotalAccounted

(* A thread gets a glyph of the font it asked for, also when the address   *)
(* of that font was that of another one before: an entry keeps its font.   *)
RightGlyph == \A t \in Threads : held[t] # None => glyph[held[t]].of = want[t]

(* A glyph lives exactly as long as an entry or a thread uses it.          *)
GlyphsCounted ==
    \A g \in Glyphs :
        glyph[g].refs = GlyphsOf(lru, g) + Cardinality({t \in Threads : held[t] = g})

(* A font lives exactly as long as the document, a rendering thread or an  *)
(* entry uses it: closing a document and purging leaves none behind.       *)
FontsCounted ==
    \A f \in Addresses :
        font[f] = Cardinality({t \in Threads : pc[t] = f})
                  + FontsOf(lru, f) + (IF f \in owned THEN 1 ELSE 0)

(* Neither glyphs nor fonts are lost or freed too early.                   *)
CountsExact == GlyphsCounted /\ FontsCounted

(* Eviction is by least recent use: after a glyph is handed out and stays  *)
(* cached it is the first entry, the others keep their order of use behind *)
(* it, and only the ones used longest ago are gone.                        *)
LeastRecentlyUsed ==
    [][\A t \in Threads :
          held[t] = None /\ held'[t] # None /\ GlyphsOf(lru', held'[t]) > 0 =>
              /\ lru'[1].val = held'[t]
              /\ IsPrefix(Tail(lru'), RemoveFirst(lru, lru'[1]))]_vars
=============================================================================
