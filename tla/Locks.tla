------------------------------- MODULE Locks -------------------------------
(***************************************************************************)
(* The three locks (include/mupdf/fitz/context.h) on the call paths where   *)
(* one is taken while another is held: FreeType allocates memory under its  *)
(* own lock (source/fitz/font.c), an allocation that fails evicts values    *)
(* from the store (memory.c, store.c), a font that is evicted closes its    *)
(* FreeType face, and all of this happens under the lock of the glyph cache *)
(* as well (draw-glyph.c).                                                  *)
(*                                                                         *)
(* A thread's C stack is a sequence of frames, its top last.  A frame is a  *)
(* region of code that holds a lock, or calls those that do.  A section     *)
(* under ALLOC that calls nothing is one step.                              *)
(***************************************************************************)
EXTENDS Integers, Sequences, FiniteSets

CONSTANTS
    Threads,    \* threads, each with a context of its own
    None,       \* no thread
    Fonts,      \* addresses of PDF fonts with a FreeType face
    Others,     \* other values of the store, referred to by nobody else
    Listed,     \* those whose destruction closes a face
    MaxType3    \* bound: type 3 glyphs inside type 3 glyphs

Store == "store"

ASSUME LocksAssumption ==
    /\ None \notin Threads /\ Store \notin Threads
    /\ IsFiniteSet(Fonts)
    /\ Listed \subseteq Others
    /\ Fonts \cap Others = {}
    /\ MaxType3 \in Nat

ALLOC == 0
FREETYPE == 1
GLYPHCACHE == 2
Lock == {ALLOC, FREETYPE, GLYPHCACHE}

VARIABLES
    holder,      \* Lock -> the thread that holds it, or None
    user,        \* ftmemory.user: the context FreeType allocates with
    lib,         \* ftlib_refs; FreeType's library is there while it is not 0
    faces,       \* fonts whose face is open
    owners,      \* Fonts -> threads, and the store, that refer to the description
    descs,       \* descriptions that still refer to their fz_font
    cached,      \* fonts with glyphs in the glyph cache
    others,      \* other values in the store
    scavenging,  \* store->scavenging
    stack        \* Threads -> frames

fontVars == <<lib, faces, owners, descs, cached>>
storeVars == <<others, scavenging>>
vars == <<holder, user, fontVars, storeVars, stack>>

Proc == {"section", "evict", "dropfont", "ft", "render", "type3", "purge", "load"}
Work == {"malloc", "drop", "store", "keep", "open", "close", "unkeep", "use", "none"}
Pc == {"lock", "user", "in", "had", "unuser", "more", "unlock", "last", "relock", "unref", "unkeep",
       "look", "run", "insert", "entry", "drop", "keep", "open", "store", "item"}
Frame == [proc : Proc, pc : Pc, work : Work, item : Fonts \cup Others \cup {None}]
F(proc, pc, work, item) == [proc |-> proc, pc |-> pc, work |-> work, item |-> item]

Init ==
    /\ holder = [n \in Lock |-> None]
    /\ user = None
    /\ lib = 0 /\ faces = {}
    /\ owners = [f \in Fonts |-> {}] /\ descs = {} /\ cached = {}
    /\ others = {} /\ scavenging = FALSE
    /\ stack = [t \in Threads |-> <<>>]

-----------------------------------------------------------------------------
(* The stack. *)

Top(t) == stack[t][Len(stack[t])]
At(t, proc, pc) == stack[t] # <<>> /\ Top(t).proc = proc /\ Top(t).pc = pc

Moved(s, pc) == [s EXCEPT ![Len(s)].pc = pc]
Popped(s) == SubSeq(s, 1, Len(s) - 1)

\* What the stack becomes: the top frame goes on at pc, calls another, returns,
\* or ends with a call.
Goes(t, pc) == [stack EXCEPT ![t] = Moved(@, pc)]
Calls(t, pc, frame) == [stack EXCEPT ![t] = Append(Moved(@, pc), frame)]
Returns(t) == [stack EXCEPT ![t] = Popped(@)]
Becomes(t, frame) == [stack EXCEPT ![t] = Append(Popped(@), frame)]

Acquire(t, n) == holder[n] = None /\ holder' = [holder EXCEPT ![n] = t]
Release(n) == holder' = [holder EXCEPT ![n] = None]
\* A section under ALLOC that is a single step.
Briefly == holder[ALLOC] = None /\ UNCHANGED holder

Region(work, item) == F("ft", "lock", work, item)
Section(work, item) == F("section", "lock", work, item)
DropFont(work, item) == F("dropfont", "unref", work, item)
Malloc == Section("malloc", None)

-----------------------------------------------------------------------------
(* fz_ft_lock to fz_ft_unlock: a region that calls FreeType. *)

FtLock(t) ==
    /\ At(t, "ft", "lock")
    /\ Acquire(t, FREETYPE)
    /\ stack' = Goes(t, "user")
    /\ UNCHANGED <<user, fontVars, storeVars>>

SetUser(t) ==
    /\ At(t, "ft", "user")
    /\ Briefly
    /\ user' = t
    /\ stack' = Goes(t, "in")
    /\ UNCHANGED <<fontVars, storeVars>>

\* ft_alloc, and the allocations of our own under this lock: several are as one.
FtAlloc(t) ==
    /\ At(t, "ft", "in")
    /\ Top(t).work \notin {"close", "unkeep"}
    /\ stack' = Calls(t, "had", Malloc)
    /\ UNCHANGED <<holder, user, fontVars, storeVars>>

InFreeType(t) == At(t, "ft", "in") \/ At(t, "ft", "had")

\* What the region did.  FT_New_Memory_Face makes the font there is from now on.
FtWork(t) ==
    LET f == Top(t).item
        w == Top(t).work
    IN  /\ InFreeType(t)
        /\ lib' = CASE w = "keep" -> lib + 1 [] w = "unkeep" -> lib - 1 [] OTHER -> lib
        /\ faces' = CASE w = "open" -> faces \cup {f} [] w = "close" -> faces \ {f} [] OTHER -> faces
        /\ owners' = IF w = "open" THEN [owners EXCEPT ![f] = {t}] ELSE owners
        /\ descs' = IF w = "open" THEN descs \cup {f} ELSE descs
        /\ stack' = Goes(t, "unuser")
        /\ UNCHANGED <<holder, user, cached, storeVars>>

FtUnlockStale(t) ==
    /\ At(t, "ft", "unuser")
    /\ holder[ALLOC] = None
    /\ Release(FREETYPE)
    /\ stack' = Returns(t)
    /\ UNCHANGED <<user, fontVars, storeVars>>

FtUnlock(t) ==
    /\ At(t, "ft", "unuser")
    /\ holder[ALLOC] = None
    /\ user' = None
    /\ Release(FREETYPE)
    /\ stack' = Returns(t)
    /\ UNCHANGED <<fontVars, storeVars>>

-----------------------------------------------------------------------------
(* Fonts. *)

ReferredByCache(f, inDescs, inCache) == f \in inCache
Referred(f, inDescs, inCache) == f \in inDescs \cup inCache

\* fz_drop_font for the description or the glyph cache: the last of them
\* closes the face, and then lets go of the library.
Unref(t) ==
    LET f == Top(t).item
    IN  /\ At(t, "dropfont", "unref")
        /\ Briefly
        /\ descs' = IF Top(t).work = "drop" THEN descs \ {f} ELSE descs
        /\ cached' = IF Top(t).work = "drop" THEN cached ELSE cached \ {f}
        /\ stack' = IF Referred(f, descs', cached') THEN Returns(t)
                    ELSE Calls(t, "unkeep", Region("close", f))
        /\ UNCHANGED <<user, lib, faces, owners, storeVars>>

DropFreetype(t) ==
    /\ At(t, "dropfont", "unkeep") \/ At(t, "load", "unkeep")
    /\ stack' = Becomes(t, Region("unkeep", Top(t).item))
    /\ UNCHANGED <<holder, user, fontVars, storeVars>>

\* pdf_load_font: keep the library, open the face, store the description.  Each
\* step may fail.
LoadStep(t) ==
    LET f == Top(t).item
    IN  /\ \/ /\ At(t, "load", "keep")
              /\ \/ stack' = Calls(t, "open", Region("keep", f))
                 \/ stack' = Becomes(t, Region("none", f))
           \/ /\ At(t, "load", "open")
              /\ \/ stack' = Calls(t, "store", Region("open", f))
                 \/ stack' = Calls(t, "unkeep", Region("none", f))
           \/ At(t, "load", "store") /\ stack' = Calls(t, "item", Malloc)
           \/ /\ At(t, "load", "item")
              /\ stack' = Becomes(t, Section("store", f)) \/ stack' = Returns(t)
        /\ UNCHANGED <<holder, user, fontVars, storeVars>>

-----------------------------------------------------------------------------
(* Sections under ALLOC that may evict values from the store. *)

SectionLock(t) ==
    /\ At(t, "section", "lock")
    /\ Acquire(t, ALLOC)
    /\ stack' = Goes(t, "in")
    /\ UNCHANGED <<user, fontVars, storeVars>>

\* fz_malloc scavenges when there is no memory, fz_drop_storable when the value
\* is left to a store that is too large; fz_store_item makes room.
Scavenges(work) == work \in {"malloc", "drop"}

Unreferenced(x) == IF x \in Fonts THEN owners[x] = {Store} ELSE x \in others

DroppableAlways(t, x) == TRUE
\* pdf_font_is_droppable
Droppable(t, x) == x \in Fonts => user # t

Evictable(t, work, x) ==
    /\ Unreferenced(x)
    /\ Scavenges(work) => Droppable(t, x)

\* Destroying x, where that is more than freeing it.
Destruction(x) ==
    IF x \in Fonts THEN <<DropFont("drop", x)>>
    ELSE IF x \in Listed THEN <<Region("none", None)>> ELSE <<>>

\* evict gives up the lock to destroy the value, and takes it again.
Evict(t, x) ==
    LET work == Top(t).work
    IN  /\ At(t, "section", "in") \/ At(t, "section", "more")
        /\ Scavenges(work) => (scavenging <=> Top(t).pc = "more")
        /\ work = "drop" => owners[Top(t).item] = {Store} \/ Top(t).pc = "more"
        /\ Evictable(t, work, x)
        /\ Release(ALLOC)
        /\ scavenging' = (scavenging \/ Scavenges(work))
        /\ IF x \in Fonts
             THEN owners' = [owners EXCEPT ![x] = {}] /\ UNCHANGED others
             ELSE others' = others \ {x} /\ UNCHANGED owners
        /\ stack' = [stack EXCEPT ![t] =
                Append(Moved(@, "more"), F("evict", "relock", "none", x)) \o Destruction(x)]
        /\ UNCHANGED <<user, lib, faces, descs, cached>>

Relock(t) ==
    /\ At(t, "evict", "relock")
    /\ Acquire(t, ALLOC)
    /\ stack' = Returns(t)
    /\ UNCHANGED <<user, fontVars, storeVars>>

\* Enough has been freed; fz_malloc tries again.
Scavenged(t) ==
    /\ At(t, "section", "more")
    /\ scavenging' = (scavenging /\ ~Scavenges(Top(t).work))
    /\ stack' = Goes(t, IF Top(t).work = "malloc" THEN "in" ELSE "unlock")
    /\ UNCHANGED <<holder, user, fontVars, others>>

\* There is memory, or none to be had; the value is stored; the reference is
\* dropped, and if it was the last one, so is the value.
SectionDone(t) ==
    LET x == Top(t).item
        work == Top(t).work
    IN  /\ \E pc \in {"in", "unlock", "last"} : At(t, "section", pc)
        /\ Release(ALLOC)
        /\ owners' = IF work = "store" /\ x \in Fonts
                     THEN [owners EXCEPT ![x] = @ \cup {Store}] ELSE owners
        /\ others' = IF work = "store" /\ x \in Others THEN others \cup {x} ELSE others
        /\ stack' = IF Top(t).pc = "last" THEN Becomes(t, DropFont("drop", x))
                    ELSE Returns(t)
        /\ UNCHANGED <<user, lib, faces, descs, cached, scavenging>>

-----------------------------------------------------------------------------
(* The glyph cache. *)

Draw == {"render", "type3"}

CacheLock(t) ==
    /\ \E proc \in Draw \cup {"purge"} : At(t, proc, "lock")
    /\ Acquire(t, GLYPHCACHE)
    /\ stack' = Goes(t, IF Top(t).proc = "purge" THEN "drop" ELSE "look")
    /\ UNCHANGED <<user, fontVars, storeVars>>

\* Not found: an outline glyph is rendered under the lock.
RenderOutline(t) ==
    /\ At(t, "render", "look")
    /\ stack' = Calls(t, "insert", Region("use", Top(t).item))
    /\ UNCHANGED <<holder, user, fontVars, storeVars>>

StartType3Locked(t) ==
    /\ At(t, "type3", "look")
    /\ stack' = Goes(t, "run")
    /\ UNCHANGED <<holder, user, fontVars, storeVars>>

\* A type 3 glyph is run without it, and may call anything.
StartType3(t) ==
    /\ At(t, "type3", "look")
    /\ Release(GLYPHCACHE)
    /\ stack' = Goes(t, "run")
    /\ UNCHANGED <<user, fontVars, storeVars>>

FinishType3(t) ==
    /\ At(t, "type3", "run")
    /\ Acquire(t, GLYPHCACHE)
    /\ stack' = Goes(t, "insert")
    /\ UNCHANGED <<user, fontVars, storeVars>>

NewEntry(t) ==
    /\ \E proc \in Draw : At(t, proc, "insert")
    /\ stack' = Calls(t, "entry", Malloc)
    /\ UNCHANGED <<holder, user, fontVars, storeVars>>

\* The entry keeps the font.
Insert(t) ==
    /\ \E proc \in Draw : At(t, proc, "entry")
    /\ Briefly
    /\ cached' = IF Top(t).proc = "render" THEN cached \cup {Top(t).item} ELSE cached
    /\ stack' = Goes(t, "drop")
    /\ UNCHANGED <<user, lib, faces, owners, descs, storeVars>>

\* drop_glyph_cache_entry, to make room or to purge the cache.
DropEntry(t, f) ==
    /\ \E proc \in Draw \cup {"purge"} : At(t, proc, "drop")
    /\ f \in cached
    /\ stack' = Calls(t, "drop", DropFont("use", f))
    /\ UNCHANGED <<holder, user, fontVars, storeVars>>

CacheUnlockLate(t) ==
    /\ \/ \E proc \in Draw, pc \in {"look", "insert", "entry", "drop"} : At(t, proc, pc)
       \/ At(t, "purge", "drop") /\ cached = {}
    /\ IF Top(t).pc = "look" THEN UNCHANGED holder ELSE Release(GLYPHCACHE)
    /\ stack' = Returns(t)
    /\ UNCHANGED <<user, fontVars, storeVars>>

\* Found, or no entry, or room again.
CacheUnlock(t) ==
    /\ \/ \E proc \in Draw, pc \in {"look", "insert", "entry", "drop"} : At(t, proc, pc)
       \/ At(t, "purge", "drop") /\ cached = {}
    /\ Release(GLYPHCACHE)
    /\ stack' = Returns(t)
    /\ UNCHANGED <<user, fontVars, storeVars>>

-----------------------------------------------------------------------------
(* What a thread may call, from its own code or from a type 3 glyph. *)

CanCall(t) == stack[t] = <<>> \/ At(t, "type3", "run")
Mentioned(f) == \E t \in Threads : \E i \in DOMAIN stack[t] : stack[t][i].item = f

Fresh(f) ==
    /\ owners[f] = {} /\ f \notin faces \cup descs \cup cached
    /\ ~Mentioned(f)

Call(t, frame) ==
    /\ CanCall(t)
    /\ stack' = [stack EXCEPT ![t] = Append(@, frame)]
    /\ UNCHANGED <<holder, user, fontVars, storeVars>>

NestedType3(t) == Cardinality({i \in DOMAIN stack[t] : stack[t][i].proc = "type3"})

\* OpenJPEG and HarfBuzz allocate under FREETYPE too (opj_lock, fz_hb_lock).
Begin(t) ==
    \/ Call(t, Malloc)
    \/ Call(t, Region("none", None))
    \/ Call(t, F("purge", "lock", "none", None))
    \/ NestedType3(t) < MaxType3 /\ Call(t, F("type3", "lock", "use", None))
    \/ \E x \in Others \ others : Call(t, Section("store", x))
    \/ \E f \in Fonts :
          \/ Fresh(f) /\ Call(t, F("load", "keep", "open", f))
          \/ /\ t \in owners[f]
             /\ Call(t, Region("use", f)) \/ Call(t, F("render", "lock", "use", f))

\* A font is found in the store, or comes with a display list.
Share(t, f) ==
    /\ CanCall(t) /\ Briefly
    /\ owners[f] # {} /\ t \notin owners[f]
    /\ owners' = [owners EXCEPT ![f] = @ \cup {t}]
    /\ UNCHANGED <<user, lib, faces, descs, cached, storeVars, stack>>

\* fz_drop_storable, its decrement first: what follows is the section's.
Drop(t, f) ==
    /\ CanCall(t) /\ t \in owners[f]
    /\ Acquire(t, ALLOC)
    /\ owners' = [owners EXCEPT ![f] = @ \ {t}]
    /\ stack' = [stack EXCEPT ![t] = Append(@, F("section", IF owners'[f] = {} THEN "last" ELSE "in", "drop", f))]
    /\ UNCHANGED <<user, lib, faces, descs, cached, storeVars>>

Step(t) ==
    \/ FtLock(t) \/ SetUser(t) \/ FtAlloc(t) \/ FtWork(t) \/ FtUnlock(t)
    \/ Unref(t) \/ DropFreetype(t) \/ LoadStep(t)
    \/ SectionLock(t) \/ Relock(t) \/ Scavenged(t) \/ SectionDone(t)
    \/ \E x \in Fonts \cup Others : Evict(t, x)
    \/ CacheLock(t) \/ RenderOutline(t) \/ StartType3(t) \/ FinishType3(t)
    \/ NewEntry(t) \/ Insert(t) \/ CacheUnlock(t)
    \/ \E f \in Fonts : DropEntry(t, f)

Next ==
    \E t \in Threads :
        \/ Step(t) \/ Begin(t)
        \/ \E f \in Fonts : Share(t, f) \/ Drop(t, f)

Spec == Init /\ [][Next]_vars

\* The operating system runs every thread, and hands a lock to who waits for it.
FairSpec == Spec /\ \A t \in Threads : SF_vars(Step(t))

-----------------------------------------------------------------------------
(* Properties. *)

TypeOK ==
    /\ holder \in [Lock -> Threads \cup {None}]
    /\ user \in Threads \cup {None}
    /\ lib \in Nat
    /\ faces \subseteq Fonts /\ descs \subseteq Fonts /\ cached \subseteq Fonts
    /\ owners \in [Fonts -> SUBSET (Threads \cup {Store})]
    /\ others \subseteq Others /\ scavenging \in BOOLEAN
    /\ stack \in [Threads -> Seq(Frame)]

\* The lock a thread is about to take.
Waits == [ft |-> {"lock", "user", "unuser"}, section |-> {"lock"}, evict |-> {"relock"},
          dropfont |-> {"unref"}, render |-> {"lock", "entry"},
          type3 |-> {"lock", "run", "entry"}, purge |-> {"lock"}, load |-> {}]
LockOf(proc, pc) ==
    CASE proc = "ft" /\ pc = "lock" -> FREETYPE
      [] proc \in Draw \cup {"purge"} /\ pc # "entry" -> GLYPHCACHE
      [] OTHER -> ALLOC
Wants(t) ==
    IF stack[t] # <<>> /\ Top(t).pc \in Waits[Top(t).proc]
    THEN {LockOf(Top(t).proc, Top(t).pc)} ELSE {}

\* The rule of context.h: never take lock n when holding any lock i, i <= n.
OrderKept == \A t \in Threads : \A n \in Wants(t), i \in Lock : i <= n => holder[i] # t

\* While a thread is in a call, one of those that are can go on.
InCall(t) == stack[t] # <<>>
NotStuck ==
    (\E t \in Threads : InCall(t))
    => \E t \in Threads : InCall(t) /\ \A n \in Wants(t) : holder[n] = None

\* FreeType allocates with the context of the thread that is in it, and
\* the assertion in fz_ft_lock holds.
UserIsHolder ==
    \A t \in Threads :
        /\ At(t, "ft", "user") => user = None
        /\ user = t => holder[FREETYPE] = t
        /\ InFreeType(t) => user = t

\* FreeType is called on an open face only, and while its library is there.
\* (And the state is typed.)
FaceOpenInUse ==
    /\ TypeOK
    /\ \A t \in Threads :
        InFreeType(t) =>
            /\ Top(t).work \in {"use", "close"} => Top(t).item \in faces
            /\ Top(t).work \in {"open", "use", "close", "unkeep"} => lib > 0

\* Every call returns, unless some thread goes on finding values to evict.
CallsReturn ==
    \/ \A t \in Threads : []<>(CanCall(t))
    \/ \E t \in Threads : []<>(At(t, "evict", "relock"))
=============================================================================
