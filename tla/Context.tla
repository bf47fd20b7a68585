------------------------------ MODULE Context ------------------------------
(***************************************************************************)
(* The life of a family of fz_contexts (source/fitz/context.c): the master *)
(* made by fz_new_context, the clones made from any member by              *)
(* fz_clone_context, and fz_drop_context on each.  The family shares       *)
(* context_count, which lives in the master and is guarded by              *)
(* FZ_LOCK_ALLOC, and a reference count on each shared part (store, glyph  *)
(* cache, fonts, ...), changed under the part's lock.                      *)
(*                                                                         *)
(* A context is used by one thread at a time, so a context doubles as the  *)
(* thread that uses it: pc[c] is where the call being made on c has got    *)
(* to, and a step of an action is what happens between two lock sections.  *)
(***************************************************************************)
EXTENDS Integers, FiniteSets, Sequences

CONSTANTS Root,         \* the context made by fz_new_context
          Clones,       \* the contexts fz_clone_context may make
          Parts,        \* the shared parts, in the order they are created
          Overlap       \* whether others drop contexts during the master's drop

ASSUME ContextAssumption ==
    /\ IsFiniteSet(Clones) /\ Root \notin Clones
    /\ "NULL" \notin Clones \cup {Root}
    /\ Parts \in Seq(STRING)
    /\ Overlap \in BOOLEAN

VARIABLES
    memory,     \* what has become of the memory of each context
    master,     \* ctx->master
    count,      \* context_count of the master
    pc,         \* the progress of the call made on each context
    child,      \* the context being cloned from c
    refs,       \* the reference count of each part, 0 once it is freed
    shares      \* the parts each context has a pointer to

vars == <<memory, master, count, pc, child, refs, shares>>

Contexts == {Root} \cup Clones
Nobody == "NULL"
PartSet == {Parts[i] : i \in 1..Len(Parts)}

(* The calls: fz_new_context filling in the parts, idle, fz_clone_context  *)
(* before and after it counts the clone, and fz_drop_context after its     *)
(* lock section (FreeMaster if it found the family gone), while dropping   *)
(* the parts, and returned.                                                *)
PCs == {"absent", "new", "idle", "clone", "keep", "freeMaster", "parts", "gone"}

Dropping(c) == pc[c] \in {"freeMaster", "parts"}
Init ==
    /\ memory = [c \in Contexts |-> IF c = Root THEN "used" ELSE "unused"]
    /\ master = [c \in Contexts |-> IF c = Root THEN Root ELSE Nobody]
    /\ count = 1
    /\ pc = [c \in Contexts |-> IF c = Root THEN "new" ELSE "absent"]
    /\ child = [c \in Contexts |-> Nobody]
    /\ refs = [p \in PartSet |-> 0]
    /\ shares = [c \in Contexts |-> {}]

Go(c, l) == pc' = [pc EXCEPT ![c] = l]

(* memory of c is returned: a second time is told apart from the first.    *)
Freed(m, c) == [m EXCEPT ![c] = IF @ = "used" THEN "freed" ELSE "freed twice"]

-----------------------------------------------------------------------------
(* fz_new_context_imp, phase 2: the parts are created in order; when one   *)
(* cannot be allocated the half-made context is dropped.                   *)
NewPart(i) ==
    /\ pc[Root] = "new" /\ shares[Root] = {Parts[j] : j \in 1..(i - 1)}
    /\ refs' = [refs EXCEPT ![Parts[i]] = 1]
    /\ shares' = [shares EXCEPT ![Root] = @ \cup {Parts[i]}]
    /\ UNCHANGED <<memory, master, count, pc, child>>

NewDone ==
    /\ pc[Root] = "new" /\ shares[Root] = PartSet
    /\ Go(Root, "idle")
    /\ UNCHANGED <<memory, master, count, child, refs, shares>>

-----------------------------------------------------------------------------
(* fz_clone_context(c) -> d: the clone's memory, its entry in the master's *)
(* count, the copy of c, and then a reference to each part.                *)
CloneMalloc(c, d) ==
    /\ pc[c] = "idle" /\ memory[d] = "unused"
    /\ memory' = [memory EXCEPT ![d] = "used"]
    /\ child' = [child EXCEPT ![c] = d]
    /\ Go(c, "clone")
    /\ UNCHANGED <<master, count, refs, shares>>

\* Mutant: only clones of the master are counted.
CloneOfClone(c) ==
    /\ pc[c] = "clone"
    /\ count' = IF master[c] = c THEN count + 1 ELSE count
    /\ master' = [master EXCEPT ![child[c]] = master[c]]
    /\ Go(c, "keep")
    /\ UNCHANGED <<memory, child, refs, shares>>
CloneCount(c) ==
    /\ pc[c] = "clone"
    /\ count' = count + 1
    /\ master' = [master EXCEPT ![child[c]] = master[c]]
    /\ Go(c, "keep")
    /\ UNCHANGED <<memory, child, refs, shares>>

CloneKeep(c, p) ==
    /\ pc[c] = "keep" /\ p \in PartSet \ shares[child[c]]
    /\ refs' = [refs EXCEPT ![p] = @ + 1]
    /\ shares' = [shares EXCEPT ![child[c]] = @ \cup {p}]
    /\ UNCHANGED <<memory, master, count, pc, child>>

CloneDone(c) ==
    /\ pc[c] = "keep" /\ shares[child[c]] = PartSet
    /\ pc' = [pc EXCEPT ![c] = "idle", ![child[c]] = "idle"]
    /\ child' = [child EXCEPT ![c] = Nobody]
    /\ UNCHANGED <<memory, master, count, refs, shares>>

-----------------------------------------------------------------------------
(* fz_drop_context, the lock section.  Without Overlap the application     *)
(* does not drop the master and another context at the same time.          *)
DropCount(c) ==
    /\ \/ pc[c] = "idle"
       \/ pc[c] = "new" /\ shares[c] # PartSet
    /\ Overlap \/ ~Dropping(Root)
    /\ count' = count - 1
    /\ Go(c, IF count = 1 /\ master[c] # c THEN "freeMaster" ELSE "parts")
    /\ UNCHANGED <<memory, master, child, refs, shares>>

FreeMaster(c) ==
    /\ pc[c] = "freeMaster"
    /\ memory' = Freed(memory, master[c])
    /\ Go(c, "parts")
    /\ UNCHANGED <<master, count, child, refs, shares>>

\* Mutant: a part is freed by the first context that goes.
DropPartAlways(c, p) ==
    /\ pc[c] = "parts" /\ p \in shares[c]
    /\ refs' = [refs EXCEPT ![p] = 0]
    /\ shares' = [shares EXCEPT ![c] = @ \ {p}]
    /\ UNCHANGED <<memory, master, count, pc, child>>
DropPart(c, p) ==
    /\ pc[c] = "parts" /\ p \in shares[c]
    /\ refs' = [refs EXCEPT ![p] = @ - 1]
    /\ shares' = [shares EXCEPT ![c] = @ \ {p}]
    /\ UNCHANGED <<memory, master, count, pc, child>>

(* The end of fz_drop_context: a master with children left only forgets    *)
(* that it is one; the last child frees it.                                *)
\* Mutant: the master does not wait for its children.
FreeSelfAnyway(c) ==
    /\ pc[c] = "parts" /\ shares[c] = {}
    /\ memory' = Freed(memory, c)
    /\ Go(c, "gone")
    /\ UNCHANGED <<master, count, child, refs, shares>>
\* Mutant: the master never frees itself.
FreeSelfNever(c) ==
    /\ pc[c] = "parts" /\ shares[c] = {}
    /\ IF master[c] = c
       THEN master' = [master EXCEPT ![c] = Nobody] /\ UNCHANGED memory
       ELSE memory' = Freed(memory, c) /\ UNCHANGED master
    /\ Go(c, "gone")
    /\ UNCHANGED <<count, child, refs, shares>>
FreeSelf(c) ==
    /\ pc[c] = "parts" /\ shares[c] = {}
    /\ IF master[c] = c /\ count # 0
       THEN master' = [master EXCEPT ![c] = Nobody] /\ UNCHANGED memory
       ELSE memory' = Freed(memory, c) /\ UNCHANGED master
    /\ Go(c, "gone")
    /\ UNCHANGED <<count, child, refs, shares>>

Next ==
    \/ \E i \in 1..Len(Parts) : NewPart(i)
    \/ NewDone
    \/ \E c \in Contexts :
        \/ \E d \in Clones : CloneMalloc(c, d)
        \/ CloneCount(c) \/ CloneDone(c)
        \/ DropCount(c) \/ FreeMaster(c) \/ FreeSelf(c)
        \/ \E p \in PartSet : CloneKeep(c, p) \/ DropPart(c, p)

Spec == Init /\ [][Next]_vars

-----------------------------------------------------------------------------
(* The types: the master's count and every part's stay within the number   *)
(* of contexts in the family, so no drop ever comes without its keep.      *)
TypeOK ==
    /\ memory \in [Contexts -> {"unused", "used", "freed", "freed twice"}]
    /\ master \in [Contexts -> {Root, Nobody}]
    /\ count \in 0..Cardinality(Contexts)
    /\ pc \in [Contexts -> PCs]
    /\ child \in [Contexts -> Clones \cup {Nobody}]
    /\ refs \in [PartSet -> 0..Cardinality(Contexts)]
    /\ shares \in [Contexts -> SUBSET PartSet]

(* The calls that still read or write the memory of c: those made on c     *)
(* itself, and those made on any member of the family, since               *)
(* fz_clone_context and fz_drop_context go through the master's count.     *)
Alive(c) == pc[c] \notin {"absent", "gone"}
Reaches(c, d) == \/ d = c
                 \/ d = master[c] /\ pc[c] \in {"new", "idle", "clone", "freeMaster"}

(* A context's memory, and the master's count, are not freed while a call  *)
(* can still use them, and not a second time: the last child and the       *)
(* master itself may both come to free the master.                         *)
NoUseAfterFree ==
    /\ \A c, d \in Contexts : Alive(c) /\ Reaches(c, d) => memory[d] = "used"
    /\ \A c \in Contexts : memory[c] # "freed twice"

(* A part lives as long as some context points to it, and its count is the *)
(* number of contexts that do.                                             *)
PartsShared ==
    \A p \in PartSet : refs[p] = Cardinality({c \in Contexts : p \in shares[c]})

(* When every context has been dropped, and no clone is under way, all the *)
(* memory of the family has been returned, whichever went last.            *)
NothingLeft ==
    (\A c \in Contexts : ~Alive(c)) =>
        /\ \A c \in Contexts : memory[c] # "used"
        /\ \A p \in PartSet : refs[p] = 0
=============================================================================
