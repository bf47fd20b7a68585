------------------------------ MODULE Storable ------------------------------
(***************************************************************************)
(* Reference counting of fz_storable and fz_key_storable objects           *)
(* (source/fitz/store.c, include/mupdf/fitz/context.h).                    *)
(*                                                                         *)
(* A handle is one C pointer that owns a reference: a variable of a        *)
(* thread, the val pointer of a store item, or the image pointer inside a  *)
(* store key.  The last kind is counted twice, in storable.refs and in     *)
(* store_key_refs.  Every action is one critical section of FZ_LOCK_ALLOC, *)
(* except Destroy, which is the call of the drop function that the code    *)
(* makes after it has released the lock.                                   *)
(***************************************************************************)
EXTENDS Integers, FiniteSets

CONSTANTS
    Vals,        \* the addresses of storable objects
    KeyVals,     \* those that are fz_key_storable
    Static,      \* those built with refs = -1, which are never counted
    Handles,     \* the pointers that own a reference
    KeyHandles,  \* those of them that are part of a store key
    Null,        \* the null pointer
    ShortMax     \* the largest value of store_key_refs, a C short

ASSUME StorableAssumption ==
    /\ KeyVals \subseteq Vals
    /\ Static \subseteq Vals \ KeyVals
    /\ IsFiniteSet(Handles)
    /\ KeyHandles \subseteq Handles
    /\ Null \notin Vals
    /\ ShortMax \in Nat

(***************************************************************************)
(* The room store_key_refs needs: no more key handles than a short counts. *)
(* Nothing in the code enforces it, so it is not an assumption of the      *)
(* module but a hypothesis of its theorems.                                *)
(***************************************************************************)
KeyRoom == Cardinality(KeyHandles) <= ShortMax

VARIABLES
    ptr,      \* ptr[h]: the object handle h refers to, or Null
    refs,     \* refs[v]: storable.refs
    keyRefs,  \* keyRefs[v]: store_key_refs
    mem       \* mem[v]: "free", "live", or "dying" (refs reached 0, drop due)

vars == <<ptr, refs, keyRefs, mem>>

Normal == Handles \ KeyHandles

\* The handles that refer to v.
Owners(v) == {h \in Handles : ptr[h] = v}

KeyOwners(v) == {h \in KeyHandles : ptr[h] = v}

\* A C short after an increment.
Short(n) == IF n > ShortMax THEN n - 2 * (ShortMax + 1) ELSE n

Init ==
    /\ ptr = [h \in Handles |-> Null]
    /\ refs = [v \in Vals |-> IF v \in Static THEN -1 ELSE 0]
    /\ keyRefs = [v \in Vals |-> 0]
    /\ mem = [v \in Vals |-> IF v \in Static THEN "live" ELSE "free"]

\* FZ_INIT_STORABLE / FZ_INIT_KEY_STORABLE: the creator gets one reference.
New(h, v) ==
    /\ h \in Normal /\ ptr[h] = Null
    /\ mem[v] = "free"
    /\ ptr' = [ptr EXCEPT ![h] = v]
    /\ refs' = [refs EXCEPT ![v] = 1]
    /\ keyRefs' = [keyRefs EXCEPT ![v] = 0]
    /\ mem' = [mem EXCEPT ![v] = "live"]

\* A pointer to a static object is there for the taking.
TakeStatic(h, v) ==
    /\ h \in Normal /\ ptr[h] = Null
    /\ v \in Static
    /\ ptr' = [ptr EXCEPT ![h] = v]
    /\ UNCHANGED <<refs, keyRefs, mem>>

\* fz_keep_storable and every place that bumps refs itself.
Keep(h, g) ==
    /\ h \in Normal /\ ptr[h] # Null
    /\ g \in Normal /\ ptr[g] = Null
    /\ LET v == ptr[h] IN
         /\ ptr' = [ptr EXCEPT ![g] = v]
         /\ refs' = IF refs[v] > 0 THEN [refs EXCEPT ![v] = @ + 1] ELSE refs
    /\ UNCHANGED <<keyRefs, mem>>

(***************************************************************************)
(* fz_drop_storable and fz_drop_key_storable release one handle; do_reap   *)
(* and fz_filter_store release the val pointers of several items in one    *)
(* critical section.  An object whose last reference goes is destroyed     *)
(* once the lock is released.                                              *)
(***************************************************************************)
RefsAfter(H) ==
    [v \in Vals |-> IF refs[v] > 0
                    THEN refs[v] - Cardinality(Owners(v) \cap H)
                    ELSE refs[v]]

Release(H) ==
    /\ H # {}
    /\ \A h \in H : ptr[h] # Null
    /\ ptr' = [h \in Handles |-> IF h \in H THEN Null ELSE ptr[h]]
    /\ refs' = RefsAfter(H)
    /\ mem' = [v \in Vals |->
                 IF refs[v] > 0 /\ RefsAfter(H)[v] = 0 THEN "dying" ELSE mem[v]]
    /\ UNCHANGED keyRefs

\* Mutant: ++s->storable.refs forgotten.
KeepKeyOnly(h, k) ==
    /\ h \in Normal /\ ptr[h] \in KeyVals
    /\ k \in KeyHandles /\ ptr[k] = Null
    /\ ptr' = [ptr EXCEPT ![k] = ptr[h]]
    /\ keyRefs' = [keyRefs EXCEPT ![ptr[h]] = Short(@ + 1)]
    /\ UNCHANGED <<refs, mem>>

\* Mutant: ++s->store_key_refs forgotten.
KeepKeyAsNormal(h, k) ==
    /\ h \in Normal /\ ptr[h] \in KeyVals
    /\ k \in KeyHandles /\ ptr[k] = Null
    /\ ptr' = [ptr EXCEPT ![k] = ptr[h]]
    /\ refs' = [refs EXCEPT ![ptr[h]] = @ + 1]
    /\ UNCHANGED <<keyRefs, mem>>

\* fz_keep_key_storable_key.
KeepKey(h, k) ==
    /\ h \in Normal /\ ptr[h] \in KeyVals
    /\ k \in KeyHandles /\ ptr[k] = Null
    /\ LET v == ptr[h] IN
         /\ ptr' = [ptr EXCEPT ![k] = v]
         /\ IF refs[v] > 0
            THEN /\ refs' = [refs EXCEPT ![v] = @ + 1]
                 /\ keyRefs' = [keyRefs EXCEPT ![v] = Short(@ + 1)]
            ELSE UNCHANGED <<refs, keyRefs>>
    /\ UNCHANGED mem

\* Mutant: the last reference goes and s->drop is not called.
DropKeyNoDrop(k) ==
    /\ k \in KeyHandles /\ ptr[k] # Null
    /\ ptr' = [ptr EXCEPT ![k] = Null]
    /\ refs' = [refs EXCEPT ![ptr[k]] = @ - 1]
    /\ keyRefs' = [keyRefs EXCEPT ![ptr[k]] = @ - 1]
    /\ UNCHANGED mem

\* Mutant: --s->store_key_refs forgotten.
DropKeyAsNormal(k) ==
    /\ k \in KeyHandles /\ ptr[k] # Null
    /\ ptr' = [ptr EXCEPT ![k] = Null]
    /\ refs' = [refs EXCEPT ![ptr[k]] = @ - 1]
    /\ mem' = IF refs[ptr[k]] = 1 THEN [mem EXCEPT ![ptr[k]] = "dying"] ELSE mem
    /\ UNCHANGED keyRefs

\* fz_drop_key_storable_key.
DropKey(k) ==
    /\ k \in KeyHandles /\ ptr[k] # Null
    /\ LET v == ptr[k] IN
         /\ ptr' = [ptr EXCEPT ![k] = Null]
         /\ refs' = [refs EXCEPT ![v] = @ - 1]
         /\ keyRefs' = [keyRefs EXCEPT ![v] = @ - 1]
         /\ mem' = IF refs[v] = 1 THEN [mem EXCEPT ![v] = "dying"] ELSE mem

\* s->drop(ctx, s), called outside the lock when refs has reached 0.
Destroy(v) ==
    /\ mem[v] = "dying"
    /\ mem' = [mem EXCEPT ![v] = "free"]
    /\ UNCHANGED <<ptr, refs, keyRefs>>

Next ==
    \/ \E h \in Normal, v \in Vals : New(h, v) \/ TakeStatic(h, v)
    \/ \E h, g \in Normal : Keep(h, g)
    \/ \E H \in SUBSET Normal : Release(H)
    \/ \E h \in Normal, k \in KeyHandles : KeepKey(h, k)
    \/ \E k \in KeyHandles : DropKey(k)
    \/ \E v \in Vals : Destroy(v)

Spec == Init /\ [][Next]_vars

-----------------------------------------------------------------------------

\* The types of the variables: no counter leaves the range its C type and the
\* number of handles give it, and a static object is never counted below -1.
TypeOK ==
    /\ ptr \in [Handles -> Vals \cup {Null}]
    /\ refs \in [Vals -> -1 .. Cardinality(Handles)]
    /\ keyRefs \in [Vals -> -(ShortMax + 1) .. ShortMax]
    /\ mem \in [Vals -> {"free", "live", "dying"}]

(***************************************************************************)
(* No handle refers to an object that has been destroyed or whose          *)
(* destruction is due: whoever owns a reference may use the object, across *)
(* any interleaving of the keeps and drops of all the other owners.        *)
(***************************************************************************)
NoDangling == \A h \in Handles : ptr[h] # Null => mem[ptr[h]] = "live"

(***************************************************************************)
(* No object leaks: as soon as nothing refers to a counted object, its     *)
(* destruction is due or done.                                             *)
(***************************************************************************)
NoLeak == \A v \in Vals \ Static : mem[v] = "live" => Owners(v) # {}

(***************************************************************************)
(* The counters count: refs is the number of handles, store_key_refs the   *)
(* number of those inside store keys.  This is what the test               *)
(* refs == store_key_refs of fz_key_storable_needs_reaping relies on.      *)
(***************************************************************************)
CountersExact ==
    /\ \A v \in Vals \ Static : refs[v] = Cardinality(Owners(v))
    /\ \A v \in Vals : keyRefs[v] = Cardinality(KeyOwners(v))

(***************************************************************************)
(* The assertion of fz_drop_key_storable_key holds whenever it can be      *)
(* called: store_key_refs > 0 and refs >= store_key_refs.                  *)
(***************************************************************************)
KeyAssertHolds ==
    \A k \in KeyHandles :
        ptr[k] # Null => keyRefs[ptr[k]] > 0 /\ refs[ptr[k]] >= keyRefs[ptr[k]]

(***************************************************************************)
(* The test needs_reap makes, refs == store_key_refs, is true of a live    *)
(* object exactly when every pointer to it is inside a key of the store.   *)
(***************************************************************************)
ReapTestExact ==
    \A v \in KeyVals : mem[v] = "live" =>
        (refs[v] = keyRefs[v] <=> Owners(v) \subseteq KeyHandles)
=============================================================================
