------------------------------- MODULE Store -------------------------------
(***************************************************************************)
(* The resource store (source/fitz/store.c) shared by the threads that     *)
(* render pages, with the two callers that make its life hard: images,     *)
(* which are values of the store and parts of the keys of their own decoded *)
(* tiles (source/fitz/image.c), and documents, which load images into the  *)
(* store and take them out again (source/pdf/pdf-store.c, pdf-image.c).    *)
(*                                                                         *)
(* An action is one critical section of FZ_LOCK_ALLOC, or one piece of     *)
(* work done outside it.  agenda[t] is what remains of the C call of       *)
(* thread t: a sequence of operations <<name, argument, ...>>, the next    *)
(* one first.  A thread whose agenda is empty is idle in the client.       *)
(***************************************************************************)
EXTENDS Integers, Sequences, FiniteSets, SequencesExt

CONSTANTS
    Threads, Doc,      \* the threads, and the one that uses the document
    Images, Tiles,     \* addresses of images and of decoded pixmaps
    Areas, Objs,       \* areas of an image; objects that describe images
    Direct,            \* the objects among Objs that are not indirect
    Ids,               \* addresses of store items (an item and its key)
    Size(_),           \* the bytes a value is accounted for
    StoreMax,          \* store->max, 0 for FZ_STORE_UNLIMITED
    SizeMax,           \* SIZE_MAX
    ShortMax,          \* the largest store_key_refs
    Ops,               \* the optional operations the clients use, and "nokey":
                       \* the memory for a tile's key may run out
    Requests,          \* who may ask fz_malloc for how much, as <<thread, size>>
    LeakBound,         \* no fz_remove_item once the store's size exceeds this
    Null

OpNames == {"share", "filter", "purge", "remove", "empty", "shrink", "malloc", "defer",
            "nokey"}

ASSUME StoreAssumption ==
    /\ Doc \in Threads
    /\ Direct \subseteq Objs
    /\ IsFiniteSet(Ids) /\ IsFiniteSet(Threads)
    /\ SizeMax \in Nat
    /\ \A v \in Images \cup Tiles : Size(v) \in 1 .. SizeMax
    /\ StoreMax \in 0 .. SizeMax
    /\ ShortMax \in Nat
    /\ Ops \subseteq OpNames
    /\ Requests \subseteq Threads \X (1 .. SizeMax)
    /\ LeakBound \in Nat
    /\ Images \cap Tiles = {}
    /\ Null \notin Threads \cup Images \cup Tiles \cup Ids \cup Areas \cup Objs

Vals == Images \cup Tiles
Slots == {"img", "tile", "dup"}

\* The key of a tile holds an image; the key of an image is a pdf object.
TileKeys == Images \X Areas
ObjKeys == {Null} \X Objs
Keys == TileKeys \cup ObjKeys
ImageOf(k) == k[1]
Hashed == {k \in Keys : k[2] \notin Direct}

VARIABLES
    lru,      \* the linked list of items, head (most recently used) first
    hash,     \* store->hash
    size,     \* store->size
    defer,    \* store->defer_reap_count
    needs,    \* store->needs_reaping
    scav,     \* store->scavenging
    item,     \* item[id]: the fz_item at id and the key it points to
    refs, keyRefs, mem,  \* the values, as in module Storable
    hold,     \* hold[t][s]: the value thread t has a reference to in slot s
    agenda,   \* agenda[t]: what remains of the call thread t is in
    lock      \* the thread that keeps FZ_LOCK_ALLOC between two actions

storeVars == <<lru, hash, size, defer, needs, scav>>
valVars == <<refs, keyRefs, mem>>
vars == <<storeVars, item, valVars, hold, agenda, lock>>

-----------------------------------------------------------------------------

(***************************************************************************)
(* item[id].live: there is a fz_item at id.  mine: the caller of           *)
(* fz_store_item still has its own reference to the key.  held: the item   *)
(* counts as a reference to val.  The key exists while live or mine.       *)
(***************************************************************************)
FreeItem == [live |-> FALSE, mine |-> FALSE, held |-> FALSE,
             key |-> <<Null, Null>>, val |-> Null]

KeyExists(id) == item[id].live \/ item[id].mine
FreeIds == {id \in Ids : ~KeyExists(id)}

Val(id) == item[id].val
Listed == ToSet(lru)
Bytes(S) == MapThenSumSet(LAMBDA id : Size(Val(id)), S)

Init ==
    /\ lru = <<>> /\ hash = [k \in Hashed |-> Null]
    /\ size = 0 /\ defer = 0 /\ needs = FALSE /\ scav = FALSE
    /\ item = [id \in Ids |-> FreeItem]
    /\ refs = [v \in Vals |-> 0] /\ keyRefs = [v \in Vals |-> 0]
    /\ mem = [v \in Vals |-> "free"]
    /\ hold = [t \in Threads |-> [s \in Slots |-> Null]]
    /\ agenda = [t \in Threads |-> <<>>]
    /\ lock = Null

Idle(t) == agenda[t] = <<>> /\ lock = Null

\* Thread t is about to do op; it has the lock already or can take it.
At(t, op) ==
    /\ agenda[t] # <<>> /\ Head(agenda[t])[1] = op
    /\ lock \in {Null, t}

Arg(t, i) == Head(agenda[t])[i]

\* Thread t has done its next operation, which leaves s to be done.
Go(t, s) == agenda' = [agenda EXCEPT ![t] = s \o (IF @ = <<>> THEN @ ELSE Tail(@))]

\* The same, with the lock kept (KeepLock) or not (NoLock) until the next action.
KeepLock(t) == lock' = t
NoLock == lock' = Null

\* The counters after one more, and one fewer, reference to v.
Ref(R, v) == IF R[v] > 0 THEN [R EXCEPT ![v] = @ + 1] ELSE R
Unref(R, v) == IF R[v] > 0 THEN [R EXCEPT ![v] = @ - 1] ELSE R
Dying(R) == [v \in Vals |-> IF refs[v] > 0 /\ R[v] = 0 THEN "dying" ELSE mem[v]]

\* A reference in slot s of thread t goes; the store is not told.
DropSlot(t, s) ==
    /\ refs' = Unref(refs, hold[t][s])
    /\ mem' = Dying(refs')
    /\ hold' = [hold EXCEPT ![t][s] = Null]
    /\ UNCHANGED keyRefs

NeedsReap(k) == ImageOf(k) # Null /\ keyRefs[ImageOf(k)] = refs[ImageOf(k)]

\* The items of T that are in the list, in its order.
InOrder(T) ==
    LET at == {i \in DOMAIN lru : lru[i] \in T}
    IN [n \in 1 .. Cardinality(at) |->
          lru[CHOOSE i \in at : Cardinality({j \in at : j <= i}) = n]]

Without(S) == InOrder(Listed \ S)

\* touch: the item moves, or comes, to the head of the list.
Touch(id) == <<id>> \o Without({id})

\* The item with key k that a search under the lock meets.
Matches(k) == {i \in DOMAIN lru : item[lru[i]].key = k}
Lookup(k) ==
    IF k \in Hashed THEN hash[k]
    ELSE IF Matches(k) = {} THEN Null ELSE lru[Min(Matches(k))]

\* Mutant: fz_hash_remove forgotten.
UnhashNothing(S) == hash

Unhash(S) == [k \in Hashed |-> IF hash[k] \in S THEN Null ELSE hash[k]]

\* The items of S leave the list, the hash table and the accounts.
\* Mutant: store->size -= item->size forgotten.
UnlinkUncounted(S) == lru' = Without(S) /\ hash' = Unhash(S) /\ UNCHANGED size

Unlink(S) ==
    /\ lru' = Without(S)
    /\ hash' = Unhash(S)
    /\ size' = size - Bytes(S)

\* The items of S give up their references.
Disown(S) ==
    /\ refs' = [v \in Vals |->
                 IF refs[v] > 0
                 THEN refs[v] - Cardinality({id \in S : Val(id) = v})
                 ELSE refs[v]]
    /\ mem' = Dying(refs')
    /\ item' = [id \in Ids |-> IF id \in S THEN [item[id] EXCEPT !.held = FALSE]
                                           ELSE item[id]]
    /\ UNCHANGED keyRefs

\* The items to destroy values of, when those of S have been disowned: for each
\* value whose count has reached 0 the item scanned last, the first in the list.
Destroyers(S) ==
    {id \in S : /\ refs[Val(id)] = Cardinality({j \in S : Val(j) = Val(id)})
                /\ \A j \in S : Val(j) = Val(id) =>
                     \E m, n \in DOMAIN lru : lru[m] = id /\ lru[n] = j /\ m <= n}

\* The work left for the items of S, in the order of the list.
Chain(S) ==
    IF S = {} THEN <<>>
    ELSE << <<"chain", InOrder(S), Destroyers(S)>> >>

-----------------------------------------------------------------------------

(***************************************************************************)
(* The work that follows a critical section.                               *)
(***************************************************************************)

\* val->drop: the memory of the value goes.
Destroy(t) ==
    /\ At(t, "destroy")
    /\ mem' = [mem EXCEPT ![Arg(t, 2)] = "free"]
    /\ Go(t, <<>>)
    /\ UNCHANGED <<storeVars, item, refs, keyRefs, hold, lock>>

\* fz_drop_key_storable_key on the image of a key that has lost its last reference.
\* Mutant: --s->store_key_refs forgotten.
DropKeyImageCounted(k) ==
    IF ImageOf(k) = Null
    THEN UNCHANGED valVars
    ELSE /\ refs' = [refs EXCEPT ![ImageOf(k)] = @ - 1]
         /\ UNCHANGED keyRefs
         /\ mem' = IF refs[ImageOf(k)] = 1
                   THEN [mem EXCEPT ![ImageOf(k)] = "dying"] ELSE mem

DropKeyImage(k) ==
    IF ImageOf(k) = Null
    THEN UNCHANGED valVars
    ELSE /\ refs' = [refs EXCEPT ![ImageOf(k)] = @ - 1]
         /\ keyRefs' = [keyRefs EXCEPT ![ImageOf(k)] = @ - 1]
         /\ mem' = IF refs[ImageOf(k)] = 1
                   THEN [mem EXCEPT ![ImageOf(k)] = "dying"] ELSE mem

\* Mutant: the drop function is not called for an image only keys kept.
DestroyNoImage(k) == <<>>

DestroyImageOf(k) ==
    IF ImageOf(k) # Null /\ refs[ImageOf(k)] = 1
    THEN << <<"destroy", ImageOf(k)>> >> ELSE <<>>

\* The tail of do_reap, evict, ensure_space, fz_filter_store, fz_remove_item:
\* destroy the value of the next item, or drop its key and free it.
ChainStep(t) ==
    /\ At(t, "chain")
    /\ LET s == Arg(t, 2)
           id == Head(s)
           rest == IF Tail(s) = <<>> THEN <<>>
                   ELSE << <<"chain", Tail(s), Arg(t, 3)>> >>
       IN \/ /\ id \in Arg(t, 3)
             /\ mem' = [mem EXCEPT ![Val(id)] = "free"]
             /\ Go(t, << <<"chain", s, Arg(t, 3) \ {id}>> >>)
             /\ UNCHANGED <<storeVars, item, refs, keyRefs, hold, lock>>
          \/ /\ id \notin Arg(t, 3)
             /\ IF item[id].mine
                THEN /\ item' = [item EXCEPT ![id].live = FALSE, ![id].val = Null]
                     /\ Go(t, rest)
                     /\ UNCHANGED valVars
                ELSE /\ item' = [item EXCEPT ![id] = FreeItem]
                     /\ DropKeyImage(item[id].key)
                     /\ Go(t, DestroyImageOf(item[id].key) \o rest)
             /\ NoLock
             /\ UNCHANGED <<storeVars, hold>>

\* do_reap, entered with the lock held.
Reap(t) ==
    /\ At(t, "reap")
    /\ LET S == {id \in Listed : NeedsReap(item[id].key)} IN
         /\ Unlink(S)
         /\ Disown(S)
         /\ Go(t, Chain(S))
    /\ needs' = FALSE
    /\ NoLock
    /\ UNCHANGED <<defer, scav, hold>>

(***************************************************************************)
(* scavenge: while not enough has been freed, evict the largest of the     *)
(* evictable items in the shortest suffix of the list that would do.  The  *)
(* operation is <<"scav", need, first, after>>: the bytes still to free    *)
(* (tofree - freed), whether nothing has been evicted yet (do ... while),  *)
(* and <<>> or the <<size, phase>> of the fz_malloc that called.           *)
(***************************************************************************)
\* Mutant: an item in use by one client counts as evictable.
EvictableInUse == {i \in DOMAIN lru : refs[Val(lru[i])] <= 2}

Evictable == {i \in DOMAIN lru : refs[Val(lru[i])] = 1}
From(i) == {lru[j] : j \in {j \in Evictable : j >= i}}
Suffix(n) ==
    LET enough == {i \in Evictable : Bytes(From(i)) >= n}
    IN IF enough = {} THEN From(1) ELSE From(Max(enough))
Largest(S) ==
    CHOOSE id \in S : \E i \in DOMAIN lru :
        /\ lru[i] = id
        /\ \A j \in DOMAIN lru : lru[j] \in S =>
             \/ Size(Val(lru[j])) < Size(Val(id))
             \/ Size(Val(lru[j])) = Size(Val(id)) /\ j <= i

Scavenge(t) ==
    /\ At(t, "scav")
    /\ LET need == Arg(t, 2)
           first == Arg(t, 3)
           after == Arg(t, 4)
           S == IF first \/ need > 0 THEN Suffix(need) ELSE {}
           id == Largest(S)
       IN \/ /\ S # {}
             /\ Unlink({id})
             /\ Disown({id})
             /\ Go(t, Chain({id}) \o << <<"scav", need - Size(Val(id)), FALSE, after>> >>)
             /\ NoLock
             /\ UNCHANGED scav
          \/ /\ S = {}
             /\ scav' = FALSE
             /\ IF after = <<>> THEN NoLock /\ Go(t, <<>>)
                ELSE KeepLock(t) /\ Go(t, << <<"malloc", after[1], after[2]>> >>)
             /\ UNCHANGED <<lru, hash, size, item, valVars>>
    /\ UNCHANGED <<defer, needs, hold>>

\* What a caller of scavenge(n) that then unlocks goes on with.
ScavengeOrNot(t, n, wanted) ==
    IF wanted /\ ~scav
    THEN /\ scav' = TRUE
         /\ KeepLock(t)
         /\ Go(t, << <<"scav", n, TRUE, <<>> >> >>)
    ELSE /\ UNCHANGED scav
         /\ NoLock
         /\ Go(t, <<>>)

-----------------------------------------------------------------------------

(***************************************************************************)
(* fz_drop_storable on a tile, and fz_drop_key_storable on an image.       *)
(***************************************************************************)
\* Mutant: the store is not told when a drop leaves it the only owner.
DropTileQuiet(t, s) ==
    /\ NoLock
    /\ Go(t, IF refs[hold[t][s]] = 1 THEN << <<"destroy", hold[t][s]>> >> ELSE <<>>)
    /\ DropSlot(t, s)
    /\ UNCHANGED <<storeVars, item>>

DropTile(t, s) ==
    /\ LET v == hold[t][s]
           over == StoreMax # 0 /\ size > StoreMax
       IN IF refs[v] = 1
          THEN NoLock /\ UNCHANGED scav /\ Go(t, << <<"destroy", v>> >>)
          ELSE ScavengeOrNot(t, size - StoreMax, refs[v] = 2 /\ over)
    /\ DropSlot(t, s)
    /\ UNCHANGED <<lru, hash, size, defer, needs, item>>

DropImage(t) ==
    /\ LET v == hold[t]["img"]
           reap == refs[v] # 1 /\ refs[v] - 1 = keyRefs[v]
       IN /\ needs' = (needs \/ (reap /\ defer > 0))
          /\ IF refs[v] = 1 THEN NoLock /\ Go(t, << <<"destroy", v>> >>)
             ELSE IF reap /\ defer = 0 THEN KeepLock(t) /\ Go(t, << <<"reap">> >>)
             ELSE NoLock /\ Go(t, <<>>)
    /\ DropSlot(t, "img")
    /\ UNCHANGED <<lru, hash, size, defer, scav, item>>

(***************************************************************************)
(* fz_find_item: the item found is touched and the caller gets a           *)
(* reference.                                                              *)
(***************************************************************************)
\* Mutant: the caller of fz_find_item gets a value nobody counted for it.
HitUncounted(t, s, id) ==
    /\ lru' = Touch(id)
    /\ hold' = [hold EXCEPT ![t][s] = Val(id)]
    /\ UNCHANGED <<hash, size, defer, needs, scav, item, valVars>>

Hit(t, s, id) ==
    /\ lru' = Touch(id)
    /\ refs' = Ref(refs, Val(id))
    /\ hold' = [hold EXCEPT ![t][s] = Val(id)]
    /\ UNCHANGED <<hash, size, defer, needs, scav, item, keyRefs, mem>>

Find(t, s, k, miss) ==
    /\ IF Lookup(k) # Null
       THEN Hit(t, s, Lookup(k)) /\ Go(t, <<>>)
       ELSE Go(t, miss) /\ UNCHANGED <<storeVars, item, valVars, hold>>
    /\ NoLock

\* A new value, owned by slot s of t.
Create(t, s, v) ==
    /\ mem[v] = "free"
    /\ mem' = [mem EXCEPT ![v] = "live"]
    /\ refs' = [refs EXCEPT ![v] = 1]
    /\ keyRefs' = [keyRefs EXCEPT ![v] = 0]
    /\ hold' = [hold EXCEPT ![t][s] = v]

(***************************************************************************)
(* fz_store_item(key, val): the fz_item is allocated, the key kept, and    *)
(* the rest is done under the lock.  <<"store", id, k, s>> stores the      *)
(* value of slot s; id is where the caller's key is, or Null if the key is *)
(* a pdf object.  What follows in the agenda is the caller's.              *)
(***************************************************************************)
StoreItem(t) ==
    /\ At(t, "store")
    /\ lock = Null
    /\ LET k == Arg(t, 3)
           s == Arg(t, 4)
           v == hold[t][s]
           existing == IF k \in Hashed THEN hash[k] ELSE Null
       IN \* No memory for the item, or for a larger hash table.
          \/ /\ Go(t, <<>>)
             /\ UNCHANGED <<storeVars, item, valVars, hold, lock>>
          \* There is one there already: the caller gets a reference to its value.
          \/ /\ existing # Null
             /\ lru' = Touch(existing)
             /\ refs' = Ref(refs, Val(existing))
             /\ hold' = [hold EXCEPT ![t]["dup"] = Val(existing)]
             /\ Go(t, << <<"retval", existing, Val(existing)>>, <<"dropown">> >>)
             /\ UNCHANGED <<hash, size, defer, needs, scav, item, keyRefs, mem, lock>>
          \/ /\ existing = Null
             /\ \E id \in IF Arg(t, 2) = Null THEN FreeIds ELSE {Arg(t, 2)} :
                  /\ item' = [item EXCEPT ![id] =
                       [@ EXCEPT !.live = TRUE, !.held = TRUE, !.key = k, !.val = v]]
                  /\ hash' = IF k \in Hashed THEN [hash EXCEPT ![k] = id] ELSE hash
                  /\ Go(t, << <<"room", id>> >>)
             /\ refs' = Ref(refs, v)
             /\ KeepLock(t)
             /\ UNCHANGED <<lru, size, defer, needs, scav, keyRefs, mem, hold>>

\* return existing->val, read after the lock has been released.
ReturnExisting(t) ==
    /\ At(t, "retval")
    /\ Go(t, <<>>)
    /\ UNCHANGED <<storeVars, item, valVars, hold, lock>>

\* fz_get_pixmap_from_image throws its own tile away and uses the existing one.
DropOwn(t) ==
    /\ At(t, "dropown")
    /\ lock = Null
    /\ DropTile(t, "tile")

(***************************************************************************)
(* The search for space in fz_store_item: reap if it is due, even while it *)
(* is deferred, then let ensure_space take out the items nobody uses, the  *)
(* least recently used first.                                              *)
(***************************************************************************)
Victims(n) ==
    LET enough == {i \in Evictable : Bytes(From(i)) >= n}
    IN IF enough = {} THEN {} ELSE From(Max(enough))

Excess(id) == size + Size(Val(id)) - StoreMax

\* Mutant: the items are taken out of the store and not freed.
EnsureSpaceLeaks(t, id) ==
    /\ Unlink(Victims(Excess(id)))
    /\ Go(t, << <<"finish", id>> >>)
    /\ KeepLock(t)
    /\ UNCHANGED <<defer, needs, scav, item, valVars, hold>>

EnsureSpace(t, id) ==
    LET S == Victims(Excess(id))
        order == InOrder(S)
    IN /\ Unlink(S)
       /\ Go(t, [i \in 1 .. Len(order) |-> <<"unref", order[i]>>]
                \o << <<"finish", id>> >>)
       /\ KeepLock(t)
       /\ UNCHANGED <<defer, needs, scav, item, valVars, hold>>

Room(t) ==
    /\ At(t, "room")
    /\ LET id == Arg(t, 2) IN
         \/ /\ StoreMax = 0 \/ Excess(id) <= 0
            /\ Go(t, << <<"finish", id>> >>)
            /\ UNCHANGED <<storeVars, item, valVars, hold, lock>>
         \/ /\ StoreMax # 0 /\ Excess(id) > 0 /\ needs
            /\ Go(t, << <<"reap">>, <<"again", id>> >>)
            /\ UNCHANGED <<storeVars, item, valVars, hold, lock>>
         \/ /\ StoreMax # 0 /\ Excess(id) > 0 /\ ~needs
            /\ EnsureSpace(t, id)

\* After the reap the size is computed anew.
RoomAgain(t) ==
    /\ At(t, "again")
    /\ LET id == Arg(t, 2) IN
         \/ /\ Excess(id) <= 0
            /\ Go(t, << <<"finish", id>> >>)
            /\ KeepLock(t)
            /\ UNCHANGED <<storeVars, item, valVars, hold>>
         \/ /\ Excess(id) > 0
            /\ EnsureSpace(t, id)

\* One of the items ensure_space took out: its value reference goes, and with
\* the lock released its value, key and memory.
FreeVictim(t) ==
    /\ At(t, "unref")
    /\ LET id == Arg(t, 2) IN
         /\ Disown({id})
         /\ Go(t, << <<"chain", <<id>>, IF refs[Val(id)] = 1 THEN {id} ELSE {}>> >>)
    /\ NoLock
    /\ UNCHANGED <<storeVars, hold>>

\* Mutant: fz_unlock forgotten.
FinishLocked(t) ==
    /\ At(t, "finish")
    /\ size' = size + Size(Val(Arg(t, 2)))
    /\ lru' = Touch(Arg(t, 2))
    /\ Go(t, <<>>)
    /\ KeepLock(t)
    /\ UNCHANGED <<hash, defer, needs, scav, item, valVars, hold>>

\* The item is accounted for and goes into the list.
Finish(t) ==
    /\ At(t, "finish")
    /\ LET id == Arg(t, 2) IN
         /\ size' = size + Size(Val(id))
         /\ lru' = Touch(id)
    /\ Go(t, <<>>)
    /\ NoLock
    /\ UNCHANGED <<hash, defer, needs, scav, item, valVars, hold>>

-----------------------------------------------------------------------------

(***************************************************************************)
(* The clients.  pdf_load_image looks for the image an object describes;   *)
(* if it is not there, the image is created and stored.                    *)
(***************************************************************************)
LoadImage(o) ==
    /\ Idle(Doc) /\ hold[Doc]["img"] = Null
    /\ Find(Doc, "img", <<Null, o>>, << <<"load", o>> >>)

CreateImage(t) ==
    /\ At(t, "load")
    /\ \/ /\ Go(t, <<>>)     \* the image is broken: an exception
          /\ UNCHANGED <<valVars, hold>>
       \/ /\ \E v \in Images : Create(t, "img", v)
          /\ Go(t, << <<"store", Null, <<Null, Arg(t, 2)>>, "img">> >>)
    /\ UNCHANGED <<storeVars, item, lock>>

\* fz_keep_image: another thread gets the image, as part of a display list.
ShareImage(t, u) ==
    /\ "share" \in Ops
    /\ Idle(t) /\ agenda[u] = <<>>
    /\ hold[t]["img"] # Null /\ hold[u]["img"] = Null
    /\ refs' = Ref(refs, hold[t]["img"])
    /\ hold' = [hold EXCEPT ![u]["img"] = hold[t]["img"]]
    /\ UNCHANGED <<storeVars, item, keyRefs, mem, agenda, lock>>

\* fz_drop_image.
FinishWithImage(t) ==
    /\ Idle(t) /\ hold[t]["img"] # Null
    /\ DropImage(t)

\* fz_drop_display_list: the images of the list go, with the reaping deferred.
DropList(t) ==
    /\ "defer" \in Ops
    /\ Idle(t) /\ hold[t]["img"] # Null
    /\ defer' = defer + 1
    /\ Go(t, << <<"dropimage">>, <<"deferend">> >>)
    /\ UNCHANGED <<lru, hash, size, needs, scav, item, valVars, hold, lock>>

DropListImage(t) ==
    /\ At(t, "dropimage")
    /\ lock = Null
    /\ DropImage(t)

\* Mutant: fz_defer_reap_end leaves the reaping to the next caller.
DeferEndQuiet(t) ==
    /\ At(t, "deferend")
    /\ lock = Null
    /\ defer' = defer - 1
    /\ NoLock /\ Go(t, <<>>)
    /\ UNCHANGED <<lru, hash, size, needs, scav, item, valVars, hold>>

\* fz_defer_reap_end.
DeferEnd(t) ==
    /\ At(t, "deferend")
    /\ lock = Null
    /\ defer' = defer - 1
    /\ IF defer' = 0 /\ needs
       THEN KeepLock(t) /\ Go(t, << <<"reap">> >>)
       ELSE NoLock /\ Go(t, <<>>)
    /\ UNCHANGED <<lru, hash, size, needs, scav, item, valVars, hold>>

(***************************************************************************)
(* fz_get_pixmap_from_image: find the tile, or decode it and offer it to   *)
(* the store under a key of its own.                                       *)
(***************************************************************************)
GetTile(t, a) ==
    /\ Idle(t)
    /\ hold[t]["img"] # Null /\ hold[t]["tile"] = Null /\ hold[t]["dup"] = Null
    /\ LET k == <<hold[t]["img"], a>> IN Find(t, "tile", k, << <<"decode", k>> >>)

Decode(t) ==
    /\ At(t, "decode")
    /\ \/ /\ Go(t, <<>>)     \* the data is broken: an exception
          /\ UNCHANGED <<valVars, hold>>
       \/ /\ \E v \in Tiles : Create(t, "tile", v)
          /\ Go(t, << <<"makekey", Arg(t, 2)>> >>)
    /\ UNCHANGED <<storeVars, item, lock>>

(***************************************************************************)
(* The key is allocated and takes a reference to the image, counted as a   *)
(* key's.  When fz_malloc_struct throws, fz_rethrow_if leaves the function *)
(* and nobody has the tile any more.                                       *)
(***************************************************************************)
MakeKey(t) ==
    /\ At(t, "makekey")
    /\ lock = Null
    /\ \/ /\ "nokey" \in Ops
          /\ hold' = [hold EXCEPT ![t]["tile"] = Null]
          /\ Go(t, <<>>)
          /\ UNCHANGED <<item, refs, keyRefs>>
       \/ LET k == Arg(t, 2)
              im == ImageOf(k)
              over == keyRefs[im] + 1 > ShortMax
          IN \E id \in FreeIds :
               /\ item' = [item EXCEPT ![id] = [FreeItem EXCEPT !.mine = TRUE, !.key = k]]
               /\ refs' = [refs EXCEPT ![im] = @ + 1]
               /\ keyRefs' = [keyRefs EXCEPT ![im] =
                                IF over THEN -ShortMax - 1 ELSE @ + 1]
               /\ Go(t, << <<"store", id, k, "tile">>, <<"dropkey", id>> >>)
               /\ UNCHANGED hold
    /\ UNCHANGED <<storeVars, mem, lock>>

\* fz_drop_image_key on the caller's own reference to the key.
DropKey(t) ==
    /\ At(t, "dropkey")
    /\ lock = Null
    /\ LET id == Arg(t, 2) IN
         IF item[id].live
         THEN /\ item' = [item EXCEPT ![id].mine = FALSE]
              /\ Go(t, <<>>)
              /\ UNCHANGED valVars
         ELSE /\ item' = [item EXCEPT ![id] = FreeItem]
              /\ DropKeyImage(item[id].key)
              /\ Go(t, DestroyImageOf(item[id].key))
    /\ UNCHANGED <<storeVars, hold, lock>>

FinishWithTile(t, s) ==
    /\ Idle(t) /\ s # "img" /\ hold[t][s] # Null
    /\ DropTile(t, s)

(***************************************************************************)
(* fz_filter_store, as pdf_purge_object_from_store and, between a          *)
(* fz_defer_reap_start and its end, as pdf_drop_document_imp call it.      *)
(***************************************************************************)
Filter(t) ==
    /\ At(t, "filter")
    /\ lock = Null
    /\ LET S == {id \in Listed : item[id].key \in Arg(t, 2)} IN
         /\ Unlink(S)
         /\ Disown(S)
         /\ Go(t, Chain(S))
    /\ UNCHANGED <<defer, needs, scav, hold, lock>>

Purge(o) ==
    /\ "purge" \in Ops
    /\ Idle(Doc)
    /\ Go(Doc, << <<"filter", {<<Null, o>>}>> >>)
    /\ UNCHANGED <<storeVars, item, valVars, hold, lock>>

CloseDocument ==
    /\ "filter" \in Ops
    /\ Idle(Doc)
    /\ defer' = defer + 1
    /\ Go(Doc, << <<"filter", ObjKeys>>, <<"deferend">> >>)
    /\ UNCHANGED <<lru, hash, size, needs, scav, item, valVars, hold, lock>>

\* fz_remove_item, as the loaders of patterns and fonts call it when they fail.
RemoveItem(o) ==
    /\ "remove" \in Ops
    /\ Idle(Doc) /\ size <= LeakBound
    /\ LET id == Lookup(<<Null, o>>) IN
         /\ id # Null
         /\ lru' = Without({id})
         /\ hash' = Unhash({id})
         /\ Disown({id})
         /\ Go(Doc, << <<"chain", <<id>>, IF refs[Val(id)] = 1 THEN {id} ELSE {}>> >>)
    /\ UNCHANGED <<size, defer, needs, scav, hold, lock>>

\* fz_empty_store: evict the head of the list until there is none.
EmptyStore(t) ==
    /\ "empty" \in Ops
    /\ Idle(t)
    /\ Go(t, << <<"empty">> >>)
    /\ UNCHANGED <<storeVars, item, valVars, hold, lock>>

EvictHead(t) ==
    /\ At(t, "empty")
    /\ lock = Null
    /\ IF lru = <<>>
       THEN Go(t, <<>>) /\ UNCHANGED <<lru, hash, size, item, valVars>>
       ELSE /\ Unlink({Head(lru)})
            /\ Disown({Head(lru)})
            /\ Go(t, Chain({Head(lru)}) \o << <<"empty">> >>)
    /\ UNCHANGED <<defer, needs, scav, hold, lock>>

\* fz_shrink_store(percent).
Shrink(t, percent) ==
    /\ "shrink" \in Ops
    /\ Idle(t)
    /\ LET newSize == (size * percent) \div 100
       IN ScavengeOrNot(t, size - newSize, size > newSize)
    /\ UNCHANGED <<lru, hash, size, defer, needs, item, valVars, hold>>

(***************************************************************************)
(* fz_malloc: try, and while there is no memory let fz_store_scavenge make *)
(* room for it.  Whether there is memory is not the store's to know.       *)
(***************************************************************************)
Malloc(t, n) ==
    /\ "malloc" \in Ops
    /\ Idle(t)
    /\ Go(t, << <<"malloc", n, 0>> >>)
    /\ UNCHANGED <<storeVars, item, valVars, hold, lock>>

TryMalloc(t) ==
    /\ At(t, "malloc")
    /\ \/ NoLock /\ Go(t, <<>>)
       \/ KeepLock(t) /\ Go(t, << <<"phase", Arg(t, 2), Arg(t, 3)>> >>)
    /\ UNCHANGED <<storeVars, item, valVars, hold>>

\* The size the store may keep in a phase, and a size_t.
PhaseMax(p) ==
    IF p >= 16 THEN 0
    ELSE IF StoreMax # 0 THEN (StoreMax \div 16) * (16 - p)
    ELSE (size \div (16 - p)) * (15 - p)

SizeT(n) == n % (SizeMax + 1)

\* From phase 16 on nothing changes, so *phase need not be counted further.
LastPhase == 16

(***************************************************************************)
(* The loop of fz_store_scavenge from phase p on, for a request of n bytes, *)
(* which keeps the lock until a phase has evicted something.               *)
(***************************************************************************)
Overflow(n) == n > SizeMax - size
Tries(n, q) == Overflow(n) \/ n + size <= PhaseMax(q)
ToFree(n, q) ==
    IF Overflow(n) THEN SizeMax - PhaseMax(q) ELSE SizeT(n + size - PhaseMax(q))

ScavengePhases(t) ==
    /\ At(t, "phase")
    /\ LET n == Arg(t, 2)
           p == Arg(t, 3)
           last == Min({q \in p .. LastPhase : PhaseMax(q) = 0})
           tried == {q \in p .. last : Tries(n, q)}
       IN IF tried # {} /\ ~scav /\ Evictable # {}
          THEN /\ scav' = TRUE
               /\ Go(t, << <<"scav", ToFree(n, Min(tried)), TRUE,
                             <<n, Min({Min(tried) + 1, LastPhase})>> >> >>)
               /\ UNCHANGED lock
          ELSE /\ Go(t, << <<"nomem">> >>)
               /\ NoLock
               /\ UNCHANGED scav
    /\ UNCHANGED <<lru, hash, size, defer, needs, item, valVars, hold>>

\* fz_malloc throws, fz_malloc_no_throw returns NULL.
OutOfMemory(t) ==
    /\ At(t, "nomem")
    /\ Go(t, <<>>)
    /\ UNCHANGED <<storeVars, item, valVars, hold, lock>>

-----------------------------------------------------------------------------

Client(t) ==
    \/ \E u \in Threads : ShareImage(t, u)
    \/ FinishWithImage(t) \/ DropList(t)
    \/ \E a \in Areas : GetTile(t, a)
    \/ \E s \in Slots : FinishWithTile(t, s)
    \/ EmptyStore(t)
    \/ \E p \in {0, 50} : Shrink(t, p)
    \/ \E n \in {r[2] : r \in {r \in Requests : r[1] = t}} : Malloc(t, n)

Document ==
    \/ \E o \in Objs : LoadImage(o) \/ Purge(o) \/ RemoveItem(o)
    \/ CloseDocument

\* The next step of the C call thread t is in.
Step(t) ==
    \/ Destroy(t) \/ ChainStep(t) \/ Reap(t) \/ Scavenge(t)
    \/ StoreItem(t) \/ ReturnExisting(t) \/ DropOwn(t)
    \/ Room(t) \/ RoomAgain(t) \/ FreeVictim(t) \/ Finish(t)
    \/ CreateImage(t) \/ Decode(t) \/ MakeKey(t) \/ DropKey(t)
    \/ DropListImage(t) \/ DeferEnd(t) \/ Filter(t) \/ EvictHead(t)
    \/ TryMalloc(t) \/ ScavengePhases(t) \/ OutOfMemory(t)

Next == Document \/ \E t \in Threads : Client(t) \/ Step(t)

Spec == Init /\ [][Next]_vars

\* A thread that is in a call goes on with it: its step is possible again and
\* again, whenever no other thread has the lock, and mutexes are fair.
FairSpec == Spec /\ \A t \in Threads : SF_vars(Step(t))

-----------------------------------------------------------------------------

(***************************************************************************)
(* What the store implements: the references of Storable.  The handles are *)
(* the variables of the threads, and the val pointer and the image in the  *)
(* key of every item.                                                      *)
(***************************************************************************)
Handles == (Threads \X Slots) \cup (Ids \X {"val", "key"})

Pointer(h) ==
    IF h[2] \in Slots THEN hold[h[1]][h[2]]
    ELSE IF h[2] = "val" THEN IF item[h[1]].held THEN Val(h[1]) ELSE Null
    ELSE IF KeyExists(h[1]) THEN ImageOf(item[h[1]].key) ELSE Null

Counting == INSTANCE Storable WITH
    KeyVals <- Images, Static <- {}, KeyHandles <- Ids \X {"key"},
    ptr <- [h \in Handles |-> Pointer(h)]

\* Every step of every thread is a step of the reference counting protocol of
\* Storable, or none: no critical section counts what it does not hold.
RefinesStorable == Counting!Spec

-----------------------------------------------------------------------------

Entries(t) == {agenda[t][i] : i \in DOMAIN agenda[t]}

\* The items thread t has taken out of the store and will free.
Doomed(t) ==
    UNION {IF e[1] = "chain" THEN ToSet(e[2])
           ELSE IF e[1] = "unref" THEN {e[2]} ELSE {} : e \in Entries(t)}

\* The items thread t is in the middle of storing.
Storing(t) == {e[2] : e \in {e \in Entries(t) : e[1] \in {"room", "again", "finish"}}}

InWindow == UNION {Storing(t) : t \in Threads}

\* The types: no counter leaves the range that the pointers of the program give it.
TypeOK ==
    /\ lru \in Seq(Ids)
    /\ hash \in [Hashed -> Ids \cup {Null}]
    /\ size \in 0 .. SizeMax
    /\ defer \in 0 .. Cardinality(Threads)
    /\ needs \in BOOLEAN /\ scav \in BOOLEAN
    /\ refs \in [Vals -> 0 .. Cardinality(Handles)]
    /\ keyRefs \in [Vals -> 0 .. Cardinality(Ids)]
    /\ mem \in [Vals -> {"free", "live", "dying"}]
    /\ hold \in [Threads -> [Slots -> Vals \cup {Null}]]
    /\ lock \in Threads \cup {Null}

(***************************************************************************)
(* The list and the hash table agree, whatever is being stored, evicted,   *)
(* reaped or filtered at the moment: an item in the list is alive, counts  *)
(* as a reference, is there once, and is what its key finds; an item the   *)
(* hash table finds has that key and is in the list, or is being stored.   *)
(***************************************************************************)
IndexConsistent ==
    /\ Len(lru) = Cardinality(Listed)
    /\ \A id \in Listed :
         /\ item[id].live /\ item[id].held
         /\ item[id].key \in Hashed => hash[item[id].key] = id
    /\ \A k \in Hashed : hash[k] # Null =>
         /\ item[hash[k]].live /\ item[hash[k]].key = k
         /\ hash[k] \in Listed \cup InWindow

\* The duplicate whose val fz_store_item is about to return, outside the lock, is
\* still the item it found.
DuplicateStillThere ==
    \A t \in Threads : \A e \in Entries(t) :
        e[1] = "retval" => item[e[2]].live /\ Val(e[2]) = e[3]

(***************************************************************************)
(* Whatever a call still has to do with an item, the item is still there:  *)
(* the one fz_store_item is about to link, the duplicate whose val it is   *)
(* about to return, the ones to be freed (and each by one thread only,     *)
(* which alone can still reach it).                                        *)
(***************************************************************************)
PendingWorkValid ==
    /\ DuplicateStillThere
    /\ \A t \in Threads :
        /\ \A id \in Storing(t) \cup Doomed(t) : item[id].live
        /\ \A id \in Doomed(t) :
             /\ id \notin Listed
             /\ \A k \in Hashed : hash[k] # id
             /\ \A u \in Threads \ {t} : id \notin Doomed(u) \cup Storing(u)

\* No item is lost: an item or a key that exists is in the store, or some
\* thread is on its way to put it there or to free it.
NoItemLost ==
    \A id \in Ids :
        /\ item[id].live => \/ id \in Listed \cup InWindow
                            \/ \E t \in Threads : id \in Doomed(t)
        /\ item[id].mine => \E t \in Threads : <<"dropkey", id>> \in Entries(t)

(***************************************************************************)
(* store->size is the sum of the sizes of the items that are in the list   *)
(* and accounted for: those that a finder has linked before fz_store_item  *)
(* could are not, yet.                                                     *)
(***************************************************************************)
SizeAccounted == size = Bytes(Listed \ InWindow)

(***************************************************************************)
(* Reaping is complete: when it is not deferred and no thread is in a      *)
(* critical section, no item of the store is kept for an image that only   *)
(* keys refer to, and no reaping is due.                                   *)
(***************************************************************************)
ReapComplete ==
    lock = Null /\ defer = 0 =>
        ~needs /\ \A id \in Listed : ~NeedsReap(item[id].key)

(***************************************************************************)
(* When nothing is going on in a store above its limit, evicting every     *)
(* tile that nobody uses would not bring it down to the limit: a call of   *)
(* fz_store_item that goes above the limit has found that it cannot free   *)
(* enough, and the drop of a tile that was in use makes up for it.         *)
(***************************************************************************)
OversizeUnavoidable ==
    (\A t \in Threads : agenda[t] = <<>>) /\ StoreMax # 0 /\ size > StoreMax
        => Bytes({id \in From(1) : Val(id) \in Tiles}) < size - StoreMax

(***************************************************************************)
(* A call of fz_malloc is about to fail only when nothing evictable is left *)
(* in the store.                                                           *)
(***************************************************************************)
MallocFailsOnlyWhenEmpty ==
    \A t \in Threads : <<"nomem">> \in Entries(t) => Evictable = {}

\* Every call returns.
CallsReturn == \A t \in Threads : agenda[t] # <<>> ~> agenda[t] = <<>>

\* An object whose last reference has gone is destroyed in the end.
DyingFreed == \A v \in Vals : mem[v] = "dying" ~> mem[v] = "free"
=============================================================================
