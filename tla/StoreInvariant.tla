--------------------------- MODULE StoreInvariant ---------------------------
(***************************************************************************)
(* The inductive invariants of Store.                                      *)
(*                                                                         *)
(* What has to be shown at once is what each thread may still rely on when *)
(* it is between two critical sections: that is Sound, for each operation  *)
(* of its agenda.  It lasts while others take their steps because what is  *)
(* to be done to an item or a value is to be done by one operation of one  *)
(* thread (Claimed), and because what a thread has a reference to is never *)
(* the only reference, and not one of keys alone (Counted).                *)
(***************************************************************************)
EXTENDS Store

\* The store is emptied only by a program that has one thread: another thread's
\* fz_store_item may otherwise return the value of an item that is gone.
EmptiedAlone == "empty" \in Ops => Threads = {Doc}

\* Tiles are not lost with the memory for their keys.
KeysAlways == "nokey" \notin Ops

-----------------------------------------------------------------------------
\* The variables' types.

ItemType == [live : BOOLEAN, mine : BOOLEAN, held : BOOLEAN,
             key : Keys \cup {<<Null, Null>>}, val : Vals \cup {Null}]

Typed ==
    /\ lru \in Seq(Ids)
    /\ hash \in [Hashed -> Ids \cup {Null}]
    /\ item \in [Ids -> ItemType]
    /\ refs \in [Vals -> Nat]
    /\ keyRefs \in [Vals -> Int]
    /\ mem \in [Vals -> {"free", "live", "dying"}]
    /\ hold \in [Threads -> [Slots -> Vals \cup {Null}]]
    /\ agenda \in [Threads -> Seq(UNION {Entries(t) : t \in Threads})]

\* A slot has values of its kind.
SlotsGood ==
    \A t \in Threads :
        /\ hold[t]["img"] \in Images \cup {Null}
        /\ hold[t]["tile"] \in Tiles \cup {Null}
        /\ hold[t]["dup"] \in Tiles \cup {Null}

\* What an item is like while it exists, and while only its key does.
ItemsGood ==
    \A id \in Ids :
        /\ KeyExists(id) => item[id].key \in Keys
        /\ item[id].mine => item[id].key \in TileKeys
        /\ item[id].live =>
             /\ item[id].key \in TileKeys => Val(id) \in Tiles
             /\ item[id].key \in ObjKeys => Val(id) \in Images
        /\ ~item[id].live => ~item[id].held /\ Val(id) = Null

\* The index: the list has an item once, and the hash table finds it.
ListGood ==
    /\ IsInjective(lru)
    /\ \A id \in Listed :
         /\ item[id].live /\ item[id].held
         /\ item[id].key \in Hashed => hash[item[id].key] = id

HashGood ==
    \A k \in Hashed : hash[k] # Null =>
        /\ item[hash[k]].live /\ item[hash[k]].held
        /\ item[hash[k]].key = k
        /\ hash[k] \in Listed \cup InWindow

-----------------------------------------------------------------------------
\* What a thread relies on while an operation is on its agenda.

\* The store no longer has id.
Out(id) == id \notin Listed /\ \A k \in Hashed : hash[k] # id

\* There is no item with key k, for the one thread that makes such items.
Unused(k) == k \in Hashed => hash[k] = Null

\* Thread t has a reference to what id is for, and id cannot be reaped.
Secured(t, id) ==
    /\ id \in Ids /\ item[id].live /\ item[id].held
    /\ item[id].key \in Hashed => hash[item[id].key] = id
    /\ \/ /\ item[id].key \in TileKeys
          /\ hold[t]["img"] = ImageOf(item[id].key)
          /\ Val(id) \in {hold[t]["tile"], hold[t]["dup"]}
       \/ item[id].key \in ObjKeys /\ t = Doc /\ hold[t]["img"] = Val(id)

\* The client has the image, and room for a tile of it.
Decoding(t, k) ==
    k \in TileKeys /\ hold[t]["img"] = ImageOf(k) /\ hold[t]["dup"] = Null

Sound(t, e) ==
    /\ e[1] = "load" => /\ t = Doc /\ e[2] \in Objs
                        /\ hold[t]["img"] = Null /\ Unused(<<Null, e[2]>>)
    /\ e[1] = "store" =>
         \/ /\ e[2] = Null /\ e[3] \in ObjKeys /\ e[4] = "img"
            /\ t = Doc /\ hold[t]["img"] # Null /\ Unused(e[3])
         \/ /\ e[2] \in Ids /\ Decoding(t, e[3]) /\ e[4] = "tile"
            /\ item[e[2]].mine /\ ~item[e[2]].live /\ item[e[2]].key = e[3]
            /\ hold[t]["tile"] # Null
    /\ e[1] = "decode" => Decoding(t, e[2]) /\ hold[t]["tile"] = Null
    /\ e[1] = "makekey" => Decoding(t, e[2]) /\ hold[t]["tile"] # Null
    /\ e[1] = "dropown" => hold[t]["tile"] # Null
    /\ e[1] = "dropimage" => hold[t]["img"] # Null
    /\ e[1] = "retval" => /\ Secured(t, e[2]) /\ item[e[2]].key \in TileKeys \cap Hashed
                          /\ Val(e[2]) = e[3] /\ e[3] = hold[t]["dup"]
    /\ e[1] \in {"room", "again", "finish"} => Secured(t, e[2])
    /\ e[1] = "unref" => /\ e[2] \in Ids /\ item[e[2]].live /\ item[e[2]].held
                         /\ Out(e[2])
    /\ e[1] = "chain" =>
         /\ e[2] \in Seq(Ids) /\ e[2] # <<>> /\ IsInjective(e[2])
         /\ e[3] \subseteq ToSet(e[2])
         /\ \A id \in ToSet(e[2]) : item[id].live /\ ~item[id].held /\ Out(id)
         /\ \A id \in e[3] : mem[Val(id)] = "dying"
         /\ \A id, j \in e[3] : Val(id) = Val(j) => id = j
    /\ e[1] = "dropkey" => e[2] \in Ids /\ item[e[2]].mine /\ e = <<"dropkey", e[2]>>
    /\ e[1] = "destroy" => e[2] \in Vals /\ mem[e[2]] = "dying"
    /\ e[1] = "filter" => t = Doc /\ e[2] \subseteq ObjKeys
    /\ e[1] = "empty" => Threads = {Doc}

AgendaSound == \A t \in Threads : \A i \in DOMAIN agenda[t] : Sound(t, agenda[t][i])

\* The operations that change what a thread holds, take any item out or drop a key,
\* and those that rely on it and may wait for others: these wait for none of those.
\* The key whose item is about to be stored is dropped next.
Changing == {"load", "store", "decode", "makekey", "dropown", "dropimage",
             "filter", "empty", "dropkey"}
Relying == {"dropown", "again", "finish"}
Later == Relying \cup {"dropkey", "deferend", "unref", "chain", "scav", "empty"}

Ordered(a) ==
    /\ \A i \in DOMAIN a : i > 1 =>
         /\ a[i][1] \in Later
         /\ a[i][1] \in Relying => \A j \in 1 .. i - 1 : a[j][1] \notin Changing
    /\ a # <<>> /\ a[1][1] = "store" /\ a[1][2] # Null =>
         Len(a) > 1 /\ a[2] = <<"dropkey", a[1][2]>>

AgendaOrdered == \A t \in Threads : Ordered(agenda[t])

-----------------------------------------------------------------------------
\* What an operation alone may do: finish or free an item, drop a thread's own
\* reference to a key, destroy a value.  I is the function item.

Claim(I, e) ==
    (IF e[1] \in {"room", "again", "finish", "unref"} THEN {<<"item", e[2]>>} ELSE {})
    \cup (IF e[1] = "chain" THEN {<<"item", id>> : id \in ToSet(e[2])}
                                 \cup {<<"mem", I[id].val>> : id \in e[3]} ELSE {})
    \cup (IF e[1] = "dropkey" THEN {<<"key", e[2]>>} ELSE {})
    \cup (IF e[1] = "destroy" THEN {<<"mem", e[2]>>} ELSE {})

Claims(I, a) == UNION {Claim(I, a[i]) : i \in DOMAIN a}

Distinct(I, a) == \A i, j \in DOMAIN a : i # j => Claim(I, a[i]) \cap Claim(I, a[j]) = {}

Claimed ==
    \A t \in Threads :
        /\ Distinct(item, agenda[t])
        /\ \A u \in Threads \ {t} :
             Claims(item, agenda[t]) \cap Claims(item, agenda[u]) = {}

\* Every item is in the store or somebody's to finish or free, every key some
\* thread has is its to drop.
NothingLost ==
    \A id \in Ids :
        /\ item[id].live => \/ id \in Listed
                            \/ \E t \in Threads : <<"item", id>> \in Claims(item, agenda[t])
        /\ item[id].mine => \E t \in Threads : <<"key", id>> \in Claims(item, agenda[t])

-----------------------------------------------------------------------------
\* The counts: a value has at least the references its owners need, and what only
\* keys own is not counted for more than those.

Owners(v) == {h \in Handles : Pointer(h) = v}
KeyOwners(v) == {h \in Ids \X {"key"} : Pointer(h) = v}

Counted ==
    \A v \in Vals :
        /\ refs[v] >= Cardinality(Owners(v))
        /\ keyRefs[v] <= Cardinality(KeyOwners(v))
        /\ keyRefs[v] <= ShortMax
        /\ mem[v] # "live" => refs[v] = 0

IInv ==
    /\ Typed /\ SlotsGood /\ ItemsGood /\ ListGood /\ HashGood
    /\ AgendaSound /\ AgendaOrdered /\ Claimed /\ NothingLost /\ Counted

-----------------------------------------------------------------------------
(***************************************************************************)
(* Reaping.  What is due is reaped by whoever makes it due, or remembered  *)
(* for whoever ends the last deferral: ReapInv.                            *)
(***************************************************************************)
\* No operation takes items out of the store that somebody may still use.
OnlyUnused == Ops \cap {"empty", "filter", "purge", "remove"} = {}

\* Some item in the list is kept for an image that only keys refer to.
Due == \E id \in Listed : NeedsReap(item[id].key)

\* A thread has the lock, to reap.
ReapNext == \E t \in Threads : lock = t /\ agenda[t] # <<>> /\ Head(agenda[t])[1] = "reap"

\* The threads that have reaping deferred.
Deferring == {t \in Threads : \E e \in ToSet(agenda[t]) : e[1] = "deferend"}

\* defer is their number: whoever defers reaping ends that last.
Defers ==
    /\ \A t \in Threads : \A i \in DOMAIN agenda[t] :
         /\ agenda[t][i][1] \notin {"filter", "empty"}
         /\ agenda[t][i][1] = "deferend" => i = Len(agenda[t])
    /\ defer = Cardinality(Deferring)

\* Nobody but the item ensure_space took out refers to its value.
VictimsAlone ==
    \A t \in Threads : \A e \in ToSet(agenda[t]) : e[1] = "unref" => refs[item[e[2]].val] = 1

\* What is to be reaped is known to be, and will be by who ends the deferral.
Remembered == (needs => defer # 0) /\ (Due => needs)

ReapInv == Defers /\ VictimsAlone /\ (ReapNext \/ Remembered)
=============================================================================
