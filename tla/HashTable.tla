----------------------------- MODULE HashTable -----------------------------
(***************************************************************************)
(* The open addressing hash table of source/fitz/hash.c, shared by threads *)
(* under FZ_LOCK_ALLOC as the resource store shares it.  Probing is linear *)
(* and removal moves later entries back into the hole, so no tombstones    *)
(* are left.  The lock is held by the callers; only fz_resize_hash gives   *)
(* it up, once to allocate the larger array and once to free the smaller,  *)
(* and an insertion is split there.                                        *)
(***************************************************************************)
EXTENDS Integers, FiniteSetsExt

CONSTANTS Threads, Keys, Vals,
          ValsOf(_),    \* the values that may be inserted under a key
          Hash(_),      \* the hash of a key, before it is reduced to a slot
          InitialSize,  \* initialsize of fz_new_hash_table
          NoVal,        \* NULL
          Selections    \* the sets of keys a filter's callback may pick

(* The callers ask for 256 slots or more; below 6 the table would fill up  *)
(* before it grows, and probing for an absent key would not end.           *)
ASSUME HashTableAssumption ==
    /\ InitialSize \in Nat /\ InitialSize > 5
    /\ \A k \in Keys : Hash(k) \in Nat /\ ValsOf(k) \subseteq Vals
    /\ NoVal \notin Keys \cup Vals
    /\ \A gone \in Selections : gone \subseteq Keys

VARIABLES
    size,       \* table->size
    load,       \* table->load
    ents,       \* table->ents: a slot is a key with its value, or Empty
    pc,         \* each thread: idle, or inside fz_resize_hash without the lock
    call,       \* the key and the value it inserts
    newsize,    \* the size it asked fz_resize_hash for
    answer      \* what its last insertion returned

vars == <<size, load, ents, pc, call, newsize, answer>>

Empty == [key |-> NoVal, val |-> NoVal]
Entry == [key : Keys, val : Vals]
Slots(n) == 0..(n - 1)
NoCall == Empty
\* Mutant: the table grows when it is 90% full.
CrowdedLate == load > (size * 9) \div 10
Crowded == load > (size * 8) \div 10

Init ==
    /\ size = InitialSize /\ load = 0
    /\ ents = [i \in Slots(InitialSize) |-> Empty]
    /\ pc = [t \in Threads |-> "idle"]
    /\ call = [t \in Threads |-> NoCall]
    /\ newsize = [t \in Threads |-> 0]
    /\ answer = [t \in Threads |-> NoVal]

-----------------------------------------------------------------------------
(* Where the probe for k ends in table e of n slots: at k or at the first  *)
(* empty slot after its home, whichever comes first.                       *)
Home(k, n) == Hash(k) % n
At(k, n, d) == (Home(k, n) + d) % n
Stops(e, n, k, d) == e[At(k, n, d)].key \in {k, NoVal}
Probe(e, n, k) ==
    At(k, n, CHOOSE d \in Slots(n) :
                 /\ Stops(e, n, k, d)
                 /\ \A b \in Slots(d) : ~Stops(e, n, k, b))

(* fz_hash_find.                                                           *)
Find(k) == ents[Probe(ents, size, k)].val

(* do_hash_insert, from the caller's lock section.                         *)
Place(e, n, k, v) == [e EXCEPT ![Probe(e, n, k)] = [key |-> k, val |-> v]]
\* Mutant: a duplicate replaces the value that is there.
InsertOver(t, k, v) ==
    /\ answer' = [answer EXCEPT ![t] = Find(k)]
    /\ ents' = Place(ents, size, k, v)
    /\ load' = IF ents[Probe(ents, size, k)] = Empty THEN load + 1 ELSE load
Insert(t, k, v) ==
    LET found == ents[Probe(ents, size, k)] IN
    /\ answer' = [answer EXCEPT ![t] = found.val]
    /\ IF found = Empty
       THEN ents' = Place(ents, size, k, v) /\ load' = load + 1
       ELSE UNCHANGED <<ents, load>>

(* The rehashing loop of fz_resize_hash: each slot of the old array in     *)
(* order, put into the empty new one.                                      *)
Rehash(n) ==
    LET new[i \in 0..size] ==
            IF i = 0 THEN [j \in Slots(n) |-> Empty]
            ELSE IF ents[i - 1] = Empty THEN new[i - 1]
            ELSE Place(new[i - 1], n, ents[i - 1].key, ents[i - 1].val)
    IN new[size]

(* do_removal: the entry in the hole goes, and each entry after it, up to  *)
(* the next empty slot, is moved back when the hole lies between its home  *)
(* and its slot.                                                           *)
\* Mutant: the two cases across the end of the array left out.
MovesNoWrap(code, hole, look) == code <= hole /\ hole < look
Moves(code, hole, look) ==
    \/ code <= hole /\ hole < look
    \/ look < code /\ code <= hole
    \/ hole < look /\ look < code

Shift(s, n) ==
    LET look == (s.look + 1) % n IN
    IF Moves(Home(s.ents[s.look].key, n), s.hole, s.look)
    THEN [ents |-> [s.ents EXCEPT ![s.hole] = s.ents[s.look], ![s.look] = Empty],
          hole |-> s.look, look |-> look]
    ELSE [s EXCEPT !.look = look]

Removed(e, n, hole) ==
    LET run[i \in Slots(n)] ==
            IF i = 0
            THEN [ents |-> [e EXCEPT ![hole] = Empty], hole |-> hole,
                  look |-> (hole + 1) % n]
            ELSE LET s == run[i - 1] IN IF s.ents[s.look] = Empty THEN s ELSE Shift(s, n)
    IN run[n - 1].ents

-----------------------------------------------------------------------------
(* fz_hash_insert and fz_hash_remove by a thread that holds the lock; a    *)
(* thread inside fz_resize_hash does nothing else.                         *)
InsertNow(t, k, v) ==
    /\ pc[t] = "idle" /\ ~Crowded
    /\ Insert(t, k, v)
    /\ UNCHANGED <<size, pc, call, newsize>>

Remove(t, k) ==
    LET at == Probe(ents, size, k) IN
    /\ pc[t] = "idle" /\ ents[at] # Empty
    /\ ents' = Removed(ents, size, at)
    /\ load' = load - 1
    /\ UNCHANGED <<size, pc, call, newsize, answer>>

(* fz_hash_filter: the scan restarts after every removal, until it meets   *)
(* no entry the callback picks.                                            *)
First(e, gone) == Min({i \in Slots(size) : e[i].key \in gone})
\* Mutant: the scan goes on instead of starting again.
FilterOnceAround(t, gone) ==
    LET scan[i \in 0..size] ==
            IF i = 0 THEN [ents |-> ents, load |-> load]
            ELSE LET s == scan[i - 1] IN
                 IF s.ents[i - 1].key \in gone
                 THEN [ents |-> Removed(s.ents, size, i - 1), load |-> s.load - 1]
                 ELSE s
    IN
    /\ pc[t] = "idle"
    /\ ents' = scan[size].ents /\ load' = scan[size].load
    /\ UNCHANGED <<size, pc, call, newsize, answer>>
Filter(t, gone) ==
    LET n == Cardinality({i \in Slots(size) : ents[i].key \in gone})
        scan[i \in 0..n] ==
            IF i = 0 THEN ents ELSE Removed(scan[i - 1], size, First(scan[i - 1], gone))
    IN
    /\ pc[t] = "idle"
    /\ ents' = scan[n] /\ load' = load - n
    /\ UNCHANGED <<size, pc, call, newsize, answer>>

(* fz_hash_insert of a crowded table: fz_resize_hash gives up the lock to  *)
(* allocate an array of twice the size.                                    *)
StartResize(t, k, v) ==
    /\ pc[t] = "idle" /\ Crowded
    /\ pc' = [pc EXCEPT ![t] = "malloc"]
    /\ call' = [call EXCEPT ![t] = [key |-> k, val |-> v]]
    /\ newsize' = [newsize EXCEPT ![t] = size * 2]
    /\ UNCHANGED <<size, load, ents, answer>>

(* With the lock again, it finds that another thread has done the work, or *)
(* that there is no memory, which throws, or it rehashes.                  *)
AlreadyResized(t) ==
    /\ pc[t] = "malloc" /\ size >= newsize[t]
    /\ pc' = [pc EXCEPT ![t] = "free"]
    /\ UNCHANGED <<size, load, ents, call, newsize, answer>>

ResizeFails(t) ==
    /\ pc[t] = "malloc" /\ size < newsize[t]
    /\ pc' = [pc EXCEPT ![t] = "idle"]
    /\ call' = [call EXCEPT ![t] = NoCall]
    /\ newsize' = [newsize EXCEPT ![t] = 0]
    /\ UNCHANGED <<size, load, ents, answer>>

\* Mutant: the load after a resize is one too low.
ResizeStale(t) ==
    /\ pc[t] = "malloc" /\ size < newsize[t]
    /\ size' = newsize[t]
    /\ ents' = Rehash(newsize[t])
    /\ load' = Cardinality({i \in Slots(size) : ents[i] # Empty}) - 1
    /\ pc' = [pc EXCEPT ![t] = "free"]
    /\ UNCHANGED <<call, newsize, answer>>
Resize(t) ==
    /\ pc[t] = "malloc" /\ size < newsize[t]
    /\ size' = newsize[t]
    /\ ents' = Rehash(newsize[t])
    /\ load' = Cardinality({i \in Slots(size) : ents[i] # Empty})
    /\ pc' = [pc EXCEPT ![t] = "free"]
    /\ UNCHANGED <<call, newsize, answer>>

(* Having freed the array that is not needed, without the lock, it inserts.*)
InsertLate(t) ==
    /\ pc[t] = "free"
    /\ Insert(t, call[t].key, call[t].val)
    /\ pc' = [pc EXCEPT ![t] = "idle"]
    /\ call' = [call EXCEPT ![t] = NoCall]
    /\ newsize' = [newsize EXCEPT ![t] = 0]
    /\ UNCHANGED size

Next ==
    \E t \in Threads :
        \/ AlreadyResized(t) \/ ResizeFails(t) \/ Resize(t) \/ InsertLate(t)
        \/ \E k \in Keys : Remove(t, k)
        \/ \E k \in Keys : \E v \in ValsOf(k) : InsertNow(t, k, v) \/ StartResize(t, k, v)
        \/ \E gone \in Selections : Filter(t, gone)

Spec == Init /\ [][Next]_vars

-----------------------------------------------------------------------------
(* The types: table->load never leaves 0..size, whichever thread resizes.  *)
TypeOK ==
    /\ size \in Nat /\ load \in 0..size
    /\ ents \in [Slots(size) -> Entry \cup {Empty}]
    /\ pc \in [Threads -> {"idle", "malloc", "free"}]
    /\ call \in [Threads -> Entry \cup {NoCall}]
    /\ newsize \in [Threads -> Nat]
    /\ answer \in [Threads -> Vals \cup {NoVal}]

(* The probe for every entry reaches it: neither a removal nor a resize    *)
(* leaves an empty slot between an entry and its home, and no key is there *)
(* twice.                                                                  *)
EntriesFound ==
    \A i \in Slots(size) : ents[i] # Empty => Probe(ents, size, ents[i].key) = i

(* The load counts the entries, and one slot at least stays empty, also    *)
(* when threads that waited in fz_resize_hash insert without looking at    *)
(* the load again: a probe always ends.                                    *)
ProbesEnd ==
    /\ load = Cardinality({i \in Slots(size) : ents[i] # Empty})
    /\ load < size

(* Between lock sections the table is sound: typed, every entry found from *)
(* its home, and never full.                                               *)
TableSound == TypeOK /\ EntriesFound /\ ProbesEnd

(* The table is a dictionary for the threads that share it, although an    *)
(* insertion that grows it takes three lock sections.                      *)
Contents == [k \in Keys |-> Find(k)]
Map == INSTANCE Dictionary WITH dict <- Contents
IsDictionary == Map!Spec
=============================================================================
