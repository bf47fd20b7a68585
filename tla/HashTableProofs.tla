-------------------------- MODULE HashTableProofs --------------------------
(***************************************************************************)
(* Theorems about HashTable, for any keys, hashes, values and sizes, and   *)
(* for any threads as long as there are not too many of them: every entry  *)
(* is found from its home, a slot stays empty, and the table is the        *)
(* dictionary that Dictionary describes.                                   *)
(*                                                                         *)
(* What makes a table sound is that the slots from the home of each entry  *)
(* up to it are full (Chained).  A removal breaks that for the entries     *)
(* beyond the hole and repairs it when it comes to an empty slot           *)
(* (Shifting); that it comes to one is what the load is for (LoadOK).      *)
(***************************************************************************)
EXTENDS HashTable, FiniteSetTheorems, TLAPS

\* A remainder is what it is for one turn of the array.
LEMMA Turn ==
    ASSUME NEW n \in Nat, n > 0, NEW a \in Nat
    PROVE  /\ a % n \in Slots(n)
           /\ a < n => a % n = a
           /\ n <= a /\ a < n + n => a % n = a - n
  <1>1. a % n \in Slots(n)
    BY DEF Slots
  <1>2. a < n => a % n = a
    OBVIOUS
  <1>3. n <= a /\ a < n + n => a % n = a - n
    OBVIOUS
  <1>. QED
    BY <1>1, <1>2, <1>3

\* What the two ends of a stretch of slots have to do with what lies between.
LEMMA Stretch ==
    ASSUME NEW n \in Nat,
           NEW a \in Slots(n), NEW b \in Slots(n), NEW c \in Slots(n), NEW d \in Slots(n)
    PROVE  /\ ~Moves(a, b, a)
           /\ a # b => Moves(a, a, b)
           /\ Moves(a, b, c) => a # c /\ b # c
           /\ Moves(a, b, c) /\ Moves(a, d, b) => Moves(a, d, c)
           /\ Moves(a, b, c) /\ Moves(b, d, c) => Moves(a, d, c)
           /\ a = b \/ Moves(a, c, b) \/ Moves(b, c, a)
           /\ Moves(a, b, c) /\ Moves(a, d, c) => Moves(a, b, d) \/ b = d \/ Moves(a, d, b)
  BY DEF Moves, Slots

-----------------------------------------------------------------------------
(* Probing.                                                                *)
Table(n) == [Slots(n) -> Entry \cup {Empty}]

LEMMA EmptyIs ==
    ASSUME NEW n \in Nat, NEW e \in Table(n), NEW i \in Slots(n)
    PROVE  /\ e[i] = Empty <=> e[i].key = NoVal
           /\ e[i] # Empty => e[i] \in Entry /\ e[i].key \in Keys
                              /\ e[i].val \in Vals /\ e[i].val # NoVal
                              /\ e[i] = [key |-> e[i].key, val |-> e[i].val]
           /\ Empty.key = NoVal /\ Empty.val = NoVal
  BY HashTableAssumption DEF Table, Entry, Empty

LEMMA HomeIs ==
    ASSUME NEW n \in Nat, n > 0, NEW k \in Keys
    PROVE  Home(k, n) \in Slots(n)
  BY Turn, HashTableAssumption DEF Home

\* Where the probe is after d slots, and how far it is from home to slot j.
LEMMA AtIs ==
    ASSUME NEW n \in Nat, n > 0, NEW k \in Keys, NEW d \in Slots(n)
    PROVE  /\ At(k, n, d) \in Slots(n)
           /\ At(k, n, d) = IF Home(k, n) + d < n THEN Home(k, n) + d ELSE Home(k, n) + d - n
  <1>1. Home(k, n) \in Slots(n)
    BY HomeIs
  <1>2. \A a \in Nat : a < n + n => a % n \in Slots(n) /\ a % n = IF a < n THEN a ELSE a - n
    BY Turn
  <1>. DEFINE h == Home(k, n)
  <1>3. h \in Nat /\ d \in Nat /\ h + d < n + n
    BY <1>1 DEF Slots
  <1>. HIDE DEF h
  <1>4. (h + d) % n \in Slots(n) /\ (h + d) % n = IF h + d < n THEN h + d ELSE h + d - n
    BY <1>2, <1>3
  <1>. QED
    BY <1>3, <1>4 DEF At, h

Apart(h, j, n) == IF h <= j THEN j - h ELSE j - h + n

LEMMA ApartIs ==
    ASSUME NEW n \in Nat, n > 0, NEW k \in Keys, NEW j \in Slots(n)
    PROVE  /\ Apart(Home(k, n), j, n) \in Slots(n)
           /\ At(k, n, Apart(Home(k, n), j, n)) = j
           /\ \A b \in Slots(n) : b < Apart(Home(k, n), j, n) <=> Moves(Home(k, n), At(k, n, b), j)
           /\ \A b \in Slots(n) : At(k, n, b) = j => b = Apart(Home(k, n), j, n)
  <1>. DEFINE h == Home(k, n)
              a == Apart(h, j, n)
  <1>1. h \in Slots(n)
    BY HomeIs
  <1>2. a \in Slots(n)
    BY <1>1 DEF Slots, Apart
  <1>3. \A b \in Slots(n) : At(k, n, b) = IF h + b < n THEN h + b ELSE h + b - n
    BY AtIs
  <1>. HIDE DEF h
  <1>4. At(k, n, a) = j
    BY <1>1, <1>2, <1>3 DEF Slots, Apart
  <1>5. \A b \in Slots(n) : b < a <=> Moves(h, At(k, n, b), j)
    BY <1>1, <1>3 DEF Slots, Apart, Moves
  <1>6. \A b \in Slots(n) : At(k, n, b) = j => b = a
    BY <1>1, <1>3 DEF Slots, Apart
  <1>. QED
    BY <1>2, <1>4, <1>5, <1>6 DEF h

\* The probe for k may end in slot j: it is its or empty, and no slot before it is.
Ends(e, n, k, j) ==
    /\ e[j].key \in {k, NoVal}
    /\ \A x \in Slots(n) : Moves(Home(k, n), x, j) => e[x].key \notin {k, NoVal}

\* There is one slot where the probe ends, when there is one,
LEMMA ProbeIs ==
    ASSUME NEW n \in Nat, n > 0, NEW e \in Table(n), NEW k \in Keys,
           NEW j \in Slots(n), Ends(e, n, k, j)
    PROVE  Probe(e, n, k) = j
  <1>. DEFINE h == Home(k, n)
              a == Apart(h, j, n)
              Q(d) == Stops(e, n, k, d) /\ \A b \in Slots(d) : ~Stops(e, n, k, b)
              c == CHOOSE d \in Slots(n) : Q(d)
  <1>1. a \in Slots(n) /\ At(k, n, a) = j
    BY ApartIs
  <1>2. \A b \in Slots(n) : At(k, n, b) \in Slots(n)
    BY AtIs
  <1>3. \A b \in Slots(n) : b < a => ~Stops(e, n, k, b)
    BY <1>2, ApartIs DEF Ends, Stops
  <1>4. Stops(e, n, k, a)
    BY <1>1 DEF Ends, Stops
  <1>5. Q(a)
    BY <1>1, <1>3, <1>4 DEF Slots
  <1>6. \A d \in Slots(n) : Q(d) => d = a
    BY <1>1, <1>3, <1>4 DEF Slots
  <1>. HIDE DEF a, Q
  <1>7. c = a
    BY <1>1, <1>5, <1>6
  <1>8. Probe(e, n, k) = At(k, n, c)
    BY DEF Probe, Q
  <1>. QED
    BY <1>1, <1>7, <1>8

\* A set of natural numbers that is not empty has a least element, which Min chooses.
LEMMA Least ==
    ASSUME NEW F \in SUBSET Nat, F # {}
    PROVE  Min(F) \in F /\ \A k \in F : Min(F) <= k
  <1>1. PICK j \in F : \A k \in F : ~(<<k, j>> \in OpToRel(<, Nat))
    BY ZenonT(20), NatLessThanWellFounded, WFMin
  <1>2. \A k \in F : ~(k < j)
    BY <1>1 DEF OpToRel
  <1>3. \A k \in F : j <= k
    BY <1>2
  <1>. QED
    BY <1>3 DEF Min

\* and there is one as long as a slot is empty.
LEMMA ProbeEnds ==
    ASSUME NEW n \in Nat, n > 0, NEW e \in Table(n), NEW k \in Keys,
           NEW z \in Slots(n), e[z] = Empty
    PROVE  Probe(e, n, k) \in Slots(n) /\ Ends(e, n, k, Probe(e, n, k))
  <1>. DEFINE h == Home(k, n)
              F == {d \in Slots(n) : Stops(e, n, k, d)}
              a == Min(F)
              j == At(k, n, a)
  <1>1. Apart(h, z, n) \in F
    <2>1. Apart(h, z, n) \in Slots(n) /\ At(k, n, Apart(h, z, n)) = z
      BY ApartIs
    <2>2. Stops(e, n, k, Apart(h, z, n))
      BY <2>1, EmptyIs DEF Stops
    <2>. QED
      BY <2>1, <2>2
  <1>2. F \in SUBSET Nat /\ F # {}
    BY <1>1 DEF Slots
  <1>. HIDE DEF F
  <1>3. a \in F /\ \A b \in F : a <= b
    BY <1>2, Least
  <1>. HIDE DEF a
  <1>4. a \in Slots(n) /\ Stops(e, n, k, a)
    BY <1>3 DEF F
  <1>5. j \in Slots(n)
    BY <1>4, AtIs
  <1>6. a = Apart(h, j, n)
    BY <1>4, <1>5, ApartIs
  <1>7. ASSUME NEW x \in Slots(n), Moves(h, x, j) PROVE e[x].key \notin {k, NoVal}
    <2>. DEFINE b == Apart(h, x, n)
    <2>1. b \in Slots(n) /\ At(k, n, b) = x
      BY ApartIs
    <2>2. b < a
      BY <1>5, <1>6, <1>7, <2>1, ApartIs
    <2>. HIDE DEF b
    <2>3. b \notin F
      BY <1>2, <1>3, <1>4, <2>1, <2>2 DEF Slots
    <2>. QED
      BY <2>1, <2>3 DEF F, Stops
  <1>8. Ends(e, n, k, j)
    BY <1>4, <1>7 DEF Ends, Stops
  <1>9. Probe(e, n, k) = j
    BY <1>5, <1>8, ProbeIs
  <1>. QED
    BY <1>5, <1>8, <1>9

-----------------------------------------------------------------------------
(* A table is in order when the slots from the home of each entry up to it *)
(* are full, and no key has two entries.                                   *)
Chained(e, n) ==
    \A i, x \in Slots(n) : e[i] # Empty /\ Moves(Home(e[i].key, n), x, i) => e[x] # Empty
Unique(e, n) == \A i, j \in Slots(n) : e[i] # Empty /\ e[i].key = e[j].key => i = j
HasRoom(e, n) == \E z \in Slots(n) : e[z] = Empty
Good(e, n) == e \in Table(n) /\ Chained(e, n) /\ Unique(e, n)

\* The entries in it, and those among them with a key in G.
Stored(e, n) == {e[i] : i \in Slots(n)} \ {Empty}
Picked(e, n, G) == {s \in Stored(e, n) : s.key \in G}

LEMMA StoredIs ==
    ASSUME NEW n \in Nat, NEW e \in Table(n)
    PROVE  /\ Stored(e, n) \subseteq Entry
           /\ \A s \in Stored(e, n) : s.key \in Keys /\ s.val \in Vals /\ s.val # NoVal
           /\ \A s \in Stored(e, n) : \E i \in Slots(n) : e[i] = s /\ e[i] # Empty
           /\ \A i \in Slots(n) : e[i] # Empty => e[i] \in Stored(e, n)
           /\ Unique(e, n) => \A s, r \in Stored(e, n) : s.key = r.key => s = r
  <1>1. \A s \in Stored(e, n) : \E i \in Slots(n) : e[i] = s /\ e[i] # Empty
    BY DEF Stored
  <1>2. \A i \in Slots(n) : e[i] # Empty => e[i] \in Stored(e, n)
    BY DEF Stored
  <1>3. \A s \in Stored(e, n) : s \in Entry /\ s.key \in Keys /\ s.val \in Vals /\ s.val # NoVal
    <2>. SUFFICES ASSUME NEW s \in Stored(e, n)
                  PROVE  s \in Entry /\ s.key \in Keys /\ s.val \in Vals /\ s.val # NoVal
      OBVIOUS
    <2>1. PICK i \in Slots(n) : e[i] = s /\ e[i] # Empty
      BY <1>1
    <2>. QED
      BY <2>1, EmptyIs
  <1>4. Unique(e, n) => \A s, r \in Stored(e, n) : s.key = r.key => s = r
    BY <1>1 DEF Unique
  <1>. QED
    BY <1>1, <1>2, <1>3, <1>4

\* There are as many slots with keys in G as there are such entries.
LEMMA AsMany ==
    ASSUME NEW n \in Nat, NEW e \in Table(n), Unique(e, n), NEW G \in SUBSET Keys
    PROVE  /\ IsFiniteSet(Picked(e, n, G))
           /\ Cardinality(Picked(e, n, G)) = Cardinality({i \in Slots(n) : e[i].key \in G})
           /\ IsFiniteSet({i \in Slots(n) : e[i].key \in G})
  <1>. DEFINE S == {i \in Slots(n) : e[i].key \in G}
              T == Picked(e, n, G)
              f == [i \in S |-> e[i]]
  <1>1. IsFiniteSet(S)
    <2>1. IsFiniteSet(0..(n - 1))
      BY FS_Interval
    <2>. QED
      BY <2>1, FS_Subset DEF Slots
  <1>2. \A i \in S : e[i] # Empty
    BY EmptyIs, HashTableAssumption
  <1>3. \A i \in S : f[i] \in T
    BY <1>2, StoredIs DEF Picked
  <1>4. \A i, j \in S : f[i] = f[j] => i = j
    BY <1>2 DEF Unique
  <1>5. \A s \in T : \E i \in S : f[i] = s
    BY StoredIs DEF Picked
  <1>. HIDE DEF S, T
  <1>6. f \in Bijection(S, T)
    BY <1>3, <1>4, <1>5, Zenon DEF Bijection, Injection, Surjection, IsInjective
  <1>7. ExistsBijection(S, T)
    BY <1>6 DEF ExistsBijection
  <1>. QED
    BY <1>1, <1>7, FS_Bijection DEF S, T

LEMMA AllOfThem ==
    ASSUME NEW n \in Nat, NEW e \in Table(n)
    PROVE  /\ Picked(e, n, Keys) = Stored(e, n)
           /\ {i \in Slots(n) : e[i].key \in Keys} = {i \in Slots(n) : e[i] # Empty}
  <1>1. Picked(e, n, Keys) = Stored(e, n)
    BY StoredIs DEF Picked
  <1>2. \A i \in Slots(n) : e[i].key \in Keys <=> e[i] # Empty
    BY EmptyIs, HashTableAssumption
  <1>. QED
    BY <1>1, <1>2

LEMMA Load ==
    ASSUME NEW n \in Nat, NEW e \in Table(n), Unique(e, n)
    PROVE  /\ IsFiniteSet(Stored(e, n)) /\ Cardinality(Stored(e, n)) \in Nat
           /\ Cardinality(Stored(e, n)) = Cardinality({i \in Slots(n) : e[i] # Empty})
  <1>1. /\ IsFiniteSet(Picked(e, n, Keys))
        /\ Cardinality(Picked(e, n, Keys)) = Cardinality({i \in Slots(n) : e[i].key \in Keys})
    BY AsMany
  <1>. QED
    BY <1>1, AllOfThem, FS_CardinalityType

\* With fewer entries than slots one slot is empty.
LEMMA Room ==
    ASSUME NEW n \in Nat, NEW e \in Table(n), Unique(e, n), Cardinality(Stored(e, n)) < n
    PROVE  HasRoom(e, n)
  <1>1. SUFFICES ASSUME \A z \in Slots(n) : e[z] # Empty PROVE FALSE
    BY DEF HasRoom
  <1>2. {i \in Slots(n) : e[i] # Empty} = 0..(n - 1)
    BY <1>1 DEF Slots
  <1>3. Cardinality(0..(n - 1)) = n
    BY FS_Interval
  <1>. QED
    BY <1>2, <1>3, Load

-----------------------------------------------------------------------------
(* The probe in a table that is in order.                                  *)
LEMMA Present ==
    ASSUME NEW n \in Nat, n > 0, NEW e, Good(e, n), NEW i \in Slots(n), e[i] # Empty
    PROVE  Probe(e, n, e[i].key) = i
  <1>1. e \in Table(n) /\ e[i].key \in Keys
    BY EmptyIs DEF Good
  <1>2. \A x \in Slots(n) : Moves(Home(e[i].key, n), x, i) => x # i
    BY <1>1, HomeIs, Stretch
  <1>3. Ends(e, n, e[i].key, i)
    BY <1>1, <1>2, EmptyIs DEF Good, Chained, Unique, Ends
  <1>. QED
    BY <1>1, <1>3, ProbeIs

LEMMA Absent ==
    ASSUME NEW n \in Nat, n > 0, NEW e, Good(e, n), HasRoom(e, n), NEW k \in Keys,
           \A s \in Stored(e, n) : s.key # k
    PROVE  LET p == Probe(e, n, k) IN
           /\ p \in Slots(n) /\ e[p] = Empty
           /\ \A x \in Slots(n) : Moves(Home(k, n), x, p) => e[x] # Empty
  <1>1. e \in Table(n)
    BY DEF Good
  <1>2. PICK z \in Slots(n) : e[z] = Empty
    BY DEF HasRoom
  <1>. DEFINE p == Probe(e, n, k)
  <1>3. p \in Slots(n) /\ Ends(e, n, k, p)
    BY <1>1, <1>2, ProbeEnds
  <1>. HIDE DEF p
  <1>4. e[p] = Empty
    <2>1. e[p].key \in {k, NoVal}
      BY <1>3 DEF Ends
    <2>2. e[p] # Empty => e[p] \in Stored(e, n)
      BY <1>3 DEF Stored
    <2>3. e[p] # Empty => e[p].key # NoVal
      BY <1>1, <1>3, EmptyIs
    <2>. QED
      BY <2>1, <2>2, <2>3
  <1>5. \A x \in Slots(n) : Moves(Home(k, n), x, p) => e[x] # Empty
    BY <1>1, <1>3, EmptyIs DEF Ends
  <1>. QED
    BY <1>3, <1>4, <1>5 DEF p

\* What fz_hash_find returns.
LEMMA FindIs ==
    ASSUME NEW n \in Nat, n > 0, NEW e, Good(e, n), HasRoom(e, n), NEW k \in Keys
    PROVE  /\ \A s \in Stored(e, n) : s.key = k => e[Probe(e, n, k)] = s
           /\ (\A s \in Stored(e, n) : s.key # k) => e[Probe(e, n, k)] = Empty
           /\ Probe(e, n, k) \in Slots(n)
  <1>1. e \in Table(n)
    BY DEF Good
  <1>2. ASSUME NEW s \in Stored(e, n), s.key = k PROVE e[Probe(e, n, k)] = s /\ Probe(e, n, k) \in Slots(n)
    <2>1. PICK i \in Slots(n) : e[i] = s /\ e[i] # Empty
      BY <1>1, StoredIs
    <2>. QED
      BY <1>2, <2>1, Present
  <1>. QED
    BY <1>2, Absent

\* A new entry goes where the probe for its key ends.
LEMMA PlaceIs ==
    ASSUME NEW n \in Nat, n > 0, NEW e, Good(e, n), HasRoom(e, n), NEW k \in Keys, NEW v \in Vals,
           \A s \in Stored(e, n) : s.key # k
    PROVE  /\ Good(Place(e, n, k, v), n)
           /\ Stored(Place(e, n, k, v), n) = Stored(e, n) \cup {[key |-> k, val |-> v]}
  <1>. DEFINE p == Probe(e, n, k)
              r == [key |-> k, val |-> v]
              E == Place(e, n, k, v)
  <1>1. e \in Table(n) /\ Chained(e, n) /\ Unique(e, n)
    BY DEF Good
  <1>2. /\ p \in Slots(n) /\ e[p] = Empty
        /\ \A x \in Slots(n) : Moves(Home(k, n), x, p) => e[x] # Empty
    BY Absent
  <1>3. r \in Entry /\ r # Empty /\ r.key = k
    BY HashTableAssumption DEF Entry, Empty
  <1>4. E = [e EXCEPT ![p] = r]
    BY DEF Place
  <1>. HIDE DEF p, r, E
  <1>5. E \in Table(n) /\ E[p] = r /\ \A x \in Slots(n) : x # p => E[x] = e[x]
    BY <1>1, <1>2, <1>3, <1>4 DEF Table
  <1>6. Chained(E, n)
    BY <1>1, <1>2, <1>3, <1>5 DEF Chained
  <1>7. \A i \in Slots(n) : e[i].key # k
    BY <1>1, StoredIs, EmptyIs, HashTableAssumption
  <1>8. Unique(E, n)
    BY <1>1, <1>2, <1>3, <1>5, <1>7 DEF Unique
  <1>9. Stored(E, n) = Stored(e, n) \cup {r}
    BY <1>2, <1>3, <1>5 DEF Stored
  <1>. QED
    BY <1>5, <1>6, <1>8, <1>9 DEF E, Good, r

\* What holds of 0, and of k when it holds of k - 1, holds up to N.
LEMMA CountingUp ==
    ASSUME NEW N \in Nat, NEW G, 0 \in G, \A k \in 1 .. N : k - 1 \in G => k \in G
    PROVE  \A k \in 0 .. N : k \in G
  <1>. DEFINE Bad == {k \in 0 .. N : k \notin G}
  <1>1. Bad \in SUBSET Nat
    OBVIOUS
  <1>2. ASSUME Bad # {} PROVE FALSE
    <2>1. PICK k \in Bad : \A j \in Bad : k <= j
      <3>. HIDE DEF Bad
      <3>. QED
        BY <1>1, <1>2, Least
    <2>2. k \in 1 .. N /\ k - 1 \in 0 .. N /\ ~(k <= k - 1)
      BY <2>1
    <2>3. k - 1 \in G
      BY <2>1, <2>2
    <2>. QED
      BY <2>1, <2>2, <2>3
  <1>. QED
    BY <1>2

LoopOf(f, N, a, step) ==
    f = [i \in 0 .. N |-> IF i = 0 THEN a ELSE step[<<i, f[i - 1]>>]]

\* A loop that starts in B[0] and goes from B[i - 1] to B[i] has a value after
\* each of its steps, which is in B[i].
LEMMA Loop ==
    ASSUME NEW N \in Nat, NEW B, NEW a \in B[0], NEW step,
           \A i \in 1 .. N : \A s \in B[i - 1] : step[<<i, s>>] \in B[i]
    PROVE  \E f : LoopOf(f, N, a, step) /\ \A i \in 0 .. N : f[i] \in B[i]
  <1>. DEFINE Upto(k, f) == /\ DOMAIN f = 0 .. k
                            /\ f = [i \in 0 .. k |-> f[i]]
                            /\ f[0] = a
                            /\ \A i \in 1 .. k : f[i] = step[<<i, f[i - 1]>>]
                            /\ \A i \in 0 .. k : f[i] \in B[i]
              G == {k \in 0 .. N : \E f : Upto(k, f)}
  <1>1. 0 \in G
    <2>1. Upto(0, [i \in 0 .. 0 |-> a])
      OBVIOUS
    <2>. HIDE DEF Upto
    <2>. QED
      BY <2>1
  <1>2. ASSUME NEW k \in 1 .. N, k - 1 \in G PROVE k \in G
    <2>1. PICK f : Upto(k - 1, f)
      BY <1>2
    <2>. DEFINE g == [i \in 0 .. k |-> IF i = k THEN step[<<k, f[k - 1]>>] ELSE f[i]]
    <2>2. f[k - 1] \in B[k - 1]
      BY <2>1
    <2>3. /\ DOMAIN g = 0 .. k /\ g[k] = step[<<k, f[k - 1]>>]
          /\ \A i \in 0 .. k - 1 : g[i] = f[i]
      OBVIOUS
    <2>4. g = [i \in 0 .. k |-> g[i]]
      BY Zenon
    <2>. HIDE DEF g
    <2>5. \A i \in 1 .. k : g[i] = step[<<i, g[i - 1]>>]
      <3>. SUFFICES ASSUME NEW i \in 1 .. k PROVE g[i] = step[<<i, g[i - 1]>>]
        OBVIOUS
      <3>1. CASE i = k
        BY <2>3, <3>1
      <3>2. CASE i # k
        <4>1. i \in 1 .. k - 1 /\ i \in 0 .. k - 1 /\ i - 1 \in 0 .. k - 1
          BY <3>2
        <4>. QED
          BY <2>1, <2>3, <4>1
      <3>. QED
        BY <3>1, <3>2
    <2>6. \A i \in 0 .. k : g[i] \in B[i]
      <3>. SUFFICES ASSUME NEW i \in 0 .. k PROVE g[i] \in B[i]
        OBVIOUS
      <3>1. CASE i = k
        BY <1>2, <2>2, <2>3, <3>1
      <3>2. CASE i # k
        BY <2>1, <2>3, <3>2
      <3>. QED
        BY <3>1, <3>2
    <2>7. g[0] = a
      <3>1. 0 \in 0 .. k - 1
        OBVIOUS
      <3>. QED
        BY <2>1, <2>3, <3>1
    <2>8. Upto(k, g)
      BY <2>3, <2>4, <2>5, <2>6, <2>7
    <2>. HIDE DEF Upto
    <2>. QED
      BY <2>8
  <1>. HIDE DEF G
  <1>3. \A k \in 0 .. N : k \in G
    BY <1>1, <1>2, CountingUp
  <1>4. PICK f : Upto(N, f)
    BY <1>3 DEF G
  <1>5. \A i \in 0 .. N : f[i] = IF i = 0 THEN a ELSE step[<<i, f[i - 1]>>]
    <2>. SUFFICES ASSUME NEW i \in 0 .. N PROVE f[i] = IF i = 0 THEN a ELSE step[<<i, f[i - 1]>>]
      OBVIOUS
    <2>1. CASE i = 0
      BY <1>4, <2>1
    <2>2. CASE i # 0
      <3>1. i \in 1 .. N
        BY <2>2
      <3>. QED
        BY <1>4, <2>2, <3>1
    <2>. QED
      BY <2>1, <2>2
  <1>6. f = [i \in 0 .. N |-> IF i = 0 THEN a ELSE step[<<i, f[i - 1]>>]]
    BY <1>4, <1>5
  <1>. QED
    BY <1>4, <1>6 DEF LoopOf

-----------------------------------------------------------------------------
(* Removal.  While it moves entries back, one slot is a hole in the chains *)
(* of entries further on, but not of those between it and the slot looked  *)
(* at.                                                                     *)
Shifting(e, n, hole, look) ==
    /\ hole # look /\ e[hole] = Empty
    /\ Unique(e, n)
    /\ \A x \in Slots(n) :
           x # hole /\ Moves(hole, x, look) => e[x] # Empty /\ ~Moves(Home(e[x].key, n), hole, x)
    /\ \A i, x \in Slots(n) :
           e[i] # Empty /\ Moves(Home(e[i].key, n), x, i) /\ e[x] = Empty => x = hole

LEMMA SameEntries ==
    ASSUME NEW n, NEW e, NEW E,
           \A i \in Slots(n) : E[i] # Empty => \E j \in Slots(n) : e[j] = E[i],
           \A i \in Slots(n) : e[i] # Empty => \E j \in Slots(n) : E[j] = e[i]
    PROVE  Stored(E, n) = Stored(e, n)
  <1>1. \A s \in Stored(E, n) : s \in Stored(e, n)
    BY DEF Stored
  <1>2. \A s \in Stored(e, n) : s \in Stored(E, n)
    BY DEF Stored
  <1>. QED
    BY <1>1, <1>2

LEMMA EntryHome ==
    ASSUME NEW n \in Nat, NEW e \in Table(n), NEW i \in Slots(n), e[i] # Empty
    PROVE  Home(e[i].key, n) \in Slots(n)
  <1>1. n > 0
    BY DEF Slots
  <1>2. e[i].key \in Keys
    BY EmptyIs
  <1>. QED
    BY <1>1, <1>2, HomeIs

\* The slot after the one looked at, when it is not the last one left empty.
LEMMA NextSlot ==
    ASSUME NEW n \in Nat, NEW hole \in Slots(n), NEW look \in Slots(n), NEW z \in Slots(n),
           hole # look, look # z, Moves(look, z, hole)
    PROVE  LET next == (look + 1) % n IN
           /\ next \in Slots(n)
           /\ next # hole /\ Moves(next, z, hole)
           /\ next # look /\ Moves(next, z, look)
           /\ \A x \in Slots(n) : Moves(hole, x, next) => Moves(hole, x, look) \/ x = look
           /\ \A x \in Slots(n) : Moves(look, x, next) => x = look
           /\ Apart(next, z, n) = Apart(look, z, n) - 1
  <1>. DEFINE next == (look + 1) % n
  <1>1. n > 0 /\ look \in Nat /\ look + 1 \in Nat
    BY DEF Slots
  <1>2. next = IF look + 1 = n THEN 0 ELSE look + 1
    BY <1>1, Turn DEF Slots
  <1>. HIDE DEF next
  <1>3. next \in Slots(n)
    BY <1>1, <1>2 DEF Slots
  <1>4. next # hole /\ Moves(next, z, hole) /\ next # look /\ Moves(next, z, look)
    BY <1>1, <1>2 DEF Slots, Moves
  <1>5. \A x \in Slots(n) : Moves(hole, x, next) => Moves(hole, x, look) \/ x = look
    BY <1>1, <1>2 DEF Slots, Moves
  <1>6. \A x \in Slots(n) : Moves(look, x, next) => x = look
    BY <1>1, <1>2 DEF Slots, Moves
  <1>7. Apart(next, z, n) = Apart(look, z, n) - 1
    BY <1>1, <1>2 DEF Slots, Apart
  <1>. QED
    BY <1>3, <1>4, <1>5, <1>6, <1>7 DEF next

\* At the next empty slot no chain has a hole any more.
LEMMA ShiftEnds ==
    ASSUME NEW n \in Nat, NEW e \in Table(n), NEW hole \in Slots(n), NEW look \in Slots(n),
           Shifting(e, n, hole, look), e[look] = Empty
    PROVE  Good(e, n)
  <1>1. SUFFICES ASSUME NEW i \in Slots(n), NEW x \in Slots(n),
                        e[i] # Empty, Moves(Home(e[i].key, n), x, i), e[x] = Empty
                 PROVE  FALSE
    BY DEF Shifting, Good, Chained
  <1>. DEFINE h == Home(e[i].key, n)
  <1>2. h \in Slots(n)
    BY <1>1, EntryHome
  <1>. HIDE DEF h
  <1>3. x = hole /\ hole # look
    BY <1>1 DEF Shifting
  <1>4. Moves(h, hole, i) /\ i # hole /\ i # look
    BY <1>1, <1>3 DEF h, Shifting
  <1>5. ~Moves(hole, i, look)
    BY <1>4 DEF Shifting, h
  <1>6. Moves(h, look, i)
    BY <1>2, <1>3, <1>4, <1>5 DEF Moves, Slots
  <1>. QED
    BY <1>1, <1>3, <1>6 DEF Shifting, h

\* An entry whose chain has the hole is moved into it and leaves another hole,
LEMMA ShiftMoves ==
    ASSUME NEW n \in Nat, NEW e \in Table(n), NEW hole \in Slots(n), NEW look \in Slots(n),
           Shifting(e, n, hole, look), e[look] # Empty, NEW z \in Slots(n), e[z] = Empty,
           Moves(look, z, hole), Moves(Home(e[look].key, n), hole, look),
           NEW E, E = [e EXCEPT ![hole] = e[look], ![look] = Empty]
    PROVE  /\ E \in Table(n) /\ Stored(E, n) = Stored(e, n) /\ E[z] = Empty
           /\ Shifting(E, n, look, (look + 1) % n)
  <1>. DEFINE next == (look + 1) % n
              h == Home(e[look].key, n)
  <1>1. hole # look /\ look # z /\ e[hole] = Empty /\ Unique(e, n)
    BY DEF Shifting
  <1>2. next \in Slots(n) /\ next # look /\ \A x \in Slots(n) : Moves(look, x, next) => x = look
    BY <1>1, NextSlot
  <1>3. hole # z /\ h \in Slots(n)
    <2>1. h \in Slots(n)
      BY EntryHome
    <2>2. hole # z
      BY DEF Moves, Slots
    <2>. QED
      BY <2>1, <2>2
  <1>. HIDE DEF next
  <1>4. /\ E \in Table(n) /\ E[hole] = e[look] /\ E[look] = Empty
        /\ \A x \in Slots(n) : x # hole /\ x # look => E[x] = e[x]
    BY <1>1 DEF Table
  <1>5. Stored(E, n) = Stored(e, n)
    <2>1. \A i \in Slots(n) : E[i] # Empty => \E j \in Slots(n) : e[j] = E[i]
      BY <1>1, <1>4
    <2>2. \A i \in Slots(n) : e[i] # Empty => \E j \in Slots(n) : E[j] = e[i]
      BY <1>1, <1>4
    <2>. QED
      BY ONLY <2>1, <2>2, SameEntries, Zenon
  <1>6. Unique(E, n)
    <2>. SUFFICES ASSUME NEW i \in Slots(n), NEW j \in Slots(n), E[i] # Empty, E[i].key = E[j].key
                  PROVE  i = j
      BY DEF Unique
    <2>. DEFINE Was(x) == IF x = hole THEN look ELSE x
    <2>1. i # look /\ E[j] # Empty
      <3>1. E[i].key # NoVal
        BY <1>4, EmptyIs
      <3>2. E[j].key # NoVal
        BY <3>1
      <3>3. E[j] # Empty
        BY <3>2 DEF Empty
      <3>. QED
        BY <1>4, <3>3
    <2>2. j # look
      BY <1>4, <2>1
    <2>3. E[i] = e[Was(i)] /\ E[j] = e[Was(j)] /\ Was(i) \in Slots(n) /\ Was(j) \in Slots(n)
      BY <1>4, <2>1, <2>2
    <2>4. Was(i) = Was(j)
      BY <1>1, <2>1, <2>3 DEF Unique
    <2>. QED
      BY <2>1, <2>2, <2>4
  <1>7. ASSUME NEW i \in Slots(n), NEW x \in Slots(n),
               E[i] # Empty, Moves(Home(E[i].key, n), x, i), E[x] = Empty, x # look
        PROVE  FALSE
    <2>1. i # look /\ x # hole /\ e[x] = Empty
      BY <1>1, <1>4, <1>7
    <2>2. CASE i = hole
      <3>1. Moves(h, x, hole)
        BY <1>4, <1>7, <2>2
      <3>2. Moves(h, x, look)
        BY <1>3, <3>1, Stretch
      <3>. QED
        BY <2>1, <3>2 DEF Shifting
    <2>3. CASE i # hole
      BY <1>4, <1>7, <2>1, <2>3 DEF Shifting
    <2>. QED
      BY <2>2, <2>3
  <1>8. Shifting(E, n, look, next)
    BY <1>2, <1>4, <1>6, <1>7 DEF Shifting
  <1>. QED
    BY <1>1, <1>3, <1>4, <1>5, <1>8 DEF next

\* and another entry stays.
LEMMA ShiftStays ==
    ASSUME NEW n \in Nat, NEW e \in Table(n), NEW hole \in Slots(n), NEW look \in Slots(n),
           Shifting(e, n, hole, look), e[look] # Empty, NEW z \in Slots(n), e[z] = Empty,
           Moves(look, z, hole), ~Moves(Home(e[look].key, n), hole, look)
    PROVE  Shifting(e, n, hole, (look + 1) % n)
  <1>. DEFINE next == (look + 1) % n
  <1>1. hole # look /\ look # z
    BY DEF Shifting
  <1>2. /\ next \in Slots(n) /\ next # hole
        /\ \A x \in Slots(n) : Moves(hole, x, next) => Moves(hole, x, look) \/ x = look
    BY <1>1, NextSlot
  <1>. HIDE DEF next
  <1>3. Shifting(e, n, hole, next)
    BY <1>2 DEF Shifting
  <1>. QED
    BY <1>3 DEF next

\* Where do_removal is after i rounds: a slot z that was empty still is, and it
\* comes closer with each round that moves on.
Looking(n) == [ents : Table(n), hole : Slots(n), look : Slots(n)]
Shifted(n, e, hole, z, i, s) ==
    /\ Shifting(s.ents, n, s.hole, s.look)
    /\ Stored(s.ents, n) = Stored(e, n) \ {e[hole]}
    /\ s.ents[z] = Empty /\ Moves(s.look, z, s.hole)
    /\ s.ents[s.look] = Empty \/ Apart(s.look, z, n) + i <= n - 2

LEMMA ShiftIs ==
    ASSUME NEW n \in Nat, NEW e, NEW hole, NEW z \in Slots(n), NEW i \in 1 .. n - 1,
           NEW s \in Looking(n), Shifted(n, e, hole, z, i - 1, s), s.ents[s.look] # Empty
    PROVE  Shift(s, n) \in Looking(n) /\ Shifted(n, e, hole, z, i, Shift(s, n))
  <1>. DEFINE next == (s.look + 1) % n
              c == Home(s.ents[s.look].key, n)
              E == [s.ents EXCEPT ![s.hole] = s.ents[s.look], ![s.look] = Empty]
  <1>1. s.ents \in Table(n) /\ s.hole \in Slots(n) /\ s.look \in Slots(n)
    BY DEF Looking
  <1>2. /\ Shifting(s.ents, n, s.hole, s.look) /\ s.ents[z] = Empty /\ Moves(s.look, z, s.hole)
        /\ Stored(s.ents, n) = Stored(e, n) \ {e[hole]}
        /\ Apart(s.look, z, n) + (i - 1) <= n - 2
        /\ s.hole # s.look /\ s.look # z
    BY DEF Shifted, Shifting
  <1>3. /\ next \in Slots(n) /\ Moves(next, z, s.hole) /\ Moves(next, z, s.look)
        /\ Apart(next, z, n) = Apart(s.look, z, n) - 1
    BY <1>1, <1>2, NextSlot
  <1>4. Apart(next, z, n) + i <= n - 2
    <2>1. Apart(s.look, z, n) \in Int
      BY <1>1 DEF Apart, Slots
    <2>. HIDE DEF next
    <2>. QED
      BY <1>2, <1>3, <2>1
  <1>5. CASE Moves(c, s.hole, s.look)
    <2>1. /\ E \in Table(n) /\ Stored(E, n) = Stored(s.ents, n) /\ E[z] = Empty
          /\ Shifting(E, n, s.look, next)
      BY <1>1, <1>2, <1>5, ShiftMoves
    <2>2. Shift(s, n) = [ents |-> E, hole |-> s.look, look |-> next]
      BY <1>5 DEF Shift
    <2>. HIDE DEF E, next
    <2>. QED
      BY <1>1, <1>2, <1>3, <1>4, <2>1, <2>2 DEF Looking, Shifted
  <1>6. CASE ~Moves(c, s.hole, s.look)
    <2>1. Shifting(s.ents, n, s.hole, next)
      BY <1>1, <1>2, <1>6, ShiftStays
    <2>2. Shift(s, n) = [s EXCEPT !.look = next]
      BY <1>6 DEF Shift
    <2>. HIDE DEF next
    <2>3. Shift(s, n) = [ents |-> s.ents, hole |-> s.hole, look |-> next]
      BY <2>2 DEF Looking
    <2>. QED
      BY <1>1, <1>2, <1>3, <1>4, <2>1, <2>3 DEF Looking, Shifted
  <1>. QED
    BY <1>5, <1>6

LEMMA ShiftStarts ==
    ASSUME NEW n \in Nat, NEW e, Good(e, n), NEW hole \in Slots(n), e[hole] # Empty,
           NEW z \in Slots(n), e[z] = Empty,
           NEW s, s = [ents |-> [e EXCEPT ![hole] = Empty], hole |-> hole, look |-> (hole + 1) % n]
    PROVE  s \in Looking(n) /\ Shifted(n, e, hole, z, 0, s)
  <1>. DEFINE E == [e EXCEPT ![hole] = Empty]
              look == (hole + 1) % n
  <1>1. e \in Table(n) /\ Chained(e, n) /\ Unique(e, n)
    BY DEF Good
  <1>2. /\ E \in Table(n) /\ E[hole] = Empty
        /\ \A x \in Slots(n) : x # hole => E[x] = e[x]
    BY <1>1 DEF Table
  <1>3. hole # z /\ n > 0 /\ hole + 1 \in Nat
    BY DEF Slots
  <1>4. look = IF hole + 1 = n THEN 0 ELSE hole + 1
    BY <1>3, Turn DEF Slots
  <1>. HIDE DEF look, E
  <1>5. /\ look \in Slots(n) /\ hole # look /\ Moves(look, z, hole)
        /\ Apart(look, z, n) <= n - 2
        /\ \A x \in Slots(n) : Moves(hole, x, look) => x = hole
    BY <1>3, <1>4 DEF Slots, Moves, Apart
  <1>6. Unique(E, n)
    BY <1>1, <1>2, EmptyIs DEF Unique
  <1>7. \A i, x \in Slots(n) :
            E[i] # Empty /\ Moves(Home(E[i].key, n), x, i) /\ E[x] = Empty => x = hole
    BY <1>1, <1>2 DEF Chained
  <1>8. Shifting(E, n, hole, look)
    BY <1>2, <1>5, <1>6, <1>7 DEF Shifting
  <1>9. Stored(E, n) = Stored(e, n) \ {e[hole]}
    <2>1. \A i \in Slots(n) : e[i] = e[hole] => i = hole
      BY <1>1 DEF Unique
    <2>2. \A r \in Stored(E, n) : r \in Stored(e, n) \ {e[hole]}
      BY <1>2, <2>1 DEF Stored
    <2>3. \A r \in Stored(e, n) \ {e[hole]} : r \in Stored(E, n)
      BY <1>2 DEF Stored
    <2>. QED
      BY <2>2, <2>3
  <1>10. s = [ents |-> E, hole |-> hole, look |-> look] /\ E[z] = Empty
    BY <1>2, <1>3 DEF E, look
  <1>11. Apart(look, z, n) + 0 <= n - 2
    BY <1>3, <1>4, <1>5 DEF Apart, Slots
  <1>12. s.ents = E /\ s.hole = hole /\ s.look = look
    BY <1>10
  <1>13. s \in Looking(n)
    BY ONLY <1>2, <1>5, <1>10, Zenon DEF Looking
  <1>14. Shifted(n, e, hole, z, 0, s)
    BY ONLY <1>5, <1>8, <1>9, <1>10, <1>11, <1>12 DEF Shifted
  <1>. QED
    BY <1>13, <1>14

\* The entry in the hole is gone, and the rest are in order.
LEMMA RemovedIs ==
    ASSUME NEW n \in Nat, NEW e, Good(e, n), HasRoom(e, n), NEW hole \in Slots(n), e[hole] # Empty
    PROVE  /\ Good(Removed(e, n, hole), n)
           /\ Stored(Removed(e, n, hole), n) = Stored(e, n) \ {e[hole]}
  <1>. DEFINE a == [ents |-> [e EXCEPT ![hole] = Empty], hole |-> hole, look |-> (hole + 1) % n]
              Next1(s) == IF s.ents[s.look] = Empty THEN s ELSE Shift(s, n)
              Rec(u) == u = [i \in Slots(n) |-> IF i = 0 THEN a ELSE Next1(u[i - 1])]
              run == CHOOSE u : Rec(u)
  <1>1. PICK z \in Slots(n) : e[z] = Empty
    BY DEF HasRoom
  <1>. DEFINE N == n - 1
  <1>2. N \in Nat /\ Slots(n) = 0 .. N /\ n = N + 1
    BY DEF Slots
  <1>. HIDE DEF N
  <1>. DEFINE S(i) == {s \in Looking(n) : Shifted(n, e, hole, z, i, s)}
              B == [i \in 0 .. N |-> S(i)]
              step == [x \in (1 .. N) \X Looking(n) |-> Next1(x[2])]
  <1>3. a \in S(0)
    BY <1>1, ShiftStarts
  <1>4. ASSUME NEW i \in 1 .. N, NEW s \in S(i - 1) PROVE Next1(s) \in S(i)
    <2>1. s \in Looking(n) /\ Shifted(n, e, hole, z, i - 1, s)
      OBVIOUS
    <2>2. CASE s.ents[s.look] = Empty
      BY <2>1, <2>2 DEF Shifted
    <2>3. CASE s.ents[s.look] # Empty
      <3>1. i \in 1 .. n - 1
        BY <1>2
      <3>2. Shift(s, n) \in Looking(n) /\ Shifted(n, e, hole, z, i, Shift(s, n))
        BY <2>1, <2>3, <3>1, ShiftIs
      <3>. QED
        BY <2>3, <3>2
    <2>. QED
      BY <2>2, <2>3
  <1>. HIDE DEF a, Next1
  <1>5. \A i \in 1 .. N : \A s \in S(i - 1) : step[<<i, s>>] = Next1(s)
    <2>. SUFFICES ASSUME NEW i \in 1 .. N, NEW s \in S(i - 1) PROVE step[<<i, s>>] = Next1(s)
      OBVIOUS
    <2>1. <<i, s>> \in (1 .. N) \X Looking(n)
      OBVIOUS
    <2>. QED
      BY <2>1, Zenon
  <1>. HIDE DEF S, step
  <1>6. /\ \A i \in 1 .. N : B[i - 1] = S(i - 1) /\ B[i] = S(i)
        /\ B[0] = S(0)
    BY <1>2
  <1>. HIDE DEF B
  <1>7. \A i \in 1 .. N : \A s \in B[i - 1] : step[<<i, s>>] \in B[i]
    <2>. SUFFICES ASSUME NEW i \in 1 .. N, NEW s \in B[i - 1] PROVE step[<<i, s>>] \in B[i]
      OBVIOUS
    <2>1. s \in S(i - 1) /\ B[i] = S(i)
      BY <1>6
    <2>2. step[<<i, s>>] = Next1(s)
      BY <1>5, <2>1
    <2>. QED
      BY <1>4, <2>1, <2>2
  <1>8. PICK f : LoopOf(f, N, a, step) /\ \A i \in 0 .. N : f[i] \in B[i]
    <2>1. a \in B[0]
      BY <1>3, <1>6
    <2>. QED
      BY ONLY <1>2, <1>7, <2>1, Loop, Zenon
  <1>9. Rec(f)
    <2>1. \A i \in 0 .. N :
              (IF i = 0 THEN a ELSE step[<<i, f[i - 1]>>]) = IF i = 0 THEN a ELSE Next1(f[i - 1])
      <3>. SUFFICES ASSUME NEW i \in 0 .. N, i # 0 PROVE step[<<i, f[i - 1]>>] = Next1(f[i - 1])
        OBVIOUS
      <3>1. i \in 1 .. N /\ i - 1 \in 0 .. N
        BY <1>2
      <3>2. f[i - 1] \in S(i - 1)
        BY <1>6, <1>8, <3>1
      <3>. QED
        BY <1>5, <3>1, <3>2
    <2>2. f = [i \in 0 .. N |-> IF i = 0 THEN a ELSE Next1(f[i - 1])]
      BY <1>8, <2>1, Zenon DEF LoopOf
    <2>. QED
      BY <1>2, <2>2
  <1>10. Rec(run)
    BY <1>9
  <1>11. Removed(e, n, hole) = run[N].ents
    BY DEF Removed, Next1, a, N
  <1>. HIDE DEF run
  <1>12. \A i \in 0 .. N : run[i] = IF i = 0 THEN a ELSE Next1(run[i - 1])
    BY <1>2, <1>10
  <1>. DEFINE G == {i \in 0 .. N : run[i] \in S(i)}
  <1>13. 0 \in G
    BY <1>2, <1>3, <1>12
  <1>14. ASSUME NEW k \in 1 .. N, k - 1 \in G PROVE k \in G
    BY <1>4, <1>12, <1>14
  <1>. HIDE DEF G
  <1>15. \A i \in 0 .. N : i \in G
    BY <1>2, <1>13, <1>14, CountingUp
  <1>. DEFINE t == run[N]
  <1>16. t \in S(N)
    BY <1>2, <1>15 DEF G
  <1>. HIDE DEF t
  <1>17. /\ t \in Looking(n) /\ Shifting(t.ents, n, t.hole, t.look)
         /\ Stored(t.ents, n) = Stored(e, n) \ {e[hole]}
         /\ t.ents[t.look] = Empty \/ Apart(t.look, z, n) + N <= n - 2
    BY <1>16 DEF S, Shifted
  <1>18. t.ents \in Table(n) /\ t.hole \in Slots(n) /\ t.look \in Slots(n)
    BY <1>17 DEF Looking
  <1>19. t.ents[t.look] = Empty
    BY <1>2, <1>17, <1>18 DEF Apart, Slots
  <1>20. Good(t.ents, n)
    BY <1>17, <1>18, <1>19, ShiftEnds
  <1>. QED
    BY <1>11, <1>17, <1>20 DEF t

-----------------------------------------------------------------------------
(* Resizing.  What of the old array the new one has after i rounds.        *)
Front(i) == {ents[j] : j \in 0 .. i - 1} \ {Empty}

LEMMA AllSlots ==
    ASSUME NEW n \in Nat, NEW e \in Table(n), Unique(e, n)
    PROVE  Cardinality(Stored(e, n)) <= n
  <1>1. IsFiniteSet(0 .. n - 1) /\ Cardinality(0 .. n - 1) = n
    BY FS_Interval
  <1>2. {i \in Slots(n) : e[i] # Empty} \in SUBSET (0 .. n - 1)
    BY DEF Slots
  <1>3. Cardinality({i \in Slots(n) : e[i] # Empty}) <= n
    BY <1>1, <1>2, FS_Subset
  <1>. QED
    BY <1>3, Load

LEMMA RehashStep ==
    ASSUME size \in Nat, Good(ents, size), NEW n \in Nat, size < n, NEW i \in 1 .. size,
           NEW s, Good(s, n), Stored(s, n) = Front(i - 1)
    PROVE  LET r == IF ents[i - 1] = Empty THEN s
                    ELSE Place(s, n, ents[i - 1].key, ents[i - 1].val)
           IN  Good(r, n) /\ Stored(r, n) = Front(i)
  <1>1. ents \in Table(size) /\ Unique(ents, size) /\ s \in Table(n) /\ Unique(s, n)
    BY DEF Good
  <1>2. i - 1 \in Slots(size) /\ n > 0 /\ Slots(size) = 0 .. size - 1
    BY DEF Slots
  <1>3. Front(i) = (Front(i - 1) \cup {ents[i - 1]}) \ {Empty}
    <2>1. \A j \in Int : j \in 0 .. i - 1 <=> j \in 0 .. (i - 1) - 1 \/ j = i - 1
      BY <1>2
    <2>. QED
      BY <2>1 DEF Front
  <1>4. CASE ents[i - 1] = Empty
    <2>1. Front(i) = Front(i - 1)
      BY <1>3, <1>4 DEF Front
    <2>. QED
      BY <1>4, <2>1
  <1>5. CASE ents[i - 1] # Empty
    <2>. DEFINE k == ents[i - 1].key
                v == ents[i - 1].val
    <2>1. k \in Keys /\ v \in Vals /\ ents[i - 1] = [key |-> k, val |-> v]
      BY <1>1, <1>2, <1>5, EmptyIs
    <2>2. \A r \in Front(i - 1) : \E j \in Slots(size) : r = ents[j] /\ j # i - 1 /\ ents[j] # Empty
      BY <1>2 DEF Front
    <2>3. \A r \in Stored(s, n) : r.key # k
      BY <1>1, <1>2, <2>2 DEF Unique
    <2>4. HasRoom(s, n)
      <3>1. Front(i - 1) \in SUBSET Stored(ents, size)
        BY <2>2 DEF Stored
      <3>2. Cardinality(Front(i - 1)) <= Cardinality(Stored(ents, size))
        BY <1>1, <3>1, Load, FS_Subset
      <3>3. Cardinality(Stored(s, n)) \in Nat /\ Cardinality(Stored(ents, size)) \in Nat
        BY <1>1, Load
      <3>4. Cardinality(Stored(ents, size)) <= size
        BY <1>1, AllSlots
      <3>5. Cardinality(Stored(s, n)) < n
        BY <3>2, <3>3, <3>4
      <3>. QED
        BY <1>1, <3>5, Room
    <2>. HIDE DEF k, v
    <2>5. /\ Good(Place(s, n, k, v), n)
          /\ Stored(Place(s, n, k, v), n) = Stored(s, n) \cup {[key |-> k, val |-> v]}
      BY <1>2, <2>1, <2>3, <2>4, PlaceIs
    <2>6. Front(i) = Front(i - 1) \cup {ents[i - 1]}
      BY <1>3, <1>5 DEF Front
    <2>. QED
      BY <1>5, <2>1, <2>5, <2>6 DEF k, v
  <1>. QED
    BY <1>4, <1>5

\* The larger array has the same entries, in order.
LEMMA RehashIs ==
    ASSUME size \in Nat, Good(ents, size), NEW n \in Nat, size < n
    PROVE  Good(Rehash(n), n) /\ Stored(Rehash(n), n) = Stored(ents, size)
  <1>. DEFINE a == [j \in Slots(n) |-> Empty]
              Next1(i, s) == IF ents[i - 1] = Empty THEN s
                             ELSE Place(s, n, ents[i - 1].key, ents[i - 1].val)
              Rec(u) == u = [i \in 0 .. size |->
                               IF i = 0 THEN a
                               ELSE IF ents[i - 1] = Empty THEN u[i - 1]
                               ELSE Place(u[i - 1], n, ents[i - 1].key, ents[i - 1].val)]
              new == CHOOSE u : Rec(u)
              S(i) == {s \in Table(n) : Good(s, n) /\ Stored(s, n) = Front(i)}
              B == [i \in 0 .. size |-> S(i)]
              step == [x \in (1 .. size) \X Table(n) |-> Next1(x[1], x[2])]
  <1>1. a \in S(0)
    <2>1. a \in Table(n) /\ Good(a, n)
      BY DEF Table, Good, Chained, Unique
    <2>2. Stored(a, n) = {}
      BY DEF Stored
    <2>3. Front(0) = {}
      BY DEF Front
    <2>. QED
      BY <2>1, <2>2, <2>3
  <1>2. ASSUME NEW i \in 1 .. size, NEW s \in S(i - 1) PROVE Next1(i, s) \in S(i)
    <2>1. Good(Next1(i, s), n) /\ Stored(Next1(i, s), n) = Front(i)
      BY RehashStep
    <2>. QED
      BY <2>1 DEF Good
  <1>3. Rehash(n) = new[size]
    BY DEF Rehash
  <1>4. \A u : Rec(u) <=> u = [i \in 0 .. size |-> IF i = 0 THEN a ELSE Next1(i, u[i - 1])]
    OBVIOUS
  <1>. HIDE DEF a, Next1, Rec
  <1>5. \A i \in 1 .. size : \A s \in S(i - 1) : step[<<i, s>>] = Next1(i, s)
    <2>. SUFFICES ASSUME NEW i \in 1 .. size, NEW s \in S(i - 1) PROVE step[<<i, s>>] = Next1(i, s)
      OBVIOUS
    <2>1. <<i, s>> \in (1 .. size) \X Table(n)
      OBVIOUS
    <2>. QED
      BY <2>1
  <1>. HIDE DEF S, step
  <1>6. /\ \A i \in 1 .. size : B[i - 1] = S(i - 1) /\ B[i] = S(i)
        /\ B[0] = S(0)
    OBVIOUS
  <1>. HIDE DEF B
  <1>7. \A i \in 1 .. size : \A s \in B[i - 1] : step[<<i, s>>] \in B[i]
    <2>. SUFFICES ASSUME NEW i \in 1 .. size, NEW s \in B[i - 1] PROVE step[<<i, s>>] \in B[i]
      OBVIOUS
    <2>1. s \in S(i - 1) /\ B[i] = S(i)
      BY <1>6
    <2>2. step[<<i, s>>] = Next1(i, s)
      BY <1>5, <2>1
    <2>. QED
      BY <1>2, <2>1, <2>2
  <1>8. PICK f : LoopOf(f, size, a, step) /\ \A i \in 0 .. size : f[i] \in B[i]
    <2>1. a \in B[0]
      BY <1>1, <1>6
    <2>. QED
      BY <1>7, <2>1, Loop, Zenon
  <1>9. Rec(f)
    <2>1. \A i \in 0 .. size :
              (IF i = 0 THEN a ELSE step[<<i, f[i - 1]>>]) = IF i = 0 THEN a ELSE Next1(i, f[i - 1])
      <3>. SUFFICES ASSUME NEW i \in 0 .. size, i # 0 PROVE step[<<i, f[i - 1]>>] = Next1(i, f[i - 1])
        OBVIOUS
      <3>1. i \in 1 .. size /\ i - 1 \in 0 .. size
        OBVIOUS
      <3>2. f[i - 1] \in S(i - 1)
        BY <1>6, <1>8, <3>1
      <3>. QED
        BY <1>5, <3>1, <3>2
    <2>2. f = [i \in 0 .. size |-> IF i = 0 THEN a ELSE Next1(i, f[i - 1])]
      BY <1>8, <2>1, Zenon DEF LoopOf
    <2>. QED
      BY <1>4, <2>2
  <1>10. Rec(new)
    BY <1>9
  <1>. HIDE DEF new
  <1>11. \A i \in 0 .. size : new[i] = IF i = 0 THEN a ELSE Next1(i, new[i - 1])
    BY <1>4, <1>10
  <1>. DEFINE G == {i \in 0 .. size : new[i] \in S(i)}
  <1>12. 0 \in G
    BY <1>1, <1>11
  <1>13. ASSUME NEW k \in 1 .. size, k - 1 \in G PROVE k \in G
    BY <1>2, <1>11, <1>13
  <1>. HIDE DEF G
  <1>14. \A i \in 0 .. size : i \in G
    BY <1>12, <1>13, CountingUp
  <1>15. new[size] \in S(size)
    BY <1>14 DEF G
  <1>16. Front(size) = Stored(ents, size)
    BY DEF Front, Stored, Slots
  <1>. QED
    BY <1>3, <1>15, <1>16 DEF S

-----------------------------------------------------------------------------
(* Filtering.  What is left after i of the n removals.                     *)
Left(e, n) == Cardinality(Stored(e, n))
Kept(e, n, gone) == {r \in Stored(e, n) : r.key \notin gone}
Sifted(s, gone, i) ==
    /\ Good(s, size) /\ HasRoom(s, size)
    /\ Cardinality(Picked(s, size, gone)) = Cardinality(Picked(ents, size, gone)) - i
    /\ Left(s, size) = Left(ents, size) - i
    /\ Kept(s, size, gone) = Kept(ents, size, gone)

LEMMA SiftStep ==
    ASSUME size \in Nat, Good(ents, size), NEW gone \in SUBSET Keys,
           NEW i \in 1 .. Cardinality(Picked(ents, size, gone)), NEW s, Sifted(s, gone, i - 1)
    PROVE  Sifted(Removed(s, size, First(s, gone)), gone, i)
  <1>. DEFINE hole == First(s, gone)
              F == {j \in Slots(size) : s[j].key \in gone}
              r == Removed(s, size, hole)
              N == Cardinality(Picked(ents, size, gone))
  <1>1. s \in Table(size) /\ Unique(s, size) /\ Good(s, size) /\ HasRoom(s, size)
    BY DEF Sifted, Good
  <1>2. N \in Nat
    BY AsMany, FS_CardinalityType DEF Good
  <1>3. Cardinality(Picked(s, size, gone)) = N - (i - 1)
    BY DEF Sifted
  <1>. HIDE DEF N
  <1>4. IsFiniteSet(Picked(s, size, gone)) /\ Cardinality(F) = Cardinality(Picked(s, size, gone))
    BY <1>1, AsMany
  <1>5. F # {}
    <2>1. Cardinality(F) # 0
      BY <1>2, <1>3, <1>4 DEF N
    <2>. QED
      BY <2>1, FS_EmptySet
  <1>6. hole \in F
    <2>1. F \in SUBSET Nat
      BY DEF Slots
    <2>2. hole = Min(F)
      BY DEF First
    <2>. HIDE DEF F, hole
    <2>. QED
      BY <1>5, <2>1, <2>2, Least
  <1>. HIDE DEF hole
  <1>7. hole \in Slots(size) /\ s[hole].key \in gone
    BY <1>6
  <1>8. s[hole] # Empty /\ s[hole] \in Stored(s, size)
    <2>1. s[hole] # Empty
      BY <1>1, <1>7, EmptyIs, HashTableAssumption
    <2>. QED
      BY <1>7, <2>1 DEF Stored
  <1>9. Good(r, size) /\ Stored(r, size) = Stored(s, size) \ {s[hole]}
    BY <1>1, <1>7, <1>8, RemovedIs
  <1>. HIDE DEF r
  <1>10. Picked(r, size, gone) = Picked(s, size, gone) \ {s[hole]} /\ s[hole] \in Picked(s, size, gone)
    BY <1>7, <1>8, <1>9 DEF Picked
  <1>11. Cardinality(Picked(r, size, gone)) = N - i
    <2>1. Cardinality(Picked(r, size, gone)) = Cardinality(Picked(s, size, gone)) - 1
      BY <1>4, <1>10, FS_RemoveElement
    <2>. QED
      BY <1>2, <1>3, <2>1
  <1>12. Left(r, size) = Left(ents, size) - i /\ Left(r, size) < Left(s, size)
    <2>1. IsFiniteSet(Stored(s, size)) /\ Left(s, size) \in Nat
      BY <1>1, Load DEF Left
    <2>2. Left(r, size) = Left(s, size) - 1
      <3>1. Cardinality(Stored(s, size) \ {s[hole]}) = Cardinality(Stored(s, size)) - 1
        BY <1>8, <2>1, FS_RemoveElement
      <3>. QED
        BY <1>9, <3>1 DEF Left
    <2>3. Left(s, size) = Left(ents, size) - (i - 1) /\ Left(ents, size) \in Nat
      BY Load DEF Sifted, Left, Good
    <2>. QED
      BY <2>1, <2>2, <2>3
  <1>13. HasRoom(r, size)
    <2>1. Left(s, size) <= size
      BY <1>1, AllSlots DEF Left
    <2>2. Left(r, size) \in Nat /\ Left(s, size) \in Nat
      BY <1>1, <1>9, Load DEF Left, Good
    <2>3. Left(r, size) < size
      BY <1>12, <2>1, <2>2
    <2>. QED
      BY <1>9, <2>3, Room DEF Left, Good
  <1>14. Kept(r, size, gone) = Kept(ents, size, gone)
    BY <1>7, <1>9 DEF Kept, Sifted
  <1>. QED
    BY <1>9, <1>11, <1>12, <1>13, <1>14 DEF Sifted, r, N, hole

\* When the scan ends, the entries the callback picks are gone, and no others.
LEMMA FilterIs ==
    ASSUME size \in Nat, Good(ents, size), HasRoom(ents, size), NEW gone \in SUBSET Keys,
           NEW t, Filter(t, gone)
    PROVE  /\ Good(ents', size) /\ HasRoom(ents', size)
           /\ Stored(ents', size) = Kept(ents, size, gone)
           /\ load' = load - Cardinality(Picked(ents, size, gone))
           /\ Left(ents', size) = Left(ents, size) - Cardinality(Picked(ents, size, gone))
  <1>. DEFINE N == Cardinality({i \in Slots(size) : ents[i].key \in gone})
              Next1(s) == Removed(s, size, First(s, gone))
              Rec(u) == u = [i \in 0 .. N |-> IF i = 0 THEN ents ELSE Next1(u[i - 1])]
              scan == CHOOSE u : Rec(u)
              S(i) == {s \in Table(size) : Sifted(s, gone, i)}
              B == [i \in 0 .. N |-> S(i)]
              step == [x \in (1 .. N) \X Table(size) |-> Next1(x[2])]
  <1>1. N = Cardinality(Picked(ents, size, gone)) /\ N \in Nat
    BY AsMany, FS_CardinalityType DEF Good
  <1>2. ents' = scan[N] /\ load' = load - N
    BY DEF Filter
  <1>. HIDE DEF N, scan
  <1>3. ents \in S(0)
    <2>1. Left(ents, size) \in Nat
      BY Load DEF Good, Left
    <2>. QED
      BY <1>1, <2>1 DEF Sifted, Good
  <1>4. ASSUME NEW i \in 1 .. N, NEW s \in S(i - 1) PROVE Next1(s) \in S(i)
    <2>1. Sifted(Next1(s), gone, i)
      BY <1>1, SiftStep
    <2>. QED
      BY <2>1 DEF Sifted, Good
  <1>. HIDE DEF Next1
  <1>5. \A i \in 1 .. N : \A s \in S(i - 1) : step[<<i, s>>] = Next1(s)
    <2>. SUFFICES ASSUME NEW i \in 1 .. N, NEW s \in S(i - 1) PROVE step[<<i, s>>] = Next1(s)
      OBVIOUS
    <2>1. <<i, s>> \in (1 .. N) \X Table(size)
      OBVIOUS
    <2>. QED
      BY <2>1
  <1>. HIDE DEF S, step
  <1>6. /\ \A i \in 1 .. N : B[i - 1] = S(i - 1) /\ B[i] = S(i)
        /\ B[0] = S(0)
    BY <1>1
  <1>. HIDE DEF B
  <1>7. \A i \in 1 .. N : \A s \in B[i - 1] : step[<<i, s>>] \in B[i]
    <2>. SUFFICES ASSUME NEW i \in 1 .. N, NEW s \in B[i - 1] PROVE step[<<i, s>>] \in B[i]
      OBVIOUS
    <2>1. s \in S(i - 1) /\ B[i] = S(i)
      BY <1>6
    <2>2. step[<<i, s>>] = Next1(s)
      BY <1>5, <2>1
    <2>. QED
      BY <1>4, <2>1, <2>2
  <1>8. PICK f : LoopOf(f, N, ents, step) /\ \A i \in 0 .. N : f[i] \in B[i]
    <2>1. ents \in B[0]
      BY <1>3, <1>6
    <2>. QED
      BY ONLY <1>1, <1>7, <2>1, Loop, Zenon
  <1>9. Rec(f)
    <2>1. \A i \in 0 .. N :
              (IF i = 0 THEN ents ELSE step[<<i, f[i - 1]>>]) = IF i = 0 THEN ents ELSE Next1(f[i - 1])
      <3>. SUFFICES ASSUME NEW i \in 0 .. N, i # 0 PROVE step[<<i, f[i - 1]>>] = Next1(f[i - 1])
        OBVIOUS
      <3>1. i \in 1 .. N /\ i - 1 \in 0 .. N
        BY <1>1
      <3>2. f[i - 1] \in S(i - 1)
        BY <1>6, <1>8, <3>1
      <3>. QED
        BY <1>5, <3>1, <3>2
    <2>. QED
      BY <1>8, <2>1, Zenon DEF LoopOf
  <1>10. Rec(scan)
    BY <1>9 DEF scan
  <1>11. \A i \in 0 .. N : scan[i] = IF i = 0 THEN ents ELSE Next1(scan[i - 1])
    BY <1>10
  <1>. DEFINE G == {i \in 0 .. N : scan[i] \in S(i)}
  <1>12. 0 \in G
    BY <1>1, <1>3, <1>11
  <1>13. ASSUME NEW k \in 1 .. N, k - 1 \in G PROVE k \in G
    BY <1>4, <1>11, <1>13
  <1>. HIDE DEF G
  <1>14. \A i \in 0 .. N : i \in G
    BY <1>1, <1>12, <1>13, CountingUp
  <1>15. Sifted(ents', gone, N)
    BY <1>1, <1>2, <1>14 DEF G, S
  <1>16. Picked(ents', size, gone) = {}
    <2>1. Cardinality(Picked(ents', size, gone)) = 0
      BY <1>1, <1>15 DEF Sifted
    <2>2. IsFiniteSet(Picked(ents', size, gone))
      BY <1>15, AsMany DEF Sifted, Good
    <2>. QED
      BY <2>1, <2>2, FS_EmptySet
  <1>17. Stored(ents', size) = Kept(ents', size, gone)
    BY <1>16 DEF Kept, Picked
  <1>. QED
    BY <1>1, <1>2, <1>15, <1>17 DEF Sifted

-----------------------------------------------------------------------------
(* The invariant.  Threads that are going to insert without looking at the *)
(* load again are those that have a larger array, or will find one.        *)
FewThreads ==
    /\ IsFiniteSet(Threads)
    /\ Cardinality(Threads) < InitialSize * 2 - (InitialSize * 2 * 8) \div 10

Limit(n) == (n * 8) \div 10
Pending == {t \in Threads : pc[t] = "free" \/ (pc[t] = "malloc" /\ newsize[t] <= size)}

ThreadsOK ==
    /\ pc \in [Threads -> {"idle", "malloc", "free"}]
    /\ call \in [Threads -> Entry \cup {NoCall}]
    /\ newsize \in [Threads -> Nat]
    /\ answer \in [Threads -> Vals \cup {NoVal}]
    /\ \A t \in Threads :
           /\ pc[t] = "malloc" => newsize[t] <= size \/ newsize[t] = size * 2
           /\ pc[t] # "idle" => call[t].key \in Keys /\ call[t].val \in ValsOf(call[t].key)

LoadOK ==
    /\ load + Cardinality(Pending) <= Limit(size) + Cardinality(Threads)
    /\ size = InitialSize => load <= Limit(size) + 1 /\ Pending = {}

IInv ==
    /\ size \in Nat /\ (size = InitialSize \/ size >= InitialSize * 2)
    /\ Good(ents, size) /\ load = Left(ents, size)
    /\ ThreadsOK /\ LoadOK

LEMMA PendingIs ==
    ASSUME FewThreads
    PROVE  /\ IsFiniteSet(Pending) /\ Cardinality(Pending) \in Nat /\ Cardinality(Threads) \in Nat
           /\ Cardinality(Pending) <= Cardinality(Threads)
           /\ \A t \in Threads : t \notin Pending => Cardinality(Pending) < Cardinality(Threads)
  <1>1. Pending \in SUBSET Threads
    BY DEF Pending
  <1>2. IsFiniteSet(Threads) /\ IsFiniteSet(Pending) /\ Cardinality(Pending) <= Cardinality(Threads)
        /\ (Cardinality(Pending) = Cardinality(Threads) => Pending = Threads)
    BY <1>1, FS_Subset DEF FewThreads
  <1>3. Cardinality(Pending) \in Nat /\ Cardinality(Threads) \in Nat
    BY <1>2, FS_CardinalityType
  <1>. QED
    BY <1>2, <1>3

\* A slot stays empty.
LEMMA NeverFull ==
    ASSUME FewThreads, IInv
    PROVE  /\ size > 0 /\ load \in Nat /\ load < size
           /\ HasRoom(ents, size)
  <1>1. load \in Nat
    BY Load DEF IInv, Good, Left
  <1>2. load < size
    <2>1. CASE size = InitialSize
      BY <1>1, <2>1, HashTableAssumption DEF IInv, LoadOK, Limit
    <2>2. CASE size >= InitialSize * 2
      <3>1. load <= Limit(size) + Cardinality(Threads)
        BY <1>1, PendingIs DEF IInv, LoadOK, Limit
      <3>. QED
        BY <1>1, <2>2, <3>1, PendingIs, HashTableAssumption DEF IInv, FewThreads, Limit
    <2>. QED
      BY <2>1, <2>2 DEF IInv
  <1>3. HasRoom(ents, size)
    BY <1>1, <1>2, Room DEF IInv, Good, Left
  <1>. QED
    BY <1>1, <1>2, <1>3 DEF IInv

LEMMA Starts == ASSUME FewThreads, Init PROVE IInv
  <1>1. size = InitialSize /\ size \in Nat
    BY HashTableAssumption DEF Init
  <1>2. Good(ents, size) /\ Stored(ents, size) = {}
    BY DEF Init, Good, Table, Chained, Unique, Stored
  <1>3. Left(ents, size) = 0
    BY <1>2, FS_EmptySet DEF Left
  <1>4. ThreadsOK
    BY DEF ThreadsOK, Init, NoCall
  <1>5. Pending = {}
    BY DEF Pending, Init
  <1>6. LoadOK
    BY <1>1, <1>5, PendingIs, FS_EmptySet DEF LoadOK, Init, Limit
  <1>. QED
    BY <1>1, <1>2, <1>3, <1>4, <1>6 DEF IInv, Init

\* do_hash_insert.
LEMMA InsertIs ==
    ASSUME FewThreads, IInv, NEW t \in Threads, NEW k \in Keys, NEW v \in Vals, Insert(t, k, v)
    PROVE  /\ Good(ents', size) /\ load' = Left(ents', size)
           /\ load' = load \/ load' = load + 1
           /\ answer' = [answer EXCEPT ![t] = Find(k)]
           /\ answer' \in [Threads -> Vals \cup {NoVal}]
           /\ \/ Find(k) # NoVal /\ ents' = ents
              \/ /\ Find(k) = NoVal
                 /\ Stored(ents', size) = Stored(ents, size) \cup {[key |-> k, val |-> v]}
                 /\ \A s \in Stored(ents, size) : s.key # k
  <1>. DEFINE found == ents[Probe(ents, size, k)]
  <1>1. size \in Nat /\ size > 0 /\ Good(ents, size) /\ HasRoom(ents, size) /\ load \in Nat
        /\ ents \in Table(size) /\ load = Left(ents, size)
    BY NeverFull DEF IInv, Good
  <1>2. Probe(ents, size, k) \in Slots(size)
    BY <1>1, FindIs
  <1>3. /\ found = Empty <=> Find(k) = NoVal
        /\ found.val = Find(k) /\ Find(k) \in Vals \cup {NoVal}
    <2>1. found.val = Find(k)
      BY DEF Find
    <2>2. found # Empty => found.val \in Vals /\ found.val # NoVal
      BY <1>1, <1>2, EmptyIs
    <2>. QED
      BY <2>1, <2>2 DEF Empty
  <1>4. answer' = [answer EXCEPT ![t] = Find(k)]
    BY <1>3 DEF Insert
  <1>5. answer' \in [Threads -> Vals \cup {NoVal}]
    BY <1>3, <1>4 DEF IInv, ThreadsOK
  <1>6. CASE found # Empty
    <2>1. ents' = ents /\ load' = load
      BY <1>6 DEF Insert
    <2>. QED
      BY <1>1, <1>3, <1>4, <1>5, <1>6, <2>1
  <1>7. CASE found = Empty
    <2>1. ents' = Place(ents, size, k, v) /\ load' = load + 1
      BY <1>7 DEF Insert
    <2>2. \A s \in Stored(ents, size) : s.key # k
      <3>. SUFFICES ASSUME NEW s \in Stored(ents, size), s.key = k PROVE FALSE
        OBVIOUS
      <3>1. found = s
        BY <1>1, FindIs
      <3>. QED
        BY <1>7, <3>1 DEF Stored
    <2>. DEFINE r == [key |-> k, val |-> v]
    <2>3. Good(ents', size) /\ Stored(ents', size) = Stored(ents, size) \cup {r}
      BY <1>1, <2>1, <2>2, PlaceIs
    <2>4. r \notin Stored(ents, size)
      BY <2>2
    <2>5. Left(ents', size) = Left(ents, size) + 1
      <3>1. IsFiniteSet(Stored(ents, size))
        BY <1>1, Load DEF Good
      <3>. HIDE DEF r
      <3>2. Cardinality(Stored(ents, size) \cup {r}) = Cardinality(Stored(ents, size)) + 1
        BY <2>4, <3>1, FS_AddElement
      <3>. QED
        BY <2>3, <3>2 DEF Left
    <2>6. load' = Left(ents', size)
      BY <1>1, <2>1, <2>5
    <2>. QED
      BY <1>3, <1>4, <1>5, <1>7, <2>1, <2>2, <2>3, <2>6
  <1>. QED
    BY <1>6, <1>7

\* fz_hash_remove.
LEMMA RemoveIs ==
    ASSUME FewThreads, IInv, NEW t \in Threads, NEW k \in Keys, Remove(t, k)
    PROVE  /\ Good(ents', size) /\ load' = Left(ents', size) /\ load' = load - 1
           /\ \E s \in Stored(ents, size) : s.key = k /\ Stored(ents', size) = Stored(ents, size) \ {s}
  <1>. DEFINE at == Probe(ents, size, k)
              s == ents[at]
  <1>1. size \in Nat /\ size > 0 /\ Good(ents, size) /\ HasRoom(ents, size) /\ load \in Nat
        /\ ents \in Table(size) /\ load = Left(ents, size)
    BY NeverFull DEF IInv, Good
  <1>2. at \in Slots(size) /\ s # Empty
    BY <1>1, FindIs DEF Remove
  <1>3. s \in Stored(ents, size) /\ s.key = k
    <2>1. \E r \in Stored(ents, size) : r.key = k
      BY <1>1, <1>2, FindIs
    <2>. QED
      BY <1>1, <2>1, FindIs
  <1>4. ents' = Removed(ents, size, at) /\ load' = load - 1
    BY DEF Remove
  <1>5. Good(ents', size) /\ Stored(ents', size) = Stored(ents, size) \ {s}
    BY <1>1, <1>2, <1>4, RemovedIs
  <1>. HIDE DEF s
  <1>6. Left(ents', size) = Left(ents, size) - 1
    <2>1. IsFiniteSet(Stored(ents, size))
      BY <1>1, Load DEF Good
    <2>2. Cardinality(Stored(ents, size) \ {s}) = Cardinality(Stored(ents, size)) - 1
      BY <1>3, <2>1, FS_RemoveElement
    <2>. QED
      BY <1>5, <2>2 DEF Left
  <1>. QED
    BY <1>1, <1>3, <1>4, <1>5, <1>6

\* Insertions, removals and filters leave the other threads where they were,
\* and add at most one entry, which there was no more room for when it was late.
LEMMA StepInserts ==
    ASSUME FewThreads, IInv, NEW t \in Threads, NEW k \in Keys, NEW v \in ValsOf(k), InsertNow(t, k, v)
    PROVE  IInv'
  <1>1. v \in Vals
    BY HashTableAssumption
  <1>2. /\ Good(ents', size) /\ load' = Left(ents', size) /\ (load' = load \/ load' = load + 1)
        /\ answer' \in [Threads -> Vals \cup {NoVal}]
    BY <1>1, InsertIs DEF InsertNow
  <1>3. pc' = pc /\ call' = call /\ newsize' = newsize /\ size' = size /\ pc[t] = "idle" /\ load <= Limit(size)
    BY NeverFull DEF InsertNow, Crowded, Limit, IInv
  <1>4. ThreadsOK'
    BY <1>2, <1>3 DEF IInv, ThreadsOK
  <1>5. Pending' = Pending /\ t \notin Pending
    BY <1>3 DEF Pending
  <1>6. LoadOK'
    <2>1. Limit(size) \in Int /\ load \in Nat
      BY NeverFull DEF IInv, Limit
    <2>2. load' + Cardinality(Pending) <= Limit(size) + Cardinality(Threads)
      BY <1>2, <1>3, <1>5, <2>1, PendingIs
    <2>3. load' <= Limit(size) + 1
      BY <1>2, <1>3, <2>1
    <2>. QED
      BY <1>3, <1>5, <2>2, <2>3 DEF IInv, LoadOK, Limit
  <1>. QED
    BY <1>2, <1>3, <1>4, <1>6 DEF IInv

LEMMA Lighter ==
    ASSUME FewThreads, IInv, UNCHANGED <<size, pc, call, newsize, answer>>,
           Good(ents', size), load' = Left(ents', size), load' <= load
    PROVE  IInv'
  <1>1. ThreadsOK'
    BY DEF IInv, ThreadsOK
  <1>2. Pending' = Pending
    BY DEF Pending
  <1>3. LoadOK'
    <2>1. Limit(size) \in Int /\ load \in Nat
      BY NeverFull DEF IInv, Limit
    <2>0. load' \in Nat
      <3>1. Good(ents', size) /\ size \in Nat /\ load' = Left(ents', size)
        BY DEF IInv
      <3>. QED
        BY <3>1, Load DEF Good, Left
    <2>2. load' + Cardinality(Pending) <= Limit(size) + Cardinality(Threads)
      BY <2>0, <2>1, PendingIs DEF IInv, LoadOK
    <2>3. size = InitialSize => load' <= Limit(size) + 1
      BY <2>0, <2>1 DEF IInv, LoadOK
    <2>. QED
      BY <1>2, <2>2, <2>3 DEF IInv, LoadOK, Limit
  <1>. QED
    BY <1>1, <1>3 DEF IInv

LEMMA StepRemoves ==
    ASSUME FewThreads, IInv, NEW t \in Threads, NEW k \in Keys, Remove(t, k)
    PROVE  IInv'
  <1>1. Good(ents', size) /\ load' = Left(ents', size) /\ load' = load - 1
    BY RemoveIs
  <1>2. load' <= load /\ UNCHANGED <<size, pc, call, newsize, answer>>
    BY <1>1, NeverFull DEF Remove
  <1>. QED
    BY <1>1, <1>2, Lighter

LEMMA Sifts ==
    ASSUME FewThreads, IInv, NEW t \in Threads, NEW gone \in Selections, Filter(t, gone)
    PROVE  /\ Good(ents', size) /\ HasRoom(ents', size)
           /\ Stored(ents', size) = Kept(ents, size, gone)
           /\ load' = Left(ents', size) /\ load' <= load
           /\ UNCHANGED <<size, pc, call, newsize, answer>>
  <1>. DEFINE N == Cardinality(Picked(ents, size, gone))
  <1>1. /\ size \in Nat /\ Good(ents, size) /\ HasRoom(ents, size) /\ gone \in SUBSET Keys
        /\ load = Left(ents, size) /\ load \in Nat
    BY NeverFull, HashTableAssumption DEF IInv
  <1>2. N \in Nat
    BY <1>1, AsMany, FS_CardinalityType DEF Good
  <1>. HIDE DEF N
  <1>3. /\ Good(ents', size) /\ HasRoom(ents', size) /\ Stored(ents', size) = Kept(ents, size, gone)
        /\ load' = load - N /\ Left(ents', size) = Left(ents, size) - N
    BY <1>1, FilterIs DEF N
  <1>4. load' = Left(ents', size) /\ load' <= load
    BY <1>1, <1>2, <1>3
  <1>. QED
    BY <1>3, <1>4 DEF Filter

LEMMA StepStartsResize ==
    ASSUME FewThreads, IInv, NEW t \in Threads, NEW k \in Keys, NEW v \in ValsOf(k), StartResize(t, k, v)
    PROVE  IInv'
  <1>1. v \in Vals /\ size \in Nat /\ size > 0 /\ size * 2 \in Nat
    BY HashTableAssumption, NeverFull DEF IInv
  <1>2. ThreadsOK'
    <2>1. [key |-> k, val |-> v] \in Entry
      BY <1>1 DEF Entry
    <2>2. call' \in [Threads -> Entry \cup {NoCall}] /\ newsize' \in [Threads -> Nat]
          /\ pc' \in [Threads -> {"idle", "malloc", "free"}] /\ answer' \in [Threads -> Vals \cup {NoVal}]
      BY <1>1, <2>1 DEF IInv, ThreadsOK, StartResize
    <2>3. \A u \in Threads :
              /\ pc'[u] = "malloc" => newsize'[u] <= size \/ newsize'[u] = size * 2
              /\ pc'[u] # "idle" => call'[u].key \in Keys /\ call'[u].val \in ValsOf(call'[u].key)
      BY <1>1 DEF IInv, ThreadsOK, StartResize
    <2>. QED
      BY <2>2, <2>3 DEF ThreadsOK, StartResize
  <1>3. Pending' = Pending
    <2>1. \A u \in Threads : u # t => pc'[u] = pc[u] /\ newsize'[u] = newsize[u]
      BY DEF IInv, ThreadsOK, StartResize
    <2>2. pc'[t] = "malloc" /\ ~(newsize'[t] <= size) /\ pc[t] = "idle"
      BY <1>1 DEF IInv, ThreadsOK, StartResize
    <2>. QED
      BY <2>1, <2>2 DEF Pending, StartResize
  <1>4. LoadOK'
    BY <1>3 DEF IInv, LoadOK, Limit, StartResize
  <1>. QED
    BY <1>2, <1>4 DEF IInv, StartResize

LEMMA StepAlreadyResized ==
    ASSUME FewThreads, IInv, NEW t \in Threads, AlreadyResized(t)
    PROVE  IInv'
  <1>1. ThreadsOK'
    BY DEF IInv, ThreadsOK, AlreadyResized
  <1>2. Pending' = Pending
    BY DEF IInv, ThreadsOK, Pending, AlreadyResized
  <1>3. LoadOK'
    BY <1>2 DEF IInv, LoadOK, Limit, AlreadyResized
  <1>. QED
    BY <1>1, <1>3 DEF IInv, AlreadyResized

LEMMA StepResizeFails ==
    ASSUME FewThreads, IInv, NEW t \in Threads, ResizeFails(t)
    PROVE  IInv'
  <1>1. ThreadsOK'
    BY DEF IInv, ThreadsOK, ResizeFails, NoCall
  <1>2. Pending' = Pending
    BY DEF IInv, ThreadsOK, Pending, ResizeFails
  <1>3. LoadOK'
    BY <1>2 DEF IInv, LoadOK, Limit, ResizeFails
  <1>. QED
    BY <1>1, <1>3 DEF IInv, ResizeFails

LEMMA Resizes ==
    ASSUME FewThreads, IInv, NEW t \in Threads, Resize(t)
    PROVE  /\ size' = size * 2 /\ size' \in Nat /\ size < size'
           /\ Good(ents', size') /\ Stored(ents', size') = Stored(ents, size)
           /\ load' = load
  <1>1. size \in Nat /\ size > 0 /\ Good(ents, size) /\ load = Left(ents, size)
    BY NeverFull DEF IInv
  <1>2. size' = newsize[t] /\ newsize[t] = size * 2 /\ size < newsize[t] /\ newsize[t] \in Nat
    BY <1>1 DEF Resize, IInv, ThreadsOK
  <1>3. Good(ents', size') /\ Stored(ents', size') = Stored(ents, size)
    BY <1>1, <1>2, RehashIs DEF Resize
  <1>4. load' = load
    BY <1>1, Load DEF Resize, Left, Good
  <1>. QED
    BY <1>2, <1>3, <1>4

LEMMA StepResizes ==
    ASSUME FewThreads, IInv, NEW t \in Threads, Resize(t)
    PROVE  IInv'
  <1>1. /\ size' = size * 2 /\ size' \in Nat /\ size < size'
        /\ Good(ents', size') /\ Stored(ents', size') = Stored(ents, size)
        /\ load' = load
    BY Resizes
  <1>2. size \in Nat /\ load \in Nat /\ load < size /\ load = Left(ents, size)
        /\ size >= InitialSize
    BY NeverFull, HashTableAssumption DEF IInv
  <1>3. ThreadsOK'
    <2>1. \A u \in Threads : newsize[u] <= size => newsize[u] <= size'
      BY <1>1, <1>2 DEF IInv, ThreadsOK
    <2>2. \A u \in Threads : newsize[u] = size * 2 => newsize[u] <= size'
      BY <1>1, <1>2 DEF IInv, ThreadsOK
    <2>. QED
      BY <2>1, <2>2 DEF IInv, ThreadsOK, Resize
  <1>4. LoadOK'
    <2>1. Limit(size)' = (size' * 8) \div 10
      BY DEF Limit
    <2>2. Pending' \in SUBSET Threads
      BY DEF Pending
    <2>3. Cardinality(Pending') <= Cardinality(Threads) /\ Cardinality(Pending') \in Nat
      BY <2>2, FS_Subset, FS_CardinalityType DEF FewThreads
    <2>4. load <= (size' * 8) \div 10
      BY <1>1, <1>2
    <2>5. size' # InitialSize
      BY <1>1, <1>2, HashTableAssumption
    <2>6. load' + Cardinality(Pending') <= (size' * 8) \div 10 + Cardinality(Threads)
      BY <1>1, <1>2, <2>3, <2>4, PendingIs
    <2>. QED
      BY <2>1, <2>5, <2>6 DEF LoadOK
  <1>5. size' >= InitialSize * 2
    BY <1>1, <1>2, HashTableAssumption
  <1>. QED
    BY <1>1, <1>2, <1>3, <1>4, <1>5 DEF IInv, Left

LEMMA LateIs ==
    ASSUME IInv, NEW t \in Threads, InsertLate(t)
    PROVE  call[t].key \in Keys /\ call[t].val \in ValsOf(call[t].key) /\ call[t].val \in Vals
  BY HashTableAssumption DEF IInv, ThreadsOK, InsertLate

LEMMA StepInsertsLate ==
    ASSUME FewThreads, IInv, NEW t \in Threads, InsertLate(t)
    PROVE  IInv'
  <1>1. /\ Good(ents', size) /\ load' = Left(ents', size) /\ (load' = load \/ load' = load + 1)
        /\ answer' \in [Threads -> Vals \cup {NoVal}]
    BY LateIs, InsertIs DEF InsertLate
  <1>2. ThreadsOK'
    BY <1>1 DEF IInv, ThreadsOK, InsertLate, NoCall
  <1>3. t \in Pending /\ Pending' = Pending \ {t}
    BY DEF IInv, ThreadsOK, Pending, InsertLate
  <1>4. Cardinality(Pending') = Cardinality(Pending) - 1
    BY <1>3, PendingIs, FS_RemoveElement
  <1>5. LoadOK'
    <2>1. Limit(size) \in Int /\ load \in Nat /\ size' = size
      BY NeverFull DEF IInv, Limit, InsertLate
    <2>2. load' + Cardinality(Pending') <= Limit(size) + Cardinality(Threads)
      BY <1>1, <1>4, <2>1, PendingIs DEF IInv, LoadOK
    <2>3. size # InitialSize
      BY <1>3 DEF IInv, LoadOK
    <2>. QED
      BY <2>1, <2>2, <2>3 DEF LoadOK, Limit
  <1>. QED
    BY <1>1, <1>2, <1>5 DEF IInv, InsertLate

LEMMA Invariant == FewThreads /\ Spec => []IInv
  <1>1. FewThreads /\ Init => IInv
    BY Starts
  <1>2. FewThreads /\ IInv /\ [Next]_vars => IInv'
    <2>. SUFFICES ASSUME FewThreads, IInv, [Next]_vars PROVE IInv'
      OBVIOUS
    <2>1. ASSUME NEW t \in Threads, AlreadyResized(t) PROVE IInv'
      BY <2>1, StepAlreadyResized
    <2>2. ASSUME NEW t \in Threads, ResizeFails(t) PROVE IInv'
      BY <2>2, StepResizeFails
    <2>3. ASSUME NEW t \in Threads, Resize(t) PROVE IInv'
      BY <2>3, StepResizes
    <2>4. ASSUME NEW t \in Threads, InsertLate(t) PROVE IInv'
      BY <2>4, StepInsertsLate
    <2>5. ASSUME NEW t \in Threads, NEW k \in Keys, Remove(t, k) PROVE IInv'
      BY <2>5, StepRemoves
    <2>6. ASSUME NEW t \in Threads, NEW k \in Keys, NEW v \in ValsOf(k), InsertNow(t, k, v) PROVE IInv'
      BY <2>6, StepInserts
    <2>7. ASSUME NEW t \in Threads, NEW k \in Keys, NEW v \in ValsOf(k), StartResize(t, k, v) PROVE IInv'
      BY <2>7, StepStartsResize
    <2>8. ASSUME NEW t \in Threads, NEW gone \in Selections, Filter(t, gone) PROVE IInv'
      BY <2>8, Sifts, Lighter
    <2>9. CASE UNCHANGED vars
      BY <2>9 DEF vars, IInv, ThreadsOK, LoadOK, Pending, Limit
    <2>. QED
      BY <2>1, <2>2, <2>3, <2>4, <2>5, <2>6, <2>7, <2>8, <2>9 DEF Next
  <1>3. CASE FewThreads
    <2>1. Init => IInv
      BY <1>1, <1>3
    <2>2. IInv /\ [Next]_vars => IInv'
      BY <1>2, <1>3
    <2>. QED
      BY <2>1, <2>2, PTL DEF Spec
  <1>4. CASE ~FewThreads
    BY <1>4
  <1>. QED
    BY <1>3, <1>4

-----------------------------------------------------------------------------
LEMMA SoundFollows ==
    ASSUME FewThreads, IInv
    PROVE  TableSound
  <1>1. /\ size \in Nat /\ size > 0 /\ load \in Nat /\ load < size
        /\ Good(ents, size) /\ load = Left(ents, size) /\ ThreadsOK
    BY NeverFull DEF IInv
  <1>2. TypeOK
    BY <1>1 DEF TypeOK, Good, Table, ThreadsOK
  <1>3. EntriesFound
    BY <1>1, Present DEF EntriesFound
  <1>4. ProbesEnd
    BY <1>1, Load DEF ProbesEnd, Good, Left
  <1>. QED
    BY <1>2, <1>3, <1>4 DEF TableSound

(***************************************************************************)
(* Between lock sections the table is sound, with any keys, hashes and     *)
(* sizes: a removal and a resize leave every entry where the probe for its *)
(* key finds it, and a slot stays empty however many of the threads find,  *)
(* after fz_resize_hash, that others have used the room it made.           *)
(***************************************************************************)
THEOREM TableStaysSound == FewThreads /\ Spec => []TableSound
  <1>1. CASE FewThreads
    <2>1. IInv => TableSound
      BY <1>1, SoundFollows
    <2>. QED
      BY <2>1, Invariant, PTL
  <1>2. CASE ~FewThreads
    BY <1>2
  <1>. QED
    BY <1>1, <1>2

-----------------------------------------------------------------------------
(* The table as a dictionary.                                              *)
LEMMA FindsSame ==
    ASSUME NEW n \in Nat, n > 0, NEW e, Good(e, n), HasRoom(e, n),
           NEW m \in Nat, m > 0, NEW f, Good(f, m), HasRoom(f, m), NEW k \in Keys,
           \A r \in Stored(e, n) : r.key = k => r \in Stored(f, m),
           \A r \in Stored(f, m) : r.key = k => r \in Stored(e, n)
    PROVE  e[Probe(e, n, k)] = f[Probe(f, m, k)]
  <1>1. CASE \E r \in Stored(e, n) : r.key = k
    BY <1>1, FindIs
  <1>2. CASE \A r \in Stored(e, n) : r.key # k
    <2>1. \A r \in Stored(f, m) : r.key # k
      BY <1>2
    <2>. QED
      BY <1>2, <2>1, FindIs
  <1>. QED
    BY <1>1, <1>2

Sound(e, n) == n \in Nat /\ n > 0 /\ Good(e, n) /\ HasRoom(e, n)

LEMMA SoundIs == ASSUME FewThreads, IInv PROVE Sound(ents, size)
  BY NeverFull DEF Sound, IInv

LEMMA SoundNext == ASSUME FewThreads, IInv' PROVE Sound(ents', size')
  <1>1. Sound(ents, size)'
    BY SoundIs, PTL
  <1>. QED
    BY <1>1

LEMMA ContentsIs ==
    /\ Contents = [k \in Keys |-> ents[Probe(ents, size, k)].val]
    /\ Contents' = [k \in Keys |-> ents'[Probe(ents', size', k)].val]
    /\ \A k \in Keys : Contents[k] = Find(k)
  BY DEF Contents, Find

LEMMA Unmoved ==
    ASSUME Sound(ents, size), Sound(ents', size'), Stored(ents', size') = Stored(ents, size)
    PROVE  Contents' = Contents
  <1>1. \A k \in Keys : ents'[Probe(ents', size', k)] = ents[Probe(ents, size, k)]
    BY FindsSame DEF Sound
  <1>. QED
    BY <1>1, ContentsIs

LEMMA InsertMaps ==
    ASSUME FewThreads, IInv, IInv', NEW t \in Threads, NEW k \in Keys, NEW v \in Vals,
           Insert(t, k, v), size' = size
    PROVE  Map!Insert(t, k, v)
  <1>1. /\ answer' = [answer EXCEPT ![t] = Find(k)]
        /\ \/ Find(k) # NoVal /\ ents' = ents
           \/ /\ Find(k) = NoVal
              /\ Stored(ents', size) = Stored(ents, size) \cup {[key |-> k, val |-> v]}
              /\ \A s \in Stored(ents, size) : s.key # k
    BY InsertIs
  <1>2. Sound(ents, size) /\ Sound(ents', size)
    BY SoundIs, SoundNext
  <1>3. answer' = [answer EXCEPT ![t] = Contents[k]]
    BY <1>1, ContentsIs
  <1>4. CASE Find(k) # NoVal /\ ents' = ents
    <2>1. Contents' = Contents
      BY <1>4, ContentsIs
    <2>. QED
      BY <1>3, <1>4, <2>1, ContentsIs DEF Map!Insert
  <1>5. CASE /\ Find(k) = NoVal
             /\ Stored(ents', size) = Stored(ents, size) \cup {[key |-> k, val |-> v]}
             /\ \A s \in Stored(ents, size) : s.key # k
    <2>. DEFINE r == [key |-> k, val |-> v]
    <2>1. ents'[Probe(ents', size, k)] = r
      BY <1>2, <1>5, FindIs DEF Sound
    <2>2. \A j \in Keys : j # k => ents'[Probe(ents', size, j)] = ents[Probe(ents, size, j)]
      <3>. SUFFICES ASSUME NEW j \in Keys, j # k
                    PROVE  ents'[Probe(ents', size, j)] = ents[Probe(ents, size, j)]
        OBVIOUS
      <3>1. \A s \in Stored(ents', size) : s.key = j => s \in Stored(ents, size)
        BY <1>5
      <3>2. \A s \in Stored(ents, size) : s.key = j => s \in Stored(ents', size)
        BY <1>5
      <3>. QED
        BY <1>2, <3>1, <3>2, FindsSame DEF Sound
    <2>3. Contents' = [Contents EXCEPT ![k] = v]
      BY <2>1, <2>2, ContentsIs
    <2>. QED
      BY <1>3, <1>5, <2>3, ContentsIs DEF Map!Insert
  <1>. QED
    BY <1>1, <1>4, <1>5

LEMMA RemoveMaps ==
    ASSUME FewThreads, IInv, IInv', NEW t \in Threads, NEW k \in Keys, Remove(t, k)
    PROVE  Map!Remove(k)
  <1>1. PICK r \in Stored(ents, size) :
            r.key = k /\ Stored(ents', size) = Stored(ents, size) \ {r}
    BY RemoveIs
  <1>2. Sound(ents, size) /\ Sound(ents', size) /\ size' = size /\ answer' = answer
    BY SoundIs, SoundNext DEF Remove
  <1>3. \A s \in Stored(ents, size) : s.key = k => s = r
    BY <1>1, <1>2, StoredIs DEF Sound, Good
  <1>4. ents'[Probe(ents', size, k)].val = NoVal
    <2>1. ents'[Probe(ents', size, k)] = Empty
      BY <1>1, <1>2, <1>3, FindIs DEF Sound
    <2>. QED
      BY <2>1 DEF Empty
  <1>5. \A j \in Keys : j # k => ents'[Probe(ents', size, j)] = ents[Probe(ents, size, j)]
    <2>. SUFFICES ASSUME NEW j \in Keys, j # k
                  PROVE  ents'[Probe(ents', size, j)] = ents[Probe(ents, size, j)]
      OBVIOUS
    <2>1. \A s \in Stored(ents', size) : s.key = j => s \in Stored(ents, size)
      BY <1>1
    <2>2. \A s \in Stored(ents, size) : s.key = j => s \in Stored(ents', size)
      BY <1>1
    <2>. QED
      BY <1>2, <2>1, <2>2, FindsSame DEF Sound
  <1>6. Contents' = [Contents EXCEPT ![k] = NoVal]
    BY <1>2, <1>4, <1>5, ContentsIs
  <1>. QED
    BY <1>2, <1>6 DEF Map!Remove

LEMMA FilterMaps ==
    ASSUME FewThreads, IInv, NEW t \in Threads, NEW gone \in Selections, Filter(t, gone)
    PROVE  Map!Filter(gone)
  <1>1. Stored(ents', size) = Kept(ents, size, gone) /\ size' = size /\ answer' = answer
    BY Sifts
  <1>2. Sound(ents, size) /\ Sound(ents', size)
    BY SoundIs, Sifts DEF Sound
  <1>3. \A k \in Keys : k \in gone => ents'[Probe(ents', size, k)].val = NoVal
    <2>. SUFFICES ASSUME NEW k \in Keys, k \in gone PROVE ents'[Probe(ents', size, k)] = Empty
      BY DEF Empty
    <2>1. \A s \in Stored(ents', size) : s.key # k
      BY <1>1 DEF Kept
    <2>. QED
      BY <1>2, <2>1, FindIs DEF Sound
  <1>4. \A k \in Keys : k \notin gone => ents'[Probe(ents', size, k)] = ents[Probe(ents, size, k)]
    <2>. SUFFICES ASSUME NEW k \in Keys, k \notin gone
                  PROVE  ents'[Probe(ents', size, k)] = ents[Probe(ents, size, k)]
      OBVIOUS
    <2>1. \A s \in Stored(ents', size) : s.key = k => s \in Stored(ents, size)
      BY <1>1 DEF Kept
    <2>2. \A s \in Stored(ents, size) : s.key = k => s \in Stored(ents', size)
      BY <1>1 DEF Kept
    <2>. QED
      BY <1>2, <2>1, <2>2, FindsSame DEF Sound
  <1>5. Contents' = [k \in Keys |-> IF k \in gone THEN NoVal ELSE Contents[k]]
    BY <1>1, <1>3, <1>4, ContentsIs
  <1>. QED
    BY <1>1, <1>5 DEF Map!Filter

LEMMA InitMaps == ASSUME FewThreads, Init PROVE Map!Init
  <1>1. Sound(ents, size)
    BY Starts, SoundIs
  <1>2. Stored(ents, size) = {}
    BY DEF Init, Stored
  <1>3. \A k \in Keys : ents[Probe(ents, size, k)].val = NoVal
    BY <1>1, <1>2, FindIs DEF Sound, Empty
  <1>4. Contents = [k \in Keys |-> NoVal]
    BY <1>3, ContentsIs
  <1>. QED
    BY <1>4 DEF Map!Init, Init

LEMMA StepMaps ==
    ASSUME FewThreads, IInv, IInv', [Next]_vars
    PROVE  [Map!Next]_Map!vars
  <1>. USE DEF Map!vars
  <1>1. ASSUME NEW t \in Threads, AlreadyResized(t) \/ ResizeFails(t) PROVE UNCHANGED Map!vars
    BY <1>1, ContentsIs DEF AlreadyResized, ResizeFails
  <1>2. ASSUME NEW t \in Threads, NEW k \in Keys, NEW v \in ValsOf(k), StartResize(t, k, v)
        PROVE  UNCHANGED Map!vars
    BY <1>2, ContentsIs DEF StartResize
  <1>3. ASSUME NEW t \in Threads, Resize(t) PROVE UNCHANGED Map!vars
    <2>1. Sound(ents, size) /\ Sound(ents', size')
      BY SoundIs, SoundNext
    <2>2. Contents' = Contents
      BY <1>3, <2>1, Resizes, Unmoved
    <2>. QED
      BY <1>3, <2>2 DEF Resize
  <1>4. ASSUME NEW t \in Threads, InsertLate(t) PROVE Map!Next
    <2>1. Map!Insert(t, call[t].key, call[t].val)
      BY <1>4, LateIs, InsertMaps DEF InsertLate
    <2>. QED
      BY <1>4, <2>1, LateIs DEF Map!Next
  <1>5. ASSUME NEW t \in Threads, NEW k \in Keys, NEW v \in ValsOf(k), InsertNow(t, k, v)
        PROVE  Map!Next
    <2>1. v \in Vals
      BY HashTableAssumption
    <2>2. Map!Insert(t, k, v)
      BY <1>5, <2>1, InsertMaps DEF InsertNow
    <2>. QED
      BY <2>1, <2>2 DEF Map!Next
  <1>6. ASSUME NEW t \in Threads, NEW k \in Keys, Remove(t, k) PROVE Map!Next
    BY <1>6, RemoveMaps DEF Map!Next
  <1>7. ASSUME NEW t \in Threads, NEW gone \in Selections, Filter(t, gone) PROVE Map!Next
    BY <1>7, FilterMaps DEF Map!Next
  <1>8. CASE UNCHANGED vars
    BY <1>8, ContentsIs DEF vars
  <1>. QED
    BY <1>1, <1>2, <1>3, <1>4, <1>5, <1>6, <1>7, <1>8 DEF Next

(***************************************************************************)
(* The table is a dictionary for the threads that share it: a lock section *)
(* that inserts, removes or filters is a step of the dictionary, and the   *)
(* others, moving the entries to a larger array among them, change nothing *)
(* that a thread could find.                                               *)
(***************************************************************************)
THEOREM ActsAsDictionary == FewThreads /\ Spec => IsDictionary
  <1>1. CASE FewThreads
    <2>1. Init => Map!Init
      BY <1>1, InitMaps
    <2>2. IInv /\ IInv' /\ [Next]_vars => [Map!Next]_Map!vars
      BY <1>1, StepMaps
    <2>. QED
      BY <2>1, <2>2, <1>1, Invariant, PTL DEF Spec, IsDictionary, Map!Spec
  <1>2. CASE ~FewThreads
    BY <1>2
  <1>. QED
    BY <1>1, <1>2
=============================================================================
