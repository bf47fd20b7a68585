---------------------------- MODULE StoreProofs ----------------------------
(***************************************************************************)
(* Theorems about Store, for any threads, images, tiles, items, sizes and  *)
(* limits: the list and the hash table agree, no thread works on an item   *)
(* another one has freed, no item is lost, every critical section is a     *)
(* step of the reference counting protocol of Storable, no reaping is left *)
(* undone, and the size is that of what the list holds.                    *)
(***************************************************************************)
EXTENDS StoreInvariant, SequenceTheorems, FiniteSetTheorems, TLAPS

-----------------------------------------------------------------------------
\* What InOrder selects: the items of T in the list, each as often as it is there.
LEMMA InOrderIs ==
    ASSUME lru \in Seq(Ids), NEW T
    PROVE  /\ InOrder(T) \in Seq(Ids)
           /\ ToSet(InOrder(T)) = Listed \cap T
           /\ IsInjective(lru) => IsInjective(InOrder(T))
  <1>. DEFINE at == {i \in DOMAIN lru : lru[i] \in T}
              upTo(i) == {j \in at : j <= i}
              N == Cardinality(at)
              rank == [i \in at |-> Cardinality(upTo(i))]
              pos(n) == CHOOSE i \in at : Cardinality(upTo(i)) = n
  <1>1. at \subseteq 1 .. Len(lru) /\ Len(lru) \in Nat /\ DOMAIN lru = 1 .. Len(lru)
    OBVIOUS
  <1>2. IsFiniteSet(at) /\ N \in Nat
    <2>1. IsFiniteSet(1 .. Len(lru))
      BY <1>1, FS_Interval
    <2>2. at \in SUBSET (1 .. Len(lru))
      BY <1>1
    <2>3. IsFiniteSet(at)
      BY <2>1, <2>2, FS_Subset
    <2>. QED
      BY <2>3, FS_CardinalityType
  <1>3. \A i \in at : IsFiniteSet(upTo(i)) /\ rank[i] \in 1 .. N
    <2>1. SUFFICES ASSUME NEW i \in at PROVE IsFiniteSet(upTo(i)) /\ rank[i] \in 1 .. N
      OBVIOUS
    <2>2. upTo(i) \in SUBSET at /\ i \in upTo(i)
      BY <1>1
    <2>3. IsFiniteSet(upTo(i)) /\ Cardinality(upTo(i)) <= N
      BY <1>2, <2>2, FS_Subset
    <2>4. Cardinality(upTo(i)) \in Nat /\ Cardinality(upTo(i)) # 0
      BY <2>2, <2>3, FS_EmptySet, FS_CardinalityType
    <2>. QED
      BY <1>2, <2>3, <2>4
  <1>4. \A i, k \in at : i < k => rank[i] # rank[k]
    <2>1. SUFFICES ASSUME NEW i \in at, NEW k \in at, i < k, rank[i] = rank[k] PROVE FALSE
      OBVIOUS
    <2>2. upTo(i) \in SUBSET upTo(k) /\ k \in upTo(k) /\ k \notin upTo(i)
      BY <1>1, <2>1
    <2>3. Cardinality(upTo(k)) = Cardinality(upTo(i))
      BY <2>1
    <2>4. upTo(k) = upTo(i)
      BY <1>3, <2>2, <2>3, FS_Subset
    <2>. QED
      BY <2>2, <2>4
  <1>5. \A i, k \in at : rank[i] = rank[k] => i = k
    <2>1. SUFFICES ASSUME NEW i \in at, NEW k \in at, rank[i] = rank[k] PROVE i = k
      OBVIOUS
    <2>2. i < k \/ k < i \/ i = k
      BY <1>1
    <2>. QED
      BY <1>4, <2>1, <2>2
  <1>6. \A n \in 1 .. N : \E i \in at : rank[i] = n
    <2>1. rank \in Injection(at, 1 .. N)
      BY <1>3, <1>5 DEF Injection, IsInjective
    <2>2. IsFiniteSet(1 .. N) /\ Cardinality(1 .. N) = N
      BY <1>2, FS_Interval
    <2>3. rank \in Surjection(at, 1 .. N)
      BY <2>1, <2>2, FS_Injection
    <2>. QED
      BY <2>3 DEF Surjection
  <1>7. \A n \in 1 .. N : pos(n) \in at /\ rank[pos(n)] = n
    BY <1>6
  <1>8. \A i \in at : pos(rank[i]) = i
    BY <1>3, <1>5, <1>7
  <1>9. InOrder(T) = [n \in 1 .. N |-> lru[pos(n)]]
    BY DEF InOrder
  <1>. HIDE DEF rank, pos, upTo, N
  <1>10. InOrder(T) \in [1 .. N -> Ids]
    BY <1>1, <1>7, <1>9
  <1>11. InOrder(T) \in Seq(Ids)
    BY <1>2, <1>10
  <1>12. ToSet(InOrder(T)) = Listed \cap T
    <2>1. ASSUME NEW x \in ToSet(InOrder(T)) PROVE x \in Listed \cap T
      <3>1. PICK n \in 1 .. N : x = lru[pos(n)]
        BY <1>9 DEF ToSet
      <3>. QED
        BY <1>7, <3>1 DEF Listed, ToSet
    <2>2. ASSUME NEW x \in Listed \cap T PROVE x \in ToSet(InOrder(T))
      <3>1. PICK i \in at : x = lru[i]
        BY DEF Listed, ToSet
      <3>2. rank[i] \in 1 .. N /\ InOrder(T)[rank[i]] = x
        BY <1>3, <1>8, <1>9, <3>1
      <3>. QED
        BY <1>9, <3>2 DEF ToSet
    <2>. QED
      BY <2>1, <2>2
  <1>13. ASSUME IsInjective(lru) PROVE IsInjective(InOrder(T))
    <2>1. SUFFICES ASSUME NEW m \in 1 .. N, NEW n \in 1 .. N, InOrder(T)[m] = InOrder(T)[n]
                   PROVE  m = n
      BY <1>9 DEF IsInjective
    <2>2. lru[pos(m)] = lru[pos(n)]
      BY <1>9, <2>1
    <2>3. pos(m) = pos(n)
      BY <1>1, <1>7, <1>13, <2>2 DEF IsInjective
    <2>. QED
      BY <1>7, <2>3
  <1>. QED
    BY <1>11, <1>12, <1>13

\* What is left when some items go, and the list with one at its head.
LEMMA WithoutIs ==
    ASSUME lru \in Seq(Ids), NEW S
    PROVE  /\ Without(S) \in Seq(Ids)
           /\ ToSet(Without(S)) = Listed \ S
           /\ IsInjective(lru) => IsInjective(Without(S))
  <1>1. Listed \cap (Listed \ S) = Listed \ S
    OBVIOUS
  <1>. QED
    BY <1>1, InOrderIs DEF Without

LEMMA TouchIs ==
    ASSUME lru \in Seq(Ids), NEW id \in Ids
    PROVE  /\ Touch(id) \in Seq(Ids)
           /\ ToSet(Touch(id)) = Listed \cup {id}
           /\ IsInjective(lru) => IsInjective(Touch(id))
  <1>. DEFINE w == Without({id})
              s == <<id>> \o w
  <1>1. w \in Seq(Ids) /\ ToSet(w) = Listed \ {id} /\ (IsInjective(lru) => IsInjective(w))
    BY WithoutIs
  <1>. HIDE DEF w
  <1>2. /\ s \in Seq(Ids) /\ Len(s) = Len(w) + 1 /\ Len(w) \in Nat
        /\ s[1] = id /\ \A i \in 1 .. Len(w) : s[i + 1] = w[i]
    BY <1>1
  <1>. HIDE DEF s
  <1>3. \A i \in 1 .. Len(s) : i = 1 \/ (i - 1 \in 1 .. Len(w) /\ s[i] = w[i - 1])
    <2>1. \A i \in 1 .. Len(s) : i = 1 \/ (i - 1 \in 1 .. Len(w) /\ (i - 1) + 1 = i)
      BY <1>2
    <2>. QED
      BY <1>2, <2>1
  <1>4. DOMAIN s = 1 .. Len(s) /\ DOMAIN w = 1 .. Len(w)
    BY <1>1, <1>2
  <1>5. ToSet(s) = Listed \cup {id}
    <2>1. ToSet(s) = {id} \cup ToSet(w)
      <3>1. ASSUME NEW x \in ToSet(s) PROVE x \in {id} \cup ToSet(w)
        BY SMTT(40), <1>2, <1>3, <1>4 DEF ToSet
      <3>2. ASSUME NEW x \in ToSet(w) PROVE x \in ToSet(s)
        <4>1. PICK i \in 1 .. Len(w) : x = w[i]
          BY <1>4 DEF ToSet
        <4>2. i + 1 \in 1 .. Len(s) /\ s[i + 1] = x
          BY <1>2, <4>1
        <4>. QED
          BY <1>4, <4>2 DEF ToSet
      <3>3. id \in ToSet(s)
        <4>1. 1 \in 1 .. Len(s)
          BY <1>2
        <4>. QED
          BY <1>2, <1>4, <4>1 DEF ToSet
      <3>. QED
        BY <3>1, <3>2, <3>3
    <2>. QED
      BY <1>1, <2>1
  <1>6. ASSUME IsInjective(lru) PROVE IsInjective(s)
    <2>1. SUFFICES ASSUME NEW i \in 1 .. Len(s), NEW j \in 1 .. Len(s), s[i] = s[j] PROVE i = j
      BY <1>4 DEF IsInjective
    <2>2. \A k \in 1 .. Len(w) : w[k] # id
      BY <1>1, <1>4 DEF ToSet
    <2>3. CASE i = 1 \/ j = 1
      BY <1>2, <1>3, <2>1, <2>2, <2>3
    <2>4. CASE i # 1 /\ j # 1
      <3>1. i - 1 = j - 1
        BY SMTT(40), <1>1, <1>3, <1>4, <1>6, <2>1, <2>4 DEF IsInjective
      <3>. QED
        BY <3>1
    <2>. QED
      BY <2>3, <2>4
  <1>7. Touch(id) = s
    BY DEF Touch, s, w
  <1>. QED
    BY <1>2, <1>5, <1>6, <1>7

-----------------------------------------------------------------------------
\* What remains of the call of thread t after its next operation.
Rest(t) == IF agenda[t] = <<>> THEN <<>> ELSE Tail(agenda[t])

Sequence(s) == s \in Seq(ToSet(s))

LEMMA SequenceIs ==
    ASSUME NEW X, NEW s \in Seq(X)
    PROVE  /\ Sequence(s) /\ ToSet(s) \subseteq X
           /\ Len(s) \in Nat /\ DOMAIN s = 1 .. Len(s)
           /\ \A i \in 1 .. Len(s) : s[i] \in ToSet(s)
  BY DEF Sequence, ToSet

LEMMA SequenceIn ==
    ASSUME NEW X, NEW s, Sequence(s), ToSet(s) \subseteq X
    PROVE  s \in Seq(X)
  BY DEF Sequence

\* The elements of two sequences, one after the other.
LEMMA ConcatIs ==
    ASSUME NEW s, NEW r, Sequence(s), Sequence(r)
    PROVE  /\ Sequence(s \o r)
           /\ Len(s \o r) = Len(s) + Len(r) /\ Len(s) \in Nat /\ Len(r) \in Nat
           /\ \A i \in 1 .. Len(s) : (s \o r)[i] = s[i]
           /\ \A i \in 1 .. Len(r) : (s \o r)[i + Len(s)] = r[i]
           /\ ToSet(s \o r) = ToSet(s) \cup ToSet(r)
           /\ \A i \in 1 .. Len(s \o r) :
                \/ i \in 1 .. Len(s)
                \/ i - Len(s) \in 1 .. Len(r) /\ (s \o r)[i] = r[i - Len(s)]
  <1>. DEFINE X == ToSet(s) \cup ToSet(r)
              q == s \o r
  <1>1. s \in Seq(X) /\ r \in Seq(X)
    BY DEF Sequence
  <1>. HIDE DEF X
  <1>2. /\ q \in Seq(X) /\ Len(q) = Len(s) + Len(r) /\ Len(s) \in Nat /\ Len(r) \in Nat
        /\ \A i \in 1 .. Len(s) : q[i] = s[i]
        /\ \A i \in 1 .. Len(r) : q[i + Len(s)] = r[i]
    BY <1>1
  <1>. HIDE DEF q
  <1>3. \A i \in 1 .. Len(q) :
          i \in 1 .. Len(s) \/ (i - Len(s) \in 1 .. Len(r) /\ q[i] = r[i - Len(s)])
    <2>1. \A i \in 1 .. Len(q) :
            i \in 1 .. Len(s) \/ (i - Len(s) \in 1 .. Len(r) /\ (i - Len(s)) + Len(s) = i)
      BY <1>2
    <2>. QED
      BY <1>2, <2>1
  <1>4. DOMAIN q = 1 .. Len(q) /\ DOMAIN s = 1 .. Len(s) /\ DOMAIN r = 1 .. Len(r)
    BY <1>1, <1>2
  <1>5. ToSet(q) = ToSet(s) \cup ToSet(r)
    <2>1. ASSUME NEW x \in ToSet(q) PROVE x \in ToSet(s) \cup ToSet(r)
      BY <1>2, <1>3, <1>4 DEF ToSet
    <2>2. ASSUME NEW x \in ToSet(s) PROVE x \in ToSet(q)
      <3>1. PICK i \in 1 .. Len(s) : x = s[i]
        BY <1>4 DEF ToSet
      <3>2. i \in 1 .. Len(q) /\ q[i] = x
        BY <1>2, <3>1
      <3>. QED
        BY <1>4, <3>2 DEF ToSet
    <2>3. ASSUME NEW x \in ToSet(r) PROVE x \in ToSet(q)
      <3>1. PICK i \in 1 .. Len(r) : x = r[i]
        BY <1>4 DEF ToSet
      <3>2. i + Len(s) \in 1 .. Len(q) /\ q[i + Len(s)] = x
        BY <1>2, <3>1
      <3>. QED
        BY <1>4, <3>2 DEF ToSet
    <2>. QED
      BY <2>1, <2>2, <2>3
  <1>6. Sequence(q)
    BY <1>2, SequenceIs
  <1>. QED
    BY <1>2, <1>3, <1>5, <1>6 DEF q

LEMMA RestIs ==
    ASSUME Typed, NEW t \in Threads
    PROVE  /\ Sequence(agenda[t]) /\ Sequence(Rest(t))
           /\ Len(agenda[t]) \in Nat /\ DOMAIN agenda[t] = 1 .. Len(agenda[t])
           /\ Len(Rest(t)) = IF agenda[t] = <<>> THEN 0 ELSE Len(agenda[t]) - 1
           /\ \A i \in 1 .. Len(Rest(t)) :
                /\ i + 1 \in 1 .. Len(agenda[t]) /\ Rest(t)[i] = agenda[t][i + 1]
           /\ agenda[t] # <<>> => 1 \in 1 .. Len(agenda[t]) /\ Head(agenda[t]) = agenda[t][1]
           /\ ToSet(Rest(t)) \subseteq ToSet(agenda[t])
  <1>. DEFINE X == UNION {Entries(u) : u \in Threads}
  <1>1. agenda[t] \in Seq(X)
    BY DEF Typed
  <1>. HIDE DEF X
  <1>2. CASE agenda[t] = <<>>
    BY <1>1, <1>2, SequenceIs DEF Rest, ToSet, Sequence
  <1>3. CASE agenda[t] # <<>>
    <2>1. /\ Rest(t) \in Seq(X) /\ Len(Rest(t)) = Len(agenda[t]) - 1
          /\ Len(agenda[t]) \in Nat /\ Len(agenda[t]) # 0
          /\ \A i \in 1 .. Len(Rest(t)) : Rest(t)[i] = agenda[t][i + 1]
          /\ Head(agenda[t]) = agenda[t][1]
      BY <1>1, <1>3 DEF Rest
    <2>2. \A i \in 1 .. Len(Rest(t)) : i + 1 \in 1 .. Len(agenda[t])
      BY <2>1
    <2>3. DOMAIN Rest(t) = 1 .. Len(Rest(t)) /\ DOMAIN agenda[t] = 1 .. Len(agenda[t])
      BY <1>1, <2>1
    <2>4. ToSet(Rest(t)) \subseteq ToSet(agenda[t])
      BY SMTT(40), <2>1, <2>2, <2>3 DEF ToSet
    <2>5. Sequence(agenda[t]) /\ Sequence(Rest(t))
      BY <1>1, <2>1, SequenceIs
    <2>. QED
      BY <1>3, <2>1, <2>2, <2>3, <2>4, <2>5
  <1>. QED
    BY <1>2, <1>3

\* The agendas after t has done its next operation, which leaves s to be done.
LEMMA GoIs ==
    ASSUME Typed, NEW t \in Threads, NEW s, Sequence(s), Go(t, s)
    PROVE  /\ agenda' = [agenda EXCEPT ![t] = s \o Rest(t)]
           /\ agenda'[t] = s \o Rest(t)
           /\ \A u \in Threads \ {t} : agenda'[u] = agenda[u]
           /\ \A u \in Threads : Sequence(agenda'[u])
           /\ agenda' \in [Threads -> Seq(UNION {Entries(u)' : u \in Threads})]
  <1>1. agenda \in [Threads -> Seq(UNION {Entries(u) : u \in Threads})]
    BY DEF Typed
  <1>2. agenda' = [agenda EXCEPT ![t] = s \o Rest(t)]
    BY DEF Go, Rest
  <1>3. agenda'[t] = s \o Rest(t) /\ \A u \in Threads \ {t} : agenda'[u] = agenda[u]
    BY <1>1, <1>2
  <1>4. \A u \in Threads : Sequence(agenda'[u])
    <2>1. Sequence(s \o Rest(t))
      BY RestIs, ConcatIs
    <2>2. \A u \in Threads : Sequence(agenda[u])
      BY RestIs
    <2>. QED
      BY <1>3, <2>1, <2>2
  <1>5. \A u \in Threads : Entries(u)' = ToSet(agenda'[u])
    BY DEF Entries, ToSet
  <1>6. \A u \in Threads : agenda'[u] \in Seq(UNION {Entries(v)' : v \in Threads})
    <2>1. SUFFICES ASSUME NEW u \in Threads
                   PROVE  agenda'[u] \in Seq(UNION {Entries(v)' : v \in Threads})
      OBVIOUS
    <2>2. ToSet(agenda'[u]) \subseteq UNION {Entries(v)' : v \in Threads}
      BY <1>5
    <2>. QED
      BY <1>4, <2>2, SequenceIn
  <1>7. DOMAIN agenda' = Threads /\ agenda' = [u \in Threads |-> agenda'[u]]
    BY <1>1, <1>2
  <1>8. agenda' \in [Threads -> Seq(UNION {Entries(v)' : v \in Threads})]
    BY <1>6, <1>7
  <1>. QED
    BY <1>2, <1>3, <1>4, <1>8

\* The operations that stay on the agenda of u when t does its next one.
Staying(t, u) == IF u = t THEN ToSet(Rest(t)) ELSE ToSet(agenda[u])

\* What only the next operation of t may do.
HeadClaims(t) == IF agenda[t] = <<>> THEN {} ELSE Claim(item, Head(agenda[t]))

Storings == {"room", "again", "finish"}

LEMMA StayingIs ==
    ASSUME Typed, AgendaSound, AgendaOrdered, Claimed,
           NEW t \in Threads, NEW u \in Threads, NEW e \in Staying(t, u)
    PROVE  /\ Sound(u, e)
           /\ u = t => agenda[t] # <<>> /\ e[1] \in Later
           /\ u = t /\ Head(agenda[t])[1] \in Changing => e[1] \notin Relying
           /\ Claim(item, e) \cap HeadClaims(t) = {}
           /\ Claim(item, e) \subseteq Claims(item, agenda[u])
  <1>1. CASE u = t
    <2>1. PICK i \in 1 .. Len(Rest(t)) : e = Rest(t)[i]
      BY <1>1, RestIs, SequenceIs DEF Staying, ToSet, Sequence
    <2>2. /\ i + 1 \in DOMAIN agenda[t] /\ e = agenda[t][i + 1] /\ agenda[t] # <<>>
          /\ 1 \in DOMAIN agenda[t] /\ Head(agenda[t]) = agenda[t][1] /\ i + 1 > 1
          /\ 1 \in 1 .. (i + 1) - 1
      BY <2>1, RestIs
    <2>3. Sound(t, e)
      BY <2>2 DEF AgendaSound
    <2>4. e[1] \in Later /\ (agenda[t][1][1] \in Changing => e[1] \notin Relying)
      BY <2>2 DEF AgendaOrdered, Ordered
    <2>5. Claim(item, agenda[t][i + 1]) \cap Claim(item, agenda[t][1]) = {}
      <3>1. i + 1 # 1
        BY <2>1
      <3>. QED
        BY <2>2, <3>1 DEF Claimed, Distinct
    <2>6. Claim(item, e) \subseteq Claims(item, agenda[t])
      BY <2>2 DEF Claims
    <2>. QED
      BY <1>1, <2>2, <2>3, <2>4, <2>5, <2>6 DEF HeadClaims
  <1>2. CASE u # t
    <2>1. PICK i \in DOMAIN agenda[u] : e = agenda[u][i]
      BY <1>2 DEF Staying, ToSet
    <2>2. Claim(item, e) \subseteq Claims(item, agenda[u])
      BY <2>1 DEF Claims
    <2>3. HeadClaims(t) \subseteq Claims(item, agenda[t])
      <3>1. CASE agenda[t] = <<>>
        BY <3>1 DEF HeadClaims
      <3>2. CASE agenda[t] # <<>>
        <4>1. 1 \in DOMAIN agenda[t] /\ Head(agenda[t]) = agenda[t][1]
          BY <3>2, RestIs
        <4>. QED
          BY <3>2, <4>1 DEF HeadClaims, Claims
      <3>. QED
        BY <3>1, <3>2
    <2>4. Claims(item, agenda[t]) \cap Claims(item, agenda[u]) = {}
      BY <1>2 DEF Claimed
    <2>5. Sound(u, e)
      BY <2>1 DEF AgendaSound
    <2>. QED
      BY <1>2, <2>2, <2>3, <2>4, <2>5
  <1>. QED
    BY <1>1, <1>2

\* The next operation of t.
LEMMA HeadIs ==
    ASSUME Typed, AgendaSound, NEW t \in Threads, agenda[t] # <<>>
    PROVE  /\ 1 \in DOMAIN agenda[t] /\ Head(agenda[t]) = agenda[t][1]
           /\ Sound(t, Head(agenda[t])) /\ Head(agenda[t]) \in Entries(t)
           /\ HeadClaims(t) = Claim(item, Head(agenda[t]))
           /\ HeadClaims(t) \subseteq Claims(item, agenda[t])
  <1>1. 1 \in DOMAIN agenda[t] /\ Head(agenda[t]) = agenda[t][1]
    BY RestIs
  <1>. QED
    BY <1>1 DEF AgendaSound, Entries, HeadClaims, Claims

\* What the operations s may be for t to go on with them.
LEMMA OrderedAfter ==
    ASSUME Typed, AgendaOrdered, NEW t \in Threads, NEW s, Sequence(s), Go(t, s),
           Ordered(s),
           \A i \in DOMAIN s : s[i][1] \in Changing =>
               agenda[t] = <<>> \/ Head(agenda[t])[1] \in Changing
    PROVE  AgendaOrdered'
  <1>. DEFINE r == Rest(t)
              q == s \o r
  <1>1. /\ Sequence(r) /\ Len(r) \in Nat /\ Len(s) \in Nat
        /\ Len(q) = Len(s) + Len(r) /\ DOMAIN s = 1 .. Len(s) /\ DOMAIN q = 1 .. Len(q)
        /\ \A i \in 1 .. Len(s) : q[i] = s[i]
        /\ \A i \in 1 .. Len(r) : q[i + Len(s)] = r[i]
        /\ \A i \in 1 .. Len(q) :
             i \in 1 .. Len(s) \/ (i - Len(s) \in 1 .. Len(r) /\ q[i] = r[i - Len(s)])
    BY RestIs, ConcatIs, SequenceIs DEF Sequence
  <1>2. \A i \in 1 .. Len(r) : agenda[t] # <<>> /\ i + 1 \in DOMAIN agenda[t]
                               /\ r[i] = agenda[t][i + 1] /\ i + 1 > 1
    BY RestIs
  <1>3. agenda[t] # <<>> => 1 \in DOMAIN agenda[t] /\ Head(agenda[t]) = agenda[t][1]
    BY RestIs
  <1>4. Ordered(agenda[t])
    BY DEF AgendaOrdered
  <1>5. \A i \in 1 .. Len(r) :
          /\ r[i][1] \in Later
          /\ r[i][1] \in Relying => /\ Head(agenda[t])[1] \notin Changing
                                    /\ \A j \in 1 .. i - 1 : r[j][1] \notin Changing
    <2>1. SUFFICES ASSUME NEW i \in 1 .. Len(r)
                   PROVE  /\ r[i][1] \in Later
                          /\ r[i][1] \in Relying =>
                               /\ Head(agenda[t])[1] \notin Changing
                               /\ \A j \in 1 .. i - 1 : r[j][1] \notin Changing
      OBVIOUS
    <2>2. /\ agenda[t][i + 1][1] \in Later
          /\ agenda[t][i + 1][1] \in Relying =>
               \A j \in 1 .. (i + 1) - 1 : agenda[t][j][1] \notin Changing
      BY <1>2, <1>4 DEF Ordered
    <2>3. \A j \in 1 .. i - 1 : j \in 1 .. Len(r) /\ j + 1 \in 1 .. (i + 1) - 1
      BY <1>1
    <2>4. 1 \in 1 .. (i + 1) - 1
      OBVIOUS
    <2>. QED
      BY <1>2, <1>3, <2>2, <2>3, <2>4
  <1>. HIDE DEF q, r
  <1>6. Ordered(q)
    <2>1. ASSUME NEW i \in DOMAIN q, i > 1
          PROVE  /\ q[i][1] \in Later
                 /\ q[i][1] \in Relying => \A j \in 1 .. i - 1 : q[j][1] \notin Changing
      <3>1. CASE i \in 1 .. Len(s)
        <4>1. /\ s[i][1] \in Later
              /\ s[i][1] \in Relying => \A j \in 1 .. i - 1 : s[j][1] \notin Changing
          BY <1>1, <2>1, <3>1 DEF Ordered
        <4>2. \A j \in 1 .. i - 1 : j \in 1 .. Len(s)
          BY <1>1, <3>1
        <4>. QED
          BY <1>1, <3>1, <4>1, <4>2
      <3>2. CASE i - Len(s) \in 1 .. Len(r) /\ q[i] = r[i - Len(s)]
        <4>1. q[i][1] \in Later
          BY <1>5, <3>2
        <4>2. ASSUME q[i][1] \in Relying, NEW j \in 1 .. i - 1 PROVE q[j][1] \notin Changing
          <5>1. j \in 1 .. Len(q)
            BY <1>1, <2>1
          <5>2. CASE j \in 1 .. Len(s)
            <6>1. agenda[t] # <<>> /\ Head(agenda[t])[1] \notin Changing
              BY <1>2, <1>5, <3>2, <4>2
            <6>. QED
              BY <1>1, <5>2, <6>1
          <5>3. CASE j - Len(s) \in 1 .. Len(r) /\ q[j] = r[j - Len(s)]
            <6>1. j - Len(s) \in 1 .. (i - Len(s)) - 1
              BY <1>1, <2>1, <3>2, <5>3
            <6>. QED
              BY <1>5, <3>2, <4>2, <5>3, <6>1
          <5>. QED
            BY <1>1, <5>1, <5>2, <5>3
        <4>. QED
          BY <4>1, <4>2
      <3>. QED
        BY <1>1, <2>1, <3>1, <3>2
    <2>2. ASSUME q # <<>>, q[1][1] = "store", q[1][2] # Null
          PROVE  Len(q) > 1 /\ q[2] = <<"dropkey", q[1][2]>>
      <3>1. CASE s = <<>>
        <4>1. Len(s) = 0 /\ Len(q) # 0
          BY <1>1, <2>2, <3>1
        <4>2. 1 \in 1 .. Len(r) /\ 1 + Len(s) = 1
          BY <1>1, <4>1
        <4>3. q[1] = r[1] /\ r[1][1] \in Later
          BY <1>1, <1>5, <4>2
        <4>. QED
          BY <2>2, <4>3 DEF Later, Relying
      <3>2. CASE s # <<>>
        <4>1. Len(s) # 0
          BY <3>2 DEF Sequence
        <4>2. 1 \in 1 .. Len(s)
          BY <1>1, <4>1
        <4>3. q[1] = s[1]
          BY <1>1, <4>2
        <4>4. Len(s) > 1 /\ s[2] = <<"dropkey", s[1][2]>>
          BY <2>2, <3>2, <4>3 DEF Ordered
        <4>5. 2 \in 1 .. Len(s)
          BY <1>1, <4>4
        <4>6. q[2] = s[2]
          BY <1>1, <4>5
        <4>. QED
          BY <1>1, <4>3, <4>4, <4>6
      <3>. QED
        BY <3>1, <3>2
    <2>. QED
      BY <2>1, <2>2 DEF Ordered
  <1>7. \A u \in Threads : Ordered(agenda'[u])
    BY <1>6, GoIs DEF AgendaOrdered, q, r
  <1>. QED
    BY <1>7 DEF AgendaOrdered

\* Each operation is sound afterwards: those that stay, and the new ones.
LEMMA SoundAfter ==
    ASSUME Typed, NEW t \in Threads, NEW s, Sequence(s), Go(t, s),
           \A u \in Threads : \A e \in Staying(t, u) : Sound(u, e)',
           \A e \in ToSet(s) : Sound(t, e)'
    PROVE  AgendaSound'
  <1>1. ASSUME NEW u \in Threads, NEW e, e \in ToSet(agenda'[u]) PROVE Sound(u, e)'
    <2>1. CASE u = t
      <3>1. agenda'[t] = s \o Rest(t) /\ Sequence(Rest(t))
        BY GoIs, RestIs
      <3>2. e \in ToSet(s) \cup ToSet(Rest(t))
        BY <1>1, <2>1, <3>1, ConcatIs
      <3>3. \A d \in ToSet(Rest(t)) : Sound(t, d)'
        BY DEF Staying
      <3>. QED
        BY <2>1, <3>2, <3>3
    <2>2. CASE u # t
      <3>1. agenda'[u] = agenda[u]
        BY <2>2, GoIs
      <3>2. e \in Staying(t, u)
        BY <1>1, <2>2, <3>1 DEF Staying
      <3>. QED
        BY <3>2
    <2>. QED
      BY <2>1, <2>2
  <1>2. \A u \in Threads : \A i \in DOMAIN agenda'[u] : agenda'[u][i] \in ToSet(agenda'[u])
    BY DEF ToSet
  <1>. QED
    BY <1>1, <1>2 DEF AgendaSound

LEMMA Literals ==
    /\ Sequence(<<>>) /\ ToSet(<<>>) = {}
    /\ \A a : Sequence(<<a>>) /\ ToSet(<<a>>) = {a}
    /\ \A a, b : Sequence(<<a, b>>) /\ ToSet(<<a, b>>) = {a, b}
  <1>1. ASSUME NEW a PROVE Sequence(<<a>>) /\ ToSet(<<a>>) = {a}
    BY DEF Sequence, ToSet
  <1>2. ASSUME NEW a, NEW b PROVE Sequence(<<a, b>>) /\ ToSet(<<a, b>>) = {a, b}
    BY DEF Sequence, ToSet
  <1>3. Sequence(<<>>) /\ ToSet(<<>>) = {}
    BY DEF Sequence, ToSet
  <1>. QED
    BY <1>1, <1>2, <1>3

LEMMA ClaimsConcat ==
    ASSUME NEW I, NEW s, NEW r, Sequence(s), Sequence(r)
    PROVE  /\ Claims(I, s \o r) = Claims(I, s) \cup Claims(I, r)
           /\ Distinct(I, s) /\ Distinct(I, r) /\ Claims(I, s) \cap Claims(I, r) = {}
                => Distinct(I, s \o r)
  <1>. DEFINE q == s \o r
  <1>1. /\ Sequence(q)
        /\ Len(q) = Len(s) + Len(r) /\ Len(s) \in Nat /\ Len(r) \in Nat
        /\ \A i \in 1 .. Len(s) : q[i] = s[i]
        /\ \A i \in 1 .. Len(q) :
             i \in 1 .. Len(s) \/ (i - Len(s) \in 1 .. Len(r) /\ q[i] = r[i - Len(s)])
        /\ ToSet(q) = ToSet(s) \cup ToSet(r)
    BY ConcatIs
  <1>2. DOMAIN q = 1 .. Len(q) /\ DOMAIN s = 1 .. Len(s) /\ DOMAIN r = 1 .. Len(r)
    BY <1>1 DEF Sequence
  <1>. HIDE DEF q
  <1>3. Claims(I, q) = Claims(I, s) \cup Claims(I, r)
    <2>1. \A a : Claims(I, a) = UNION {Claim(I, e) : e \in ToSet(a)}
      BY DEF Claims, ToSet
    <2>. QED
      BY <1>1, <2>1
  <1>4. ASSUME Distinct(I, s), Distinct(I, r), Claims(I, s) \cap Claims(I, r) = {}
        PROVE  Distinct(I, q)
    <2>1. SUFFICES ASSUME NEW i \in 1 .. Len(q), NEW j \in 1 .. Len(q), i # j
                   PROVE  Claim(I, q[i]) \cap Claim(I, q[j]) = {}
      BY <1>2 DEF Distinct
    <2>2. ASSUME NEW k \in 1 .. Len(s) PROVE Claim(I, q[k]) \subseteq Claims(I, s)
      BY <1>1, <1>2 DEF Claims
    <2>3. ASSUME NEW k \in 1 .. Len(r) PROVE Claim(I, r[k]) \subseteq Claims(I, r)
      BY <1>2 DEF Claims
    <2>4. CASE i \in 1 .. Len(s) /\ j \in 1 .. Len(s)
      BY <1>1, <1>2, <1>4, <2>1, <2>4 DEF Distinct
    <2>5. CASE i - Len(s) \in 1 .. Len(r) /\ q[i] = r[i - Len(s)] /\ j \in 1 .. Len(s)
      BY <1>4, <2>2, <2>3, <2>5
    <2>6. CASE j - Len(s) \in 1 .. Len(r) /\ q[j] = r[j - Len(s)] /\ i \in 1 .. Len(s)
      BY <1>4, <2>2, <2>3, <2>6
    <2>7. CASE /\ i - Len(s) \in 1 .. Len(r) /\ q[i] = r[i - Len(s)]
               /\ j - Len(s) \in 1 .. Len(r) /\ q[j] = r[j - Len(s)]
      <3>1. i - Len(s) # j - Len(s)
        BY <1>1, <2>1
      <3>. QED
        BY <1>2, <1>4, <2>7, <3>1 DEF Distinct
    <2>. QED
      BY <1>1, <2>4, <2>5, <2>6, <2>7
  <1>. QED
    BY <1>3, <1>4 DEF q

\* A claim to an item or value says what it is like.
LEMMA ClaimMeans ==
    ASSUME Typed, AgendaSound, NEW u \in Threads, NEW c \in Claims(item, agenda[u])
    PROVE  /\ \A id : c = <<"item", id>> => id \in Ids /\ item[id].live
           /\ \A id : c = <<"key", id>> => id \in Ids /\ item[id].mine
           /\ \A v : c = <<"mem", v>> => mem[v] = "dying"
  <1>1. PICK i \in DOMAIN agenda[u] : c \in Claim(item, agenda[u][i])
    BY DEF Claims
  <1>2. PICK e : e = agenda[u][i]
    OBVIOUS
  <1>3. Sound(u, e) /\ c \in Claim(item, e)
    BY <1>1, <1>2 DEF AgendaSound
  <1>4. CASE e[1] \in Storings
    BY <1>3, <1>4 DEF Claim, Sound, Secured, Storings
  <1>5. CASE e[1] = "unref"
    BY <1>3, <1>5 DEF Claim, Sound
  <1>6. CASE e[1] = "chain"
    <2>1. /\ e[3] \subseteq ToSet(e[2]) /\ e[2] \in Seq(Ids)
          /\ \A id \in ToSet(e[2]) : item[id].live
          /\ \A id \in e[3] : mem[Val(id)] = "dying"
      BY <1>3, <1>6 DEF Sound
    <2>2. ToSet(e[2]) \subseteq Ids
      BY <2>1, SequenceIs
    <2>3. c \in {<<"item", id>> : id \in ToSet(e[2])} \cup {<<"mem", Val(id)>> : id \in e[3]}
      BY <1>3, <1>6 DEF Claim, Val
    <2>. QED
      BY <2>1, <2>2, <2>3
  <1>7. CASE e[1] = "dropkey"
    BY <1>3, <1>7 DEF Claim, Sound
  <1>8. CASE e[1] = "destroy"
    BY <1>3, <1>8 DEF Claim, Sound
  <1>. QED
    BY <1>3, <1>4, <1>5, <1>6, <1>7, <1>8 DEF Claim, Storings

\* A claim lasts while the items it is about keep their values.
LEMMA ClaimLasts ==
    ASSUME NEW u, NEW e, Sound(u, e),
           \A id \in Ids : <<"item", id>> \in Claim(item, e) => item'[id].val = item[id].val
    PROVE  Claim(item', e) = Claim(item, e)
  <1>1. CASE e[1] = "chain"
    <2>1. e[3] \subseteq ToSet(e[2]) /\ e[2] \in Seq(Ids)
      BY <1>1 DEF Sound
    <2>2. ToSet(e[2]) \subseteq Ids
      BY <2>1, SequenceIs
    <2>3. \A id \in ToSet(e[2]) : <<"item", id>> \in Claim(item, e)
      BY <1>1 DEF Claim
    <2>4. \A id \in e[3] : item'[id].val = item[id].val
      BY <2>1, <2>2, <2>3
    <2>5. {<<"mem", item'[id].val>> : id \in e[3]} = {<<"mem", item[id].val>> : id \in e[3]}
      BY <2>4
    <2>. QED
      BY <1>1, <2>5 DEF Claim
  <1>2. CASE e[1] # "chain"
    BY <1>2 DEF Claim
  <1>. QED
    BY <1>1, <1>2

(***************************************************************************)
(* The claims after t has gone on: those of the operation it has done are  *)
(* given up or passed on, new ones nobody had.                             *)
(***************************************************************************)
LEMMA ClaimedAfter ==
    ASSUME Typed, AgendaSound, AgendaOrdered, Claimed,
           NEW t \in Threads, NEW s, Sequence(s), Go(t, s),
           \A id \in Ids : item[id].live =>
               item'[id].val = item[id].val \/ <<"item", id>> \in HeadClaims(t),
           Distinct(item', s),
           \A c \in Claims(item', s) :
               c \in HeadClaims(t) \/ \A u \in Threads : c \notin Claims(item, agenda[u])
    PROVE  /\ Claimed'
           /\ \A c \in Claims(item', s) : c \in Claims(item', agenda'[t])
           /\ \A u \in Threads : \A c \in Claims(item, agenda[u]) :
                c \in HeadClaims(t) \/ c \in Claims(item', agenda'[u])
  <1>1. ASSUME NEW u \in Threads, NEW e \in Staying(t, u) PROVE Claim(item', e) = Claim(item, e)
    <2>1. /\ Sound(u, e) /\ Claim(item, e) \cap HeadClaims(t) = {}
          /\ Claim(item, e) \subseteq Claims(item, agenda[u])
      BY <1>1, StayingIs
    <2>2. \A id \in Ids : <<"item", id>> \in Claim(item, e) => item'[id].val = item[id].val
      <3>1. \A id : <<"item", id>> \in Claim(item, e) => item[id].live
        BY <2>1, ClaimMeans
      <3>. QED
        BY <2>1, <3>1
    <2>. QED
      BY <2>1, <2>2, ClaimLasts
  <1>2. \A I, a : Claims(I, a) = UNION {Claim(I, e) : e \in ToSet(a)}
    BY DEF Claims, ToSet
  <1>3. ASSUME NEW u \in Threads \ {t} PROVE Claims(item', agenda[u]) = Claims(item, agenda[u])
    <2>1. \A e \in ToSet(agenda[u]) : Claim(item', e) = Claim(item, e)
      BY <1>1 DEF Staying
    <2>. QED
      BY <1>2, <2>1
  <1>4. Claims(item', Rest(t)) = Claims(item, Rest(t))
    <2>1. \A e \in ToSet(Rest(t)) : Claim(item', e) = Claim(item, e)
      BY <1>1 DEF Staying
    <2>. QED
      BY <1>2, <2>1
  <1>5. Claims(item, Rest(t)) \subseteq Claims(item, agenda[t])
    BY <1>2, RestIs
  <1>6. Claims(item, Rest(t)) \cap HeadClaims(t) = {}
    <2>1. \A e \in ToSet(Rest(t)) : Claim(item, e) \cap HeadClaims(t) = {}
      BY StayingIs DEF Staying
    <2>. QED
      BY <1>2, <2>1
  <1>7. Claims(item', s) \cap Claims(item', Rest(t)) = {}
    BY <1>4, <1>5, <1>6
  <1>8. HeadClaims(t) \subseteq Claims(item, agenda[t])
    BY HeadIs DEF HeadClaims
  <1>9. Distinct(item', Rest(t))
    <2>1. SUFFICES ASSUME NEW i \in DOMAIN Rest(t), NEW j \in DOMAIN Rest(t), i # j
                   PROVE  Claim(item', Rest(t)[i]) \cap Claim(item', Rest(t)[j]) = {}
      BY DEF Distinct
    <2>2. i \in 1 .. Len(Rest(t)) /\ j \in 1 .. Len(Rest(t))
      BY RestIs, SequenceIs DEF Sequence
    <2>3. /\ i + 1 \in DOMAIN agenda[t] /\ j + 1 \in DOMAIN agenda[t] /\ i + 1 # j + 1
          /\ Rest(t)[i] = agenda[t][i + 1] /\ Rest(t)[j] = agenda[t][j + 1]
      BY SMTT(40), <2>1, <2>2, RestIs
    <2>4. Claim(item, Rest(t)[i]) \cap Claim(item, Rest(t)[j]) = {}
      BY <2>3 DEF Claimed, Distinct
    <2>5. Rest(t)[i] \in Staying(t, t) /\ Rest(t)[j] \in Staying(t, t)
      BY <2>1 DEF Staying, ToSet
    <2>. QED
      BY <1>1, <2>4, <2>5
  <1>10. /\ agenda'[t] = s \o Rest(t) /\ Sequence(Rest(t))
         /\ \A u \in Threads \ {t} : agenda'[u] = agenda[u]
    BY GoIs, RestIs
  <1>11. /\ Claims(item', agenda'[t]) = Claims(item', s) \cup Claims(item', Rest(t))
         /\ Distinct(item', agenda'[t])
    BY <1>7, <1>9, <1>10, ClaimsConcat
  <1>12. ASSUME NEW u \in Threads \ {t} PROVE Distinct(item', agenda'[u])
    <2>1. SUFFICES ASSUME NEW i \in DOMAIN agenda[u], NEW j \in DOMAIN agenda[u], i # j
                   PROVE  Claim(item', agenda[u][i]) \cap Claim(item', agenda[u][j]) = {}
      BY <1>10 DEF Distinct
    <2>2. agenda[u][i] \in Staying(t, u) /\ agenda[u][j] \in Staying(t, u)
      BY <2>1 DEF Staying, ToSet
    <2>3. Claim(item, agenda[u][i]) \cap Claim(item, agenda[u][j]) = {}
      BY <2>1 DEF Claimed, Distinct
    <2>. QED
      BY <1>1, <2>2, <2>3
  <1>13. ASSUME NEW u \in Threads \ {t}
         PROVE  /\ Claims(item', agenda'[u]) = Claims(item, agenda[u])
                /\ Claims(item', agenda'[t]) \cap Claims(item', agenda'[u]) = {}
    <2>1. Claims(item, agenda[t]) \cap Claims(item, agenda[u]) = {}
      BY DEF Claimed
    <2>. QED
      BY <1>3, <1>4, <1>5, <1>8, <1>10, <1>11, <2>1
  <1>14. ASSUME NEW u \in Threads, NEW w \in Threads \ {u}
         PROVE  Claims(item', agenda'[u]) \cap Claims(item', agenda'[w]) = {}
    <2>1. u # t /\ w # t => Claims(item, agenda[u]) \cap Claims(item, agenda[w]) = {}
      BY DEF Claimed
    <2>. QED
      BY <1>13, <2>1
  <1>15. Claimed'
    BY <1>11, <1>12, <1>14 DEF Claimed
  <1>16. Claims(item, agenda[t]) \subseteq HeadClaims(t) \cup Claims(item, Rest(t))
    <2>1. CASE agenda[t] = <<>>
      BY <2>1 DEF Claims
    <2>2. CASE agenda[t] # <<>>
      <3>1. ASSUME NEW i \in DOMAIN agenda[t]
            PROVE  Claim(item, agenda[t][i]) \subseteq HeadClaims(t) \cup Claims(item, Rest(t))
        <4>1. CASE i = 1
          BY <2>2, <4>1, HeadIs
        <4>2. CASE i # 1
          <5>1. i - 1 \in 1 .. Len(Rest(t)) /\ (i - 1) + 1 = i
            BY <2>2, <3>1, <4>2, RestIs
          <5>2. Rest(t)[i - 1] = agenda[t][i] /\ i - 1 \in DOMAIN Rest(t)
            BY <5>1, RestIs, SequenceIs DEF Sequence
          <5>. QED
            BY <5>2 DEF Claims
        <4>. QED
          BY <4>1, <4>2
      <3>. QED
        BY <3>1 DEF Claims
    <2>. QED
      BY <2>1, <2>2
  <1>17. ASSUME NEW u \in Threads, NEW c \in Claims(item, agenda[u])
         PROVE  c \in HeadClaims(t) \/ c \in Claims(item', agenda'[u])
    BY <1>4, <1>11, <1>13, <1>16
  <1>. QED
    BY <1>11, <1>15, <1>17

\* The items being stored after t has gone on.
LEMMA WindowAfter ==
    ASSUME Typed, NEW t \in Threads, NEW s, Sequence(s), Go(t, s)
    PROVE  /\ \A id \in InWindow :
                \/ id \in InWindow'
                \/ agenda[t] # <<>> /\ Head(agenda[t])[1] \in Storings
                   /\ id = Head(agenda[t])[2]
           /\ \A e \in ToSet(s) : e[1] \in Storings => e[2] \in InWindow'
  <1>1. \A u \in Threads : Entries(u) = ToSet(agenda[u]) /\ Entries(u)' = ToSet(agenda'[u])
    BY DEF Entries, ToSet
  <1>2. /\ agenda'[t] = s \o Rest(t) /\ Sequence(Rest(t))
        /\ \A u \in Threads \ {t} : agenda'[u] = agenda[u]
    BY GoIs, RestIs
  <1>3. ToSet(agenda'[t]) = ToSet(s) \cup ToSet(Rest(t))
    BY <1>2, ConcatIs
  <1>4. \A e \in ToSet(agenda[t]) :
          e \in ToSet(Rest(t)) \/ (agenda[t] # <<>> /\ e = Head(agenda[t]))
    <2>1. SUFFICES ASSUME NEW i \in DOMAIN agenda[t]
                   PROVE  \/ agenda[t][i] \in ToSet(Rest(t))
                          \/ agenda[t] # <<>> /\ agenda[t][i] = Head(agenda[t])
      BY DEF ToSet
    <2>2. agenda[t] # <<>>
      BY <2>1
    <2>3. CASE i = 1
      BY <2>2, <2>3, RestIs
    <2>4. CASE i # 1
      <3>1. i - 1 \in 1 .. Len(Rest(t)) /\ (i - 1) + 1 = i
        BY <2>1, <2>2, <2>4, RestIs
      <3>2. Rest(t)[i - 1] = agenda[t][i] /\ i - 1 \in DOMAIN Rest(t)
        BY <3>1, RestIs, SequenceIs DEF Sequence
      <3>. QED
        BY <3>2 DEF ToSet
    <2>. QED
      BY <2>3, <2>4
  <1>5. /\ InWindow = UNION {{e[2] : e \in {e \in ToSet(agenda[u]) : e[1] \in Storings}} :
                             u \in Threads}
        /\ InWindow' = UNION {{e[2] : e \in {e \in ToSet(agenda'[u]) : e[1] \in Storings}} :
                             u \in Threads}
    BY <1>1 DEF InWindow, Storing, Storings
  <1>6. ASSUME NEW id \in InWindow
        PROVE  \/ id \in InWindow'
               \/ agenda[t] # <<>> /\ Head(agenda[t])[1] \in Storings
                  /\ id = Head(agenda[t])[2]
    <2>0. PICK u \in Threads : \E e \in ToSet(agenda[u]) : e[1] \in Storings /\ id = e[2]
      BY <1>5
    <2>1. PICK e \in ToSet(agenda[u]) : e[1] \in Storings /\ id = e[2]
      BY <2>0
    <2>2. CASE e \in ToSet(agenda'[u])
      BY <1>5, <2>1, <2>2
    <2>3. CASE e \notin ToSet(agenda'[u])
      BY <1>2, <1>3, <1>4, <2>1, <2>3
    <2>. QED
      BY <2>2, <2>3
  <1>7. ASSUME NEW e \in ToSet(s), e[1] \in Storings PROVE e[2] \in InWindow'
    BY <1>3, <1>5, <1>7
  <1>. QED
    BY <1>6, <1>7

LEMMA LostAfter ==
    ASSUME NothingLost, NEW t \in Threads, NEW s,
           \A c \in Claims(item', s) : c \in Claims(item', agenda'[t]),
           \A u \in Threads : \A c \in Claims(item, agenda[u]) :
                c \in HeadClaims(t) \/ c \in Claims(item', agenda'[u]),
           \A id \in Ids : item'[id].live =>
                \/ id \in Listed'
                \/ <<"item", id>> \in Claims(item', s)
                \/ /\ item[id].live /\ (id \in Listed => id \in Listed')
                   /\ <<"item", id>> \notin HeadClaims(t),
           \A id \in Ids : item'[id].mine =>
                \/ <<"key", id>> \in Claims(item', s)
                \/ item[id].mine /\ <<"key", id>> \notin HeadClaims(t)
    PROVE  NothingLost'
  BY ZenonT(20) DEF NothingLost

-----------------------------------------------------------------------------
\* The pointers, before and after a step.
LEMMA PointerIs ==
    /\ \A t \in Threads, s \in Slots :
         /\ <<t, s>> \in Handles
         /\ Pointer(<<t, s>>) = hold[t][s]
         /\ Pointer(<<t, s>>)' = hold'[t][s]
    /\ \A id \in Ids :
         /\ <<id, "val">> \in Handles /\ <<id, "key">> \in Handles
         /\ Pointer(<<id, "val">>) = IF item[id].held THEN item[id].val ELSE Null
         /\ Pointer(<<id, "val">>)' = IF item'[id].held THEN item'[id].val ELSE Null
         /\ Pointer(<<id, "key">>) =
              IF item[id].live \/ item[id].mine THEN ImageOf(item[id].key) ELSE Null
         /\ Pointer(<<id, "key">>)' =
              IF item'[id].live \/ item'[id].mine THEN ImageOf(item'[id].key) ELSE Null
    /\ \A h \in Handles :
         \/ \E t \in Threads, s \in Slots : h = <<t, s>>
         \/ \E id \in Ids : h = <<id, "val">> \/ h = <<id, "key">>
  BY DEF Pointer, Handles, Slots, KeyExists, Val

LEMMA Finite == IsFiniteSet(Handles) /\ IsFiniteSet(Ids \X {"key"})
  <1>1. IsFiniteSet(Threads) /\ IsFiniteSet(Ids)
    BY StoreAssumption
  <1>2. IsFiniteSet({"img"}) /\ IsFiniteSet({"key"}) /\ IsFiniteSet({"val"})
    BY FS_Singleton
  <1>3. IsFiniteSet({"img"} \cup {"tile"}) /\ IsFiniteSet({"val"} \cup {"key"})
    BY <1>2, FS_AddElement
  <1>4. IsFiniteSet(({"img"} \cup {"tile"}) \cup {"dup"})
    BY <1>3, FS_AddElement
  <1>5. /\ Slots = ({"img"} \cup {"tile"}) \cup {"dup"}
        /\ {"val", "key"} = {"val"} \cup {"key"}
    BY DEF Slots
  <1>6. IsFiniteSet(Threads \X Slots) /\ IsFiniteSet(Ids \X {"val", "key"})
    BY <1>1, <1>3, <1>4, <1>5, FS_Product
  <1>7. IsFiniteSet(Ids \X {"key"})
    BY <1>1, <1>2, FS_Product
  <1>. QED
    BY <1>6, <1>7, FS_Union DEF Handles

LEMMA OwnersFinite ==
    ASSUME NEW v
    PROVE  /\ IsFiniteSet(Owners(v)) /\ Cardinality(Owners(v)) \in Nat
           /\ IsFiniteSet(KeyOwners(v)) /\ Cardinality(KeyOwners(v)) \in Nat
           /\ KeyOwners(v) \subseteq Owners(v)
  <1>1. Owners(v) \in SUBSET Handles /\ KeyOwners(v) \in SUBSET (Ids \X {"key"})
    BY DEF Owners, KeyOwners
  <1>2. IsFiniteSet(Owners(v)) /\ IsFiniteSet(KeyOwners(v))
    BY <1>1, Finite, FS_Subset
  <1>3. KeyOwners(v) \subseteq Owners(v)
    BY DEF Owners, KeyOwners, Handles
  <1>. QED
    BY <1>2, <1>3, FS_CardinalityType

\* One handle that gets, or loses, a value.
LEMMA OwnersGain ==
    ASSUME NEW h \in Handles, NEW w \in Vals, Pointer(h) = Null, Pointer(h)' = w,
           \A g \in Handles : g # h => Pointer(g)' = Pointer(g), NEW v \in Vals
    PROVE  /\ Cardinality(Owners(v)') =
                IF v = w THEN Cardinality(Owners(v)) + 1 ELSE Cardinality(Owners(v))
           /\ Cardinality(KeyOwners(v)') =
                IF v = w /\ h \in Ids \X {"key"} THEN Cardinality(KeyOwners(v)) + 1
                                                 ELSE Cardinality(KeyOwners(v))
  <1>1. Null \notin Vals /\ Ids \X {"key"} \subseteq Handles
    BY StoreAssumption DEF Handles, Vals
  <1>2. h \notin Owners(v) /\ h \notin KeyOwners(v)
    BY <1>1 DEF Owners, KeyOwners
  <1>3. Owners(v)' = IF v = w THEN Owners(v) \cup {h} ELSE Owners(v)
    BY <1>1 DEF Owners
  <1>4. KeyOwners(v)' = IF v = w /\ h \in Ids \X {"key"} THEN KeyOwners(v) \cup {h}
                                                         ELSE KeyOwners(v)
    BY <1>1 DEF KeyOwners
  <1>5. /\ Cardinality(Owners(v) \cup {h}) = Cardinality(Owners(v)) + 1
        /\ Cardinality(KeyOwners(v) \cup {h}) = Cardinality(KeyOwners(v)) + 1
    BY <1>2, OwnersFinite, FS_AddElement
  <1>. QED
    BY <1>3, <1>4, <1>5

LEMMA OwnersLose ==
    ASSUME NEW h \in Handles, NEW w \in Vals, Pointer(h) = w, Pointer(h)' = Null,
           \A g \in Handles : g # h => Pointer(g)' = Pointer(g), NEW v \in Vals
    PROVE  /\ Cardinality(Owners(v)') =
                IF v = w THEN Cardinality(Owners(v)) - 1 ELSE Cardinality(Owners(v))
           /\ Cardinality(KeyOwners(v)') =
                IF v = w /\ h \in Ids \X {"key"} THEN Cardinality(KeyOwners(v)) - 1
                                                 ELSE Cardinality(KeyOwners(v))
  <1>1. Null \notin Vals /\ Ids \X {"key"} \subseteq Handles
    BY StoreAssumption DEF Handles, Vals
  <1>2. /\ v = w => h \in Owners(v)
        /\ v = w /\ h \in Ids \X {"key"} => h \in KeyOwners(v)
    BY DEF Owners, KeyOwners
  <1>3. Owners(v)' = IF v = w THEN Owners(v) \ {h} ELSE Owners(v)
    BY <1>1 DEF Owners
  <1>4. KeyOwners(v)' = IF v = w /\ h \in Ids \X {"key"} THEN KeyOwners(v) \ {h}
                                                         ELSE KeyOwners(v)
    BY <1>1 DEF KeyOwners
  <1>5. /\ v = w => Cardinality(Owners(v) \ {h}) = Cardinality(Owners(v)) - 1
        /\ v = w /\ h \in Ids \X {"key"} =>
             Cardinality(KeyOwners(v) \ {h}) = Cardinality(KeyOwners(v)) - 1
    BY <1>2, OwnersFinite, FS_RemoveElement
  <1>. QED
    BY <1>3, <1>4, <1>5

\* Several handles, none of them in a key, that lose their values.
LEMMA OwnersRelease ==
    ASSUME NEW H, H \cap (Ids \X {"key"}) = {}, NEW v \in Vals,
           \A g \in Handles : Pointer(g)' = IF g \in H THEN Null ELSE Pointer(g)
    PROVE  /\ Cardinality(Owners(v)') = Cardinality(Owners(v)) - Cardinality(Owners(v) \cap H)
           /\ Cardinality(Owners(v) \cap H) \in Nat
           /\ KeyOwners(v)' = KeyOwners(v)
  <1>1. Null \notin Vals /\ Ids \X {"key"} \subseteq Handles
    BY StoreAssumption DEF Handles, Vals
  <1>2. Owners(v)' = Owners(v) \ H
    BY <1>1 DEF Owners
  <1>3. KeyOwners(v)' = KeyOwners(v)
    BY <1>1 DEF KeyOwners
  <1>4. Cardinality(Owners(v) \ H) = Cardinality(Owners(v)) - Cardinality(Owners(v) \cap H)
    BY OwnersFinite, FS_Difference
  <1>5. Cardinality(Owners(v) \cap H) \in Nat
    <2>1. Owners(v) \cap H \in SUBSET Owners(v)
      OBVIOUS
    <2>2. IsFiniteSet(Owners(v) \cap H)
      BY <2>1, OwnersFinite, FS_Subset
    <2>. QED
      BY <2>2, FS_CardinalityType
  <1>. QED
    BY <1>2, <1>3, <1>4, <1>5

Counters ==
    /\ refs \in [Vals -> Nat] /\ keyRefs \in [Vals -> Int]
    /\ mem \in [Vals -> {"free", "live", "dying"}]

LEMMA PointerType ==
    ASSUME Typed, ItemsGood, NEW h \in Handles
    PROVE  Pointer(h) \in Vals \cup {Null}
  <1>1. CASE \E t \in Threads, s \in Slots : h = <<t, s>>
    BY <1>1, PointerIs DEF Typed
  <1>2. ASSUME NEW id \in Ids, h = <<id, "val">> PROVE Pointer(h) \in Vals \cup {Null}
    BY <1>2, PointerIs DEF Typed, ItemType
  <1>3. ASSUME NEW id \in Ids, h = <<id, "key">> PROVE Pointer(h) \in Vals \cup {Null}
    <2>1. KeyExists(id) => item[id].key \in Keys
      BY DEF ItemsGood
    <2>2. \A k \in Keys : ImageOf(k) \in Vals \cup {Null}
      BY DEF Keys, TileKeys, ObjKeys, ImageOf, Vals
    <2>. QED
      BY <1>3, <2>1, <2>2, PointerIs DEF KeyExists
  <1>. QED
    BY <1>1, <1>2, <1>3, PointerIs

\* What has an owner is alive and counted.
LEMMA OwnedLives ==
    ASSUME Counters, Counted, NEW h \in Handles, NEW v \in Vals, Pointer(h) = v
    PROVE  refs[v] > 0 /\ mem[v] = "live"
  <1>1. Owners(v) # {}
    BY DEF Owners
  <1>2. Cardinality(Owners(v)) # 0 /\ Cardinality(Owners(v)) \in Nat
    BY <1>1, OwnersFinite, FS_EmptySet
  <1>. QED
    BY <1>2 DEF Counted, Counters

(***************************************************************************)
(* A step of the protocol keeps the counts.                                *)
(***************************************************************************)
LEMMA CountedStep ==
    ASSUME Counters, Counted, \A h \in Handles : Pointer(h) \in Vals \cup {Null},
           [Counting!Next]_(Counting!vars)
    PROVE  Counters' /\ Counted'
  <1>. DEFINE KeyHandles == Ids \X {"key"}
  <1>0. /\ Null \notin Vals /\ ShortMax \in Nat /\ KeyHandles \subseteq Handles
        /\ Counting!Normal = Handles \ KeyHandles
    BY StoreAssumption DEF Vals, Handles, Counting!Normal
  <1>f. \A v : /\ Cardinality(Owners(v)) \in Nat /\ Cardinality(KeyOwners(v)) \in Nat
    BY OwnersFinite
  <1>1. ASSUME NEW h \in Counting!Normal, NEW w \in Vals, Counting!New(h, w)
        PROVE  Counters' /\ Counted'
    <2>1. /\ h \in Handles /\ h \notin KeyHandles /\ Pointer(h) = Null /\ mem[w] = "free"
          /\ refs' = [refs EXCEPT ![w] = 1] /\ keyRefs' = [keyRefs EXCEPT ![w] = 0]
          /\ mem' = [mem EXCEPT ![w] = "live"]
          /\ Pointer(h)' = w
          /\ \A g \in Handles : g # h => Pointer(g)' = Pointer(g)
      BY <1>0, <1>1 DEF Counting!New
    <2>2. Counters'
      BY <2>1 DEF Counters
    <2>3. refs[w] = 0 /\ Cardinality(Owners(w)) = 0
      BY <1>f, <2>1 DEF Counted, Counters
    <2>4. ASSUME NEW v \in Vals
          PROVE  /\ refs'[v] >= Cardinality(Owners(v)')
                 /\ keyRefs'[v] <= Cardinality(KeyOwners(v)')
                 /\ keyRefs'[v] <= ShortMax
                 /\ mem'[v] # "live" => refs'[v] = 0
      <3>1. /\ Cardinality(Owners(v)') =
                 IF v = w THEN Cardinality(Owners(v)) + 1 ELSE Cardinality(Owners(v))
            /\ Cardinality(KeyOwners(v)') = Cardinality(KeyOwners(v))
        BY <2>1, OwnersGain
      <3>2. /\ refs[v] >= Cardinality(Owners(v)) /\ keyRefs[v] <= Cardinality(KeyOwners(v))
            /\ keyRefs[v] <= ShortMax /\ (mem[v] # "live" => refs[v] = 0)
        BY DEF Counted
      <3>. QED
        BY <1>0, <1>f, <2>1, <2>3, <3>1, <3>2 DEF Counters
    <2>. QED
      BY <2>2, <2>4 DEF Counted
  <1>2. ASSUME NEW h \in Counting!Normal, NEW g \in Counting!Normal, Counting!Keep(h, g)
        PROVE  Counters' /\ Counted'
    <2>. DEFINE w == Pointer(h)
    <2>1. /\ h \in Handles /\ g \in Handles /\ g \notin KeyHandles
          /\ w \in Vals /\ Pointer(g) = Null
          /\ refs' = IF refs[w] > 0 THEN [refs EXCEPT ![w] = @ + 1] ELSE refs
          /\ keyRefs' = keyRefs /\ mem' = mem
          /\ Pointer(g)' = w
          /\ \A d \in Handles : d # g => Pointer(d)' = Pointer(d)
      BY <1>0, <1>2 DEF Counting!Keep
    <2>2. refs[w] > 0 /\ mem[w] = "live"
      BY <2>1, OwnedLives
    <2>. HIDE DEF w
    <2>3. Counters'
      BY <2>1, <2>2 DEF Counters
    <2>4. ASSUME NEW v \in Vals
          PROVE  /\ refs'[v] >= Cardinality(Owners(v)')
                 /\ keyRefs'[v] <= Cardinality(KeyOwners(v)')
                 /\ keyRefs'[v] <= ShortMax
                 /\ mem'[v] # "live" => refs'[v] = 0
      <3>1. /\ Cardinality(Owners(v)') =
                 IF v = w THEN Cardinality(Owners(v)) + 1 ELSE Cardinality(Owners(v))
            /\ Cardinality(KeyOwners(v)') = Cardinality(KeyOwners(v))
        BY <2>1, OwnersGain
      <3>2. /\ refs[v] >= Cardinality(Owners(v)) /\ keyRefs[v] <= Cardinality(KeyOwners(v))
            /\ keyRefs[v] <= ShortMax /\ (mem[v] # "live" => refs[v] = 0)
        BY DEF Counted
      <3>. QED
        BY <1>0, <1>f, <2>1, <2>2, <3>1, <3>2 DEF Counters
    <2>. QED
      BY <2>3, <2>4 DEF Counted
  <1>3. ASSUME NEW H \in SUBSET Counting!Normal, Counting!Release(H)
        PROVE  Counters' /\ Counted'
    <2>1. /\ H \cap KeyHandles = {}
          /\ \A g \in Handles : Pointer(g)' = IF g \in H THEN Null ELSE Pointer(g)
          /\ keyRefs' = keyRefs
      BY <1>0, <1>3 DEF Counting!Release
    <2>2. \A v : Counting!Owners(v) = Owners(v)
      BY DEF Counting!Owners, Owners
    <2>3. /\ refs' = [v \in Vals |-> IF refs[v] > 0
                                     THEN refs[v] - Cardinality(Owners(v) \cap H) ELSE refs[v]]
          /\ mem' = [v \in Vals |-> IF refs[v] > 0 /\ refs'[v] = 0 THEN "dying" ELSE mem[v]]
      <3>0. \A S : Counting!Cardinality(S) = Cardinality(S)
        BY DEF Counting!Cardinality, Cardinality
      <3>1. Counting!RefsAfter(H) =
              [v \in Vals |-> IF refs[v] > 0
                              THEN refs[v] - Cardinality(Owners(v) \cap H) ELSE refs[v]]
        BY <2>2, <3>0 DEF Counting!RefsAfter
      <3>2. /\ refs' = Counting!RefsAfter(H)
            /\ mem' = [v \in Vals |-> IF refs[v] > 0 /\ Counting!RefsAfter(H)[v] = 0
                                      THEN "dying" ELSE mem[v]]
        BY <1>3 DEF Counting!Release
      <3>3. mem' = [v \in Vals |-> IF refs[v] > 0 /\ refs'[v] = 0 THEN "dying" ELSE mem[v]]
        BY <3>2
      <3>. QED
        BY <3>1, <3>2, <3>3
    <2>4. ASSUME NEW v \in Vals
          PROVE  /\ refs'[v] \in Nat
                 /\ refs'[v] >= Cardinality(Owners(v)')
                 /\ keyRefs'[v] <= Cardinality(KeyOwners(v)')
                 /\ keyRefs'[v] <= ShortMax
                 /\ mem'[v] # "live" => refs'[v] = 0
      <3>1. /\ Cardinality(Owners(v)') =
                 Cardinality(Owners(v)) - Cardinality(Owners(v) \cap H)
            /\ Cardinality(Owners(v) \cap H) \in Nat
            /\ KeyOwners(v)' = KeyOwners(v)
        BY <2>1, OwnersRelease
      <3>2. /\ refs[v] >= Cardinality(Owners(v)) /\ keyRefs[v] <= Cardinality(KeyOwners(v))
            /\ keyRefs[v] <= ShortMax /\ (mem[v] # "live" => refs[v] = 0)
            /\ refs[v] \in Nat
        BY DEF Counted, Counters
      <3>3. Cardinality(Owners(v) \cap H) <= Cardinality(Owners(v))
        <4>1. Owners(v) \cap H \in SUBSET Owners(v)
          OBVIOUS
        <4>. QED
          BY <4>1, OwnersFinite, FS_Subset
      <3>4. refs'[v] = IF refs[v] > 0
                       THEN refs[v] - Cardinality(Owners(v) \cap H) ELSE refs[v]
        BY <2>3
      <3>5. mem'[v] = IF refs[v] > 0 /\ refs'[v] = 0 THEN "dying" ELSE mem[v]
        BY <2>3
      <3>6. refs'[v] \in Nat /\ refs'[v] >= Cardinality(Owners(v)')
        BY <1>f, <3>1, <3>2, <3>3, <3>4
      <3>7. mem'[v] # "live" => refs'[v] = 0
        BY <3>2, <3>4, <3>5
      <3>. QED
        BY <2>1, <3>1, <3>2, <3>6, <3>7
    <2>5. Counters'
      BY <2>1, <2>3, <2>4 DEF Counters
    <2>. QED
      BY <2>4, <2>5 DEF Counted
  <1>4. ASSUME NEW h \in Counting!Normal, NEW k \in KeyHandles, Counting!KeepKey(h, k)
        PROVE  Counters' /\ Counted'
    <2>. DEFINE w == Pointer(h)
    <2>1. /\ h \in Handles /\ w \in Vals /\ Pointer(k) = Null
          /\ Pointer(k)' = w
          /\ \A d \in Handles : d # k => Pointer(d)' = Pointer(d)
          /\ mem' = mem
          /\ IF refs[w] > 0
             THEN /\ refs' = [refs EXCEPT ![w] = @ + 1]
                  /\ keyRefs' = [keyRefs EXCEPT ![w] = Counting!Short(@ + 1)]
             ELSE UNCHANGED <<refs, keyRefs>>
      BY <1>0, <1>4 DEF Counting!KeepKey, Vals
    <2>2. refs[w] > 0 /\ mem[w] = "live"
      BY <2>1, OwnedLives
    <2>3. /\ refs' = [refs EXCEPT ![w] = @ + 1]
          /\ keyRefs' = [keyRefs EXCEPT ![w] = Counting!Short(@ + 1)]
      BY <2>1, <2>2
    <2>4. \A n \in Int : n <= ShortMax => /\ Counting!Short(n + 1) \in Int
                                          /\ Counting!Short(n + 1) <= ShortMax
                                          /\ Counting!Short(n + 1) <= n + 1
      BY <1>0 DEF Counting!Short
    <2>. HIDE DEF w
    <2>5. Counters'
      BY <2>1, <2>2, <2>3, <2>4 DEF Counters, Counted
    <2>6. ASSUME NEW v \in Vals
          PROVE  /\ refs'[v] >= Cardinality(Owners(v)')
                 /\ keyRefs'[v] <= Cardinality(KeyOwners(v)')
                 /\ keyRefs'[v] <= ShortMax
                 /\ mem'[v] # "live" => refs'[v] = 0
      <3>0. k \in Handles /\ k \in Ids \X {"key"}
        BY <1>0
      <3>1. /\ Cardinality(Owners(v)') =
                 IF v = w THEN Cardinality(Owners(v)) + 1 ELSE Cardinality(Owners(v))
            /\ Cardinality(KeyOwners(v)') =
                 IF v = w THEN Cardinality(KeyOwners(v)) + 1 ELSE Cardinality(KeyOwners(v))
        BY <2>1, <3>0, OwnersGain
      <3>2. /\ refs[v] >= Cardinality(Owners(v)) /\ keyRefs[v] <= Cardinality(KeyOwners(v))
            /\ keyRefs[v] <= ShortMax /\ (mem[v] # "live" => refs[v] = 0)
            /\ keyRefs[v] \in Int /\ refs[v] \in Nat
        BY DEF Counted, Counters
      <3>3. /\ refs'[v] = IF v = w THEN refs[v] + 1 ELSE refs[v]
            /\ keyRefs'[v] = IF v = w THEN Counting!Short(keyRefs[v] + 1) ELSE keyRefs[v]
        BY <2>1, <2>3 DEF Counters
      <3>4. keyRefs'[v] <= Cardinality(KeyOwners(v)') /\ keyRefs'[v] <= ShortMax
        <4>1. CASE v = w
          <5>1. /\ Counting!Short(keyRefs[v] + 1) <= keyRefs[v] + 1
                /\ Counting!Short(keyRefs[v] + 1) <= ShortMax
                /\ Counting!Short(keyRefs[v] + 1) \in Int
            BY <2>4, <3>2
          <5>. QED
            BY <1>0, <1>f, <3>1, <3>2, <3>3, <4>1, <5>1
        <4>2. CASE v # w
          BY <3>1, <3>2, <3>3, <4>2
        <4>. QED
          BY <4>1, <4>2
      <3>5. refs'[v] >= Cardinality(Owners(v)') /\ (mem'[v] # "live" => refs'[v] = 0)
        BY <1>f, <2>1, <2>2, <3>1, <3>2, <3>3
      <3>. QED
        BY <3>4, <3>5
    <2>. QED
      BY <2>5, <2>6 DEF Counted
  <1>5. ASSUME NEW k \in KeyHandles, Counting!DropKey(k)
        PROVE  Counters' /\ Counted'
    <2>. DEFINE w == Pointer(k)
    <2>1. /\ k \in Handles /\ w \in Vals
          /\ Pointer(k)' = Null
          /\ \A d \in Handles : d # k => Pointer(d)' = Pointer(d)
          /\ refs' = [refs EXCEPT ![w] = @ - 1]
          /\ keyRefs' = [keyRefs EXCEPT ![w] = @ - 1]
          /\ mem' = IF refs[w] = 1 THEN [mem EXCEPT ![w] = "dying"] ELSE mem
      BY <1>0, <1>5 DEF Counting!DropKey
    <2>2. refs[w] > 0 /\ mem[w] = "live"
      BY <2>1, OwnedLives
    <2>6. \A v \in Vals :
           /\ Cardinality(Owners(v)') =
                 IF v = w THEN Cardinality(Owners(v)) - 1 ELSE Cardinality(Owners(v))
           /\ Cardinality(KeyOwners(v)') =
                 IF v = w THEN Cardinality(KeyOwners(v)) - 1 ELSE Cardinality(KeyOwners(v))
      BY <2>1, OwnersLose
    <2>. HIDE DEF w
    <2>3. Counters'
      BY <2>1, <2>2 DEF Counters
    <2>4. ASSUME NEW v \in Vals
          PROVE  /\ refs'[v] >= Cardinality(Owners(v)')
                 /\ keyRefs'[v] <= Cardinality(KeyOwners(v)')
                 /\ keyRefs'[v] <= ShortMax
                 /\ mem'[v] # "live" => refs'[v] = 0
      <3>1. /\ Cardinality(Owners(v)') =
                 IF v = w THEN Cardinality(Owners(v)) - 1 ELSE Cardinality(Owners(v))
            /\ Cardinality(KeyOwners(v)') =
                 IF v = w THEN Cardinality(KeyOwners(v)) - 1 ELSE Cardinality(KeyOwners(v))
        BY <2>6
      <3>2. /\ refs[v] >= Cardinality(Owners(v)) /\ keyRefs[v] <= Cardinality(KeyOwners(v))
            /\ keyRefs[v] <= ShortMax /\ (mem[v] # "live" => refs[v] = 0)
            /\ keyRefs[v] \in Int /\ refs[v] \in Nat
        BY DEF Counted, Counters
      <3>3. /\ refs'[v] = IF v = w THEN refs[v] - 1 ELSE refs[v]
            /\ keyRefs'[v] = IF v = w THEN keyRefs[v] - 1 ELSE keyRefs[v]
            /\ mem'[v] = IF refs[w] = 1 /\ v = w THEN "dying" ELSE mem[v]
        BY <2>1 DEF Counters
      <3>. QED
        BY <1>0, <1>f, <2>1, <2>2, <3>1, <3>2, <3>3
    <2>. QED
      BY <2>3, <2>4 DEF Counted
  <1>6. ASSUME NEW w \in Vals, Counting!Destroy(w)
        PROVE  Counters' /\ Counted'
    <2>1. /\ mem[w] = "dying" /\ mem' = [mem EXCEPT ![w] = "free"]
          /\ refs' = refs /\ keyRefs' = keyRefs
          /\ \A h \in Handles : Pointer(h)' = Pointer(h)
      BY <1>6 DEF Counting!Destroy
    <2>2. \A v : Owners(v)' = Owners(v) /\ KeyOwners(v)' = KeyOwners(v)
      BY <1>0, <2>1 DEF Owners, KeyOwners
    <2>3. Counters'
      BY <2>1 DEF Counters
    <2>. QED
      BY <2>1, <2>2, <2>3 DEF Counted, Counters
  <1>7. CASE UNCHANGED Counting!vars
    <2>1. /\ refs' = refs /\ keyRefs' = keyRefs /\ mem' = mem
          /\ \A h \in Handles : Pointer(h)' = Pointer(h)
      BY <1>7 DEF Counting!vars
    <2>2. \A v : Owners(v)' = Owners(v) /\ KeyOwners(v)' = KeyOwners(v)
      BY <1>0, <2>1 DEF Owners, KeyOwners
    <2>. QED
      BY <2>1, <2>2 DEF Counted, Counters
  <1>8. ASSUME NEW h \in Counting!Normal, NEW v \in Vals, Counting!TakeStatic(h, v) PROVE FALSE
    BY <1>8 DEF Counting!TakeStatic
  <1>. QED
    BY <1>1, <1>2, <1>3, <1>4, <1>5, <1>6, <1>7, <1>8 DEF Counting!Next

-----------------------------------------------------------------------------
\* Short sequences of operations.
LEMMA OrderedLiterals ==
    /\ Ordered(<<>>)
    /\ \A a : a[1] # "store" \/ a[2] = Null => Ordered(<<a>>)
    /\ \A a, b : /\ b[1] \in Later /\ (b[1] \in Relying => a[1] \notin Changing)
                 /\ a[1] = "store" /\ a[2] # Null => b = <<"dropkey", a[2]>>
                 => Ordered(<<a, b>>)
  <1>1. Ordered(<<>>)
    BY DEF Ordered
  <1>2. ASSUME NEW a, a[1] # "store" \/ a[2] = Null PROVE Ordered(<<a>>)
    BY <1>2 DEF Ordered
  <1>3. ASSUME NEW a, NEW b, b[1] \in Later, b[1] \in Relying => a[1] \notin Changing,
               a[1] = "store" /\ a[2] # Null => b = <<"dropkey", a[2]>>
        PROVE  Ordered(<<a, b>>)
    <2>. DEFINE q == <<a, b>>
    <2>1. q[1] = a /\ q[2] = b /\ Len(q) = 2 /\ DOMAIN q = {1, 2}
      OBVIOUS
    <2>. HIDE DEF q
    <2>2. ASSUME NEW i \in DOMAIN q, i > 1
          PROVE  /\ q[i][1] \in Later
                 /\ q[i][1] \in Relying => \A j \in 1 .. i - 1 : q[j][1] \notin Changing
      <3>1. i = 2 /\ \A j \in 1 .. i - 1 : j = 1
        BY <2>1, <2>2
      <3>. QED
        BY <1>3, <2>1, <3>1
    <2>3. Ordered(q)
      BY <1>3, <2>1, <2>2 DEF Ordered
    <2>. QED
      BY <2>3 DEF q
  <1>. QED
    BY <1>1, <1>2, <1>3

LEMMA ClaimLiterals ==
    ASSUME NEW I
    PROVE  /\ Claims(I, <<>>) = {} /\ Distinct(I, <<>>)
           /\ \A a : Claims(I, <<a>>) = Claim(I, a) /\ Distinct(I, <<a>>)
           /\ \A a, b : /\ Claims(I, <<a, b>>) = Claim(I, a) \cup Claim(I, b)
                        /\ Claim(I, a) \cap Claim(I, b) = {} => Distinct(I, <<a, b>>)
  <1>0. \A a : Claims(I, a) = UNION {Claim(I, e) : e \in ToSet(a)}
    BY DEF Claims, ToSet
  <1>1. Claims(I, <<>>) = {} /\ Distinct(I, <<>>)
    BY DEF Claims, Distinct
  <1>2. ASSUME NEW a PROVE Claims(I, <<a>>) = Claim(I, a) /\ Distinct(I, <<a>>)
    <2>0. ToSet(<<a>>) = {a}
      BY Literals
    <2>1. Claims(I, <<a>>) = Claim(I, a)
      BY <1>0, <2>0
    <2>2. DOMAIN <<a>> = {1}
      OBVIOUS
    <2>. QED
      BY <2>1, <2>2 DEF Distinct
  <1>3. ASSUME NEW a, NEW b
        PROVE  /\ Claims(I, <<a, b>>) = Claim(I, a) \cup Claim(I, b)
               /\ Claim(I, a) \cap Claim(I, b) = {} => Distinct(I, <<a, b>>)
    <2>1. Claims(I, <<a, b>>) = Claim(I, a) \cup Claim(I, b)
      BY <1>0, Literals
    <2>. DEFINE q == <<a, b>>
    <2>2. DOMAIN q = {1, 2} /\ q[1] = a /\ q[2] = b
      OBVIOUS
    <2>. HIDE DEF q
    <2>3. Claim(I, a) \cap Claim(I, b) = {} => Distinct(I, q)
      BY <2>2 DEF Distinct
    <2>. QED
      BY <2>1, <2>3 DEF q
  <1>. QED
    BY <1>1, <1>2, <1>3

\* The operations that are about no item and no value of their own.
Owning == Storings \cup {"unref", "chain", "dropkey", "destroy"}

LEMMA PlainClaims == \A I, e : e[1] \notin Owning => Claim(I, e) = {}
  BY DEF Claim, Owning, Storings

Protocol == [Counting!Next]_(Counting!vars)

(***************************************************************************)
(* A step that leaves the store and the values alone, and whose operation  *)
(* passes on what it alone may do.                                         *)
(***************************************************************************)
LEMMA Quiet ==
    ASSUME IInv, NEW t \in Threads, NEW s, Sequence(s), Go(t, s),
           lru' = lru, hash' = hash, item' = item, hold' = hold,
           refs' = refs, keyRefs' = keyRefs, mem' = mem,
           Ordered(s),
           \A e \in ToSet(s) : e[1] \in Changing =>
               agenda[t] = <<>> \/ Head(agenda[t])[1] \in Changing,
           \A e \in ToSet(s) : Sound(t, e),
           Distinct(item, s), Claims(item, s) = HeadClaims(t),
           agenda[t] # <<>> /\ Head(agenda[t])[1] \in Storings =>
               \E e \in ToSet(s) : e[1] \in Storings /\ e[2] = Head(agenda[t])[2]
    PROVE  IInv' /\ Protocol
  <1>i. /\ Typed /\ SlotsGood /\ ItemsGood /\ ListGood /\ HashGood
        /\ AgendaSound /\ AgendaOrdered /\ Claimed /\ NothingLost /\ Counted
    BY DEF IInv
  <1>1. Typed'
    BY <1>i, GoIs DEF Typed
  <1>2. SlotsGood' /\ ItemsGood' /\ ListGood'
    BY <1>i DEF SlotsGood, ItemsGood, ListGood, KeyExists, Val, Listed
  <1>3. HashGood'
    <2>1. InWindow \subseteq InWindow'
      BY <1>i, WindowAfter
    <2>. QED
      BY <1>i, <2>1 DEF HashGood, Listed
  <1>4. AgendaSound'
    <2>1. \A u, e : Sound(u, e) => Sound(u, e)'
      BY SMTT(40) DEF Sound, Unused, Decoding, Secured, Out, Val, Listed
    <2>2. \A u \in Threads : \A e \in Staying(t, u) : Sound(u, e)
      BY <1>i, StayingIs
    <2>. QED
      BY <1>i, <2>1, <2>2, SoundAfter
  <1>5. AgendaOrdered'
    <2>1. \A i \in DOMAIN s : s[i] \in ToSet(s)
      BY DEF ToSet
    <2>. QED
      BY <1>i, <2>1, OrderedAfter
  <1>6. /\ Claimed'
        /\ \A c \in Claims(item', s) : c \in Claims(item', agenda'[t])
        /\ \A u \in Threads : \A c \in Claims(item, agenda[u]) :
                c \in HeadClaims(t) \/ c \in Claims(item', agenda'[u])
    BY <1>i, ClaimedAfter
  <1>7. NothingLost'
    <2>1. \A id \in Ids : item'[id].live =>
                \/ <<"item", id>> \in Claims(item', s)
                \/ /\ item[id].live /\ (id \in Listed => id \in Listed')
                   /\ <<"item", id>> \notin HeadClaims(t)
      BY DEF Listed
    <2>2. \A id \in Ids : item'[id].mine =>
                \/ <<"key", id>> \in Claims(item', s)
                \/ item[id].mine /\ <<"key", id>> \notin HeadClaims(t)
      OBVIOUS
    <2>. QED
      BY <1>i, <1>6, <2>1, <2>2, LostAfter
  <1>8. \A h \in Handles : Pointer(h)' = Pointer(h)
    BY DEF Pointer, KeyExists, Val
  <1>9. UNCHANGED Counting!vars
    BY <1>8 DEF Counting!vars
  <1>10. Counted'
    <2>1. Counters
      BY <1>i DEF Typed, Counters
    <2>. QED
      BY <1>i, <1>9, <2>1, PointerType, CountedStep
  <1>. QED
    BY <1>1, <1>2, <1>3, <1>4, <1>5, <1>6, <1>7, <1>9, <1>10 DEF IInv, Protocol

\* The same for operations that are about nothing of their own.
LEMMA QuietPlain ==
    ASSUME IInv, NEW t \in Threads, NEW s, Sequence(s), Go(t, s),
           lru' = lru, hash' = hash, item' = item, hold' = hold,
           refs' = refs, keyRefs' = keyRefs, mem' = mem,
           Ordered(s),
           agenda[t] = <<>> \/ Head(agenda[t])[1] \notin Owning,
           \A e \in ToSet(s) :
               /\ e[1] \notin Owning /\ Sound(t, e)
               /\ e[1] \in Changing => agenda[t] = <<>> \/ Head(agenda[t])[1] \in Changing
    PROVE  IInv' /\ Protocol
  <1>1. HeadClaims(t) = {}
    BY PlainClaims DEF HeadClaims
  <1>2. Claims(item, s) = {} /\ Distinct(item, s)
    <2>1. \A i \in DOMAIN s : Claim(item, s[i]) = {}
      BY PlainClaims DEF ToSet
    <2>. QED
      BY <2>1 DEF Claims, Distinct
  <1>3. agenda[t] # <<>> => Head(agenda[t])[1] \notin Storings
    BY DEF Owning
  <1>. QED
    BY <1>1, <1>2, <1>3, Quiet

\* The state of the store and of the values.
Still == /\ lru' = lru /\ hash' = hash /\ item' = item /\ hold' = hold
         /\ refs' = refs /\ keyRefs' = keyRefs /\ mem' = mem

LEMMA QuietNone ==
    ASSUME IInv, NEW t \in Threads, Go(t, <<>>), Still,
           agenda[t] = <<>> \/ Head(agenda[t])[1] \notin Owning
    PROVE  IInv' /\ Protocol
  BY QuietPlain, Literals, OrderedLiterals DEF Still

LEMMA QuietOne ==
    ASSUME IInv, NEW t \in Threads, NEW e, Go(t, <<e>>), Still,
           agenda[t] = <<>> \/ Head(agenda[t])[1] \notin Owning,
           e[1] \notin Owning, e[1] # "store", Sound(t, e),
           e[1] \in Changing => agenda[t] = <<>> \/ Head(agenda[t])[1] \in Changing
    PROVE  IInv' /\ Protocol
  BY QuietPlain, Literals, OrderedLiterals DEF Still

\* Operations that rely on nothing.
LEMMA FreeSound ==
    \A u, e : e[1] \in {"malloc", "phase", "nomem", "scav", "deferend", "reap"}
        => Sound(u, e)
  BY DEF Sound

LEMMA QuietFree ==
    ASSUME IInv, NEW t \in Threads, NEW e, Go(t, <<e>>), Still,
           agenda[t] = <<>> \/ Head(agenda[t])[1] \notin Owning,
           e[1] \in {"malloc", "phase", "nomem", "scav", "deferend", "reap"}
    PROVE  IInv' /\ Protocol
  BY QuietOne, FreeSound DEF Owning, Storings, Changing

LEMMA MallocStep ==
    ASSUME IInv, NEW t \in Threads, NEW n, Malloc(t, n)
    PROVE  IInv' /\ Protocol
  <1>1. Go(t, << <<"malloc", n, 0>> >>) /\ Still /\ agenda[t] = <<>>
    BY DEF Malloc, Still, storeVars, valVars, Idle
  <1>. QED
    BY <1>1, QuietFree

LEMMA TryMallocStep ==
    ASSUME IInv, NEW t \in Threads, TryMalloc(t)
    PROVE  IInv' /\ Protocol
  <1>1. Still /\ Head(agenda[t])[1] \notin Owning
    BY DEF TryMalloc, Still, storeVars, valVars, At, Owning, Storings
  <1>2. Go(t, <<>>) \/ Go(t, << <<"phase", Arg(t, 2), Arg(t, 3)>> >>)
    BY DEF TryMalloc
  <1>. QED
    BY <1>1, <1>2, QuietFree, QuietNone

LEMMA PhasesStep ==
    ASSUME IInv, NEW t \in Threads, ScavengePhases(t)
    PROVE  IInv' /\ Protocol
  <1>1. Still /\ Head(agenda[t])[1] \notin Owning
    BY DEF ScavengePhases, Still, valVars, At, Owning, Storings
  <1>2. (\E a, b : Go(t, << <<"scav", a, TRUE, b>> >>)) \/ Go(t, << <<"nomem">> >>)
    BY DEF ScavengePhases
  <1>3. CASE Go(t, << <<"nomem">> >>)
    BY <1>1, <1>3, QuietFree
  <1>4. ASSUME NEW a, NEW b, Go(t, << <<"scav", a, TRUE, b>> >>) PROVE IInv' /\ Protocol
    BY <1>1, <1>4, QuietFree
  <1>. QED
    BY <1>2, <1>3, <1>4

LEMMA OutOfMemoryStep ==
    ASSUME IInv, NEW t \in Threads, OutOfMemory(t)
    PROVE  IInv' /\ Protocol
  <1>1. Still /\ Head(agenda[t])[1] \notin Owning /\ Go(t, <<>>)
    BY DEF OutOfMemory, Still, storeVars, valVars, At, Owning, Storings
  <1>. QED
    BY <1>1, QuietNone

LEMMA ShrinkStep ==
    ASSUME IInv, NEW t \in Threads, NEW p, Shrink(t, p)
    PROVE  IInv' /\ Protocol
  <1>1. Still /\ agenda[t] = <<>>
    BY DEF Shrink, Still, valVars, Idle
  <1>2. Go(t, <<>>) \/ \E n : Go(t, << <<"scav", n, TRUE, <<>> >> >>)
    BY DEF Shrink, ScavengeOrNot
  <1>3. ASSUME NEW n, Go(t, << <<"scav", n, TRUE, <<>> >> >>) PROVE IInv' /\ Protocol
    BY <1>1, <1>3, QuietFree
  <1>. QED
    BY <1>1, <1>2, <1>3, QuietNone

LEMMA EmptyStoreStep ==
    ASSUME IInv, EmptiedAlone, NEW t \in Threads, EmptyStore(t)
    PROVE  IInv' /\ Protocol
  <1>. DEFINE e == <<"empty">>
  <1>1. Go(t, <<e>>) /\ Still /\ agenda[t] = <<>> /\ Threads = {Doc}
    BY DEF EmptyStore, Still, storeVars, valVars, Idle, EmptiedAlone
  <1>2. Sound(t, e) /\ e[1] \notin Owning /\ e[1] # "store"
    BY <1>1 DEF Sound, Owning, Storings
  <1>. HIDE DEF e
  <1>. QED
    BY <1>1, <1>2, QuietOne

LEMMA DeferEndStep ==
    ASSUME IInv, NEW t \in Threads, DeferEnd(t)
    PROVE  IInv' /\ Protocol
  <1>1. Still /\ Head(agenda[t])[1] \notin Owning
    BY DEF DeferEnd, Still, valVars, At, Owning, Storings
  <1>2. Go(t, <<>>) \/ Go(t, << <<"reap">> >>)
    BY DEF DeferEnd
  <1>. QED
    BY <1>1, <1>2, QuietFree, QuietNone

LEMMA ReturnExistingStep ==
    ASSUME IInv, NEW t \in Threads, ReturnExisting(t)
    PROVE  IInv' /\ Protocol
  <1>1. Still /\ Head(agenda[t])[1] \notin Owning /\ Go(t, <<>>)
    BY DEF ReturnExisting, Still, storeVars, valVars, At, Owning, Storings
  <1>. QED
    BY <1>1, QuietNone

LEMMA PurgeStep ==
    ASSUME IInv, NEW o \in Objs, Purge(o)
    PROVE  IInv' /\ Protocol
  <1>. DEFINE e == <<"filter", {<<Null, o>>}>>
  <1>1. Go(Doc, <<e>>) /\ Still /\ agenda[Doc] = <<>> /\ Doc \in Threads
    BY StoreAssumption DEF Purge, Still, storeVars, valVars, Idle
  <1>2. Sound(Doc, e)
    BY DEF Sound, ObjKeys
  <1>3. e[1] \notin Owning /\ e[1] # "store"
    BY DEF Owning, Storings
  <1>. HIDE DEF e
  <1>. QED
    BY <1>1, <1>2, <1>3, QuietOne

LEMMA CloseDocumentStep ==
    ASSUME IInv, CloseDocument
    PROVE  IInv' /\ Protocol
  <1>. DEFINE e == <<"filter", ObjKeys>>
              d == <<"deferend">>
  <1>1. Go(Doc, <<e, d>>) /\ Still /\ agenda[Doc] = <<>> /\ Doc \in Threads
    BY StoreAssumption DEF CloseDocument, Still, valVars, Idle
  <1>2. Sound(Doc, e) /\ Sound(Doc, d)
    BY DEF Sound
  <1>3. /\ e[1] \notin Owning /\ e[1] # "store" /\ d[1] \notin Owning
        /\ d[1] \in Later /\ d[1] \notin Relying
    BY DEF Owning, Storings, Later, Relying
  <1>. HIDE DEF e, d
  <1>4. Sequence(<<e, d>>) /\ ToSet(<<e, d>>) = {e, d} /\ Ordered(<<e, d>>)
    BY <1>3, Literals, OrderedLiterals
  <1>. QED
    BY <1>1, <1>2, <1>3, <1>4, QuietPlain DEF Still

LEMMA DropListStep ==
    ASSUME IInv, NEW t \in Threads, DropList(t)
    PROVE  IInv' /\ Protocol
  <1>. DEFINE e == <<"dropimage">>
              d == <<"deferend">>
  <1>1. Go(t, <<e, d>>) /\ Still /\ agenda[t] = <<>> /\ hold[t]["img"] # Null
    BY DEF DropList, Still, valVars, Idle
  <1>2. Sound(t, e) /\ Sound(t, d)
    BY <1>1 DEF Sound
  <1>3. /\ e[1] \notin Owning /\ e[1] # "store" /\ d[1] \notin Owning
        /\ d[1] \in Later /\ d[1] \notin Relying
    BY DEF Owning, Storings, Later, Relying
  <1>. HIDE DEF e, d
  <1>4. Sequence(<<e, d>>) /\ ToSet(<<e, d>>) = {e, d} /\ Ordered(<<e, d>>)
    BY <1>3, Literals, OrderedLiterals
  <1>. QED
    BY <1>1, <1>2, <1>3, <1>4, QuietPlain DEF Still

-----------------------------------------------------------------------------
\* Steps of the protocol, told by the pointers they change.
NormalHandles == Handles \ (Ids \X {"key"})

LEMMA NormalIs ==
    /\ Counting!Normal = NormalHandles
    /\ \A t \in Threads, s \in Slots : <<t, s>> \in NormalHandles
    /\ \A id \in Ids : <<id, "val">> \in NormalHandles
    /\ NormalHandles \subseteq Handles /\ Ids \X {"key"} \subseteq Handles
  BY DEF Counting!Normal, NormalHandles, Handles, Slots

LEMMA NewStep ==
    ASSUME NEW h \in NormalHandles, NEW w \in Vals, Pointer(h) = Null, Pointer(h)' = w,
           \A g \in Handles : g # h => Pointer(g)' = Pointer(g),
           mem[w] = "free", refs' = [refs EXCEPT ![w] = 1],
           keyRefs' = [keyRefs EXCEPT ![w] = 0], mem' = [mem EXCEPT ![w] = "live"]
    PROVE  Protocol
  <1>1. h \in Handles
    BY NormalIs
  <1>2. [g \in Handles |-> Pointer(g)'] = [[g \in Handles |-> Pointer(g)] EXCEPT ![h] = w]
    BY <1>1
  <1>3. Counting!New(h, w)
    BY <1>1, <1>2, NormalIs DEF Counting!New
  <1>. QED
    BY <1>3, NormalIs DEF Protocol, Counting!Next

LEMMA KeepStep ==
    ASSUME NEW h \in NormalHandles, NEW g \in NormalHandles, Pointer(h) \in Vals,
           Pointer(g) = Null, Pointer(g)' = Pointer(h),
           \A d \in Handles : d # g => Pointer(d)' = Pointer(d),
           refs' = Ref(refs, Pointer(h)), keyRefs' = keyRefs, mem' = mem
    PROVE  Protocol
  <1>0. h \in Handles /\ g \in Handles /\ Null \notin Vals
    BY NormalIs, StoreAssumption DEF Vals
  <1>1. [d \in Handles |-> Pointer(d)'] =
          [[d \in Handles |-> Pointer(d)] EXCEPT ![g] = Pointer(h)]
    BY <1>0
  <1>2. Counting!Keep(h, g)
    BY <1>0, <1>1, NormalIs DEF Counting!Keep, Ref
  <1>. QED
    BY <1>2, NormalIs DEF Protocol, Counting!Next

LEMMA ReleaseStep ==
    ASSUME NEW H \in SUBSET NormalHandles, H # {},
           \A h \in H : Pointer(h) # Null,
           \A g \in Handles : Pointer(g)' = IF g \in H THEN Null ELSE Pointer(g),
           refs' = [v \in Vals |-> IF refs[v] > 0
                                   THEN refs[v] - Cardinality(Owners(v) \cap H) ELSE refs[v]],
           mem' = Dying(refs'), keyRefs' = keyRefs
    PROVE  Protocol
  <1>0. H \subseteq Handles
    BY NormalIs
  <1>1. [g \in Handles |-> Pointer(g)'] =
          [g \in Handles |-> IF g \in H THEN Null ELSE [d \in Handles |-> Pointer(d)][g]]
    OBVIOUS
  <1>2. \A S : Counting!Cardinality(S) = Cardinality(S)
    BY DEF Counting!Cardinality, Cardinality
  <1>3. \A v : Counting!Owners(v) = Owners(v)
    BY DEF Counting!Owners, Owners
  <1>4. Counting!RefsAfter(H) = refs'
    BY <1>2, <1>3 DEF Counting!RefsAfter
  <1>5. mem' = [v \in Vals |-> IF refs[v] > 0 /\ Counting!RefsAfter(H)[v] = 0
                               THEN "dying" ELSE mem[v]]
    BY <1>4 DEF Dying
  <1>6. \A h \in H : [d \in Handles |-> Pointer(d)][h] # Null
    BY <1>0
  <1>7. Counting!Release(H)
    BY <1>1, <1>4, <1>5, <1>6 DEF Counting!Release
  <1>. QED
    BY <1>7, NormalIs DEF Protocol, Counting!Next

LEMMA KeepKeyStep ==
    ASSUME NEW h \in NormalHandles, NEW k \in Ids \X {"key"}, Pointer(h) \in Images,
           Pointer(k) = Null, Pointer(k)' = Pointer(h),
           \A d \in Handles : d # k => Pointer(d)' = Pointer(d),
           refs[Pointer(h)] > 0, keyRefs[Pointer(h)] \in Int,
           keyRefs[Pointer(h)] <= ShortMax,
           refs' = [refs EXCEPT ![Pointer(h)] = @ + 1],
           keyRefs' = [keyRefs EXCEPT ![Pointer(h)] =
                         IF keyRefs[Pointer(h)] + 1 > ShortMax THEN -ShortMax - 1 ELSE @ + 1],
           mem' = mem
    PROVE  Protocol
  <1>0. h \in Handles /\ k \in Handles /\ ShortMax \in Nat
    BY NormalIs, StoreAssumption
  <1>. DEFINE w == Pointer(h)
  <1>1. [d \in Handles |-> Pointer(d)'] = [[d \in Handles |-> Pointer(d)] EXCEPT ![k] = w]
    BY <1>0
  <1>2. Counting!Short(keyRefs[w] + 1) =
          IF keyRefs[w] + 1 > ShortMax THEN -ShortMax - 1 ELSE keyRefs[w] + 1
    BY <1>0 DEF Counting!Short
  <1>. HIDE DEF w
  <1>3. keyRefs' = [keyRefs EXCEPT ![w] = Counting!Short(@ + 1)]
    BY <1>2 DEF w
  <1>4. [d \in Handles |-> Pointer(d)][h] = w /\ [d \in Handles |-> Pointer(d)][k] = Null
    BY <1>0 DEF w
  <1>5. Counting!KeepKey(h, k)
    BY <1>1, <1>3, <1>4, NormalIs DEF Counting!KeepKey, w
  <1>. QED
    BY <1>5, NormalIs DEF Protocol, Counting!Next

LEMMA DropKeyStep ==
    ASSUME NEW k \in Ids \X {"key"}, NEW w, Pointer(k) = w, w # Null, Pointer(k)' = Null,
           \A d \in Handles : d # k => Pointer(d)' = Pointer(d),
           refs' = [refs EXCEPT ![w] = @ - 1], keyRefs' = [keyRefs EXCEPT ![w] = @ - 1],
           mem' = IF refs[w] = 1 THEN [mem EXCEPT ![w] = "dying"] ELSE mem
    PROVE  Protocol
  <1>0. k \in Handles
    BY NormalIs
  <1>1. [d \in Handles |-> Pointer(d)'] = [[d \in Handles |-> Pointer(d)] EXCEPT ![k] = Null]
    BY <1>0
  <1>2. [d \in Handles |-> Pointer(d)][k] = w
    BY <1>0
  <1>3. Counting!DropKey(k)
    BY <1>1, <1>2 DEF Counting!DropKey
  <1>. QED
    BY <1>3 DEF Protocol, Counting!Next

LEMMA DestroyStep ==
    ASSUME NEW w \in Vals, mem[w] = "dying", mem' = [mem EXCEPT ![w] = "free"],
           refs' = refs, keyRefs' = keyRefs, \A d \in Handles : Pointer(d)' = Pointer(d)
    PROVE  Protocol
  <1>1. Counting!Destroy(w)
    BY DEF Counting!Destroy
  <1>. QED
    BY <1>1 DEF Protocol, Counting!Next

LEMMA StutterStep ==
    ASSUME refs' = refs, keyRefs' = keyRefs, mem' = mem,
           \A d \in Handles : Pointer(d)' = Pointer(d)
    PROVE  Protocol
  BY DEF Protocol, Counting!vars

LEMMA CountedAfter ==
    ASSUME Typed, ItemsGood, Counted, Protocol
    PROVE  Counters' /\ Counted'
  <1>1. Counters
    BY DEF Typed, Counters
  <1>. QED
    BY <1>1, PointerType, CountedStep DEF Protocol

-----------------------------------------------------------------------------
(***************************************************************************)
(* What an operation relies on lasts, if a step leaves alone what the      *)
(* operation is about.                                                     *)
(***************************************************************************)
SameItem(id) == /\ item'[id].live = item[id].live /\ item'[id].held = item[id].held
                /\ item'[id].key = item[id].key /\ item'[id].val = item[id].val

LEMMA SoundLasts ==
    ASSUME NEW u, NEW e, Sound(u, e),
           hold'[u] = hold[u] \/ e[1] \in Later \ Relying,
           \A id \in Ids : <<"item", id>> \in Claim(item, e) =>
               SameItem(id) /\ (Out(id) => Out(id)'),
           e[1] = "retval" => SameItem(e[2]),
           e[1] \in Storings \cup {"retval"} /\ Secured(u, e[2])
               /\ item[e[2]].key \in Hashed => hash'[item[e[2]].key] = e[2],
           e[1] \in {"load", "store"} /\ u = Doc =>
               \A k \in ObjKeys : Unused(k) => Unused(k)',
           \A v : <<"mem", v>> \in Claim(item, e) /\ mem[v] = "dying" => mem'[v] = "dying",
           \A id : <<"key", id>> \in Claim(item, e) /\ item[id].mine => item'[id].mine,
           e[1] = "store" /\ e[2] \in Ids /\ item[e[2]].mine => item'[e[2]] = item[e[2]]
    PROVE  Sound(u, e)'
  <1>h. e[1] \notin Later \ Relying => hold'[u] = hold[u]
    OBVIOUS
  <1>1. CASE e[1] = "load"
    <2>1. hold'[u] = hold[u]
      BY <1>1 DEF Later, Relying
    <2>2. <<Null, e[2]>> \in ObjKeys /\ Unused(<<Null, e[2]>>)
      BY <1>1 DEF Sound, ObjKeys
    <2>3. Unused(<<Null, e[2]>>)'
      BY <1>1, <2>2 DEF Sound
    <2>. QED
      BY <1>1, <2>1, <2>3 DEF Sound
  <1>2. CASE e[1] = "store"
    <2>1. hold'[u] = hold[u]
      BY <1>2 DEF Later, Relying
    <2>2. Decoding(u, e[3]) => Decoding(u, e[3])'
      BY <2>1 DEF Decoding
    <2>3. u = Doc /\ e[3] \in ObjKeys /\ Unused(e[3]) => Unused(e[3])'
      BY <1>2
    <2>. QED
      BY <1>2, <2>1, <2>2, <2>3 DEF Sound
  <1>3. CASE e[1] \in {"decode", "makekey", "dropown", "dropimage"}
    <2>1. hold'[u] = hold[u]
      BY <1>3 DEF Later, Relying
    <2>2. Decoding(u, e[2]) => Decoding(u, e[2])'
      BY <2>1 DEF Decoding
    <2>. QED
      BY <1>3, <2>1, <2>2 DEF Sound
  <1>4. CASE e[1] \in Storings \cup {"retval"}
    <2>1. hold'[u] = hold[u]
      BY <1>4 DEF Later, Relying, Storings
    <2>2. Secured(u, e[2])
      BY <1>4 DEF Sound, Storings
    <2>3. SameItem(e[2])
      <3>1. e[1] \in Storings => <<"item", e[2]>> \in Claim(item, e)
        BY DEF Claim, Storings
      <3>. QED
        BY <1>4, <2>2, <3>1 DEF Secured
    <2>4. item[e[2]].key \in Hashed => hash'[item[e[2]].key] = e[2]
      BY <1>4, <2>2
    <2>5. Secured(u, e[2])'
      BY <2>1, <2>2, <2>3, <2>4 DEF Secured, SameItem, Val
    <2>. QED
      BY <1>4, <2>1, <2>3, <2>5 DEF Sound, Storings, SameItem, Val
  <1>5. CASE e[1] = "unref"
    <2>1. <<"item", e[2]>> \in Claim(item, e)
      BY <1>5 DEF Claim
    <2>. QED
      BY <1>5, <2>1 DEF Sound, SameItem
  <1>6. CASE e[1] = "chain"
    <2>1. /\ e[2] \in Seq(Ids) /\ e[2] # <<>> /\ IsInjective(e[2])
          /\ e[3] \subseteq ToSet(e[2])
          /\ \A id \in ToSet(e[2]) : item[id].live /\ ~item[id].held /\ Out(id)
          /\ \A id \in e[3] : mem[Val(id)] = "dying"
          /\ \A id, j \in e[3] : Val(id) = Val(j) => id = j
      BY <1>6 DEF Sound
    <2>2. ToSet(e[2]) \subseteq Ids
      BY <2>1, SequenceIs
    <2>3. /\ \A id \in ToSet(e[2]) : <<"item", id>> \in Claim(item, e)
          /\ \A id \in e[3] : <<"mem", Val(id)>> \in Claim(item, e)
      BY <1>6 DEF Claim, Val
    <2>4. \A id \in ToSet(e[2]) : SameItem(id) /\ Out(id)'
      BY <2>1, <2>2, <2>3
    <2>5. \A id \in e[3] : mem'[Val(id)] = "dying"
      BY <2>1, <2>3
    <2>6. \A id \in ToSet(e[2]) : Val(id)' = Val(id)
      BY <2>4 DEF SameItem, Val
    <2>7. /\ \A id \in ToSet(e[2]) : item'[id].live /\ ~item'[id].held /\ Out(id)'
      BY <2>1, <2>4 DEF SameItem
    <2>8. /\ \A id \in e[3] : mem'[Val(id)'] = "dying"
          /\ \A id, j \in e[3] : Val(id)' = Val(j)' => id = j
      BY <2>1, <2>5, <2>6
    <2>. QED
      BY <1>6, <2>1, <2>7, <2>8 DEF Sound
  <1>7. CASE e[1] = "dropkey"
    BY <1>7 DEF Sound, Claim
  <1>8. CASE e[1] = "destroy"
    BY <1>8 DEF Sound, Claim
  <1>9. CASE e[1] \in {"filter", "empty"}
    BY <1>9 DEF Sound
  <1>. QED
    BY <1>1, <1>2, <1>3, <1>4, <1>5, <1>6, <1>7, <1>8, <1>9 DEF Sound, Storings

-----------------------------------------------------------------------------
\* A set of natural numbers that is not empty has a least element, which Min chooses.
LEMMA Least ==
    ASSUME NEW F \in SUBSET Nat, F # {}
    PROVE  Min(F) \in F /\ \A k \in F : Min(F) <= k
  <1>1. PICK j \in F : \A k \in F : ~(<<k, j>> \in OpToRel(<, Nat))
    BY ZenonT(20), NatLessThanWellFounded, WFMin
  <1>2. \A k \in F : ~(k < j)
    BY <1>1 DEF OpToRel
  <1>3. \A k \in F : j <= k
    BY <1>2
  <1>. QED
    BY <1>3 DEF Min

\* Tiles, images and null are different things, and so are their keys.
LEMMA Kinds ==
    /\ Images \cap Tiles = {} /\ Null \notin Vals /\ Null \notin Ids /\ Null \notin Threads
    /\ TileKeys \cap ObjKeys = {} /\ Keys = TileKeys \cup ObjKeys
    /\ Vals = Images \cup Tiles /\ Hashed \subseteq Keys
    /\ \A k \in TileKeys : ImageOf(k) \in Images
    /\ \A k \in ObjKeys : ImageOf(k) = Null
    /\ Doc \in Threads
  BY StoreAssumption DEF Vals, TileKeys, ObjKeys, Keys, Hashed, ImageOf

\* What the search for a key finds.
LEMMA LookupIs ==
    ASSUME IInv, NEW k \in Keys
    PROVE  /\ Lookup(k) = Null => Unused(k)
           /\ Lookup(k) # Null =>
                /\ Lookup(k) \in Ids /\ item[Lookup(k)].live /\ item[Lookup(k)].held
                /\ item[Lookup(k)].key = k
                /\ k \in Hashed => hash[k] = Lookup(k)
                /\ Lookup(k) \in Listed \cup InWindow /\ ~Out(Lookup(k))
  <1>i. Typed /\ ListGood /\ HashGood
    BY DEF IInv
  <1>1. CASE k \in Hashed
    <2>1. Lookup(k) = hash[k] /\ hash[k] \in Ids \cup {Null}
      BY <1>i, <1>1 DEF Lookup, Typed
    <2>. QED
      BY <1>i, <1>1, <2>1 DEF HashGood, Unused, Out
  <1>2. CASE k \notin Hashed
    <2>1. CASE Matches(k) = {}
      BY <1>2, <2>1 DEF Lookup, Unused
    <2>2. CASE Matches(k) # {}
      <3>1. Matches(k) \in SUBSET Nat /\ Matches(k) \subseteq DOMAIN lru
        BY <1>i DEF Matches, Typed
      <3>2. Min(Matches(k)) \in Matches(k)
        BY <2>2, <3>1, Least
      <3>3. Lookup(k) = lru[Min(Matches(k))]
        BY <1>2, <2>2 DEF Lookup
      <3>4. Lookup(k) \in Listed /\ item[Lookup(k)].key = k
        BY <3>1, <3>2, <3>3 DEF Matches, Listed, ToSet
      <3>5. Listed \subseteq Ids
        BY <1>i, SequenceIs DEF Listed, Typed
      <3>. QED
        BY <1>2, <1>i, <3>4, <3>5, Kinds DEF ListGood, Unused, Out
    <2>. QED
      BY <2>1, <2>2
  <1>. QED
    BY <1>1, <1>2

\* What hold is like after slot s of t has got w.
LEMMA HoldAfter ==
    ASSUME Typed, SlotsGood, NEW t \in Threads, NEW s \in Slots, NEW w \in Vals \cup {Null},
           hold' = [hold EXCEPT ![t][s] = w],
           w # Null => w \in (IF s = "img" THEN Images ELSE Tiles)
    PROVE  /\ hold' \in [Threads -> [Slots -> Vals \cup {Null}]] /\ SlotsGood'
           /\ hold'[t][s] = w
           /\ \A r \in Slots : r # s => hold'[t][r] = hold[t][r]
           /\ \A u \in Threads : u # t => hold'[u] = hold[u]
  <1>1. hold \in [Threads -> [Slots -> Vals \cup {Null}]]
    BY DEF Typed
  <1>2. /\ hold' \in [Threads -> [Slots -> Vals \cup {Null}]] /\ hold'[t][s] = w
        /\ \A r \in Slots : r # s => hold'[t][r] = hold[t][r]
        /\ \A u \in Threads : u # t => hold'[u] = hold[u]
    BY <1>1
  <1>3. SlotsGood'
    <2>1. ASSUME NEW u \in Threads
          PROVE  /\ hold'[u]["img"] \in Images \cup {Null}
                 /\ hold'[u]["tile"] \in Tiles \cup {Null}
                 /\ hold'[u]["dup"] \in Tiles \cup {Null}
      <3>1. /\ hold[u]["img"] \in Images \cup {Null}
            /\ hold[u]["tile"] \in Tiles \cup {Null}
            /\ hold[u]["dup"] \in Tiles \cup {Null}
        BY DEF SlotsGood
      <3>2. {"img", "tile", "dup"} = Slots
        BY DEF Slots
      <3>3. CASE u # t
        BY <1>2, <3>1, <3>3
      <3>4. CASE u = t /\ s = "img"
        BY <1>2, <3>1, <3>2, <3>4
      <3>5. CASE u = t /\ s = "tile"
        BY <1>2, <3>1, <3>2, <3>5
      <3>6. CASE u = t /\ s = "dup"
        BY <1>2, <3>1, <3>2, <3>6
      <3>. QED
        BY <3>2, <3>3, <3>4, <3>5, <3>6
    <2>. QED
      BY <2>1 DEF SlotsGood
  <1>. QED
    BY <1>2, <1>3

(***************************************************************************)
(* What a step of t leaves alone: the slots of the others, the items that  *)
(* are out of the store or that a thread is about to store or return, what *)
(* is dying and the keys threads have, unless they are the operation's.    *)
(***************************************************************************)
Spared(t) ==
    /\ \A u \in Threads \ {t} : hold'[u] = hold[u]
    /\ hold'[t] = hold[t] \/ agenda[t] = <<>> \/ Head(agenda[t])[1] \in Changing
    /\ \A id \in Ids : item[id].live =>
         item'[id].val = item[id].val \/ <<"item", id>> \in HeadClaims(t)
    /\ \A id \in Ids : item[id].live /\ Out(id) /\ <<"item", id>> \notin HeadClaims(t) =>
         SameItem(id) /\ Out(id)'
    /\ \A u \in Threads, id \in Ids :
         /\ Secured(u, id)
         /\ u = t => agenda[t] # <<>> /\ Head(agenda[t])[1] \notin Changing
         /\ <<"item", id>> \in HeadClaims(t) => item[id].key \in Hashed
         => SameItem(id) /\ (item[id].key \in Hashed => hash'[item[id].key] = id)
    /\ \A v \in Vals : mem[v] = "dying" /\ <<"mem", v>> \notin HeadClaims(t) =>
         mem'[v] = "dying"
    /\ \A id \in Ids : item[id].mine /\ <<"key", id>> \notin HeadClaims(t) => item'[id].mine
    /\ \A u \in Threads \ {t} : \A id \in Ids :
         /\ <<"key", id>> \in Claims(item, agenda[u])
         /\ item[id].mine /\ ~item[id].live
         => item'[id] = item[id]
    /\ t # Doc => \A k \in ObjKeys : Unused(k) => Unused(k)'

\* What the operations s that a step of t leaves may do alone is passed on by
\* the step's own, or new; and nothing is lost.
Passed(t, s) ==
    /\ Distinct(item', s)
    /\ \A c \in Claims(item', s) :
         c \in HeadClaims(t) \/ \A u \in Threads : c \notin Claims(item, agenda[u])
    /\ \A id \in Ids : item'[id].live =>
         \/ id \in Listed'
         \/ <<"item", id>> \in Claims(item', s)
         \/ /\ item[id].live /\ (id \in Listed => id \in Listed')
            /\ <<"item", id>> \notin HeadClaims(t)
    /\ \A id \in Ids : item'[id].mine =>
         \/ <<"key", id>> \in Claims(item', s)
         \/ item[id].mine /\ <<"key", id>> \notin HeadClaims(t)

\* What the hash table finds, in terms of the operations s that a step of t leaves.
Found(t, s) ==
    \A k \in Hashed : hash'[k] # Null =>
        /\ item'[hash'[k]].live /\ item'[hash'[k]].held /\ item'[hash'[k]].key = k
        /\ \/ hash'[k] \in Listed'
           \/ \E e \in ToSet(s) : e[1] \in Storings /\ e[2] = hash'[k]
           \/ hash'[k] \in InWindow /\ <<"item", hash'[k]>> \notin HeadClaims(t)

\* A thread that is about to store under a key of its own has the key to drop.
LEMMA StoreKey ==
    ASSUME Typed, AgendaOrdered, NEW u \in Threads, NEW e \in ToSet(agenda[u]),
           e[1] = "store", e[2] # Null
    PROVE  agenda[u][1] = e /\ <<"key", e[2]>> \in Claims(item, agenda[u])
  <1>. DEFINE a == agenda[u]
  <1>1. Len(a) \in Nat /\ DOMAIN a = 1 .. Len(a)
    BY RestIs
  <1>2. Ordered(a)
    BY DEF AgendaOrdered
  <1>. HIDE DEF a
  <1>3. PICK i \in 1 .. Len(a) : e = a[i]
    BY <1>1 DEF ToSet, a
  <1>4. i = 1
    <2>1. e[1] \notin Later
      BY DEF Later, Relying
    <2>. QED
      BY <1>1, <1>2, <1>3, <2>1 DEF Ordered
  <1>5. a # <<>>
    BY <1>1, <1>3
  <1>6. Len(a) > 1 /\ a[2] = <<"dropkey", e[2]>>
    BY <1>2, <1>3, <1>4, <1>5 DEF Ordered
  <1>7. <<"key", e[2]>> \in Claim(item, a[2]) /\ 2 \in DOMAIN a
    BY <1>1, <1>6 DEF Claim
  <1>8. <<"key", e[2]>> \in Claims(item, a)
    BY <1>7 DEF Claims
  <1>. QED
    BY <1>3, <1>4, <1>8 DEF a

(***************************************************************************)
(* A step that keeps the counts, and spares and passes on what it has to,  *)
(* keeps the invariant.                                                    *)
(***************************************************************************)
LEMMA Advance ==
    ASSUME IInv, Counters', Counted',
           NEW t \in Threads, NEW s, Sequence(s), Go(t, s), Ordered(s),
           lru' \in Seq(Ids), hash' \in [Hashed -> Ids \cup {Null}],
           item' \in [Ids -> ItemType],
           hold' \in [Threads -> [Slots -> Vals \cup {Null}]],
           SlotsGood', ItemsGood', ListGood', Found(t, s), Spared(t), Passed(t, s),
           \A e \in ToSet(s) : Sound(t, e)',
           \A e \in ToSet(s) : e[1] \in Changing =>
               agenda[t] = <<>> \/ Head(agenda[t])[1] \in Changing
    PROVE  IInv'
  <1>i. /\ Typed /\ SlotsGood /\ ItemsGood /\ ListGood /\ HashGood
        /\ AgendaSound /\ AgendaOrdered /\ Claimed /\ NothingLost /\ Counted
    BY DEF IInv
  <1>2. Typed'
    BY <1>i, GoIs DEF Typed, Counters
  <1>3. HashGood'
    <2>1. \A id \in InWindow : id \in InWindow' \/ <<"item", id>> \in HeadClaims(t)
      <3>1. agenda[t] # <<>> /\ Head(agenda[t])[1] \in Storings =>
              <<"item", Head(agenda[t])[2]>> \in HeadClaims(t)
        BY DEF HeadClaims, Claim, Storings
      <3>. QED
        BY <1>i, <3>1, WindowAfter
    <2>2. \A e \in ToSet(s) : e[1] \in Storings => e[2] \in InWindow'
      BY <1>i, WindowAfter
    <2>. QED
      BY <2>1, <2>2 DEF HashGood, Found
  <1>4. AgendaOrdered'
    <2>1. \A i \in DOMAIN s : s[i] \in ToSet(s)
      BY DEF ToSet
    <2>. QED
      BY <1>i, <2>1, OrderedAfter
  <1>5. /\ Claimed'
        /\ \A c \in Claims(item', s) : c \in Claims(item', agenda'[t])
        /\ \A u \in Threads : \A c \in Claims(item, agenda[u]) :
               c \in HeadClaims(t) \/ c \in Claims(item', agenda'[u])
    BY <1>i, ClaimedAfter DEF Spared, Passed
  <1>6. NothingLost'
    BY <1>i, <1>5, LostAfter DEF Passed
  <1>7. AgendaSound'
    <2>1. ASSUME NEW u \in Threads, NEW e \in Staying(t, u) PROVE Sound(u, e)'
      <3>1. /\ Sound(u, e) /\ Claim(item, e) \cap HeadClaims(t) = {}
            /\ Claim(item, e) \subseteq Claims(item, agenda[u])
            /\ u = t => agenda[t] # <<>> /\ e[1] \in Later
            /\ u = t /\ Head(agenda[t])[1] \in Changing => e[1] \notin Relying
        BY <1>i, StayingIs
      <3>2. hold'[u] = hold[u] \/ e[1] \in Later \ Relying
        BY <3>1 DEF Spared
      <3>3. e[1] \in Storings \cup {"retval"} =>
              /\ e[2] \in Ids /\ Secured(u, e[2]) /\ SameItem(e[2])
              /\ item[e[2]].key \in Hashed => hash'[item[e[2]].key] = e[2]
        <4>1. SUFFICES ASSUME e[1] \in Storings \cup {"retval"}
                       PROVE  /\ e[2] \in Ids /\ Secured(u, e[2]) /\ SameItem(e[2])
                              /\ item[e[2]].key \in Hashed => hash'[item[e[2]].key] = e[2]
          OBVIOUS
        <4>2. Secured(u, e[2]) /\ e[2] \in Ids
          BY <3>1, <4>1 DEF Sound, Storings, Secured
        <4>3. u = t => agenda[t] # <<>> /\ Head(agenda[t])[1] \notin Changing
          BY <3>1, <4>1 DEF Storings, Later, Relying
        <4>4. <<"item", e[2]>> \in HeadClaims(t) => item[e[2]].key \in Hashed
          <5>1. CASE e[1] = "retval"
            BY <3>1, <5>1 DEF Sound
          <5>2. CASE e[1] \in Storings
            BY <3>1, <5>2 DEF Claim, Storings
          <5>. QED
            BY <4>1, <5>1, <5>2
        <4>. QED
          BY <4>2, <4>3, <4>4 DEF Spared
      <3>4. ASSUME NEW id \in Ids, <<"item", id>> \in Claim(item, e)
            PROVE  SameItem(id) /\ (Out(id) => Out(id)')
        <4>1. <<"item", id>> \notin HeadClaims(t) /\ <<"item", id>> \in Claims(item, agenda[u])
          BY <3>1, <3>4
        <4>2. item[id].live
          BY <1>i, <4>1, ClaimMeans
        <4>3. CASE Out(id)
          BY <4>1, <4>2, <4>3 DEF Spared
        <4>4. CASE ~Out(id)
          <5>1. e[1] \in Storings /\ id = e[2]
            BY <3>1, <3>4, <4>4 DEF Claim, Sound, Storings
          <5>. QED
            BY <3>3, <4>4, <5>1
        <4>. QED
          BY <4>3, <4>4
      <3>5. \A v : <<"mem", v>> \in Claim(item, e) /\ mem[v] = "dying" => mem'[v] = "dying"
        <4>1. ASSUME NEW v, <<"mem", v>> \in Claim(item, e) PROVE v \in Vals
          <5>1. CASE e[1] = "destroy"
            BY <3>1, <4>1, <5>1 DEF Claim, Sound
          <5>2. CASE e[1] = "chain"
            <6>1. PICK id \in e[3] : v = item[id].val
              BY <4>1, <5>2 DEF Claim
            <6>2. id \in ToSet(e[2]) /\ e[2] \in Seq(Ids) /\ item[id].live
              BY <3>1, <5>2 DEF Sound
            <6>3. id \in Ids
              BY <6>2, SequenceIs
            <6>4. item[id].key \in Keys
              BY <1>i, <6>2, <6>3 DEF ItemsGood, KeyExists
            <6>. QED
              BY <1>i, <6>1, <6>2, <6>3, <6>4, Kinds DEF ItemsGood, KeyExists, Val
          <5>. QED
            BY <4>1, <5>1, <5>2 DEF Claim
        <4>. QED
          BY <3>1, <4>1 DEF Spared
      <3>6. \A id : <<"key", id>> \in Claim(item, e) /\ item[id].mine => item'[id].mine
        <4>1. ASSUME NEW id, <<"key", id>> \in Claim(item, e) PROVE id \in Ids
          BY <1>i, <3>1, <4>1, ClaimMeans
        <4>. QED
          BY <3>1, <4>1 DEF Spared
      <3>7. e[1] \in {"load", "store"} /\ u = Doc => \A k \in ObjKeys : Unused(k) => Unused(k)'
        <4>1. e[1] \in {"load", "store"} => u # t
          BY <3>1 DEF Later, Relying
        <4>. QED
          BY <4>1 DEF Spared
      <3>8. e[1] = "store" /\ e[2] \in Ids /\ item[e[2]].mine => item'[e[2]] = item[e[2]]
        <4>1. SUFFICES ASSUME e[1] = "store", e[2] \in Ids, item[e[2]].mine
                       PROVE  item'[e[2]] = item[e[2]]
          OBVIOUS
        <4>2. u # t /\ e \in ToSet(agenda[u])
          BY <3>1, <4>1 DEF Later, Relying, Staying
        <4>3. <<"key", e[2]>> \in Claims(item, agenda[u])
          BY <1>i, <4>1, <4>2, StoreKey, Kinds
        <4>4. ~item[e[2]].live
          BY <3>1, <4>1, Kinds DEF Sound
        <4>. QED
          BY <4>1, <4>2, <4>3, <4>4 DEF Spared
      <3>. QED
        BY <3>1, <3>2, <3>3, <3>4, <3>5, <3>6, <3>7, <3>8, SoundLasts
    <2>. QED
      BY <1>i, <2>1, SoundAfter
  <1>. QED
    BY <1>2, <1>3, <1>4, <1>5, <1>6, <1>7 DEF IInv

\* The pointers of what stays as it is.
LEMMA SamePointers ==
    /\ \A j \in Ids : item'[j] = item[j] =>
         /\ Pointer(<<j, "val">>)' = Pointer(<<j, "val">>)
         /\ Pointer(<<j, "key">>)' = Pointer(<<j, "key">>)
    /\ \A u \in Threads, r \in Slots : hold'[u][r] = hold[u][r] =>
         Pointer(<<u, r>>)' = Pointer(<<u, r>>)
  <1>1. ASSUME NEW j \in Ids, item'[j] = item[j]
        PROVE  /\ Pointer(<<j, "val">>)' = Pointer(<<j, "val">>)
               /\ Pointer(<<j, "key">>)' = Pointer(<<j, "key">>)
    <2>1. Pointer(<<j, "val">>)' = Pointer(<<j, "val">>)
      BY <1>1, PointerIs
    <2>2. Pointer(<<j, "key">>)' = Pointer(<<j, "key">>)
      BY <1>1, PointerIs
    <2>. QED
      BY <2>1, <2>2
  <1>2. ASSUME NEW u \in Threads, NEW r \in Slots, hold'[u][r] = hold[u][r]
        PROVE  Pointer(<<u, r>>)' = Pointer(<<u, r>>)
    BY <1>2, PointerIs
  <1>. QED
    BY <1>1, <1>2

\* The pointers after slot q of t has got w.
LEMMA SlotPointers ==
    ASSUME Typed, NEW t \in Threads, NEW q \in Slots, NEW w \in Vals \cup {Null},
           hold' = [hold EXCEPT ![t][q] = w], item' = item
    PROVE  /\ <<t, q>> \in NormalHandles
           /\ Pointer(<<t, q>>) = hold[t][q] /\ Pointer(<<t, q>>)' = w
           /\ \A d \in Handles : d # <<t, q>> => Pointer(d)' = Pointer(d)
  <1>1. \A u \in Threads, r \in Slots :
            hold'[u][r] = IF u = t /\ r = q THEN w ELSE hold[u][r]
    BY DEF Typed
  <1>2. <<t, q>> \in NormalHandles
    BY NormalIs
  <1>3. Pointer(<<t, q>>) = hold[t][q] /\ Pointer(<<t, q>>)' = w
    BY <1>1, PointerIs
  <1>4. ASSUME NEW d \in Handles, d # <<t, q>> PROVE Pointer(d)' = Pointer(d)
    <2>1. CASE \E u \in Threads, r \in Slots : d = <<u, r>>
      <3>1. PICK u \in Threads, r \in Slots : d = <<u, r>>
        BY <2>1
      <3>2. hold'[u][r] = hold[u][r]
        BY <1>1, <1>4, <3>1
      <3>. QED
        BY <3>1, <3>2, PointerIs
    <2>2. CASE \E j \in Ids : d = <<j, "val">> \/ d = <<j, "key">>
      BY ZenonT(40), <2>2, PointerIs
    <2>. QED
      BY <2>1, <2>2, PointerIs
  <1>. QED
    BY <1>2, <1>3, <1>4

(***************************************************************************)
(* A step that changes one slot of t and no item, and may bring an item of *)
(* the store to the head of the list.                                      *)
(***************************************************************************)
LEMMA SlotStep ==
    ASSUME IInv, Counters', Counted',
           NEW t \in Threads, NEW q \in Slots, NEW w \in Vals \cup {Null},
           hold' = [hold EXCEPT ![t][q] = w],
           w # Null => w \in (IF q = "img" THEN Images ELSE Tiles),
           item' = item, hash' = hash,
           lru' = lru \/ \E id \in Ids :
               /\ lru' = Touch(id) /\ ~Out(id) /\ item[id].live /\ item[id].held
               /\ item[id].key \in Hashed => hash[item[id].key] = id,
           \A v \in Vals : mem[v] = "dying" => mem'[v] = "dying",
           agenda[t] = <<>> \/ (/\ Head(agenda[t])[1] \in Changing
                                /\ Head(agenda[t])[1] \notin Owning),
           NEW s, Sequence(s), Go(t, s), Ordered(s), Distinct(item, s),
           \A e \in ToSet(s) :
               /\ Sound(t, e)'
               /\ e[1] \notin Owning \/ (e[1] = "destroy" /\ mem[e[2]] = "live")
               /\ e[1] \in Changing => agenda[t] = <<>> \/ Head(agenda[t])[1] \in Changing
    PROVE  IInv'
  <1>i. /\ Typed /\ SlotsGood /\ ItemsGood /\ ListGood /\ HashGood
        /\ AgendaSound /\ AgendaOrdered /\ Claimed /\ NothingLost /\ Counted
    BY DEF IInv
  <1>1. /\ hold' \in [Threads -> [Slots -> Vals \cup {Null}]] /\ SlotsGood'
        /\ \A u \in Threads : u # t => hold'[u] = hold[u]
    BY <1>i, HoldAfter
  <1>2. /\ lru' \in Seq(Ids) /\ IsInjective(lru') /\ Listed \subseteq Listed'
        /\ \A id \in Listed' : /\ item[id].live /\ item[id].held /\ ~Out(id)
                               /\ item[id].key \in Hashed => hash[item[id].key] = id
    <2>0. lru \in Seq(Ids) /\ IsInjective(lru)
      BY <1>i DEF Typed, ListGood
    <2>1. CASE lru' = lru
      BY <1>i, <2>0, <2>1 DEF ListGood, Listed, Out
    <2>2. ASSUME NEW id \in Ids, lru' = Touch(id), ~Out(id), item[id].live, item[id].held,
                 item[id].key \in Hashed => hash[item[id].key] = id
          PROVE  /\ lru' \in Seq(Ids) /\ IsInjective(lru') /\ Listed \subseteq Listed'
                 /\ \A j \in Listed' : /\ item[j].live /\ item[j].held /\ ~Out(j)
                                       /\ item[j].key \in Hashed => hash[item[j].key] = j
      <3>1. /\ Touch(id) \in Seq(Ids) /\ ToSet(Touch(id)) = Listed \cup {id}
            /\ IsInjective(Touch(id))
        BY <2>0, TouchIs
      <3>2. Listed' = Listed \cup {id}
        BY <2>2, <3>1 DEF Listed
      <3>. QED
        BY <1>i, <2>2, <3>1, <3>2 DEF ListGood, Out
    <2>. QED
      BY <2>1, <2>2
  <1>3. ItemsGood' /\ ListGood'
    BY <1>i, <1>2 DEF ItemsGood, KeyExists, Val, ListGood
  <1>4. HeadClaims(t) = {}
    BY PlainClaims DEF HeadClaims
  <1>5. Found(t, s)
    BY <1>i, <1>2, <1>4 DEF Found, HashGood
  <1>6. Spared(t)
    <2>1. \A id \in Ids : SameItem(id)
      BY DEF SameItem
    <2>2. \A id \in Ids : Out(id) => Out(id)'
      BY <1>2 DEF Out
    <2>3. \A u \in Threads, id \in Ids : Secured(u, id) /\ item[id].key \in Hashed =>
              hash'[item[id].key] = id
      BY DEF Secured
    <2>4. \A k \in ObjKeys : Unused(k) => Unused(k)'
      BY DEF Unused
    <2>. QED
      BY <1>1, <2>1, <2>2, <2>3, <2>4 DEF Spared
  <1>7. Passed(t, s)
    <2>1. \A c \in Claims(item, s) : \A u \in Threads : c \notin Claims(item, agenda[u])
      <3>1. SUFFICES ASSUME NEW c \in Claims(item, s), NEW u \in Threads,
                            c \in Claims(item, agenda[u])
                     PROVE  FALSE
        OBVIOUS
      <3>2. PICK i \in DOMAIN s : c \in Claim(item, s[i])
        BY <3>1 DEF Claims
      <3>3. s[i] \in ToSet(s)
        BY DEF ToSet
      <3>4. s[i][1] \in Owning
        BY <3>2, PlainClaims
      <3>5. c = <<"mem", s[i][2]>> /\ mem[s[i][2]] = "live"
        BY <3>2, <3>3, <3>4 DEF Claim
      <3>6. mem[s[i][2]] = "dying"
        BY <1>i, <3>1, <3>5, ClaimMeans
      <3>. QED
        BY <3>5, <3>6
    <2>. QED
      BY <1>2, <1>4, <2>1 DEF Passed
  <1>8. item' \in [Ids -> ItemType] /\ hash' \in [Hashed -> Ids \cup {Null}]
    BY <1>i DEF Typed
  <1>. QED
    BY <1>1, <1>2, <1>3, <1>5, <1>6, <1>7, <1>8, Advance

(***************************************************************************)
(* An item that is found comes to the head of the list, and the finder     *)
(* gets a reference to its value.                                          *)
(***************************************************************************)
LEMMA HitStep ==
    ASSUME IInv, NEW t \in Threads, NEW s \in Slots, NEW k \in Keys, NEW r,
           Lookup(k) # Null, Hit(t, s, Lookup(k)), Go(t, r), Sequence(r), Ordered(r),
           hold[t][s] = Null, k \in (IF s = "img" THEN ObjKeys ELSE TileKeys),
           agenda[t] = <<>> \/ (/\ Head(agenda[t])[1] \in Changing
                                /\ Head(agenda[t])[1] \notin Owning),
           \A e \in ToSet(r) : e[1] \notin Owning /\ Sound(t, e)',
           \A e \in ToSet(r) : e[1] \in Changing =>
               agenda[t] = <<>> \/ Head(agenda[t])[1] \in Changing
    PROVE  IInv' /\ Protocol
  <1>i. Typed /\ ItemsGood /\ Counted
    BY DEF IInv
  <1>. DEFINE id == Lookup(k)
  <1>1. /\ id \in Ids /\ item[id].live /\ item[id].held /\ item[id].key = k
        /\ k \in Hashed => hash[k] = id
        /\ ~Out(id)
    BY LookupIs
  <1>. HIDE DEF id
  <1>2. /\ lru' = Touch(id) /\ refs' = Ref(refs, Val(id))
        /\ hold' = [hold EXCEPT ![t][s] = Val(id)]
        /\ hash' = hash /\ item' = item /\ keyRefs' = keyRefs /\ mem' = mem
    BY DEF Hit, id
  <1>3. Val(id) \in Vals /\ Val(id) \in (IF s = "img" THEN Images ELSE Tiles)
    BY <1>i, <1>1, Kinds DEF ItemsGood
  <1>4. Protocol
    <2>1. <<id, "val">> \in NormalHandles /\ Pointer(<<id, "val">>) = Val(id)
      BY <1>1, PointerIs, NormalIs DEF Val
    <2>2. /\ <<t, s>> \in NormalHandles
          /\ Pointer(<<t, s>>) = Null /\ Pointer(<<t, s>>)' = Val(id)
          /\ \A d \in Handles : d # <<t, s>> => Pointer(d)' = Pointer(d)
      BY <1>i, <1>2, <1>3, SlotPointers
    <2>. QED
      BY <1>2, <1>3, <2>1, <2>2, KeepStep
  <1>5. Counters' /\ Counted'
    BY <1>i, <1>4, CountedAfter
  <1>6. Distinct(item, r)
    BY PlainClaims DEF Distinct, ToSet
  <1>7. IInv'
    BY <1>1, <1>2, <1>3, <1>5, <1>6, SlotStep
  <1>. QED
    BY <1>4, <1>7

LEMMA LoadImageStep ==
    ASSUME IInv, NEW o \in Objs, LoadImage(o)
    PROVE  IInv' /\ Protocol
  <1>. DEFINE k == <<Null, o>>
              e == <<"load", o>>
  <1>1. /\ Doc \in Threads /\ agenda[Doc] = <<>> /\ hold[Doc]["img"] = Null /\ k \in ObjKeys
        /\ k \in Keys /\ "img" \in Slots
    BY Kinds DEF LoadImage, Idle, ObjKeys, Slots
  <1>2. CASE Lookup(k) # Null
    <2>1. Hit(Doc, "img", Lookup(k)) /\ Go(Doc, <<>>)
      BY <1>2 DEF LoadImage, Find
    <2>. QED
      BY <1>1, <1>2, <2>1, Literals, OrderedLiterals, HitStep
  <1>3. CASE Lookup(k) = Null
    <2>1. Go(Doc, <<e>>) /\ Still
      BY <1>3 DEF LoadImage, Find, Still, storeVars, valVars
    <2>2. Sound(Doc, e)
      BY <1>1, <1>3, LookupIs DEF Sound
    <2>3. e[1] \notin Owning /\ e[1] # "store"
      BY DEF Owning, Storings
    <2>. HIDE DEF e
    <2>. QED
      BY <1>1, <2>1, <2>2, <2>3, QuietOne
  <1>. QED
    BY <1>2, <1>3

LEMMA GetTileStep ==
    ASSUME IInv, NEW t \in Threads, NEW a \in Areas, GetTile(t, a)
    PROVE  IInv' /\ Protocol
  <1>. DEFINE k == <<hold[t]["img"], a>>
              e == <<"decode", k>>
  <1>1. /\ agenda[t] = <<>> /\ hold[t]["tile"] = Null /\ hold[t]["dup"] = Null
        /\ hold[t]["img"] \in Images /\ "tile" \in Slots
    BY DEF GetTile, Idle, IInv, SlotsGood, Slots
  <1>2. k \in TileKeys /\ k \in Keys /\ ImageOf(k) = hold[t]["img"]
    BY <1>1 DEF TileKeys, Keys, ImageOf
  <1>3. CASE Lookup(k) # Null
    <2>1. Hit(t, "tile", Lookup(k)) /\ Go(t, <<>>)
      BY <1>3 DEF GetTile, Find
    <2>. QED
      BY <1>1, <1>2, <1>3, <2>1, Literals, OrderedLiterals, HitStep
  <1>4. CASE Lookup(k) = Null
    <2>1. Go(t, <<e>>) /\ Still
      BY <1>4 DEF GetTile, Find, Still, storeVars, valVars
    <2>2. Sound(t, e)
      BY <1>1, <1>2 DEF Sound, Decoding
    <2>3. e[1] \notin Owning /\ e[1] # "store"
      BY DEF Owning, Storings
    <2>. HIDE DEF e
    <2>. QED
      BY <1>1, <2>1, <2>2, <2>3, QuietOne
  <1>. QED
    BY <1>3, <1>4

-----------------------------------------------------------------------------
\* A new value in a slot that was empty.
LEMMA CreateStep ==
    ASSUME IInv, NEW t \in Threads, NEW q \in Slots, NEW v \in Vals,
           Create(t, q, v), hold[t][q] = Null, item' = item
    PROVE  /\ Protocol /\ Counters' /\ Counted'
           /\ \A w \in Vals : mem[w] = "dying" => mem'[w] = "dying"
  <1>i. Typed /\ ItemsGood /\ Counted
    BY DEF IInv
  <1>1. /\ <<t, q>> \in NormalHandles
        /\ Pointer(<<t, q>>) = Null /\ Pointer(<<t, q>>)' = v
        /\ \A d \in Handles : d # <<t, q>> => Pointer(d)' = Pointer(d)
    BY <1>i, SlotPointers DEF Create
  <1>2. Protocol
    BY <1>1, NewStep DEF Create
  <1>3. \A w \in Vals : mem[w] = "dying" => mem'[w] = "dying"
    BY <1>i DEF Create, Typed
  <1>. QED
    BY <1>i, <1>2, <1>3, CountedAfter

LEMMA CreateImageStep ==
    ASSUME IInv, NEW t \in Threads, CreateImage(t)
    PROVE  IInv' /\ Protocol
  <1>i. Typed /\ SlotsGood /\ AgendaSound
    BY DEF IInv
  <1>1. /\ agenda[t] # <<>> /\ Head(agenda[t])[1] = "load"
        /\ lru' = lru /\ hash' = hash /\ item' = item
    BY DEF CreateImage, At, storeVars
  <1>o. PICK o : o = Head(agenda[t])[2]
    OBVIOUS
  <1>. DEFINE e == <<"store", Null, <<Null, o>>, "img">>
  <1>2. t = Doc /\ o \in Objs /\ hold[t]["img"] = Null /\ Unused(<<Null, o>>)
    BY <1>i, <1>o, <1>1, HeadIs DEF Sound
  <1>3. "load" \in Changing /\ "load" \notin Owning /\ e[1] \notin Owning /\ "img" \in Slots
    BY DEF Changing, Owning, Storings, Slots
  <1>4. CASE Go(t, <<>>) /\ UNCHANGED <<valVars, hold>>
    BY <1>1, <1>3, <1>4, QuietNone DEF Still, valVars
  <1>5. ASSUME NEW v \in Images, Create(t, "img", v), Go(t, <<e>>)
        PROVE  IInv' /\ Protocol
    <2>1. v \in Vals
      BY DEF Vals
    <2>2. /\ Protocol /\ Counters' /\ Counted'
          /\ \A w \in Vals : mem[w] = "dying" => mem'[w] = "dying"
      BY <1>1, <1>2, <1>3, <1>5, <2>1, CreateStep
    <2>3. hold' = [hold EXCEPT ![t]["img"] = v] /\ hold'[t]["img"] = v /\ v # Null
      BY ZenonT(40), <1>i, <1>3, <1>5, <2>1, Kinds, HoldAfter DEF Create
    <2>4. Sound(t, e)'
      BY <1>1, <1>2, <2>3 DEF Sound, ObjKeys, Unused
    <2>5. /\ Sequence(<<e>>) /\ ToSet(<<e>>) = {e} /\ Ordered(<<e>>) /\ Distinct(item, <<e>>)
      BY Literals, OrderedLiterals, ClaimLiterals
    <2>. HIDE DEF e
    <2>. QED
      BY <1>1, <1>3, <1>5, <2>1, <2>2, <2>3, <2>4, <2>5, SlotStep
  <1>. QED
    BY <1>o, <1>4, <1>5 DEF CreateImage, Arg

LEMMA DecodeStep ==
    ASSUME IInv, NEW t \in Threads, Decode(t)
    PROVE  IInv' /\ Protocol
  <1>i. Typed /\ SlotsGood /\ AgendaSound
    BY DEF IInv
  <1>1. /\ agenda[t] # <<>> /\ Head(agenda[t])[1] = "decode"
        /\ lru' = lru /\ hash' = hash /\ item' = item
    BY DEF Decode, At, storeVars
  <1>k. PICK k : k = Head(agenda[t])[2]
    OBVIOUS
  <1>. DEFINE e == <<"makekey", k>>
  <1>2. Decoding(t, k) /\ hold[t]["tile"] = Null
    BY <1>i, <1>k, <1>1, HeadIs DEF Sound
  <1>3. "decode" \in Changing /\ "decode" \notin Owning /\ e[1] \notin Owning /\ "tile" \in Slots
    BY DEF Changing, Owning, Storings, Slots
  <1>4. CASE Go(t, <<>>) /\ UNCHANGED <<valVars, hold>>
    BY <1>1, <1>3, <1>4, QuietNone DEF Still, valVars
  <1>5. ASSUME NEW v \in Tiles, Create(t, "tile", v), Go(t, <<e>>)
        PROVE  IInv' /\ Protocol
    <2>1. v \in Vals
      BY DEF Vals
    <2>2. /\ Protocol /\ Counters' /\ Counted'
          /\ \A w \in Vals : mem[w] = "dying" => mem'[w] = "dying"
      BY <1>1, <1>2, <1>3, <1>5, <2>1, CreateStep
    <2>3. /\ hold' = [hold EXCEPT ![t]["tile"] = v] /\ hold'[t]["tile"] = v /\ v # Null
          /\ \A r \in Slots : r # "tile" => hold'[t][r] = hold[t][r]
      <3>1. hold' = [hold EXCEPT ![t]["tile"] = v] /\ v # Null
        BY <1>5, <2>1, Kinds DEF Create
      <3>. QED
        BY <1>i, <1>3, <2>1, <3>1, HoldAfter
    <2>4. Sound(t, e)'
      <3>1. "img" \in Slots /\ "dup" \in Slots
        BY DEF Slots
      <3>2. Decoding(t, k)'
        BY <1>2, <2>3, <3>1 DEF Decoding
      <3>. QED
        BY <2>3, <3>2 DEF Sound
    <2>5. /\ Sequence(<<e>>) /\ ToSet(<<e>>) = {e} /\ Ordered(<<e>>) /\ Distinct(item, <<e>>)
      BY Literals, OrderedLiterals, ClaimLiterals
    <2>6. e[1] = "makekey"
      OBVIOUS
    <2>. HIDE DEF e
    <2>. QED
      BY <1>1, <1>3, <1>5, <2>1, <2>2, <2>3, <2>4, <2>5, <2>6, SlotStep
  <1>. QED
    BY <1>k, <1>4, <1>5 DEF Decode, Arg

LEMMA ShareImageStep ==
    ASSUME IInv, NEW t \in Threads, NEW u \in Threads, ShareImage(t, u)
    PROVE  IInv' /\ Protocol
  <1>i. Typed /\ SlotsGood /\ ItemsGood /\ Counted
    BY DEF IInv
  <1>. DEFINE v == hold[t]["img"]
  <1>1. /\ agenda[u] = <<>> /\ hold[u]["img"] = Null /\ v \in Images /\ v \in Vals
        /\ refs' = Ref(refs, v) /\ hold' = [hold EXCEPT ![u]["img"] = v]
        /\ lru' = lru /\ hash' = hash /\ item' = item /\ keyRefs' = keyRefs /\ mem' = mem
        /\ agenda' = agenda /\ "img" \in Slots
    BY <1>i, Kinds DEF ShareImage, SlotsGood, storeVars, Slots
  <1>2. Go(u, <<>>)
    BY <1>i, <1>1 DEF Go, Typed
  <1>3. <<t, "img">> \in NormalHandles /\ Pointer(<<t, "img">>) = v
    BY <1>1, PointerIs, NormalIs
  <1>. HIDE DEF v
  <1>4. Protocol
    <2>1. /\ <<u, "img">> \in NormalHandles
          /\ Pointer(<<u, "img">>) = Null /\ Pointer(<<u, "img">>)' = v
          /\ \A d \in Handles : d # <<u, "img">> => Pointer(d)' = Pointer(d)
      BY <1>i, <1>1, SlotPointers
    <2>. QED
      BY <1>1, <1>3, <2>1, KeepStep
  <1>5. Counters' /\ Counted'
    BY <1>i, <1>4, CountedAfter
  <1>6. /\ Sequence(<<>>) /\ ToSet(<<>>) = {} /\ Ordered(<<>>) /\ Distinct(item, <<>>)
    BY Literals, OrderedLiterals, ClaimLiterals
  <1>7. IInv'
    BY <1>1, <1>2, <1>5, <1>6, SlotStep
  <1>. QED
    BY <1>4, <1>7

(***************************************************************************)
(* A reference in a slot goes.                                             *)
(***************************************************************************)
LEMMA DropSlotStep ==
    ASSUME IInv, NEW t \in Threads, NEW q \in Slots, NEW v, hold[t][q] = v, v # Null,
           DropSlot(t, q), lru' = lru, hash' = hash, item' = item,
           agenda[t] = <<>> \/ (/\ Head(agenda[t])[1] \in Changing
                                /\ Head(agenda[t])[1] \notin Owning),
           \/ Go(t, <<>>)
           \/ Go(t, << <<"destroy", v>> >>) /\ refs[v] = 1
           \/ \E e : Go(t, <<e>>) /\ e[1] \in {"scav", "reap"}
    PROVE  IInv' /\ Protocol
  <1>i. Typed /\ SlotsGood /\ ItemsGood /\ Counted
    BY DEF IInv
  <1>. DEFINE h == <<t, q>>
  <1>1. v \in Vals /\ Null \in Vals \cup {Null} /\ Null \notin Vals
    BY <1>i, Kinds DEF Typed
  <1>2. /\ refs' = Unref(refs, v) /\ mem' = Dying(refs') /\ keyRefs' = keyRefs
        /\ hold' = [hold EXCEPT ![t][q] = Null]
    BY DEF DropSlot
  <1>3. /\ h \in NormalHandles /\ Pointer(h) = v /\ Pointer(h)' = Null
        /\ \A d \in Handles : d # h => Pointer(d)' = Pointer(d)
    BY <1>i, <1>2, SlotPointers
  <1>4. refs[v] > 0 /\ mem[v] = "live"
    <2>1. Counters /\ h \in Handles
      BY <1>i, <1>3, NormalIs DEF Typed, Counters
    <2>. QED
      BY <1>i, <1>1, <1>3, <2>1, OwnedLives
  <1>. HIDE DEF h
  <1>5. Protocol
    <2>1. \A w \in Vals : Cardinality(Owners(w) \cap {h}) = IF w = v THEN 1 ELSE 0
      <3>1. ASSUME NEW w \in Vals
            PROVE  Owners(w) \cap {h} = IF w = v THEN {h} ELSE {}
        BY <1>3, NormalIs DEF Owners
      <3>. QED
        BY <3>1, FS_EmptySet, FS_Singleton
    <2>2. refs' = [w \in Vals |-> IF refs[w] > 0 THEN refs[w] - Cardinality(Owners(w) \cap {h})
                                                 ELSE refs[w]]
      <3>1. refs \in [Vals -> Nat]
        BY <1>i DEF Typed
      <3>2. refs' = [w \in Vals |-> IF w = v THEN refs[w] - 1 ELSE refs[w]]
        BY <1>1, <1>2, <1>4, <3>1 DEF Unref
      <3>3. ASSUME NEW w \in Vals
            PROVE  refs'[w] = IF refs[w] > 0 THEN refs[w] - Cardinality(Owners(w) \cap {h})
                                             ELSE refs[w]
        <4>1. CASE w = v
          <5>1. Cardinality(Owners(w) \cap {h}) = 1 /\ refs'[w] = refs[w] - 1 /\ refs[w] > 0
            BY <1>4, <2>1, <3>2, <4>1
          <5>. QED
            BY <5>1
        <4>2. CASE w # v
          <5>1. Cardinality(Owners(w) \cap {h}) = 0 /\ refs'[w] = refs[w] /\ refs[w] \in Nat
            BY <2>1, <3>1, <3>2, <4>2
          <5>. QED
            BY <5>1
        <4>. QED
          BY <4>1, <4>2
      <3>. QED
        BY <3>2, <3>3
    <2>3. \A g \in Handles : Pointer(g)' = IF g \in {h} THEN Null ELSE Pointer(g)
      BY <1>3
    <2>4. \A g \in {h} : Pointer(g) # Null
      BY <1>1, <1>3
    <2>5. {h} \in SUBSET NormalHandles /\ {h} # {}
      BY <1>3
    <2>. QED
      BY <1>2, <2>2, <2>3, <2>4, <2>5, ReleaseStep
  <1>6. Counters' /\ Counted'
    BY <1>i, <1>5, CountedAfter
  <1>7. /\ \A w \in Vals : mem[w] = "dying" => mem'[w] = "dying"
        /\ refs[v] = 1 => mem'[v] = "dying"
    <2>1. refs[v] = 1 => refs'[v] = 0
      BY <1>i, <1>1, <1>2 DEF Unref, Typed
    <2>. QED
      BY <1>i, <1>1, <1>2, <1>4, <2>1 DEF Dying, Typed
  <1>8. /\ Sequence(<<>>) /\ ToSet(<<>>) = {} /\ Ordered(<<>>) /\ Distinct(item, <<>>)
    BY Literals, OrderedLiterals, ClaimLiterals
  <1>9. CASE Go(t, <<>>)
    <2>1. IInv'
      BY <1>1, <1>2, <1>6, <1>7, <1>8, <1>9, SlotStep
    <2>. QED
      BY <1>5, <2>1
  <1>10. ASSUME NEW e, Go(t, <<e>>), e[1] \in {"scav", "reap"} PROVE IInv' /\ Protocol
    <2>1. Sound(t, e)'
      BY <1>10 DEF Sound
    <2>2. e[1] \notin Owning /\ e[1] \notin Changing /\ e[1] # "store"
      BY <1>10 DEF Owning, Storings, Changing
    <2>3. /\ Sequence(<<e>>) /\ ToSet(<<e>>) = {e} /\ Ordered(<<e>>) /\ Distinct(item, <<e>>)
      BY <2>2, Literals, OrderedLiterals, ClaimLiterals
    <2>4. IInv'
      BY <1>1, <1>2, <1>6, <1>7, <1>10, <2>1, <2>2, <2>3, SlotStep
    <2>. QED
      BY <1>5, <2>4
  <1>11. CASE Go(t, << <<"destroy", v>> >>) /\ refs[v] = 1
    <2>. DEFINE e == <<"destroy", v>>
    <2>1. Sound(t, e)'
      BY <1>1, <1>7, <1>11 DEF Sound
    <2>2. e[1] = "destroy" /\ e[2] = v /\ e[1] \notin Changing
      BY DEF Changing
    <2>3. Go(t, <<e>>)
      BY <1>11
    <2>. HIDE DEF e
    <2>4. /\ Sequence(<<e>>) /\ ToSet(<<e>>) = {e} /\ Ordered(<<e>>) /\ Distinct(item, <<e>>)
      BY <2>2, Literals, OrderedLiterals, ClaimLiterals
    <2>5. IInv'
      BY <1>1, <1>2, <1>4, <1>6, <1>7, <2>1, <2>2, <2>3, <2>4, SlotStep
    <2>. QED
      BY <1>5, <2>5
  <1>. QED
    BY <1>9, <1>10, <1>11

LEMMA DropTileStep ==
    ASSUME IInv, NEW t \in Threads, NEW q \in Slots, hold[t][q] # Null, DropTile(t, q),
           agenda[t] = <<>> \/ Head(agenda[t])[1] = "dropown"
    PROVE  IInv' /\ Protocol
  <1>v. PICK v : v = hold[t][q]
    OBVIOUS
  <1>1. DropSlot(t, q) /\ lru' = lru /\ hash' = hash /\ item' = item
    BY DEF DropTile
  <1>2. "dropown" \in Changing /\ "dropown" \notin Owning
    BY DEF Changing, Owning, Storings
  <1>3. \/ Go(t, <<>>)
        \/ Go(t, << <<"destroy", v>> >>) /\ refs[v] = 1
        \/ \E n : Go(t, << <<"scav", n, TRUE, <<>> >> >>)
    BY <1>v DEF DropTile, ScavengeOrNot
  <1>4. (\E n : Go(t, << <<"scav", n, TRUE, <<>> >> >>)) =>
            \E e : Go(t, <<e>>) /\ e[1] \in {"scav", "reap"}
    <2>1. ASSUME NEW n, Go(t, << <<"scav", n, TRUE, <<>> >> >>)
          PROVE  \E e : Go(t, <<e>>) /\ e[1] \in {"scav", "reap"}
      <3>. WITNESS <<"scav", n, TRUE, <<>> >>
      <3>. QED
        BY <2>1
    <2>. QED
      BY <2>1
  <1>. QED
    BY <1>v, <1>1, <1>2, <1>3, <1>4, DropSlotStep

LEMMA DropImageStep ==
    ASSUME IInv, NEW t \in Threads, hold[t]["img"] # Null, DropImage(t),
           agenda[t] = <<>> \/ Head(agenda[t])[1] = "dropimage"
    PROVE  IInv' /\ Protocol
  <1>v. PICK v : v = hold[t]["img"]
    OBVIOUS
  <1>1. DropSlot(t, "img") /\ lru' = lru /\ hash' = hash /\ item' = item /\ "img" \in Slots
    BY DEF DropImage, Slots
  <1>2. "dropimage" \in Changing /\ "dropimage" \notin Owning
    BY DEF Changing, Owning, Storings
  <1>3. \/ Go(t, <<>>)
        \/ Go(t, << <<"destroy", v>> >>) /\ refs[v] = 1
        \/ Go(t, << <<"reap">> >>)
    BY <1>v DEF DropImage
  <1>4. Go(t, << <<"reap">> >>) => \E e : Go(t, <<e>>) /\ e[1] \in {"scav", "reap"}
    <2>1. ASSUME Go(t, << <<"reap">> >>)
          PROVE  \E e : Go(t, <<e>>) /\ e[1] \in {"scav", "reap"}
      <3>. WITNESS <<"reap">>
      <3>. QED
        BY <2>1
    <2>. QED
      BY <2>1
  <1>. QED
    BY <1>v, <1>1, <1>2, <1>3, <1>4, DropSlotStep

LEMMA FinishWithTileStep ==
    ASSUME IInv, NEW t \in Threads, NEW q \in Slots, FinishWithTile(t, q)
    PROVE  IInv' /\ Protocol
  BY DropTileStep DEF FinishWithTile, Idle

LEMMA FinishWithImageStep ==
    ASSUME IInv, NEW t \in Threads, FinishWithImage(t)
    PROVE  IInv' /\ Protocol
  BY DropImageStep DEF FinishWithImage, Idle

LEMMA DropOwnStep ==
    ASSUME IInv, NEW t \in Threads, DropOwn(t)
    PROVE  IInv' /\ Protocol
  <1>1. agenda[t] # <<>> /\ Head(agenda[t])[1] = "dropown" /\ DropTile(t, "tile")
    BY DEF DropOwn, At
  <1>2. hold[t]["tile"] # Null /\ "tile" \in Slots
    BY <1>1, HeadIs DEF IInv, Sound, Slots
  <1>. QED
    BY <1>1, <1>2, DropTileStep

LEMMA DropListImageStep ==
    ASSUME IInv, NEW t \in Threads, DropListImage(t)
    PROVE  IInv' /\ Protocol
  <1>1. agenda[t] # <<>> /\ Head(agenda[t])[1] = "dropimage" /\ DropImage(t)
    BY DEF DropListImage, At
  <1>2. hold[t]["img"] # Null
    BY <1>1, HeadIs DEF IInv, Sound
  <1>. QED
    BY <1>1, <1>2, DropImageStep

-----------------------------------------------------------------------------
\* What fz_store_item has when it starts: the value, and a key of the thread's own
\* or an object nothing is stored under.
LEMMA StoreIs ==
    ASSUME IInv, NEW t \in Threads, agenda[t] # <<>>, Head(agenda[t])[1] = "store",
           NEW x, NEW k, NEW q, NEW v, x = Head(agenda[t])[2], k = Head(agenda[t])[3],
           q = Head(agenda[t])[4], v = hold[t][q]
    PROVE  /\ v \in Vals /\ k \in Keys
           /\ \/ /\ x = Null /\ k \in ObjKeys /\ q = "img" /\ t = Doc
                 /\ v \in Images /\ Unused(k)
              \/ /\ x \in Ids /\ Decoding(t, k) /\ q = "tile" /\ v \in Tiles
                 /\ item[x].mine /\ ~item[x].live /\ item[x].key = k
           /\ HeadClaims(t) = {} /\ "store" \in Changing /\ "store" \notin Owning
  <1>i. Typed /\ SlotsGood /\ AgendaSound
    BY DEF IInv
  <1>1. Sound(t, Head(agenda[t])) /\ HeadClaims(t) = Claim(item, Head(agenda[t]))
    BY <1>i, HeadIs
  <1>2. "store" \in Changing /\ "store" \notin Owning
    BY DEF Changing, Owning, Storings
  <1>3. HeadClaims(t) = {}
    BY <1>1, <1>2, PlainClaims
  <1>4. \/ /\ x = Null /\ k \in ObjKeys /\ q = "img" /\ t = Doc /\ v # Null /\ Unused(k)
        \/ /\ x \in Ids /\ Decoding(t, k) /\ q = "tile" /\ v # Null
           /\ item[x].mine /\ ~item[x].live /\ item[x].key = k
    BY <1>1 DEF Sound
  <1>5. hold[t]["img"] \in Images \cup {Null} /\ hold[t]["tile"] \in Tiles \cup {Null}
    BY <1>i DEF SlotsGood
  <1>6. \/ /\ x = Null /\ k \in ObjKeys /\ q = "img" /\ t = Doc
           /\ v \in Images /\ Unused(k)
        \/ /\ x \in Ids /\ Decoding(t, k) /\ q = "tile" /\ v \in Tiles
           /\ item[x].mine /\ ~item[x].live /\ item[x].key = k
    BY <1>4, <1>5
  <1>7. v \in Vals /\ k \in Keys
    BY <1>6, Kinds DEF Decoding
  <1>. QED
    BY <1>2, <1>3, <1>6, <1>7

\* There is an item with the key already.
LEMMA StoreExistingStep ==
    ASSUME IInv, NEW t \in Threads, agenda[t] # <<>>, Head(agenda[t])[1] = "store",
           NEW k, k = Head(agenda[t])[3], k \in Hashed, NEW id, id = hash[k], id # Null,
           lru' = Touch(id), refs' = Ref(refs, Val(id)),
           hold' = [hold EXCEPT ![t]["dup"] = Val(id)],
           Go(t, << <<"retval", id, Val(id)>>, <<"dropown">> >>),
           UNCHANGED <<hash, size, defer, needs, scav, item, keyRefs, mem, lock>>
    PROVE  IInv' /\ Protocol
  <1>i. Typed /\ SlotsGood /\ ItemsGood
    BY DEF IInv
  <1>0. PICK x, q, v, w : x = Head(agenda[t])[2] /\ q = Head(agenda[t])[4]
                          /\ v = hold[t][q] /\ w = Val(id)
    OBVIOUS
  <1>1. /\ k \in TileKeys /\ Decoding(t, k) /\ v = hold[t]["tile"] /\ v # Null
        /\ "store" \in Changing /\ "store" \notin Owning
    <2>1. /\ v \in Vals
          /\ \/ k \in ObjKeys /\ Unused(k)
             \/ Decoding(t, k) /\ q = "tile"
          /\ "store" \in Changing /\ "store" \notin Owning
      BY <1>0, StoreIs
    <2>2. ~Unused(k)
      BY DEF Unused
    <2>. QED
      BY <1>0, <2>1, <2>2, Kinds DEF Decoding
  <1>2. k \in Keys /\ Lookup(k) = id
    BY <1>1, Kinds DEF Lookup
  <1>3. id \in Ids /\ item[id].live /\ item[id].held /\ item[id].key = k
    BY <1>2, LookupIs
  <1>4. w \in Tiles /\ w \in Vals /\ "dup" \in Slots /\ "img" \in Slots /\ "tile" \in Slots
    BY <1>i, <1>0, <1>1, <1>3, Kinds DEF ItemsGood, Slots
  <1>. DEFINE a == <<"retval", id, w>>
              b == <<"dropown">>
  <1>5. hold' = [hold EXCEPT ![t]["dup"] = w] /\ hash' = hash /\ item' = item
    BY <1>0
  <1>6. /\ hold'[t]["dup"] = w /\ hold'[t]["img"] = hold[t]["img"]
        /\ hold'[t]["tile"] = hold[t]["tile"]
    <2>1. hold \in [Threads -> [Slots -> Vals \cup {Null}]]
      BY <1>i DEF Typed
    <2>. QED
      BY <1>4, <1>5, <2>1
  <1>7. Sound(t, a)'
    <2>1. Secured(t, id)'
      BY ZenonT(20), <1>0, <1>1, <1>3, <1>5, <1>6 DEF Secured, Decoding, Val
    <2>. QED
      BY ZenonT(20), <1>0, <1>1, <1>3, <1>5, <1>6, <2>1 DEF Sound, Val
  <1>8. Sound(t, b)'
    BY <1>1, <1>6 DEF Sound
  <1>9. /\ a[1] \notin Owning /\ b[1] \notin Owning /\ b[1] \in Later /\ a[1] \notin Changing
        /\ a[1] # "store"
    BY DEF Owning, Storings, Later, Relying, Changing
  <1>10. Go(t, <<a, b>>) /\ Hit(t, "dup", Lookup(k)) /\ hold[t]["dup"] = Null
    BY <1>0, <1>1, <1>2 DEF Hit, Decoding
  <1>. HIDE DEF a, b
  <1>11. Sequence(<<a, b>>) /\ ToSet(<<a, b>>) = {a, b} /\ Ordered(<<a, b>>)
    BY <1>9, Literals, OrderedLiterals
  <1>12. \A e \in ToSet(<<a, b>>) : e[1] \notin Owning /\ Sound(t, e)'
    BY <1>7, <1>8, <1>9, <1>11
  <1>13. Lookup(k) # Null /\ k \in (IF "dup" = "img" THEN ObjKeys ELSE TileKeys)
    BY <1>1, <1>2
  <1>. QED
    BY <1>1, <1>2, <1>4, <1>10, <1>11, <1>12, <1>13, HitStep

\* A new item: it will be in the list when there is room for it.
LEMMA StoreNewStep ==
    ASSUME IInv, NEW t \in Threads, agenda[t] # <<>>, Head(agenda[t])[1] = "store",
           NEW x, NEW k, NEW q, NEW v, x = Head(agenda[t])[2], k = Head(agenda[t])[3],
           q = Head(agenda[t])[4], v = hold[t][q],
           k \in Hashed => hash[k] = Null,
           NEW id \in (IF x = Null THEN FreeIds ELSE {x}),
           item' = [item EXCEPT ![id] =
                      [@ EXCEPT !.live = TRUE, !.held = TRUE, !.key = k, !.val = v]],
           hash' = IF k \in Hashed THEN [hash EXCEPT ![k] = id] ELSE hash,
           Go(t, << <<"room", id>> >>), refs' = Ref(refs, v),
           lru' = lru, keyRefs' = keyRefs, mem' = mem, hold' = hold
    PROVE  IInv' /\ Protocol
  <1>i. /\ Typed /\ SlotsGood /\ ItemsGood /\ ListGood /\ HashGood
        /\ AgendaSound /\ AgendaOrdered /\ Claimed /\ NothingLost /\ Counted
    BY DEF IInv
  <1>1. /\ v \in Vals /\ k \in Keys
        /\ \/ /\ x = Null /\ k \in ObjKeys /\ q = "img" /\ t = Doc
              /\ v \in Images /\ Unused(k)
           \/ /\ x \in Ids /\ Decoding(t, k) /\ q = "tile" /\ v \in Tiles
              /\ item[x].mine /\ ~item[x].live /\ item[x].key = k
        /\ HeadClaims(t) = {} /\ "store" \in Changing /\ "store" \notin Owning
    BY SMTT(40), StoreIs
  <1>2. /\ id \in Ids /\ ~item[id].live /\ q \in Slots
        /\ x = Null => ~item[id].mine
        /\ x # Null => id = x
        /\ ~item[id].held
    BY <1>i, <1>1, Kinds DEF FreeIds, KeyExists, Slots, ItemsGood
  <1>3. /\ item' \in [Ids -> ItemType]
        /\ item'[id].live /\ item'[id].held /\ item'[id].key = k /\ item'[id].val = v
        /\ item'[id].mine = item[id].mine
        /\ \A j \in Ids : j # id => item'[j] = item[j]
    <2>. DEFINE new == [item[id] EXCEPT !.live = TRUE, !.held = TRUE, !.key = k, !.val = v]
    <2>1. item \in [Ids -> ItemType] /\ item[id] \in ItemType
      BY <1>i, <1>2 DEF Typed
    <2>2. /\ new \in ItemType /\ new.live /\ new.held /\ new.key = k /\ new.val = v
          /\ new.mine = item[id].mine
      BY <1>1, <2>1 DEF ItemType
    <2>3. item' = [item EXCEPT ![id] = new]
      BY <1>2, <2>1
    <2>. HIDE DEF new
    <2>. QED
      BY <1>2, <2>1, <2>2, <2>3
  <1>4. /\ hash' \in [Hashed -> Ids \cup {Null}]
        /\ k \in Hashed => hash'[k] = id
        /\ \A l \in Hashed : l # k => hash'[l] = hash[l]
    BY <1>i, <1>2 DEF Typed
  <1>5. Protocol
    <2>1. /\ <<t, q>> \in NormalHandles /\ Pointer(<<t, q>>) = v
          /\ <<id, "val">> \in NormalHandles /\ Pointer(<<id, "val">>) = Null
      BY <1>2, NormalIs, PointerIs
    <2>2. Pointer(<<id, "val">>)' = v
      BY <1>2, <1>3, PointerIs
    <2>3. ASSUME NEW d \in Handles, d # <<id, "val">> PROVE Pointer(d)' = Pointer(d)
      <3>1. CASE \E u \in Threads, r \in Slots : d = <<u, r>>
        BY <3>1, PointerIs
      <3>2. ASSUME NEW j \in Ids, d = <<j, "val">> \/ d = <<j, "key">>, j # id
            PROVE  Pointer(d)' = Pointer(d)
        <4>1. item'[j] = item[j]
          BY <1>3, <3>2
        <4>. QED
          BY <3>2, <4>1, SamePointers
      <3>3. CASE d = <<id, "key">>
        <4>1. Pointer(d)' = ImageOf(k)
          BY ZenonT(40), <1>2, <1>3, <3>3, PointerIs
        <4>2. Pointer(d) = IF item[id].mine THEN ImageOf(item[id].key) ELSE Null
          BY <1>2, <3>3, PointerIs
        <4>. QED
          BY <1>1, <1>2, <4>1, <4>2, Kinds
      <3>. QED
        BY <2>3, <3>1, <3>2, <3>3, PointerIs
    <2>. QED
      BY <1>1, <2>1, <2>2, <2>3, KeepStep
  <1>6. Counters' /\ Counted'
    BY <1>i, <1>5, CountedAfter
  <1>7. ItemsGood'
    <2>1. ASSUME NEW j \in Ids
          PROVE  /\ item'[j].live \/ item'[j].mine => item'[j].key \in Keys
                 /\ item'[j].mine => item'[j].key \in TileKeys
                 /\ item'[j].live =>
                      /\ item'[j].key \in TileKeys => item'[j].val \in Tiles
                      /\ item'[j].key \in ObjKeys => item'[j].val \in Images
                 /\ ~item'[j].live => ~item'[j].held /\ item'[j].val = Null
      <3>1. CASE j # id
        BY <1>i, <1>3, <3>1 DEF ItemsGood, KeyExists, Val
      <3>2. CASE j = id
        BY <1>1, <1>2, <1>3, <3>2, Kinds DEF Decoding
      <3>. QED
        BY <3>1, <3>2
    <2>. QED
      BY <2>1 DEF ItemsGood, KeyExists, Val
  <1>8. id \notin Listed /\ Listed' = Listed /\ lru' \in Seq(Ids) /\ Listed \subseteq Ids
    BY <1>i, <1>2, SequenceIs DEF ListGood, Listed, Typed
  <1>9. ListGood'
    <2>1. ASSUME NEW j \in Listed
          PROVE  /\ item'[j].live /\ item'[j].held
                 /\ item'[j].key \in Hashed => hash'[item'[j].key] = j
      <3>1. item'[j] = item[j] /\ j # Null
        BY <1>3, <1>8, Kinds
      <3>. QED
        BY <1>i, <1>4, <3>1 DEF ListGood
    <2>. QED
      BY <1>i, <1>8, <2>1 DEF ListGood
  <1>. DEFINE e == <<"room", id>>
  <1>10. e[1] \in Storings /\ e[2] = id /\ e[1] \notin Changing /\ e[1] # "store"
    BY DEF Storings, Changing
  <1>11. Claim(item', e) = {<<"item", id>>}
    BY DEF Claim
  <1>12. Sound(t, e)'
    <2>1. Secured(t, id)'
      BY <1>1, <1>2, <1>3, <1>4, Kinds DEF Secured, Decoding, Val
    <2>. QED
      BY <2>1 DEF Sound
  <1>13. Go(t, <<e>>)
    OBVIOUS
  <1>. HIDE DEF e
  <1>14. /\ Sequence(<<e>>) /\ ToSet(<<e>>) = {e} /\ Ordered(<<e>>)
         /\ Distinct(item', <<e>>) /\ Claims(item', <<e>>) = {<<"item", id>>}
    BY ZenonT(20), <1>10, <1>11, Literals, OrderedLiterals, ClaimLiterals
  <1>15. Found(t, <<e>>)
    <2>1. ASSUME NEW l \in Hashed, hash'[l] # Null
          PROVE  /\ item'[hash'[l]].live /\ item'[hash'[l]].held /\ item'[hash'[l]].key = l
                 /\ \/ hash'[l] \in Listed'
                    \/ \E d \in ToSet(<<e>>) : d[1] \in Storings /\ d[2] = hash'[l]
                    \/ hash'[l] \in InWindow /\ <<"item", hash'[l]>> \notin HeadClaims(t)
      <3>1. CASE l = k
        BY <1>3, <1>4, <1>10, <1>14, <3>1
      <3>2. CASE l # k
        <4>1. hash'[l] = hash[l] /\ hash[l] \in Ids
          BY <1>i, <1>4, <2>1, <3>2 DEF Typed
        <4>2. /\ item[hash[l]].live /\ item[hash[l]].held /\ item[hash[l]].key = l
              /\ hash[l] \in Listed \cup InWindow
          BY <1>i, <2>1, <4>1 DEF HashGood
        <4>3. hash[l] # id
          BY <1>2, <4>2
        <4>4. item'[hash'[l]] = item[hash[l]]
          BY <1>3, <4>1, <4>3
        <4>5. hash'[l] \in Listed' \cup InWindow
          BY <1>8, <4>1, <4>2
        <4>6. <<"item", hash'[l]>> \notin HeadClaims(t)
          BY <1>1, <4>1, <4>3
        <4>. QED
          BY <4>2, <4>4, <4>5, <4>6
      <3>. QED
        BY <3>1, <3>2
    <2>. QED
      BY <2>1 DEF Found
  <1>16. Spared(t)
    <2>1. \A j \in Ids : item[j].live => j # id /\ item'[j] = item[j] /\ SameItem(j)
      BY <1>2, <1>3 DEF SameItem
    <2>2. \A j \in Ids : item[j].live /\ Out(j) => Out(j)'
      <3>1. SUFFICES ASSUME NEW j \in Ids, item[j].live, Out(j) PROVE Out(j)'
        OBVIOUS
      <3>2. \A l \in Hashed : hash'[l] # j
        BY <1>2, <1>4, <3>1 DEF Out
      <3>. QED
        BY <1>8, <3>1, <3>2 DEF Out
    <2>3. ASSUME NEW u \in Threads, NEW j \in Ids, Secured(u, j)
          PROVE  SameItem(j) /\ (item[j].key \in Hashed => hash'[item[j].key] = j)
      <3>1. item[j].live /\ j # Null /\ (item[j].key \in Hashed => hash[item[j].key] = j)
        BY <2>3, Kinds DEF Secured
      <3>. QED
        BY <1>4, <2>1, <3>1
    <2>4. \A j \in Ids : item[j].mine => item'[j].mine
      BY <1>3
    <2>5. ASSUME NEW u \in Threads \ {t}, NEW j \in Ids,
                 <<"key", j>> \in Claims(item, agenda[u]), item[j].mine
          PROVE  item'[j] = item[j]
      <3>1. CASE j # id
        BY <1>3, <3>1
      <3>2. CASE j = id
        <4>1. x = id /\ x # Null /\ x \in Ids
          BY <1>2, <2>5, <3>2, Kinds
        <4>2. Head(agenda[t]) \in ToSet(agenda[t])
          BY <1>i, HeadIs DEF ToSet
        <4>3. <<"key", id>> \in Claims(item, agenda[t])
          BY <1>i, <4>1, <4>2, StoreKey
        <4>. QED
          BY <1>i, <2>5, <3>2, <4>3 DEF Claimed
      <3>. QED
        BY <3>1, <3>2
    <2>6. t # Doc => \A l \in ObjKeys : Unused(l) => Unused(l)'
      <3>1. t # Doc => k \notin ObjKeys
        BY <1>1, Kinds DEF Decoding
      <3>. QED
        BY <1>4, <3>1 DEF Unused
    <2>7. \A j \in Ids : item[j].live => item'[j].val = item[j].val
      BY <2>1
    <2>8. \A w \in Vals : mem[w] = "dying" => mem'[w] = "dying"
      OBVIOUS
    <2>9. \A u \in Threads \ {t} : hold'[u] = hold[u]
      OBVIOUS
    <2>10. \A j \in Ids : item[j].live /\ Out(j) => SameItem(j) /\ Out(j)'
      BY <2>1, <2>2
    <2>. QED
      BY <2>3, <2>4, <2>5, <2>6, <2>7, <2>8, <2>9, <2>10 DEF Spared
  <1>17. Passed(t, <<e>>)
    <2>1. \A u \in Threads : <<"item", id>> \notin Claims(item, agenda[u])
      BY <1>i, <1>2, ClaimMeans
    <2>2. \A j \in Ids : item'[j].live => j = id \/ item[j].live
      BY <1>3
    <2>3. \A j \in Ids : item'[j].mine => item[j].mine
      BY <1>3
    <2>. QED
      BY ZenonT(20), <1>1, <1>8, <1>14, <2>1, <2>2, <2>3 DEF Passed
  <1>18. hold' \in [Threads -> [Slots -> Vals \cup {Null}]] /\ SlotsGood'
    BY <1>i DEF Typed, SlotsGood
  <1>19. \A d \in ToSet(<<e>>) : Sound(t, d)'
    BY <1>12, <1>14
  <1>20. \A d \in ToSet(<<e>>) : d[1] \notin Changing
    BY <1>10, <1>14
  <1>21. IInv'
    BY <1>3, <1>4, <1>6, <1>7, <1>8, <1>9, <1>13, <1>14, <1>15, <1>16, <1>17, <1>18,
       <1>19, <1>20, Advance
  <1>. QED
    BY <1>5, <1>21

LEMMA StoreItemStep ==
    ASSUME IInv, NEW t \in Threads, StoreItem(t)
    PROVE  IInv' /\ Protocol
  <1>1. agenda[t] # <<>> /\ Head(agenda[t])[1] = "store"
    BY ZenonT(20) DEF StoreItem, At
  <1>0. PICK x, k, q, v, id : x = Head(agenda[t])[2] /\ k = Head(agenda[t])[3]
                    /\ q = Head(agenda[t])[4] /\ v = hold[t][q]
                    /\ id = IF k \in Hashed THEN hash[k] ELSE Null
    OBVIOUS
  <1>2. CASE Go(t, <<>>) /\ UNCHANGED <<storeVars, item, valVars, hold, lock>>
    <2>1. Head(agenda[t])[1] \notin Owning
      BY <1>1 DEF Owning, Storings
    <2>. QED
      BY <1>2, <2>1, QuietNone DEF Still, storeVars, valVars
  <1>3. CASE /\ id # Null
             /\ lru' = Touch(id)
             /\ refs' = Ref(refs, Val(id))
             /\ hold' = [hold EXCEPT ![t]["dup"] = Val(id)]
             /\ Go(t, << <<"retval", id, Val(id)>>, <<"dropown">> >>)
             /\ UNCHANGED <<hash, size, defer, needs, scav, item, keyRefs, mem, lock>>
    <2>1. k \in Hashed /\ id = hash[k]
      BY <1>0, <1>3
    <2>. QED
      BY <1>0, <1>1, <1>3, <2>1, StoreExistingStep
  <1>4. CASE /\ id = Null
             /\ \E j \in IF x = Null THEN FreeIds ELSE {x} :
                  /\ item' = [item EXCEPT ![j] =
                       [@ EXCEPT !.live = TRUE, !.held = TRUE, !.key = k, !.val = v]]
                  /\ hash' = IF k \in Hashed THEN [hash EXCEPT ![k] = j] ELSE hash
                  /\ Go(t, << <<"room", j>> >>)
             /\ refs' = Ref(refs, v)
             /\ KeepLock(t)
             /\ UNCHANGED <<lru, size, defer, needs, scav, keyRefs, mem, hold>>
    <2>1. k \in Hashed => hash[k] = Null
      BY <1>0, <1>4
    <2>. QED
      BY ZenonT(20), <1>0, <1>1, <1>4, <2>1, StoreNewStep
  <1>. QED
    BY ZenonT(20), <1>0, <1>2, <1>3, <1>4 DEF StoreItem, Arg

-----------------------------------------------------------------------------
(***************************************************************************)
(* A step that changes at most one item, which is the operation's own, or  *)
(* new, or stays the same but for the thread's reference to its key.       *)
(***************************************************************************)
LEMMA ItemStep ==
    ASSUME IInv, Counters', Counted',
           NEW t \in Threads, NEW s, Sequence(s), Go(t, s), Ordered(s), NEW id,
           lru' = lru, hash' = hash, hold' = hold, item' \in [Ids -> ItemType], ItemsGood',
           \A j \in Ids : j # id => item'[j] = item[j],
           id \in Ids =>
             /\ \/ SameItem(id)
                \/ Out(id) /\ ~item[id].held /\ ~item'[id].live
                   /\ (item[id].live => <<"item", id>> \in HeadClaims(t))
             /\ item[id].mine => item'[id].mine \/ <<"key", id>> \in HeadClaims(t)
             /\ item[id].mine /\ ~item[id].live =>
                  item'[id] = item[id] \/ <<"key", id>> \in HeadClaims(t)
             /\ item'[id].mine =>
                  \/ <<"key", id>> \in Claims(item', s)
                  \/ item[id].mine /\ <<"key", id>> \notin HeadClaims(t),
           \A j \in Ids : <<"item", j>> \in HeadClaims(t) =>
               /\ Out(j)
               /\ (j = id /\ ~item'[id].live) \/ <<"item", j>> \in Claims(item', s),
           \A j \in Ids : <<"key", j>> \in HeadClaims(t) => j = id,
           \A v \in Vals : mem[v] = "dying" /\ <<"mem", v>> \notin HeadClaims(t) =>
               mem'[v] = "dying",
           Distinct(item', s),
           \A c \in Claims(item', s) :
               c \in HeadClaims(t) \/ \A u \in Threads : c \notin Claims(item, agenda[u]),
           \A e \in ToSet(s) :
               \/ Sound(t, e)' /\ e[1] \notin Changing \cup Storings
               \/ /\ Sound(t, e)' /\ e[1] \notin Storings
                  /\ agenda[t] # <<>> /\ Head(agenda[t])[1] \in Changing
    PROVE  IInv'
  <1>i. /\ Typed /\ SlotsGood /\ ItemsGood /\ ListGood /\ HashGood
        /\ AgendaSound /\ AgendaOrdered /\ Claimed /\ NothingLost /\ Counted
    BY DEF IInv
  <1>1. Listed' = Listed /\ (\A j : Out(j)' = Out(j)) /\ Listed \subseteq Ids
    BY <1>i, SequenceIs DEF Listed, Out, Typed
  <1>2. \A j \in Ids : ~Out(j) => SameItem(j)
    BY DEF SameItem
  <1>3. ListGood'
    <2>1. ASSUME NEW j \in Listed
          PROVE  /\ item'[j].live /\ item'[j].held
                 /\ item'[j].key \in Hashed => hash'[item'[j].key] = j
      <3>1. j \in Ids /\ ~Out(j)
        BY <1>1 DEF Out
      <3>2. SameItem(j)
        BY <1>2, <3>1
      <3>3. /\ item[j].live /\ item[j].held
            /\ item[j].key \in Hashed => hash[item[j].key] = j
        BY <1>i DEF ListGood
      <3>. QED
        BY <3>2, <3>3 DEF SameItem
    <2>. QED
      BY <1>i, <1>1, <2>1 DEF ListGood
  <1>4. Found(t, s)
    <2>1. ASSUME NEW k \in Hashed, hash[k] # Null
          PROVE  /\ item'[hash[k]].live /\ item'[hash[k]].held /\ item'[hash[k]].key = k
                 /\ hash[k] \in Listed \/ hash[k] \in InWindow
                 /\ <<"item", hash[k]>> \notin HeadClaims(t)
      <3>1. hash[k] \in Ids /\ ~Out(hash[k])
        BY <1>i, <2>1 DEF Typed, Out
      <3>2. SameItem(hash[k])
        BY <1>2, <3>1
      <3>3. /\ item[hash[k]].live /\ item[hash[k]].held /\ item[hash[k]].key = k
            /\ hash[k] \in Listed \cup InWindow
        BY <1>i, <2>1 DEF HashGood
      <3>4. <<"item", hash[k]>> \notin HeadClaims(t)
        BY <3>1
      <3>. QED
        BY <3>2, <3>3, <3>4 DEF SameItem
    <2>. QED
      BY <1>1, <2>1 DEF Found
  <1>5. Spared(t)
    <2>1. ASSUME NEW j \in Ids, item[j].live
          PROVE  SameItem(j) \/ <<"item", j>> \in HeadClaims(t)
      BY <2>1 DEF SameItem
    <2>2. \A j \in Ids : item[j].live =>
              item'[j].val = item[j].val \/ <<"item", j>> \in HeadClaims(t)
      BY <2>1 DEF SameItem
    <2>3. \A j \in Ids : item[j].live /\ Out(j) /\ <<"item", j>> \notin HeadClaims(t) =>
              SameItem(j) /\ Out(j)'
      BY <1>1, <2>1
    <2>4. ASSUME NEW u \in Threads, NEW j \in Ids, Secured(u, j),
                 u = t => agenda[t] # <<>> /\ Head(agenda[t])[1] \notin Changing
          PROVE  SameItem(j) /\ (item[j].key \in Hashed => hash'[item[j].key] = j)
      <3>1. /\ item[j].live /\ item[j].held
            /\ item[j].key \in Hashed => hash[item[j].key] = j
        BY <2>4 DEF Secured
      <3>2. SameItem(j)
        BY <3>1 DEF SameItem
      <3>. QED
        BY <3>1, <3>2
    <2>5. \A j \in Ids : item[j].mine /\ <<"key", j>> \notin HeadClaims(t) => item'[j].mine
      OBVIOUS
    <2>6. ASSUME NEW u \in Threads \ {t}, NEW j \in Ids,
                 <<"key", j>> \in Claims(item, agenda[u]), item[j].mine, ~item[j].live
          PROVE  item'[j] = item[j]
      <3>1. <<"key", j>> \notin HeadClaims(t)
        <4>1. CASE agenda[t] = <<>>
          BY <4>1 DEF HeadClaims
        <4>2. CASE agenda[t] # <<>>
          BY <1>i, <2>6, <4>2, HeadIs DEF Claimed
        <4>. QED
          BY <4>1, <4>2
      <3>. QED
        BY <2>6, <3>1
    <2>7. \A k \in ObjKeys : Unused(k) => Unused(k)'
      BY DEF Unused
    <2>. QED
      BY <2>2, <2>3, <2>4, <2>5, <2>6, <2>7 DEF Spared
  <1>6. Passed(t, s)
    <2>1. ASSUME NEW j \in Ids, item'[j].live
          PROVE  \/ j \in Listed'
                 \/ <<"item", j>> \in Claims(item', s)
                 \/ /\ item[j].live /\ (j \in Listed => j \in Listed')
                    /\ <<"item", j>> \notin HeadClaims(t)
      <3>1. item[j].live
        BY <2>1 DEF SameItem
      <3>2. CASE <<"item", j>> \in HeadClaims(t)
        BY <2>1, <3>2
      <3>. QED
        BY <1>1, <3>1, <3>2
    <2>2. ASSUME NEW j \in Ids, item'[j].mine
          PROVE  \/ <<"key", j>> \in Claims(item', s)
                 \/ item[j].mine /\ <<"key", j>> \notin HeadClaims(t)
      BY <2>2
    <2>. QED
      BY <2>1, <2>2 DEF Passed
  <1>7. /\ lru' \in Seq(Ids) /\ hash' \in [Hashed -> Ids \cup {Null}]
        /\ hold' \in [Threads -> [Slots -> Vals \cup {Null}]] /\ SlotsGood'
    BY <1>i DEF Typed, SlotsGood
  <1>. QED
    BY <1>3, <1>4, <1>5, <1>6, <1>7, Advance

\* The operations of a thread are about items and values that only it names.
LEMMA DestroyValueStep ==
    ASSUME IInv, NEW t \in Threads, Destroy(t)
    PROVE  IInv' /\ Protocol
  <1>i. /\ Typed /\ SlotsGood /\ ItemsGood /\ Counted /\ AgendaSound
    BY DEF IInv
  <1>0. PICK v : v = Head(agenda[t])[2]
    OBVIOUS
  <1>1. /\ agenda[t] # <<>> /\ Head(agenda[t])[1] = "destroy" /\ Go(t, <<>>)
        /\ mem' = [mem EXCEPT ![v] = "free"]
        /\ lru' = lru /\ hash' = hash /\ item' = item /\ hold' = hold
        /\ refs' = refs /\ keyRefs' = keyRefs
    BY <1>0 DEF Destroy, At, Arg, storeVars
  <1>2. v \in Vals /\ mem[v] = "dying" /\ HeadClaims(t) = {<<"mem", v>>}
    <2>1. Sound(t, Head(agenda[t])) /\ HeadClaims(t) = Claim(item, Head(agenda[t]))
      BY <1>i, <1>1, HeadIs
    <2>. QED
      BY <1>0, <1>1, <2>1 DEF Sound, Claim
  <1>3. Protocol
    <2>1. \A d \in Handles : Pointer(d)' = Pointer(d)
      BY <1>1 DEF Pointer, KeyExists, Val
    <2>. QED
      BY <1>1, <1>2, <2>1, DestroyStep
  <1>4. Counters' /\ Counted'
    BY <1>i, <1>3, CountedAfter
  <1>5. /\ Sequence(<<>>) /\ ToSet(<<>>) = {} /\ Ordered(<<>>)
        /\ Distinct(item', <<>>) /\ Claims(item', <<>>) = {}
    BY Literals, OrderedLiterals, ClaimLiterals
  <1>6. item' \in [Ids -> ItemType] /\ ItemsGood' /\ \A j \in Ids : SameItem(j)
    BY <1>i, <1>1 DEF Typed, ItemsGood, KeyExists, Val, SameItem
  <1>7. \A w \in Vals : mem[w] = "dying" /\ <<"mem", w>> \notin HeadClaims(t) =>
            mem'[w] = "dying"
    BY <1>i, <1>1, <1>2 DEF Typed
  <1>8. \A j : <<"item", j>> \notin HeadClaims(t) /\ <<"key", j>> \notin HeadClaims(t)
    BY <1>2
  <1>9. IInv'
    <2>1. PICK id : id = Null
      OBVIOUS
    <2>2. id \notin Ids
      BY <2>1, Kinds
    <2>. QED
      BY <1>1, <1>4, <1>5, <1>6, <1>7, <1>8, <2>2, ItemStep
  <1>. QED
    BY <1>3, <1>9

(***************************************************************************)
(* The key of a tile: it keeps the image, which the client has.  A tile    *)
(* whose key gets no memory is lost, which is no step of the protocol.     *)
(***************************************************************************)
LEMMA MakeKeyStep ==
    ASSUME IInv, NEW t \in Threads, MakeKey(t)
    PROVE  IInv' /\ (KeysAlways => Protocol)
  <1>i. /\ Typed /\ SlotsGood /\ ItemsGood /\ ListGood /\ HashGood
        /\ AgendaSound /\ AgendaOrdered /\ Claimed /\ NothingLost /\ Counted
    BY DEF IInv
  <1>0. PICK k : k = Head(agenda[t])[2]
    OBVIOUS
  <1>1. /\ agenda[t] # <<>> /\ Head(agenda[t])[1] = "makekey"
        /\ lru' = lru /\ hash' = hash /\ mem' = mem
    BY DEF MakeKey, At, storeVars
  <1>2. Decoding(t, k) /\ hold[t]["tile"] # Null
    BY <1>i, <1>0, <1>1, HeadIs DEF Sound
  <1>3. /\ "makekey" \in Changing /\ "makekey" \notin Owning
        /\ "img" \in Slots /\ "tile" \in Slots
    BY DEF Changing, Owning, Storings, Slots
  <1>4. HeadClaims(t) = {}
    BY <1>1, <1>3, PlainClaims DEF HeadClaims
  <1>5. CASE /\ "nokey" \in Ops
             /\ hold' = [hold EXCEPT ![t]["tile"] = Null]
             /\ Go(t, <<>>)
             /\ UNCHANGED <<item, refs, keyRefs>>
    <2>1. hold[t]["tile"] \in Vals /\ Null \in Vals \cup {Null}
      BY <1>i, <1>2, <1>3 DEF Typed
    <2>2. /\ <<t, "tile">> \in NormalHandles
          /\ Pointer(<<t, "tile">>) = hold[t]["tile"] /\ Pointer(<<t, "tile">>)' = Null
          /\ \A d \in Handles : d # <<t, "tile">> => Pointer(d)' = Pointer(d)
      BY <1>i, <1>3, <1>5, <2>1, SlotPointers
    <2>3. Counters'
      BY <1>i, <1>1, <1>5 DEF Typed, Counters
    <2>4. Counted'
      <3>1. ASSUME NEW v \in Vals
            PROVE  /\ refs'[v] >= Cardinality(Owners(v)')
                   /\ keyRefs'[v] <= Cardinality(KeyOwners(v)')
                   /\ keyRefs'[v] <= ShortMax
                   /\ mem'[v] # "live" => refs'[v] = 0
        <4>1. <<t, "tile">> \in Handles /\ <<t, "tile">> \notin Ids \X {"key"}
          BY <2>2 DEF NormalHandles
        <4>2. /\ Cardinality(Owners(v)') =
                   IF v = hold[t]["tile"] THEN Cardinality(Owners(v)) - 1
                                          ELSE Cardinality(Owners(v))
              /\ Cardinality(KeyOwners(v)') = Cardinality(KeyOwners(v))
          BY <2>1, <2>2, <4>1, OwnersLose
        <4>3. /\ refs[v] >= Cardinality(Owners(v)) /\ keyRefs[v] <= Cardinality(KeyOwners(v))
              /\ keyRefs[v] <= ShortMax
              /\ mem[v] # "live" => refs[v] = 0
          BY <1>i DEF Counted
        <4>4. refs[v] \in Nat /\ Cardinality(Owners(v)) \in Nat
          BY <1>i, OwnersFinite DEF Typed
        <4>. QED
          BY <1>1, <1>5, <4>2, <4>3, <4>4
      <3>. QED
        BY <3>1 DEF Counted
    <2>5. /\ Sequence(<<>>) /\ ToSet(<<>>) = {} /\ Ordered(<<>>) /\ Distinct(item, <<>>)
      BY Literals, OrderedLiterals, ClaimLiterals
    <2>6. IInv'
      BY <1>1, <1>3, <1>5, <2>1, <2>3, <2>4, <2>5, SlotStep
    <2>. QED
      BY <1>5, <2>6 DEF KeysAlways
  <1>6. ASSUME NEW id \in FreeIds,
               item' = [item EXCEPT ![id] = [FreeItem EXCEPT !.mine = TRUE, !.key = k]],
               refs' = [refs EXCEPT ![ImageOf(k)] = @ + 1],
               keyRefs' = [keyRefs EXCEPT ![ImageOf(k)] =
                             IF keyRefs[ImageOf(k)] + 1 > ShortMax THEN -ShortMax - 1 ELSE @ + 1],
               Go(t, << <<"store", id, k, "tile">>, <<"dropkey", id>> >>), hold' = hold
        PROVE  IInv' /\ Protocol
    <2>1. /\ id \in Ids /\ id # Null /\ ~item[id].live /\ ~item[id].mine
          /\ ImageOf(k) = hold[t]["img"] /\ k \in TileKeys /\ ImageOf(k) \in Images
          /\ k \in Keys
      BY <1>2, Kinds DEF FreeIds, KeyExists, Decoding
    <2>2. ~item[id].held /\ item[id].val = Null
      BY <1>i, <2>1 DEF ItemsGood, Val
    <2>3. /\ item' \in [Ids -> ItemType]
          /\ ~item'[id].live /\ ~item'[id].held /\ item'[id].mine
          /\ item'[id].key = k /\ item'[id].val = Null
          /\ \A j \in Ids : j # id => item'[j] = item[j]
      <3>. DEFINE new == [FreeItem EXCEPT !.mine = TRUE, !.key = k]
      <3>1. /\ new \in ItemType /\ ~new.live /\ ~new.held /\ new.mine
            /\ new.key = k /\ new.val = Null
        BY <2>1 DEF FreeItem, ItemType
      <3>2. item' = [item EXCEPT ![id] = new] /\ item \in [Ids -> ItemType]
        BY <1>i, <1>6 DEF Typed
      <3>. HIDE DEF new
      <3>. QED
        BY <2>1, <3>1, <3>2
    <2>4. Protocol
      <3>1. /\ <<t, "img">> \in NormalHandles /\ Pointer(<<t, "img">>) = ImageOf(k)
            /\ <<id, "key">> \in Ids \X {"key"} /\ Pointer(<<id, "key">>) = Null
        BY <1>3, <2>1, NormalIs, PointerIs
      <3>2. Pointer(<<id, "key">>)' = ImageOf(k)
        BY <2>1, <2>3, PointerIs
      <3>3. ASSUME NEW d \in Handles, d # <<id, "key">> PROVE Pointer(d)' = Pointer(d)
        <4>1. CASE \E u \in Threads, r \in Slots : d = <<u, r>>
          BY <1>6, <4>1, SamePointers
        <4>2. ASSUME NEW j \in Ids, d = <<j, "val">> \/ d = <<j, "key">>, j # id
              PROVE  Pointer(d)' = Pointer(d)
          BY <2>3, <4>2, SamePointers
        <4>3. CASE d = <<id, "val">>
          BY <2>1, <2>2, <2>3, <4>3, PointerIs
        <4>. QED
          BY <3>3, <4>1, <4>2, <4>3, PointerIs
      <3>4. refs[ImageOf(k)] > 0 /\ keyRefs[ImageOf(k)] \in Int /\ keyRefs[ImageOf(k)] <= ShortMax
        <4>1. ImageOf(k) \in Vals /\ Counters /\ <<t, "img">> \in Handles
          BY <1>i, <2>1, <3>1, NormalIs, Kinds DEF Typed, Counters
        <4>2. refs[ImageOf(k)] > 0
          BY <1>i, <3>1, <4>1, OwnedLives
        <4>. QED
          BY <1>i, <4>1, <4>2 DEF Counted, Counters
      <3>. QED
        BY <1>1, <1>6, <2>1, <3>1, <3>2, <3>3, <3>4, KeepKeyStep
    <2>5. Counters' /\ Counted'
      BY <1>i, <2>4, CountedAfter
    <2>6. ItemsGood'
      <3>1. ASSUME NEW j \in Ids
            PROVE  /\ item'[j].live \/ item'[j].mine => item'[j].key \in Keys
                   /\ item'[j].mine => item'[j].key \in TileKeys
                   /\ item'[j].live =>
                        /\ item'[j].key \in TileKeys => item'[j].val \in Tiles
                        /\ item'[j].key \in ObjKeys => item'[j].val \in Images
                   /\ ~item'[j].live => ~item'[j].held /\ item'[j].val = Null
        <4>1. CASE j # id
          BY <1>i, <2>3, <4>1 DEF ItemsGood, KeyExists, Val
        <4>2. CASE j = id
          BY <2>1, <2>3, <4>2
        <4>. QED
          BY <4>1, <4>2
      <3>. QED
        BY <3>1 DEF ItemsGood, KeyExists, Val
    <2>7. Out(id)
      <3>1. id \notin Listed
        BY <1>i, <2>1 DEF ListGood
      <3>2. \A l \in Hashed : hash[l] # id
        BY <1>i, <2>1 DEF HashGood
      <3>. QED
        BY <3>1, <3>2 DEF Out
    <2>. DEFINE a == <<"store", id, k, "tile">>
                b == <<"dropkey", id>>
    <2>8. Sound(t, a)' /\ Sound(t, b)'
      <3>1. Decoding(t, k)'
        BY <1>2, <1>6 DEF Decoding
      <3>. QED
        BY <1>2, <1>6, <2>1, <2>3, <3>1 DEF Sound
    <2>9. /\ Claim(item', a) = {} /\ Claim(item', b) = {<<"key", id>>}
          /\ a[1] \notin Storings /\ b[1] \notin Storings
          /\ b[1] \in Later /\ b[1] \notin Relying /\ b = <<"dropkey", a[2]>>
      BY DEF Claim, Storings, Later, Relying
    <2>10. Go(t, <<a, b>>)
      BY <1>6
    <2>. HIDE DEF a, b
    <2>11. /\ Sequence(<<a, b>>) /\ ToSet(<<a, b>>) = {a, b} /\ Ordered(<<a, b>>)
      BY <2>9, Literals, OrderedLiterals
    <2>12. Claims(item', <<a, b>>) = {<<"key", id>>} /\ Distinct(item', <<a, b>>)
      BY <2>9, ClaimLiterals
    <2>13. \A u \in Threads : <<"key", id>> \notin Claims(item, agenda[u])
      BY <1>i, <2>1, ClaimMeans
    <2>14. \A e \in ToSet(<<a, b>>) : /\ Sound(t, e)' /\ e[1] \notin Storings
                                      /\ agenda[t] # <<>> /\ Head(agenda[t])[1] \in Changing
      BY <1>1, <1>3, <2>8, <2>9, <2>11
    <2>15. IInv'
      BY ZenonT(40), <1>1, <1>4, <1>6, <2>1, <2>2, <2>3, <2>5, <2>6, <2>7, <2>10, <2>11, <2>12, <2>13,
         <2>14, ItemStep
    <2>. QED
      BY <2>4, <2>15
  <1>. QED
    BY <1>0, <1>5, <1>6 DEF MakeKey, Arg

-----------------------------------------------------------------------------
\* The last reference to a key, and that of the key to its image.
LEMMA KeyGone ==
    ASSUME IInv, NEW id \in Ids, NEW k, KeyExists(id), ~item[id].held, k = item[id].key,
           item' = [item EXCEPT ![id] = FreeItem], hold' = hold, DropKeyImage(k)
    PROVE  /\ Protocol /\ Counters' /\ Counted' /\ ItemsGood'
           /\ item' \in [Ids -> ItemType] /\ item'[id] = FreeItem
           /\ \A j \in Ids : j # id => item'[j] = item[j]
           /\ \A v \in Vals : mem[v] = "dying" => mem'[v] = "dying"
           /\ ImageOf(k) # Null =>
                /\ ImageOf(k) \in Vals /\ mem[ImageOf(k)] = "live"
                /\ refs[ImageOf(k)] = 1 => mem'[ImageOf(k)] = "dying"
  <1>i. Typed /\ ItemsGood /\ Counted
    BY DEF IInv
  <1>1. /\ item' \in [Ids -> ItemType] /\ item'[id] = FreeItem
        /\ \A j \in Ids : j # id => item'[j] = item[j]
    <2>1. FreeItem \in ItemType
      BY DEF FreeItem, ItemType
    <2>. QED
      BY <1>i, <2>1 DEF Typed
  <1>2. ~FreeItem.live /\ ~FreeItem.mine /\ ~FreeItem.held /\ FreeItem.val = Null
    BY DEF FreeItem
  <1>3. /\ Pointer(<<id, "key">>) = ImageOf(k) /\ Pointer(<<id, "key">>)' = Null
        /\ Pointer(<<id, "val">>) = Null /\ Pointer(<<id, "val">>)' = Null
    BY <1>1, <1>2, PointerIs DEF KeyExists
  <1>4. ASSUME NEW d \in Handles, d # <<id, "key">> PROVE Pointer(d)' = Pointer(d)
    <2>1. CASE \E u \in Threads, r \in Slots : d = <<u, r>>
      BY <2>1, SamePointers
    <2>2. ASSUME NEW j \in Ids, d = <<j, "val">> \/ d = <<j, "key">>, j # id
          PROVE  Pointer(d)' = Pointer(d)
      BY <1>1, <2>2, SamePointers
    <2>. QED
      BY <1>3, <1>4, <2>1, <2>2, PointerIs
  <1>5. <<id, "key">> \in Handles /\ <<id, "key">> \in Ids \X {"key"}
    BY PointerIs
  <1>6. ImageOf(k) \in Vals \cup {Null}
    BY <1>i, <1>3, <1>5, PointerType
  <1>7. ImageOf(k) # Null => refs[ImageOf(k)] > 0 /\ mem[ImageOf(k)] = "live"
    <2>1. Counters
      BY <1>i DEF Typed, Counters
    <2>. QED
      BY <1>i, <1>3, <1>5, <1>6, <2>1, OwnedLives
  <1>8. Protocol
    <2>1. CASE ImageOf(k) = Null
      <3>1. \A d \in Handles : Pointer(d)' = Pointer(d)
        BY <1>3, <1>4, <2>1
      <3>2. refs' = refs /\ keyRefs' = keyRefs /\ mem' = mem
        BY <2>1 DEF DropKeyImage, valVars
      <3>. QED
        BY <3>1, <3>2, StutterStep
    <2>2. CASE ImageOf(k) # Null
      BY <1>3, <1>4, <1>5, <2>2, DropKeyStep DEF DropKeyImage
    <2>. QED
      BY <2>1, <2>2
  <1>9. Counters' /\ Counted'
    BY <1>i, <1>8, CountedAfter
  <1>10. ItemsGood'
    <2>1. ASSUME NEW j \in Ids
          PROVE  /\ item'[j].live \/ item'[j].mine => item'[j].key \in Keys
                 /\ item'[j].mine => item'[j].key \in TileKeys
                 /\ item'[j].live =>
                      /\ item'[j].key \in TileKeys => item'[j].val \in Tiles
                      /\ item'[j].key \in ObjKeys => item'[j].val \in Images
                 /\ ~item'[j].live => ~item'[j].held /\ item'[j].val = Null
      <3>1. CASE j # id
        BY <1>i, <1>1, <3>1 DEF ItemsGood, KeyExists, Val
      <3>2. CASE j = id
        BY <1>1, <1>2, <3>2
      <3>. QED
        BY <3>1, <3>2
    <2>. QED
      BY <2>1 DEF ItemsGood, KeyExists, Val
  <1>11. \A v \in Vals : mem[v] = "dying" => mem'[v] = "dying"
    BY <1>i, <1>6 DEF DropKeyImage, valVars, Typed
  <1>12. ImageOf(k) # Null /\ refs[ImageOf(k)] = 1 => mem'[ImageOf(k)] = "dying"
    BY <1>i, <1>6 DEF DropKeyImage, Typed
  <1>. QED
    BY <1>1, <1>6, <1>7, <1>8, <1>9, <1>10, <1>11, <1>12

\* What is left to do for that image.
LEMMA ImageDestroyed ==
    ASSUME NEW t \in Threads, NEW k,
           ImageOf(k) # Null =>
                /\ ImageOf(k) \in Vals
                /\ refs[ImageOf(k)] = 1 => mem'[ImageOf(k)] = "dying"
    PROVE  \/ DestroyImageOf(k) = <<>>
           \/ \E e : /\ DestroyImageOf(k) = <<e>> /\ e[1] = "destroy" /\ ImageOf(k) # Null
                     /\ Sound(t, e)' /\ \A I : Claim(I, e) = {<<"mem", ImageOf(k)>>}
  <1>1. CASE ImageOf(k) # Null /\ refs[ImageOf(k)] = 1
    <2>. DEFINE e == <<"destroy", ImageOf(k)>>
    <2>1. DestroyImageOf(k) = <<e>>
      BY <1>1 DEF DestroyImageOf
    <2>2. Sound(t, e)'
      BY <1>1 DEF Sound, ImageOf
    <2>3. \A I : Claim(I, e) = {<<"mem", ImageOf(k)>>}
      BY DEF Claim
    <2>4. e[1] = "destroy"
      OBVIOUS
    <2>5. PICK d : d = e
      OBVIOUS
    <2>. QED
      BY <1>1, <2>1, <2>2, <2>3, <2>4
  <1>2. CASE ~(ImageOf(k) # Null /\ refs[ImageOf(k)] = 1)
    BY <1>2 DEF DestroyImageOf
  <1>. QED
    BY <1>1, <1>2

LEMMA DropKeyOwnStep ==
    ASSUME IInv, NEW t \in Threads, DropKey(t)
    PROVE  IInv' /\ Protocol
  <1>i. /\ Typed /\ ItemsGood /\ ListGood /\ HashGood /\ AgendaSound /\ Counted
    BY DEF IInv
  <1>0. PICK id, k : id = Head(agenda[t])[2] /\ k = item[id].key
    OBVIOUS
  <1>1. /\ agenda[t] # <<>> /\ Head(agenda[t])[1] = "dropkey"
        /\ lru' = lru /\ hash' = hash /\ hold' = hold
    BY DEF DropKey, At, storeVars
  <1>2. id \in Ids /\ item[id].mine /\ HeadClaims(t) = {<<"key", id>>}
    <2>1. Sound(t, Head(agenda[t])) /\ HeadClaims(t) = Claim(item, Head(agenda[t]))
      BY <1>i, <1>1, HeadIs
    <2>. QED
      BY <1>0, <1>1, <2>1 DEF Sound, Claim
  <1>3. CASE item[id].live
    <2>1. /\ item' = [item EXCEPT ![id].mine = FALSE] /\ Go(t, <<>>)
          /\ refs' = refs /\ keyRefs' = keyRefs /\ mem' = mem
      BY <1>0, <1>3 DEF DropKey, Arg, valVars
    <2>2. /\ item' \in [Ids -> ItemType] /\ SameItem(id) /\ ~item'[id].mine
          /\ \A j \in Ids : j # id => item'[j] = item[j]
      <3>. DEFINE new == [item[id] EXCEPT !.mine = FALSE]
      <3>1. item \in [Ids -> ItemType] /\ item[id] \in ItemType
        BY <1>i, <1>2 DEF Typed
      <3>2. /\ new \in ItemType /\ ~new.mine /\ new.live = item[id].live
            /\ new.held = item[id].held /\ new.key = item[id].key /\ new.val = item[id].val
        BY <3>1 DEF ItemType
      <3>3. item' = [item EXCEPT ![id] = new]
        BY <2>1, <3>1
      <3>. HIDE DEF new
      <3>. QED
        BY <1>2, <3>1, <3>2, <3>3 DEF SameItem
    <2>3. Protocol
      <3>1. ASSUME NEW d \in Handles PROVE Pointer(d)' = Pointer(d)
        <4>1. CASE \E u \in Threads, r \in Slots : d = <<u, r>>
          BY <1>1, <4>1, SamePointers
        <4>2. ASSUME NEW j \in Ids, d = <<j, "val">> \/ d = <<j, "key">>, j # id
              PROVE  Pointer(d)' = Pointer(d)
          BY <2>2, <4>2, SamePointers
        <4>3. CASE d = <<id, "val">>
          <5>1. item'[id].held = item[id].held /\ item'[id].val = item[id].val
            BY <2>2 DEF SameItem
          <5>2. Pointer(<<id, "val">>)' = Pointer(<<id, "val">>)
            BY ZenonT(40), <1>2, <5>1, PointerIs
          <5>. QED
            BY <4>3, <5>2
        <4>4. CASE d = <<id, "key">>
          <5>1. item'[id].live /\ item'[id].key = item[id].key
            BY <1>3, <2>2 DEF SameItem
          <5>2. Pointer(<<id, "key">>)' = Pointer(<<id, "key">>)
            BY <1>2, <1>3, <5>1, PointerIs
          <5>. QED
            BY <4>4, <5>2
        <4>. QED
          BY <4>1, <4>2, <4>3, <4>4, PointerIs
      <3>. QED
        BY <2>1, <3>1, StutterStep
    <2>4. Counters' /\ Counted'
      BY <1>i, <2>3, CountedAfter
    <2>5. ItemsGood'
      <3>1. ASSUME NEW j \in Ids
            PROVE  /\ item'[j].live \/ item'[j].mine => item'[j].key \in Keys
                   /\ item'[j].mine => item'[j].key \in TileKeys
                   /\ item'[j].live =>
                        /\ item'[j].key \in TileKeys => item'[j].val \in Tiles
                        /\ item'[j].key \in ObjKeys => item'[j].val \in Images
                   /\ ~item'[j].live => ~item'[j].held /\ item'[j].val = Null
        <4>1. CASE j # id
          BY <1>i, <2>2, <4>1 DEF ItemsGood, KeyExists, Val
        <4>2. CASE j = id
          BY <1>i, <1>2, <1>3, <2>2, <4>2 DEF SameItem, ItemsGood, KeyExists, Val
        <4>. QED
          BY <4>1, <4>2
      <3>. QED
        BY <3>1 DEF ItemsGood, KeyExists, Val
    <2>6. /\ Sequence(<<>>) /\ ToSet(<<>>) = {} /\ Ordered(<<>>)
          /\ Distinct(item', <<>>) /\ Claims(item', <<>>) = {}
      BY Literals, OrderedLiterals, ClaimLiterals
    <2>7. IInv'
      BY <1>1, <1>2, <1>3, <2>1, <2>2, <2>4, <2>5, <2>6, ItemStep
    <2>. QED
      BY <2>3, <2>7
  <1>4. CASE ~item[id].live
    <2>1. /\ item' = [item EXCEPT ![id] = FreeItem] /\ DropKeyImage(k)
          /\ Go(t, DestroyImageOf(k))
      BY <1>0, <1>4 DEF DropKey, Arg
    <2>2. KeyExists(id) /\ ~item[id].held
      BY <1>i, <1>2, <1>4 DEF KeyExists, ItemsGood
    <2>3. /\ Protocol /\ Counters' /\ Counted' /\ ItemsGood'
          /\ item' \in [Ids -> ItemType] /\ item'[id] = FreeItem
          /\ \A j \in Ids : j # id => item'[j] = item[j]
          /\ \A v \in Vals : mem[v] = "dying" => mem'[v] = "dying"
          /\ ImageOf(k) # Null =>
                /\ ImageOf(k) \in Vals /\ mem[ImageOf(k)] = "live"
                /\ refs[ImageOf(k)] = 1 => mem'[ImageOf(k)] = "dying"
      BY ZenonT(40), <1>0, <1>1, <1>2, <2>1, <2>2, KeyGone
    <2>4. Out(id)
      <3>1. id # Null
        BY <1>2, Kinds
      <3>2. id \notin Listed
        BY <1>i, <1>4 DEF ListGood
      <3>3. \A l \in Hashed : hash[l] # id
        BY <1>i, <1>4, <3>1 DEF HashGood
      <3>. QED
        BY <3>2, <3>3 DEF Out
    <2>5. /\ Out(id) /\ ~item[id].held /\ ~item'[id].live /\ ~item'[id].mine
          /\ <<"key", id>> \in HeadClaims(t)
      BY <1>2, <2>2, <2>3, <2>4 DEF FreeItem
    <2>8. \A j : <<"item", j>> \notin HeadClaims(t) /\ (<<"key", j>> \in HeadClaims(t) => j = id)
      BY <1>2
    <2>6. CASE DestroyImageOf(k) = <<>>
      <3>1. /\ Sequence(<<>>) /\ ToSet(<<>>) = {} /\ Ordered(<<>>)
            /\ Distinct(item', <<>>) /\ Claims(item', <<>>) = {}
        BY Literals, OrderedLiterals, ClaimLiterals
      <3>2. IInv'
        BY <1>1, <1>4, <2>1, <2>3, <2>5, <2>6, <2>8, <3>1, ItemStep
      <3>. QED
        BY <2>3, <3>2
    <2>7. ASSUME NEW e, DestroyImageOf(k) = <<e>>, e[1] = "destroy", ImageOf(k) # Null,
                 Sound(t, e)', \A I : Claim(I, e) = {<<"mem", ImageOf(k)>>}
          PROVE  IInv' /\ Protocol
      <3>1. /\ Sequence(<<e>>) /\ ToSet(<<e>>) = {e} /\ Ordered(<<e>>)
            /\ Distinct(item', <<e>>) /\ Claims(item', <<e>>) = {<<"mem", ImageOf(k)>>}
        BY <2>7, Literals, OrderedLiterals, ClaimLiterals
      <3>2. \A u \in Threads : <<"mem", ImageOf(k)>> \notin Claims(item, agenda[u])
        BY <1>i, <2>3, <2>7, ClaimMeans
      <3>3. e[1] \notin Changing \cup Storings
        BY <2>7 DEF Changing, Storings
      <3>4. \A d \in ToSet(<<e>>) : Sound(t, d)' /\ d[1] \notin Changing \cup Storings
        BY <2>7, <3>1, <3>3
      <3>6. Go(t, <<e>>)
        BY <2>1, <2>7
      <3>7. \A c \in Claims(item', <<e>>) : \A u \in Threads : c \notin Claims(item, agenda[u])
        BY <3>1, <3>2
      <3>8. \A w \in Vals : mem[w] = "dying" => mem'[w] = "dying"
        BY <2>3
      <3>5. IInv'
        BY <1>1, <1>4, <2>3, <2>5, <2>8, <3>1, <3>4, <3>6, <3>7, <3>8, ItemStep
      <3>. QED
        BY <2>3, <3>5
    <2>. QED
      BY <2>3, <2>6, <2>7, ImageDestroyed
  <1>. QED
    BY <1>3, <1>4

-----------------------------------------------------------------------------
\* A sequence that has nothing twice, without its head.
LEMMA TailIs ==
    ASSUME NEW X, NEW q \in Seq(X), q # <<>>, IsInjective(q)
    PROVE  /\ Tail(q) \in Seq(X) /\ IsInjective(Tail(q))
           /\ Head(q) \in ToSet(q) /\ ToSet(Tail(q)) = ToSet(q) \ {Head(q)}
  <1>. DEFINE r == Tail(q)
  <1>1. /\ r \in Seq(X) /\ Len(q) \in Nat /\ Len(r) = Len(q) - 1 /\ Len(q) > 0
        /\ Head(q) = q[1] /\ \A i \in 1 .. Len(r) : r[i] = q[i + 1]
        /\ DOMAIN q = 1 .. Len(q) /\ DOMAIN r = 1 .. Len(r)
    OBVIOUS
  <1>. HIDE DEF r
  <1>2. IsInjective(r)
    <2>1. SUFFICES ASSUME NEW i \in 1 .. Len(r), NEW j \in 1 .. Len(r), r[i] = r[j]
                   PROVE  i = j
      BY <1>1 DEF IsInjective
    <2>2. i + 1 \in DOMAIN q /\ j + 1 \in DOMAIN q /\ q[i + 1] = q[j + 1]
      BY <1>1, <2>1
    <2>3. i + 1 = j + 1
      BY <2>2 DEF IsInjective
    <2>. QED
      BY <2>3
  <1>3. 1 \in DOMAIN q /\ Head(q) \in ToSet(q)
    BY <1>1 DEF ToSet
  <1>4. ASSUME NEW x \in ToSet(r) PROVE x \in ToSet(q) \ {Head(q)}
    <2>1. PICK i \in 1 .. Len(r) : x = r[i]
      BY <1>1 DEF ToSet
    <2>2. i + 1 \in DOMAIN q /\ x = q[i + 1] /\ i + 1 # 1
      BY <1>1, <2>1
    <2>3. x # q[1]
      BY <1>3, <2>2 DEF IsInjective
    <2>. QED
      BY <1>1, <2>2, <2>3 DEF ToSet
  <1>5. ASSUME NEW x \in ToSet(q) \ {Head(q)} PROVE x \in ToSet(r)
    <2>1. PICK i \in 1 .. Len(q) : x = q[i] /\ i # 1
      BY <1>1 DEF ToSet
    <2>2. i - 1 \in 1 .. Len(r) /\ (i - 1) + 1 = i
      BY <1>1, <2>1
    <2>3. x = r[i - 1]
      BY <1>1, <2>1, <2>2
    <2>. QED
      BY <1>1, <2>2, <2>3 DEF ToSet
  <1>. QED
    BY <1>1, <1>2, <1>3, <1>4, <1>5 DEF r

\* The items to be freed, and what is to be done with them.
Chained(t, q, D, id) ==
    /\ agenda[t] # <<>> /\ Head(agenda[t])[1] = "chain"
    /\ q = Head(agenda[t])[2] /\ D = Head(agenda[t])[3] /\ id = Head(q)

LEMMA ChainIs ==
    ASSUME IInv, NEW t \in Threads, NEW q, NEW D, NEW id, Chained(t, q, D, id)
    PROVE  /\ q \in Seq(Ids) /\ q # <<>> /\ IsInjective(q) /\ D \subseteq ToSet(q)
           /\ ToSet(q) \subseteq Ids /\ id \in ToSet(q)
           /\ \A j \in ToSet(q) : item[j].live /\ ~item[j].held /\ Out(j) /\ item[j].val \in Vals
           /\ \A j \in D : mem[item[j].val] = "dying"
           /\ \A i, j \in D : item[i].val = item[j].val => i = j
           /\ HeadClaims(t) = {<<"item", j>> : j \in ToSet(q)}
                              \cup {<<"mem", item[j].val>> : j \in D}
           /\ Tail(q) \in Seq(Ids) /\ IsInjective(Tail(q)) /\ ToSet(Tail(q)) = ToSet(q) \ {id}
  <1>i. /\ Typed /\ ItemsGood /\ AgendaSound
    BY DEF IInv
  <1>h. /\ agenda[t] # <<>> /\ Head(agenda[t])[1] = "chain"
        /\ q = Head(agenda[t])[2] /\ D = Head(agenda[t])[3] /\ id = Head(q)
    BY DEF Chained
  <1>1. Sound(t, Head(agenda[t])) /\ HeadClaims(t) = Claim(item, Head(agenda[t]))
    BY <1>i, <1>h, HeadIs
  <1>2. /\ q \in Seq(Ids) /\ q # <<>> /\ IsInjective(q) /\ D \subseteq ToSet(q)
        /\ \A j \in ToSet(q) : item[j].live /\ ~item[j].held /\ Out(j)
        /\ \A j \in D : mem[item[j].val] = "dying"
        /\ \A i, j \in D : item[i].val = item[j].val => i = j
    BY <1>h, <1>1 DEF Sound, Val
  <1>3. HeadClaims(t) = {<<"item", j>> : j \in ToSet(q)} \cup {<<"mem", item[j].val>> : j \in D}
    BY <1>h, <1>1 DEF Claim
  <1>4. ToSet(q) \subseteq Ids
    BY <1>2, SequenceIs
  <1>5. \A j \in ToSet(q) : item[j].val \in Vals
    BY <1>i, <1>2, <1>4, Kinds DEF ItemsGood, KeyExists, Val
  <1>6. /\ Tail(q) \in Seq(Ids) /\ IsInjective(Tail(q)) /\ ToSet(Tail(q)) = ToSet(q) \ {id}
        /\ id \in ToSet(q)
    BY <1>h, <1>2, TailIs
  <1>. QED
    BY <1>2, <1>3, <1>4, <1>5, <1>6

\* The operations b are what is left to do when the first of them is freed.
Left(t, q, D, id, b) ==
    /\ b = (IF Tail(q) = <<>> THEN <<>> ELSE << <<"chain", Tail(q), D>> >>)
    /\ Sequence(b) /\ Len(b) <= 1 /\ Distinct(item', b)
    /\ \A e \in ToSet(b) : e[1] = "chain" /\ Sound(t, e)'
    /\ Claims(item', b) \subseteq HeadClaims(t)
    /\ \A j \in Ids : <<"item", j>> \in HeadClaims(t) /\ j # id =>
         <<"item", j>> \in Claims(item', b)
    /\ \A v : <<"mem", v>> \in Claims(item', b) => mem[v] = "dying"

LEMMA RestOfChain ==
    ASSUME IInv, NEW t \in Threads, NEW q, NEW D, NEW id, Chained(t, q, D, id),
           id \notin D, lru' = lru, hash' = hash, \A j \in Ids : j # id => item'[j] = item[j],
           \A v \in Vals : mem[v] = "dying" => mem'[v] = "dying"
    PROVE  \E b : Left(t, q, D, id, b)
  <1>d. D \subseteq ToSet(q) /\ ToSet(q) \subseteq Ids /\ id \in ToSet(q)
    BY ChainIs
  <1>e. \A j \in ToSet(q) : item[j].live /\ ~item[j].held /\ Out(j) /\ item[j].val \in Vals
    BY ChainIs
  <1>f. \A j \in D : mem[item[j].val] = "dying"
    BY ChainIs
  <1>g. \A i, j \in D : item[i].val = item[j].val => i = j
    BY ChainIs
  <1>b. HeadClaims(t) = {<<"item", j>> : j \in ToSet(q)}
                        \cup {<<"mem", item[j].val>> : j \in D}
    BY ChainIs
  <1>c. Tail(q) \in Seq(Ids) /\ IsInjective(Tail(q)) /\ ToSet(Tail(q)) = ToSet(q) \ {id}
    BY ChainIs
  <1>1. /\ D \subseteq ToSet(q) /\ ToSet(q) \subseteq Ids /\ id \in ToSet(q)
        /\ \A j \in ToSet(q) : item[j].live /\ ~item[j].held /\ Out(j) /\ item[j].val \in Vals
        /\ \A j \in D : mem[item[j].val] = "dying"
        /\ \A i, j \in D : item[i].val = item[j].val => i = j
        /\ HeadClaims(t) = {<<"item", j>> : j \in ToSet(q)}
                           \cup {<<"mem", item[j].val>> : j \in D}
        /\ Tail(q) \in Seq(Ids) /\ IsInjective(Tail(q)) /\ ToSet(Tail(q)) = ToSet(q) \ {id}
    BY <1>b, <1>c, <1>d, <1>e, <1>f, <1>g
  <1>2. PICK e : e = <<"chain", Tail(q), D>>
    OBVIOUS
  <1>3. e[1] = "chain" /\ e[2] = Tail(q) /\ e[3] = D
    BY <1>2
  <1>4. \A j \in ToSet(Tail(q)) : /\ item'[j] = item[j] /\ item[j].live /\ ~item[j].held
                                  /\ Out(j)' /\ item[j].val \in Vals
    BY <1>1 DEF Out, Listed
  <1>5. D \subseteq ToSet(Tail(q))
    BY <1>1
  <1>6. Claim(item', e) = {<<"item", j>> : j \in ToSet(q) \ {id}}
                          \cup {<<"mem", item[j].val>> : j \in D}
    <2>1. {<<"mem", item'[j].val>> : j \in D} = {<<"mem", item[j].val>> : j \in D}
      BY <1>4, <1>5
    <2>2. Claim(item', e) = {<<"item", j>> : j \in ToSet(Tail(q))}
                            \cup {<<"mem", item'[j].val>> : j \in D}
      BY <1>3 DEF Claim
    <2>. QED
      BY <1>1, <2>1, <2>2
  <1>7. Tail(q) # <<>> => Sound(t, e)'
    <2>0. SUFFICES ASSUME Tail(q) # <<>> PROVE Sound(t, e)'
      OBVIOUS
    <2>1. /\ \A j \in ToSet(e[2]) : item'[j].live /\ ~item'[j].held /\ Out(j)'
          /\ \A j \in e[3] : mem'[item'[j].val] = "dying"
          /\ \A i, j \in e[3] : item'[i].val = item'[j].val => i = j
      BY <1>1, <1>3, <1>4, <1>5
    <2>2. /\ e[2] \in Seq(Ids) /\ e[2] # <<>> /\ IsInjective(e[2])
          /\ e[3] \subseteq ToSet(e[2])
      BY <1>1, <1>3, <1>5, <2>0
    <2>. QED
      BY <1>3, <2>1, <2>2 DEF Sound, Val
  <1>8. Claim(item', e) \subseteq HeadClaims(t)
    BY <1>1, <1>6
  <1>9. \A j \in Ids : <<"item", j>> \in HeadClaims(t) /\ j # id =>
            <<"item", j>> \in Claim(item', e)
    BY <1>1, <1>6
  <1>10. \A v : <<"mem", v>> \in Claim(item', e) => mem[v] = "dying"
    BY <1>1, <1>6
  <1>11. CASE Tail(q) = <<>>
    <2>1. \A j : <<"item", j>> \in HeadClaims(t) => j = id
      <3>1. ToSet(Tail(q)) = {}
        BY <1>11, Literals
      <3>. QED
        BY <1>1, <3>1
    <2>2. PICK b : b = <<>>
      OBVIOUS
    <2>3. /\ Sequence(b) /\ ToSet(b) = {} /\ Distinct(item', b) /\ Claims(item', b) = {}
      BY <2>2, Literals, ClaimLiterals
    <2>4. Len(b) <= 1
      BY <2>2
    <2>. QED
      BY <1>11, <2>1, <2>2, <2>3, <2>4 DEF Left
  <1>12. CASE Tail(q) # <<>>
    <2>1. PICK b : b = <<e>>
      OBVIOUS
    <2>2. /\ Sequence(b) /\ ToSet(b) = {e} /\ Distinct(item', b)
          /\ Claims(item', b) = Claim(item', e)
      BY <2>1, Literals, ClaimLiterals
    <2>3. Len(b) <= 1
      BY <2>1
    <2>4. b = (IF Tail(q) = <<>> THEN <<>> ELSE << <<"chain", Tail(q), D>> >>)
      BY <1>2, <1>12, <2>1
    <2>5. \A d \in ToSet(b) : d[1] = "chain" /\ Sound(t, d)'
      BY <1>3, <1>7, <1>12, <2>2
    <2>6. Claims(item', b) \subseteq HeadClaims(t)
      BY <1>8, <2>2
    <2>7. \A j \in Ids : <<"item", j>> \in HeadClaims(t) /\ j # id =>
            <<"item", j>> \in Claims(item', b)
      BY <1>9, <2>2
    <2>8. \A v : <<"mem", v>> \in Claims(item', b) => mem[v] = "dying"
      BY <1>10, <2>2
    <2>9. Left(t, q, D, id, b)
      BY <2>2, <2>3, <2>4, <2>5, <2>6, <2>7, <2>8 DEF Left
    <2>. QED
      BY <2>9
  <1>. QED
    BY <1>11, <1>12

\* One more operation, or none, after others.
LEMMA OrderedConcat ==
    ASSUME NEW s, NEW r, Sequence(s), Sequence(r), Ordered(s), Len(r) <= 1,
           \A e \in ToSet(s) : e[1] \notin Changing, \A e \in ToSet(r) : e[1] \in Later
    PROVE  Ordered(s \o r)
  <1>. DEFINE q == s \o r
  <1>1. /\ Sequence(q) /\ Len(q) = Len(s) + Len(r) /\ Len(s) \in Nat /\ Len(r) \in Nat
        /\ \A i \in 1 .. Len(s) : q[i] = s[i]
        /\ \A i \in 1 .. Len(q) : \/ i \in 1 .. Len(s)
                                  \/ i - Len(s) \in 1 .. Len(r) /\ q[i] = r[i - Len(s)]
    BY ConcatIs
  <1>2. /\ DOMAIN q = 1 .. Len(q) /\ DOMAIN s = 1 .. Len(s) /\ DOMAIN r = 1 .. Len(r)
        /\ (q # <<>> => Len(q) > 0) /\ (s = <<>> => Len(s) = 0) /\ (Len(s) > 0 => s # <<>>)
    BY <1>1 DEF Sequence
  <1>3. "store" \in Changing \ Later
    BY DEF Changing, Later, Relying
  <1>. HIDE DEF q
  <1>4. \A i \in 1 .. Len(s) : s[i][1] \notin Changing
    BY <1>2 DEF ToSet
  <1>5. \A i \in 1 .. Len(r) : r[i][1] \in Later
    BY <1>2 DEF ToSet
  <1>6. ASSUME NEW i \in DOMAIN q, i > 1
        PROVE  /\ q[i][1] \in Later
               /\ q[i][1] \in Relying => \A j \in 1 .. i - 1 : q[j][1] \notin Changing
    <2>1. CASE i \in 1 .. Len(s)
      <3>1. i \in DOMAIN s /\ q[i] = s[i] /\ \A j \in 1 .. i - 1 : q[j] = s[j]
        BY <1>1, <1>2, <2>1
      <3>. QED
        BY <1>6, <3>1 DEF Ordered
    <2>2. CASE i - Len(s) \in 1 .. Len(r) /\ q[i] = r[i - Len(s)]
      <3>1. i - 1 = Len(s)
        BY <1>1, <1>2, <2>2
      <3>2. \A j \in 1 .. i - 1 : q[j][1] \notin Changing
        BY <1>1, <1>4, <3>1
      <3>. QED
        BY <1>5, <2>2, <3>2
    <2>. QED
      BY <1>1, <1>2, <2>1, <2>2
  <1>7. ASSUME q # <<>> PROVE q[1][1] # "store"
    <2>1. 1 \in 1 .. Len(q)
      BY <1>1, <1>2, <1>7
    <2>2. CASE 1 \in 1 .. Len(s)
      BY <1>1, <1>3, <1>4, <2>2
    <2>3. CASE 1 - Len(s) \in 1 .. Len(r) /\ q[1] = r[1 - Len(s)]
      BY <1>3, <1>5, <2>3
    <2>. QED
      BY <1>1, <2>1, <2>2, <2>3
  <1>8. Ordered(q)
    BY <1>6, <1>7 DEF Ordered
  <1>. QED
    BY <1>8 DEF q

\* The item goes, with its key or not: what is left to do for it.
LEMMA FreedStep ==
    ASSUME IInv, Counters', Counted',
           NEW t \in Threads, NEW q, NEW D, NEW id, Chained(t, q, D, id),
           id \notin D, lru' = lru, hash' = hash, hold' = hold,
           item' \in [Ids -> ItemType], ItemsGood', \A j \in Ids : j # id => item'[j] = item[j],
           ~item'[id].live, item[id].mine => item'[id].mine, item'[id].mine => item[id].mine,
           \A v \in Vals : mem[v] = "dying" => mem'[v] = "dying",
           NEW a, Sequence(a), Ordered(a), Distinct(item', a),
           \A e \in ToSet(a) : e[1] = "destroy" /\ Sound(t, e)',
           \A c \in Claims(item', a) : \E v : c = <<"mem", v>> /\ mem[v] = "live",
           Go(t, a \o (IF Tail(q) = <<>> THEN <<>> ELSE << <<"chain", Tail(q), D>> >>))
    PROVE  IInv'
  <1>i. Typed /\ AgendaSound
    BY DEF IInv
  <1>1. /\ ToSet(q) \subseteq Ids /\ id \in ToSet(q)
        /\ \A j \in ToSet(q) : item[j].live /\ ~item[j].held /\ Out(j)
    BY ChainIs
  <1>2. HeadClaims(t) = {<<"item", j>> : j \in ToSet(q)}
                        \cup {<<"mem", item[j].val>> : j \in D}
    BY ChainIs
  <1>3. ToSet(Tail(q)) = ToSet(q) \ {id} /\ Tail(q) \in Seq(Ids)
    BY ChainIs
  <1>4. /\ id \in Ids /\ <<"item", id>> \in HeadClaims(t) /\ Out(id) /\ ~item[id].held
        /\ \A j : <<"key", j>> \notin HeadClaims(t)
        /\ \A j : <<"item", j>> \in HeadClaims(t) => j \in ToSet(q) /\ Out(j)
    BY <1>1, <1>2
  <1>5. PICK b : Left(t, q, D, id, b)
    BY RestOfChain
  <1>6. /\ b = (IF Tail(q) = <<>> THEN <<>> ELSE << <<"chain", Tail(q), D>> >>)
        /\ Sequence(b) /\ Len(b) <= 1 /\ Distinct(item', b)
        /\ \A e \in ToSet(b) : e[1] = "chain" /\ Sound(t, e)'
        /\ Claims(item', b) \subseteq HeadClaims(t)
        /\ \A j \in Ids : <<"item", j>> \in HeadClaims(t) /\ j # id =>
             <<"item", j>> \in Claims(item', b)
        /\ \A v : <<"mem", v>> \in Claims(item', b) => mem[v] = "dying"
    BY <1>5 DEF Left
  <1>7. PICK s : s = a \o b
    OBVIOUS
  <1>8. Sequence(s) /\ ToSet(s) = ToSet(a) \cup ToSet(b) /\ Go(t, s)
    <2>1. Sequence(a) /\ Sequence(b)
      BY <1>6
    <2>2. Sequence(a \o b) /\ ToSet(a \o b) = ToSet(a) \cup ToSet(b)
      BY <2>1, ConcatIs
    <2>3. Go(t, a \o b)
      BY <1>6
    <2>. QED
      BY <1>7, <2>2, <2>3
  <1>9. "destroy" \notin Changing /\ "chain" \in Later /\ "chain" \notin Changing
    BY DEF Changing, Later, Relying
  <1>10. Ordered(s)
    BY <1>6, <1>7, <1>9, OrderedConcat
  <1>11. Claims(item', s) = Claims(item', a) \cup Claims(item', b) /\ Distinct(item', s)
    <2>1. Claims(item', a) \cap Claims(item', b) = {}
      BY ZenonT(40), <1>6
    <2>2. PICK I : I = item'
      OBVIOUS
    <2>3. Sequence(a) /\ Sequence(b) /\ Distinct(I, a) /\ Distinct(I, b)
          /\ Claims(I, a) \cap Claims(I, b) = {}
      BY <1>6, <2>1, <2>2
    <2>4. Claims(I, a \o b) = Claims(I, a) \cup Claims(I, b) /\ Distinct(I, a \o b)
      BY <2>3, ClaimsConcat
    <2>. QED
      BY <1>7, <2>2, <2>4
  <1>12. ASSUME NEW c \in Claims(item', s)
         PROVE  c \in HeadClaims(t) \/ \A u \in Threads : c \notin Claims(item, agenda[u])
    <2>1. CASE c \in Claims(item', b)
      BY <1>6, <2>1
    <2>2. CASE c \in Claims(item', a)
      <3>1. PICK v : c = <<"mem", v>> /\ mem[v] = "live"
        BY <2>2
      <3>. QED
        BY <1>i, <3>1, ClaimMeans
    <2>. QED
      BY <1>11, <2>1, <2>2
  <1>13. \A e \in ToSet(s) : Sound(t, e)' /\ e[1] \notin Changing \cup Storings
    <2>1. {"destroy", "chain"} \cap (Changing \cup Storings) = {}
      BY DEF Changing, Storings
    <2>. QED
      BY <1>6, <1>8, <2>1
  <1>14. \A j \in Ids : <<"item", j>> \in HeadClaims(t) =>
            /\ Out(j)
            /\ (j = id /\ ~item'[id].live) \/ <<"item", j>> \in Claims(item', s)
    BY <1>4, <1>6, <1>11
  <1>15. item[id].live /\ \A j \in Ids : <<"key", j>> \in HeadClaims(t) => j = id
    BY <1>1, <1>4
  <1>. QED
    BY <1>4, <1>8, <1>10, <1>11, <1>12, <1>13, <1>14, <1>15, ItemStep

\* The value of the next item is destroyed.
LEMMA DestroyNext ==
    ASSUME IInv, NEW t \in Threads, NEW q, NEW D, NEW id, Chained(t, q, D, id), id \in D,
           mem' = [mem EXCEPT ![item[id].val] = "free"], Go(t, << <<"chain", q, D \ {id}>> >>),
           lru' = lru, hash' = hash, item' = item, hold' = hold,
           refs' = refs, keyRefs' = keyRefs
    PROVE  IInv' /\ Protocol
  <1>i. /\ Typed /\ SlotsGood /\ ItemsGood /\ Counted
    BY DEF IInv
  <1>0. PICK v : v = item[id].val
    OBVIOUS
  <1>1. /\ D \subseteq ToSet(q) /\ ToSet(q) \subseteq Ids
        /\ q \in Seq(Ids) /\ q # <<>> /\ IsInjective(q)
    BY ChainIs
  <1>2. \A j \in ToSet(q) : item[j].live /\ ~item[j].held /\ Out(j) /\ item[j].val \in Vals
    BY ChainIs
  <1>3. \A j \in D : mem[item[j].val] = "dying"
    BY ChainIs
  <1>4. \A i, j \in D : item[i].val = item[j].val => i = j
    BY ChainIs
  <1>5. HeadClaims(t) = {<<"item", j>> : j \in ToSet(q)}
                        \cup {<<"mem", item[j].val>> : j \in D}
    BY ChainIs
  <1>6. v \in Vals /\ mem[v] = "dying" /\ <<"mem", v>> \in HeadClaims(t)
    BY <1>0, <1>1, <1>2, <1>3, <1>5
  <1>7. Protocol
    <2>1. \A d \in Handles : Pointer(d)' = Pointer(d)
      BY DEF Pointer, KeyExists, Val
    <2>. QED
      BY <1>0, <1>6, <2>1, DestroyStep
  <1>8. Counters' /\ Counted'
    BY <1>i, <1>7, CountedAfter
  <1>9. \A w \in Vals : mem[w] = "dying" /\ w # v => mem'[w] = "dying"
    BY <1>i, <1>0, <1>6 DEF Typed
  <1>10. PICK e : e = <<"chain", q, D \ {id}>>
    OBVIOUS
  <1>11. e[1] = "chain" /\ e[2] = q /\ e[3] = D \ {id}
    BY <1>10
  <1>12. Sound(t, e)'
    <2>1. \A j \in D \ {id} : mem'[item[j].val] = "dying"
      BY <1>0, <1>1, <1>2, <1>3, <1>4, <1>9
    <2>2. \A j \in ToSet(q) : Out(j)'
      BY <1>2 DEF Out, Listed
    <2>. QED
      BY <1>1, <1>2, <1>4, <1>11, <2>1, <2>2 DEF Sound, Val
  <1>13. Claim(item', e) = {<<"item", j>> : j \in ToSet(q)}
                           \cup {<<"mem", item[j].val>> : j \in D \ {id}}
    BY <1>11 DEF Claim
  <1>14. Claim(item', e) \subseteq HeadClaims(t)
    BY <1>5, <1>13
  <1>15. \A j : <<"item", j>> \in HeadClaims(t) =>
             j \in ToSet(q) /\ <<"item", j>> \in Claim(item', e)
    BY <1>5, <1>13
  <1>16. PICK s : s = <<e>>
    OBVIOUS
  <1>17. /\ Sequence(s) /\ ToSet(s) = {e} /\ Ordered(s) /\ Go(t, s)
         /\ Distinct(item', s) /\ Claims(item', s) = Claim(item', e)
    BY <1>10, <1>11, <1>16, Literals, OrderedLiterals, ClaimLiterals
  <1>18. \A d \in ToSet(s) : Sound(t, d)' /\ d[1] \notin Changing \cup Storings
    <2>1. "chain" \notin Changing \cup Storings
      BY DEF Changing, Storings
    <2>. QED
      BY <1>11, <1>12, <1>17, <2>1
  <1>19. \A j \in Ids : <<"item", j>> \in HeadClaims(t) =>
            Out(j) /\ <<"item", j>> \in Claims(item', s)
    BY <1>2, <1>15, <1>17
  <1>20. \A j : <<"key", j>> \notin HeadClaims(t)
    BY <1>5
  <1>21. \A w \in Vals : mem[w] = "dying" /\ <<"mem", w>> \notin HeadClaims(t) =>
            mem'[w] = "dying"
    BY <1>6, <1>9
  <1>22. item' \in [Ids -> ItemType] /\ ItemsGood'
    BY <1>i DEF Typed, ItemsGood, KeyExists, Val
  <1>23. PICK none : none = Null
    OBVIOUS
  <1>24. none \notin Ids
    BY <1>23, Kinds
  <1>25. \A c \in Claims(item', s) : c \in HeadClaims(t)
    BY <1>14, <1>17
  <1>26. IInv'
    BY <1>8, <1>17, <1>18, <1>19, <1>20, <1>21, <1>22, <1>24, <1>25, ItemStep
  <1>. QED
    BY <1>7, <1>26

\* The next item is freed; the thread has its own reference to the key.
LEMMA FreeButKey ==
    ASSUME IInv, NEW t \in Threads, NEW q, NEW D, NEW id, Chained(t, q, D, id), id \notin D,
           item[id].mine, item' = [item EXCEPT ![id].live = FALSE, ![id].val = Null],
           Go(t, IF Tail(q) = <<>> THEN <<>> ELSE << <<"chain", Tail(q), D>> >>),
           lru' = lru, hash' = hash, hold' = hold,
           refs' = refs, keyRefs' = keyRefs, mem' = mem
    PROVE  IInv' /\ Protocol
  <1>i. /\ Typed /\ ItemsGood /\ Counted
    BY DEF IInv
  <1>1. ToSet(q) \subseteq Ids /\ id \in ToSet(q)
    BY ChainIs
  <1>2. \A j \in ToSet(q) : item[j].live /\ ~item[j].held
    BY ChainIs
  <1>3. id \in Ids /\ item[id].live /\ ~item[id].held
    BY <1>1, <1>2
  <1>4. /\ item' \in [Ids -> ItemType] /\ \A j \in Ids : j # id => item'[j] = item[j]
        /\ ~item'[id].live /\ item'[id].mine /\ ~item'[id].held
        /\ item'[id].key = item[id].key /\ item'[id].val = Null
    <2>. DEFINE new == [item[id] EXCEPT !.live = FALSE, !.val = Null]
    <2>1. item \in [Ids -> ItemType] /\ item[id] \in ItemType
      BY <1>i, <1>3 DEF Typed
    <2>2. /\ new \in ItemType /\ ~new.live /\ new.mine = item[id].mine
          /\ new.held = item[id].held /\ new.key = item[id].key /\ new.val = Null
      BY <2>1 DEF ItemType
    <2>3. item' = [item EXCEPT ![id] = new]
      BY <2>1
    <2>. HIDE DEF new
    <2>. QED
      BY <1>3, <2>1, <2>2, <2>3
  <1>5. Protocol
    <2>1. ASSUME NEW d \in Handles PROVE Pointer(d)' = Pointer(d)
      <3>1. CASE \E u \in Threads, r \in Slots : d = <<u, r>>
        BY <3>1, SamePointers
      <3>2. ASSUME NEW j \in Ids, d = <<j, "val">> \/ d = <<j, "key">>, j # id
            PROVE  Pointer(d)' = Pointer(d)
        BY <1>4, <3>2, SamePointers
      <3>3. CASE d = <<id, "val">>
        <4>1. Pointer(<<id, "val">>)' = Pointer(<<id, "val">>)
          BY <1>3, <1>4, PointerIs
        <4>. QED
          BY <3>3, <4>1
      <3>4. CASE d = <<id, "key">>
        <4>0. Pointer(<<id, "key">>) = ImageOf(item[id].key)
          BY <1>3, PointerIs
        <4>2. Pointer(<<id, "key">>)' = ImageOf(item'[id].key)
          BY <1>3, <1>4, PointerIs
        <4>1. Pointer(<<id, "key">>)' = Pointer(<<id, "key">>)
          BY <1>4, <4>0, <4>2
        <4>. QED
          BY <3>4, <4>1
      <3>. QED
        BY <3>1, <3>2, <3>3, <3>4, PointerIs
    <2>. QED
      BY <2>1, StutterStep
  <1>6. Counters' /\ Counted'
    BY <1>i, <1>5, CountedAfter
  <1>7. ItemsGood'
    <2>1. ASSUME NEW j \in Ids
          PROVE  /\ item'[j].live \/ item'[j].mine => item'[j].key \in Keys
                 /\ item'[j].mine => item'[j].key \in TileKeys
                 /\ item'[j].live =>
                      /\ item'[j].key \in TileKeys => item'[j].val \in Tiles
                      /\ item'[j].key \in ObjKeys => item'[j].val \in Images
                 /\ ~item'[j].live => ~item'[j].held /\ item'[j].val = Null
      <3>1. CASE j # id
        BY <1>i, <1>4, <3>1 DEF ItemsGood, KeyExists, Val
      <3>2. CASE j = id
        BY <1>i, <1>3, <1>4, <3>2 DEF ItemsGood, KeyExists, Val
      <3>. QED
        BY <3>1, <3>2
    <2>. QED
      BY <2>1 DEF ItemsGood, KeyExists, Val
  <1>8. PICK a : a = <<>>
    OBVIOUS
  <1>9. /\ Sequence(a) /\ ToSet(a) = {} /\ Ordered(a) /\ Distinct(item', a)
        /\ Claims(item', a) = {}
    BY <1>8, Literals, OrderedLiterals, ClaimLiterals
  <1>10. Go(t, a \o (IF Tail(q) = <<>> THEN <<>> ELSE << <<"chain", Tail(q), D>> >>))
    <2>. DEFINE b == IF Tail(q) = <<>> THEN <<>> ELSE << <<"chain", Tail(q), D>> >>
    <2>1. Sequence(b)
      BY Literals
    <2>2. Go(t, b)
      OBVIOUS
    <2>. HIDE DEF b
    <2>3. a \o b = b
      BY <1>8, <2>1 DEF Sequence
    <2>4. Go(t, a \o b)
      BY <2>2, <2>3
    <2>. QED
      BY <2>4 DEF b
  <1>11. IInv'
    BY <1>4, <1>6, <1>7, <1>9, <1>10, FreedStep
  <1>. QED
    BY <1>5, <1>11

LEMMA ChainStepStep ==
    ASSUME IInv, NEW t \in Threads, ChainStep(t)
    PROVE  IInv' /\ Protocol
  <1>i. /\ Typed /\ ItemsGood /\ AgendaSound
    BY DEF IInv
  <1>0. PICK q, D, id : Chained(t, q, D, id)
    BY DEF ChainStep, At, Chained
  <1>1. /\ q = Arg(t, 2) /\ D = Arg(t, 3) /\ id = Head(Arg(t, 2))
    BY <1>0 DEF Chained, Arg
  <1>2. CASE id \in D
    <2>1. /\ mem' = [mem EXCEPT ![item[id].val] = "free"]
          /\ Go(t, << <<"chain", q, D \ {id}>> >>)
          /\ lru' = lru /\ hash' = hash /\ item' = item /\ hold' = hold
          /\ refs' = refs /\ keyRefs' = keyRefs
      BY <1>1, <1>2 DEF ChainStep, storeVars, Val
    <2>. QED
      BY <1>0, <1>2, <2>1, DestroyNext
  <1>3. CASE id \notin D
    <2>1. lru' = lru /\ hash' = hash /\ hold' = hold
      BY <1>1, <1>3 DEF ChainStep, storeVars
    <2>2. CASE item[id].mine
      <3>1. /\ item' = [item EXCEPT ![id].live = FALSE, ![id].val = Null]
            /\ Go(t, IF Tail(q) = <<>> THEN <<>> ELSE << <<"chain", Tail(q), D>> >>)
            /\ refs' = refs /\ keyRefs' = keyRefs /\ mem' = mem
        BY <1>1, <1>3, <2>2 DEF ChainStep, valVars
      <3>. QED
        BY <1>0, <1>3, <2>1, <2>2, <3>1, FreeButKey
    <2>3. CASE ~item[id].mine
      <3>0. PICK k, a : k = item[id].key /\ a = DestroyImageOf(k)
        OBVIOUS
      <3>1. /\ item' = [item EXCEPT ![id] = FreeItem] /\ DropKeyImage(k)
            /\ Go(t, a \o (IF Tail(q) = <<>> THEN <<>> ELSE << <<"chain", Tail(q), D>> >>))
        BY <1>1, <1>3, <2>3, <3>0 DEF ChainStep
      <3>2. ToSet(q) \subseteq Ids /\ id \in ToSet(q)
        BY <1>0, ChainIs
      <3>3. \A j \in ToSet(q) : item[j].live /\ ~item[j].held
        BY <1>0, ChainIs
      <3>4. id \in Ids /\ KeyExists(id) /\ ~item[id].held
        BY <3>2, <3>3 DEF KeyExists
      <3>5. /\ Protocol /\ Counters' /\ Counted' /\ ItemsGood'
            /\ item' \in [Ids -> ItemType] /\ item'[id] = FreeItem
            /\ \A j \in Ids : j # id => item'[j] = item[j]
            /\ \A v \in Vals : mem[v] = "dying" => mem'[v] = "dying"
            /\ ImageOf(k) # Null =>
                  /\ ImageOf(k) \in Vals /\ mem[ImageOf(k)] = "live"
                  /\ refs[ImageOf(k)] = 1 => mem'[ImageOf(k)] = "dying"
        BY <2>1, <3>0, <3>1, <3>4, KeyGone
      <3>6. ~item'[id].live /\ ~item'[id].mine
        BY <3>5 DEF FreeItem
      <3>7. /\ Sequence(a) /\ Ordered(a) /\ Distinct(item', a)
            /\ \A e \in ToSet(a) : e[1] = "destroy" /\ Sound(t, e)'
            /\ \A c \in Claims(item', a) : \E v : c = <<"mem", v>> /\ mem[v] = "live"
        <4>1. CASE a = <<>>
          BY <4>1, Literals, OrderedLiterals, ClaimLiterals
        <4>2. ASSUME NEW e, a = <<e>>, e[1] = "destroy", ImageOf(k) # Null,
                     Sound(t, e)', \A I : Claim(I, e) = {<<"mem", ImageOf(k)>>}
              PROVE  /\ Sequence(a) /\ Ordered(a) /\ Distinct(item', a)
                     /\ \A d \in ToSet(a) : d[1] = "destroy" /\ Sound(t, d)'
                     /\ \A c \in Claims(item', a) : \E v : c = <<"mem", v>> /\ mem[v] = "live"
          <5>1. /\ Sequence(a) /\ ToSet(a) = {e} /\ Ordered(a)
                /\ Distinct(item', a) /\ Claims(item', a) = {<<"mem", ImageOf(k)>>}
            BY <4>2, Literals, OrderedLiterals, ClaimLiterals
          <5>2. \A c \in Claims(item', a) : \E v : c = <<"mem", v>> /\ mem[v] = "live"
            BY <3>5, <4>2, <5>1
          <5>3. \A d \in ToSet(a) : d[1] = "destroy" /\ Sound(t, d)'
            BY <4>2, <5>1
          <5>. QED
            BY <5>1, <5>2, <5>3
        <4>. QED
          BY <3>0, <3>5, <4>1, <4>2, ImageDestroyed
      <3>8. IInv'
        BY <1>0, <1>3, <2>1, <2>3, <3>1, <3>5, <3>6, <3>7, FreedStep
      <3>. QED
        BY <3>5, <3>8
    <2>. QED
      BY <2>2, <2>3
  <1>. QED
    BY <1>2, <1>3

-----------------------------------------------------------------------------
\* An item that is a thread's to finish or free.
LEMMA ItemClaimMeans ==
    ASSUME Typed, AgendaSound, AgendaOrdered, NEW u \in Threads, NEW id,
           <<"item", id>> \in Claims(item, agenda[u])
    PROVE  \/ Out(id)
           \/ Secured(u, id) /\ agenda[u] # <<>> /\ Head(agenda[u])[1] \notin Changing
  <1>. DEFINE a == agenda[u]
  <1>1. /\ Len(a) \in Nat /\ DOMAIN a = 1 .. Len(a)
        /\ a # <<>> => 1 \in 1 .. Len(a) /\ Head(a) = a[1]
    BY RestIs
  <1>2. Ordered(a) /\ \A i \in DOMAIN a : Sound(u, a[i])
    BY DEF AgendaOrdered, AgendaSound
  <1>. HIDE DEF a
  <1>3. PICK i \in 1 .. Len(a) : <<"item", id>> \in Claim(item, a[i])
    BY <1>1 DEF Claims, a
  <1>4. PICK e : e = a[i]
    OBVIOUS
  <1>5. Sound(u, e) /\ a # <<>>
    BY <1>1, <1>2, <1>3, <1>4
  <1>6. CASE e[1] \in Storings
    <2>1. id = e[2] /\ Secured(u, id)
      BY <1>3, <1>4, <1>5, <1>6 DEF Claim, Sound, Storings
    <2>2. Storings \cap Changing = {} /\ Storings \cap Later \subseteq Relying
      BY DEF Storings, Changing, Later, Relying
    <2>3. a[1][1] \notin Changing
      <3>1. CASE i = 1
        BY <1>4, <1>6, <2>2, <3>1
      <3>2. CASE i > 1
        <4>1. e[1] \in Relying
          BY <1>1, <1>2, <1>4, <1>6, <2>2, <3>2 DEF Ordered
        <4>2. 1 \in 1 .. i - 1
          BY <3>2
        <4>. QED
          BY <1>1, <1>2, <1>4, <3>2, <4>1, <4>2 DEF Ordered
      <3>. QED
        BY <3>1, <3>2
    <2>. QED
      BY <1>1, <1>5, <2>1, <2>3 DEF a
  <1>7. CASE e[1] \notin Storings
    BY <1>3, <1>4, <1>5, <1>7 DEF Claim, Sound, Storings
  <1>. QED
    BY <1>6, <1>7

(***************************************************************************)
(* A step that takes the items of S out of the store, or has them free     *)
(* their values' references, and leaves s to be done with them.            *)
(***************************************************************************)
LEMMA TakeStep ==
    ASSUME IInv, Counters', Counted',
           NEW t \in Threads, NEW s, Sequence(s), Go(t, s), Ordered(s), NEW S \in SUBSET Ids,
           lru' \in Seq(Ids), IsInjective(lru'), Listed' = Listed \ S, hash' = Unhash(S),
           hold' = hold, item' \in [Ids -> ItemType],
           \A j \in Ids \ S : item'[j] = item[j],
           \A j \in S : /\ item[j].live /\ item'[j].live /\ item'[j].mine = item[j].mine
                        /\ item'[j].key = item[j].key /\ item'[j].val = item[j].val,
           \A j \in S : j \in Listed \/ (Out(j) /\ <<"item", j>> \in HeadClaims(t)),
           \A j \in S, u \in Threads : Secured(u, j) =>
               \/ Out(j) /\ <<"item", j>> \in HeadClaims(t)
               \/ u = t /\ (agenda[t] = <<>> \/ Head(agenda[t])[1] \in Changing),
           \A j \in Ids : j \in S \/ <<"item", j>> \in HeadClaims(t) =>
               <<"item", j>> \in Claims(item', s),
           \A j \in Ids : <<"item", j>> \in HeadClaims(t) /\ ~Out(j) =>
               \E e \in ToSet(s) : e[1] \in Storings /\ e[2] = j,
           \A j : <<"key", j>> \notin HeadClaims(t),
           \A v \in Vals : mem[v] = "dying" => mem'[v] = "dying",
           Distinct(item', s),
           \A c \in Claims(item', s) : \/ c \in HeadClaims(t)
                                       \/ \E j \in S : c = <<"item", j>>
                                       \/ \E v : c = <<"mem", v>> /\ mem[v] = "live",
           \A e \in ToSet(s) : Sound(t, e)',
           \A e \in ToSet(s) : e[1] \in Changing =>
               agenda[t] = <<>> \/ Head(agenda[t])[1] \in Changing
    PROVE  IInv'
  <1>i. /\ Typed /\ SlotsGood /\ ItemsGood /\ ListGood /\ HashGood
        /\ AgendaSound /\ AgendaOrdered /\ Claimed /\ NothingLost /\ Counted
    BY DEF IInv
  <1>1. Listed \subseteq Ids /\ Null \notin Ids
    BY <1>i, SequenceIs, Kinds DEF Listed, Typed
  <1>2. /\ hash' \in [Hashed -> Ids \cup {Null}]
        /\ \A k \in Hashed : hash[k] \in S => hash'[k] = Null
        /\ \A k \in Hashed : hash[k] \notin S => hash'[k] = hash[k]
    BY <1>i DEF Typed, Unhash
  <1>3. \A k \in Hashed : hash'[k] # Null => hash'[k] = hash[k] /\ hash[k] \notin S
    BY <1>2
  <1>4. \A j \in Ids : Out(j) => Out(j)'
    BY SMTT(40), <1>1, <1>3 DEF Out
  <1>5. ItemsGood'
    <2>1. ASSUME NEW j \in Ids
          PROVE  /\ item'[j].live \/ item'[j].mine => item'[j].key \in Keys
                 /\ item'[j].mine => item'[j].key \in TileKeys
                 /\ item'[j].live =>
                      /\ item'[j].key \in TileKeys => item'[j].val \in Tiles
                      /\ item'[j].key \in ObjKeys => item'[j].val \in Images
                 /\ ~item'[j].live => ~item'[j].held /\ item'[j].val = Null
      <3>1. /\ item[j].live \/ item[j].mine => item[j].key \in Keys
            /\ item[j].mine => item[j].key \in TileKeys
            /\ item[j].live =>
                 /\ item[j].key \in TileKeys => item[j].val \in Tiles
                 /\ item[j].key \in ObjKeys => item[j].val \in Images
            /\ ~item[j].live => ~item[j].held /\ item[j].val = Null
        BY <1>i DEF ItemsGood, KeyExists, Val
      <3>2. CASE j \in S
        BY <3>1, <3>2
      <3>3. CASE j \notin S
        BY <3>1, <3>3
      <3>. QED
        BY <3>2, <3>3
    <2>. QED
      BY <2>1 DEF ItemsGood, KeyExists, Val
  <1>6. ListGood'
    <2>1. ASSUME NEW j \in Listed \ S
          PROVE  /\ item'[j].live /\ item'[j].held
                 /\ item'[j].key \in Hashed => hash'[item'[j].key] = j
      <3>1. j \in Ids /\ item'[j] = item[j]
        BY <1>1
      <3>2. /\ item[j].live /\ item[j].held
            /\ item[j].key \in Hashed => hash[item[j].key] = j
        BY <1>i DEF ListGood
      <3>. QED
        BY <1>2, <3>1, <3>2
    <2>. QED
      BY <2>1 DEF ListGood
  <1>7. Found(t, s)
    <2>1. ASSUME NEW k \in Hashed, NEW j, hash'[k] = j, j # Null
          PROVE  /\ item'[j].live /\ item'[j].held /\ item'[j].key = k
                 /\ \/ j \in Listed'
                    \/ \E e \in ToSet(s) : e[1] \in Storings /\ e[2] = j
                    \/ j \in InWindow /\ <<"item", j>> \notin HeadClaims(t)
      <3>1. j \in Ids \ S /\ hash[k] = j /\ item'[j] = item[j] /\ ~Out(j)
        BY <1>2, <1>3, <2>1 DEF Out
      <3>2. item[j].live /\ item[j].held /\ item[j].key = k /\ j \in Listed \cup InWindow
        BY <1>i, <2>1, <3>1 DEF HashGood
      <3>3. CASE j \in Listed
        BY <3>1, <3>2, <3>3
      <3>4. CASE <<"item", j>> \in HeadClaims(t)
        BY <3>1, <3>2, <3>4
      <3>. QED
        BY <3>1, <3>2, <3>3, <3>4
    <2>. QED
      BY <2>1 DEF Found
  <1>8. Spared(t)
    <2>1. \A j \in Ids : item[j].live =>
              item'[j].val = item[j].val \/ <<"item", j>> \in HeadClaims(t)
      OBVIOUS
    <2>2. ASSUME NEW j \in Ids \ S PROVE SameItem(j)
      BY DEF SameItem
    <2>3. ASSUME NEW j \in Ids, item[j].live, Out(j), <<"item", j>> \notin HeadClaims(t)
          PROVE  SameItem(j) /\ Out(j)'
      <3>1. j \notin S
        BY <2>3 DEF Out
      <3>. QED
        BY <1>4, <2>2, <2>3, <3>1
    <2>4. ASSUME NEW u \in Threads, NEW j \in Ids, Secured(u, j),
                 u = t => agenda[t] # <<>> /\ Head(agenda[t])[1] \notin Changing,
                 <<"item", j>> \in HeadClaims(t) => item[j].key \in Hashed
          PROVE  SameItem(j) /\ (item[j].key \in Hashed => hash'[item[j].key] = j)
      <3>1. item[j].key \in Hashed => hash[item[j].key] = j
        BY <2>4 DEF Secured
      <3>2. j \notin S
        <4>1. SUFFICES ASSUME j \in S PROVE FALSE
          OBVIOUS
        <4>2. Out(j) /\ <<"item", j>> \in HeadClaims(t)
          BY <2>4, <4>1
        <4>. QED
          BY <2>4, <3>1, <4>2 DEF Out
      <3>. QED
        BY <1>2, <2>2, <3>1, <3>2
    <2>5. \A j \in Ids : item[j].mine => item'[j].mine
      OBVIOUS
    <2>6. \A j \in Ids : ~item[j].live => item'[j] = item[j]
      OBVIOUS
    <2>7. \A k \in ObjKeys : Unused(k) => Unused(k)'
      BY <1>2 DEF Unused
    <2>. QED
      BY <2>1, <2>3, <2>4, <2>5, <2>6, <2>7 DEF Spared
  <1>9. Passed(t, s)
    <2>1. ASSUME NEW c \in Claims(item', s)
          PROVE  c \in HeadClaims(t) \/ \A u \in Threads : c \notin Claims(item, agenda[u])
      <3>1. ASSUME NEW j \in S, c = <<"item", j>>, c \notin HeadClaims(t),
                   NEW u \in Threads, c \in Claims(item, agenda[u])
            PROVE  FALSE
        <4>1. ~Out(j)
          BY <3>1 DEF Out
        <4>2. Secured(u, j) /\ agenda[u] # <<>> /\ Head(agenda[u])[1] \notin Changing
          BY <1>i, <3>1, <4>1, ItemClaimMeans
        <4>. QED
          BY <3>1, <4>1, <4>2
      <3>2. ASSUME NEW v, c = <<"mem", v>>, mem[v] = "live",
                   NEW u \in Threads, c \in Claims(item, agenda[u])
            PROVE  FALSE
        BY <1>i, <3>2, ClaimMeans
      <3>. QED
        BY <3>1, <3>2
    <2>2. ASSUME NEW j \in Ids, item'[j].live
          PROVE  \/ j \in Listed'
                 \/ <<"item", j>> \in Claims(item', s)
                 \/ /\ item[j].live /\ (j \in Listed => j \in Listed')
                    /\ <<"item", j>> \notin HeadClaims(t)
      BY <2>2
    <2>3. \A j \in Ids : item'[j].mine => item[j].mine /\ <<"key", j>> \notin HeadClaims(t)
      OBVIOUS
    <2>. QED
      BY <2>1, <2>2, <2>3 DEF Passed
  <1>10. hold' \in [Threads -> [Slots -> Vals \cup {Null}]] /\ SlotsGood'
    BY <1>i DEF Typed, SlotsGood
  <1>. QED
    BY <1>2, <1>5, <1>6, <1>7, <1>8, <1>9, <1>10, Advance

-----------------------------------------------------------------------------
\* What the items of S give up: each its own reference to its value.
LEMMA DisownIs ==
    ASSUME IInv, NEW S \in SUBSET Ids, \A j \in S : item[j].live /\ item[j].held,
           Disown(S), hold' = hold
    PROVE  /\ Protocol /\ Counters' /\ Counted'
           /\ item' \in [Ids -> ItemType] /\ \A j \in Ids \ S : item'[j] = item[j]
           /\ \A j \in S : /\ item'[j].live /\ ~item'[j].held /\ item'[j].mine = item[j].mine
                           /\ item'[j].key = item[j].key /\ item'[j].val = item[j].val
                           /\ item[j].val \in Vals /\ mem[item[j].val] = "live"
           /\ \A v \in Vals : mem[v] = "dying" => mem'[v] = "dying"
           /\ \A j \in S : refs[item[j].val] = Cardinality({i \in S : item[i].val = item[j].val})
                => mem'[item[j].val] = "dying"
  <1>i. Typed /\ ItemsGood /\ Counted
    BY DEF IInv
  <1>1. /\ item' \in [Ids -> ItemType] /\ \A j \in Ids \ S : item'[j] = item[j]
        /\ \A j \in S : /\ item'[j].live /\ ~item'[j].held /\ item'[j].mine = item[j].mine
                        /\ item'[j].key = item[j].key /\ item'[j].val = item[j].val
    <2>1. ASSUME NEW j \in Ids
          PROVE  /\ item'[j] \in ItemType
                 /\ j \notin S => item'[j] = item[j]
                 /\ j \in S => /\ item'[j].live /\ ~item'[j].held
                               /\ item'[j].mine = item[j].mine
                               /\ item'[j].key = item[j].key /\ item'[j].val = item[j].val
      <3>. DEFINE new == [item[j] EXCEPT !.held = FALSE]
      <3>1. item[j] \in ItemType
        BY <1>i DEF Typed
      <3>2. /\ new \in ItemType /\ new.live = item[j].live /\ ~new.held
            /\ new.mine = item[j].mine /\ new.key = item[j].key /\ new.val = item[j].val
        BY <3>1 DEF ItemType
      <3>3. item'[j] = IF j \in S THEN new ELSE item[j]
        BY DEF Disown
      <3>. HIDE DEF new
      <3>. QED
        BY <3>1, <3>2, <3>3
    <2>2. item' = [j \in Ids |-> item'[j]]
      BY DEF Disown
    <2>. QED
      BY <2>1, <2>2
  <1>2. \A j \in S : item[j].val \in Vals
    BY <1>i, Kinds DEF ItemsGood, KeyExists, Val
  <1>3. \A j \in S : Pointer(<<j, "val">>) = item[j].val /\ <<j, "val">> \in Handles
    BY ZenonT(20), PointerIs
  <1>4. Counters
    BY <1>i DEF Typed, Counters
  <1>5. \A j \in S : mem[item[j].val] = "live" /\ refs[item[j].val] > 0
    BY <1>i, <1>2, <1>3, <1>4, OwnedLives
  <1>. DEFINE H == S \X {"val"}
  <1>6. H \in SUBSET NormalHandles /\ \A h \in H : Pointer(h) # Null
    <2>1. \A j \in S : <<j, "val">> \in NormalHandles
      BY ZenonT(20), NormalIs
    <2>2. Null \notin Vals
      BY Kinds
    <2>. QED
      BY <1>2, <1>3, <2>1, <2>2
  <1>7. ASSUME NEW g \in Handles PROVE Pointer(g)' = IF g \in H THEN Null ELSE Pointer(g)
    <2>1. CASE \E u \in Threads, r \in Slots : g = <<u, r>>
      <3>1. "val" \notin Slots
        BY DEF Slots
      <3>2. g \notin H
        BY <2>1, <3>1
      <3>. QED
        BY <2>1, <3>2, SamePointers
    <2>2. ASSUME NEW j \in Ids, g = <<j, "key">>
          PROVE  Pointer(g)' = Pointer(g) /\ g \notin H
      <3>0. j \in S => item[j].live /\ item'[j].live
        BY <1>1
      <3>1. /\ item[j].live \/ item[j].mine <=> item'[j].live \/ item'[j].mine
            /\ item'[j].key = item[j].key
        <4>1. CASE j \in S
          BY <1>1, <3>0, <4>1
        <4>2. CASE j \notin S
          BY <1>1, <4>2
        <4>. QED
          BY <4>1, <4>2
      <3>2. /\ Pointer(<<j, "key">>) =
                 IF item[j].live \/ item[j].mine THEN ImageOf(item[j].key) ELSE Null
            /\ Pointer(<<j, "key">>)' =
                 IF item'[j].live \/ item'[j].mine THEN ImageOf(item'[j].key) ELSE Null
        BY PointerIs
      <3>. QED
        BY <2>2, <3>1, <3>2
    <2>3. ASSUME NEW j \in Ids \ S, g = <<j, "val">>
          PROVE  Pointer(g)' = Pointer(g) /\ g \notin H
      BY <1>1, <2>3, SamePointers
    <2>4. ASSUME NEW j \in S, g = <<j, "val">> PROVE Pointer(g)' = Null /\ g \in H
      <3>1. Pointer(<<j, "val">>)' = Null
        BY <1>1, PointerIs
      <3>. QED
        BY <2>4, <3>1
    <2>. QED
      BY <2>1, <2>2, <2>3, <2>4, PointerIs
  <1>8. ASSUME NEW v
        PROVE  Cardinality(Owners(v) \cap H) = Cardinality({j \in S : item[j].val = v})
    <2>. DEFINE B == {j \in S : item[j].val = v}
                L == Owners(v) \cap H
                f == [j \in B |-> <<j, "val">>]
    <2>1. \A j \in B : f[j] \in L
      BY ZenonT(20), <1>3 DEF Owners
    <2>2. \A h \in L : \E j \in B : f[j] = h
      BY <1>3 DEF Owners
    <2>3. f \in Bijection(B, L)
      BY <2>1, <2>2 DEF Bijection, Injection, Surjection, IsInjective
    <2>4. IsFiniteSet(B)
      BY StoreAssumption, FS_Subset
    <2>5. ExistsBijection(B, L)
      BY <2>3 DEF ExistsBijection
    <2>. HIDE DEF B, L
    <2>6. Cardinality(L) = Cardinality(B)
      BY <2>4, <2>5, FS_Bijection
    <2>. QED
      BY <2>6 DEF B, L
  <1>9. refs' = [v \in Vals |-> IF refs[v] > 0
                                THEN refs[v] - Cardinality(Owners(v) \cap H) ELSE refs[v]]
    BY <1>8 DEF Disown, Val
  <1>10. mem' = Dying(refs') /\ keyRefs' = keyRefs
    BY DEF Disown
  <1>11. Protocol
    <2>1. CASE S # {}
      <3>1. H # {}
        <4>1. PICK j : j \in S
          BY <2>1
        <4>2. <<j, "val">> \in H
          BY <4>1
        <4>. QED
          BY <4>2
      <3>. HIDE DEF H
      <3>. QED
        BY <1>6, <1>7, <1>9, <1>10, <3>1, ReleaseStep
    <2>2. CASE S = {}
      <3>1. refs' = refs
        <4>1. \A v : {j \in S : Val(j) = v} = {}
          BY <2>2
        <4>2. Cardinality({}) = 0
          BY FS_EmptySet
        <4>3. refs \in [Vals -> Nat]
          BY <1>i DEF Typed
        <4>4. refs' = [v \in Vals |-> IF refs[v] > 0 THEN refs[v] - 0 ELSE refs[v]]
          BY <4>1, <4>2 DEF Disown
        <4>. QED
          BY <4>3, <4>4
      <3>2. mem' = mem
        <4>1. mem \in [Vals -> {"free", "live", "dying"}]
          BY <1>i DEF Typed
        <4>. QED
          BY <1>10, <3>1, <4>1 DEF Dying
      <3>3. \A g \in Handles : Pointer(g)' = Pointer(g)
        BY <1>7, <2>2
      <3>. QED
        BY <1>10, <3>1, <3>2, <3>3, StutterStep
    <2>. QED
      BY <2>1, <2>2
  <1>12. Counters' /\ Counted'
    BY <1>i, <1>11, CountedAfter
  <1>13. \A v \in Vals : mem[v] = "dying" => mem'[v] = "dying"
    BY <1>10 DEF Dying
  <1>14. ASSUME NEW j \in S,
                refs[item[j].val] = Cardinality({i \in S : item[i].val = item[j].val})
         PROVE  mem'[item[j].val] = "dying"
    <2>1. PICK v : v = item[j].val
      OBVIOUS
    <2>2. v \in Vals /\ refs[v] > 0 /\ refs[v] \in Nat
      BY <1>i, <1>2, <1>5, <2>1 DEF Typed
    <2>3. refs'[v] = refs[v] - Cardinality({i \in S : item[i].val = v})
      BY <2>2 DEF Disown, Val
    <2>4. refs'[v] = 0
      BY <1>14, <2>1, <2>2, <2>3
    <2>. QED
      BY <1>10, <2>1, <2>2, <2>4 DEF Dying
  <1>. QED
    BY <1>1, <1>2, <1>5, <1>11, <1>12, <1>13, <1>14

(***************************************************************************)
(* The items of S leave the store, and their values' references go: what   *)
(* is left is to free them, and to destroy the values of D.                *)
(***************************************************************************)
LEMMA EvictStep ==
    ASSUME IInv, NEW t \in Threads, NEW S \in SUBSET Ids,
           \A j \in S : item[j].live /\ item[j].held, Disown(S), hold' = hold,
           lru' \in Seq(Ids), IsInjective(lru'), Listed' = Listed \ S, hash' = Unhash(S),
           \/ HeadClaims(t) = {} /\ S \subseteq Listed
           \/ HeadClaims(t) = {<<"item", j>> : j \in S} /\ \A j \in S : Out(j),
           \A j \in S, u \in Threads : Secured(u, j) =>
               \/ Out(j) /\ <<"item", j>> \in HeadClaims(t)
               \/ u = t /\ (agenda[t] = <<>> \/ Head(agenda[t])[1] \in Changing),
           NEW q \in Seq(Ids), IsInjective(q), ToSet(q) = S, NEW D \in SUBSET S,
           \A i, j \in D : item[i].val = item[j].val => i = j,
           \A j \in D : refs[item[j].val] = Cardinality({i \in S : item[i].val = item[j].val}),
           NEW a, a = (IF S = {} THEN <<>> ELSE << <<"chain", q, D>> >>),
           NEW b, Sequence(b), Len(b) <= 1, Go(t, a \o b),
           \A e \in ToSet(b) : \/ e[1] = "scav"
                               \/ /\ e[1] = "empty" /\ Threads = {Doc}
                                  /\ agenda[t] # <<>> /\ Head(agenda[t])[1] = "empty"
    PROVE  IInv' /\ Protocol
  <1>i. /\ Typed /\ ItemsGood /\ Counted
    BY DEF IInv
  <1>1. /\ Protocol /\ Counters' /\ Counted'
        /\ item' \in [Ids -> ItemType] /\ \A j \in Ids \ S : item'[j] = item[j]
        /\ \A v \in Vals : mem[v] = "dying" => mem'[v] = "dying"
    BY DisownIs
  <1>2. \A j \in S : /\ item'[j].live /\ ~item'[j].held /\ item'[j].mine = item[j].mine
                     /\ item'[j].key = item[j].key /\ item'[j].val = item[j].val
                     /\ item[j].val \in Vals /\ mem[item[j].val] = "live"
    BY DisownIs
  <1>3. \A j \in D : mem'[item[j].val] = "dying"
    BY DisownIs
  <1>4. ASSUME NEW j \in S PROVE Out(j)'
    <2>1. j \notin Listed' /\ j # Null
      BY Kinds
    <2>2. ASSUME NEW k \in Hashed PROVE hash'[k] # j
      BY <2>1 DEF Unhash
    <2>. QED
      BY <2>1, <2>2 DEF Out
  <1>5. /\ Sequence(a) /\ Ordered(a) /\ Distinct(item', a)
        /\ \A e \in ToSet(a) : e[1] = "chain" /\ Sound(t, e)'
        /\ Claims(item', a) = {<<"item", j>> : j \in S} \cup {<<"mem", item[j].val>> : j \in D}
    <2>1. CASE S = {}
      <3>1. a = <<>> /\ D = {}
        BY <2>1
      <3>2. /\ Sequence(a) /\ ToSet(a) = {} /\ Ordered(a) /\ Distinct(item', a)
            /\ Claims(item', a) = {}
        BY <3>1, Literals, OrderedLiterals, ClaimLiterals
      <3>. QED
        BY <2>1, <3>1, <3>2
    <2>2. CASE S # {}
      <3>1. PICK e : e = <<"chain", q, D>>
        OBVIOUS
      <3>2. e[1] = "chain" /\ e[2] = q /\ e[3] = D /\ a = <<e>>
        BY <2>2, <3>1
      <3>3. /\ Sequence(a) /\ ToSet(a) = {e} /\ Ordered(a)
            /\ Distinct(item', a) /\ Claims(item', a) = Claim(item', e)
        <4>1. e[1] # "store"
          BY <3>2
        <4>2. Sequence(<<e>>) /\ ToSet(<<e>>) = {e} /\ Ordered(<<e>>)
          BY <4>1, Literals, OrderedLiterals
        <4>3. Distinct(item', <<e>>) /\ Claims(item', <<e>>) = Claim(item', e)
          BY ClaimLiterals
        <4>. QED
          BY <3>2, <4>2, <4>3
      <3>4. q # <<>>
        <4>1. ToSet(<<>>) = {}
          BY Literals
        <4>. QED
          BY <2>2, <4>1
      <3>5. Sound(t, e)'
        <4>1. /\ \A j \in ToSet(q) : item'[j].live /\ ~item'[j].held /\ Out(j)'
              /\ \A j \in D : mem'[item'[j].val] = "dying"
              /\ \A i, j \in D : item'[i].val = item'[j].val => i = j
          BY <1>2, <1>3, <1>4
        <4>2. q \in Seq(Ids) /\ q # <<>> /\ IsInjective(q) /\ D \subseteq ToSet(q)
          BY <3>4
        <4>. QED
          BY <3>2, <4>1, <4>2 DEF Sound, Val
      <3>6. Claim(item', e) = {<<"item", j>> : j \in S} \cup {<<"mem", item'[j].val>> : j \in D}
        BY <3>2 DEF Claim
      <3>7. {<<"mem", item'[j].val>> : j \in D} = {<<"mem", item[j].val>> : j \in D}
        BY SMTT(40), <1>2
      <3>. QED
        BY <3>2, <3>3, <3>5, <3>6, <3>7
    <2>. QED
      BY <2>1, <2>2
  <1>6. /\ Claims(item', b) = {} /\ Distinct(item', b)
        /\ \A e \in ToSet(b) : e[1] \in Later /\ Sound(t, e)' /\ e[1] \notin Owning
    <2>1. {"scav", "empty"} \subseteq Later \ Owning
      BY DEF Later, Owning, Storings
    <2>2. ASSUME NEW e \in ToSet(b) PROVE Sound(t, e)'
      <3>1. CASE e[1] = "scav"
        BY <3>1 DEF Sound
      <3>2. CASE e[1] = "empty" /\ Threads = {Doc}
        BY <3>2 DEF Sound
      <3>. QED
        BY <3>1, <3>2
    <2>3. \A e \in ToSet(b) : Claim(item', e) = {}
      BY <2>1, PlainClaims
    <2>4. \A i \in DOMAIN b : b[i] \in ToSet(b)
      BY DEF ToSet
    <2>. QED
      BY <2>1, <2>2, <2>3, <2>4 DEF Claims, Distinct
  <1>7. PICK s : s = a \o b
    OBVIOUS
  <1>8. Sequence(s) /\ ToSet(s) = ToSet(a) \cup ToSet(b) /\ Go(t, s)
    <2>1. Sequence(a) /\ Sequence(b)
      BY <1>5
    <2>2. \A c, d : Sequence(c) /\ Sequence(d) =>
              Sequence(c \o d) /\ ToSet(c \o d) = ToSet(c) \cup ToSet(d)
      BY ConcatIs
    <2>3. Sequence(a \o b) /\ ToSet(a \o b) = ToSet(a) \cup ToSet(b)
      BY <2>1, <2>2, Zenon
    <2>. QED
      BY <1>7, <2>3
  <1>9. Ordered(s)
    <2>1. "chain" \notin Changing
      BY DEF Changing
    <2>2. \A e \in ToSet(a) : e[1] \notin Changing
      BY <1>5, <2>1
    <2>3. Ordered(a \o b)
      BY <1>5, <1>6, <2>2, OrderedConcat
    <2>. QED
      BY <1>7, <2>3
  <1>10. /\ Distinct(item', s)
         /\ Claims(item', s) = {<<"item", j>> : j \in S} \cup {<<"mem", item[j].val>> : j \in D}
    <2>1. PICK I : I = item'
      OBVIOUS
    <2>2. /\ Sequence(a) /\ Sequence(b) /\ Distinct(I, a) /\ Distinct(I, b)
          /\ Claims(I, a) \cap Claims(I, b) = {}
      BY <1>5, <1>6, <2>1
    <2>3. Claims(I, a \o b) = Claims(I, a) \cup Claims(I, b) /\ Distinct(I, a \o b)
      BY <2>2, ClaimsConcat
    <2>. QED
      BY <1>5, <1>6, <1>7, <2>1, <2>3
  <1>11. \A e \in ToSet(s) : Sound(t, e)'
    BY <1>5, <1>6, <1>8
  <1>12. \A e \in ToSet(s) : e[1] \in Changing =>
            agenda[t] = <<>> \/ Head(agenda[t])[1] \in Changing
    <2>1. {"chain", "scav"} \cap Changing = {} /\ "empty" \in Changing
      BY DEF Changing
    <2>. QED
      BY <1>5, <1>8, <2>1
  <1>13. \A c \in Claims(item', s) : \/ c \in HeadClaims(t)
                                     \/ \E j \in S : c = <<"item", j>>
                                     \/ \E v : c = <<"mem", v>> /\ mem[v] = "live"
    BY <1>2, <1>10
  <1>14. \A j \in Ids : j \in S \/ <<"item", j>> \in HeadClaims(t) =>
            <<"item", j>> \in Claims(item', s)
    BY <1>10
  <1>15. \A j \in S : j \in Listed \/ (Out(j) /\ <<"item", j>> \in HeadClaims(t))
    OBVIOUS
  <1>16. \A j \in Ids : <<"item", j>> \in HeadClaims(t) => Out(j)
    OBVIOUS
  <1>17. \A j : <<"key", j>> \notin HeadClaims(t)
    OBVIOUS
  <1>18. \A j \in S : /\ item[j].live /\ item'[j].live /\ item'[j].mine = item[j].mine
                      /\ item'[j].key = item[j].key /\ item'[j].val = item[j].val
    BY <1>2
  <1>20. \A j \in Ids : <<"item", j>> \in HeadClaims(t) /\ ~Out(j) =>
            \E e \in ToSet(s) : e[1] \in Storings /\ e[2] = j
    BY <1>16
  <1>21. \A j \in S, u \in Threads : Secured(u, j) =>
               \/ Out(j) /\ <<"item", j>> \in HeadClaims(t)
               \/ u = t /\ (agenda[t] = <<>> \/ Head(agenda[t])[1] \in Changing)
    OBVIOUS
  <1>22. /\ Counters' /\ Counted' /\ item' \in [Ids -> ItemType]
         /\ \A j \in Ids \ S : item'[j] = item[j]
         /\ \A v \in Vals : mem[v] = "dying" => mem'[v] = "dying"
    BY <1>1
  <1>23. Sequence(s) /\ Go(t, s) /\ Ordered(s) /\ Distinct(item', s)
    BY <1>8, <1>9, <1>10
  <1>19. IInv'
    BY SMTT(40), <1>20, <1>21, <1>22, <1>23, <1>11, <1>12, <1>13, <1>14, <1>15, <1>17, <1>18, TakeStep
  <1>. QED
    BY <1>1, <1>19

-----------------------------------------------------------------------------
\* What is in the list, and in it after S has gone.
LEMMA ListedIs ==
    ASSUME IInv
    PROVE  /\ Listed \subseteq Ids
           /\ \A j \in Listed : item[j].live /\ item[j].held /\ item[j].val \in Vals
  <1>i. Typed /\ ListGood /\ ItemsGood
    BY DEF IInv
  <1>1. Listed \subseteq Ids
    BY <1>i, SequenceIs DEF Typed, Listed
  <1>2. \A j \in Listed : item[j].live /\ item[j].held
    BY <1>i DEF ListGood
  <1>3. \A j \in Listed : item[j].val \in Vals
    BY <1>i, <1>1, <1>2, Kinds DEF ItemsGood, KeyExists, Val
  <1>. QED
    BY <1>1, <1>2, <1>3

LEMMA UnlinkedIs ==
    ASSUME IInv, NEW S, lru' = Without(S)
    PROVE  lru' \in Seq(Ids) /\ IsInjective(lru') /\ Listed' = Listed \ S
  <1>1. lru \in Seq(Ids) /\ IsInjective(lru)
    BY DEF IInv, Typed, ListGood
  <1>. QED
    BY <1>1, WithoutIs DEF Listed

\* For each value with no other references one item is to destroy it.
LEMMA DestroyersIs ==
    ASSUME IInv, NEW S
    PROVE  /\ Destroyers(S) \subseteq S
           /\ \A i, j \in Destroyers(S) : item[i].val = item[j].val => i = j
           /\ \A j \in Destroyers(S) :
                refs[item[j].val] = Cardinality({i \in S : item[i].val = item[j].val})
  <1>1. lru \in Seq(Ids) /\ IsInjective(lru)
    BY DEF IInv, Typed, ListGood
  <1>2. Destroyers(S) \subseteq S
    BY DEF Destroyers
  <1>3. ASSUME NEW i \in Destroyers(S), NEW j \in Destroyers(S), item[i].val = item[j].val
        PROVE  i = j
    <2>1. PICK m, n \in DOMAIN lru : lru[m] = i /\ lru[n] = j /\ m <= n
      BY <1>3 DEF Destroyers, Val
    <2>2. PICK k, l \in DOMAIN lru : lru[k] = j /\ lru[l] = i /\ k <= l
      BY <1>3 DEF Destroyers, Val
    <2>3. m = l /\ n = k
      BY <1>1, <2>1, <2>2 DEF IsInjective
    <2>4. m = n
      BY <1>1, <2>1, <2>2, <2>3
    <2>. QED
      BY <2>1, <2>4
  <1>4. \A j \in Destroyers(S) :
            refs[item[j].val] = Cardinality({i \in S : item[i].val = item[j].val})
    BY DEF Destroyers, Val
  <1>. QED
    BY <1>2, <1>3, <1>4

LEMMA OneIs ==
    ASSUME NEW id \in Ids, NEW D, D = (IF refs[Val(id)] = 1 THEN {id} ELSE {})
    PROVE  /\ <<id>> \in Seq(Ids) /\ IsInjective(<<id>>) /\ ToSet(<<id>>) = {id}
           /\ D \subseteq {id} /\ \A i, j \in D : item[i].val = item[j].val => i = j
           /\ \A j \in D :
                refs[item[j].val] = Cardinality({i \in {id} : item[i].val = item[j].val})
  <1>1. <<id>> \in Seq(Ids) /\ ToSet(<<id>>) = {id}
    BY Literals
  <1>2. IsInjective(<<id>>)
    BY DEF IsInjective
  <1>3. ASSUME NEW j \in D
        PROVE  refs[item[j].val] = Cardinality({i \in {id} : item[i].val = item[j].val})
    <2>1. j = id /\ refs[item[j].val] = 1
      BY DEF Val
    <2>2. {i \in {id} : item[i].val = item[j].val} = {id}
      BY <2>1
    <2>. QED
      BY <2>1, <2>2, FS_Singleton
  <1>. QED
    BY <1>1, <1>2, <1>3

\* What a thread has secured is not the store's alone, and not kept by keys alone.
LEMMA SecuredTwice ==
    ASSUME IInv, NEW u \in Threads, NEW id, Secured(u, id)
    PROVE  refs[item[id].val] # 1 /\ ~NeedsReap(item[id].key)
  <1>i. Typed /\ ItemsGood /\ Counted
    BY DEF IInv
  <1>0. PICK v, k : v = item[id].val /\ k = item[id].key
    OBVIOUS
  <1>1. id \in Ids /\ item[id].live /\ item[id].held
    BY DEF Secured
  <1>2. v \in Vals /\ k \in Keys
    BY <1>i, <1>0, <1>1, Kinds DEF ItemsGood, KeyExists, Val
  <1>3. \E q \in Slots : hold[u][q] = v
    BY <1>0 DEF Secured, Slots, Val
  <1>4. refs[v] # 1
    <2>1. PICK q \in Slots : hold[u][q] = v
      BY <1>3
    <2>2. <<u, q>> \in Owners(v) /\ <<id, "val">> \in Owners(v)
      BY <1>0, <1>1, <2>1, PointerIs DEF Owners
    <2>3. <<u, q>> # <<id, "val">>
      BY DEF Slots
    <2>4. {<<u, q>>, <<id, "val">>} \subseteq Owners(v) /\ IsFiniteSet(Owners(v))
      BY <2>2, OwnersFinite
    <2>5. Cardinality({<<u, q>>, <<id, "val">>}) = 2
      <3>1. Cardinality({<<u, q>>}) = 1 /\ IsFiniteSet({<<u, q>>})
        BY FS_Singleton
      <3>2. Cardinality({<<u, q>>} \cup {<<id, "val">>}) = 1 + 1
        BY <2>3, <3>1, FS_AddElement
      <3>3. {<<u, q>>} \cup {<<id, "val">>} = {<<u, q>>, <<id, "val">>}
        OBVIOUS
      <3>. QED
        BY <3>2, <3>3
    <2>6. Cardinality(Owners(v)) \in Nat /\ 2 <= Cardinality(Owners(v))
      BY <2>4, <2>5, OwnersFinite, FS_Subset
    <2>7. refs[v] \in Nat /\ refs[v] >= Cardinality(Owners(v))
      BY <1>i, <1>2 DEF Typed, Counted
    <2>. QED
      BY <2>6, <2>7
  <1>5. ~NeedsReap(k)
    <2>1. SUFFICES ASSUME NeedsReap(k) PROVE FALSE
      OBVIOUS
    <2>2. PICK im : im = ImageOf(k)
      OBVIOUS
    <2>3. im # Null /\ keyRefs[im] = refs[im]
      BY <2>1, <2>2 DEF NeedsReap
    <2>4. k \in TileKeys /\ im \in Vals
      BY <1>2, <2>2, <2>3, Kinds
    <2>5. hold[u]["img"] = im
      BY <1>0, <2>2, <2>4, Kinds DEF Secured
    <2>6. <<u, "img">> \in Owners(im) \ KeyOwners(im)
      <3>1. "img" \in Slots /\ "img" # "key"
        BY DEF Slots
      <3>. QED
        BY <2>5, <3>1, PointerIs DEF Owners, KeyOwners
    <2>7. Cardinality(KeyOwners(im)) < Cardinality(Owners(im))
      <3>1. /\ IsFiniteSet(Owners(im)) /\ KeyOwners(im) \in SUBSET Owners(im)
            /\ KeyOwners(im) # Owners(im)
        BY <2>6, OwnersFinite
      <3>2. /\ Cardinality(KeyOwners(im)) <= Cardinality(Owners(im))
            /\ Cardinality(KeyOwners(im)) # Cardinality(Owners(im))
        BY <3>1, FS_Subset
      <3>. QED
        BY <3>2, OwnersFinite
    <2>8. /\ refs[im] \in Nat /\ keyRefs[im] \in Int
          /\ refs[im] >= Cardinality(Owners(im)) /\ keyRefs[im] <= Cardinality(KeyOwners(im))
      BY <1>i, <2>4 DEF Typed, Counted
    <2>. QED
      BY <2>3, <2>7, <2>8, OwnersFinite
  <1>. QED
    BY <1>0, <1>4, <1>5

\* Items of the list leave it, and what Chain says is left to be done, and b.
LEMMA EvictListed ==
    ASSUME IInv, NEW t \in Threads, NEW S \in SUBSET Listed, lru' = Without(S),
           hash' = Unhash(S), Disown(S), hold' = hold,
           agenda[t] = <<>> \/ Head(agenda[t])[1] \notin Owning,
           \A j \in S, u \in Threads : Secured(u, j) =>
               u = t /\ (agenda[t] = <<>> \/ Head(agenda[t])[1] \in Changing),
           NEW q \in Seq(Ids), IsInjective(q), ToSet(q) = S, NEW D \in SUBSET S,
           \A i, j \in D : item[i].val = item[j].val => i = j,
           \A j \in D : refs[item[j].val] = Cardinality({i \in S : item[i].val = item[j].val}),
           NEW b, Sequence(b), Len(b) <= 1,
           Go(t, (IF S = {} THEN <<>> ELSE << <<"chain", q, D>> >>) \o b),
           \A e \in ToSet(b) : \/ e[1] = "scav"
                               \/ /\ e[1] = "empty" /\ Threads = {Doc}
                                  /\ agenda[t] # <<>> /\ Head(agenda[t])[1] = "empty"
    PROVE  IInv' /\ Protocol
  <1>1. S \in SUBSET Ids /\ \A j \in S : item[j].live /\ item[j].held
    BY ListedIs
  <1>2. lru' \in Seq(Ids) /\ IsInjective(lru') /\ Listed' = Listed \ S
    BY UnlinkedIs
  <1>3. HeadClaims(t) = {}
    BY PlainClaims DEF HeadClaims
  <1>4. PICK a : a = (IF S = {} THEN <<>> ELSE << <<"chain", q, D>> >>)
    OBVIOUS
  <1>5. Go(t, a \o b)
    BY <1>4
  <1>6. \A j \in S, u \in Threads : Secured(u, j) =>
            \/ Out(j) /\ <<"item", j>> \in HeadClaims(t)
            \/ u = t /\ (agenda[t] = <<>> \/ Head(agenda[t])[1] \in Changing)
    OBVIOUS
  <1>7. \/ HeadClaims(t) = {} /\ S \subseteq Listed
        \/ HeadClaims(t) = {<<"item", j>> : j \in S} /\ \A j \in S : Out(j)
    BY <1>3
  <1>. QED
    BY <1>1, <1>2, <1>4, <1>5, <1>6, <1>7, EvictStep

\* The same, with the list's order and nothing more to do.
LEMMA EvictChain ==
    ASSUME IInv, NEW t \in Threads, NEW S \in SUBSET Listed, lru' = Without(S),
           hash' = Unhash(S), Disown(S), hold' = hold,
           agenda[t] = <<>> \/ Head(agenda[t])[1] \notin Owning,
           \A j \in S, u \in Threads : Secured(u, j) =>
               u = t /\ (agenda[t] = <<>> \/ Head(agenda[t])[1] \in Changing),
           NEW b, Sequence(b), Len(b) <= 1, Go(t, Chain(S) \o b),
           \A e \in ToSet(b) : \/ e[1] = "scav"
                               \/ /\ e[1] = "empty" /\ Threads = {Doc}
                                  /\ agenda[t] # <<>> /\ Head(agenda[t])[1] = "empty"
    PROVE  IInv' /\ Protocol
  <1>1. PICK q, D : q = InOrder(S) /\ D = Destroyers(S)
    OBVIOUS
  <1>2. q \in Seq(Ids) /\ IsInjective(q) /\ ToSet(q) = S
    <2>1. lru \in Seq(Ids) /\ IsInjective(lru) /\ Listed \cap S = S
      BY DEF IInv, Typed, ListGood
    <2>. QED
      BY <1>1, <2>1, InOrderIs
  <1>3. D \in SUBSET S /\ \A i, j \in D : item[i].val = item[j].val => i = j
    BY <1>1, DestroyersIs
  <1>4. \A j \in D : refs[item[j].val] = Cardinality({i \in S : item[i].val = item[j].val})
    BY <1>1, DestroyersIs
  <1>5. Go(t, (IF S = {} THEN <<>> ELSE << <<"chain", q, D>> >>) \o b)
    BY <1>1 DEF Chain
  <1>. QED
    BY <1>2, <1>3, <1>4, <1>5, EvictListed

LEMMA GoNothingMore ==
    ASSUME NEW t, NEW S, Go(t, Chain(S))
    PROVE  Go(t, Chain(S) \o <<>>)
  <1>1. Sequence(Chain(S))
    BY Literals DEF Chain
  <1>2. Chain(S) \o <<>> = Chain(S)
    BY <1>1 DEF Sequence
  <1>. QED
    BY <1>2

LEMMA ReapStep ==
    ASSUME IInv, NEW t \in Threads, Reap(t)
    PROVE  IInv' /\ Protocol
  <1>1. PICK S : S = {id \in Listed : NeedsReap(item[id].key)}
    OBVIOUS
  <1>2. /\ agenda[t] # <<>> /\ Head(agenda[t])[1] = "reap" /\ Go(t, Chain(S))
        /\ lru' = Without(S) /\ hash' = Unhash(S) /\ Disown(S) /\ hold' = hold
    BY <1>1 DEF Reap, At, Unlink
  <1>3. S \in SUBSET Listed /\ \A j \in S, u \in Threads : ~Secured(u, j)
    BY <1>1, SecuredTwice
  <1>4. "reap" \notin Owning
    BY DEF Owning, Storings
  <1>5. PICK b : b = <<>>
    OBVIOUS
  <1>6. Sequence(b) /\ Len(b) <= 1 /\ ToSet(b) = {} /\ Go(t, Chain(S) \o b)
    <2>1. Sequence(b) /\ ToSet(b) = {}
      BY <1>5, Literals
    <2>2. Len(b) <= 1
      BY <1>5
    <2>. QED
      BY <1>2, <1>5, <2>1, <2>2, GoNothingMore
  <1>. QED
    BY <1>2, <1>3, <1>4, <1>6, EvictChain

LEMMA FilterStep ==
    ASSUME IInv, NEW t \in Threads, Filter(t)
    PROVE  IInv' /\ Protocol
  <1>i. Typed /\ AgendaSound
    BY DEF IInv
  <1>1. PICK K, S : K = Head(agenda[t])[2] /\ S = {id \in Listed : item[id].key \in K}
    OBVIOUS
  <1>2. /\ agenda[t] # <<>> /\ Head(agenda[t])[1] = "filter" /\ Go(t, Chain(S))
        /\ lru' = Without(S) /\ hash' = Unhash(S) /\ Disown(S) /\ hold' = hold
    BY <1>1 DEF Filter, At, Arg, Unlink
  <1>3. t = Doc /\ K \subseteq ObjKeys
    BY <1>i, <1>1, <1>2, HeadIs DEF Sound
  <1>4. "filter" \in Changing \ Owning
    BY DEF Changing, Owning, Storings
  <1>5. S \in SUBSET Listed
    BY <1>1
  <1>6. ASSUME NEW j \in S, NEW u \in Threads, Secured(u, j) PROVE u = t
    BY <1>1, <1>3, <1>6, Kinds DEF Secured
  <1>7. PICK b : b = <<>>
    OBVIOUS
  <1>8. Sequence(b) /\ Len(b) <= 1 /\ ToSet(b) = {} /\ Go(t, Chain(S) \o b)
    <2>1. Sequence(b) /\ ToSet(b) = {}
      BY <1>7, Literals
    <2>2. Len(b) <= 1
      BY <1>7
    <2>. QED
      BY <1>2, <1>7, <2>1, <2>2, GoNothingMore
  <1>. QED
    BY <1>2, <1>4, <1>5, <1>6, <1>8, EvictChain

LEMMA EvictHeadStep ==
    ASSUME IInv, NEW t \in Threads, EvictHead(t)
    PROVE  IInv' /\ Protocol
  <1>i. Typed /\ AgendaSound
    BY DEF IInv
  <1>1. agenda[t] # <<>> /\ Head(agenda[t])[1] = "empty" /\ hold' = hold
    BY DEF EvictHead, At
  <1>2. Threads = {Doc}
    BY <1>i, <1>1, HeadIs DEF Sound
  <1>3. "empty" \in Changing \ Owning
    BY DEF Changing, Owning, Storings
  <1>4. CASE lru = <<>>
    <2>1. Go(t, <<>>) /\ Still
      BY <1>1, <1>4 DEF EvictHead, Still, valVars
    <2>. QED
      BY <1>1, <1>3, <2>1, QuietNone
  <1>5. CASE lru # <<>>
    <2>1. PICK S : S = {Head(lru)}
      OBVIOUS
    <2>2. PICK b : b = << <<"empty">> >>
      OBVIOUS
    <2>3. /\ lru' = Without(S) /\ hash' = Unhash(S) /\ Disown(S) /\ Go(t, Chain(S) \o b)
      BY <1>5, <2>1, <2>2 DEF EvictHead, Unlink
    <2>4. S \in SUBSET Listed
      <3>1. lru \in Seq(Ids)
        BY <1>i DEF Typed
      <3>2. 1 \in DOMAIN lru /\ Head(lru) = lru[1]
        BY <1>5, <3>1
      <3>. QED
        BY <2>1, <3>2 DEF Listed, ToSet
    <2>5. Sequence(b) /\ ToSet(b) = {<<"empty">>}
      BY <2>2, Literals
    <2>6. Len(b) <= 1
      BY <2>2
    <2>7. \A e \in ToSet(b) : e[1] = "empty"
      BY <2>5
    <2>8. \A u \in Threads : u = t
      BY <1>2
    <2>. QED
      BY <1>1, <1>2, <1>3, <2>3, <2>4, <2>5, <2>6, <2>7, <2>8, EvictChain
  <1>. QED
    BY <1>4, <1>5

\* fz_remove_item: the item is not one that another thread is storing.
LEMMA RemoveItemStep ==
    ASSUME IInv, NEW o \in Objs, RemoveItem(o)
    PROVE  IInv' /\ Protocol
  <1>i. Typed /\ AgendaSound
    BY DEF IInv
  <1>0. PICK t : t = Doc
    OBVIOUS
  <1>1. PICK id, D : /\ id = Lookup(<<Null, o>>)
                     /\ D = (IF refs[Val(id)] = 1 THEN {id} ELSE {})
    OBVIOUS
  <1>2. /\ t \in Threads /\ agenda[t] = <<>> /\ id # Null /\ lru' = Without({id})
        /\ hash' = Unhash({id}) /\ Disown({id}) /\ hold' = hold
        /\ Go(t, << <<"chain", <<id>>, D>> >>)
    BY <1>0, <1>1, Kinds DEF RemoveItem, Idle
  <1>3. /\ id \in Ids /\ item[id].key = <<Null, o>> /\ <<Null, o>> \in ObjKeys
        /\ id \in Listed \cup InWindow
    <2>1. <<Null, o>> \in ObjKeys /\ <<Null, o>> \in Keys
      BY DEF ObjKeys, Keys
    <2>. QED
      BY <1>1, <1>2, <2>1, LookupIs
  <1>4. \A u \in Threads : Secured(u, id) => u = t
    BY <1>0, <1>3, Kinds DEF Secured
  <1>5. id \in Listed
    <2>1. ASSUME id \in InWindow PROVE FALSE
      <3>1. PICK u \in Threads : id \in Storing(u)
        BY <2>1 DEF InWindow
      <3>2. PICK e \in Entries(u) : e[1] \in {"room", "again", "finish"} /\ e[2] = id
        BY <3>1 DEF Storing
      <3>3. Sound(u, e) /\ agenda[u] # <<>>
        <4>1. PICK i \in DOMAIN agenda[u] : e = agenda[u][i]
          BY <3>2 DEF Entries
        <4>2. agenda[u] # <<>>
          BY <4>1
        <4>. QED
          BY <1>i, <4>1, <4>2 DEF AgendaSound
      <3>4. Secured(u, id)
        BY <3>2, <3>3 DEF Sound
      <3>. QED
        BY <1>2, <1>4, <3>3, <3>4
    <2>. QED
      BY <1>3, <2>1
  <1>6. PICK q : q = <<id>>
    OBVIOUS
  <1>7. /\ q \in Seq(Ids) /\ IsInjective(q) /\ ToSet(q) = {id} /\ D \in SUBSET {id}
        /\ \A i, j \in D : item[i].val = item[j].val => i = j
    BY <1>1, <1>3, <1>6, OneIs
  <1>8. \A j \in D : refs[item[j].val] = Cardinality({i \in {id} : item[i].val = item[j].val})
    BY <1>1, <1>3, OneIs
  <1>9. PICK S : S = {id}
    OBVIOUS
  <1>10. S \in SUBSET Listed /\ S # {}
    BY <1>5, <1>9
  <1>11. PICK b : b = <<>>
    OBVIOUS
  <1>12. Sequence(b) /\ Len(b) <= 1 /\ ToSet(b) = {}
    <2>1. Sequence(b) /\ ToSet(b) = {}
      BY <1>11, Literals
    <2>2. Len(b) <= 1
      BY <1>11
    <2>. QED
      BY <2>1, <2>2
  <1>13. Go(t, (IF S = {} THEN <<>> ELSE << <<"chain", q, D>> >>) \o b)
    <2>. DEFINE c == << <<"chain", q, D>> >>
    <2>1. Go(t, c)
      BY <1>2, <1>6
    <2>2. Sequence(c)
      BY Literals
    <2>. HIDE DEF c
    <2>3. c \o b = c
      BY <1>11, <2>2 DEF Sequence
    <2>4. (IF S = {} THEN <<>> ELSE c) \o b = c
      BY <1>10, <2>3
    <2>5. Go(t, (IF S = {} THEN <<>> ELSE c) \o b)
      BY <2>1, <2>4
    <2>. QED
      BY <2>5 DEF c
  <1>14. /\ ToSet(q) = S /\ D \in SUBSET S
         /\ \A j \in D : refs[item[j].val] = Cardinality({i \in S : item[i].val = item[j].val})
         /\ lru' = Without(S) /\ hash' = Unhash(S) /\ Disown(S)
    BY <1>2, <1>7, <1>8, <1>9
  <1>15. \A j \in S, u \in Threads : Secured(u, j) => u = t
    BY <1>4, <1>9
  <1>16. IInv' /\ Protocol
    BY <1>2, <1>7, <1>10, <1>12, <1>13, <1>14, <1>15, EvictListed
  <1>. QED
    BY <1>16

-----------------------------------------------------------------------------
\* scavenge takes an item that only the store refers to.
LEMMA LargestIs ==
    ASSUME IInv, NEW S \in SUBSET Listed, S # {}
    PROVE  Largest(S) \in S
  <1>. DEFINE J == {j \in DOMAIN lru : lru[j] \in S}
              sz(j) == Size(Val(lru[j]))
              F == {SizeMax - sz(j) : j \in J}
  <1>1. lru \in Seq(Ids) /\ Len(lru) \in Nat /\ DOMAIN lru = 1 .. Len(lru)
    BY DEF IInv, Typed
  <1>2. \A j \in J : sz(j) \in Nat /\ sz(j) <= SizeMax /\ SizeMax \in Nat
    <2>1. ASSUME NEW j \in J PROVE sz(j) \in 1 .. SizeMax
      <3>1. item[lru[j]].val \in Images \cup Tiles
        BY ListedIs, Kinds
      <3>. QED
        BY <3>1, StoreAssumption DEF Val
    <2>. QED
      BY <2>1, StoreAssumption
  <1>3. J # {} /\ J \subseteq 1 .. Len(lru)
    <2>1. PICK id : id \in S
      OBVIOUS
    <2>2. id \in Listed
      BY <2>1
    <2>. QED
      BY <1>1, <2>1, <2>2 DEF Listed, ToSet
  <1>. HIDE DEF sz, J
  <1>4. F \in SUBSET Nat /\ F # {}
    <2>1. \A j \in J : SizeMax - sz(j) \in Nat
      BY <1>2
    <2>2. PICK j \in J : TRUE
      BY <1>3
    <2>3. SizeMax - sz(j) \in F
      OBVIOUS
    <2>. QED
      BY <2>1, <2>3
  <1>5. Min(F) \in F /\ \A f \in F : Min(F) <= f
    BY <1>4, Least
  <1>6. PICK i \in J : Min(F) = SizeMax - sz(i)
    BY <1>5
  <1>7. \A j \in J : sz(j) <= sz(i)
    <2>1. ASSUME NEW j \in J PROVE sz(j) <= sz(i)
      <3>1. SizeMax - sz(j) \in F
        OBVIOUS
      <3>2. SizeMax - sz(i) <= SizeMax - sz(j)
        BY <1>5, <1>6, <3>1
      <3>. QED
        BY <1>2, <3>2
    <2>. QED
      BY <2>1
  <1>. DEFINE G == {Len(lru) - j : j \in {j \in J : sz(j) = sz(i)}}
  <1>8. G \in SUBSET Nat /\ G # {}
    BY <1>1, <1>3
  <1>9. Min(G) \in G /\ \A g \in G : Min(G) <= g
    BY <1>8, Least
  <1>10. PICK m \in J : sz(m) = sz(i) /\ Min(G) = Len(lru) - m
    BY <1>9
  <1>11. ASSUME NEW j \in J PROVE sz(j) < sz(m) \/ (sz(j) = sz(m) /\ j <= m)
    <2>1. CASE sz(j) = sz(i)
      <3>1. Len(lru) - j \in G
        BY <2>1
      <3>2. Len(lru) - m <= Len(lru) - j
        BY <1>9, <1>10, <3>1
      <3>3. j \in Int /\ m \in Int
        BY <1>3
      <3>. QED
        BY <1>1, <1>10, <2>1, <3>2, <3>3
    <2>2. CASE sz(j) # sz(i)
      BY <1>2, <1>7, <1>10, <2>2
    <2>. QED
      BY <2>1, <2>2
  <1>12. PICK id : id = lru[m]
    OBVIOUS
  <1>13. id \in S /\ m \in DOMAIN lru
    BY <1>12 DEF J
  <1>14. \A j \in DOMAIN lru : lru[j] \in S =>
            \/ Size(Val(lru[j])) < Size(Val(id))
            \/ Size(Val(lru[j])) = Size(Val(id)) /\ j <= m
    BY <1>11, <1>12 DEF J, sz
  <1>15. \E x \in S : \E k \in DOMAIN lru :
            /\ lru[k] = x
            /\ \A j \in DOMAIN lru : lru[j] \in S =>
                 \/ Size(Val(lru[j])) < Size(Val(x))
                 \/ Size(Val(lru[j])) = Size(Val(x)) /\ j <= k
    BY <1>12, <1>13, <1>14
  <1>. QED
    BY <1>15 DEF Largest

LEMMA UnusedOnly ==
    ASSUME IInv, NEW i
    PROVE  /\ From(i) \subseteq Listed
           /\ \A j \in From(i) : /\ refs[item[j].val] = 1
                                 /\ \A u \in Threads : ~Secured(u, j)
  <1>1. From(i) \subseteq Listed /\ \A j \in From(i) : refs[item[j].val] = 1
    BY DEF From, Evictable, Listed, ToSet, Val
  <1>. QED
    BY <1>1, SecuredTwice

LEMMA ScavengeStep ==
    ASSUME IInv, NEW t \in Threads, Scavenge(t)
    PROVE  IInv' /\ Protocol
  <1>0. PICK need, first, after, T, id :
            /\ need = Arg(t, 2) /\ first = Arg(t, 3) /\ after = Arg(t, 4)
            /\ T = (IF first \/ need > 0 THEN Suffix(need) ELSE {})
            /\ id = Largest(T)
    OBVIOUS
  <1>1. agenda[t] # <<>> /\ Head(agenda[t])[1] = "scav" /\ hold' = hold
    BY DEF Scavenge, At
  <1>2. "scav" \notin Owning
    BY DEF Owning, Storings
  <1>3. T \subseteq Listed /\ \A j \in T : \A u \in Threads : ~Secured(u, j)
    <2>1. \E i : Suffix(need) = From(i)
      BY DEF Suffix
    <2>. QED
      BY <1>0, <2>1, UnusedOnly
  <1>4. CASE T # {}
    <2>1. PICK S, b, e : /\ S = {id} /\ e = <<"scav", need - Size(Val(id)), FALSE, after>>
                         /\ b = <<e>>
      OBVIOUS
    <2>2. /\ lru' = Without(S) /\ hash' = Unhash(S) /\ Disown(S) /\ Go(t, Chain(S) \o b)
      BY <1>0, <1>4, <2>1 DEF Scavenge, Unlink
    <2>3. id \in T
      BY <1>0, <1>3, <1>4, LargestIs
    <2>4. S \in SUBSET Listed /\ \A j \in S, u \in Threads : ~Secured(u, j)
      BY <1>3, <2>1, <2>3
    <2>5. Sequence(b) /\ ToSet(b) = {e} /\ e[1] = "scav"
      BY <2>1, Literals
    <2>6. Len(b) <= 1
      BY <2>1
    <2>7. \A d \in ToSet(b) : d[1] = "scav"
      BY <2>5
    <2>. QED
      BY <1>1, <1>2, <2>2, <2>4, <2>5, <2>6, <2>7, EvictChain
  <1>5. CASE T = {}
    <2>1. Still
      BY <1>0, <1>1, <1>5 DEF Scavenge, Still, valVars
    <2>2. CASE after = <<>>
      <3>1. Go(t, <<>>)
        BY <1>0, <1>5, <2>2 DEF Scavenge
      <3>. QED
        BY <1>1, <1>2, <2>1, <3>1, QuietNone
    <2>3. CASE after # <<>>
      <3>1. Go(t, << <<"malloc", after[1], after[2]>> >>)
        BY <1>0, <1>5, <2>3 DEF Scavenge
      <3>2. PICK e : e = <<"malloc", after[1], after[2]>>
        OBVIOUS
      <3>3. Go(t, <<e>>) /\ e[1] = "malloc"
        BY <3>1, <3>2
      <3>. QED
        BY <1>1, <1>2, <2>1, <3>3, QuietFree
    <2>. QED
      BY <2>2, <2>3
  <1>. QED
    BY <1>4, <1>5

\* One of the items ensure_space took out.
LEMMA FreeVictimStep ==
    ASSUME IInv, NEW t \in Threads, FreeVictim(t)
    PROVE  IInv' /\ Protocol
  <1>i. Typed /\ AgendaSound /\ ListGood
    BY DEF IInv
  <1>1. PICK id, D : /\ id = Head(agenda[t])[2]
                     /\ D = (IF refs[Val(id)] = 1 THEN {id} ELSE {})
    OBVIOUS
  <1>2. /\ agenda[t] # <<>> /\ Head(agenda[t])[1] = "unref" /\ Disown({id})
        /\ lru' = lru /\ hash' = hash /\ hold' = hold
        /\ Go(t, << <<"chain", <<id>>, D>> >>)
    BY <1>1 DEF FreeVictim, At, Arg, storeVars
  <1>3. /\ id \in Ids /\ item[id].live /\ item[id].held /\ Out(id)
        /\ HeadClaims(t) = {<<"item", id>>}
    <2>1. Sound(t, Head(agenda[t])) /\ HeadClaims(t) = Claim(item, Head(agenda[t]))
      BY <1>i, <1>2, HeadIs
    <2>. QED
      BY <1>1, <1>2, <2>1 DEF Sound, Claim
  <1>4. PICK q, S, b, a : q = <<id>> /\ S = {id} /\ b = <<>> /\ a = << <<"chain", q, D>> >>
    OBVIOUS
  <1>5. /\ q \in Seq(Ids) /\ IsInjective(q) /\ ToSet(q) = {id} /\ D \in SUBSET {id}
        /\ \A i, j \in D : item[i].val = item[j].val => i = j
    BY <1>1, <1>3, <1>4, OneIs
  <1>6. \A j \in D : refs[item[j].val] = Cardinality({i \in {id} : item[i].val = item[j].val})
    BY <1>1, <1>3, OneIs
  <1>7. /\ ToSet(q) = S /\ D \in SUBSET S /\ Disown(S) /\ S \in SUBSET Ids
        /\ \A j \in D : refs[item[j].val] = Cardinality({i \in S : item[i].val = item[j].val})
    BY <1>2, <1>3, <1>4, <1>5, <1>6
  <1>8. /\ lru' \in Seq(Ids) /\ IsInjective(lru') /\ Listed' = Listed \ S
    <2>1. id \notin Listed
      BY <1>3 DEF Out
    <2>2. Listed' = Listed
      BY <1>2 DEF Listed
    <2>. QED
      BY <1>i, <1>2, <1>4, <2>1, <2>2 DEF Typed, ListGood
  <1>9. hash' = Unhash(S)
    <2>1. hash \in [Hashed -> Ids \cup {Null}]
      BY <1>i DEF Typed
    <2>2. \A k \in Hashed : hash[k] \notin S
      BY <1>3, <1>4 DEF Out
    <2>. QED
      BY <1>2, <2>1, <2>2 DEF Unhash
  <1>10. \A j \in S : Out(j) /\ <<"item", j>> \in HeadClaims(t) /\ item[j].live /\ item[j].held
    BY <1>3, <1>4
  <1>11. Sequence(b) /\ Len(b) <= 1 /\ ToSet(b) = {}
    <2>1. Sequence(b) /\ ToSet(b) = {}
      BY <1>4, Literals
    <2>2. Len(b) <= 1
      BY <1>4
    <2>. QED
      BY <2>1, <2>2
  <1>12. a = (IF S = {} THEN <<>> ELSE << <<"chain", q, D>> >>)
    BY <1>4
  <1>13. Go(t, a \o b)
    <2>1. Go(t, a)
      BY <1>2, <1>4
    <2>2. Sequence(a)
      BY <1>4, Literals
    <2>3. a \o b = a
      BY <1>4, <2>2 DEF Sequence
    <2>. QED
      BY <2>1, <2>3
  <1>14. HeadClaims(t) = {<<"item", j>> : j \in S}
    BY <1>3, <1>4
  <1>15. IInv' /\ Protocol
    BY <1>2, <1>5, <1>7, <1>8, <1>9, <1>10, <1>11, <1>12, <1>13, <1>14, EvictStep
  <1>. QED
    BY <1>15

-----------------------------------------------------------------------------
\* The item a thread is about to link.
LEMMA StoringIs ==
    ASSUME IInv, NEW t \in Threads, agenda[t] # <<>>, Head(agenda[t])[1] \in Storings,
           NEW id, id = Head(agenda[t])[2]
    PROVE  Secured(t, id) /\ HeadClaims(t) = {<<"item", id>>}
  <1>1. Typed /\ AgendaSound
    BY DEF IInv
  <1>2. Sound(t, Head(agenda[t])) /\ HeadClaims(t) = Claim(item, Head(agenda[t]))
    BY <1>1, HeadIs
  <1>. QED
    BY <1>2 DEF Sound, Claim, Storings

\* It goes on with the same item.
LEMMA StoringGoesOn ==
    ASSUME IInv, NEW t \in Threads, agenda[t] # <<>>, Head(agenda[t])[1] \in Storings,
           NEW id, id = Head(agenda[t])[2], Still,
           \/ Go(t, << <<"finish", id>> >>)
           \/ Go(t, << <<"reap">>, <<"again", id>> >>)
    PROVE  IInv' /\ Protocol
  <1>1. Secured(t, id) /\ HeadClaims(t) = {<<"item", id>>}
    BY StoringIs
  <1>2. CASE Go(t, << <<"finish", id>> >>)
    <2>1. PICK e, s : e = <<"finish", id>> /\ s = <<e>>
      OBVIOUS
    <2>2. e[1] = "finish" /\ e[2] = id
      BY <2>1
    <2>3. Sound(t, e) /\ Claim(item, e) = {<<"item", id>>}
      BY <1>1, <2>2 DEF Sound, Claim
    <2>4. Sequence(s) /\ ToSet(s) = {e} /\ Ordered(s)
      <3>1. e[1] # "store"
        BY <2>2
      <3>. QED
        BY <2>1, <3>1, Literals, OrderedLiterals
    <2>5. Distinct(item, s) /\ Claims(item, s) = Claim(item, e)
      BY <2>1, ClaimLiterals
    <2>6. Go(t, s)
      BY <1>2, <2>1
    <2>7. e[1] \in Storings /\ e[1] \notin Changing
      BY <2>2 DEF Storings, Changing
    <2>8. /\ \A d \in ToSet(s) : d[1] \notin Changing /\ Sound(t, d)
          /\ \E d \in ToSet(s) : d[1] \in Storings /\ d[2] = Head(agenda[t])[2]
          /\ Claims(item, s) = HeadClaims(t)
      BY <1>1, <2>2, <2>3, <2>4, <2>5, <2>7
    <2>. QED
      BY <2>4, <2>5, <2>6, <2>8, Quiet DEF Still
  <1>3. CASE Go(t, << <<"reap">>, <<"again", id>> >>)
    <2>1. PICK d, e, s : d = <<"reap">> /\ e = <<"again", id>> /\ s = <<d, e>>
      OBVIOUS
    <2>2. d[1] = "reap" /\ e[1] = "again" /\ e[2] = id
      BY <2>1
    <2>3. Sound(t, e) /\ Claim(item, e) = {<<"item", id>>}
      BY <1>1, <2>2 DEF Sound, Claim
    <2>4. Sound(t, d) /\ Claim(item, d) = {}
      BY <2>2 DEF Sound, Claim
    <2>5. Sequence(s) /\ ToSet(s) = {d, e}
      BY <2>1, Literals
    <2>6. Ordered(s)
      <3>1. d[1] # "store" /\ d[1] \notin Changing /\ e[1] \in Later
        BY <2>2 DEF Changing, Later, Relying
      <3>. QED
        BY <2>1, <3>1, OrderedLiterals
    <2>7. Claims(item, s) = Claim(item, d) \cup Claim(item, e) /\ Distinct(item, s)
      <3>1. Claim(item, d) \cap Claim(item, e) = {}
        BY <2>4
      <3>. QED
        BY <2>1, <3>1, ClaimLiterals
    <2>8. Go(t, s)
      BY <1>3, <2>1
    <2>9. e[1] \in Storings /\ e[1] \notin Changing /\ d[1] \notin Changing
      BY <2>2 DEF Storings, Changing
    <2>10. /\ \A c \in ToSet(s) : c[1] \notin Changing /\ Sound(t, c)
           /\ \E c \in ToSet(s) : c[1] \in Storings /\ c[2] = Head(agenda[t])[2]
           /\ Claims(item, s) = HeadClaims(t)
      BY <1>1, <2>2, <2>3, <2>4, <2>5, <2>7, <2>9
    <2>. QED
      BY <2>5, <2>6, <2>7, <2>8, <2>10, Quiet DEF Still
  <1>. QED
    BY <1>2, <1>3

\* What ensure_space leaves to be done: the references of the items of q to go.
LEMMA UnrefsAre ==
    ASSUME NEW q \in Seq(Ids), IsInjective(q), NEW I, NEW r,
           r = [i \in 1 .. Len(q) |-> <<"unref", q[i]>>]
    PROVE  /\ Sequence(r) /\ Ordered(r) /\ Distinct(I, r)
           /\ ToSet(r) = {<<"unref", j>> : j \in ToSet(q)}
           /\ Claims(I, r) = {<<"item", j>> : j \in ToSet(q)}
  <1>1. Len(q) \in Nat /\ DOMAIN q = 1 .. Len(q) /\ DOMAIN r = 1 .. Len(q)
    OBVIOUS
  <1>2. \A i \in 1 .. Len(q) : r[i] = <<"unref", q[i]>>
    OBVIOUS
  <1>3. \A i \in 1 .. Len(q) : r[i][1] = "unref" /\ r[i][2] = q[i]
    BY <1>2
  <1>4. ToSet(r) = {<<"unref", j>> : j \in ToSet(q)}
    BY <1>1, <1>2 DEF ToSet
  <1>5. Sequence(r)
    <2>1. PICK X, n : X = ToSet(r) /\ n = Len(q)
      OBVIOUS
    <2>2. n \in Nat /\ r \in [1 .. n -> X]
      BY <1>1, <2>1 DEF ToSet
    <2>3. r \in Seq(X)
      BY ONLY <2>2
    <2>. QED
      BY <2>1, <2>3 DEF Sequence
  <1>6. Ordered(r)
    <2>1. "unref" \in Later \ Relying /\ "unref" # "store"
      BY DEF Later, Relying
    <2>2. r # <<>> => 1 \in DOMAIN r
      BY <1>5 DEF Sequence
    <2>. QED
      BY <1>1, <1>3, <2>1, <2>2 DEF Ordered
  <1>7. \A i \in 1 .. Len(q) : Claim(I, r[i]) = {<<"item", q[i]>>}
    BY <1>3 DEF Claim
  <1>8. Claims(I, r) = {<<"item", j>> : j \in ToSet(q)}
    <2>1. ASSUME NEW c \in Claims(I, r) PROVE c \in {<<"item", j>> : j \in ToSet(q)}
      <3>1. PICK i \in 1 .. Len(q) : c \in Claim(I, r[i])
        BY <1>1 DEF Claims
      <3>2. c = <<"item", q[i]>> /\ q[i] \in ToSet(q)
        BY <1>1, <1>7, <3>1 DEF ToSet
      <3>. QED
        BY <3>2
    <2>2. \A j \in ToSet(q) : <<"item", j>> \in Claims(I, r)
      BY <1>1, <1>7 DEF Claims, ToSet
    <2>. QED
      BY <2>1, <2>2
  <1>9. Distinct(I, r)
    <2>1. ASSUME NEW i \in DOMAIN r, NEW j \in DOMAIN r, i # j
          PROVE  Claim(I, r[i]) \cap Claim(I, r[j]) = {}
      <3>1. q[i] # q[j]
        BY <1>1, <2>1 DEF IsInjective
      <3>. QED
        BY <1>1, <1>7, <2>1, <3>1
    <2>. QED
      BY <2>1 DEF Distinct
  <1>. QED
    BY <1>4, <1>5, <1>6, <1>8, <1>9

LEMMA EnsureSpaceStep ==
    ASSUME IInv, NEW t \in Threads, agenda[t] # <<>>, Head(agenda[t])[1] \in Storings,
           NEW id, id = Head(agenda[t])[2], EnsureSpace(t, id)
    PROVE  IInv' /\ Protocol
  <1>i. Typed /\ ItemsGood /\ Counted
    BY DEF IInv
  <1>0. PICK S, q, r, e, b, s :
            /\ S = Victims(Excess(id)) /\ q = InOrder(S)
            /\ r = [i \in 1 .. Len(q) |-> <<"unref", q[i]>>]
            /\ e = <<"finish", id>> /\ b = <<e>> /\ s = r \o b
    OBVIOUS
  <1>1. /\ lru' = Without(S) /\ hash' = Unhash(S) /\ item' = item /\ hold' = hold
        /\ refs' = refs /\ keyRefs' = keyRefs /\ mem' = mem /\ Go(t, s)
    BY <1>0 DEF EnsureSpace, Unlink, valVars
  <1>2. Secured(t, id) /\ HeadClaims(t) = {<<"item", id>>}
    BY StoringIs
  <1>3. S \subseteq Listed /\ \A j \in S : \A u \in Threads : ~Secured(u, j)
    <2>1. S = {} \/ \E i : S = From(i)
      BY <1>0 DEF Victims
    <2>. QED
      BY <2>1, UnusedOnly
  <1>4. q \in Seq(Ids) /\ IsInjective(q) /\ ToSet(q) = S
    <2>1. lru \in Seq(Ids) /\ IsInjective(lru) /\ Listed \cap S = S
      BY <1>3 DEF IInv, Typed, ListGood
    <2>. QED
      BY <1>0, <2>1, InOrderIs
  <1>5. /\ S \in SUBSET Ids /\ \A j \in S : item[j].live /\ item[j].held
    BY <1>3, ListedIs
  <1>6. lru' \in Seq(Ids) /\ IsInjective(lru') /\ Listed' = Listed \ S
    BY <1>1, UnlinkedIs
  <1>7. Protocol
    <2>1. \A d \in Handles : Pointer(d)' = Pointer(d)
      BY <1>1 DEF Pointer, KeyExists, Val
    <2>. QED
      BY <1>1, <2>1, StutterStep
  <1>8. Counters' /\ Counted'
    BY <1>i, <1>7, CountedAfter
  <1>9. /\ Sequence(r) /\ Ordered(r) /\ Distinct(item, r)
        /\ ToSet(r) = {<<"unref", j>> : j \in S}
        /\ Claims(item, r) = {<<"item", j>> : j \in S}
    <2>1. PICK I : I = item
      OBVIOUS
    <2>2. r = [i \in 1 .. Len(q) |-> <<"unref", q[i]>>]
      BY <1>0
    <2>3. Sequence(r) /\ Ordered(r) /\ Distinct(I, r)
      BY <1>4, <2>2, UnrefsAre
    <2>4. ToSet(r) = {<<"unref", j>> : j \in ToSet(q)}
      BY <1>4, <2>2, UnrefsAre
    <2>5. Claims(I, r) = {<<"item", j>> : j \in ToSet(q)}
      BY <1>4, <2>2, UnrefsAre
    <2>. QED
      BY <1>4, <2>1, <2>3, <2>4, <2>5
  <1>10. e[1] = "finish" /\ e[2] = id
    BY <1>0
  <1>11. Claim(item, e) = {<<"item", id>>}
    BY <1>10 DEF Claim
  <1>12. /\ Sequence(b) /\ ToSet(b) = {e} /\ Distinct(item, b)
         /\ Claims(item, b) = {<<"item", id>>}
    BY <1>0, <1>11, Literals, ClaimLiterals
  <1>13. Len(b) <= 1
    BY <1>0
  <1>14. id \notin S
    BY <1>2, <1>3
  <1>15. Sequence(s) /\ ToSet(s) = ToSet(r) \cup {e}
    <2>1. \A c, d : Sequence(c) /\ Sequence(d) =>
              Sequence(c \o d) /\ ToSet(c \o d) = ToSet(c) \cup ToSet(d)
      BY ConcatIs
    <2>2. Sequence(r) /\ Sequence(b)
      BY <1>9, <1>12
    <2>3. Sequence(r \o b) /\ ToSet(r \o b) = ToSet(r) \cup ToSet(b)
      BY <2>1, <2>2, Zenon
    <2>4. s = r \o b /\ ToSet(b) = {e}
      BY <1>0, <1>12
    <2>. QED
      BY <2>3, <2>4, Zenon
  <1>16. Ordered(s)
    <2>1. \A d \in ToSet(r) : d[1] = "unref"
      BY <1>9
    <2>2. "unref" \notin Changing /\ "finish" \in Later
      BY DEF Changing, Later, Relying
    <2>3. /\ \A d \in ToSet(r) : d[1] \notin Changing
          /\ \A d \in ToSet(b) : d[1] \in Later
      BY <1>10, <1>12, <2>1, <2>2
    <2>4. Ordered(r \o b)
      BY <1>9, <1>12, <1>13, <2>3, OrderedConcat
    <2>. QED
      BY <1>0, <2>4
  <1>17. /\ Distinct(item, s)
         /\ Claims(item, s) = {<<"item", j>> : j \in S} \cup {<<"item", id>>}
    <2>1. Claims(item, r) \cap Claims(item, b) = {}
      BY <1>9, <1>12, <1>14
    <2>2. Claims(item, r \o b) = Claims(item, r) \cup Claims(item, b) /\ Distinct(item, r \o b)
      BY <1>9, <1>12, <2>1, ClaimsConcat
    <2>. QED
      BY ZenonT(20), <1>0, <1>9, <1>12, <2>2
  <1>18. ASSUME NEW j \in S PROVE Out(j)'
    <2>1. j \notin Listed' /\ j # Null
      BY <1>5, <1>6, Kinds
    <2>2. ASSUME NEW k \in Hashed PROVE hash'[k] # j
      BY <1>1, <2>1 DEF Unhash
    <2>. QED
      BY <2>1, <2>2 DEF Out
  <1>19. ASSUME NEW d \in ToSet(s) PROVE Sound(t, d)' /\ d[1] \notin Changing
    <2>1. CASE d = e
      <3>1. item[id].key \in Hashed => hash'[item[id].key] = id
        BY <1>1, <1>2, <1>14 DEF Secured, Unhash
      <3>2. Secured(t, id)'
        BY <1>1, <1>2, <3>1 DEF Secured, Val
      <3>3. "finish" \notin Changing
        BY DEF Changing
      <3>. QED
        BY <1>10, <2>1, <3>2, <3>3 DEF Sound
    <2>2. CASE d \in ToSet(r)
      <3>1. PICK j \in S : d = <<"unref", j>>
        BY <1>9, <2>2
      <3>2. d[1] = "unref" /\ d[2] = j /\ j \in Ids
        BY <1>5, <3>1
      <3>3. item'[j].live /\ item'[j].held /\ Out(j)'
        BY <1>1, <1>5, <1>18
      <3>4. "unref" \notin Changing
        BY DEF Changing
      <3>. QED
        BY <3>2, <3>3, <3>4 DEF Sound
    <2>. QED
      BY <1>15, <2>1, <2>2
  <1>20. \A j \in Ids : <<"item", j>> \in HeadClaims(t) =>
            \E d \in ToSet(s) : d[1] \in Storings /\ d[2] = j
    <2>1. e \in ToSet(s) /\ e[1] \in Storings
      BY <1>10, <1>15 DEF Storings
    <2>. QED
      BY <1>2, <1>10, <2>1
  <1>21. /\ item' \in [Ids -> ItemType] /\ \A j \in Ids \ S : item'[j] = item[j]
         /\ \A j \in S : /\ item[j].live /\ item'[j].live /\ item'[j].mine = item[j].mine
                         /\ item'[j].key = item[j].key /\ item'[j].val = item[j].val
    BY <1>i, <1>1, <1>5 DEF Typed
  <1>22. /\ Distinct(item', s)
         /\ Claims(item', s) = {<<"item", j>> : j \in S} \cup {<<"item", id>>}
    BY <1>1, <1>17
  <1>23. \A j \in Ids : j \in S \/ <<"item", j>> \in HeadClaims(t) =>
            <<"item", j>> \in Claims(item', s)
    BY <1>2, <1>22
  <1>24. \A c \in Claims(item', s) : c \in HeadClaims(t) \/ \E j \in S : c = <<"item", j>>
    BY <1>2, <1>22
  <1>25. \A j : <<"key", j>> \notin HeadClaims(t)
    BY <1>2
  <1>26. IInv'
    BY <1>1, <1>3, <1>5, <1>6, <1>8, <1>15, <1>16, <1>19, <1>20, <1>21, <1>22, <1>23,
       <1>24, <1>25, TakeStep
  <1>. QED
    BY <1>7, <1>26

LEMMA RoomStep ==
    ASSUME IInv, NEW t \in Threads, Room(t)
    PROVE  IInv' /\ Protocol
  <1>1. PICK id : id = Head(agenda[t])[2]
    OBVIOUS
  <1>2. agenda[t] # <<>> /\ Head(agenda[t])[1] \in Storings
    BY DEF Room, At, Storings
  <1>3. CASE EnsureSpace(t, id)
    BY <1>1, <1>2, <1>3, EnsureSpaceStep
  <1>4. CASE /\ Still
             /\ \/ Go(t, << <<"finish", id>> >>)
                \/ Go(t, << <<"reap">>, <<"again", id>> >>)
    BY <1>1, <1>2, <1>4, StoringGoesOn
  <1>. QED
    BY <1>1, <1>3, <1>4 DEF Room, Arg, Still, storeVars, valVars

LEMMA RoomAgainStep ==
    ASSUME IInv, NEW t \in Threads, RoomAgain(t)
    PROVE  IInv' /\ Protocol
  <1>1. PICK id : id = Head(agenda[t])[2]
    OBVIOUS
  <1>2. agenda[t] # <<>> /\ Head(agenda[t])[1] \in Storings
    BY DEF RoomAgain, At, Storings
  <1>3. CASE EnsureSpace(t, id)
    BY <1>1, <1>2, <1>3, EnsureSpaceStep
  <1>4. CASE Still /\ Go(t, << <<"finish", id>> >>)
    BY <1>1, <1>2, <1>4, StoringGoesOn
  <1>. QED
    BY <1>1, <1>3, <1>4 DEF RoomAgain, Arg, Still, storeVars, valVars

\* The item is in the list, where a search may have put it before.
LEMMA FinishStep ==
    ASSUME IInv, NEW t \in Threads, Finish(t)
    PROVE  IInv' /\ Protocol
  <1>i. /\ Typed /\ SlotsGood /\ ItemsGood /\ ListGood /\ HashGood
        /\ AgendaSound /\ Claimed /\ NothingLost /\ Counted
    BY DEF IInv
  <1>1. PICK id : id = Head(agenda[t])[2]
    OBVIOUS
  <1>2. /\ agenda[t] # <<>> /\ Head(agenda[t])[1] = "finish" /\ Go(t, <<>>)
        /\ lru' = Touch(id) /\ hash' = hash /\ item' = item /\ hold' = hold
        /\ refs' = refs /\ keyRefs' = keyRefs /\ mem' = mem
    BY <1>1 DEF Finish, At, Arg, valVars
  <1>3. Secured(t, id) /\ HeadClaims(t) = {<<"item", id>>}
    BY <1>1, <1>2, StoringIs DEF Storings
  <1>4. /\ id \in Ids /\ item[id].live /\ item[id].held
        /\ item[id].key \in Hashed => hash[item[id].key] = id
    BY <1>3 DEF Secured
  <1>5. Protocol
    <2>1. \A d \in Handles : Pointer(d)' = Pointer(d)
      BY <1>2 DEF Pointer, KeyExists, Val
    <2>. QED
      BY <1>2, <2>1, StutterStep
  <1>6. Counters' /\ Counted'
    BY <1>i, <1>5, CountedAfter
  <1>7. lru' \in Seq(Ids) /\ IsInjective(lru') /\ Listed' = Listed \cup {id}
    <2>1. lru \in Seq(Ids) /\ IsInjective(lru)
      BY <1>i DEF Typed, ListGood
    <2>2. lru' \in Seq(Ids) /\ IsInjective(lru') /\ ToSet(lru') = Listed \cup {id}
      BY <1>2, <1>4, <2>1, TouchIs
    <2>. QED
      BY <2>2 DEF Listed
  <1>8. ListGood'
    BY <1>i, <1>2, <1>4, <1>7 DEF ListGood
  <1>9. Found(t, <<>>)
    <2>1. ASSUME NEW k \in Hashed, NEW j, hash[k] = j, j # Null
          PROVE  /\ item[j].live /\ item[j].held /\ item[j].key = k
                 /\ j \in Listed' \/ (j \in InWindow /\ <<"item", j>> \notin HeadClaims(t))
      <3>1. item[j].live /\ item[j].held /\ item[j].key = k /\ j \in Listed \cup InWindow
        BY <1>i, <2>1 DEF HashGood
      <3>. QED
        BY <1>3, <1>7, <3>1
    <2>. QED
      BY <1>2, <2>1 DEF Found
  <1>10. Spared(t)
    <2>1. \A j \in Ids : SameItem(j)
      BY <1>2 DEF SameItem
    <2>2. \A j \in Ids : Out(j) /\ <<"item", j>> \notin HeadClaims(t) => Out(j)'
      BY <1>2, <1>3, <1>7 DEF Out
    <2>3. \A u \in Threads, j \in Ids :
              Secured(u, j) /\ item[j].key \in Hashed => hash'[item[j].key] = j
      BY <1>2 DEF Secured
    <2>4. \A k \in ObjKeys : Unused(k) => Unused(k)'
      BY <1>2 DEF Unused
    <2>. QED
      BY <1>2, <2>1, <2>2, <2>3, <2>4 DEF Spared
  <1>11. Passed(t, <<>>)
    <2>1. Claims(item', <<>>) = {} /\ Distinct(item', <<>>)
      BY DEF Claims, Distinct
    <2>2. ASSUME NEW j \in Ids, item'[j].live
          PROVE  \/ j \in Listed'
                 \/ /\ item[j].live /\ (j \in Listed => j \in Listed')
                    /\ <<"item", j>> \notin HeadClaims(t)
      BY <1>2, <1>3, <1>7, <2>2
    <2>3. \A j \in Ids : item'[j].mine => item[j].mine /\ <<"key", j>> \notin HeadClaims(t)
      BY <1>2, <1>3
    <2>. QED
      BY <2>1, <2>2, <2>3 DEF Passed
  <1>12. /\ hash' \in [Hashed -> Ids \cup {Null}] /\ item' \in [Ids -> ItemType]
         /\ hold' \in [Threads -> [Slots -> Vals \cup {Null}]]
    BY <1>i, <1>2 DEF Typed
  <1>13. SlotsGood' /\ ItemsGood'
    BY <1>i, <1>2 DEF SlotsGood, ItemsGood, KeyExists, Val
  <1>14. Sequence(<<>>) /\ Ordered(<<>>) /\ ToSet(<<>>) = {}
    BY Literals, OrderedLiterals
  <1>15. IInv'
    BY <1>2, <1>6, <1>7, <1>8, <1>9, <1>10, <1>11, <1>12, <1>13, <1>14, Advance
  <1>. QED
    BY <1>5, <1>15

-----------------------------------------------------------------------------
\* At first there is nothing.
LEMMA InitOK ==
    ASSUME Init
    PROVE  IInv
  <1>1. /\ lru = <<>> /\ hash = [k \in Hashed |-> Null]
        /\ item = [id \in Ids |-> FreeItem]
        /\ refs = [v \in Vals |-> 0] /\ keyRefs = [v \in Vals |-> 0]
        /\ mem = [v \in Vals |-> "free"]
        /\ hold = [t \in Threads |-> [s \in Slots |-> Null]]
        /\ agenda = [t \in Threads |-> <<>>]
    BY DEF Init
  <1>2. ToSet(<<>>) = {} /\ Listed = {}
    BY <1>1 DEF Listed, ToSet
  <1>3. \A id \in Ids : /\ item[id].live = FALSE /\ item[id].mine = FALSE
                        /\ item[id].held = FALSE /\ item[id].val = Null
    BY <1>1 DEF FreeItem
  <1>4. Typed
    <2>1. FreeItem \in ItemType
      BY DEF FreeItem, ItemType
    <2>2. PICK X : X = UNION {Entries(t) : t \in Threads}
      OBVIOUS
    <2>3. agenda \in [Threads -> Seq(X)]
      BY <1>1
    <2>. QED
      BY <1>1, <2>1, <2>2, <2>3 DEF Typed
  <1>5. SlotsGood
    BY <1>1 DEF SlotsGood, Slots
  <1>6. ItemsGood
    BY <1>3 DEF ItemsGood, KeyExists, Val
  <1>7. ListGood
    <2>1. IsInjective(lru)
      BY <1>1 DEF IsInjective
    <2>. QED
      BY <1>2, <2>1 DEF ListGood
  <1>8. HashGood
    BY <1>1 DEF HashGood
  <1>9. AgendaSound
    BY <1>1 DEF AgendaSound
  <1>10. AgendaOrdered
    <2>1. Ordered(<<>>)
      BY OrderedLiterals
    <2>. QED
      BY <1>1, <2>1 DEF AgendaOrdered
  <1>11. \A t \in Threads : Claims(item, agenda[t]) = {} /\ Distinct(item, agenda[t])
    BY <1>1 DEF Claims, Distinct
  <1>12. Claimed
    BY <1>11 DEF Claimed
  <1>13. NothingLost
    BY <1>3 DEF NothingLost
  <1>14. Counted
    <2>1. ASSUME NEW h \in Handles PROVE Pointer(h) = Null
      <3>1. CASE \E t \in Threads, s \in Slots : h = <<t, s>>
        <4>1. PICK t \in Threads, s \in Slots : h = <<t, s>>
          BY <3>1
        <4>2. Pointer(<<t, s>>) = hold[t][s]
          BY PointerIs
        <4>. QED
          BY <1>1, <4>1, <4>2
      <3>2. CASE \E id \in Ids : h = <<id, "val">> \/ h = <<id, "key">>
        <4>1. PICK id \in Ids : h = <<id, "val">> \/ h = <<id, "key">>
          BY <3>2
        <4>2. Pointer(<<id, "val">>) = Null /\ Pointer(<<id, "key">>) = Null
          BY <1>3, PointerIs
        <4>. QED
          BY <4>1, <4>2
      <3>. QED
        BY <3>1, <3>2, PointerIs
    <2>2. ASSUME NEW v \in Vals PROVE Owners(v) = {} /\ KeyOwners(v) = {}
      <3>1. v # Null
        BY Kinds
      <3>2. Ids \X {"key"} \subseteq Handles
        BY DEF Handles
      <3>. QED
        BY <2>1, <3>1, <3>2 DEF Owners, KeyOwners
    <2>3. Cardinality({}) = 0
      BY FS_EmptySet
    <2>4. ASSUME NEW v \in Vals
          PROVE  refs[v] = 0 /\ keyRefs[v] = 0
      BY <1>1
    <2>5. ShortMax \in Nat
      BY StoreAssumption
    <2>6. \A v \in Vals : /\ refs[v] >= Cardinality(Owners(v))
                          /\ keyRefs[v] <= Cardinality(KeyOwners(v))
                          /\ keyRefs[v] <= ShortMax
      BY <2>2, <2>3, <2>4, <2>5
    <2>. QED
      BY <2>4, <2>6 DEF Counted
  <1>. QED
    BY <1>4, <1>5, <1>6, <1>7, <1>8, <1>9, <1>10, <1>12, <1>13, <1>14 DEF IInv

\* What the clients do, and what their calls go on with.
LEMMA ClientStep ==
    ASSUME IInv, EmptiedAlone, NEW t \in Threads, Client(t)
    PROVE  IInv' /\ Protocol
  <1>1. CASE \E u \in Threads : ShareImage(t, u)
    BY <1>1, ShareImageStep
  <1>2. CASE FinishWithImage(t)
    BY <1>2, FinishWithImageStep
  <1>3. CASE DropList(t)
    BY <1>3, DropListStep
  <1>4. CASE \E a \in Areas : GetTile(t, a)
    BY <1>4, GetTileStep
  <1>5. CASE \E s \in Slots : FinishWithTile(t, s)
    BY <1>5, FinishWithTileStep
  <1>6. CASE EmptyStore(t)
    BY <1>6, EmptyStoreStep
  <1>7. CASE \E p \in {0, 50} : Shrink(t, p)
    BY <1>7, ShrinkStep
  <1>8. CASE \E n \in {r[2] : r \in {r \in Requests : r[1] = t}} : Malloc(t, n)
    BY <1>8, MallocStep
  <1>. QED
    BY <1>1, <1>2, <1>3, <1>4, <1>5, <1>6, <1>7, <1>8 DEF Client

LEMMA DocumentStep ==
    ASSUME IInv, Document
    PROVE  IInv' /\ Protocol
  <1>1. CASE \E o \in Objs : LoadImage(o)
    BY <1>1, LoadImageStep
  <1>2. CASE \E o \in Objs : Purge(o)
    BY <1>2, PurgeStep
  <1>3. CASE \E o \in Objs : RemoveItem(o)
    BY <1>3, RemoveItemStep
  <1>4. CASE CloseDocument
    BY <1>4, CloseDocumentStep
  <1>. QED
    BY <1>1, <1>2, <1>3, <1>4 DEF Document

LEMMA CallStep ==
    ASSUME IInv, NEW t \in Threads, Step(t)
    PROVE  IInv' /\ (KeysAlways => Protocol)
  <1>1. CASE Destroy(t)
    BY <1>1, DestroyValueStep
  <1>2. CASE ChainStep(t)
    BY <1>2, ChainStepStep
  <1>3. CASE Reap(t)
    BY <1>3, ReapStep
  <1>4. CASE Scavenge(t)
    BY <1>4, ScavengeStep
  <1>5. CASE StoreItem(t)
    BY <1>5, StoreItemStep
  <1>6. CASE ReturnExisting(t)
    BY <1>6, ReturnExistingStep
  <1>7. CASE DropOwn(t)
    BY <1>7, DropOwnStep
  <1>8. CASE Room(t)
    BY <1>8, RoomStep
  <1>9. CASE RoomAgain(t)
    BY <1>9, RoomAgainStep
  <1>10. CASE FreeVictim(t)
    BY <1>10, FreeVictimStep
  <1>11. CASE Finish(t)
    BY <1>11, FinishStep
  <1>12. CASE CreateImage(t)
    BY <1>12, CreateImageStep
  <1>13. CASE Decode(t)
    BY <1>13, DecodeStep
  <1>14. CASE MakeKey(t)
    BY <1>14, MakeKeyStep
  <1>15. CASE DropKey(t)
    BY <1>15, DropKeyOwnStep
  <1>16. CASE DropListImage(t)
    BY <1>16, DropListImageStep
  <1>17. CASE DeferEnd(t)
    BY <1>17, DeferEndStep
  <1>18. CASE Filter(t)
    BY <1>18, FilterStep
  <1>19. CASE EvictHead(t)
    BY <1>19, EvictHeadStep
  <1>20. CASE TryMalloc(t)
    BY <1>20, TryMallocStep
  <1>21. CASE ScavengePhases(t)
    BY <1>21, PhasesStep
  <1>22. CASE OutOfMemory(t)
    BY <1>22, OutOfMemoryStep
  <1>. QED
    BY <1>1, <1>2, <1>3, <1>4, <1>5, <1>6, <1>7, <1>8, <1>9, <1>10, <1>11, <1>12, <1>13,
       <1>14, <1>15, <1>16, <1>17, <1>18, <1>19, <1>20, <1>21, <1>22 DEF Step

LEMMA StepOK ==
    ASSUME IInv, EmptiedAlone, [Next]_vars
    PROVE  IInv' /\ (KeysAlways => Protocol)
  <1>1. CASE Document
    BY <1>1, DocumentStep
  <1>2. CASE \E t \in Threads : Client(t)
    BY <1>2, ClientStep
  <1>3. CASE \E t \in Threads : Step(t)
    BY <1>3, CallStep
  <1>4. CASE UNCHANGED vars
    <2>1. /\ lru' = lru /\ hash' = hash /\ item' = item /\ refs' = refs
          /\ keyRefs' = keyRefs /\ mem' = mem /\ hold' = hold /\ agenda' = agenda
      BY <1>4 DEF vars, storeVars, valVars
    <2>2. IInv'
      <3>1. Typed' /\ SlotsGood' /\ ItemsGood'
        <4>1. \A u \in Threads : Entries(u)' = Entries(u)
          BY <2>1 DEF Entries
        <4>2. PICK X : X = UNION {Entries(u) : u \in Threads}
          OBVIOUS
        <4>3. (UNION {Entries(u) : u \in Threads})' = X
          BY <4>1, <4>2
        <4>4. agenda' \in [Threads -> Seq((UNION {Entries(u) : u \in Threads})')]
          BY <2>1, <4>2, <4>3 DEF IInv, Typed
        <4>. QED
          BY <2>1, <4>4 DEF IInv, Typed, SlotsGood, ItemsGood, KeyExists, Val
      <3>2. ListGood' /\ HashGood'
        BY <2>1 DEF IInv, ListGood, HashGood, Listed, InWindow, Storing, Entries
      <3>3. AgendaSound'
        <4>1. ASSUME NEW t \in Threads, NEW i \in DOMAIN agenda[t], NEW e, e = agenda[t][i]
              PROVE  Sound(t, e)'
          <5>1. Sound(t, e)
            BY <4>1 DEF IInv, AgendaSound
          <5>2. \A id : /\ Val(id)' = Val(id) /\ Out(id)' = Out(id)
                        /\ Secured(t, id)' = Secured(t, id)
            BY <2>1 DEF Val, Out, Listed, Secured
          <5>3. \A k : Unused(k)' = Unused(k) /\ Decoding(t, k)' = Decoding(t, k)
            BY <2>1 DEF Unused, Decoding
          <5>. QED
            BY <2>1, <5>1, <5>2, <5>3 DEF Sound
        <4>. QED
          BY <2>1, <4>1 DEF AgendaSound
      <3>4. AgendaOrdered' /\ Claimed' /\ NothingLost'
        BY <2>1 DEF IInv, AgendaOrdered, Claimed, NothingLost, Listed
      <3>5. Counted'
        BY <2>1 DEF IInv, Counted, Owners, KeyOwners, Pointer, KeyExists, Val
      <3>. QED
        BY <3>1, <3>2, <3>3, <3>4, <3>5 DEF IInv
    <2>3. Protocol
      BY <2>1, StutterStep DEF Pointer, KeyExists, Val
    <2>. QED
      BY <2>2, <2>3
  <1>. QED
    BY <1>1, <1>2, <1>3, <1>4 DEF Next

-----------------------------------------------------------------------------
(***************************************************************************)
(* The properties, of a store that only a program with one thread empties. *)
(***************************************************************************)
THEOREM Inductive == EmptiedAlone /\ Spec => []IInv
  <1>1. Init => IInv
    BY InitOK
  <1>2. EmptiedAlone /\ IInv /\ [Next]_vars => IInv'
    BY StepOK
  <1>3. CASE EmptiedAlone
    <2>1. IInv /\ [Next]_vars => IInv'
      BY <1>2, <1>3
    <2>. QED
      BY <1>1, <2>1, PTL DEF Spec
  <1>4. CASE ~EmptiedAlone
    BY <1>4
  <1>. QED
    BY <1>3, <1>4

\* A sequence that is injective has as many elements as it is long.
LEMMA LengthIs ==
    ASSUME NEW q \in Seq(Ids), IsInjective(q)
    PROVE  Len(q) = Cardinality(ToSet(q))
  <1>. DEFINE B == 1 .. Len(q)
              L == ToSet(q)
  <1>1. Len(q) \in Nat /\ DOMAIN q = B /\ q \in [B -> Ids]
    OBVIOUS
  <1>2. IsFiniteSet(B) /\ Cardinality(B) = Len(q)
    BY <1>1, FS_Interval
  <1>3. q \in [B -> L] /\ \A x \in L : \E i \in B : q[i] = x
    BY <1>1 DEF ToSet
  <1>4. \A i, j \in B : q[i] = q[j] => i = j
    BY <1>1 DEF IsInjective
  <1>5. q \in Bijection(B, L)
    BY <1>3, <1>4 DEF Bijection, Injection, Surjection, IsInjective
  <1>6. ExistsBijection(B, L)
    BY <1>5 DEF ExistsBijection
  <1>. HIDE DEF B, L
  <1>7. Cardinality(L) = Cardinality(B)
    BY <1>2, <1>6, FS_Bijection
  <1>. QED
    BY <1>2, <1>7 DEF L

LEMMA IndexFollows ==
    ASSUME IInv
    PROVE  IndexConsistent
  <1>1. Len(lru) = Cardinality(Listed)
    BY LengthIs DEF IInv, Typed, ListGood, Listed
  <1>. QED
    BY <1>1 DEF IInv, IndexConsistent, ListGood, HashGood

(***************************************************************************)
(* The list and the hash table agree, whatever is being stored, evicted,   *)
(* reaped or filtered at the moment (IndexConsistent).                     *)
(***************************************************************************)
THEOREM IndexIsConsistent == EmptiedAlone /\ Spec => []IndexConsistent
BY Inductive, IndexFollows, PTL

\* The operations that finish, and that free, an item claim it.
LEMMA WorkIs ==
    ASSUME IInv, NEW t \in Threads, NEW id
    PROVE  /\ id \in Storing(t) => item[id].live
           /\ id \in Doomed(t) => item[id].live /\ Out(id)
           /\ id \in Storing(t) \cup Doomed(t) => <<"item", id>> \in Claims(item, agenda[t])
  <1>1. ASSUME NEW e \in Entries(t)
        PROVE  /\ Sound(t, e) /\ Claim(item, e) \subseteq Claims(item, agenda[t])
    BY DEF IInv, AgendaSound, Entries, Claims
  <1>2. ASSUME id \in Storing(t)
        PROVE  item[id].live /\ <<"item", id>> \in Claims(item, agenda[t])
    <2>1. PICK e \in Entries(t) : e[1] \in Storings /\ e[2] = id
      BY <1>2 DEF Storing, Storings
    <2>2. <<"item", id>> \in Claim(item, e)
      BY <2>1 DEF Claim, Storings
    <2>. QED
      BY <1>1, <2>1, <2>2 DEF Sound, Secured, Storings
  <1>3. ASSUME id \in Doomed(t)
        PROVE  item[id].live /\ Out(id) /\ <<"item", id>> \in Claims(item, agenda[t])
    <2>1. PICK e \in Entries(t) : \/ e[1] = "chain" /\ id \in ToSet(e[2])
                                  \/ e[1] = "unref" /\ id = e[2]
      BY <1>3 DEF Doomed
    <2>2. <<"item", id>> \in Claim(item, e)
      BY <2>1 DEF Claim
    <2>. QED
      BY <1>1, <2>1, <2>2 DEF Sound
  <1>. QED
    BY <1>2, <1>3

LEMMA PendingFollows ==
    ASSUME IInv
    PROVE  PendingWorkValid
  <1>1. DuplicateStillThere
    <2>1. ASSUME NEW t \in Threads, NEW e \in Entries(t), e[1] = "retval"
          PROVE  item[e[2]].live /\ Val(e[2]) = e[3]
      <3>1. Sound(t, e)
        BY DEF IInv, AgendaSound, Entries
      <3>. QED
        BY <2>1, <3>1 DEF Sound, Secured
    <2>. QED
      BY <2>1 DEF DuplicateStillThere
  <1>2. ASSUME NEW t \in Threads, NEW id \in Doomed(t), NEW u \in Threads \ {t}
        PROVE  id \notin Doomed(u) \cup Storing(u)
    <2>1. Claims(item, agenda[t]) \cap Claims(item, agenda[u]) = {}
      BY DEF IInv, Claimed
    <2>. QED
      BY <2>1, WorkIs
  <1>3. ASSUME NEW t \in Threads
        PROVE  /\ \A id \in Storing(t) \cup Doomed(t) : item[id].live
               /\ \A id \in Doomed(t) : id \notin Listed /\ \A k \in Hashed : hash[k] # id
    BY WorkIs DEF Out
  <1>. QED
    BY <1>1, <1>2, <1>3 DEF PendingWorkValid

(***************************************************************************)
(* Whatever a call still has to do with an item outside the lock, the item *)
(* is there, and no other thread is to free it (PendingWorkValid).         *)
(***************************************************************************)
THEOREM PendingIsValid == EmptiedAlone /\ Spec => []PendingWorkValid
BY Inductive, PendingFollows, PTL

LEMMA LostFollows ==
    ASSUME IInv
    PROVE  NoItemLost
  <1>1. ASSUME NEW id \in Ids, item[id].live, id \notin Listed
        PROVE  id \in InWindow \/ \E t \in Threads : id \in Doomed(t)
    <2>1. PICK t \in Threads : <<"item", id>> \in Claims(item, agenda[t])
      BY <1>1 DEF IInv, NothingLost
    <2>2. PICK e \in Entries(t) : <<"item", id>> \in Claim(item, e)
      BY <2>1 DEF Claims, Entries
    <2>3. CASE e[1] \in Storings
      <3>1. e[2] = id
        BY <2>2, <2>3 DEF Claim, Storings
      <3>2. id \in Storing(t)
        BY <2>3, <3>1 DEF Storing, Storings
      <3>. QED
        BY <3>2 DEF InWindow
    <2>4. CASE e[1] = "unref"
      <3>1. e[2] = id
        BY <2>2, <2>4 DEF Claim
      <3>2. id \in Doomed(t)
        BY <2>4, <3>1 DEF Doomed
      <3>. QED
        BY <3>2
    <2>5. CASE e[1] = "chain"
      <3>1. id \in ToSet(e[2])
        BY <2>2, <2>5 DEF Claim
      <3>2. id \in Doomed(t)
        BY <2>5, <3>1 DEF Doomed
      <3>. QED
        BY <3>2
    <2>. QED
      BY <2>2, <2>3, <2>4, <2>5 DEF Claim, Storings
  <1>2. ASSUME NEW id \in Ids, item[id].mine
        PROVE  \E t \in Threads : <<"dropkey", id>> \in Entries(t)
    <2>1. PICK t \in Threads : <<"key", id>> \in Claims(item, agenda[t])
      BY <1>2 DEF IInv, NothingLost
    <2>2. PICK e \in Entries(t) : <<"key", id>> \in Claim(item, e)
      BY <2>1 DEF Claims, Entries
    <2>3. e[1] = "dropkey" /\ e[2] = id
      BY <2>2 DEF Claim
    <2>4. Sound(t, e)
      BY DEF IInv, AgendaSound, Entries
    <2>. QED
      BY <2>3, <2>4 DEF Sound
  <1>. QED
    BY <1>1, <1>2 DEF NoItemLost

(***************************************************************************)
(* No item is lost: what is not in the store some thread is to put there   *)
(* or to free, and every key of a thread is its to drop (NoItemLost).      *)
(***************************************************************************)
THEOREM NothingIsLost == EmptiedAlone /\ Spec => []NoItemLost
BY Inductive, LostFollows, PTL

LEMMA CountingStarts ==
    ASSUME Init
    PROVE  Counting!Init
  <1>1. ASSUME NEW h \in Handles PROVE Pointer(h) = Null
    <2>1. /\ \A t \in Threads, s \in Slots : hold[t][s] = Null
          /\ \A id \in Ids : item[id].live = FALSE /\ item[id].mine = FALSE
                             /\ item[id].held = FALSE
      BY DEF Init, FreeItem
    <2>2. CASE \E t \in Threads, s \in Slots : h = <<t, s>>
      <3>1. PICK t \in Threads, s \in Slots : h = <<t, s>>
        BY <2>2
      <3>2. Pointer(<<t, s>>) = hold[t][s]
        BY PointerIs
      <3>. QED
        BY <2>1, <3>1, <3>2
    <2>3. CASE \E id \in Ids : h = <<id, "val">> \/ h = <<id, "key">>
      <3>1. PICK id \in Ids : h = <<id, "val">> \/ h = <<id, "key">>
        BY <2>3
      <3>2. Pointer(<<id, "val">>) = Null /\ Pointer(<<id, "key">>) = Null
        BY <2>1, PointerIs
      <3>. QED
        BY <3>1, <3>2
    <2>. QED
      BY <2>2, <2>3, PointerIs
  <1>2. [h \in Handles |-> Pointer(h)] = [h \in Handles |-> Null]
    BY <1>1
  <1>3. /\ refs = [v \in Vals |-> 0] /\ keyRefs = [v \in Vals |-> 0]
        /\ mem = [v \in Vals |-> "free"]
    BY DEF Init
  <1>. QED
    BY <1>2, <1>3 DEF Counting!Init

(***************************************************************************)
(* Every critical section of the store and of its callers is a step of the *)
(* reference counting protocol of Storable, or none (RefinesStorable), if  *)
(* there is memory for the keys.                                           *)
(***************************************************************************)
THEOREM CountsAsStorable == EmptiedAlone /\ KeysAlways /\ Spec => RefinesStorable
  <1>1. Init => Counting!Init
    BY CountingStarts
  <1>2. CASE EmptiedAlone /\ KeysAlways
    <2>1. IInv /\ [Next]_vars => [Counting!Next]_(Counting!vars)
      BY <1>2, StepOK DEF Protocol
    <2>2. Spec => []IInv
      BY <1>2, Inductive, PTL
    <2>. QED
      BY <1>1, <2>1, <2>2, PTL DEF Spec, RefinesStorable, Counting!Spec
  <1>. QED
    BY <1>2

LEMMA LivesFollows ==
    ASSUME IInv
    PROVE  Counting!NoDangling
  <1>1. ASSUME NEW h \in Handles, Pointer(h) # Null
        PROVE  mem[Pointer(h)] = "live"
    <2>1. Pointer(h) \in Vals
      BY <1>1, PointerType DEF IInv
    <2>2. Counters /\ Counted
      BY DEF IInv, Typed, Counters
    <2>. QED
      BY <2>1, <2>2, OwnedLives
  <1>. QED
    BY <1>1 DEF Counting!NoDangling

(***************************************************************************)
(* No thread, no item and no key ever refers to a value that is being or   *)
(* has been destroyed, whether or not there is memory for the keys.        *)
(***************************************************************************)
THEOREM UsedIsLive == EmptiedAlone /\ Spec => []Counting!NoDangling
BY Inductive, LivesFollows, PTL

-----------------------------------------------------------------------------
(***************************************************************************)
(* Reaping.                                                                *)
(***************************************************************************)
\* Operations that neither end a deferral nor take out what is in use.
Apart == {"deferend", "filter", "empty"}

\* What a step may leave to be done, but for ensure_space.
Plain(s) == Sequence(s) /\ \A e \in ToSet(s) : e[1] \notin Apart \cup {"unref"}

LEMMA PlainLiterals ==
    /\ Plain(<<>>)
    /\ \A e : e[1] \notin Apart \cup {"unref"} => Plain(<<e>>)
    /\ \A d, e : d[1] \notin Apart \cup {"unref"} /\ e[1] \notin Apart \cup {"unref"}
                  => Plain(<<d, e>>)
    /\ \A s, r : Plain(s) /\ Plain(r) => Plain(s \o r)
  <1>1. ASSUME NEW s, NEW r, Plain(s), Plain(r) PROVE Plain(s \o r)
    <2>1. Sequence(s) /\ Sequence(r)
      BY <1>1 DEF Plain
    <2>2. Sequence(s \o r) /\ ToSet(s \o r) = ToSet(s) \cup ToSet(r)
      BY <2>1, ConcatIs
    <2>. QED
      BY <1>1, <2>2 DEF Plain
  <1>2. Plain(<<>>) /\ \A e : e[1] \notin Apart \cup {"unref"} => Plain(<<e>>)
    BY Literals DEF Plain
  <1>3. ASSUME NEW d, NEW e, d[1] \notin Apart \cup {"unref"}, e[1] \notin Apart \cup {"unref"}
        PROVE  Plain(<<d, e>>)
    <2>1. Sequence(<<d, e>>) /\ ToSet(<<d, e>>) = {d, e}
      BY Literals
    <2>. QED
      BY <1>3, <2>1 DEF Plain
  <1>. QED
    BY <1>1, <1>2, <1>3

LEMMA DeferringFinite == IsFiniteSet(Deferring) /\ Cardinality(Deferring) \in Nat
  <1>1. Deferring \in SUBSET Threads /\ IsFiniteSet(Threads)
    BY StoreAssumption DEF Deferring
  <1>. QED
    BY <1>1, FS_Subset, FS_CardinalityType

\* A call that goes on defers as before.
LEMMA DefersKept ==
    ASSUME Typed, Defers, NEW t \in Threads, NEW s, Sequence(s), Go(t, s), defer' = defer,
           \A e \in ToSet(s) : e[1] \notin Apart,
           agenda[t] = <<>> \/ Head(agenda[t])[1] # "deferend"
    PROVE  Defers'
  <1>0. Sequence(s) /\ \A e \in ToSet(s) : e[1] \notin {"deferend", "filter", "empty"}
    BY DEF Apart
  <1>1. /\ agenda'[t] = s \o Rest(t)
        /\ \A u \in Threads \ {t} : agenda'[u] = agenda[u]
    BY <1>0, GoIs
  <1>2. /\ Sequence(Rest(t))
        /\ Len(agenda[t]) \in Nat /\ DOMAIN agenda[t] = 1 .. Len(agenda[t])
        /\ Len(Rest(t)) = IF agenda[t] = <<>> THEN 0 ELSE Len(agenda[t]) - 1
        /\ \A i \in 1 .. Len(Rest(t)) :
             /\ i + 1 \in 1 .. Len(agenda[t]) /\ Rest(t)[i] = agenda[t][i + 1]
        /\ agenda[t] # <<>> => 1 \in 1 .. Len(agenda[t]) /\ Head(agenda[t]) = agenda[t][1]
    BY RestIs
  <1>. DEFINE r == Rest(t)
              q == s \o r
  <1>3. Sequence(s) /\ Sequence(r) /\ agenda'[t] = q
    BY <1>0, <1>1, <1>2
  <1>3r. /\ Len(r) = IF agenda[t] = <<>> THEN 0 ELSE Len(agenda[t]) - 1
         /\ \A i \in 1 .. Len(r) :
             i + 1 \in 1 .. Len(agenda[t]) /\ r[i] = agenda[t][i + 1]
         /\ ToSet(r) \subseteq ToSet(agenda[t])
    BY <1>2, RestIs
  <1>. HIDE DEF r
  <1>4. /\ Sequence(q) /\ Len(q) = Len(s) + Len(r)
        /\ Len(s) \in Nat /\ Len(r) \in Nat
        /\ \A i \in 1 .. Len(s) : q[i] = s[i]
        /\ ToSet(q) = ToSet(s) \cup ToSet(r)
        /\ \A i \in 1 .. Len(q) :
             \/ i \in 1 .. Len(s)
             \/ i - Len(s) \in 1 .. Len(r) /\ q[i] = r[i - Len(s)]
    BY <1>3, ConcatIs
  <1>. HIDE DEF q
  <1>5. DOMAIN q = 1 .. Len(q) /\ DOMAIN s = 1 .. Len(s)
    BY <1>0, <1>4, SequenceIs DEF Sequence
  <1>6. ASSUME NEW i \in DOMAIN q
        PROVE  /\ q[i][1] \notin {"filter", "empty"}
               /\ q[i][1] = "deferend" => i = Len(q)
    <2>1. CASE i \in 1 .. Len(s)
      <3>1. q[i] \in ToSet(s)
        BY <1>4, <1>5, <2>1 DEF ToSet
      <3>. QED
        BY <1>0, <3>1
    <2>2. CASE i - Len(s) \in 1 .. Len(r) /\ q[i] = r[i - Len(s)]
      <3>1. PICK j : j = i - Len(s)
        OBVIOUS
      <3>2. j + 1 \in DOMAIN agenda[t] /\ q[i] = agenda[t][j + 1] /\ agenda[t] # <<>>
        BY <1>2, <1>3r, <2>2, <3>1
      <3>3. /\ q[i][1] \notin {"filter", "empty"}
            /\ q[i][1] = "deferend" => j + 1 = Len(agenda[t])
        BY <3>2 DEF Defers
      <3>4. i \in Nat
        BY <1>5
      <3>. QED
        BY <1>2, <1>3r, <1>4, <3>1, <3>2, <3>3, <3>4
    <2>. QED
      BY <1>4, <1>5, <2>1, <2>2
  <1>7. Deferring' = Deferring
    <2>1. (\E e \in ToSet(q) : e[1] = "deferend") <=> \E e \in ToSet(agenda[t]) : e[1] = "deferend"
      <3>1. ToSet(r) \subseteq ToSet(agenda[t])
        BY <1>3r
      <3>2. ASSUME NEW e \in ToSet(agenda[t]), e[1] = "deferend" PROVE e \in ToSet(r)
        <4>1. PICK i \in 1 .. Len(agenda[t]) : e = agenda[t][i]
          BY <1>2 DEF ToSet
        <4>2. agenda[t] # <<>> /\ i # 1
          BY <1>2, <3>2, <4>1
        <4>3. i - 1 \in 1 .. Len(r) /\ (i - 1) + 1 = i
          BY <1>2, <1>3r, <4>1, <4>2
        <4>4. r[i - 1] = e
          BY <1>3r, <4>1, <4>3
        <4>5. DOMAIN r = 1 .. Len(r)
          BY <1>3, SequenceIs DEF Sequence
        <4>. QED
          BY <4>3, <4>4, <4>5 DEF ToSet
      <3>. QED
        BY <1>0, <1>4, <3>1, <3>2
    <2>. QED
      BY <1>1, <1>3, <2>1 DEF Deferring
  <1>8. \A u \in Threads : \A i \in DOMAIN agenda'[u] :
          /\ agenda'[u][i][1] \notin {"filter", "empty"}
          /\ agenda'[u][i][1] = "deferend" => i = Len(agenda'[u])
    <2>1. SUFFICES ASSUME NEW u \in Threads, NEW i \in DOMAIN agenda'[u]
                   PROVE  /\ agenda'[u][i][1] \notin {"filter", "empty"}
                          /\ agenda'[u][i][1] = "deferend" => i = Len(agenda'[u])
      OBVIOUS
    <2>2. CASE u = t
      BY <1>3, <1>6, <2>2
    <2>3. CASE u # t
      <3>1. agenda'[u] = agenda[u]
        BY <1>1, <2>3
      <3>. QED
        BY <3>1 DEF Defers
    <2>. QED
      BY <2>2, <2>3
  <1>9. defer' = Cardinality(Deferring')
    BY <1>7 DEF Defers
  <1>. QED
    BY <1>8, <1>9 DEF Defers

\* fz_defer_reap_start ...
LEMMA DefersBegun ==
    ASSUME Typed, Defers, NEW t \in Threads, agenda[t] = <<>>, defer' = defer + 1,
           NEW e, NEW d, e[1] \notin {"deferend", "filter", "empty"}, d[1] = "deferend",
           Go(t, <<e, d>>)
    PROVE  Defers' /\ defer' # 0
  <1>1. PICK q : q = <<e, d>>
    OBVIOUS
  <1>2. /\ q[1] = e /\ q[2] = d /\ Len(q) = 2 /\ DOMAIN q = {1, 2}
    BY <1>1
  <1>3. Sequence(q) /\ ToSet(q) = {e, d}
    BY <1>1, Literals
  <1>4. agenda' = [agenda EXCEPT ![t] = q]
    <2>1. Rest(t) = <<>>
      BY DEF Rest
    <2>2. agenda' = [agenda EXCEPT ![t] = q \o <<>>]
      BY <1>1, <1>3, <2>1, GoIs
    <2>3. q \o <<>> = q
      BY <1>3 DEF Sequence
    <2>. QED
      BY <2>2, <2>3
  <1>5. agenda'[t] = q /\ \A u \in Threads \ {t} : agenda'[u] = agenda[u]
    BY <1>4 DEF Typed
  <1>6. t \notin Deferring
    BY DEF Deferring, ToSet
  <1>7. Deferring' = Deferring \cup {t}
    BY <1>3, <1>5, <1>6 DEF Deferring
  <1>8. defer' = Cardinality(Deferring') /\ defer' # 0
    <2>1. Cardinality(Deferring \cup {t}) = Cardinality(Deferring) + 1
      BY <1>6, DeferringFinite, FS_AddElement
    <2>2. defer = Cardinality(Deferring)
      BY DEF Defers
    <2>. QED
      BY <1>7, <2>1, <2>2, DeferringFinite
  <1>9. \A u \in Threads : \A i \in DOMAIN agenda'[u] :
          /\ agenda'[u][i][1] \notin {"filter", "empty"}
          /\ agenda'[u][i][1] = "deferend" => i = Len(agenda'[u])
    <2>1. ASSUME NEW i \in DOMAIN q
          PROVE  /\ q[i][1] \notin {"filter", "empty"}
                 /\ q[i][1] = "deferend" => i = Len(q)
      BY <1>2
    <2>2. \A u \in Threads \ {t} : \A i \in DOMAIN agenda'[u] :
            /\ agenda'[u][i][1] \notin {"filter", "empty"}
            /\ agenda'[u][i][1] = "deferend" => i = Len(agenda'[u])
      BY <1>5 DEF Defers
    <2>. QED
      BY <1>5, <2>1, <2>2
  <1>. QED
    BY <1>8, <1>9 DEF Defers

\* ... and fz_defer_reap_end, which is the call's last operation.
LEMMA DefersEnded ==
    ASSUME Typed, Defers, NEW t \in Threads, agenda[t] # <<>>,
           Head(agenda[t])[1] = "deferend", defer' = defer - 1, NEW s, Plain(s), Go(t, s)
    PROVE  Defers'
  <1>0. Sequence(s) /\ \A e \in ToSet(s) : e[1] \notin {"deferend", "filter", "empty"}
    BY DEF Plain, Apart
  <1>1. /\ Len(agenda[t]) \in Nat /\ DOMAIN agenda[t] = 1 .. Len(agenda[t])
        /\ Len(Rest(t)) = Len(agenda[t]) - 1
        /\ 1 \in 1 .. Len(agenda[t]) /\ Head(agenda[t]) = agenda[t][1] /\ Sequence(Rest(t))
    BY RestIs
  <1>2. Len(agenda[t]) = 1
    BY <1>1 DEF Defers
  <1>3. Len(Rest(t)) = 0
    BY <1>1, <1>2
  <1>4. s \o Rest(t) = s
    BY <1>0, <1>1, <1>3 DEF Sequence
  <1>5. agenda'[t] = s /\ \A u \in Threads \ {t} : agenda'[u] = agenda[u]
    BY <1>0, <1>4, GoIs
  <1>6. t \in Deferring
    <2>1. agenda[t][1] \in ToSet(agenda[t])
      BY <1>1 DEF ToSet
    <2>. QED
      BY <1>1, <2>1 DEF Deferring
  <1>7. Deferring' = Deferring \ {t}
    BY <1>0, <1>5 DEF Deferring
  <1>8. defer' = Cardinality(Deferring')
    BY <1>6, <1>7, DeferringFinite, FS_RemoveElement DEF Defers
  <1>9. \A u \in Threads : \A i \in DOMAIN agenda'[u] :
          /\ agenda'[u][i][1] \notin {"filter", "empty"}
          /\ agenda'[u][i][1] = "deferend" => i = Len(agenda'[u])
    <2>1. ASSUME NEW i \in DOMAIN s PROVE s[i][1] \notin {"deferend", "filter", "empty"}
      <3>1. s[i] \in ToSet(s)
        BY DEF ToSet
      <3>. QED
        BY <1>0, <3>1
    <2>2. \A u \in Threads \ {t} : \A i \in DOMAIN agenda'[u] :
            /\ agenda'[u][i][1] \notin {"filter", "empty"}
            /\ agenda'[u][i][1] = "deferend" => i = Len(agenda'[u])
      BY <1>5 DEF Defers
    <2>. QED
      BY <1>5, <2>1, <2>2
  <1>. QED
    BY <1>8, <1>9 DEF Defers

-----------------------------------------------------------------------------
\* A value has the references of its owners, those of keys among them.
LEMMA Floor ==
    ASSUME IInv, NEW v \in Vals
    PROVE  /\ refs[v] \in Nat /\ keyRefs[v] \in Int /\ keyRefs[v] <= refs[v]
           /\ \A h \in Handles : Pointer(h) = v /\ h \notin Ids \X {"key"} => keyRefs[v] < refs[v]
           /\ \A g, h \in Handles : g # h /\ Pointer(g) = v /\ Pointer(h) = v => refs[v] >= 2
  <1>1. /\ refs[v] \in Nat /\ keyRefs[v] \in Int
        /\ refs[v] >= Cardinality(Owners(v)) /\ keyRefs[v] <= Cardinality(KeyOwners(v))
    BY DEF IInv, Typed, Counted
  <1>2. /\ IsFiniteSet(Owners(v)) /\ KeyOwners(v) \in SUBSET Owners(v)
        /\ Cardinality(Owners(v)) \in Nat /\ Cardinality(KeyOwners(v)) \in Nat
    BY OwnersFinite
  <1>3. Cardinality(KeyOwners(v)) <= Cardinality(Owners(v))
    BY <1>2, FS_Subset
  <1>4. ASSUME NEW h \in Handles, Pointer(h) = v, h \notin Ids \X {"key"}
        PROVE  keyRefs[v] < refs[v]
    <2>1. h \in Owners(v) /\ h \notin KeyOwners(v)
      BY <1>4 DEF Owners, KeyOwners
    <2>2. Cardinality(KeyOwners(v)) # Cardinality(Owners(v))
      BY <1>2, <2>1, FS_Subset
    <2>. QED
      BY <1>1, <1>2, <1>3, <2>2
  <1>5. ASSUME NEW g \in Handles, NEW h \in Handles, g # h, Pointer(g) = v, Pointer(h) = v
        PROVE  refs[v] >= 2
    <2>1. {g, h} \in SUBSET Owners(v)
      BY <1>5 DEF Owners
    <2>2. Cardinality({g, h}) = 2
      <3>1. Cardinality({g}) = 1 /\ IsFiniteSet({g})
        BY FS_Singleton
      <3>2. Cardinality({g} \cup {h}) = 1 + 1
        BY <1>5, <3>1, FS_AddElement
      <3>3. {g} \cup {h} = {g, h}
        OBVIOUS
      <3>. QED
        BY <3>2, <3>3
    <2>3. 2 <= Cardinality(Owners(v))
      BY <1>2, <2>1, <2>2, FS_Subset
    <2>. QED
      BY <1>1, <1>2, <2>3
  <1>. QED
    BY <1>1, <1>2, <1>3, <1>4, <1>5

\* Somebody refers to v who is not an item that another thread took out.
Owned(t, v) ==
    \E h \in Handles : /\ Pointer(h) = v
                       /\ \A id \in Ids : h = <<id, "val">> =>
                            ~Out(id) \/ <<"item", id>> \in HeadClaims(t)

LEMMA VictimsKept ==
    ASSUME IInv, VictimsAlone, NEW t \in Threads, NEW s, Sequence(s), Go(t, s),
           \A e \in ToSet(s) : e[1] = "unref" => refs'[item'[e[2]].val] = 1,
           \A id \in Ids : item[id].live /\ item[id].held => item'[id].val = item[id].val,
           \A v \in Vals : refs'[v] = refs[v] \/ refs[v] = 0 \/ Owned(t, v)
    PROVE  VictimsAlone'
  <1>i. Typed /\ ItemsGood /\ AgendaSound /\ AgendaOrdered /\ Claimed
    BY DEF IInv
  <1>1. ASSUME NEW u \in Threads, NEW e \in Staying(t, u), e[1] = "unref"
        PROVE  refs'[item'[e[2]].val] = 1
    <2>0. PICK id, v : id = e[2] /\ v = item[id].val
      OBVIOUS
    <2>1. Sound(u, e) /\ Claim(item, e) \cap HeadClaims(t) = {}
      BY <1>i, StayingIs
    <2>2. id \in Ids /\ item[id].live /\ item[id].held /\ Out(id)
      BY <1>1, <2>0, <2>1 DEF Sound
    <2>3. <<"item", id>> \notin HeadClaims(t)
      BY <1>1, <2>0, <2>1 DEF Claim
    <2>4. v \in Vals /\ item'[id].val = v
      BY <1>i, <2>0, <2>2, Kinds DEF ItemsGood, KeyExists, Val
    <2>5. refs[v] = 1
      <3>1. \E x \in Threads : e \in ToSet(agenda[x])
        BY <1>i, RestIs DEF Staying
      <3>. QED
        BY <1>1, <2>0, <3>1 DEF VictimsAlone, Val
    <2>6. ~Owned(t, v)
      <3>1. SUFFICES ASSUME NEW h \in Handles, Pointer(h) = v, h # <<id, "val">> PROVE FALSE
        BY <2>2, <2>3 DEF Owned
      <3>2. <<id, "val">> \in Handles /\ Pointer(<<id, "val">>) = v
        BY <2>0, <2>2, PointerIs
      <3>. QED
        BY <2>4, <2>5, <3>1, <3>2, Floor
    <2>. QED
      BY <2>0, <2>4, <2>5, <2>6
  <1>2. ASSUME NEW u \in Threads, NEW e \in ToSet(agenda'[u]), e[1] = "unref"
        PROVE  refs'[item'[e[2]].val] = 1
    <2>1. CASE u = t
      <3>1. agenda'[t] = s \o Rest(t) /\ Sequence(Rest(t))
        BY <1>i, GoIs, RestIs
      <3>2. e \in ToSet(s) \cup ToSet(Rest(t))
        BY <1>2, <2>1, <3>1, ConcatIs
      <3>3. e \in ToSet(s) \/ e \in Staying(t, t)
        BY <3>2 DEF Staying
      <3>. QED
        BY <1>1, <1>2, <3>3
    <2>2. CASE u # t
      <3>1. agenda'[u] = agenda[u]
        BY <1>i, <2>2, GoIs
      <3>2. e \in Staying(t, u)
        BY <1>2, <2>2, <3>1 DEF Staying
      <3>. QED
        BY <1>1, <1>2, <3>2
    <2>. QED
      BY <2>1, <2>2
  <1>. QED
    BY <1>2 DEF VictimsAlone, Val

\* What is in the list for an image.
LEMMA KeyedIs ==
    ASSUME IInv, NEW id \in Listed
    PROVE  /\ id \in Ids /\ item[id].live /\ item[id].held /\ item[id].key \in Keys
           /\ ImageOf(item[id].key) \in Images \cup {Null}
           /\ <<id, "key">> \in Handles
           /\ Pointer(<<id, "key">>) = ImageOf(item[id].key)
  <1>1. id \in Ids /\ item[id].live /\ item[id].held
    BY ListedIs
  <1>2. item[id].key \in Keys
    BY <1>1 DEF IInv, ItemsGood, KeyExists
  <1>. QED
    BY <1>1, <1>2, Kinds, PointerIs

ReapGood == Defers /\ VictimsAlone /\ Remembered

LEMMA ReapKept ==
    ASSUME IInv, ReapGood, NEW t \in Threads, NEW s, Plain(s), Go(t, s),
           agenda[t] = <<>> \/ Head(agenda[t])[1] # "deferend",
           defer' = defer, needs' = needs,
           \A id \in Ids : item[id].live /\ item[id].held => item'[id].val = item[id].val,
           \A v \in Vals : refs'[v] = refs[v] \/ refs[v] = 0 \/ Owned(t, v),
           \A id \in Listed' : \/ id \in Listed /\ item'[id].key = item[id].key
                               \/ ~NeedsReap(item[id].key)',
           \A v \in Images : keyRefs'[v] = refs'[v] =>
               \/ keyRefs[v] = refs[v]
               \/ \A id \in Listed : ImageOf(item[id].key) # v
    PROVE  ReapGood'
  <1>1. Sequence(s) /\ \A e \in ToSet(s) : e[1] \notin Apart /\ e[1] # "unref"
    BY DEF Plain
  <1>2. Typed
    BY DEF IInv
  <1>3. Defers'
    BY <1>1, <1>2, DefersKept DEF ReapGood
  <1>4. VictimsAlone'
    BY <1>1, VictimsKept DEF ReapGood
  <1>5. ASSUME NEW id \in Listed', NeedsReap(item[id].key)'
        PROVE  id \in Listed /\ NeedsReap(item[id].key)
    <2>1. id \in Listed /\ item'[id].key = item[id].key
      BY <1>5
    <2>2. PICK v : v = ImageOf(item[id].key)
      OBVIOUS
    <2>3. v \in Images /\ keyRefs'[v] = refs'[v]
      BY <1>5, <2>1, <2>2, KeyedIs DEF NeedsReap
    <2>. QED
      BY <2>1, <2>2, <2>3, Kinds DEF NeedsReap
  <1>6. Remembered'
    BY <1>5 DEF ReapGood, Remembered, Due
  <1>. QED
    BY <1>3, <1>4, <1>6 DEF ReapGood

\* Steps that take nothing to the list, and count nothing.
LEMMA ReapStill ==
    ASSUME IInv, ReapGood, NEW t \in Threads, NEW s, Plain(s), Go(t, s),
           agenda[t] = <<>> \/ Head(agenda[t])[1] # "deferend",
           defer' = defer, needs' = needs, item' = item, refs' = refs, keyRefs' = keyRefs,
           lru' = lru
    PROVE  ReapGood'
  <1>1. Listed' = Listed
    BY DEF Listed
  <1>. QED
    BY <1>1, ReapKept

-----------------------------------------------------------------------------
LEMMA DestroyReap ==
    ASSUME IInv, ReapGood, NEW t \in Threads, Destroy(t)
    PROVE  ReapGood'
  BY ReapStill, PlainLiterals DEF Destroy, At, storeVars

LEMMA ReturnExistingReap ==
    ASSUME IInv, ReapGood, NEW t \in Threads, ReturnExisting(t)
    PROVE  ReapGood'
  BY ReapStill, PlainLiterals DEF ReturnExisting, At, storeVars, valVars

LEMMA MallocReap ==
    ASSUME IInv, ReapGood, NEW t \in Threads,
           (\E n \in {r[2] : r \in {r \in Requests : r[1] = t}} : Malloc(t, n))
             \/ TryMalloc(t) \/ ScavengePhases(t) \/ OutOfMemory(t)
    PROVE  ReapGood'
  <1>1. /\ agenda[t] = <<>> \/ Head(agenda[t])[1] # "deferend"
        /\ defer' = defer /\ needs' = needs /\ item' = item /\ refs' = refs
        /\ keyRefs' = keyRefs /\ lru' = lru
    BY DEF Malloc, TryMalloc, ScavengePhases, OutOfMemory, Idle, At, storeVars, valVars
  <1>2. PICK s : Go(t, s) /\ Plain(s)
    <2>1. ASSUME NEW n, Malloc(t, n) PROVE \E s : Go(t, s) /\ Plain(s)
      <3>1. PICK e : e = <<"malloc", n, 0>>
        OBVIOUS
      <3>2. Go(t, <<e>>) /\ e[1] \notin Apart \cup {"unref"}
        BY <2>1, <3>1 DEF Malloc, Apart
      <3>. QED
        BY <3>2, PlainLiterals
    <2>2. CASE Go(t, <<>>)
      BY <2>2, PlainLiterals
    <2>3. ASSUME NEW e, Go(t, <<e>>), e[1] \in {"phase", "scav", "nomem"}
          PROVE  \E s : Go(t, s) /\ Plain(s)
      BY <2>3, PlainLiterals DEF Apart
    <2>4. CASE TryMalloc(t)
      <3>1. PICK e : e = <<"phase", Arg(t, 2), Arg(t, 3)>>
        OBVIOUS
      <3>2. Go(t, <<>>) \/ (Go(t, <<e>>) /\ e[1] = "phase")
        BY <2>4, <3>1 DEF TryMalloc
      <3>. QED
        BY <2>2, <2>3, <3>2
    <2>5. CASE ScavengePhases(t)
      <3>1. \/ Go(t, << <<"nomem">> >>)
            \/ \E x, y : Go(t, << <<"scav", x, TRUE, y>> >>)
        BY <2>5 DEF ScavengePhases
      <3>2. ASSUME Go(t, << <<"nomem">> >>) PROVE \E e : Go(t, <<e>>) /\ e[1] = "nomem"
        <4>. WITNESS <<"nomem">>
        <4>. QED
          BY <3>2
      <3>3. ASSUME NEW x, NEW y, Go(t, << <<"scav", x, TRUE, y>> >>)
            PROVE  \E e : Go(t, <<e>>) /\ e[1] = "scav"
        <4>. WITNESS <<"scav", x, TRUE, y>>
        <4>. QED
          BY <3>3
      <3>. QED
        BY <2>3, <3>1, <3>2, <3>3
    <2>. QED
      BY <2>1, <2>2, <2>4, <2>5 DEF OutOfMemory
  <1>. QED
    BY <1>1, <1>2, ReapStill

\* What scavenge, if it is called, does first.
LEMMA ScavengeOrNotIs ==
    ASSUME NEW t, NEW n, NEW wanted, ScavengeOrNot(t, n, wanted)
    PROVE  \E s : Go(t, s) /\ Plain(s)
  <1>1. CASE Go(t, <<>>)
    BY <1>1, PlainLiterals
  <1>2. CASE Go(t, << <<"scav", n, TRUE, <<>> >> >>)
    <2>1. PICK e : e = <<"scav", n, TRUE, <<>> >>
      OBVIOUS
    <2>2. Go(t, <<e>>) /\ e[1] \notin Apart \cup {"unref"}
      BY <1>2, <2>1 DEF Apart
    <2>. QED
      BY <2>2, PlainLiterals
  <1>. QED
    BY <1>1, <1>2 DEF ScavengeOrNot

LEMMA ShrinkReap ==
    ASSUME IInv, ReapGood, NEW t \in Threads, NEW p, Shrink(t, p)
    PROVE  ReapGood'
  <1>1. PICK s : Go(t, s) /\ Plain(s)
    BY ScavengeOrNotIs DEF Shrink
  <1>. QED
    BY <1>1, ReapStill DEF Shrink, Idle, valVars

-----------------------------------------------------------------------------
LEMMA RefIs ==
    ASSUME IInv, NEW w \in Vals
    PROVE  \A v \in Vals :
             /\ Ref(refs, w)[v] = IF v = w /\ refs[w] > 0 THEN refs[v] + 1 ELSE refs[v]
             /\ Unref(refs, w)[v] = IF v = w /\ refs[w] > 0 THEN refs[v] - 1 ELSE refs[v]
  BY DEF IInv, Typed, Ref, Unref

\* What a thread has, others may not take out, and is not the keys' alone.
LEMMA ImageHeld ==
    ASSUME IInv, NEW t \in Threads, NEW s \in Slots, NEW v \in Vals, hold[t][s] = v
    PROVE  /\ \A u \in Threads : Owned(u, v)
           /\ keyRefs[v] < refs[v] /\ refs[v] \in Nat /\ keyRefs[v] \in Int
  <1>1. /\ <<t, s>> \in Handles /\ Pointer(<<t, s>>) = v
        /\ <<t, s>> \notin Ids \X {"key"} /\ \A id \in Ids : <<t, s>> # <<id, "val">>
    BY PointerIs DEF Slots
  <1>. QED
    BY <1>1, Floor DEF Owned

\* Another reference to w changes nothing for the images.
LEMMA RisenIs ==
    ASSUME IInv, NEW w \in Vals, refs' = Ref(refs, w), keyRefs' = keyRefs
    PROVE  /\ \A v \in Vals : keyRefs'[v] = refs'[v] => keyRefs[v] = refs[v]
           /\ \A v \in Vals : refs'[v] # refs[v] => v = w
  <1>1. ASSUME NEW v \in Vals
        PROVE  /\ keyRefs'[v] = refs'[v] => keyRefs[v] = refs[v]
               /\ refs'[v] # refs[v] => v = w
    BY RefIs, Floor
  <1>. QED
    BY <1>1

LEMMA HitReap ==
    ASSUME IInv, ReapGood, NEW t \in Threads, NEW s, NEW r, Plain(r), Go(t, r),
           NEW k \in Keys, Lookup(k) # Null, Hit(t, s, Lookup(k)),
           k \in TileKeys => hold[t]["img"] = ImageOf(k),
           agenda[t] = <<>> \/ Head(agenda[t])[1] # "deferend"
    PROVE  ReapGood'
  <1>0. PICK id, w : id = Lookup(k) /\ w = item[id].val
    OBVIOUS
  <1>1. /\ id \in Ids /\ item[id].live /\ item[id].held /\ item[id].key = k /\ ~Out(id)
    BY <1>0, LookupIs
  <1>2. /\ lru' = Touch(id) /\ refs' = Ref(refs, w) /\ keyRefs' = keyRefs /\ item' = item
        /\ defer' = defer /\ needs' = needs
    BY <1>0 DEF Hit, Val
  <1>3. w \in Vals
    BY <1>0, <1>1, Kinds DEF IInv, ItemsGood, KeyExists, Val
  <1>4. Owned(t, w)
    <2>1. <<id, "val">> \in Handles /\ Pointer(<<id, "val">>) = w
      BY <1>0, <1>1, PointerIs
    <2>2. \A j \in Ids : <<id, "val">> = <<j, "val">> => ~Out(j)
      BY <1>1
    <2>. QED
      BY <2>1, <2>2 DEF Owned
  <1>5. Listed' = Listed \cup {id}
    BY <1>1, <1>2, TouchIs DEF IInv, Typed, Listed
  <1>6. ~NeedsReap(item[id].key)'
    <2>1. SUFFICES ASSUME NeedsReap(item[id].key)' PROVE FALSE
      OBVIOUS
    <2>2. ImageOf(k) # Null /\ keyRefs'[ImageOf(k)] = refs'[ImageOf(k)]
      BY <1>1, <1>2, <2>1 DEF NeedsReap
    <2>3. k \in TileKeys /\ ImageOf(k) \in Vals /\ hold[t]["img"] = ImageOf(k)
      BY <2>2, Kinds
    <2>4. keyRefs[ImageOf(k)] = refs[ImageOf(k)]
      BY <1>2, <1>3, <2>2, <2>3, RisenIs
    <2>5. "img" \in Slots
      BY DEF Slots
    <2>. QED
      BY <2>3, <2>4, <2>5, ImageHeld
  <1>7. /\ \A v \in Vals : refs'[v] = refs[v] \/ refs[v] = 0 \/ Owned(t, v)
        /\ \A v \in Images : keyRefs'[v] = refs'[v] => keyRefs[v] = refs[v]
    BY <1>2, <1>3, <1>4, RisenIs, Kinds
  <1>. QED
    BY <1>2, <1>5, <1>6, <1>7, ReapKept

LEMMA LoadImageReap ==
    ASSUME IInv, ReapGood, NEW o \in Objs, LoadImage(o)
    PROVE  ReapGood'
  <1>0. PICK k, e : k = <<Null, o>> /\ e = <<"load", o>>
    OBVIOUS
  <1>1. /\ Doc \in Threads /\ agenda[Doc] = <<>> /\ k \in ObjKeys /\ k \in Keys /\ k \notin TileKeys
    BY <1>0, Kinds DEF LoadImage, Idle, ObjKeys
  <1>2. CASE Lookup(k) # Null
    <2>1. Hit(Doc, "img", Lookup(k)) /\ Go(Doc, <<>>)
      BY <1>0, <1>2 DEF LoadImage, Find
    <2>. QED
      BY <1>1, <1>2, <2>1, PlainLiterals, HitReap
  <1>3. CASE Lookup(k) = Null
    <2>1. /\ Go(Doc, <<e>>) /\ lru' = lru /\ refs' = refs /\ keyRefs' = keyRefs /\ item' = item
          /\ defer' = defer /\ needs' = needs
      BY <1>0, <1>3 DEF LoadImage, Find, storeVars, valVars
    <2>2. e[1] \notin Apart \cup {"unref"}
      BY <1>0 DEF Apart
    <2>. QED
      BY <1>1, <2>1, <2>2, PlainLiterals, ReapStill
  <1>. QED
    BY <1>2, <1>3

LEMMA GetTileReap ==
    ASSUME IInv, ReapGood, NEW t \in Threads, NEW a \in Areas, GetTile(t, a)
    PROVE  ReapGood'
  <1>0. PICK k, e : k = <<hold[t]["img"], a>> /\ e = <<"decode", k>>
    OBVIOUS
  <1>1. agenda[t] = <<>> /\ hold[t]["img"] \in Images
    BY DEF GetTile, Idle, IInv, SlotsGood
  <1>2. k \in TileKeys /\ k \in Keys /\ ImageOf(k) = hold[t]["img"]
    BY <1>0, <1>1 DEF TileKeys, Keys, ImageOf
  <1>3. CASE Lookup(k) # Null
    <2>1. Hit(t, "tile", Lookup(k)) /\ Go(t, <<>>)
      BY <1>0, <1>3 DEF GetTile, Find
    <2>. QED
      BY <1>1, <1>2, <1>3, <2>1, PlainLiterals, HitReap
  <1>4. CASE Lookup(k) = Null
    <2>1. /\ Go(t, <<e>>) /\ lru' = lru /\ refs' = refs /\ keyRefs' = keyRefs /\ item' = item
          /\ defer' = defer /\ needs' = needs
      BY <1>0, <1>4 DEF GetTile, Find, storeVars, valVars
    <2>2. e[1] \notin Apart \cup {"unref"}
      BY <1>0 DEF Apart
    <2>. QED
      BY <1>1, <2>1, <2>2, PlainLiterals, ReapStill
  <1>. QED
    BY <1>3, <1>4

LEMMA ShareImageReap ==
    ASSUME IInv, ReapGood, NEW t \in Threads, NEW u \in Threads, ShareImage(t, u)
    PROVE  ReapGood'
  <1>0. PICK v : v = hold[t]["img"]
    OBVIOUS
  <1>1. /\ agenda[u] = <<>> /\ v \in Images /\ v \in Vals /\ "img" \in Slots
        /\ refs' = Ref(refs, v) /\ keyRefs' = keyRefs /\ item' = item /\ lru' = lru
        /\ defer' = defer /\ needs' = needs /\ agenda' = agenda
    BY <1>0, Kinds DEF ShareImage, IInv, SlotsGood, storeVars, Slots
  <1>2. Go(u, <<>>)
    BY <1>1 DEF Go, IInv, Typed
  <1>3. /\ \A w \in Vals : refs'[w] = refs[w] \/ refs[w] = 0 \/ Owned(u, w)
        /\ \A w \in Images : keyRefs'[w] = refs'[w] => keyRefs[w] = refs[w]
    BY <1>0, <1>1, RisenIs, ImageHeld, Kinds
  <1>4. Listed' = Listed
    BY <1>1 DEF Listed
  <1>. QED
    BY <1>1, <1>2, <1>3, <1>4, PlainLiterals, ReapKept

LEMMA StoreItemReap ==
    ASSUME IInv, ReapGood, NEW t \in Threads, StoreItem(t)
    PROVE  ReapGood'
  <1>1. agenda[t] # <<>> /\ Head(agenda[t])[1] = "store"
    BY ZenonT(20) DEF StoreItem, At
  <1>0. PICK x, k, q, v, id : x = Head(agenda[t])[2] /\ k = Head(agenda[t])[3]
                    /\ q = Head(agenda[t])[4] /\ v = hold[t][q]
                    /\ id = IF k \in Hashed THEN hash[k] ELSE Null
    OBVIOUS
  <1>s. /\ v \in Vals /\ k \in Keys /\ q \in Slots
        /\ k \in TileKeys => hold[t]["img"] = ImageOf(k)
        /\ x # Null => x \in Ids /\ ~item[x].live
    <2>1. /\ v \in Vals /\ k \in Keys
          /\ \/ x = Null /\ k \in ObjKeys /\ q = "img"
             \/ x \in Ids /\ Decoding(t, k) /\ q = "tile" /\ ~item[x].live
      BY <1>0, <1>1, StoreIs
    <2>. QED
      BY <2>1, Kinds DEF Decoding, Slots
  <1>2. CASE Go(t, <<>>) /\ UNCHANGED <<storeVars, item, valVars, hold, lock>>
    BY <1>1, <1>2, PlainLiterals, ReapStill DEF storeVars, valVars
  <1>3. CASE /\ id # Null
             /\ lru' = Touch(id)
             /\ refs' = Ref(refs, Val(id))
             /\ hold' = [hold EXCEPT ![t]["dup"] = Val(id)]
             /\ Go(t, << <<"retval", id, Val(id)>>, <<"dropown">> >>)
             /\ UNCHANGED <<hash, size, defer, needs, scav, item, keyRefs, mem, lock>>
    <2>1. k \in Hashed /\ Lookup(k) = id
      BY <1>0, <1>3 DEF Lookup
    <2>2. Hit(t, "dup", Lookup(k)) /\ Lookup(k) # Null
      BY <1>3, <2>1 DEF Hit
    <2>3. PICK d, e : d = <<"retval", id, Val(id)>> /\ e = <<"dropown">>
      OBVIOUS
    <2>4. /\ Go(t, <<d, e>>) /\ d[1] \notin Apart \cup {"unref"} /\ e[1] \notin Apart \cup {"unref"}
      BY <1>3, <2>3 DEF Apart
    <2>5. Plain(<<d, e>>)
      BY <2>4, PlainLiterals
    <2>. QED
      BY <1>1, <1>s, <2>2, <2>4, <2>5, HitReap
  <1>4. CASE /\ id = Null
             /\ \E j \in IF x = Null THEN FreeIds ELSE {x} :
                  /\ item' = [item EXCEPT ![j] =
                       [@ EXCEPT !.live = TRUE, !.held = TRUE, !.key = k, !.val = v]]
                  /\ hash' = IF k \in Hashed THEN [hash EXCEPT ![k] = j] ELSE hash
                  /\ Go(t, << <<"room", j>> >>)
             /\ refs' = Ref(refs, v)
             /\ KeepLock(t)
             /\ UNCHANGED <<lru, size, defer, needs, scav, keyRefs, mem, hold>>
    <2>1. PICK j \in IF x = Null THEN FreeIds ELSE {x} :
                  /\ item' = [item EXCEPT ![j] =
                       [@ EXCEPT !.live = TRUE, !.held = TRUE, !.key = k, !.val = v]]
                  /\ Go(t, << <<"room", j>> >>)
      BY ZenonT(20), <1>4
    <2>2. j \in Ids /\ ~item[j].live
      BY <1>s, <2>1 DEF FreeIds, KeyExists
    <2>3. \A i \in Ids : i # j => item'[i] = item[i]
      BY <2>1, <2>2 DEF IInv, Typed
    <2>4. PICK e : e = <<"room", j>>
      OBVIOUS
    <2>5. Go(t, <<e>>) /\ e[1] \notin Apart \cup {"unref"}
      BY <2>1, <2>4 DEF Apart
    <2>6. /\ \A w \in Vals : refs'[w] = refs[w] \/ refs[w] = 0 \/ Owned(t, w)
          /\ \A w \in Images : keyRefs'[w] = refs'[w] => keyRefs[w] = refs[w]
      <3>1. /\ \A w \in Vals : keyRefs'[w] = refs'[w] => keyRefs[w] = refs[w]
            /\ \A w \in Vals : refs'[w] # refs[w] => w = v
        BY <1>4, <1>s, RisenIs
      <3>2. Owned(t, v)
        BY <1>0, <1>s, ImageHeld
      <3>. QED
        BY <3>1, <3>2, Kinds
    <2>7. Listed' = Listed /\ \A i \in Listed : i \in Ids /\ i # j
      BY <1>4, <2>2, ListedIs DEF Listed
    <2>8. Plain(<<e>>)
      BY <2>5, PlainLiterals
    <2>9. \A i \in Ids : item[i].live /\ item[i].held => item'[i].val = item[i].val
      BY <2>2, <2>3
    <2>10. \A i \in Listed' : i \in Listed /\ item'[i].key = item[i].key
      BY <2>3, <2>7
    <2>. QED
      BY <1>1, <1>4, <2>5, <2>6, <2>8, <2>9, <2>10, ReapKept
  <1>. QED
    BY ZenonT(20), <1>0, <1>2, <1>3, <1>4 DEF StoreItem, Arg

\* A new value.
LEMMA CreateReap ==
    ASSUME IInv, ReapGood, NEW t \in Threads, NEW s, NEW v \in Vals, Create(t, s, v),
           NEW r, Plain(r), Go(t, r), agenda[t] = <<>> \/ Head(agenda[t])[1] # "deferend",
           lru' = lru, item' = item, defer' = defer, needs' = needs
    PROVE  ReapGood'
  <1>1. refs[v] = 0
    BY DEF Create, IInv, Counted
  <1>2. \A w \in Vals : /\ refs'[w] = IF w = v THEN 1 ELSE refs[w]
                        /\ keyRefs'[w] = IF w = v THEN 0 ELSE keyRefs[w]
    BY DEF Create, IInv, Typed
  <1>3. /\ \A w \in Vals : refs'[w] = refs[w] \/ refs[w] = 0 \/ Owned(t, w)
        /\ \A w \in Images : keyRefs'[w] = refs'[w] => keyRefs[w] = refs[w]
    BY <1>1, <1>2, Kinds
  <1>4. Listed' = Listed
    BY DEF Listed
  <1>. QED
    BY <1>3, <1>4, ReapKept

LEMMA CreateImageReap ==
    ASSUME IInv, ReapGood, NEW t \in Threads, CreateImage(t)
    PROVE  ReapGood'
  <1>1. /\ Head(agenda[t])[1] # "deferend" /\ lru' = lru /\ item' = item
        /\ defer' = defer /\ needs' = needs
    BY DEF CreateImage, At, storeVars
  <1>2. CASE Go(t, <<>>) /\ UNCHANGED <<valVars, hold>>
    BY <1>1, <1>2, PlainLiterals, ReapStill DEF valVars
  <1>3. ASSUME NEW v \in Images, Create(t, "img", v),
               NEW o, Go(t, << <<"store", Null, o, "img">> >>)
        PROVE  ReapGood'
    <2>1. PICK e : e = <<"store", Null, o, "img">>
      OBVIOUS
    <2>2. Go(t, <<e>>) /\ e[1] \notin Apart \cup {"unref"} /\ v \in Vals
      BY <1>3, <2>1, Kinds DEF Apart
    <2>. QED
      BY <1>1, <1>3, <2>2, PlainLiterals, CreateReap
  <1>. QED
    BY <1>2, <1>3 DEF CreateImage

LEMMA DecodeReap ==
    ASSUME IInv, ReapGood, NEW t \in Threads, Decode(t)
    PROVE  ReapGood'
  <1>1. /\ Head(agenda[t])[1] # "deferend" /\ lru' = lru /\ item' = item
        /\ defer' = defer /\ needs' = needs
    BY DEF Decode, At, storeVars
  <1>2. CASE Go(t, <<>>) /\ UNCHANGED <<valVars, hold>>
    BY <1>1, <1>2, PlainLiterals, ReapStill DEF valVars
  <1>3. ASSUME NEW v \in Tiles, Create(t, "tile", v), NEW k, Go(t, << <<"makekey", k>> >>)
        PROVE  ReapGood'
    <2>1. PICK e : e = <<"makekey", k>>
      OBVIOUS
    <2>2. Go(t, <<e>>) /\ e[1] \notin Apart \cup {"unref"} /\ v \in Vals
      BY <1>3, <2>1, Kinds DEF Apart
    <2>. QED
      BY <1>1, <1>3, <2>2, PlainLiterals, CreateReap
  <1>. QED
    BY <1>2, <1>3 DEF Decode

-----------------------------------------------------------------------------
\* A key takes a reference that is counted for both.
LEMMA MakeKeyReap ==
    ASSUME IInv, ReapGood, NEW t \in Threads, MakeKey(t)
    PROVE  ReapGood'
  <1>0. PICK k, im : k = Head(agenda[t])[2] /\ im = ImageOf(k)
    OBVIOUS
  <1>1. /\ agenda[t] # <<>> /\ Head(agenda[t])[1] = "makekey"
        /\ lru' = lru /\ defer' = defer /\ needs' = needs
    BY DEF MakeKey, At, storeVars
  <1>2. CASE Go(t, <<>>) /\ UNCHANGED <<item, refs, keyRefs>>
    BY <1>1, <1>2, PlainLiterals, ReapStill
  <1>3. ASSUME NEW id \in FreeIds,
               item' = [item EXCEPT ![id] = [FreeItem EXCEPT !.mine = TRUE, !.key = k]],
               refs' = [refs EXCEPT ![im] = @ + 1],
               keyRefs' = [keyRefs EXCEPT ![im] =
                             IF keyRefs[im] + 1 > ShortMax THEN -ShortMax - 1 ELSE @ + 1],
               Go(t, << <<"store", id, k, "tile">>, <<"dropkey", id>> >>)
        PROVE  ReapGood'
    <2>1. k \in TileKeys /\ hold[t]["img"] = im /\ im \in Vals /\ "img" \in Slots
      <3>1. Decoding(t, k)
        BY <1>0, <1>1, HeadIs DEF IInv, Sound
      <3>. QED
        BY <1>0, <3>1, Kinds DEF Decoding, Slots
    <2>2. \A v \in Vals : /\ refs'[v] = IF v = im THEN refs[v] + 1 ELSE refs[v]
                          /\ v # im => keyRefs'[v] = keyRefs[v]
      BY <1>3, <2>1 DEF IInv, Typed
    <2>3. keyRefs'[im] = IF keyRefs[im] + 1 > ShortMax THEN -ShortMax - 1 ELSE keyRefs[im] + 1
      BY <1>3, <2>1 DEF IInv, Typed
    <2>4. \A v \in Images : keyRefs'[v] = refs'[v] => keyRefs[v] = refs[v]
      <3>1. refs[im] \in Nat /\ keyRefs[im] \in Int /\ ShortMax \in Nat
        BY <2>1, Floor, StoreAssumption
      <3>2. keyRefs'[im] = refs'[im] => keyRefs[im] = refs[im]
        BY <2>1, <2>2, <2>3, <3>1
      <3>. QED
        BY <2>2, <3>2, Kinds
    <2>5. \A v \in Vals : refs'[v] = refs[v] \/ refs[v] = 0 \/ Owned(t, v)
      BY <2>1, <2>2, ImageHeld
    <2>6. id \in Ids /\ ~item[id].live /\ \A j \in Ids : j # id => item'[j] = item[j]
      BY <1>3 DEF FreeIds, KeyExists, IInv, Typed
    <2>7. /\ \A j \in Ids : item[j].live /\ item[j].held => item'[j].val = item[j].val
          /\ \A j \in Listed' : j \in Listed /\ item'[j].key = item[j].key
      BY <1>1, <2>6, ListedIs DEF Listed
    <2>8. PICK d, e : d = <<"store", id, k, "tile">> /\ e = <<"dropkey", id>>
      OBVIOUS
    <2>9. /\ Go(t, <<d, e>>)
          /\ d[1] \notin Apart \cup {"unref"} /\ e[1] \notin Apart \cup {"unref"}
      BY <1>3, <2>8 DEF Apart
    <2>10. Plain(<<d, e>>)
      BY <2>9, PlainLiterals
    <2>. QED
      BY <1>1, <2>4, <2>5, <2>7, <2>9, <2>10, ReapKept
  <1>. QED
    BY <1>0, <1>2, <1>3 DEF MakeKey, Arg

\* ... and one that goes is counted off for both.
LEMMA KeyDropped ==
    ASSUME IInv, NEW t \in Threads, NEW id \in Ids, KeyExists(id),
           NEW k, k = item[id].key, DropKeyImage(k)
    PROVE  /\ \A v \in Vals : refs'[v] = refs[v] \/ refs[v] = 0 \/ Owned(t, v)
           /\ \A v \in Images : keyRefs'[v] = refs'[v] => keyRefs[v] = refs[v]
           /\ Plain(DestroyImageOf(k))
  <1>1. PICK im : im = ImageOf(k)
    OBVIOUS
  <1>2. k \in Keys /\ im \in Images \cup {Null}
    BY <1>1, Kinds DEF IInv, ItemsGood
  <1>3. Plain(DestroyImageOf(k))
    <2>1. PICK e : e = <<"destroy", im>>
      OBVIOUS
    <2>2. DestroyImageOf(k) = <<>> \/ DestroyImageOf(k) = <<e>>
      BY <1>1, <2>1 DEF DestroyImageOf
    <2>3. e[1] \notin Apart \cup {"unref"}
      BY <2>1 DEF Apart
    <2>. QED
      BY <2>2, <2>3, PlainLiterals
  <1>4. CASE im = Null
    BY <1>1, <1>3, <1>4 DEF DropKeyImage, valVars
  <1>5. CASE im # Null
    <2>1. /\ im \in Vals /\ refs' = [refs EXCEPT ![im] = @ - 1]
          /\ keyRefs' = [keyRefs EXCEPT ![im] = @ - 1]
      BY <1>1, <1>2, <1>5, Kinds DEF DropKeyImage
    <2>2. \A v \in Vals : /\ refs'[v] = IF v = im THEN refs[v] - 1 ELSE refs[v]
                          /\ keyRefs'[v] = IF v = im THEN keyRefs[v] - 1 ELSE keyRefs[v]
      BY <2>1 DEF IInv, Typed
    <2>3. \A v \in Images : keyRefs'[v] = refs'[v] => keyRefs[v] = refs[v]
      <3>1. ASSUME NEW v \in Images, keyRefs'[v] = refs'[v] PROVE keyRefs[v] = refs[v]
        <4>1. v \in Vals /\ refs[v] \in Nat /\ keyRefs[v] \in Int
          BY Floor, Kinds
        <4>. QED
          BY <2>2, <3>1, <4>1
      <3>. QED
        BY <3>1
    <2>4. Owned(t, im)
      <3>1. <<id, "key">> \in Handles /\ Pointer(<<id, "key">>) = im
        BY <1>1, PointerIs DEF KeyExists
      <3>2. \A j \in Ids : <<id, "key">> # <<j, "val">>
        OBVIOUS
      <3>. QED
        BY <3>1, <3>2 DEF Owned
    <2>. QED
      BY <1>3, <2>2, <2>3, <2>4
  <1>. QED
    BY <1>4, <1>5

LEMMA DropKeyReap ==
    ASSUME IInv, ReapGood, NEW t \in Threads, DropKey(t)
    PROVE  ReapGood'
  <1>0. PICK id, k : id = Head(agenda[t])[2] /\ k = item[id].key
    OBVIOUS
  <1>1. /\ agenda[t] # <<>> /\ Head(agenda[t])[1] = "dropkey"
        /\ lru' = lru /\ defer' = defer /\ needs' = needs
    BY DEF DropKey, At, storeVars
  <1>2. id \in Ids /\ item[id].mine
    BY <1>0, <1>1, HeadIs DEF IInv, Sound
  <1>3. CASE item[id].live
    <2>1. /\ item' = [item EXCEPT ![id].mine = FALSE] /\ Go(t, <<>>)
          /\ refs' = refs /\ keyRefs' = keyRefs
      BY <1>0, <1>3 DEF DropKey, Arg, valVars
    <2>2. \A j \in Ids : item'[j].key = item[j].key /\ item'[j].val = item[j].val
      BY <1>2, <2>1 DEF IInv, Typed, ItemType
    <2>3. \A j \in Listed' : j \in Listed /\ item'[j].key = item[j].key
      BY <1>1, <2>2, ListedIs DEF Listed
    <2>. QED
      BY <1>1, <2>1, <2>2, <2>3, PlainLiterals, ReapKept
  <1>4. CASE ~item[id].live
    <2>1. /\ item' = [item EXCEPT ![id] = FreeItem] /\ DropKeyImage(k)
          /\ Go(t, DestroyImageOf(k))
      BY <1>0, <1>4 DEF DropKey, Arg
    <2>2. \A j \in Ids : j # id => item'[j] = item[j]
      BY <1>2, <2>1 DEF IInv, Typed
    <2>3. /\ \A j \in Ids : item[j].live /\ item[j].held => item'[j].val = item[j].val
          /\ \A j \in Listed' : j \in Listed /\ item'[j].key = item[j].key
      BY <1>1, <1>4, <2>2, ListedIs DEF Listed
    <2>4. KeyExists(id)
      BY <1>2 DEF KeyExists
    <2>5. /\ \A v \in Vals : refs'[v] = refs[v] \/ refs[v] = 0 \/ Owned(t, v)
          /\ \A v \in Images : keyRefs'[v] = refs'[v] => keyRefs[v] = refs[v]
          /\ Plain(DestroyImageOf(k))
      BY <1>0, <1>2, <2>1, <2>4, KeyDropped
    <2>6. PICK s : s = DestroyImageOf(k)
      OBVIOUS
    <2>7. Go(t, s) /\ Plain(s)
      BY <2>1, <2>5, <2>6
    <2>. QED
      BY <1>1, <2>3, <2>5, <2>7, ReapKept
  <1>. QED
    BY <1>3, <1>4

LEMMA ChainReap ==
    ASSUME IInv, ReapGood, NEW t \in Threads, ChainStep(t)
    PROVE  ReapGood'
  <1>0. PICK q, D, id : Chained(t, q, D, id)
    BY DEF ChainStep, At, Chained
  <1>1. /\ q = Arg(t, 2) /\ D = Arg(t, 3) /\ id = Head(Arg(t, 2))
        /\ Head(agenda[t])[1] # "deferend"
    BY <1>0 DEF Chained, Arg
  <1>2. lru' = lru /\ defer' = defer /\ needs' = needs
    BY DEF ChainStep, storeVars
  <1>c. id \in Ids /\ item[id].live /\ ~item[id].held /\ id \notin Listed
    <2>1. id \in ToSet(q) /\ ToSet(q) \subseteq Ids
      BY <1>0, ChainIs
    <2>2. \A j \in ToSet(q) : item[j].live /\ ~item[j].held /\ Out(j)
      BY <1>0, ChainIs
    <2>. QED
      BY <2>1, <2>2 DEF Out
  <1>p. \A x, y : Plain(<< <<"chain", x, y>> >>)
    <2>1. ASSUME NEW x, NEW y PROVE Plain(<< <<"chain", x, y>> >>)
      <3>1. PICK e : e = <<"chain", x, y>>
        OBVIOUS
      <3>2. e[1] \notin Apart \cup {"unref"}
        BY <3>1 DEF Apart
      <3>. QED
        BY <3>1, <3>2, PlainLiterals
    <2>. QED
      BY ZenonT(20), <2>1
  <1>3. CASE id \in D
    <2>1. /\ Go(t, << <<"chain", q, D \ {id}>> >>)
          /\ item' = item /\ refs' = refs /\ keyRefs' = keyRefs
      BY <1>1, <1>3 DEF ChainStep
    <2>2. PICK s : s = << <<"chain", q, D \ {id}>> >>
      OBVIOUS
    <2>3. Go(t, s) /\ Plain(s)
      BY <1>p, <2>1, <2>2
    <2>. QED
      BY <1>1, <1>2, <2>1, <2>3, ReapStill
  <1>4. CASE id \notin D
    <2>0. PICK b : b = IF Tail(q) = <<>> THEN <<>> ELSE << <<"chain", Tail(q), D>> >>
      OBVIOUS
    <2>b. Plain(b)
      BY <1>p, <2>0, PlainLiterals
    <2>1. CASE item[id].mine
      <3>1. /\ item' = [item EXCEPT ![id].live = FALSE, ![id].val = Null] /\ Go(t, b)
            /\ refs' = refs /\ keyRefs' = keyRefs
        BY <1>1, <1>4, <2>0, <2>1 DEF ChainStep, valVars
      <3>2. \A j \in Ids : j # id => item'[j] = item[j]
        BY <1>c, <3>1 DEF IInv, Typed
      <3>3. /\ \A j \in Ids : item[j].live /\ item[j].held => item'[j].val = item[j].val
            /\ \A j \in Listed' : j \in Listed /\ item'[j].key = item[j].key
        BY <1>2, <1>c, <3>2, ListedIs DEF Listed
      <3>. QED
        BY <1>1, <1>2, <2>b, <3>1, <3>3, ReapKept
    <2>2. CASE ~item[id].mine
      <3>0. PICK k, a, s : k = item[id].key /\ a = DestroyImageOf(k) /\ s = a \o b
        OBVIOUS
      <3>1. /\ item' = [item EXCEPT ![id] = FreeItem] /\ DropKeyImage(k) /\ Go(t, s)
        BY <1>1, <1>4, <2>0, <2>2, <3>0 DEF ChainStep
      <3>2. \A j \in Ids : j # id => item'[j] = item[j]
        BY <1>c, <3>1 DEF IInv, Typed
      <3>3. /\ \A j \in Ids : item[j].live /\ item[j].held => item'[j].val = item[j].val
            /\ \A j \in Listed' : j \in Listed /\ item'[j].key = item[j].key
        BY <1>2, <1>c, <3>2, ListedIs DEF Listed
      <3>4. KeyExists(id)
        BY <1>c DEF KeyExists
      <3>5. /\ \A v \in Vals : refs'[v] = refs[v] \/ refs[v] = 0 \/ Owned(t, v)
            /\ \A v \in Images : keyRefs'[v] = refs'[v] => keyRefs[v] = refs[v]
            /\ Plain(a)
        BY <1>c, <3>0, <3>1, <3>4, KeyDropped
      <3>6. Plain(s)
        BY <2>b, <3>0, <3>5, PlainLiterals
      <3>. QED
        BY <1>1, <1>2, <3>1, <3>3, <3>5, <3>6, ReapKept
    <2>. QED
      BY <2>1, <2>2
  <1>. QED
    BY <1>3, <1>4

-----------------------------------------------------------------------------
\* A drop of a tile is not a drop of an image.
LEMMA DropTileReap ==
    ASSUME IInv, ReapGood, NEW t \in Threads, NEW s \in Slots, s # "img", hold[t][s] # Null,
           DropTile(t, s), agenda[t] = <<>> \/ Head(agenda[t])[1] # "deferend"
    PROVE  ReapGood'
  <1>0. PICK v : v = hold[t][s]
    OBVIOUS
  <1>1. v \in Tiles /\ v \in Vals /\ v \notin Images
    BY <1>0, Kinds DEF IInv, SlotsGood, Slots
  <1>2. /\ refs' = Unref(refs, v) /\ keyRefs' = keyRefs /\ lru' = lru /\ item' = item
        /\ defer' = defer /\ needs' = needs
    BY <1>0 DEF DropTile, DropSlot
  <1>3. PICK r : Go(t, r) /\ Plain(r)
    <2>1. CASE Go(t, << <<"destroy", v>> >>)
      <3>1. PICK e : e = <<"destroy", v>>
        OBVIOUS
      <3>2. Go(t, <<e>>) /\ e[1] \notin Apart \cup {"unref"}
        BY <2>1, <3>1 DEF Apart
      <3>. QED
        BY <3>2, PlainLiterals
    <2>2. CASE \E n, wanted : ScavengeOrNot(t, n, wanted)
      BY <2>2, ScavengeOrNotIs
    <2>. QED
      BY <1>0, <2>1, <2>2 DEF DropTile
  <1>4. \A w \in Vals : w # v => refs'[w] = refs[w]
    BY <1>1, <1>2, RefIs
  <1>5. /\ \A w \in Vals : refs'[w] = refs[w] \/ refs[w] = 0 \/ Owned(t, w)
        /\ \A w \in Images : keyRefs'[w] = refs'[w] => keyRefs[w] = refs[w]
    BY <1>0, <1>1, <1>2, <1>4, ImageHeld, Kinds
  <1>6. Listed' = Listed
    BY <1>2 DEF Listed
  <1>. QED
    BY <1>2, <1>3, <1>5, <1>6, ReapKept

LEMMA DropOwnReap ==
    ASSUME IInv, ReapGood, NEW t \in Threads,
           DropOwn(t) \/ \E s \in Slots : FinishWithTile(t, s)
    PROVE  ReapGood'
  <1>1. CASE DropOwn(t)
    <2>1. agenda[t] # <<>> /\ Head(agenda[t])[1] = "dropown" /\ DropTile(t, "tile")
      BY <1>1 DEF DropOwn, At
    <2>2. hold[t]["tile"] # Null /\ "tile" \in Slots
      BY <2>1, HeadIs DEF IInv, Sound, Slots
    <2>. QED
      BY <2>1, <2>2, DropTileReap
  <1>2. CASE \E s \in Slots : FinishWithTile(t, s)
    BY <1>2, DropTileReap DEF FinishWithTile, Idle
  <1>. QED
    BY <1>1, <1>2

(***************************************************************************)
(* An item whose value nobody else has gives it up: the value dies, and if *)
(* it is an image there is no key with it.                                 *)
(***************************************************************************)
LEMMA LastDisowned ==
    ASSUME IInv, NEW t \in Threads, NEW id \in Ids, item[id].live, item[id].held,
           refs[item[id].val] = 1, ~Out(id) \/ <<"item", id>> \in HeadClaims(t),
           Disown({id}), hold' = hold
    PROVE  /\ \A j \in Ids : item'[j].key = item[j].key /\ item'[j].val = item[j].val
           /\ \A v \in Vals : refs'[v] = refs[v] \/ refs[v] = 0 \/ Owned(t, v)
           /\ \A v \in Images : keyRefs'[v] = refs'[v] =>
                \/ keyRefs[v] = refs[v]
                \/ \A j \in Listed : ImageOf(item[j].key) # v
  <1>0. PICK w, S : w = item[id].val /\ S = {id}
    OBVIOUS
  <1>1. w \in Vals
    BY <1>0, Kinds DEF IInv, ItemsGood, KeyExists, Val
  <1>2. \A j \in Ids : item'[j].key = item[j].key /\ item'[j].val = item[j].val
    <2>1. S \in SUBSET Ids /\ Disown(S) /\ \A j \in S : item[j].live /\ item[j].held
      BY <1>0
    <2>2. /\ \A j \in Ids \ S : item'[j] = item[j]
          /\ \A j \in S : item'[j].key = item[j].key /\ item'[j].val = item[j].val
      BY <2>1, DisownIs
    <2>. QED
      BY <2>2
  <1>3. \A v \in Vals : v # w => refs'[v] = refs[v]
    <2>1. SUFFICES ASSUME NEW v \in Vals, v # w PROVE refs'[v] = refs[v]
      OBVIOUS
    <2>2. {j \in {id} : Val(j) = v} = {}
      BY <1>0, <2>1 DEF Val
    <2>3. refs'[v] = IF refs[v] > 0 THEN refs[v] - Cardinality({j \in {id} : Val(j) = v})
                     ELSE refs[v]
      BY DEF Disown
    <2>4. PICK n : n = Cardinality({j \in {id} : Val(j) = v})
      OBVIOUS
    <2>5. n = 0
      BY <2>2, <2>4, FS_EmptySet
    <2>6. refs[v] \in Nat
      BY Floor
    <2>7. refs'[v] = IF refs[v] > 0 THEN refs[v] - n ELSE refs[v]
      BY <2>3, <2>4
    <2>. QED
      BY <2>5, <2>6, <2>7
  <1>4. <<id, "val">> \in Handles /\ Pointer(<<id, "val">>) = w
    BY <1>0, PointerIs
  <1>5. Owned(t, w)
    <2>1. \A j \in Ids : <<id, "val">> = <<j, "val">> => j = id
      OBVIOUS
    <2>. QED
      BY <1>4, <2>1 DEF Owned
  <1>6. \A j \in Listed : ImageOf(item[j].key) # w
    <2>1. SUFFICES ASSUME NEW j \in Listed, ImageOf(item[j].key) = w PROVE FALSE
      OBVIOUS
    <2>2. <<j, "key">> \in Handles /\ Pointer(<<j, "key">>) = w
      BY <2>1, KeyedIs
    <2>3. <<j, "key">> # <<id, "val">>
      OBVIOUS
    <2>. QED
      BY <1>0, <1>1, <1>4, <2>2, <2>3, Floor
  <1>7. keyRefs' = keyRefs
    BY DEF Disown
  <1>. QED
    BY <1>2, <1>3, <1>5, <1>6, <1>7, Kinds

\* What is left to be done with items that leave the list.
LEMMA PlainChain ==
    /\ \A S : Plain(Chain(S))
    /\ \A x, y : Plain(<< <<"chain", x, y>> >>)
  <1>1. ASSUME NEW x, NEW y PROVE Plain(<< <<"chain", x, y>> >>)
    <2>1. PICK e : e = <<"chain", x, y>>
      OBVIOUS
    <2>2. e[1] \notin Apart \cup {"unref"}
      BY <2>1 DEF Apart
    <2>. QED
      BY <2>1, <2>2, PlainLiterals
  <1>2. ASSUME NEW S PROVE Plain(Chain(S))
    BY <1>1, PlainLiterals DEF Chain
  <1>. QED
    BY <1>1, <1>2

LEMMA ScavengeReap ==
    ASSUME IInv, ReapGood, NEW t \in Threads, Scavenge(t)
    PROVE  ReapGood'
  <1>0. PICK need, first, after, T, id :
            /\ need = Arg(t, 2) /\ first = Arg(t, 3) /\ after = Arg(t, 4)
            /\ T = (IF first \/ need > 0 THEN Suffix(need) ELSE {})
            /\ id = Largest(T)
    OBVIOUS
  <1>1. /\ Head(agenda[t])[1] # "deferend" /\ hold' = hold /\ defer' = defer /\ needs' = needs
    BY DEF Scavenge, At
  <1>2. T \subseteq Listed /\ \A j \in T : refs[item[j].val] = 1
    <2>1. \E i : Suffix(need) = From(i)
      BY DEF Suffix
    <2>. QED
      BY <1>0, <2>1, UnusedOnly
  <1>3. CASE T # {}
    <2>1. PICK e, a, s : /\ e = <<"scav", need - Size(Val(id)), FALSE, after>>
                         /\ a = Chain({id}) /\ s = a \o <<e>>
      OBVIOUS
    <2>2. /\ lru' = Without({id}) /\ Disown({id}) /\ Go(t, s)
      BY <1>0, <1>3, <2>1 DEF Scavenge, Unlink
    <2>3. id \in T
      BY <1>0, <1>2, <1>3, LargestIs
    <2>4. /\ id \in Ids /\ item[id].live /\ item[id].held /\ refs[item[id].val] = 1 /\ ~Out(id)
      BY <1>2, <2>3, ListedIs DEF Out
    <2>5. /\ \A j \in Ids : item'[j].key = item[j].key /\ item'[j].val = item[j].val
          /\ \A v \in Vals : refs'[v] = refs[v] \/ refs[v] = 0 \/ Owned(t, v)
          /\ \A v \in Images : keyRefs'[v] = refs'[v] =>
                \/ keyRefs[v] = refs[v]
                \/ \A j \in Listed : ImageOf(item[j].key) # v
      BY <1>1, <2>2, <2>4, LastDisowned
    <2>6. \A j \in Listed' : j \in Listed /\ item'[j].key = item[j].key
      <3>1. Listed' = Listed \ {id} /\ Listed \subseteq Ids
        BY <2>2, UnlinkedIs, ListedIs
      <3>. QED
        BY <2>5, <3>1
    <2>7. Plain(s)
      <3>1. e[1] \notin Apart \cup {"unref"}
        BY <2>1 DEF Apart
      <3>2. Plain(a) /\ Plain(<<e>>)
        BY <2>1, <3>1, PlainChain, PlainLiterals
      <3>. QED
        BY <2>1, <3>2, PlainLiterals
    <2>. QED
      BY <1>1, <2>2, <2>5, <2>6, <2>7, ReapKept
  <1>4. CASE T = {}
    <2>1. lru' = lru /\ item' = item /\ refs' = refs /\ keyRefs' = keyRefs
      BY <1>0, <1>4 DEF Scavenge, valVars
    <2>2. PICK s : Go(t, s) /\ Plain(s)
      <3>1. PICK e : e = <<"malloc", after[1], after[2]>>
        OBVIOUS
      <3>2. Go(t, <<>>) \/ Go(t, <<e>>)
        BY <1>0, <1>4, <3>1 DEF Scavenge
      <3>3. e[1] \notin Apart \cup {"unref"}
        BY <3>1 DEF Apart
      <3>. QED
        BY <3>2, <3>3, PlainLiterals
    <2>. QED
      BY <1>1, <2>1, <2>2, ReapStill
  <1>. QED
    BY <1>3, <1>4

LEMMA FreeVictimReap ==
    ASSUME IInv, ReapGood, NEW t \in Threads, FreeVictim(t)
    PROVE  ReapGood'
  <1>0. PICK id, D : /\ id = Head(agenda[t])[2]
                     /\ D = (IF refs[Val(id)] = 1 THEN {id} ELSE {})
    OBVIOUS
  <1>1. /\ agenda[t] # <<>> /\ Head(agenda[t])[1] = "unref" /\ Disown({id})
        /\ lru' = lru /\ hold' = hold /\ defer' = defer /\ needs' = needs
        /\ Go(t, << <<"chain", <<id>>, D>> >>)
    BY <1>0 DEF FreeVictim, At, Arg, storeVars
  <1>2. /\ id \in Ids /\ item[id].live /\ item[id].held /\ <<"item", id>> \in HeadClaims(t)
    <2>1. Sound(t, Head(agenda[t])) /\ HeadClaims(t) = Claim(item, Head(agenda[t]))
      BY <1>1, HeadIs DEF IInv
    <2>. QED
      BY <1>0, <1>1, <2>1 DEF Sound, Claim
  <1>3. refs[item[id].val] = 1
    <2>1. Head(agenda[t]) \in ToSet(agenda[t])
      BY <1>1, HeadIs DEF IInv, ToSet
    <2>. QED
      BY <1>0, <1>1, <2>1 DEF ReapGood, VictimsAlone
  <1>4. /\ \A j \in Ids : item'[j].key = item[j].key /\ item'[j].val = item[j].val
        /\ \A v \in Vals : refs'[v] = refs[v] \/ refs[v] = 0 \/ Owned(t, v)
        /\ \A v \in Images : keyRefs'[v] = refs'[v] =>
              \/ keyRefs[v] = refs[v]
              \/ \A j \in Listed : ImageOf(item[j].key) # v
    BY <1>1, <1>2, <1>3, LastDisowned
  <1>5. \A j \in Listed' : j \in Listed /\ item'[j].key = item[j].key
    BY <1>1, <1>4, ListedIs DEF Listed
  <1>6. PICK s : s = << <<"chain", <<id>>, D>> >>
    OBVIOUS
  <1>7. Go(t, s) /\ Plain(s)
    BY <1>1, <1>6, PlainChain
  <1>. QED
    BY <1>1, <1>4, <1>5, <1>7, ReapKept

-----------------------------------------------------------------------------
\* What a thread is storing it has, with its image.
LEMMA FinishReap ==
    ASSUME IInv, ReapGood, NEW t \in Threads, Finish(t)
    PROVE  ReapGood'
  <1>0. PICK id : id = Head(agenda[t])[2]
    OBVIOUS
  <1>1. /\ agenda[t] # <<>> /\ Head(agenda[t])[1] = "finish" /\ Go(t, <<>>)
        /\ lru' = Touch(id) /\ item' = item /\ refs' = refs /\ keyRefs' = keyRefs
        /\ defer' = defer /\ needs' = needs
    BY <1>0 DEF Finish, At, Arg, valVars
  <1>2. Secured(t, id)
    BY <1>0, <1>1, StoringIs DEF Storings
  <1>3. id \in Ids /\ ~NeedsReap(item[id].key)
    BY <1>2, SecuredTwice DEF Secured
  <1>4. ~NeedsReap(item[id].key)'
    BY <1>1, <1>3 DEF NeedsReap
  <1>5. Listed' = Listed \cup {id}
    BY <1>1, <1>3, TouchIs DEF IInv, Typed, Listed
  <1>. QED
    BY <1>1, <1>4, <1>5, PlainLiterals, ReapKept

LEMMA EnsureSpaceReap ==
    ASSUME IInv, ReapGood, NEW t \in Threads, NEW id, EnsureSpace(t, id),
           Head(agenda[t])[1] # "deferend"
    PROVE  ReapGood'
  <1>0. PICK S, q, r, e, b, s :
            /\ S = Victims(Excess(id)) /\ q = InOrder(S)
            /\ r = [i \in 1 .. Len(q) |-> <<"unref", q[i]>>]
            /\ e = <<"finish", id>> /\ b = <<e>> /\ s = r \o b
    OBVIOUS
  <1>1. /\ lru' = Without(S) /\ item' = item /\ refs' = refs /\ keyRefs' = keyRefs
        /\ defer' = defer /\ needs' = needs /\ Go(t, s)
    BY <1>0 DEF EnsureSpace, Unlink, valVars
  <1>2. S \subseteq Listed /\ \A j \in S : refs[item[j].val] = 1
    <2>1. S = {} \/ \E i : S = From(i)
      BY <1>0 DEF Victims
    <2>. QED
      BY <2>1, UnusedOnly
  <1>3. q \in Seq(Ids) /\ IsInjective(q) /\ ToSet(q) = S
    <2>1. lru \in Seq(Ids) /\ IsInjective(lru) /\ Listed \cap S = S
      BY <1>2 DEF IInv, Typed, ListGood
    <2>. QED
      BY <1>0, <2>1, InOrderIs
  <1>4. Sequence(r) /\ ToSet(r) = {<<"unref", j>> : j \in S}
    <2>1. r = [i \in 1 .. Len(q) |-> <<"unref", q[i]>>]
      BY <1>0
    <2>2. Sequence(r) /\ ToSet(r) = {<<"unref", j>> : j \in ToSet(q)}
      BY <1>3, <2>1, UnrefsAre
    <2>. QED
      BY <1>3, <2>2
  <1>5. Sequence(b) /\ ToSet(b) = {e}
    BY <1>0, Literals
  <1>6. Sequence(s) /\ ToSet(s) = ToSet(r) \cup {e}
    <2>1. Sequence(r \o b) /\ ToSet(r \o b) = ToSet(r) \cup ToSet(b)
      BY <1>4, <1>5, ConcatIs
    <2>. QED
      BY <1>0, <1>5, <2>1, Zenon
  <1>7. ASSUME NEW d \in ToSet(s)
        PROVE  d[1] \notin Apart /\ (d[1] = "unref" => refs'[item'[d[2]].val] = 1)
    <2>1. CASE d = e
      BY <1>0, <2>1 DEF Apart
    <2>2. CASE d \in ToSet(r)
      <3>1. PICK j \in S : d = <<"unref", j>>
        BY <1>4, <2>2
      <3>2. d[1] = "unref" /\ d[2] = j
        BY <3>1
      <3>. QED
        BY <1>1, <1>2, <3>2 DEF Apart
    <2>. QED
      BY <1>6, <2>1, <2>2
  <1>8. Defers'
    BY <1>1, <1>6, <1>7, DefersKept DEF ReapGood, IInv
  <1>9. VictimsAlone'
    BY <1>1, <1>6, <1>7, VictimsKept DEF ReapGood
  <1>10. Remembered'
    <2>1. Listed' = Listed \ S
      BY <1>1, UnlinkedIs
    <2>. QED
      BY <1>1, <2>1 DEF ReapGood, Remembered, Due, NeedsReap
  <1>. QED
    BY <1>8, <1>9, <1>10 DEF ReapGood

LEMMA RoomReap ==
    ASSUME IInv, ReapGood, NEW t \in Threads, Room(t) \/ RoomAgain(t)
    PROVE  ReapGood'
  <1>0. PICK id, d, e, f : /\ id = Head(agenda[t])[2] /\ d = <<"reap">>
                           /\ e = <<"again", id>> /\ f = <<"finish", id>>
    OBVIOUS
  <1>1. Head(agenda[t])[1] # "deferend"
    BY DEF Room, RoomAgain, At
  <1>2. CASE EnsureSpace(t, id)
    BY <1>1, <1>2, EnsureSpaceReap
  <1>3. CASE Still /\ defer' = defer /\ needs' = needs /\ (Go(t, <<f>>) \/ Go(t, <<d, e>>))
    <2>1. /\ d[1] \notin Apart \cup {"unref"} /\ e[1] \notin Apart \cup {"unref"}
          /\ f[1] \notin Apart \cup {"unref"}
      BY <1>0 DEF Apart
    <2>2. Plain(<<f>>) /\ Plain(<<d, e>>)
      BY <2>1, PlainLiterals
    <2>. QED
      BY <1>1, <1>3, <2>2, ReapStill DEF Still
  <1>. QED
    BY <1>0, <1>2, <1>3 DEF Room, RoomAgain, Arg, Still, storeVars, valVars

-----------------------------------------------------------------------------
(***************************************************************************)
(* A reference to an image goes: if only keys are left, it is reaped now   *)
(* or remembered.                                                          *)
(***************************************************************************)
LEMMA DropImageReap ==
    ASSUME IInv, ReapGood, NEW t \in Threads, hold[t]["img"] # Null, DropImage(t),
           agenda[t] = <<>> \/ Head(agenda[t])[1] # "deferend"
    PROVE  Defers' /\ VictimsAlone' /\ (ReapNext' \/ Remembered')
  <1>0. PICK v : v = hold[t]["img"]
    OBVIOUS
  <1>1. v \in Vals /\ "img" \in Slots /\ Typed
    <2>1. Typed /\ "img" \in Slots
      BY DEF IInv, Slots
    <2>2. hold[t]["img"] \in Vals \cup {Null}
      BY <2>1 DEF Typed
    <2>. QED
      BY <1>0, <2>1, <2>2
  <1>2. /\ refs' = Unref(refs, v) /\ keyRefs' = keyRefs /\ item' = item /\ lru' = lru
        /\ defer' = defer
        /\ needs' = (needs \/ (refs[v] # 1 /\ refs[v] - 1 = keyRefs[v] /\ defer > 0))
    BY <1>0 DEF DropImage, DropSlot
  <1>3. /\ keyRefs[v] < refs[v] /\ refs[v] \in Nat /\ keyRefs[v] \in Int /\ Owned(t, v)
        /\ <<t, "img">> \in Handles /\ Pointer(<<t, "img">>) = v
    BY <1>0, <1>1, ImageHeld, PointerIs
  <1>4. \A w \in Vals : refs'[w] = IF w = v /\ refs[v] > 0 THEN refs[w] - 1 ELSE refs[w]
    BY <1>1, <1>2, RefIs
  <1>5. Listed' = Listed
    BY <1>2 DEF Listed
  <1>6. defer \in Nat
    BY DeferringFinite DEF ReapGood, Defers
  <1>7. PICK s : Go(t, s) /\ s \in { <<>>, << <<"destroy", v>> >>, << <<"reap">> >> }
    BY <1>0 DEF DropImage
  <1>8. Plain(s)
    <2>1. PICK d, e : d = <<"destroy", v>> /\ e = <<"reap">>
      OBVIOUS
    <2>2. d[1] \notin Apart \cup {"unref"} /\ e[1] \notin Apart \cup {"unref"}
      BY <2>1 DEF Apart
    <2>3. s = <<>> \/ s = <<d>> \/ s = <<e>>
      BY <1>7, <2>1
    <2>. QED
      BY <2>2, <2>3, PlainLiterals
  <1>9. Sequence(s) /\ \A e \in ToSet(s) : e[1] \notin Apart /\ e[1] # "unref"
    BY <1>8 DEF Plain
  <1>10. Defers'
    BY <1>1, <1>2, <1>7, <1>9, DefersKept DEF ReapGood
  <1>11. VictimsAlone'
    BY <1>2, <1>3, <1>4, <1>7, <1>9, VictimsKept DEF ReapGood
  \* Nothing is kept for v that was not, or it would be due now.
  <1>12. ASSUME NEW id \in Listed, NeedsReap(item[id].key)'
         PROVE  \/ NeedsReap(item[id].key)
                \/ refs[v] # 1 /\ refs[v] - 1 = keyRefs[v]
    <2>1. PICK w : w = ImageOf(item[id].key)
      OBVIOUS
    <2>2. /\ w \in Images /\ keyRefs'[w] = refs'[w] /\ w \in Vals
          /\ <<id, "key">> \in Handles /\ Pointer(<<id, "key">>) = w
      BY <1>2, <1>12, <2>1, KeyedIs, Kinds DEF NeedsReap
    <2>3. CASE w # v
      BY <1>2, <1>4, <2>1, <2>2, <2>3, Kinds DEF NeedsReap
    <2>4. CASE w = v
      <3>1. <<id, "key">> # <<t, "img">>
        OBVIOUS
      <3>2. refs[v] >= 2
        BY <1>1, <1>3, <2>2, <2>4, <3>1, Floor
      <3>3. keyRefs[v] = refs[v] - 1
        BY <1>1, <1>2, <1>3, <1>4, <2>2, <2>4, <3>2
      <3>. QED
        BY <1>3, <3>2, <3>3
    <2>. QED
      BY <2>3, <2>4
  <1>13. ReapNext' \/ Remembered'
    <2>1. CASE refs[v] # 1 /\ refs[v] - 1 = keyRefs[v] /\ defer = 0
      <3>1. lock' = t /\ Go(t, << <<"reap">> >>)
        BY <1>0, <2>1 DEF DropImage, KeepLock
      <3>2. PICK e : e = <<"reap">>
        OBVIOUS
      <3>3. PICK q : q = <<e>>
        OBVIOUS
      <3>4. Go(t, q) /\ Sequence(q) /\ q[1] = e /\ Len(q) = 1
        BY <3>1, <3>2, <3>3, Literals
      <3>5. agenda'[t] = q \o Rest(t) /\ Sequence(Rest(t))
        BY <1>1, <3>4, GoIs, RestIs
      <3>6. agenda'[t][1] = e /\ agenda'[t] # <<>>
        BY <3>4, <3>5, ConcatIs
      <3>. QED
        BY <3>1, <3>2, <3>6 DEF ReapNext
    <2>2. CASE refs[v] # 1 /\ refs[v] - 1 = keyRefs[v] /\ defer # 0
      <3>1. defer > 0 /\ defer' # 0
        BY <1>2, <1>6, <2>2
      <3>2. needs'
        BY <1>2, <2>2, <3>1, Zenon
      <3>. QED
        BY <3>1, <3>2 DEF Remembered
    <2>3. CASE ~(refs[v] # 1 /\ refs[v] - 1 = keyRefs[v])
      <3>1. needs' <=> needs
        BY <1>2, <2>3, Zenon
      <3>2. Due' => Due
        BY <1>2, <1>5, <1>12, <2>3 DEF Due
      <3>. QED
        BY <1>2, <3>1, <3>2 DEF ReapGood, Remembered
    <2>. QED
      BY <2>1, <2>2, <2>3
  <1>. QED
    BY <1>10, <1>11, <1>13

LEMMA FinishImageReap ==
    ASSUME IInv, ReapGood, NEW t \in Threads, FinishWithImage(t) \/ DropListImage(t)
    PROVE  Defers' /\ VictimsAlone' /\ (ReapNext' \/ Remembered')
  <1>1. CASE FinishWithImage(t)
    BY <1>1, DropImageReap DEF FinishWithImage, Idle
  <1>2. CASE DropListImage(t)
    <2>1. agenda[t] # <<>> /\ Head(agenda[t])[1] = "dropimage" /\ DropImage(t)
      BY <1>2 DEF DropListImage, At
    <2>2. hold[t]["img"] # Null
      BY <2>1, HeadIs DEF IInv, Sound
    <2>. QED
      BY <2>1, <2>2, DropImageReap
  <1>. QED
    BY <1>1, <1>2

\* Who ends the last deferral reaps, if that is due.
LEMMA DeferEndReap ==
    ASSUME IInv, ReapGood, NEW t \in Threads, DeferEnd(t)
    PROVE  Defers' /\ VictimsAlone' /\ (ReapNext' \/ Remembered')
  <1>0. PICK e, q : e = <<"reap">> /\ q = <<e>>
    OBVIOUS
  <1>1. /\ agenda[t] # <<>> /\ Head(agenda[t])[1] = "deferend" /\ defer' = defer - 1
        /\ lru' = lru /\ needs' = needs /\ item' = item /\ refs' = refs /\ keyRefs' = keyRefs
        /\ IF defer' = 0 /\ needs THEN lock' = t /\ Go(t, q) ELSE Go(t, <<>>)
    BY <1>0 DEF DeferEnd, At, valVars, KeepLock
  <1>2. e[1] \notin Apart \cup {"unref"}
    BY <1>0 DEF Apart
  <1>3. Plain(q) /\ Plain(<<>>)
    BY <1>0, <1>2, PlainLiterals
  <1>4. PICK s : Go(t, s) /\ Plain(s)
    BY <1>1, <1>3
  <1>5. Defers'
    BY <1>1, <1>4, DefersEnded DEF ReapGood, IInv
  <1>6. VictimsAlone'
    BY <1>1, <1>4, VictimsKept DEF ReapGood, Plain
  <1>7. ReapNext' \/ Remembered'
    <2>1. CASE defer' = 0 /\ needs
      <3>1. agenda'[t] = q \o Rest(t) /\ Sequence(Rest(t))
        BY <1>1, <1>3, <2>1, GoIs, RestIs DEF IInv, Plain
      <3>2. Sequence(q) /\ q[1] = e /\ Len(q) = 1
        BY <1>0, Literals
      <3>r. PICK r : r = Rest(t)
        OBVIOUS
      <3>s. /\ Sequence(q \o r) /\ Len(q \o r) = Len(q) + Len(r) /\ Len(r) \in Nat
            /\ \A i \in 1 .. Len(q) : (q \o r)[i] = q[i]
        BY ZenonT(20), <3>1, <3>2, <3>r, ConcatIs
      <3>3. agenda'[t][1] = e /\ agenda'[t] # <<>>
        BY <3>1, <3>2, <3>r, <3>s
      <3>4. lock' = t
        BY <1>1, <2>1
      <3>5. e[1] = "reap"
        BY <1>0
      <3>. QED
        BY <3>3, <3>4, <3>5 DEF ReapNext
    <2>2. CASE ~(defer' = 0 /\ needs)
      <3>1. Due' = Due
        BY <1>1 DEF Due, NeedsReap, Listed
      <3>. QED
        BY <1>1, <2>2, <3>1 DEF ReapGood, Remembered
    <2>. QED
      BY <2>1, <2>2
  <1>. QED
    BY <1>5, <1>6, <1>7

LEMMA DropListReap ==
    ASSUME IInv, ReapGood, NEW t \in Threads, DropList(t)
    PROVE  ReapGood'
  <1>0. PICK e, d, q : e = <<"dropimage">> /\ d = <<"deferend">> /\ q = <<e, d>>
    OBVIOUS
  <1>1. /\ agenda[t] = <<>> /\ Go(t, q) /\ Go(t, <<e, d>>) /\ defer' = defer + 1
        /\ lru' = lru /\ needs' = needs /\ item' = item /\ refs' = refs /\ keyRefs' = keyRefs
    BY <1>0 DEF DropList, Idle, valVars
  <1>2. /\ e[1] \notin {"deferend", "filter", "empty"} /\ d[1] = "deferend"
        /\ e[1] # "unref" /\ d[1] # "unref"
    BY <1>0
  <1>3. Defers' /\ defer' # 0
    BY <1>1, <1>2, DefersBegun DEF ReapGood, IInv
  <1>4. VictimsAlone'
    <2>1. Sequence(q) /\ ToSet(q) = {e, d}
      BY <1>0, Literals
    <2>2. \A f \in ToSet(q) : f[1] # "unref"
      BY <1>2, <2>1
    <2>. QED
      BY <1>1, <2>1, <2>2, VictimsKept DEF ReapGood
  <1>5. Due' = Due
    BY <1>1 DEF Due, NeedsReap, Listed
  <1>. QED
    BY <1>1, <1>3, <1>4, <1>5 DEF ReapGood, Remembered

(***************************************************************************)
(* do_reap takes out the tiles of images that only keys refer to, and      *)
(* nothing that an image is counted for; none is left.                     *)
(***************************************************************************)
LEMMA ReapReap ==
    ASSUME IInv, Defers, VictimsAlone, NEW t \in Threads, Reap(t)
    PROVE  ReapGood'
  <1>0. PICK S : S = {id \in Listed : NeedsReap(item[id].key)}
    OBVIOUS
  <1>1. /\ agenda[t] # <<>> /\ Head(agenda[t])[1] = "reap"
        /\ lru' = Without(S) /\ Disown(S) /\ Go(t, Chain(S))
        /\ hold' = hold /\ defer' = defer /\ needs' = FALSE
    BY <1>0 DEF Reap, At, Unlink
  <1>2. /\ S \in SUBSET Ids
        /\ \A j \in S : item[j].live /\ item[j].held /\ item[j].val \in Vals /\ ~Out(j)
    BY <1>0, ListedIs DEF Out
  <1>3. \A j \in Ids : item'[j].key = item[j].key /\ item'[j].val = item[j].val
    BY <1>1, <1>2, DisownIs
  <1>4. \A j \in S : item[j].val \notin Images
    <2>1. SUFFICES ASSUME NEW j \in S PROVE item[j].val \notin Images
      OBVIOUS
    <2>2. ImageOf(item[j].key) # Null /\ item[j].key \in Keys /\ KeyExists(j) /\ item[j].live
      BY <1>0, <2>1, KeyedIs DEF NeedsReap, KeyExists
    <2>3. item[j].key \in TileKeys
      BY <2>2 DEF Keys, ObjKeys, ImageOf
    <2>. QED
      BY <1>2, <2>1, <2>2, <2>3, Kinds DEF IInv, ItemsGood, Val
  <1>5. \A v \in Vals : \/ refs'[v] = refs[v]
                        \/ \E j \in S : item[j].val = v
    <2>1. SUFFICES ASSUME NEW v \in Vals, \A j \in S : item[j].val # v PROVE refs'[v] = refs[v]
      OBVIOUS
    <2>2. {j \in S : Val(j) = v} = {}
      BY <2>1 DEF Val
    <2>3. refs'[v] = IF refs[v] > 0 THEN refs[v] - Cardinality({j \in S : Val(j) = v})
                     ELSE refs[v]
      BY <1>1 DEF Disown
    <2>4. PICK n : n = Cardinality({j \in S : Val(j) = v})
      OBVIOUS
    <2>5. n = 0
      BY <2>2, <2>4, FS_EmptySet
    <2>6. refs[v] \in Nat
      BY Floor
    <2>7. refs'[v] = IF refs[v] > 0 THEN refs[v] - n ELSE refs[v]
      BY <2>3, <2>4
    <2>. QED
      BY <2>5, <2>6, <2>7
  <1>6. \A v \in Vals : refs'[v] = refs[v] \/ Owned(t, v)
    <2>1. ASSUME NEW v \in Vals, NEW j \in S, item[j].val = v PROVE Owned(t, v)
      <3>1. <<j, "val">> \in Handles /\ Pointer(<<j, "val">>) = v
        BY <1>2, <2>1, PointerIs
      <3>2. \A i \in Ids : <<j, "val">> = <<i, "val">> => ~Out(i)
        BY <1>2
      <3>. QED
        BY <3>1, <3>2 DEF Owned
    <2>. QED
      BY <1>5, <2>1
  <1>7. Plain(Chain(S)) /\ Sequence(Chain(S))
    BY PlainChain DEF Plain
  <1>8. \A e \in ToSet(Chain(S)) : e[1] \notin Apart /\ e[1] # "unref"
    BY <1>7 DEF Plain
  <1>9. Defers'
    BY <1>1, <1>7, <1>8, DefersKept DEF IInv
  <1>10. VictimsAlone'
    BY <1>1, <1>3, <1>6, <1>7, <1>8, VictimsKept
  <1>11. ~Due'
    <2>1. SUFFICES ASSUME NEW id \in Listed', NeedsReap(item[id].key)' PROVE FALSE
      BY DEF Due
    <2>2. id \in Listed /\ id \notin S
      BY <1>1, <2>1, UnlinkedIs
    <2>3. PICK v : v = ImageOf(item[id].key)
      OBVIOUS
    <2>4. id \in Ids /\ v \in Images \cup {Null} /\ item'[id].key = item[id].key
      BY <1>3, <2>2, <2>3, KeyedIs
    <2>5. v \in Images /\ keyRefs'[v] = refs'[v]
      BY <2>1, <2>3, <2>4 DEF NeedsReap
    <2>6. refs'[v] = refs[v] /\ keyRefs'[v] = keyRefs[v]
      <3>1. keyRefs' = keyRefs
        BY <1>1 DEF Disown
      <3>2. v \in Vals /\ \A j \in S : item[j].val # v
        BY <1>4, <2>5, Kinds
      <3>. QED
        BY <1>5, <3>1, <3>2
    <2>. QED
      BY <1>0, <2>2, <2>3, <2>5, <2>6, Kinds DEF NeedsReap
  <1>. QED
    BY <1>1, <1>9, <1>10, <1>11 DEF ReapGood, Remembered

-----------------------------------------------------------------------------
\* A thread that has the lock to reap reaps before anything else is done.
LEMMA ReapFirst ==
    ASSUME ReapNext, OnlyUnused, Next
    PROVE  \E t \in Threads : Reap(t)
  <1>1. PICK x \in Threads : lock = x /\ agenda[x] # <<>> /\ Head(agenda[x])[1] = "reap"
    BY DEF ReapNext
  <1>2. x # Null
    BY <1>1, StoreAssumption
  <1>3. \A t : ~Idle(t)
    BY <1>1, <1>2 DEF Idle
  <1>4. \A t, op : At(t, op) => t = x /\ op = "reap"
    BY <1>1, <1>2 DEF At
  <1>5. ~Document
    BY <1>3 DEF Document, LoadImage, Purge, RemoveItem, CloseDocument
  <1>6. ASSUME NEW t \in Threads PROVE ~Client(t)
    BY <1>3 DEF Client, ShareImage, FinishWithImage, DropList, GetTile, FinishWithTile,
                EmptyStore, Shrink, Malloc
  <1>7. ASSUME NEW t \in Threads, Step(t) PROVE Reap(t)
    <2>1. ~Destroy(t)
      BY <1>4 DEF Destroy
    <2>2. ~ChainStep(t)
      BY <1>4 DEF ChainStep
    <2>3. ~Scavenge(t)
      BY <1>4 DEF Scavenge
    <2>4. ~StoreItem(t)
      <3>1. SUFFICES ASSUME StoreItem(t) PROVE FALSE
        OBVIOUS
      <3>2. lock = Null
        BY <3>1 DEF StoreItem
      <3>. QED
        BY <1>1, <1>2, <3>2
    <2>5. ~ReturnExisting(t)
      BY <1>4 DEF ReturnExisting
    <2>6. ~DropOwn(t)
      BY <1>4 DEF DropOwn
    <2>7. ~Room(t)
      BY <1>4 DEF Room
    <2>8. ~RoomAgain(t)
      BY <1>4 DEF RoomAgain
    <2>9. ~FreeVictim(t)
      BY <1>4 DEF FreeVictim
    <2>10. ~Finish(t)
      BY <1>4 DEF Finish
    <2>11. ~CreateImage(t)
      BY <1>4 DEF CreateImage
    <2>12. ~Decode(t)
      BY <1>4 DEF Decode
    <2>13. ~MakeKey(t)
      BY <1>4 DEF MakeKey
    <2>14. ~DropKey(t)
      BY <1>4 DEF DropKey
    <2>15. ~DropListImage(t)
      BY <1>4 DEF DropListImage
    <2>16. ~DeferEnd(t)
      BY <1>4 DEF DeferEnd
    <2>17. ~Filter(t)
      BY <1>4 DEF Filter
    <2>18. ~EvictHead(t)
      BY <1>4 DEF EvictHead
    <2>19. ~TryMalloc(t)
      BY <1>4 DEF TryMalloc
    <2>20. ~ScavengePhases(t)
      BY <1>4 DEF ScavengePhases
    <2>21. ~OutOfMemory(t)
      BY <1>4 DEF OutOfMemory
    <2>. QED
      BY <1>7, <2>1, <2>2, <2>3, <2>4, <2>5, <2>6, <2>7, <2>8, <2>9, <2>10, <2>11, <2>12,
         <2>13, <2>14, <2>15, <2>16, <2>17, <2>18, <2>19, <2>20, <2>21 DEF Step
  <1>. QED
    BY <1>5, <1>6, <1>7 DEF Next

LEMMA ClientReap ==
    ASSUME IInv, ReapGood, OnlyUnused, NEW t \in Threads, Client(t)
    PROVE  ReapInv'
  <1>1. ASSUME NEW u \in Threads, ShareImage(t, u) PROVE ReapGood'
    BY <1>1, ShareImageReap
  <1>2. CASE FinishWithImage(t)
    BY <1>2, FinishImageReap DEF ReapInv
  <1>3. CASE DropList(t)
    BY <1>3, DropListReap DEF ReapInv, ReapGood
  <1>4. ASSUME NEW a \in Areas, GetTile(t, a) PROVE ReapGood'
    BY <1>4, GetTileReap
  <1>5. CASE \E s \in Slots : FinishWithTile(t, s)
    BY <1>5, DropOwnReap DEF ReapInv, ReapGood
  <1>6. ~EmptyStore(t)
    BY DEF EmptyStore, OnlyUnused
  <1>7. ASSUME NEW p, Shrink(t, p) PROVE ReapGood'
    BY <1>7, ShrinkReap
  <1>8. CASE \E n \in {r[2] : r \in {r \in Requests : r[1] = t}} : Malloc(t, n)
    BY <1>8, MallocReap DEF ReapInv, ReapGood
  <1>. QED
    BY <1>1, <1>2, <1>3, <1>4, <1>5, <1>6, <1>7, <1>8 DEF Client, ReapInv, ReapGood

LEMMA DocumentReap ==
    ASSUME IInv, ReapGood, OnlyUnused, Document
    PROVE  ReapInv'
  <1>1. ASSUME NEW o \in Objs, LoadImage(o) PROVE ReapGood'
    BY <1>1, LoadImageReap
  <1>2. \A o \in Objs : ~Purge(o) /\ ~RemoveItem(o)
    BY DEF Purge, RemoveItem, OnlyUnused
  <1>3. ~CloseDocument
    BY DEF CloseDocument, OnlyUnused
  <1>. QED
    BY <1>1, <1>2, <1>3 DEF Document, ReapInv, ReapGood

LEMMA CallReap ==
    ASSUME IInv, ReapGood, NEW t \in Threads, Step(t)
    PROVE  ReapInv'
  <1>0. ~Filter(t) /\ ~EvictHead(t)
    <2>1. SUFFICES ASSUME agenda[t] # <<>>, Head(agenda[t])[1] \in {"filter", "empty"}
                   PROVE  FALSE
      BY DEF Filter, EvictHead, At
    <2>2. 1 \in DOMAIN agenda[t] /\ agenda[t][1] = Head(agenda[t])
      BY <2>1, RestIs DEF IInv
    <2>. QED
      BY <2>1, <2>2 DEF ReapGood, Defers
  <1>1. CASE Destroy(t)
    BY <1>1, DestroyReap DEF ReapInv, ReapGood
  <1>2. CASE ChainStep(t)
    BY <1>2, ChainReap DEF ReapInv, ReapGood
  <1>3. CASE Reap(t)
    BY <1>3, ReapReap DEF ReapInv, ReapGood
  <1>4. CASE Scavenge(t)
    BY <1>4, ScavengeReap DEF ReapInv, ReapGood
  <1>5. CASE StoreItem(t)
    BY <1>5, StoreItemReap DEF ReapInv, ReapGood
  <1>6. CASE ReturnExisting(t)
    BY <1>6, ReturnExistingReap DEF ReapInv, ReapGood
  <1>7. CASE DropOwn(t)
    BY <1>7, DropOwnReap DEF ReapInv, ReapGood
  <1>8. CASE Room(t) \/ RoomAgain(t)
    BY <1>8, RoomReap DEF ReapInv, ReapGood
  <1>9. CASE FreeVictim(t)
    BY <1>9, FreeVictimReap DEF ReapInv, ReapGood
  <1>10. CASE Finish(t)
    BY <1>10, FinishReap DEF ReapInv, ReapGood
  <1>11. CASE CreateImage(t)
    BY <1>11, CreateImageReap DEF ReapInv, ReapGood
  <1>12. CASE Decode(t)
    BY <1>12, DecodeReap DEF ReapInv, ReapGood
  <1>13. CASE MakeKey(t)
    BY <1>13, MakeKeyReap DEF ReapInv, ReapGood
  <1>14. CASE DropKey(t)
    BY <1>14, DropKeyReap DEF ReapInv, ReapGood
  <1>15. CASE DropListImage(t)
    BY <1>15, FinishImageReap DEF ReapInv
  <1>16. CASE DeferEnd(t)
    BY <1>16, DeferEndReap DEF ReapInv
  <1>17. CASE TryMalloc(t) \/ ScavengePhases(t) \/ OutOfMemory(t)
    BY <1>17, MallocReap DEF ReapInv, ReapGood
  <1>. QED
    BY <1>0, <1>1, <1>2, <1>3, <1>4, <1>5, <1>6, <1>7, <1>8, <1>9, <1>10, <1>11, <1>12,
       <1>13, <1>14, <1>15, <1>16, <1>17 DEF Step

LEMMA ReapStepOK ==
    ASSUME IInv, OnlyUnused, ReapInv, [Next]_vars
    PROVE  ReapInv'
  <1>1. CASE UNCHANGED vars
    <2>1. /\ agenda' = agenda /\ lock' = lock /\ defer' = defer /\ needs' = needs
          /\ lru' = lru /\ item' = item /\ refs' = refs /\ keyRefs' = keyRefs
      BY <1>1 DEF vars, storeVars, valVars
    <2>2. Defers' /\ VictimsAlone'
      BY <2>1 DEF ReapInv, Defers, Deferring, VictimsAlone, Val
    <2>3. ReapNext' = ReapNext /\ Remembered' = Remembered
      BY <2>1 DEF ReapNext, Remembered, Due, NeedsReap, Listed
    <2>. QED
      BY <2>2, <2>3 DEF ReapInv
  <1>2. CASE Next /\ ReapNext
    BY <1>2, ReapFirst, ReapReap DEF ReapInv, ReapGood
  <1>3. CASE Next /\ Remembered
    <2>1. ReapGood
      BY <1>3 DEF ReapInv, ReapGood
    <2>. QED
      BY <1>3, <2>1, ClientReap, DocumentReap, CallReap DEF Next
  <1>. QED
    BY <1>1, <1>2, <1>3 DEF ReapInv

LEMMA ReapInitOK == Init => ReapInv
  <1>1. SUFFICES ASSUME Init PROVE ReapInv
    OBVIOUS
  <1>2. /\ lru = <<>> /\ defer = 0 /\ needs = FALSE
        /\ \A t \in Threads : agenda[t] = <<>>
    BY <1>1 DEF Init
  <1>3. \A t \in Threads : ToSet(agenda[t]) = {} /\ DOMAIN agenda[t] = {}
    BY <1>2, Literals DEF ToSet
  <1>4. Listed = {}
    BY <1>2 DEF Listed, ToSet
  <1>5. Cardinality(Deferring) = 0
    <2>1. Deferring = {}
      BY <1>3 DEF Deferring
    <2>. QED
      BY <2>1, FS_EmptySet
  <1>6. Defers
    BY <1>2, <1>3, <1>5 DEF Defers
  <1>7. VictimsAlone
    BY <1>3 DEF VictimsAlone
  <1>8. Remembered
    BY <1>2, <1>4 DEF Remembered, Due
  <1>. QED
    BY <1>6, <1>7, <1>8 DEF ReapInv

LEMMA ReapFollows ==
    ASSUME ReapInv
    PROVE  ReapComplete
  <1>1. SUFFICES ASSUME lock = Null, defer = 0
                 PROVE  ~needs /\ \A id \in Listed : ~NeedsReap(item[id].key)
    BY DEF ReapComplete
  <1>2. ~ReapNext
    BY <1>1, StoreAssumption DEF ReapNext
  <1>. QED
    BY <1>1, <1>2 DEF ReapInv, Remembered, Due

(***************************************************************************)
(* Reaping is complete (ReapComplete): in a store whose items leave it     *)
(* only when nobody uses them, no item is kept for an image that only keys *)
(* refer to, whenever no thread is in a critical section and reaping is    *)
(* not deferred.                                                           *)
(***************************************************************************)
THEOREM ReapIsComplete == OnlyUnused /\ Spec => []ReapComplete
  <1>1. OnlyUnused => EmptiedAlone
    BY DEF OnlyUnused, EmptiedAlone
  <1>2. Init => ReapInv
    BY ReapInitOK
  <1>3. CASE OnlyUnused
    <2>1. IInv /\ ReapInv /\ [Next]_vars => ReapInv'
      BY <1>3, ReapStepOK
    <2>2. EmptiedAlone
      BY <1>1, <1>3
    <2>3. Spec => []IInv
      BY <2>2, Inductive, PTL
    <2>4. ReapInv => ReapComplete
      BY ReapFollows
    <2>. QED
      BY <1>2, <2>1, <2>3, <2>4, PTL DEF Spec
  <1>4. CASE ~OnlyUnused
    BY <1>4
  <1>. QED
    BY <1>3, <1>4

-----------------------------------------------------------------------------
(***************************************************************************)
(* Sums over finite sets, and that they do not depend on the order.  f has *)
(* the summands, g the sums over all subsets of S.                         *)
(***************************************************************************)
AddUp(f, S) ==
    LET iter[s \in SUBSET S] ==
            IF s = {} THEN 0
            ELSE f[CHOOSE x \in s : TRUE] + iter[s \ {CHOOSE x \in s : TRUE}]
    IN iter[S]

Recursion(f, S, u) ==
    u = [s \in SUBSET S |->
            IF s = {} THEN 0
            ELSE f[CHOOSE x \in s : TRUE] + u[s \ {CHOOSE x \in s : TRUE}]]

Sums(f, S, g) ==
    /\ g \in [SUBSET S -> Nat] /\ g[{}] = 0
    /\ \A s \in SUBSET S : \A x \in s : g[s] = f[x] + g[s \ {x}]

\* What holds of 0, and of k + 1 when it holds of k, holds of every number.
LEMMA CountingUp ==
    ASSUME NEW G, 0 \in G, \A k \in Nat : k \in G => k + 1 \in G
    PROVE  \A k \in Nat : k \in G
  <1>. DEFINE Bad == {k \in Nat : k \notin G}
  <1>1. ASSUME Bad # {} PROVE FALSE
    <2>1. PICK k : k \in Bad /\ \A j \in Bad : k <= j
      <3>1. Bad \in SUBSET Nat
        OBVIOUS
      <3>. HIDE DEF Bad
      <3>. QED
        BY <1>1, <3>1, Least
    <2>2. k \in Nat /\ k # 0 /\ ~(k <= k - 1)
      BY <2>1
    <2>3. k - 1 \in Nat /\ k - 1 \in G
      BY <2>1, <2>2
    <2>4. k - 1 + 1 \in G
      BY <2>3
    <2>. QED
      BY <2>1, <2>2, <2>4
  <1>. QED
    BY <1>1

\* One element more: the sums with it and without.
LEMMA SumsMore ==
    ASSUME NEW f, NEW S, \A x \in S : f[x] \in Nat, NEW y \in S, NEW g, Sums(f, S \ {y}, g)
    PROVE  \E h : Sums(f, S, h)
  <1>. DEFINE h == [s \in SUBSET S |-> IF y \in s THEN f[y] + g[s \ {y}] ELSE g[s]]
  <1>1. /\ g \in [SUBSET (S \ {y}) -> Nat] /\ g[{}] = 0
        /\ \A s \in SUBSET (S \ {y}) : \A x \in s : g[s] = f[x] + g[s \ {x}]
    BY DEF Sums
  <1>2. ASSUME NEW s \in SUBSET S PROVE g[s \ {y}] \in Nat /\ (y \notin s => g[s] \in Nat)
    <2>1. s \ {y} \in SUBSET (S \ {y}) /\ (y \notin s => s \in SUBSET (S \ {y}))
      OBVIOUS
    <2>. QED
      BY <1>1, <2>1
  <1>3. h \in [SUBSET S -> Nat]
    BY <1>2
  <1>4. h[{}] = 0
    <2>1. {} \in SUBSET S /\ y \notin {}
      OBVIOUS
    <2>. QED
      BY <1>1, <2>1
  <1>5. ASSUME NEW s \in SUBSET S, NEW x \in s PROVE h[s] = f[x] + h[s \ {x}]
    <2>1. PICK r : r = s \ {x}
      OBVIOUS
    <2>2. r \in SUBSET S /\ h[s] = (IF y \in s THEN f[y] + g[s \ {y}] ELSE g[s])
      BY <2>1
    <2>3. h[r] = IF y \in r THEN f[y] + g[r \ {y}] ELSE g[r]
      BY <2>2
    <2>. HIDE DEF h
    <2>4. CASE x = y
      BY <1>5, <2>1, <2>2, <2>3, <2>4
    <2>5. CASE x # y /\ y \notin s
      <3>1. s \in SUBSET (S \ {y}) /\ y \notin r
        BY <2>1, <2>5
      <3>. QED
        BY <1>1, <1>5, <2>1, <2>2, <2>3, <2>5, <3>1
    <2>6. CASE x # y /\ y \in s
      <3>1. PICK q : q = s \ {y}
        OBVIOUS
      <3>2. q \in SUBSET (S \ {y}) /\ x \in q /\ y \in r /\ r \ {y} = q \ {x}
        BY <1>5, <2>1, <2>6, <3>1
      <3>3. g[q] = f[x] + g[q \ {x}]
        BY <1>1, <3>2
      <3>4. PICK n : n = g[q \ {x}]
        OBVIOUS
      <3>5. h[s] = f[y] + (f[x] + n) /\ h[r] = f[y] + n
        BY <2>2, <2>3, <2>6, <3>1, <3>2, <3>3, <3>4
      <3>6. n \in Nat /\ f[x] \in Nat /\ f[y] \in Nat
        <4>1. q \ {x} \in SUBSET (S \ {y})
          BY <3>2
        <4>. QED
          BY <1>1, <1>5, <3>2, <3>4, <4>1
      <3>7. f[y] + (f[x] + n) = f[x] + (f[y] + n)
        BY <3>6
      <3>. QED
        BY <2>1, <3>5, <3>7
    <2>. QED
      BY <2>4, <2>5, <2>6
  <1>6. Sums(f, S, h)
    BY <1>3, <1>4, <1>5 DEF Sums
  <1>. QED
    BY <1>6

LEMMA SumsExist ==
    ASSUME NEW f, NEW S, IsFiniteSet(S), \A x \in S : f[x] \in Nat
    PROVE  \E g : Sums(f, S, g)
  <1>. DEFINE G == {k \in Nat : \A s \in SUBSET S : Cardinality(s) = k => \E g : Sums(f, s, g)}
  <1>1. 0 \in G
    <2>1. ASSUME NEW s \in SUBSET S, Cardinality(s) = 0 PROVE \E g : Sums(f, s, g)
      <3>1. s = {}
        BY <2>1, FS_Subset, FS_EmptySet
      <3>2. Sums(f, {}, [r \in SUBSET {} |-> 0])
        BY DEF Sums
      <3>. QED
        BY <3>1, <3>2
    <2>. QED
      BY <2>1
  <1>2. ASSUME NEW k \in Nat, k \in G PROVE k + 1 \in G
    <2>1. ASSUME NEW s \in SUBSET S, Cardinality(s) = k + 1 PROVE \E g : Sums(f, s, g)
      <3>1. IsFiniteSet(s) /\ s # {}
        BY <2>1, FS_Subset, FS_EmptySet
      <3>2. PICK y \in s : TRUE
        BY <3>1
      <3>3. s \ {y} \in SUBSET S /\ Cardinality(s \ {y}) = k
        <4>1. Cardinality(s \ {y}) = Cardinality(s) - 1
          BY <3>1, <3>2, FS_RemoveElement
        <4>. QED
          BY <2>1, <4>1
      <3>4. PICK g : Sums(f, s \ {y}, g)
        BY <1>2, <3>3
      <3>. QED
        BY <3>2, <3>4, SumsMore
    <2>. QED
      BY <2>1
  <1>. HIDE DEF G
  <1>3. \A k \in Nat : k \in G
    BY <1>1, <1>2, CountingUp
  <1>4. Cardinality(S) \in G
    BY <1>3, FS_CardinalityType
  <1>. QED
    BY <1>4 DEF G

\* Whatever order it adds in, AddUp(f, S) is the sum.
LEMMA RecursionIs ==
    ASSUME NEW f, NEW S, IsFiniteSet(S), NEW g, Sums(f, S, g), NEW u, Recursion(f, S, u)
    PROVE  u = g
  <1>0. /\ g \in [SUBSET S -> Nat] /\ g[{}] = 0
        /\ \A s \in SUBSET S : \A x \in s : g[s] = f[x] + g[s \ {x}]
    BY DEF Sums
  <1>1. \A s \in SUBSET S :
           u[s] = IF s = {} THEN 0
                  ELSE f[CHOOSE x \in s : TRUE] + u[s \ {CHOOSE x \in s : TRUE}]
    BY DEF Recursion
  <1>. DEFINE G == {k \in Nat : \A s \in SUBSET S : Cardinality(s) = k => u[s] = g[s]}
  <1>2. 0 \in G
    <2>1. ASSUME NEW s \in SUBSET S, Cardinality(s) = 0 PROVE u[s] = g[s]
      <3>1. s = {}
        BY <2>1, FS_Subset, FS_EmptySet
      <3>. QED
        BY <1>0, <1>1, <3>1
    <2>. QED
      BY <2>1
  <1>3. ASSUME NEW k \in Nat, k \in G PROVE k + 1 \in G
    <2>1. ASSUME NEW s \in SUBSET S, Cardinality(s) = k + 1 PROVE u[s] = g[s]
      <3>1. IsFiniteSet(s) /\ s # {}
        BY <2>1, FS_Subset, FS_EmptySet
      <3>2. PICK y : y = CHOOSE x \in s : TRUE
        OBVIOUS
      <3>3. y \in s /\ u[s] = f[y] + u[s \ {y}]
        BY <1>1, <3>1, <3>2
      <3>4. s \ {y} \in SUBSET S /\ Cardinality(s \ {y}) = k
        <4>1. Cardinality(s \ {y}) = Cardinality(s) - 1
          BY <3>1, <3>3, FS_RemoveElement
        <4>. QED
          BY <2>1, <4>1
      <3>5. u[s \ {y}] = g[s \ {y}]
        BY <1>3, <3>4
      <3>. QED
        BY <1>0, <3>3, <3>5
    <2>. QED
      BY <2>1
  <1>. HIDE DEF G
  <1>4. \A k \in Nat : k \in G
    BY <1>2, <1>3, CountingUp
  <1>5. ASSUME NEW s \in SUBSET S PROVE u[s] = g[s]
    <2>1. Cardinality(s) \in Nat
      BY FS_Subset, FS_CardinalityType
    <2>. QED
      BY <1>4, <2>1 DEF G
  <1>6. u = [s \in SUBSET S |-> u[s]]
    BY DEF Recursion
  <1>. QED
    BY <1>0, <1>5, <1>6

LEMMA SumSolves ==
    ASSUME NEW f, NEW S, IsFiniteSet(S), NEW g, Sums(f, S, g)
    PROVE  Recursion(f, S, g)
  <1>0. /\ g \in [SUBSET S -> Nat] /\ g[{}] = 0
        /\ \A s \in SUBSET S : \A x \in s : g[s] = f[x] + g[s \ {x}]
    BY DEF Sums
  <1>1. ASSUME NEW s \in SUBSET S
        PROVE  g[s] = IF s = {} THEN 0
                ELSE f[CHOOSE x \in s : TRUE] + g[s \ {CHOOSE x \in s : TRUE}]
    <2>1. CASE s = {}
      BY <1>0, <2>1
    <2>2. CASE s # {}
      <3>1. (CHOOSE x \in s : TRUE) \in s
        BY <2>2
      <3>. QED
        BY <1>0, <2>2, <3>1
    <2>. QED
      BY <2>1, <2>2
  <1>2. g = [s \in SUBSET S |-> g[s]]
    BY <1>0
  <1>. QED
    BY <1>1, <1>2 DEF Recursion

LEMMA SumIs ==
    ASSUME NEW f, NEW S, IsFiniteSet(S), NEW g, Sums(f, S, g)
    PROVE  AddUp(f, S) = g[S]
  <1>1. Recursion(f, S, g)
    BY SumSolves
  <1>2. AddUp(f, S) = (CHOOSE u : Recursion(f, S, u))[S]
    BY DEF AddUp, Recursion
  <1>3. Recursion(f, S, CHOOSE u : Recursion(f, S, u))
    BY <1>1
  <1>. QED
    BY <1>2, <1>3, RecursionIs

\* The sum without some of the elements, and without one.
LEMMA SumTake ==
    ASSUME NEW f, NEW S, IsFiniteSet(S), \A x \in S : f[x] \in Nat, NEW y \in S
    PROVE  AddUp(f, S) = f[y] + AddUp(f, S \ {y}) /\ AddUp(f, S \ {y}) \in Nat /\ AddUp(f, S) \in Nat
  <1>1. PICK g : Sums(f, S, g)
    BY SumsExist
  <1>2. Sums(f, S \ {y}, [s \in SUBSET (S \ {y}) |-> g[s]])
    BY <1>1 DEF Sums
  <1>3. IsFiniteSet(S \ {y}) /\ S \in SUBSET S /\ S \ {y} \in SUBSET S
    BY FS_RemoveElement
  <1>4. AddUp(f, S) = g[S] /\ AddUp(f, S \ {y}) = g[S \ {y}]
    BY <1>1, <1>2, <1>3, SumIs
  <1>. QED
    BY <1>1, <1>3, <1>4 DEF Sums

LEMMA SumEmpty == ASSUME NEW f PROVE AddUp(f, {}) = 0
  <1>1. Sums(f, {}, [r \in SUBSET {} |-> 0])
    BY DEF Sums
  <1>. QED
    BY <1>1, SumIs, FS_EmptySet

LEMMA SumType ==
    ASSUME NEW f, NEW S, IsFiniteSet(S), \A x \in S : f[x] \in Nat
    PROVE  AddUp(f, S) \in Nat
  <1>1. CASE S = {}
    BY <1>1, SumEmpty
  <1>2. CASE S # {}
    <2>1. PICK y \in S : TRUE
      BY <1>2
    <2>. QED
      BY <2>1, SumTake
  <1>. QED
    BY <1>1, <1>2

LEMMA SumMinus ==
    ASSUME NEW f, NEW S, IsFiniteSet(S), \A x \in S : f[x] \in Nat, NEW T \in SUBSET S
    PROVE  AddUp(f, S \ T) = AddUp(f, S) - AddUp(f, T)
  <1>. DEFINE G == {k \in Nat : \A s \in SUBSET T : Cardinality(s) = k =>
                       AddUp(f, S \ s) = AddUp(f, S) - AddUp(f, s)}
  <1>0. IsFiniteSet(T)
    BY FS_Subset
  <1>1. 0 \in G
    <2>1. ASSUME NEW s \in SUBSET T, Cardinality(s) = 0
          PROVE  AddUp(f, S \ s) = AddUp(f, S) - AddUp(f, s)
      <3>1. s = {} /\ S \ s = S
        BY <1>0, <2>1, FS_Subset, FS_EmptySet
      <3>2. AddUp(f, S) \in Nat /\ AddUp(f, {}) = 0
        BY SumType, SumEmpty
      <3>. QED
        BY <3>1, <3>2
    <2>. QED
      BY <2>1
  <1>2. ASSUME NEW k \in Nat, k \in G PROVE k + 1 \in G
    <2>1. ASSUME NEW s \in SUBSET T, Cardinality(s) = k + 1
          PROVE  AddUp(f, S \ s) = AddUp(f, S) - AddUp(f, s)
      <3>1. IsFiniteSet(s) /\ s # {}
        BY <1>0, <2>1, FS_Subset, FS_EmptySet
      <3>2. PICK y \in s : TRUE
        BY <3>1
      <3>3. PICK r : r = s \ {y}
        OBVIOUS
      <3>4. r \in SUBSET T /\ Cardinality(r) = k
        <4>1. Cardinality(s \ {y}) = Cardinality(s) - 1
          BY <3>1, <3>2, FS_RemoveElement
        <4>. QED
          BY <2>1, <3>3, <4>1
      <3>5. AddUp(f, S \ r) = AddUp(f, S) - AddUp(f, r)
        BY <1>2, <3>4
      <3>6. y \in S \ r /\ (S \ r) \ {y} = S \ s /\ IsFiniteSet(S \ r)
        BY <3>2, <3>3, FS_Subset
      <3>7. AddUp(f, S \ r) = f[y] + AddUp(f, S \ s) /\ AddUp(f, S \ s) \in Nat
        BY <3>6, SumTake
      <3>8. AddUp(f, s) = f[y] + AddUp(f, r) /\ AddUp(f, r) \in Nat /\ AddUp(f, S) \in Nat
        BY <3>1, <3>2, <3>3, SumTake, SumType
      <3>9. f[y] \in Nat
        BY <3>2
      <3>. QED
        BY <3>5, <3>7, <3>8, <3>9
    <2>. QED
      BY <2>1
  <1>. HIDE DEF G
  <1>3. \A k \in Nat : k \in G
    BY <1>1, <1>2, CountingUp
  <1>4. Cardinality(T) \in G /\ T \in SUBSET T
    BY <1>0, <1>3, FS_CardinalityType
  <1>. QED
    BY <1>4 DEF G

\* Only the summands of S matter.
LEMMA SumSame ==
    ASSUME NEW f, NEW h, NEW S, IsFiniteSet(S), \A x \in S : f[x] \in Nat /\ h[x] = f[x]
    PROVE  AddUp(h, S) = AddUp(f, S)
  <1>1. PICK g : Sums(f, S, g)
    BY SumsExist
  <1>2. Sums(h, S, g)
    BY <1>1 DEF Sums
  <1>. QED
    BY <1>1, <1>2, SumIs

\* What the items of S are accounted for.
ItemSize(I) == [id \in Ids |-> Size(I[id].val)]

LEMMA BytesAre ==
    ASSUME NEW S \in SUBSET Ids, \A id \in S : Val(id) \in Vals
    PROVE  Bytes(S) = AddUp(ItemSize(item), S)
  <1>. DEFINE f == ItemSize(item)
  <1>1. IsFiniteSet(S) /\ \A x \in S : f[x] = Size(Val(x)) /\ f[x] \in Nat
    <2>1. \A x \in S : f[x] = Size(Val(x)) /\ f[x] \in 1 .. SizeMax
      BY StoreAssumption DEF ItemSize, Val, Vals
    <2>. QED
      BY <2>1, FS_Subset, StoreAssumption
  <1>. HIDE DEF f
  <1>2. PICK g : Sums(f, S, g)
    BY <1>1, SumsExist
  <1>. DEFINE F(u) == [s \in SUBSET S |->
                 IF s = {} THEN 0
                 ELSE Size(Val(CHOOSE x \in s : TRUE)) + u[s \ {CHOOSE x \in s : TRUE}]]
  <1>3. Bytes(S) = (CHOOSE u : u = F(u))[S]
    BY DEF Bytes, MapThenSumSet, MapThenFoldSet
  <1>4. ASSUME NEW u
        PROVE  F(u) = [s \in SUBSET S |->
                  IF s = {} THEN 0
                  ELSE f[CHOOSE x \in s : TRUE] + u[s \ {CHOOSE x \in s : TRUE}]]
    <2>1. ASSUME NEW s \in SUBSET S, s # {}
          PROVE  f[CHOOSE x \in s : TRUE] = Size(Val(CHOOSE x \in s : TRUE))
      <3>1. (CHOOSE x \in s : TRUE) \in S
        BY <2>1
      <3>. QED
        BY <1>1, <3>1
    <2>. QED
      BY <2>1
  <1>. HIDE DEF F
  <1>5. ASSUME NEW u PROVE u = F(u) <=> Recursion(f, S, u)
    BY <1>4 DEF Recursion
  <1>6. Recursion(f, S, g)
    BY <1>1, <1>2, SumSolves
  <1>7. g = F(g)
    BY <1>5, <1>6
  <1>8. Recursion(f, S, CHOOSE u : u = F(u))
    BY <1>5, <1>7
  <1>9. Bytes(S) = g[S]
    BY <1>1, <1>2, <1>3, <1>8, RecursionIs
  <1>. QED
    BY <1>1, <1>2, <1>9, SumIs DEF f

LEMMA BytesOf ==
    \A S \in SUBSET Ids : (\A id \in S : Val(id) \in Vals) => Bytes(S) = AddUp(ItemSize(item), S)
  BY BytesAre

LEMMA BytesNext ==
    \A S \in SUBSET Ids : (\A id \in S : Val(id)' \in Vals) => Bytes(S)' = AddUp(ItemSize(item'), S)
  <1>1. (\A S \in SUBSET Ids : (\A id \in S : Val(id) \in Vals) => Bytes(S) = AddUp(ItemSize(item), S))'
    BY BytesOf, PTL
  <1>. QED
    BY <1>1

-----------------------------------------------------------------------------
(***************************************************************************)
(* The accounts.  What leaves the list is taken off the size at once, and  *)
(* only what no thread is about to add: nobody takes out an item that is   *)
(* being stored.                                                           *)
(***************************************************************************)
\* What is accounted for: the items of the list, but for those a search has
\* put there before fz_store_item does.
Accounted == Listed \ InWindow

LEMMA AccountedIs ==
    ASSUME IInv
    PROVE  /\ Accounted \in SUBSET Ids /\ IsFiniteSet(Accounted)
           /\ \A id \in Accounted : Val(id) \in Vals /\ ItemSize(item)[id] \in Nat
  <1>1. Accounted \in SUBSET Ids /\ \A id \in Accounted : Val(id) \in Vals
    BY ListedIs DEF Accounted, Val
  <1>2. IsFiniteSet(Accounted)
    BY <1>1, FS_Subset, StoreAssumption
  <1>3. ASSUME NEW id \in Accounted PROVE ItemSize(item)[id] \in Nat
    <2>1. ItemSize(item)[id] \in 1 .. SizeMax /\ SizeMax \in Nat
      BY <1>1, StoreAssumption DEF ItemSize, Val, Vals
    <2>. QED
      BY <2>1
  <1>. QED
    BY <1>1, <1>2, <1>3

LEMMA SizeLess ==
    ASSUME IInv, SizeAccounted, NEW S \in SUBSET Accounted, Accounted' = Accounted \ S,
           size' = size - Bytes(S), \A id \in Accounted : item'[id].val = item[id].val
    PROVE  SizeAccounted'
  <1>. DEFINE f == ItemSize(item)
              A == Accounted
  <1>0. /\ A \in SUBSET Ids /\ IsFiniteSet(A)
        /\ \A id \in A : Val(id) \in Vals /\ f[id] \in Nat
    BY AccountedIs
  <1>1. size = AddUp(f, A)
    BY <1>0, BytesOf DEF SizeAccounted, Accounted
  <1>2. Bytes(S) = AddUp(f, S)
    BY <1>0, BytesOf
  <1>3. AddUp(f, A \ S) = AddUp(f, A) - AddUp(f, S)
    BY <1>0, SumMinus
  <1>4. PICK B : B = A \ S
    OBVIOUS
  <1>5. IsFiniteSet(B) /\ B \in SUBSET Ids
    BY <1>0, <1>4, FS_Subset
  <1>6. \A id \in B : ItemSize(item')[id] = f[id] /\ f[id] \in Nat
    BY <1>0, <1>4 DEF ItemSize
  <1>7. AddUp(ItemSize(item'), B) = AddUp(f, B)
    BY <1>5, <1>6, SumSame
  <1>8. \A id \in B : Val(id)' \in Vals
    BY <1>0, <1>4 DEF Val
  <1>9. Bytes(B)' = AddUp(ItemSize(item'), B)
    BY <1>5, <1>8, BytesNext
  <1>10. SizeAccounted' <=> size' = Bytes(B)'
    BY <1>4 DEF SizeAccounted, Accounted
  <1>. QED
    BY <1>1, <1>2, <1>3, <1>4, <1>7, <1>9, <1>10

LEMMA SizeSame ==
    ASSUME IInv, SizeAccounted, Accounted' = Accounted, size' = size,
           \A id \in Accounted : item'[id].val = item[id].val
    PROVE  SizeAccounted'
  <1>1. Bytes({}) = AddUp(ItemSize(item), {})
    BY BytesOf
  <1>2. Bytes({}) = 0
    BY <1>1, SumEmpty
  <1>3. size = AddUp(ItemSize(item), Accounted)
    BY AccountedIs, BytesOf DEF SizeAccounted, Accounted
  <1>4. size \in Nat
    BY <1>3, AccountedIs, SumType
  <1>5. size' = size - Bytes({}) /\ {} \in SUBSET Accounted /\ Accounted' = Accounted \ {}
    BY <1>2, <1>4
  <1>. QED
    BY <1>5, SizeLess

LEMMA SizeMore ==
    ASSUME IInv, SizeAccounted, NEW id \in Ids, id \notin Accounted, Val(id) \in Vals,
           Accounted' = Accounted \cup {id}, size' = size + Size(Val(id)), item' = item
    PROVE  SizeAccounted'
  <1>. DEFINE f == ItemSize(item)
  <1>1. PICK B : B = Accounted \cup {id}
    OBVIOUS
  <1>2. B \in SUBSET Ids /\ IsFiniteSet(B) /\ B \ {id} = Accounted /\ id \in B
    BY <1>1, AccountedIs, FS_Subset, StoreAssumption
  <1>3. \A j \in B : Val(j) \in Vals /\ f[j] \in Nat
    <2>1. Size(Val(id)) \in 1 .. SizeMax /\ SizeMax \in Nat
      BY StoreAssumption DEF Vals
    <2>2. f[id] \in Nat
      BY <2>1 DEF ItemSize, Val
    <2>. QED
      BY <1>1, <2>2, AccountedIs
  <1>4. AddUp(f, B) = f[id] + AddUp(f, Accounted) /\ AddUp(f, Accounted) \in Nat
    <2>1. \A x \in B : f[x] \in Nat
      BY <1>3
    <2>2. AddUp(f, B) = f[id] + AddUp(f, B \ {id}) /\ AddUp(f, B \ {id}) \in Nat
      BY <1>2, <2>1, SumTake
    <2>. QED
      BY <1>2, <2>2
  <1>5. size = AddUp(f, Accounted)
    BY AccountedIs, BytesOf DEF SizeAccounted, Accounted
  <1>6. f[id] = Size(Val(id)) /\ f[id] \in Nat
    BY <1>2, <1>3 DEF ItemSize, Val
  <1>7. Bytes(B)' = AddUp(f, B)
    BY <1>2, <1>3, BytesNext DEF Val
  <1>8. SizeAccounted' <=> size' = Bytes(B)'
    BY <1>1 DEF SizeAccounted, Accounted
  <1>. QED
    BY <1>4, <1>5, <1>6, <1>7, <1>8

-----------------------------------------------------------------------------
\* The items being stored after a step, by the operations it leaves.
Stored(s) == {e[2] : e \in {e \in ToSet(s) : e[1] \in Storings}}
HeadStored(t) ==
    IF agenda[t] # <<>> /\ Head(agenda[t])[1] \in Storings THEN {Head(agenda[t])[2]} ELSE {}

LEMMA WindowIs ==
    ASSUME IInv, NEW t \in Threads, NEW s, Sequence(s), Go(t, s)
    PROVE  InWindow' = (InWindow \ HeadStored(t)) \cup Stored(s)
  <1>i. Typed /\ AgendaSound /\ AgendaOrdered /\ Claimed
    BY DEF IInv
  <1>1. /\ \A id \in InWindow : id \in InWindow' \/ id \in HeadStored(t)
        /\ Stored(s) \subseteq InWindow'
    BY <1>i, WindowAfter DEF HeadStored, Stored
  <1>2. ASSUME NEW id \in InWindow' PROVE id \in (InWindow \ HeadStored(t)) \cup Stored(s)
    <2>1. PICK u \in Threads : \E e \in ToSet(agenda'[u]) : e[1] \in Storings /\ id = e[2]
      BY DEF InWindow, Storing, Storings, Entries, ToSet
    <2>2. PICK e \in ToSet(agenda'[u]) : e[1] \in Storings /\ id = e[2]
      BY <2>1
    <2>3. e \in ToSet(s) \/ e \in Staying(t, u)
      <3>1. /\ agenda'[t] = s \o Rest(t) /\ Sequence(Rest(t))
            /\ \A w \in Threads \ {t} : agenda'[w] = agenda[w]
        BY <1>i, GoIs, RestIs
      <3>2. ToSet(agenda'[t]) = ToSet(s) \cup ToSet(Rest(t))
        BY <3>1, ConcatIs
      <3>. QED
        BY <2>2, <3>1, <3>2 DEF Staying
    <2>4. CASE e \in ToSet(s)
      BY <2>2, <2>4 DEF Stored
    <2>5. CASE e \in Staying(t, u)
      <3>1. Claim(item, e) \cap HeadClaims(t) = {} /\ <<"item", id>> \in Claim(item, e)
        BY <1>i, <2>2, <2>5, StayingIs DEF Claim, Storings
      <3>2. e \in ToSet(agenda[u])
        <4>1. u = t => agenda[t] # <<>> /\ \A d \in ToSet(Rest(t)) : d \in ToSet(agenda[t])
          BY <1>i, <2>5, StayingIs, RestIs DEF ToSet
        <4>. QED
          BY <2>5, <4>1 DEF Staying
      <3>3. id \in InWindow
        BY <2>2, <3>2 DEF InWindow, Storing, Storings, Entries, ToSet
      <3>4. id \notin HeadStored(t)
        <4>1. ASSUME id \in HeadStored(t) PROVE <<"item", id>> \in HeadClaims(t)
          BY <4>1 DEF HeadStored, HeadClaims, Claim, Storings
        <4>. QED
          BY <3>1, <4>1
      <3>. QED
        BY <3>3, <3>4
    <2>. QED
      BY <2>3, <2>4, <2>5
  <1>. QED
    BY <1>1, <1>2

\* The thread that is storing an item has it secured.
LEMMA StoringSecured ==
    ASSUME IInv, NEW u \in Threads, NEW id \in Storing(u)
    PROVE  Secured(u, id)
  <1>1. PICK i \in DOMAIN agenda[u] : agenda[u][i][1] \in Storings /\ id = agenda[u][i][2]
    BY DEF Storing, Storings, Entries
  <1>2. Sound(u, agenda[u][i])
    BY DEF IInv, AgendaSound
  <1>. QED
    BY <1>1, <1>2 DEF Sound, Storings

LEMMA WindowSecured ==
    ASSUME IInv, NEW id \in InWindow
    PROVE  \E u \in Threads : Secured(u, id)
  BY StoringSecured DEF InWindow

\* What a step leaves to do when it stores nothing.
Idles(s) == Sequence(s) /\ \A e \in ToSet(s) : e[1] \notin Storings

LEMMA IdleLiterals ==
    /\ Idles(<<>>)
    /\ \A e : e[1] \notin Storings => Idles(<<e>>)
    /\ \A d, e : d[1] \notin Storings /\ e[1] \notin Storings => Idles(<<d, e>>)
    /\ \A s, r : Idles(s) /\ Idles(r) => Idles(s \o r)
  <1>1. ASSUME NEW s, NEW r, Idles(s), Idles(r) PROVE Idles(s \o r)
    <2>1. Sequence(s) /\ Sequence(r)
      BY <1>1 DEF Idles
    <2>2. Sequence(s \o r) /\ ToSet(s \o r) = ToSet(s) \cup ToSet(r)
      BY <2>1, ConcatIs
    <2>. QED
      BY <1>1, <2>2 DEF Idles
  <1>2. Idles(<<>>) /\ \A e : e[1] \notin Storings => Idles(<<e>>)
    BY Literals DEF Idles
  <1>3. ASSUME NEW d, NEW e, d[1] \notin Storings, e[1] \notin Storings PROVE Idles(<<d, e>>)
    <2>1. Sequence(<<d, e>>) /\ ToSet(<<d, e>>) = {d, e}
      BY Literals
    <2>. QED
      BY <1>3, <2>1 DEF Idles
  <1>. QED
    BY <1>1, <1>2, <1>3

LEMMA WindowSame ==
    ASSUME IInv, NEW t \in Threads, NEW s, Idles(s), Go(t, s),
           agenda[t] = <<>> \/ Head(agenda[t])[1] \notin Storings
    PROVE  InWindow' = InWindow
  <1>1. HeadStored(t) = {} /\ Stored(s) = {} /\ Sequence(s)
    BY DEF HeadStored, Stored, Idles
  <1>. QED
    BY <1>1, WindowIs

\* Steps that take nothing to the list and nothing out of it.
LEMMA SizeStill ==
    ASSUME IInv, SizeAccounted, NEW t \in Threads, NEW s, Idles(s), Go(t, s),
           agenda[t] = <<>> \/ Head(agenda[t])[1] \notin Storings,
           lru' = lru, size' = size,
           \A id \in Listed : item'[id].val = item[id].val
    PROVE  SizeAccounted'
  <1>1. Accounted' = Accounted
    BY WindowSame DEF Accounted, Listed
  <1>2. \A id \in Accounted : item'[id].val = item[id].val
    BY DEF Accounted
  <1>. QED
    BY <1>1, <1>2, SizeSame

\* Items leave the list and the accounts.
LEMMA SizeUnlinked ==
    ASSUME IInv, SizeAccounted, NEW t \in Threads, NEW s, Idles(s), Go(t, s),
           agenda[t] = <<>> \/ Head(agenda[t])[1] \notin Storings,
           NEW S \in SUBSET Listed, Unlink(S), Disown(S),
           S \cap InWindow = {}
    PROVE  SizeAccounted'
  <1>1. Accounted' = Accounted \ S
    BY WindowSame, UnlinkedIs DEF Unlink, Accounted
  <1>2. \A id \in Accounted : item'[id].val = item[id].val
    BY AccountedIs DEF Disown, IInv, Typed, ItemType
  <1>3. S \in SUBSET Accounted
    BY DEF Accounted
  <1>. QED
    BY <1>1, <1>2, <1>3, SizeLess DEF Unlink

-----------------------------------------------------------------------------
LEMMA DestroySize ==
    ASSUME IInv, SizeAccounted, NEW t \in Threads, Destroy(t)
    PROVE  SizeAccounted'
  <1>1. agenda[t] # <<>> /\ Head(agenda[t])[1] = "destroy" /\ "destroy" \notin Storings
    BY DEF Destroy, At, Storings
  <1>2. Go(t, <<>>) /\ lru' = lru /\ size' = size /\ item' = item
    BY DEF Destroy, storeVars
  <1>. QED
    BY <1>1, <1>2, SizeStill, IdleLiterals

LEMMA EndSize ==
    ASSUME IInv, SizeAccounted, NEW t \in Threads, ReturnExisting(t) \/ OutOfMemory(t)
    PROVE  SizeAccounted'
  <1>1. Head(agenda[t])[1] \notin Storings
    BY DEF ReturnExisting, OutOfMemory, At, Storings
  <1>2. Go(t, <<>>) /\ lru' = lru /\ size' = size /\ item' = item
    BY DEF ReturnExisting, OutOfMemory, storeVars
  <1>. QED
    BY <1>1, <1>2, SizeStill, IdleLiterals

\* Calls begin.
LEMMA BeginSize ==
    ASSUME IInv, SizeAccounted, NEW t \in Threads, EmptyStore(t) \/ DropList(t)
    PROVE  SizeAccounted'
  <1>1. PICK e, g, h : e = <<"empty">> /\ g = <<"dropimage">> /\ h = <<"deferend">>
    OBVIOUS
  <1>2. /\ Go(t, <<e>>) \/ Go(t, <<g, h>>)
        /\ agenda[t] = <<>> /\ lru' = lru /\ size' = size /\ item' = item
    BY <1>1 DEF EmptyStore, DropList, Idle, storeVars
  <1>3. e[1] \notin Storings /\ g[1] \notin Storings /\ h[1] \notin Storings
    BY <1>1 DEF Storings
  <1>. QED
    BY <1>2, <1>3, IdleLiterals, SizeStill

LEMMA MallocSize ==
    ASSUME IInv, SizeAccounted, NEW t \in Threads, NEW n, Malloc(t, n)
    PROVE  SizeAccounted'
  <1>1. PICK e : e = <<"malloc", n, 0>>
    OBVIOUS
  <1>2. /\ Go(t, <<e>>) /\ agenda[t] = <<>> /\ lru' = lru /\ size' = size /\ item' = item
    BY <1>1 DEF Malloc, Idle, storeVars
  <1>3. e[1] \notin Storings
    BY <1>1 DEF Storings
  <1>. QED
    BY <1>2, <1>3, IdleLiterals, SizeStill

LEMMA DocBeginSize ==
    ASSUME IInv, SizeAccounted, CloseDocument \/ \E o \in Objs : Purge(o)
    PROVE  SizeAccounted'
  <1>1. PICK s : Go(Doc, s) /\ Idles(s)
    <2>1. CASE CloseDocument
      <3>1. PICK d, e : d = <<"filter", ObjKeys>> /\ e = <<"deferend">>
        OBVIOUS
      <3>2. Go(Doc, <<d, e>>) /\ d[1] \notin Storings /\ e[1] \notin Storings
        BY <2>1, <3>1 DEF CloseDocument, Storings
      <3>. QED
        BY <3>2, IdleLiterals
    <2>2. CASE \E o \in Objs : Purge(o)
      <3>1. PICK o \in Objs : Purge(o)
        BY <2>2
      <3>2. PICK e : e = <<"filter", {<<Null, o>>}>>
        OBVIOUS
      <3>3. Go(Doc, <<e>>) /\ e[1] \notin Storings
        BY <3>1, <3>2 DEF Purge, Storings
      <3>. QED
        BY <3>3, IdleLiterals
    <2>. QED
      BY <2>1, <2>2
  <1>2. agenda[Doc] = <<>> /\ lru' = lru /\ size' = size /\ item' = item /\ Doc \in Threads
    BY Kinds DEF CloseDocument, Purge, Idle, storeVars
  <1>. QED
    BY <1>1, <1>2, SizeStill

\* What fz_malloc does between two evictions.
LEMMA TrySize ==
    ASSUME IInv, SizeAccounted, NEW t \in Threads, TryMalloc(t) \/ ScavengePhases(t)
    PROVE  SizeAccounted'
  <1>1. /\ Head(agenda[t])[1] \notin Storings /\ lru' = lru /\ size' = size /\ item' = item
    BY DEF TryMalloc, ScavengePhases, At, Storings, storeVars
  <1>2. PICK s : Go(t, s) /\ Idles(s)
    <2>1. ASSUME NEW e, Go(t, <<e>>), e[1] \in {"phase", "scav", "nomem"}
          PROVE  \E s : Go(t, s) /\ Idles(s)
      <3>1. e[1] \notin Storings
        BY <2>1 DEF Storings
      <3>. QED
        BY <2>1, <3>1, IdleLiterals
    <2>2. CASE Go(t, <<>>)
      BY <2>2, IdleLiterals
    <2>3. CASE TryMalloc(t)
      <3>1. PICK e : e = <<"phase", Arg(t, 2), Arg(t, 3)>>
        OBVIOUS
      <3>2. Go(t, <<>>) \/ (Go(t, <<e>>) /\ e[1] = "phase")
        BY <2>3, <3>1 DEF TryMalloc
      <3>. QED
        BY <2>1, <2>2, <3>2
    <2>4. CASE ScavengePhases(t)
      <3>1. \/ Go(t, << <<"nomem">> >>)
            \/ \E x, y : Go(t, << <<"scav", x, TRUE, y>> >>)
        BY <2>4 DEF ScavengePhases
      <3>2. ASSUME Go(t, << <<"nomem">> >>) PROVE \E e : Go(t, <<e>>) /\ e[1] = "nomem"
        <4>. WITNESS <<"nomem">>
        <4>. QED
          BY <3>2
      <3>3. ASSUME NEW x, NEW y, Go(t, << <<"scav", x, TRUE, y>> >>)
            PROVE  \E e : Go(t, <<e>>) /\ e[1] = "scav"
        <4>. WITNESS <<"scav", x, TRUE, y>>
        <4>. QED
          BY <3>3
      <3>. QED
        BY <2>1, <3>1, <3>2, <3>3
    <2>. QED
      BY <2>3, <2>4
  <1>. QED
    BY <1>1, <1>2, SizeStill

LEMMA ScavengeIdles ==
    ASSUME NEW t, NEW n, NEW wanted, ScavengeOrNot(t, n, wanted)
    PROVE  \E s : Go(t, s) /\ Idles(s)
  <1>1. CASE Go(t, <<>>)
    BY <1>1, IdleLiterals
  <1>2. CASE Go(t, << <<"scav", n, TRUE, <<>> >> >>)
    <2>1. PICK e : e = <<"scav", n, TRUE, <<>> >>
      OBVIOUS
    <2>2. Go(t, <<e>>) /\ e[1] \notin Storings
      BY <1>2, <2>1 DEF Storings
    <2>. QED
      BY <2>2, IdleLiterals
  <1>. QED
    BY <1>1, <1>2 DEF ScavengeOrNot

LEMMA ShrinkSize ==
    ASSUME IInv, SizeAccounted, NEW t \in Threads, NEW p, Shrink(t, p)
    PROVE  SizeAccounted'
  <1>1. PICK s : Go(t, s) /\ Idles(s)
    BY ScavengeIdles DEF Shrink
  <1>. QED
    BY <1>1, SizeStill DEF Shrink, Idle

-----------------------------------------------------------------------------
\* A search moves an item of the list, or brings one there that is being stored.
LEMMA HitSize ==
    ASSUME IInv, SizeAccounted, NEW t \in Threads, NEW s, Idles(s), Go(t, s),
           agenda[t] = <<>> \/ Head(agenda[t])[1] \notin Storings,
           NEW k \in Keys, Lookup(k) # Null, lru' = Touch(Lookup(k)), size' = size, item' = item
    PROVE  SizeAccounted'
  <1>1. PICK id : id = Lookup(k)
    OBVIOUS
  <1>2. id \in Ids /\ id \in Listed \cup InWindow
    BY <1>1, LookupIs
  <1>3. Listed' = Listed \cup {id}
    BY <1>1, <1>2, TouchIs DEF IInv, Typed, Listed
  <1>4. InWindow' = InWindow
    BY WindowSame
  <1>5. Accounted' = Accounted
    BY <1>2, <1>3, <1>4 DEF Accounted
  <1>. QED
    BY <1>5, SizeSame

LEMMA LoadImageSize ==
    ASSUME IInv, SizeAccounted, NEW o \in Objs, LoadImage(o)
    PROVE  SizeAccounted'
  <1>0. PICK k, e : k = <<Null, o>> /\ e = <<"load", o>>
    OBVIOUS
  <1>1. /\ Doc \in Threads /\ agenda[Doc] = <<>> /\ k \in Keys
    BY <1>0, Kinds DEF LoadImage, Idle, ObjKeys
  <1>2. CASE Lookup(k) # Null
    <2>1. Hit(Doc, "img", Lookup(k)) /\ Go(Doc, <<>>)
      BY <1>0, <1>2 DEF LoadImage, Find
    <2>. QED
      BY <1>1, <1>2, <2>1, IdleLiterals, HitSize DEF Hit
  <1>3. CASE Lookup(k) = Null
    <2>1. /\ Go(Doc, <<e>>) /\ lru' = lru /\ size' = size /\ item' = item
      BY <1>0, <1>3 DEF LoadImage, Find, storeVars
    <2>2. e[1] \notin Storings
      BY <1>0 DEF Storings
    <2>. QED
      BY <1>1, <2>1, <2>2, IdleLiterals, SizeStill
  <1>. QED
    BY <1>2, <1>3

LEMMA GetTileSize ==
    ASSUME IInv, SizeAccounted, NEW t \in Threads, NEW a \in Areas, GetTile(t, a)
    PROVE  SizeAccounted'
  <1>0. PICK k, e : k = <<hold[t]["img"], a>> /\ e = <<"decode", k>>
    OBVIOUS
  <1>1. agenda[t] = <<>> /\ hold[t]["img"] \in Images
    BY DEF GetTile, Idle, IInv, SlotsGood
  <1>2. k \in Keys
    BY <1>0, <1>1 DEF TileKeys, Keys
  <1>3. CASE Lookup(k) # Null
    <2>1. Hit(t, "tile", Lookup(k)) /\ Go(t, <<>>)
      BY <1>0, <1>3 DEF GetTile, Find
    <2>. QED
      BY <1>1, <1>2, <1>3, <2>1, IdleLiterals, HitSize DEF Hit
  <1>4. CASE Lookup(k) = Null
    <2>1. /\ Go(t, <<e>>) /\ lru' = lru /\ size' = size /\ item' = item
      BY <1>0, <1>4 DEF GetTile, Find, storeVars
    <2>2. e[1] \notin Storings
      BY <1>0 DEF Storings
    <2>. QED
      BY <1>1, <2>1, <2>2, IdleLiterals, SizeStill
  <1>. QED
    BY <1>3, <1>4

LEMMA ShareImageSize ==
    ASSUME IInv, SizeAccounted, NEW t \in Threads, NEW u \in Threads, ShareImage(t, u)
    PROVE  SizeAccounted'
  <1>1. /\ agenda[u] = <<>> /\ agenda' = agenda /\ lru' = lru /\ size' = size /\ item' = item
    BY DEF ShareImage, storeVars
  <1>2. Go(u, <<>>)
    BY <1>1 DEF Go, IInv, Typed
  <1>. QED
    BY <1>1, <1>2, IdleLiterals, SizeStill

\* The item that is stored was not in the list, and is not accounted for yet.
LEMMA StoreItemSize ==
    ASSUME IInv, SizeAccounted, NEW t \in Threads, StoreItem(t)
    PROVE  SizeAccounted'
  <1>1. agenda[t] # <<>> /\ Head(agenda[t])[1] = "store" /\ "store" \notin Storings
    BY ZenonT(20) DEF StoreItem, At, Storings
  <1>0. PICK x, k, q, v, id : x = Head(agenda[t])[2] /\ k = Head(agenda[t])[3]
                    /\ q = Head(agenda[t])[4] /\ v = hold[t][q]
                    /\ id = IF k \in Hashed THEN hash[k] ELSE Null
    OBVIOUS
  <1>s. k \in Keys /\ (x # Null => x \in Ids /\ ~item[x].live)
    <2>1. /\ k \in Keys
          /\ \/ x = Null /\ k \in ObjKeys /\ q = "img"
             \/ x \in Ids /\ Decoding(t, k) /\ q = "tile" /\ ~item[x].live
      BY <1>0, <1>1, StoreIs
    <2>. QED
      BY <2>1
  <1>2. CASE Go(t, <<>>) /\ UNCHANGED <<storeVars, item, valVars, hold, lock>>
    BY <1>1, <1>2, IdleLiterals, SizeStill DEF storeVars
  <1>3. CASE /\ id # Null
             /\ lru' = Touch(id)
             /\ refs' = Ref(refs, Val(id))
             /\ hold' = [hold EXCEPT ![t]["dup"] = Val(id)]
             /\ Go(t, << <<"retval", id, Val(id)>>, <<"dropown">> >>)
             /\ UNCHANGED <<hash, size, defer, needs, scav, item, keyRefs, mem, lock>>
    <2>1. k \in Hashed /\ Lookup(k) = id
      BY <1>0, <1>3 DEF Lookup
    <2>2. PICK d, e : d = <<"retval", id, Val(id)>> /\ e = <<"dropown">>
      OBVIOUS
    <2>3. Go(t, <<d, e>>) /\ d[1] \notin Storings /\ e[1] \notin Storings
      BY <1>3, <2>2 DEF Storings
    <2>4. Idles(<<d, e>>)
      BY <2>3, IdleLiterals
    <2>. QED
      BY <1>1, <1>3, <1>s, <2>1, <2>3, <2>4, HitSize
  <1>4. CASE /\ id = Null
             /\ \E j \in IF x = Null THEN FreeIds ELSE {x} :
                  /\ item' = [item EXCEPT ![j] =
                       [@ EXCEPT !.live = TRUE, !.held = TRUE, !.key = k, !.val = v]]
                  /\ hash' = IF k \in Hashed THEN [hash EXCEPT ![k] = j] ELSE hash
                  /\ Go(t, << <<"room", j>> >>)
             /\ refs' = Ref(refs, v)
             /\ KeepLock(t)
             /\ UNCHANGED <<lru, size, defer, needs, scav, keyRefs, mem, hold>>
    <2>1. PICK j \in IF x = Null THEN FreeIds ELSE {x} :
                  /\ item' = [item EXCEPT ![j] =
                       [@ EXCEPT !.live = TRUE, !.held = TRUE, !.key = k, !.val = v]]
                  /\ Go(t, << <<"room", j>> >>)
      BY ZenonT(20), <1>4
    <2>2. j \in Ids /\ ~item[j].live
      BY <1>s, <2>1 DEF FreeIds, KeyExists
    <2>3. \A i \in Ids : i # j => item'[i] = item[i]
      BY <2>1, <2>2 DEF IInv, Typed
    <2>4. PICK e : e = <<"room", j>>
      OBVIOUS
    <2>5. Go(t, <<e>>) /\ Sequence(<<e>>) /\ Stored(<<e>>) = {j} /\ HeadStored(t) = {}
      <3>1. Sequence(<<e>>) /\ ToSet(<<e>>) = {e}
        BY Literals
      <3>2. e[1] \in Storings /\ e[2] = j
        BY <2>4 DEF Storings
      <3>. QED
        BY <1>1, <2>1, <2>4, <3>1, <3>2 DEF Stored, HeadStored
    <2>6. InWindow' = InWindow \cup {j}
      BY <2>5, WindowIs
    <2>7. Listed' = Listed /\ j \notin Listed /\ Listed \subseteq Ids
      BY <1>4, <2>2, ListedIs DEF Listed
    <2>8. Accounted' = Accounted /\ \A i \in Accounted : item'[i].val = item[i].val
      BY <2>3, <2>6, <2>7 DEF Accounted
    <2>. QED
      BY <1>4, <2>8, SizeSame
  <1>. QED
    BY ZenonT(20), <1>0, <1>2, <1>3, <1>4 DEF StoreItem, Arg

LEMMA CreateImageSize ==
    ASSUME IInv, SizeAccounted, NEW t \in Threads, CreateImage(t)
    PROVE  SizeAccounted'
  <1>1. /\ Head(agenda[t])[1] \notin Storings /\ lru' = lru /\ size' = size /\ item' = item
    BY DEF CreateImage, At, storeVars, Storings
  <1>2. PICK e : e = <<"store", Null, <<Null, Arg(t, 2)>>, "img">>
    OBVIOUS
  <1>3. (Go(t, <<>>) \/ Go(t, <<e>>)) /\ e[1] \notin Storings
    BY <1>2 DEF CreateImage, Storings
  <1>. QED
    BY <1>1, <1>3, IdleLiterals, SizeStill

LEMMA DecodeSize ==
    ASSUME IInv, SizeAccounted, NEW t \in Threads, Decode(t)
    PROVE  SizeAccounted'
  <1>1. /\ Head(agenda[t])[1] \notin Storings /\ lru' = lru /\ size' = size /\ item' = item
    BY DEF Decode, At, storeVars, Storings
  <1>2. PICK e : e = <<"makekey", Arg(t, 2)>>
    OBVIOUS
  <1>3. (Go(t, <<>>) \/ Go(t, <<e>>)) /\ e[1] \notin Storings
    BY <1>2 DEF Decode, Storings
  <1>. QED
    BY <1>1, <1>3, IdleLiterals, SizeStill

LEMMA MakeKeySize ==
    ASSUME IInv, SizeAccounted, NEW t \in Threads, MakeKey(t)
    PROVE  SizeAccounted'
  <1>1. /\ Head(agenda[t])[1] \notin Storings /\ lru' = lru /\ size' = size
    BY DEF MakeKey, At, storeVars, Storings
  <1>2. CASE Go(t, <<>>) /\ item' = item
    BY <1>1, <1>2, IdleLiterals, SizeStill
  <1>3. ASSUME NEW id \in FreeIds, NEW k,
               item' = [item EXCEPT ![id] = [FreeItem EXCEPT !.mine = TRUE, !.key = k]],
               Go(t, << <<"store", id, k, "tile">>, <<"dropkey", id>> >>)
        PROVE  SizeAccounted'
    <2>1. id \in Ids /\ ~item[id].live /\ \A j \in Ids : j # id => item'[j] = item[j]
      BY <1>3 DEF FreeIds, KeyExists, IInv, Typed
    <2>2. \A j \in Listed : item'[j].val = item[j].val
      BY <2>1, ListedIs
    <2>3. PICK d, e : d = <<"store", id, k, "tile">> /\ e = <<"dropkey", id>>
      OBVIOUS
    <2>4. Go(t, <<d, e>>) /\ d[1] \notin Storings /\ e[1] \notin Storings
      BY <1>3, <2>3 DEF Storings
    <2>5. Idles(<<d, e>>)
      BY <2>4, IdleLiterals
    <2>. QED
      BY <1>1, <2>2, <2>4, <2>5, SizeStill
  <1>. QED
    BY <1>2, <1>3 DEF MakeKey

\* A key's last reference goes; its item, if any, stays.
LEMMA DestroyIdles == \A k : Idles(DestroyImageOf(k))
  <1>1. ASSUME NEW k PROVE Idles(DestroyImageOf(k))
    <2>1. PICK e : e = <<"destroy", ImageOf(k)>>
      OBVIOUS
    <2>2. DestroyImageOf(k) = <<>> \/ DestroyImageOf(k) = <<e>>
      BY <2>1 DEF DestroyImageOf
    <2>3. e[1] \notin Storings
      BY <2>1 DEF Storings
    <2>. QED
      BY <2>2, <2>3, IdleLiterals
  <1>. QED
    BY <1>1

LEMMA DropKeySize ==
    ASSUME IInv, SizeAccounted, NEW t \in Threads, DropKey(t)
    PROVE  SizeAccounted'
  <1>0. PICK id : id = Head(agenda[t])[2]
    OBVIOUS
  <1>1. /\ Head(agenda[t])[1] \notin Storings /\ lru' = lru /\ size' = size
    BY DEF DropKey, At, storeVars, Storings
  <1>2. CASE item[id].live /\ item' = [item EXCEPT ![id].mine = FALSE] /\ Go(t, <<>>)
    <2>1. \A j \in Listed : item'[j].val = item[j].val
      BY <1>2, ListedIs DEF IInv, Typed, ItemType
    <2>. QED
      BY <1>1, <1>2, <2>1, IdleLiterals, SizeStill
  <1>3. CASE /\ ~item[id].live /\ item' = [item EXCEPT ![id] = FreeItem]
             /\ Go(t, DestroyImageOf(item[id].key))
    <2>1. \A j \in Listed : item'[j].val = item[j].val
      BY <1>3, ListedIs DEF IInv, Typed
    <2>. QED
      BY <1>1, <1>3, <2>1, DestroyIdles, SizeStill
  <1>. QED
    BY <1>0, <1>2, <1>3 DEF DropKey, Arg

LEMMA ChainSize ==
    ASSUME IInv, SizeAccounted, NEW t \in Threads, ChainStep(t)
    PROVE  SizeAccounted'
  <1>0. PICK q, D, id, d, r :
            /\ q = Head(agenda[t])[2] /\ D = Head(agenda[t])[3] /\ id = Head(q)
            /\ d = <<"chain", q, D \ {id}>>
            /\ r = (IF Tail(q) = <<>> THEN <<>> ELSE << <<"chain", Tail(q), D>> >>)
    OBVIOUS
  <1>1. /\ agenda[t] # <<>> /\ Head(agenda[t])[1] = "chain" /\ lru' = lru /\ size' = size
    BY DEF ChainStep, At, storeVars
  <1>2. "chain" \notin Storings
    BY DEF Storings
  <1>3. d[1] \notin Storings /\ Idles(r)
    <2>1. PICK e : e = <<"chain", Tail(q), D>>
      OBVIOUS
    <2>2. e[1] \notin Storings /\ (r = <<>> \/ r = <<e>>)
      BY <1>0, <2>1 DEF Storings
    <2>. QED
      BY <1>0, <1>2, <2>2, IdleLiterals
  <1>4. id \in Ids /\ id \notin Listed
    <2>1. Sound(t, Head(agenda[t]))
      BY <1>1, HeadIs DEF IInv
    <2>2. q \in Seq(Ids) /\ q # <<>> /\ \A j \in ToSet(q) : Out(j)
      BY <1>0, <1>1, <2>1 DEF Sound
    <2>3. id \in ToSet(q) /\ id \in Ids
      BY <1>0, <2>2, SequenceIs DEF ToSet, Sequence
    <2>. QED
      BY <2>2, <2>3 DEF Out
  <1>5. CASE Go(t, <<d>>) /\ item' = item
    BY <1>1, <1>2, <1>3, <1>5, IdleLiterals, SizeStill
  <1>6. CASE /\ item' = [item EXCEPT ![id].live = FALSE, ![id].val = Null]
             /\ Go(t, r)
    <2>1. \A j \in Listed : item'[j].val = item[j].val
      BY <1>4, <1>6, ListedIs DEF IInv, Typed, ItemType
    <2>. QED
      BY <1>1, <1>2, <1>3, <1>6, <2>1, SizeStill
  <1>7. CASE /\ item' = [item EXCEPT ![id] = FreeItem]
             /\ Go(t, DestroyImageOf(item[id].key) \o r)
    <2>1. \A j \in Listed : item'[j].val = item[j].val
      BY <1>4, <1>7, ListedIs DEF IInv, Typed
    <2>2. Idles(DestroyImageOf(item[id].key) \o r)
      BY <1>3, DestroyIdles, IdleLiterals
    <2>. QED
      BY <1>1, <1>2, <1>7, <2>1, <2>2, SizeStill
  <1>. QED
    BY <1>0, <1>5, <1>6, <1>7 DEF ChainStep, Arg

\* References of a thread go: the store may then have to shrink, or to reap.
LEMMA DropTileSize ==
    ASSUME IInv, SizeAccounted, NEW t \in Threads, NEW s, DropTile(t, s),
           agenda[t] = <<>> \/ Head(agenda[t])[1] \notin Storings
    PROVE  SizeAccounted'
  <1>1. lru' = lru /\ size' = size /\ item' = item
    BY DEF DropTile
  <1>2. PICK r : Go(t, r) /\ Idles(r)
    <2>1. CASE \E n, w : ScavengeOrNot(t, n, w)
      BY <2>1, ScavengeIdles
    <2>2. ASSUME NEW v, Go(t, << <<"destroy", v>> >>) PROVE \E r : Go(t, r) /\ Idles(r)
      <3>1. PICK e : e = <<"destroy", v>>
        OBVIOUS
      <3>2. Go(t, <<e>>) /\ e[1] \notin Storings
        BY <2>2, <3>1 DEF Storings
      <3>. QED
        BY <3>2, IdleLiterals
    <2>. QED
      BY <2>1, <2>2 DEF DropTile
  <1>. QED
    BY <1>1, <1>2, SizeStill

LEMMA DropTilesSize ==
    ASSUME IInv, SizeAccounted, NEW t \in Threads, DropOwn(t) \/ \E s \in Slots : FinishWithTile(t, s)
    PROVE  SizeAccounted'
  <1>1. agenda[t] = <<>> \/ Head(agenda[t])[1] \notin Storings
    BY DEF DropOwn, FinishWithTile, At, Idle, Storings
  <1>2. \E s : DropTile(t, s)
    BY DEF DropOwn, FinishWithTile
  <1>. QED
    BY <1>1, <1>2, DropTileSize

LEMMA DropImageSize ==
    ASSUME IInv, SizeAccounted, NEW t \in Threads, FinishWithImage(t) \/ DropListImage(t) \/ DeferEnd(t)
    PROVE  SizeAccounted'
  <1>1. agenda[t] = <<>> \/ Head(agenda[t])[1] \notin Storings
    BY DEF FinishWithImage, DropListImage, DeferEnd, At, Idle, Storings
  <1>2. lru' = lru /\ size' = size /\ item' = item
    BY DEF FinishWithImage, DropListImage, DeferEnd, DropImage
  <1>3. PICK e, f : e = <<"destroy", hold[t]["img"]>> /\ f = <<"reap">>
    OBVIOUS
  <1>4. Go(t, <<>>) \/ Go(t, <<e>>) \/ Go(t, <<f>>)
    BY <1>3 DEF FinishWithImage, DropListImage, DeferEnd, DropImage
  <1>5. e[1] \notin Storings /\ f[1] \notin Storings
    BY <1>3 DEF Storings
  <1>. QED
    BY <1>1, <1>2, <1>4, <1>5, IdleLiterals, SizeStill

-----------------------------------------------------------------------------
\* Items leave the store; nobody is storing one of them.
LEMMA ChainIdles == \A S : Idles(Chain(S))
  <1>1. ASSUME NEW S PROVE Idles(Chain(S))
    <2>1. PICK e : e = <<"chain", InOrder(S), Destroyers(S)>>
      OBVIOUS
    <2>2. Chain(S) = <<>> \/ Chain(S) = <<e>>
      BY <2>1 DEF Chain
    <2>3. e[1] \notin Storings
      BY <2>1 DEF Storings
    <2>. QED
      BY <2>2, <2>3, IdleLiterals
  <1>. QED
    BY <1>1

LEMMA ReapSize ==
    ASSUME IInv, SizeAccounted, NEW t \in Threads, Reap(t)
    PROVE  SizeAccounted'
  <1>1. PICK S : S = {id \in Listed : NeedsReap(item[id].key)}
    OBVIOUS
  <1>2. /\ Head(agenda[t])[1] \notin Storings /\ Go(t, Chain(S)) /\ Unlink(S) /\ Disown(S)
    BY <1>1 DEF Reap, At, Storings
  <1>3. S \in SUBSET Listed /\ S \cap InWindow = {}
    BY <1>1, WindowSecured, SecuredTwice
  <1>. QED
    BY <1>2, <1>3, ChainIdles, SizeUnlinked

LEMMA ScavengeSize ==
    ASSUME IInv, SizeAccounted, NEW t \in Threads, Scavenge(t)
    PROVE  SizeAccounted'
  <1>0. PICK need, first, after, T, id :
            /\ need = Arg(t, 2) /\ first = Arg(t, 3) /\ after = Arg(t, 4)
            /\ T = (IF first \/ need > 0 THEN Suffix(need) ELSE {})
            /\ id = Largest(T)
    OBVIOUS
  <1>1. Head(agenda[t])[1] \notin Storings
    BY DEF Scavenge, At, Storings
  <1>2. T \subseteq Listed /\ \A j \in T : \A u \in Threads : ~Secured(u, j)
    <2>1. \E i : Suffix(need) = From(i)
      BY DEF Suffix
    <2>. QED
      BY <1>0, <2>1, UnusedOnly
  <1>3. CASE T # {}
    <2>1. PICK e, a, s : /\ e = <<"scav", need - Size(Val(id)), FALSE, after>>
                         /\ a = Chain({id}) /\ s = a \o <<e>>
      OBVIOUS
    <2>2. Unlink({id}) /\ Disown({id}) /\ Go(t, s)
      BY <1>0, <1>3, <2>1 DEF Scavenge
    <2>3. id \in T
      BY <1>0, <1>2, <1>3, LargestIs
    <2>4. {id} \in SUBSET Listed /\ {id} \cap InWindow = {}
      BY <1>2, <2>3, WindowSecured
    <2>5. Idles(s)
      <3>1. e[1] \notin Storings
        BY <2>1 DEF Storings
      <3>2. Idles(a) /\ Idles(<<e>>)
        BY <2>1, <3>1, ChainIdles, IdleLiterals
      <3>. QED
        BY <2>1, <3>2, IdleLiterals
    <2>. QED
      BY <1>1, <2>2, <2>4, <2>5, SizeUnlinked
  <1>4. CASE T = {}
    <2>1. lru' = lru /\ item' = item /\ size' = size
      BY <1>0, <1>4 DEF Scavenge
    <2>2. PICK s : Go(t, s) /\ Idles(s)
      <3>1. PICK e : e = <<"malloc", after[1], after[2]>>
        OBVIOUS
      <3>2. Go(t, <<>>) \/ Go(t, <<e>>)
        BY <1>0, <1>4, <3>1 DEF Scavenge
      <3>3. e[1] \notin Storings
        BY <3>1 DEF Storings
      <3>. QED
        BY <3>2, <3>3, IdleLiterals
    <2>. QED
      BY <1>1, <2>1, <2>2, SizeStill
  <1>. QED
    BY <1>3, <1>4

LEMMA FreeVictimSize ==
    ASSUME IInv, SizeAccounted, NEW t \in Threads, FreeVictim(t)
    PROVE  SizeAccounted'
  <1>0. PICK id, e : /\ id = Head(agenda[t])[2]
                     /\ e = <<"chain", <<id>>, IF refs[Val(id)] = 1 THEN {id} ELSE {}>>
    OBVIOUS
  <1>1. /\ Head(agenda[t])[1] \notin Storings /\ Disown({id})
        /\ lru' = lru /\ size' = size /\ Go(t, <<e>>)
    BY <1>0 DEF FreeVictim, At, Arg, storeVars, Storings
  <1>2. \A j \in Listed : item'[j].val = item[j].val
    BY <1>1, ListedIs DEF Disown, IInv, Typed, ItemType
  <1>3. e[1] \notin Storings
    BY <1>0 DEF Storings
  <1>. QED
    BY <1>1, <1>2, <1>3, IdleLiterals, SizeStill

\* A thread that is about to change what it holds is not storing anything.
LEMMA ChangingStoresNot ==
    ASSUME IInv, NEW t \in Threads, agenda[t] # <<>>, Head(agenda[t])[1] \in Changing
    PROVE  Storing(t) = {}
  <1>1. SUFFICES ASSUME NEW i \in DOMAIN agenda[t], agenda[t][i][1] \in Storings PROVE FALSE
    BY DEF Storing, Storings, Entries
  <1>2. Ordered(agenda[t]) /\ Head(agenda[t]) = agenda[t][1] /\ 1 \in DOMAIN agenda[t]
    BY HeadIs DEF IInv, AgendaOrdered
  <1>3. Changing \cap Storings = {} /\ Later \cap Storings \subseteq Relying
    BY DEF Changing, Storings, Later, Relying
  <1>4. i # 1
    BY <1>1, <1>2, <1>3
  <1>5. i \in Nat /\ i > 1 /\ 1 \in 1 .. i - 1
    <2>1. PICK X : agenda[t] \in Seq(X)
      BY DEF IInv, Typed
    <2>2. i \in 1 .. Len(agenda[t]) /\ Len(agenda[t]) \in Nat
      BY <1>1, <2>1
    <2>. QED
      BY <1>4, <2>2
  <1>6. agenda[t][i][1] \in Relying
    BY <1>1, <1>2, <1>3, <1>5 DEF Ordered
  <1>7. agenda[t][1][1] \notin Changing
    BY <1>1, <1>2, <1>5, <1>6 DEF Ordered
  <1>. QED
    BY <1>2, <1>7

LEMMA FilterSize ==
    ASSUME IInv, SizeAccounted, NEW t \in Threads, Filter(t)
    PROVE  SizeAccounted'
  <1>1. PICK K, S : K = Head(agenda[t])[2] /\ S = {id \in Listed : item[id].key \in K}
    OBVIOUS
  <1>2. /\ agenda[t] # <<>> /\ Head(agenda[t])[1] = "filter" /\ Go(t, Chain(S))
        /\ Unlink(S) /\ Disown(S)
    BY <1>1 DEF Filter, At, Arg
  <1>3. t = Doc /\ K \subseteq ObjKeys
    BY <1>1, <1>2, HeadIs DEF IInv, Sound
  <1>4. "filter" \in Changing \ Storings
    BY DEF Changing, Storings
  <1>5. ASSUME NEW j \in S, j \in InWindow PROVE FALSE
    <2>1. PICK u \in Threads : j \in Storing(u)
      BY <1>5 DEF InWindow
    <2>2. Secured(u, j)
      BY <2>1, StoringSecured
    <2>3. u = Doc
      BY <1>1, <1>3, <2>2, Kinds DEF Secured
    <2>. QED
      BY <1>2, <1>3, <1>4, <2>1, <2>3, ChangingStoresNot
  <1>6. S \in SUBSET Listed /\ S \cap InWindow = {}
    BY <1>1, <1>5
  <1>. QED
    BY <1>2, <1>4, <1>6, ChainIdles, SizeUnlinked

LEMMA EvictHeadSize ==
    ASSUME IInv, SizeAccounted, NEW t \in Threads, EvictHead(t)
    PROVE  SizeAccounted'
  <1>1. agenda[t] # <<>> /\ Head(agenda[t])[1] = "empty"
    BY DEF EvictHead, At
  <1>2. Threads = {Doc} /\ t = Doc
    <2>1. Sound(t, Head(agenda[t]))
      BY <1>1, HeadIs DEF IInv
    <2>2. Threads = {Doc}
      BY <1>1, <2>1 DEF Sound
    <2>. QED
      BY <2>2
  <1>3. "empty" \in Changing \ Storings
    BY DEF Changing, Storings
  <1>4. CASE lru = <<>>
    <2>1. Go(t, <<>>) /\ lru' = lru /\ size' = size /\ item' = item
      BY <1>4 DEF EvictHead
    <2>. QED
      BY <1>1, <1>3, <2>1, IdleLiterals, SizeStill
  <1>5. CASE lru # <<>>
    <2>1. PICK S, e, s : S = {Head(lru)} /\ e = <<"empty">> /\ s = Chain(S) \o <<e>>
      OBVIOUS
    <2>2. Unlink(S) /\ Disown(S) /\ Go(t, s)
      BY <1>5, <2>1 DEF EvictHead
    <2>3. S \in SUBSET Listed
      <3>1. lru \in Seq(Ids)
        BY DEF IInv, Typed
      <3>2. 1 \in DOMAIN lru /\ Head(lru) = lru[1]
        BY <1>5, <3>1
      <3>. QED
        BY <2>1, <3>2 DEF Listed, ToSet
    <2>4. InWindow = {}
      <3>1. Storing(t) = {}
        BY <1>1, <1>3, ChangingStoresNot
      <3>. QED
        BY <1>2, <3>1 DEF InWindow
    <2>5. Idles(s)
      <3>1. e[1] \notin Storings
        BY <2>1 DEF Storings
      <3>2. Idles(Chain(S)) /\ Idles(<<e>>)
        BY <3>1, ChainIdles, IdleLiterals
      <3>. QED
        BY <2>1, <3>2, IdleLiterals
    <2>. QED
      BY <1>1, <1>3, <2>2, <2>3, <2>4, <2>5, SizeUnlinked
  <1>. QED
    BY <1>4, <1>5

-----------------------------------------------------------------------------
\* The item being stored stays the same until it is linked.
LEMMA StoringOn ==
    ASSUME IInv, NEW t \in Threads, agenda[t] # <<>>, Head(agenda[t])[1] \in Storings,
           NEW id, id = Head(agenda[t])[2], NEW s, Sequence(s), Go(t, s), Stored(s) = {id}
    PROVE  InWindow' = InWindow
  <1>1. HeadStored(t) = {id}
    BY DEF HeadStored
  <1>2. id \in InWindow
    BY HeadIs DEF IInv, InWindow, Storing, Storings
  <1>. QED
    BY <1>1, <1>2, WindowIs

LEMMA EnsureSpaceSize ==
    ASSUME IInv, SizeAccounted, NEW t \in Threads, agenda[t] # <<>>,
           Head(agenda[t])[1] \in Storings, NEW id, id = Head(agenda[t])[2], EnsureSpace(t, id)
    PROVE  SizeAccounted'
  <1>0. PICK S, q, r, e, b, s :
            /\ S = Victims(Excess(id)) /\ q = InOrder(S)
            /\ r = [i \in 1 .. Len(q) |-> <<"unref", q[i]>>]
            /\ e = <<"finish", id>> /\ b = <<e>> /\ s = r \o b
    OBVIOUS
  <1>1. Unlink(S) /\ item' = item /\ Go(t, s)
    BY <1>0 DEF EnsureSpace
  <1>2. S \subseteq Listed /\ S \cap InWindow = {}
    <2>1. S = {} \/ \E i : S = From(i)
      BY <1>0 DEF Victims
    <2>. QED
      BY <2>1, UnusedOnly, WindowSecured
  <1>3. q \in Seq(Ids) /\ IsInjective(q) /\ ToSet(q) = S
    <2>1. lru \in Seq(Ids) /\ IsInjective(lru) /\ Listed \cap S = S
      BY <1>2 DEF IInv, Typed, ListGood
    <2>. QED
      BY <1>0, <2>1, InOrderIs
  <1>4. Sequence(r) /\ ToSet(r) = {<<"unref", j>> : j \in S}
    <2>1. r = [i \in 1 .. Len(q) |-> <<"unref", q[i]>>]
      BY <1>0
    <2>2. Sequence(r) /\ ToSet(r) = {<<"unref", j>> : j \in ToSet(q)}
      BY <1>3, <2>1, UnrefsAre
    <2>. QED
      BY <1>3, <2>2
  <1>5. Sequence(b) /\ ToSet(b) = {e}
    BY <1>0, Literals
  <1>6. Sequence(s) /\ ToSet(s) = ToSet(r) \cup {e}
    <2>1. Sequence(r \o b) /\ ToSet(r \o b) = ToSet(r) \cup ToSet(b)
      BY <1>4, <1>5, ConcatIs
    <2>. QED
      BY <1>0, <1>5, <2>1, Zenon
  <1>7. Stored(s) = {id}
    <2>1. e[1] \in Storings /\ e[2] = id
      BY <1>0 DEF Storings
    <2>2. \A d \in ToSet(r) : d[1] \notin Storings
      BY <1>4 DEF Storings
    <2>. QED
      BY <1>6, <2>1, <2>2 DEF Stored
  <1>8. InWindow' = InWindow
    BY <1>1, <1>6, <1>7, StoringOn
  <1>9. Accounted' = Accounted \ S /\ S \in SUBSET Accounted
    BY <1>1, <1>2, <1>8, UnlinkedIs DEF Unlink, Accounted
  <1>. QED
    BY <1>1, <1>9, SizeLess DEF Unlink

LEMMA RoomSize ==
    ASSUME IInv, SizeAccounted, NEW t \in Threads, Room(t) \/ RoomAgain(t)
    PROVE  SizeAccounted'
  <1>0. PICK id, d, e, f : /\ id = Head(agenda[t])[2] /\ d = <<"reap">>
                           /\ e = <<"again", id>> /\ f = <<"finish", id>>
    OBVIOUS
  <1>1. agenda[t] # <<>> /\ Head(agenda[t])[1] \in Storings
    BY DEF Room, RoomAgain, At, Storings
  <1>2. CASE EnsureSpace(t, id)
    BY <1>0, <1>1, <1>2, EnsureSpaceSize
  <1>3. CASE lru' = lru /\ size' = size /\ item' = item /\ (Go(t, <<f>>) \/ Go(t, <<d, e>>))
    <2>1. /\ d[1] \notin Storings /\ e[1] \in Storings /\ e[2] = id
          /\ f[1] \in Storings /\ f[2] = id
      BY <1>0 DEF Storings
    <2>2. /\ Sequence(<<f>>) /\ ToSet(<<f>>) = {f}
          /\ Sequence(<<d, e>>) /\ ToSet(<<d, e>>) = {d, e}
      BY Literals
    <2>3. Stored(<<f>>) = {id} /\ Stored(<<d, e>>) = {id}
      BY <2>1, <2>2 DEF Stored
    <2>4. InWindow' = InWindow
      BY <1>0, <1>1, <1>3, <2>2, <2>3, StoringOn
    <2>5. Accounted' = Accounted
      BY <1>3, <2>4 DEF Accounted, Listed
    <2>. QED
      BY <1>3, <2>5, SizeSame
  <1>. QED
    BY <1>0, <1>2, <1>3 DEF Room, RoomAgain, Arg, storeVars

\* Linked, the item is accounted for.
LEMMA FinishSize ==
    ASSUME IInv, SizeAccounted, NEW t \in Threads, Finish(t)
    PROVE  SizeAccounted'
  <1>0. PICK id : id = Head(agenda[t])[2]
    OBVIOUS
  <1>1. /\ agenda[t] # <<>> /\ Head(agenda[t])[1] = "finish" /\ Go(t, <<>>)
        /\ lru' = Touch(id) /\ item' = item /\ size' = size + Size(Val(id))
    BY <1>0 DEF Finish, At, Arg
  <1>2. "finish" \in Storings
    BY DEF Storings
  <1>3. Secured(t, id)
    BY <1>0, <1>1, <1>2, StoringIs
  <1>4. id \in Ids /\ Val(id) \in Vals
    BY <1>3, Kinds DEF Secured, IInv, ItemsGood, KeyExists, Val
  <1>5. Listed' = Listed \cup {id}
    BY <1>1, <1>4, TouchIs DEF IInv, Typed, Listed
  <1>6. InWindow' = InWindow \ {id} /\ id \in InWindow
    <2>1. HeadStored(t) = {id}
      BY <1>0, <1>1, <1>2 DEF HeadStored
    <2>2. Sequence(<<>>) /\ Stored(<<>>) = {}
      BY Literals DEF Stored
    <2>3. id \in InWindow
      BY <1>0, <1>1, <1>2, HeadIs DEF IInv, InWindow, Storing, Storings
    <2>. QED
      BY <1>1, <2>1, <2>2, <2>3, WindowIs
  <1>7. id \notin Accounted /\ Accounted' = Accounted \cup {id}
    BY <1>5, <1>6 DEF Accounted
  <1>. QED
    BY <1>1, <1>4, <1>7, SizeMore

-----------------------------------------------------------------------------
LEMMA SizeStep ==
    ASSUME IInv, SizeAccounted, "remove" \notin Ops, [Next]_vars
    PROVE  SizeAccounted'
  <1>1. CASE Document
    <2>1. \A o \in Objs : ~RemoveItem(o)
      BY DEF RemoveItem
    <2>. QED
      BY <1>1, <2>1, LoadImageSize, DocBeginSize DEF Document
  <1>2. ASSUME NEW t \in Threads, Client(t) PROVE SizeAccounted'
    <2>1. CASE \E p \in {0, 50} : Shrink(t, p)
      BY <2>1, ShrinkSize
    <2>2. CASE \E n \in {r[2] : r \in {r \in Requests : r[1] = t}} : Malloc(t, n)
      BY <2>2, MallocSize
    <2>3. CASE (\E u \in Threads : ShareImage(t, u)) \/ (\E a \in Areas : GetTile(t, a))
      BY <2>3, ShareImageSize, GetTileSize
    <2>4. CASE FinishWithImage(t) \/ (\E s \in Slots : FinishWithTile(t, s))
      BY <2>4, DropImageSize, DropTilesSize
    <2>5. CASE EmptyStore(t) \/ DropList(t)
      BY <2>5, BeginSize
    <2>. QED
      BY <1>2, <2>1, <2>2, <2>3, <2>4, <2>5 DEF Client
  <1>3. ASSUME NEW t \in Threads, Step(t) PROVE SizeAccounted'
    <2>1. CASE Destroy(t) \/ ChainStep(t) \/ Reap(t) \/ Scavenge(t)
      BY <2>1, DestroySize, ChainSize, ReapSize, ScavengeSize
    <2>2. CASE StoreItem(t) \/ ReturnExisting(t) \/ DropOwn(t)
      BY <2>2, StoreItemSize, EndSize, DropTilesSize
    <2>3. CASE Room(t) \/ RoomAgain(t) \/ FreeVictim(t) \/ Finish(t)
      BY <2>3, RoomSize, FreeVictimSize, FinishSize
    <2>4. CASE CreateImage(t) \/ Decode(t) \/ MakeKey(t) \/ DropKey(t)
      BY <2>4, CreateImageSize, DecodeSize, MakeKeySize, DropKeySize
    <2>5. CASE DropListImage(t) \/ DeferEnd(t) \/ Filter(t) \/ EvictHead(t)
      BY <2>5, DropImageSize, FilterSize, EvictHeadSize
    <2>6. CASE TryMalloc(t) \/ ScavengePhases(t) \/ OutOfMemory(t)
      BY <2>6, TrySize, EndSize
    <2>. QED
      BY <1>3, <2>1, <2>2, <2>3, <2>4, <2>5, <2>6 DEF Step
  <1>4. CASE UNCHANGED vars
    <2>1. lru' = lru /\ size' = size /\ item' = item /\ agenda' = agenda
      BY <1>4 DEF vars, storeVars
    <2>2. Accounted' = Accounted
      BY <2>1 DEF Accounted, Listed, InWindow, Storing, Entries
    <2>. QED
      BY <2>1, <2>2, SizeSame
  <1>. QED
    BY <1>1, <1>2, <1>3, <1>4 DEF Next

LEMMA SizeInit == Init => SizeAccounted
  <1>1. SUFFICES ASSUME Init PROVE SizeAccounted
    OBVIOUS
  <1>2. Listed \ InWindow = {} /\ size = 0
    <2>1. lru = <<>> /\ size = 0
      BY <1>1 DEF Init
    <2>2. Listed = {}
      BY <2>1 DEF Listed, ToSet
    <2>. QED
      BY <2>1, <2>2
  <1>3. Bytes({}) = AddUp(ItemSize(item), {})
    BY BytesOf
  <1>. QED
    BY <1>2, <1>3, SumEmpty DEF SizeAccounted

\* store->size is what the items of the list take, in all calls of fz_store_item,
\* evictions, reaps, purges and closings of documents: whoever takes an item out
\* of the list takes it off the size, and no one does so with an item another
\* thread has yet to account for.
THEOREM SizeIsAccounted ==
    EmptiedAlone /\ "remove" \notin Ops /\ Spec => []SizeAccounted
  <1>1. Init => SizeAccounted
    BY SizeInit
  <1>2. "remove" \notin Ops /\ IInv /\ SizeAccounted /\ [Next]_vars => SizeAccounted'
    BY SizeStep
  <1>3. CASE "remove" \notin Ops
    <2>1. IInv /\ SizeAccounted /\ [Next]_vars => SizeAccounted'
      BY <1>2, <1>3
    <2>. QED
      BY <1>1, <2>1, Inductive, PTL DEF Spec
  <1>4. CASE ~("remove" \notin Ops)
    BY <1>4
  <1>. QED
    BY <1>3, <1>4
=============================================================================
