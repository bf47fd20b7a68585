-------------------------- MODULE GlyphCacheProofs --------------------------
(***************************************************************************)
(* Theorems about GlyphCache, for any threads, fonts, glyphs and sizes.    *)
(*                                                                         *)
(* A font is not freed under an entry or a rendering thread because it is  *)
(* counted for both; so the address an entry has as its key is not reused  *)
(* while the entry lives, and a lookup by address finds a glyph of the     *)
(* right font.  The counts, one by one, need that no glyph handed out as   *)
(* new is still in an entry, which is again what the counts say.  IInv has *)
(* the three together, with the total as the sum of the entries' sizes.    *)
(*                                                                         *)
(* The sum is a recursion over the entries.  That it exists, is unique and *)
(* adds over concatenation is proved by the least position that would be a *)
(* counterexample, so that nothing rests on an induction scheme.           *)
(***************************************************************************)
EXTENDS GlyphCache, SequenceTheorems, FiniteSetTheorems, TLAPS

Entry == [key : Addresses, val : Glyphs]

-----------------------------------------------------------------------------
\* A set of natural numbers that is not empty has a least element.
LEMMA Least == ASSUME NEW F \in SUBSET Nat, F # {} PROVE \E j \in F : \A k \in F : j <= k
  <1>1. PICK j \in F : \A k \in F : ~(<<k, j>> \in OpToRel(<, Nat))
    BY NatLessThanWellFounded, WFMin
  <1>2. \A k \in F : ~(k < j)
    BY <1>1 DEF OpToRel
  <1>. QED
    BY <1>2

\* A set of natural numbers with a bound has a greatest, which Max chooses.
LEMMA Greatest ==
    ASSUME NEW N \in Nat, NEW F \in SUBSET (0 .. N), F # {}
    PROVE  Max(F) \in F /\ \A k \in F : k <= Max(F)
  <1>. DEFINE B == {b \in Nat : \A k \in F : k <= b}
  <1>1. N \in B /\ B \in SUBSET Nat
    OBVIOUS
  <1>2. PICK b \in B : \A c \in B : b <= c
    BY <1>1, Least
  <1>3. b \in F
    <2>. SUFFICES ASSUME b \notin F PROVE FALSE
      OBVIOUS
    <2>1. PICK k \in F : TRUE
      OBVIOUS
    <2>2. b # 0
      BY <1>2, <2>1
    <2>3. \A j \in F : j <= b - 1
      BY <1>2
    <2>4. b - 1 \in B
      BY <1>2, <2>2, <2>3
    <2>. QED
      BY <1>2, <2>4
  <1>4. \A k \in F : b >= k
    BY <1>2
  <1>. QED
    BY <1>3, <1>4 DEF Max

\* What holds of 0, and of k when it holds of k - 1, holds up to N.
LEMMA CountingUp ==
    ASSUME NEW N \in Nat, NEW G, 0 \in G, \A k \in 1 .. N : k - 1 \in G => k \in G
    PROVE  \A k \in 0 .. N : k \in G
  <1>. DEFINE Bad == {k \in 0 .. N : k \notin G}
  <1>1. Bad \in SUBSET Nat
    OBVIOUS
  <1>2. ASSUME Bad # {} PROVE FALSE
    <2>1. PICK k \in Bad : \A j \in Bad : k <= j
      <3>. HIDE DEF Bad
      <3>. QED
        BY <1>1, <1>2, Least
    <2>2. k \in 1 .. N /\ k - 1 \in 0 .. N /\ ~(k <= k - 1)
      BY <2>1
    <2>3. k - 1 \in G
      BY <2>1, <2>2
    <2>. QED
      BY <2>1, <2>2, <2>3
  <1>. QED
    BY <1>2

-----------------------------------------------------------------------------
(* The sizes of the entries, added up from the front.                      *)
AddsUp(l, s) ==
    /\ s \in [0 .. Len(l) -> Nat]
    /\ s[0] = 0
    /\ \A n \in 1 .. Len(l) : s[n] = s[n - 1] + SizeOf(l[n])

LEMMA SizeType == ASSUME NEW l \in Seq(Entry), NEW n \in 1 .. Len(l) PROVE SizeOf(l[n]) \in Nat
  <1>1. l[n] \in Entry
    BY ElementOfSeq
  <1>2. l[n].key \in Addresses
    BY <1>1 DEF Entry
  <1>. QED
    BY <1>2, GlyphCacheAssumption DEF SizeOf

\* There is such a sum for every length,
LEMMA AddsUpExists == ASSUME NEW l \in Seq(Entry) PROVE \E s : AddsUp(l, s)
  <1>. DEFINE Upto(k, s) == /\ s \in [0 .. k -> Nat]
                            /\ s[0] = 0
                            /\ \A n \in 1 .. k : s[n] = s[n - 1] + SizeOf(l[n])
              G == {k \in 0 .. Len(l) : \E s : Upto(k, s)}
  <1>0. Len(l) \in Nat
    OBVIOUS
  <1>1. 0 \in G
    <2>1. Upto(0, [i \in 0 .. 0 |-> 0])
      OBVIOUS
    <2>2. 0 \in 0 .. Len(l)
      BY <1>0
    <2>. HIDE DEF Upto
    <2>. QED
      BY <2>1, <2>2
  <1>2. ASSUME NEW k \in 1 .. Len(l), k - 1 \in G PROVE k \in G
    <2>1. PICK s : Upto(k - 1, s)
      BY <1>2
    <2>. DEFINE r == [i \in 0 .. k |-> IF i = k THEN s[k - 1] + SizeOf(l[k]) ELSE s[i]]
    <2>2. SizeOf(l[k]) \in Nat
      BY SizeType
    <2>3. r \in [0 .. k -> Nat]
      BY <1>0, <2>1, <2>2
    <2>4. r[0] = 0
      BY <1>0, <2>1
    <2>5. \A n \in 1 .. k : r[n] = r[n - 1] + SizeOf(l[n])
      <3>. SUFFICES ASSUME NEW n \in 1 .. k PROVE r[n] = r[n - 1] + SizeOf(l[n])
        OBVIOUS
      <3>1. CASE n = k
        BY <1>0, <3>1
      <3>2. CASE n # k
        BY <1>0, <2>1, <3>2
      <3>. QED
        BY <3>1, <3>2
    <2>6. Upto(k, r)
      BY <2>3, <2>4, <2>5
    <2>7. k \in 0 .. Len(l)
      BY <1>0
    <2>. HIDE DEF Upto, r
    <2>. QED
      BY <2>6, <2>7
  <1>. HIDE DEF G
  <1>3. \A k \in 0 .. Len(l) : k \in G
    BY <1>0, <1>1, <1>2, CountingUp
  <1>4. \E s : Upto(Len(l), s)
    BY <1>3 DEF G
  <1>. QED
    BY <1>4 DEF AddsUp

\* only one,
LEMMA AddsUpOnce ==
    ASSUME NEW l \in Seq(Entry), NEW s, NEW r, AddsUp(l, s), AddsUp(l, r)
    PROVE  s = r
  <1>. DEFINE G == {k \in 0 .. Len(l) : s[k] = r[k]}
  <1>0. Len(l) \in Nat
    OBVIOUS
  <1>1. 0 \in G
    BY <1>0 DEF AddsUp
  <1>2. ASSUME NEW k \in 1 .. Len(l), k - 1 \in G PROVE k \in G
    BY <1>0, <1>2 DEF AddsUp
  <1>. HIDE DEF G
  <1>3. \A k \in 0 .. Len(l) : k \in G
    BY <1>0, <1>1, <1>2, CountingUp
  <1>. QED
    BY <1>3 DEF AddsUp, G

\* and it is the one the loop computes.
LEMMA SumIs ==
    ASSUME NEW l \in Seq(Entry), NEW s, AddsUp(l, s)
    PROVE  Sum(l) = s[Len(l)]
  <1>. DEFINE Rec(u) == u = [n \in 0 .. Len(l) |->
                               IF n = 0 THEN 0 ELSE u[n - 1] + SizeOf(l[n])]
              up == CHOOSE u : Rec(u)
  <1>0. Len(l) \in Nat
    OBVIOUS
  <1>1. Rec(s)
    <2>1. s = [n \in 0 .. Len(l) |-> s[n]]
      BY DEF AddsUp
    <2>2. \A n \in 0 .. Len(l) : s[n] = IF n = 0 THEN 0 ELSE s[n - 1] + SizeOf(l[n])
      BY <1>0 DEF AddsUp
    <2>. QED
      BY <2>1, <2>2
  <1>2. Rec(up)
    BY <1>1
  <1>3. Sum(l) = up[Len(l)]
    BY DEF Sum
  <1>. HIDE DEF up
  <1>4. AddsUp(l, up)
    <2>. DEFINE G == {k \in 0 .. Len(l) : up[k] = s[k]}
    <2>1. \A k \in 0 .. Len(l) : k \in G
      <3>0. \A k \in 0 .. Len(l) : up[k] = IF k = 0 THEN 0 ELSE up[k - 1] + SizeOf(l[k])
        BY <1>2
      <3>1. 0 \in G
        BY <1>0, <3>0 DEF AddsUp
      <3>2. ASSUME NEW k \in 1 .. Len(l), k - 1 \in G PROVE k \in G
        BY <1>0, <3>0, <3>2 DEF AddsUp
      <3>. HIDE DEF G
      <3>. QED
        BY <1>0, <3>1, <3>2, CountingUp
    <2>2. up = [n \in 0 .. Len(l) |-> up[n]]
      BY <1>2
    <2>3. s = [n \in 0 .. Len(l) |-> s[n]]
      BY DEF AddsUp
    <2>. QED
      BY <2>1, <2>2, <2>3
  <1>. QED
    BY <1>3, <1>4, AddsUpOnce

\* What a cache of two parts holds is the sum of what they hold.
LEMMA SumConcat ==
    ASSUME NEW a \in Seq(Entry), NEW b \in Seq(Entry)
    PROVE  Sum(a \o b) = Sum(a) + Sum(b)
  <1>. DEFINE c == a \o b
  <1>1. PICK s : AddsUp(a, s)
    BY AddsUpExists
  <1>2. PICK r : AddsUp(b, r)
    BY AddsUpExists
  <1>3. /\ c \in Seq(Entry) /\ Len(c) = Len(a) + Len(b)
        /\ \A i \in 1 .. Len(c) : c[i] = IF i <= Len(a) THEN a[i] ELSE b[i - Len(a)]
    BY ConcatProperties
  <1>. HIDE DEF c
  <1>4. Len(a) \in Nat /\ Len(b) \in Nat
    OBVIOUS
  <1>. DEFINE u == [n \in 0 .. Len(c) |->
                      IF n <= Len(a) THEN s[n] ELSE s[Len(a)] + r[n - Len(a)]]
  <1>5. u \in [0 .. Len(c) -> Nat]
    <2>1. s \in [0 .. Len(a) -> Nat] /\ r \in [0 .. Len(b) -> Nat] /\ s[Len(a)] \in Nat
      BY SMTT(40), <1>1, <1>2, <1>4 DEF AddsUp
    <2>2. ASSUME NEW n \in 0 .. Len(c) PROVE u[n] \in Nat
      <3>1. n > Len(a) => n - Len(a) \in 0 .. Len(b)
        BY <1>3, <1>4
      <3>2. n <= Len(a) => n \in 0 .. Len(a)
        BY <1>4
      <3>3. CASE n <= Len(a)
        BY <2>1, <3>2, <3>3
      <3>4. CASE n > Len(a)
        <4>0. n - Len(a) \in 0 .. Len(b) /\ ~(n <= Len(a))
          BY <1>3, <1>4, <3>1, <3>4
        <4>1. r[n - Len(a)] \in Nat /\ ~(n <= Len(a))
          BY <2>1, <4>0
        <4>2. u[n] = s[Len(a)] + r[n - Len(a)]
          BY <4>1
        <4>. HIDE DEF u
        <4>. QED
          BY <2>1, <4>1, <4>2
      <3>. QED
        BY <1>3, <1>4, <3>3, <3>4
    <2>. QED
      BY <2>2
  <1>6. u[0] = 0
    BY <1>1, <1>3, <1>4 DEF AddsUp
  <1>7. ASSUME NEW n \in 1 .. Len(c) PROVE u[n] = u[n - 1] + SizeOf(c[n])
    <2>0. n \in 0 .. Len(c) /\ n - 1 \in 0 .. Len(c)
      BY <1>3, <1>4
    <2>1. CASE n <= Len(a)
      <3>1. n \in 1 .. Len(a) /\ c[n] = a[n] /\ n - 1 <= Len(a)
        BY <1>3, <1>4, <2>1
      <3>2. u[n] = s[n] /\ u[n - 1] = s[n - 1]
        BY <2>0, <2>1, <3>1
      <3>. QED
        BY <1>1, <3>1, <3>2 DEF AddsUp
    <2>2. CASE n > Len(a)
      <3>. DEFINE m == n - Len(a)
      <3>0. m \in 1 .. Len(b)
        BY <1>3, <1>4, <2>2
      <3>1. m \in 1 .. Len(b) /\ c[n] = b[m]
        BY <1>3, <1>4, <2>2, <3>0
      <3>. HIDE DEF m
      <3>2. /\ r[m] = r[m - 1] + SizeOf(b[m]) /\ r[0] = 0
            /\ s[Len(a)] \in Nat
            /\ r[m - 1] \in Nat /\ SizeOf(b[m]) \in Nat
        <4>1. r[m] = r[m - 1] + SizeOf(b[m]) /\ r[0] = 0
          BY <1>2, <3>1 DEF AddsUp
        <4>2. m - 1 \in 0 .. Len(b) /\ Len(a) \in 0 .. Len(a)
          BY <1>4, <3>1
        <4>3. r[m - 1] \in Nat /\ s[Len(a)] \in Nat
          BY <1>1, <1>2, <4>2 DEF AddsUp
        <4>4. SizeOf(b[m]) \in Nat
          BY <3>1, SizeType
        <4>. QED
          BY <4>1, <4>3, <4>4
      <3>. USE DEF m
      <3>3. u[n] = s[Len(a)] + r[m]
        BY <1>4, <2>0, <2>2
      <3>4. u[n - 1] = s[Len(a)] + r[m - 1]
        <4>1. CASE n - 1 = Len(a)
          <5>1. m - 1 = 0 /\ u[n - 1] = s[Len(a)]
            BY <1>4, <2>0, <4>1
          <5>. QED
            BY <3>2, <5>1
        <4>2. CASE n - 1 # Len(a)
          <5>1. ~(n - 1 <= Len(a)) /\ (n - 1) - Len(a) = m - 1
            BY <1>4, <2>0, <2>2, <4>2
          <5>. QED
            BY <2>0, <5>1
        <4>. QED
          BY <4>1, <4>2
      <3>. HIDE DEF m, u
      <3>. QED
        BY <3>1, <3>2, <3>3, <3>4
    <2>. QED
      BY <1>3, <1>4, <2>1, <2>2
  <1>8. AddsUp(c, u)
    BY <1>5, <1>6, <1>7 DEF AddsUp
  <1>9. Sum(c) = u[Len(c)] /\ Sum(a) = s[Len(a)] /\ Sum(b) = r[Len(b)]
    BY <1>1, <1>2, <1>3, <1>8, SumIs
  <1>10. u[Len(c)] = s[Len(a)] + r[Len(b)]
    <2>1. r[0] = 0 /\ s[Len(a)] \in Nat
      BY SMTT(40), <1>1, <1>2, <1>4 DEF AddsUp
    <2>. QED
      BY <1>3, <1>4, <2>1
  <1>. QED
    BY <1>9, <1>10 DEF c

LEMMA SumType == ASSUME NEW l \in Seq(Entry) PROVE Sum(l) \in Nat
  <1>1. PICK s : AddsUp(l, s)
    BY AddsUpExists
  <1>. QED
    BY <1>1, SumIs DEF AddsUp

LEMMA SumEmpty == Sum(<<>>) = 0
  <1>1. <<>> \in Seq(Entry) /\ Len(<<>>) = 0
    OBVIOUS
  <1>2. PICK s : AddsUp(<<>>, s)
    BY <1>1, AddsUpExists
  <1>. QED
    BY <1>1, <1>2, SumIs DEF AddsUp

LEMMA SumOne == ASSUME NEW e \in Entry PROVE Sum(<<e>>) = SizeOf(e)
  <1>. DEFINE l == <<e>>
              s == [n \in 0 .. 1 |-> IF n = 0 THEN 0 ELSE SizeOf(e)]
  <1>1. l \in Seq(Entry) /\ Len(l) = 1 /\ l[1] = e
    OBVIOUS
  <1>2. SizeOf(e) \in Nat
    BY GlyphCacheAssumption DEF Entry, SizeOf
  <1>. HIDE DEF l
  <1>3. AddsUp(l, s)
    BY <1>1, <1>2 DEF AddsUp
  <1>4. Sum(l) = s[1]
    BY <1>1, <1>3, SumIs
  <1>. QED
    BY <1>4 DEF l

-----------------------------------------------------------------------------
(* Where in the cache the entries of a set are, and how many there are.    *)
Places(l, T) == {i \in 1 .. Len(l) : l[i] \in T}
OfFont(f) == {e \in Entry : e.key = f}
OfGlyph(g) == {e \in Entry : e.val = g}

LEMMA PlacesFinite ==
    ASSUME NEW l \in Seq(Entry), NEW T
    PROVE  /\ IsFiniteSet(Places(l, T))
           /\ Cardinality(Places(l, T)) \in Nat
           /\ Cardinality(Places(l, T)) = 0 => \A i \in 1 .. Len(l) : l[i] \notin T
  <1>1. IsFiniteSet(1 .. Len(l)) /\ Places(l, T) \in SUBSET (1 .. Len(l))
    BY FS_Interval DEF Places
  <1>2. IsFiniteSet(Places(l, T))
    BY <1>1, FS_Subset
  <1>3. Cardinality(Places(l, T)) \in Nat
    BY <1>2, FS_CardinalityType
  <1>4. Cardinality(Places(l, T)) = 0 => Places(l, T) = {}
    BY <1>2, FS_EmptySet
  <1>. QED
    BY <1>2, <1>3, <1>4 DEF Places

LEMMA PlacesConcat ==
    ASSUME NEW a \in Seq(Entry), NEW b \in Seq(Entry), NEW T
    PROVE  Cardinality(Places(a \o b, T)) =
               Cardinality(Places(a, T)) + Cardinality(Places(b, T))
  <1>. DEFINE c == a \o b
              A == Places(a, T)
              B == Places(b, T)
              C == Places(c, T)
              Later == {i \in C : i > Len(a)}
  <1>1. /\ Len(c) = Len(a) + Len(b) /\ Len(a) \in Nat /\ Len(b) \in Nat
        /\ \A i \in 1 .. Len(c) : c[i] = IF i <= Len(a) THEN a[i] ELSE b[i - Len(a)]
    BY ConcatProperties
  <1>. HIDE DEF c
  <1>2. C = A \cup Later /\ A \cap Later = {}
    BY <1>1 DEF Places
  <1>3. ExistsBijection(B, Later)
    <2>. DEFINE F == [i \in B |-> Len(a) + i]
    <2>1. ASSUME NEW i \in B PROVE F[i] \in Later
      <3>1. i \in 1 .. Len(b) /\ b[i] \in T
        BY DEF Places
      <3>2. /\ Len(a) + i \in 1 .. Len(c) /\ Len(a) + i > Len(a)
            /\ (Len(a) + i) - Len(a) = i /\ ~(Len(a) + i <= Len(a))
        BY <1>1, <3>1
      <3>3. c[Len(a) + i] = b[i]
        BY <1>1, <3>2
      <3>. QED
        BY <3>1, <3>2, <3>3 DEF Places
    <2>2. \A i, j \in B : F[i] = F[j] => i = j
      BY <1>1 DEF Places
    <2>3. ASSUME NEW k \in Later PROVE \E i \in B : F[i] = k
      <3>1. k \in 1 .. Len(c) /\ k > Len(a) /\ c[k] \in T /\ ~(k <= Len(a))
        BY <1>1 DEF Places
      <3>2. k - Len(a) \in 1 .. Len(b) /\ Len(a) + (k - Len(a)) = k
        BY <1>1, <3>1
      <3>3. b[k - Len(a)] \in T
        BY <1>1, <3>1
      <3>4. k - Len(a) \in B
        BY <3>2, <3>3 DEF Places
      <3>. QED
        BY <3>2, <3>4
    <2>. HIDE DEF B, Later
    <2>4. F \in Bijection(B, Later)
      BY <2>1, <2>2, <2>3 DEF Bijection, Injection, Surjection, IsInjective
    <2>. HIDE DEF F
    <2>. QED
      BY <2>4 DEF ExistsBijection
  <1>4. IsFiniteSet(A) /\ IsFiniteSet(B) /\ Cardinality(A) \in Nat
    BY PlacesFinite
  <1>. HIDE DEF A, B, C, Later
  <1>5. IsFiniteSet(Later) /\ Cardinality(Later) = Cardinality(B)
    BY <1>3, <1>4, FS_Bijection
  <1>6. Cardinality(Later) \in Nat
    BY <1>5, FS_CardinalityType
  <1>7. Cardinality(A \cup Later) = Cardinality(A) + Cardinality(Later) - Cardinality(A \cap Later)
    BY <1>4, <1>5, FS_Union
  <1>8. Cardinality(C) = Cardinality(A) + Cardinality(B)
    <2>1. Cardinality(A \cap Later) = 0
      BY <1>2, FS_EmptySet
    <2>2. Cardinality(C) = Cardinality(A) + Cardinality(Later) - 0
      BY <1>2, <1>7, <2>1
    <2>. QED
      BY <1>4, <1>5, <1>6, <2>2
  <1>. QED
    BY <1>8 DEF A, B, C, c

LEMMA PlacesOne ==
    ASSUME NEW e \in Entry, NEW T
    PROVE  Cardinality(Places(<<e>>, T)) = IF e \in T THEN 1 ELSE 0
  <1>1. Places(<<e>>, T) = IF e \in T THEN {1} ELSE {}
    BY DEF Places
  <1>. QED
    BY <1>1, FS_Singleton, FS_EmptySet

LEMMA PlacesNone == ASSUME NEW T PROVE Cardinality(Places(<<>>, T)) = 0
  BY FS_EmptySet DEF Places

\* The references the entries have are such numbers.
LEMMA References ==
    ASSUME NEW l \in Seq(Entry), NEW x
    PROVE  /\ FontsOf(l, x) = Cardinality(Places(l, OfFont(x)))
           /\ GlyphsOf(l, x) = Cardinality(Places(l, OfGlyph(x)))
  <1>1. \A i \in 1 .. Len(l) : l[i] \in Entry
    BY ElementOfSeq
  <1>2. Entries(l, x) = Places(l, OfFont(x))
    BY <1>1 DEF Entries, Places, OfFont
  <1>3. {i \in 1 .. Len(l) : l[i].val = x} = Places(l, OfGlyph(x))
    BY <1>1 DEF Places, OfGlyph
  <1>. QED
    BY <1>2, <1>3 DEF FontsOf, GlyphsOf

LEMMA ReferencesType ==
    ASSUME NEW l \in Seq(Entry), NEW x
    PROVE  /\ FontsOf(l, x) \in Nat
           /\ GlyphsOf(l, x) \in Nat
           /\ FontsOf(l, x) = 0 => \A i \in 1 .. Len(l) : l[i].key # x
           /\ GlyphsOf(l, x) = 0 => \A i \in 1 .. Len(l) : l[i].val # x
  <1>1. \A i \in 1 .. Len(l) : l[i] \in Entry
    BY ElementOfSeq
  <1>2. FontsOf(l, x) \in Nat /\ GlyphsOf(l, x) \in Nat
    BY References, PlacesFinite
  <1>3. FontsOf(l, x) = 0 => \A i \in 1 .. Len(l) : l[i] \notin OfFont(x)
    BY References, PlacesFinite
  <1>4. GlyphsOf(l, x) = 0 => \A i \in 1 .. Len(l) : l[i] \notin OfGlyph(x)
    BY References, PlacesFinite
  <1>. QED
    BY <1>1, <1>2, <1>3, <1>4 DEF OfFont, OfGlyph

LEMMA FontsConcat ==
    ASSUME NEW a \in Seq(Entry), NEW b \in Seq(Entry), NEW x
    PROVE  FontsOf(a \o b, x) = FontsOf(a, x) + FontsOf(b, x)
  <1>1. a \o b \in Seq(Entry)
    BY ConcatProperties
  <1>2. Cardinality(Places(a \o b, OfFont(x))) =
            Cardinality(Places(a, OfFont(x))) + Cardinality(Places(b, OfFont(x)))
    BY PlacesConcat
  <1>3. /\ FontsOf(a \o b, x) = Cardinality(Places(a \o b, OfFont(x)))
        /\ FontsOf(a, x) = Cardinality(Places(a, OfFont(x)))
        /\ FontsOf(b, x) = Cardinality(Places(b, OfFont(x)))
    BY <1>1, References
  <1>. QED
    BY <1>2, <1>3

LEMMA GlyphsConcat ==
    ASSUME NEW a \in Seq(Entry), NEW b \in Seq(Entry), NEW x
    PROVE  GlyphsOf(a \o b, x) = GlyphsOf(a, x) + GlyphsOf(b, x)
  <1>1. a \o b \in Seq(Entry)
    BY ConcatProperties
  <1>2. Cardinality(Places(a \o b, OfGlyph(x))) =
            Cardinality(Places(a, OfGlyph(x))) + Cardinality(Places(b, OfGlyph(x)))
    BY PlacesConcat
  <1>3. /\ GlyphsOf(a \o b, x) = Cardinality(Places(a \o b, OfGlyph(x)))
        /\ GlyphsOf(a, x) = Cardinality(Places(a, OfGlyph(x)))
        /\ GlyphsOf(b, x) = Cardinality(Places(b, OfGlyph(x)))
    BY <1>1, References
  <1>. QED
    BY <1>2, <1>3

LEMMA ReferencesOne ==
    ASSUME NEW e \in Entry, NEW x
    PROVE  /\ FontsOf(<<e>>, x) = IF e.key = x THEN 1 ELSE 0
           /\ GlyphsOf(<<e>>, x) = IF e.val = x THEN 1 ELSE 0
  <1>1. <<e>> \in Seq(Entry)
    OBVIOUS
  <1>2. e \in OfFont(x) <=> e.key = x
    BY DEF OfFont
  <1>3. e \in OfGlyph(x) <=> e.val = x
    BY DEF OfGlyph
  <1>4. FontsOf(<<e>>, x) = Cardinality(Places(<<e>>, OfFont(x)))
    BY <1>1, References
  <1>5. GlyphsOf(<<e>>, x) = Cardinality(Places(<<e>>, OfGlyph(x)))
    BY <1>1, References
  <1>. QED
    BY <1>2, <1>3, <1>4, <1>5, PlacesOne

LEMMA ReferencesNone == ASSUME NEW x PROVE FontsOf(<<>>, x) = 0 /\ GlyphsOf(<<>>, x) = 0
  <1>1. <<>> \in Seq(Entry)
    OBVIOUS
  <1>. QED
    BY <1>1, References, PlacesNone

-----------------------------------------------------------------------------
\* A cache cut in two.
LEMMA Cut ==
    ASSUME NEW l \in Seq(Entry), NEW n \in 0 .. Len(l)
    PROVE  /\ SubSeq(l, 1, n) \in Seq(Entry) /\ SubSeq(l, n + 1, Len(l)) \in Seq(Entry)
           /\ Len(SubSeq(l, 1, n)) = n
           /\ \A k \in 1 .. n : SubSeq(l, 1, n)[k] = l[k]
           /\ Len(SubSeq(l, n + 1, Len(l))) = Len(l) - n
           /\ \A k \in 1 .. Len(l) - n : SubSeq(l, n + 1, Len(l))[k] = l[n + k]
           /\ SubSeq(l, 1, n) \o SubSeq(l, n + 1, Len(l)) = l
  <1>. DEFINE h == SubSeq(l, 1, n)
              r == SubSeq(l, n + 1, Len(l))
  <1>1. Len(l) \in Nat /\ \A i \in 1 .. Len(l) : l[i] \in Entry
    BY ElementOfSeq
  <1>2. h \in Seq(Entry) /\ Len(h) = n /\ \A k \in 1 .. n : h[k] = l[k]
    <2>1. \A i \in 1 .. n : l[i] \in Entry
      BY <1>1
    <2>2. /\ SubSeq(l, 1, n) \in Seq(Entry)
          /\ Len(SubSeq(l, 1, n)) = IF 1 <= n THEN (n - 1) + 1 ELSE 0
          /\ \A i \in 1 .. (n - 1) + 1 : SubSeq(l, 1, n)[i] = l[(1 + i) - 1]
      BY <2>1, SubSeqProperties
    <2>. HIDE DEF h
    <2>3. (n - 1) + 1 = n /\ (1 <= n \/ n = 0) /\ \A i \in 1 .. n : (1 + i) - 1 = i
      BY <1>1
    <2>. QED
      BY <2>2, <2>3 DEF h
  <1>3. r \in Seq(Entry) /\ Len(r) = Len(l) - n /\ \A k \in 1 .. Len(l) - n : r[k] = l[n + k]
    <2>1. \A i \in n + 1 .. Len(l) : l[i] \in Entry
      BY <1>1
    <2>2. n + 1 \in Int /\ Len(l) \in Int
      BY <1>1
    <2>3. /\ SubSeq(l, n + 1, Len(l)) \in Seq(Entry)
          /\ Len(SubSeq(l, n + 1, Len(l))) = IF n + 1 <= Len(l) THEN (Len(l) - (n + 1)) + 1 ELSE 0
          /\ \A i \in 1 .. (Len(l) - (n + 1)) + 1 :
                SubSeq(l, n + 1, Len(l))[i] = l[((n + 1) + i) - 1]
      BY <2>1, <2>2, SubSeqProperties
    <2>4. /\ (Len(l) - (n + 1)) + 1 = Len(l) - n
          /\ n + 1 <= Len(l) \/ Len(l) - n = 0
          /\ \A i \in 1 .. Len(l) - n : ((n + 1) + i) - 1 = n + i
      BY <1>1
    <2>. QED
      BY <2>3, <2>4
  <1>. HIDE DEF h, r
  <1>4. h \o r = l
    <2>1. /\ h \o r \in Seq(Entry) /\ Len(h \o r) = Len(h) + Len(r)
          /\ \A i \in 1 .. Len(h) + Len(r) : (h \o r)[i] = IF i <= Len(h) THEN h[i] ELSE r[i - Len(h)]
      BY <1>2, <1>3, ConcatProperties
    <2>2. Len(h \o r) = Len(l)
      BY <1>1, <1>2, <1>3, <2>1
    <2>3. ASSUME NEW i \in 1 .. Len(h \o r) PROVE (h \o r)[i] = l[i]
      <3>1. CASE i <= n
        BY <1>1, <1>2, <1>3, <2>1, <2>2, <3>1
      <3>2. CASE ~(i <= n)
        <4>1. i - n \in 1 .. Len(l) - n /\ n + (i - n) = i
          BY <1>1, <2>2, <3>2
        <4>2. (h \o r)[i] = r[i - n]
          BY <1>2, <2>1, <3>2
        <4>. QED
          BY <1>3, <4>1, <4>2
      <3>. QED
        BY <3>1, <3>2
    <2>. QED
      BY <2>1, <2>2, <2>3, SeqEqual
  <1>. QED
    BY <1>2, <1>3, <1>4 DEF h, r

\* What moving an entry to the front does, and that it changes no total.
LEMMA ToFrontProperties ==
    ASSUME NEW l \in Seq(Entry), NEW i \in 1 .. Len(l)
    PROVE  /\ ToFront(l, i) \in Seq(Entry)
           /\ Len(ToFront(l, i)) = Len(l)
           /\ \A k \in 1 .. Len(l) :
                 ToFront(l, i)[k] = IF k = 1 THEN l[i] ELSE IF k <= i THEN l[k - 1] ELSE l[k]
           /\ Sum(ToFront(l, i)) = Sum(l)
           /\ \A x : FontsOf(ToFront(l, i), x) = FontsOf(l, x)
           /\ \A x : GlyphsOf(ToFront(l, i), x) = GlyphsOf(l, x)
  <1>. DEFINE a == SubSeq(l, 1, i - 1)
              b == SubSeq(l, i + 1, Len(l))
              e == <<l[i]>>
              r == SubSeq(l, i, Len(l))
  <1>1. Len(l) \in Nat /\ l[i] \in Entry /\ i - 1 \in 0 .. Len(l) /\ (i - 1) + 1 = i
    BY ElementOfSeq
  <1>2. /\ a \in Seq(Entry) /\ Len(a) = i - 1 /\ \A k \in 1 .. i - 1 : a[k] = l[k]
        /\ r \in Seq(Entry) /\ Len(r) = Len(l) - (i - 1)
        /\ \A k \in 1 .. Len(l) - (i - 1) : r[k] = l[(i - 1) + k]
        /\ a \o r = l
    <2>1. /\ SubSeq(l, 1, i - 1) \in Seq(Entry) /\ SubSeq(l, (i - 1) + 1, Len(l)) \in Seq(Entry)
          /\ Len(SubSeq(l, 1, i - 1)) = i - 1
          /\ \A k \in 1 .. i - 1 : SubSeq(l, 1, i - 1)[k] = l[k]
          /\ Len(SubSeq(l, (i - 1) + 1, Len(l))) = Len(l) - (i - 1)
          /\ \A k \in 1 .. Len(l) - (i - 1) : SubSeq(l, (i - 1) + 1, Len(l))[k] = l[(i - 1) + k]
          /\ SubSeq(l, 1, i - 1) \o SubSeq(l, (i - 1) + 1, Len(l)) = l
      BY <1>1, Cut
    <2>. QED
      BY <1>1, <2>1
  <1>3. b \in Seq(Entry) /\ Len(b) = Len(l) - i /\ \A k \in 1 .. Len(l) - i : b[k] = l[i + k]
    <2>1. i \in 0 .. Len(l)
      BY <1>1
    <2>. QED
      BY <2>1, Cut
  <1>4. e \in Seq(Entry) /\ Len(e) = 1 /\ e[1] = l[i]
    BY <1>1
  <1>5. ToFront(l, i) = e \o (a \o b)
    BY DEF ToFront, RemoveAt
  <1>. HIDE DEF a, b, e, r
  <1>6. r = e \o b
    <2>1. /\ e \o b \in Seq(Entry) /\ Len(e \o b) = 1 + Len(b)
          /\ \A k \in 1 .. 1 + Len(b) : (e \o b)[k] = IF k <= 1 THEN e[k] ELSE b[k - 1]
      <3>1. /\ e \o b \in Seq(Entry) /\ Len(e \o b) = Len(e) + Len(b)
            /\ \A k \in 1 .. Len(e) + Len(b) : (e \o b)[k] = IF k <= Len(e) THEN e[k] ELSE b[k - Len(e)]
        BY <1>3, <1>4, ConcatProperties
      <3>. QED
        BY <1>4, <3>1
    <2>2. Len(r) = Len(e \o b)
      BY <1>1, <1>2, <1>3, <2>1
    <2>3. ASSUME NEW k \in 1 .. Len(r) PROVE r[k] = (e \o b)[k]
      <3>0. k \in 1 .. Len(l) - (i - 1) /\ k \in 1 .. 1 + Len(b) /\ r[k] = l[(i - 1) + k]
        BY <1>1, <1>2, <1>3
      <3>1. CASE k = 1
        BY SMTT(40), <1>1, <1>4, <2>1, <3>0, <3>1
      <3>2. CASE k # 1
        <4>1. k - 1 \in 1 .. Len(l) - i /\ i + (k - 1) = (i - 1) + k /\ ~(k <= 1)
          BY <1>1, <3>0, <3>2
        <4>. QED
          BY <1>3, <2>1, <3>0, <4>1
      <3>. QED
        BY <3>1, <3>2
    <2>. QED
      BY <1>2, <2>1, <2>2, <2>3, SeqEqual
  <1>7. /\ a \o b \in Seq(Entry) /\ Len(a \o b) = Len(a) + Len(b)
        /\ \A k \in 1 .. Len(a) + Len(b) : (a \o b)[k] = IF k <= Len(a) THEN a[k] ELSE b[k - Len(a)]
    BY ZenonT(40), <1>2, <1>3, ConcatProperties
  <1>. DEFINE m == a \o b
  <1>8. /\ e \o m \in Seq(Entry) /\ Len(e \o m) = 1 + Len(m)
        /\ \A k \in 1 .. 1 + Len(m) : (e \o m)[k] = IF k <= 1 THEN e[k] ELSE m[k - 1]
    <2>0. m \in Seq(Entry)
      BY <1>7
    <2>. HIDE DEF m
    <2>1. /\ e \o m \in Seq(Entry) /\ Len(e \o m) = Len(e) + Len(m)
          /\ \A k \in 1 .. Len(e) + Len(m) : (e \o m)[k] = IF k <= Len(e) THEN e[k] ELSE m[k - Len(e)]
      BY <1>4, <2>0, ConcatProperties
    <2>. QED
      BY <1>4, <2>1
  <1>9. ToFront(l, i) \in Seq(Entry) /\ Len(ToFront(l, i)) = Len(l)
    BY <1>1, <1>2, <1>3, <1>5, <1>7, <1>8
  <1>10. ASSUME NEW k \in 1 .. Len(l)
         PROVE  ToFront(l, i)[k] = IF k = 1 THEN l[i] ELSE IF k <= i THEN l[k - 1] ELSE l[k]
    <2>0. Len(m) = Len(l) - 1 /\ k \in 1 .. 1 + Len(m)
      BY <1>1, <1>2, <1>3, <1>7
    <2>. HIDE DEF m
    <2>1. CASE k = 1
      BY <1>4, <1>5, <1>8, <2>0, <2>1 DEF m
    <2>2. CASE k # 1 /\ k <= i
      <3>1. k - 1 \in 1 .. Len(a) + Len(b) /\ k - 1 <= Len(a) /\ k - 1 \in 1 .. i - 1 /\ ~(k <= 1)
        BY <1>1, <1>2, <1>3, <2>2
      <3>2. m[k - 1] = l[k - 1]
        BY <1>2, <1>7, <3>1 DEF m
      <3>. QED
        BY <1>5, <1>8, <2>0, <2>2, <3>1, <3>2 DEF m
    <2>3. CASE k # 1 /\ ~(k <= i)
      <3>1. /\ k - 1 \in 1 .. Len(a) + Len(b) /\ ~(k - 1 <= Len(a)) /\ ~(k <= 1)
            /\ k - i \in 1 .. Len(l) - i /\ (k - 1) - Len(a) = k - i /\ i + (k - i) = k
        BY <1>1, <1>2, <1>3, <2>3
      <3>2. m[k - 1] = l[k]
        BY ZenonT(40), <1>3, <1>7, <3>1 DEF m
      <3>. QED
        BY <1>5, <1>8, <2>0, <2>3, <3>1, <3>2 DEF m
    <2>. QED
      BY <2>1, <2>2, <2>3
  <1>11. Sum(ToFront(l, i)) = Sum(l)
    <2>1. Sum(e \o m) = Sum(e) + Sum(m) /\ Sum(m) = Sum(a) + Sum(b)
      BY <1>2, <1>3, <1>4, <1>7, SumConcat
    <2>2. Sum(l) = Sum(a) + Sum(r) /\ Sum(r) = Sum(e) + Sum(b)
      BY <1>2, <1>3, <1>4, <1>6, SumConcat
    <2>3. Sum(a) \in Nat /\ Sum(b) \in Nat /\ Sum(e) \in Nat
      BY <1>2, <1>3, <1>4, SumType
    <2>. QED
      BY <1>5, <2>1, <2>2, <2>3
  <1>12. ASSUME NEW x PROVE FontsOf(ToFront(l, i), x) = FontsOf(l, x)
    <2>0. a \in Seq(Entry) /\ r \in Seq(Entry) /\ a \o r = l
      BY <1>2
    <2>1. FontsOf(e \o m, x) = FontsOf(e, x) + FontsOf(m, x)
      BY <1>4, <1>7, FontsConcat
    <2>2. FontsOf(m, x) = FontsOf(a, x) + FontsOf(b, x)
      BY <1>2, <1>3, FontsConcat
    <2>3. FontsOf(l, x) = FontsOf(a, x) + FontsOf(r, x)
      <3>1. FontsOf(a \o r, x) = FontsOf(a, x) + FontsOf(r, x)
        BY ZenonT(40), <2>0, FontsConcat
      <3>. QED
        BY <2>0, <3>1
    <2>4. FontsOf(r, x) = FontsOf(e, x) + FontsOf(b, x)
      BY <1>3, <1>4, <1>6, FontsConcat
    <2>5. FontsOf(a, x) \in Nat /\ FontsOf(b, x) \in Nat /\ FontsOf(e, x) \in Nat
      BY <1>2, <1>3, <1>4, ReferencesType
    <2>. QED
      BY <1>5, <2>1, <2>2, <2>3, <2>4, <2>5
  <1>13. ASSUME NEW x PROVE GlyphsOf(ToFront(l, i), x) = GlyphsOf(l, x)
    <2>0. a \in Seq(Entry) /\ r \in Seq(Entry) /\ a \o r = l
      BY <1>2
    <2>1. GlyphsOf(e \o m, x) = GlyphsOf(e, x) + GlyphsOf(m, x)
      BY <1>4, <1>7, GlyphsConcat
    <2>2. GlyphsOf(m, x) = GlyphsOf(a, x) + GlyphsOf(b, x)
      BY <1>2, <1>3, GlyphsConcat
    <2>3. GlyphsOf(l, x) = GlyphsOf(a, x) + GlyphsOf(r, x)
      <3>1. GlyphsOf(a \o r, x) = GlyphsOf(a, x) + GlyphsOf(r, x)
        BY ZenonT(40), <2>0, GlyphsConcat
      <3>. QED
        BY <2>0, <3>1
    <2>4. GlyphsOf(r, x) = GlyphsOf(e, x) + GlyphsOf(b, x)
      BY <1>3, <1>4, <1>6, GlyphsConcat
    <2>5. GlyphsOf(a, x) \in Nat /\ GlyphsOf(b, x) \in Nat /\ GlyphsOf(e, x) \in Nat
      BY <1>2, <1>3, <1>4, ReferencesType
    <2>. QED
      BY <1>5, <2>1, <2>2, <2>3, <2>4, <2>5
  <1>. QED
    BY <1>9, <1>10, <1>11, <1>12, <1>13

\* A new entry is the first one, and the others follow.
LEMMA Pushed ==
    ASSUME NEW e \in Entry, NEW l \in Seq(Entry)
    PROVE  /\ <<e>> \o l \in Seq(Entry)
           /\ Len(<<e>> \o l) = 1 + Len(l) /\ Len(l) \in Nat
           /\ \A k \in 1 .. 1 + Len(l) : (<<e>> \o l)[k] = IF k = 1 THEN e ELSE l[k - 1]
  <1>1. <<e>> \in Seq(Entry) /\ Len(<<e>>) = 1 /\ <<e>>[1] = e /\ Len(l) \in Nat
    OBVIOUS
  <1>2. /\ <<e>> \o l \in Seq(Entry) /\ Len(<<e>> \o l) = Len(<<e>>) + Len(l)
        /\ \A k \in 1 .. Len(<<e>>) + Len(l) :
              (<<e>> \o l)[k] = IF k <= Len(<<e>>) THEN <<e>>[k] ELSE l[k - Len(<<e>>)]
    BY <1>1, ConcatProperties
  <1>. QED
    BY <1>1, <1>2

\* The entry that is looked up is one of the glyph's.
LEMMA Found ==
    ASSUME NEW l \in Seq(Entry), NEW f, Entries(l, f) # {}
    PROVE  /\ Min(Entries(l, f)) \in 1 .. Len(l)
           /\ l[Min(Entries(l, f))].key = f
  <1>1. Entries(l, f) \in SUBSET Nat
    BY DEF Entries
  <1>2. PICK j \in Entries(l, f) : \A k \in Entries(l, f) : j <= k
    BY <1>1, Least
  <1>3. Min(Entries(l, f)) \in Entries(l, f)
    BY <1>2 DEF Min
  <1>. QED
    BY <1>3 DEF Entries

\* Eviction keeps a first part of the entries, as long as the limit allows.
LEMMA KeptProperties ==
    ASSUME NEW l \in Seq(Entry)
    PROVE  /\ Kept(l) \in 0 .. Len(l)
           /\ Sum(SubSeq(l, 1, Kept(l))) <= MaxCacheSize
  <1>. DEFINE F == {n \in 0 .. Len(l) : Sum(SubSeq(l, 1, n)) <= MaxCacheSize}
  <1>1. Len(l) \in Nat /\ F \in SUBSET (0 .. Len(l))
    OBVIOUS
  <1>2. SubSeq(l, 1, 0) = <<>>
    BY SubSeqEmpty
  <1>3. 0 \in F
    <2>1. 0 \in 0 .. Len(l) /\ 0 <= MaxCacheSize
      BY <1>1, GlyphCacheAssumption
    <2>2. Sum(SubSeq(l, 1, 0)) = 0
      BY <1>2, SumEmpty
    <2>. QED
      BY <2>1, <2>2
  <1>4. Kept(l) = Max(F)
    BY DEF Kept
  <1>5. Max(F) \in F
    <2>. HIDE DEF F
    <2>. QED
      BY <1>1, <1>3, Greatest
  <1>. QED
    BY <1>4, <1>5

-----------------------------------------------------------------------------
(* The inductive invariant.                                                *)
LooseTypeOK ==
    /\ lru \in Seq(Entry)
    /\ total \in Int
    /\ font \in [Addresses -> Int]
    /\ owned \subseteq Addresses
    /\ made \in [Addresses -> Nat]
    /\ glyph \in [Glyphs -> [refs : Int, of : FontIds \cup {None}]]
    /\ pc \in [Threads -> Type3 \cup {None}]
    /\ held \in [Threads -> Glyphs \cup {None}]
    /\ want \in [Threads -> FontIds \cup {None}]

\* An entry shows the font that lives at its address now,
EntriesCurrent == \A i \in 1 .. Len(lru) : glyph[lru[i].val].of = This(lru[i].key)

\* and a thread renders the font it asked for.
RenderingCurrent == \A t \in Threads : pc[t] # None => want[t] = This(pc[t])

IInv ==
    /\ LooseTypeOK
    /\ OneEntryPerGlyph
    /\ TotalAccounted
    /\ GlyphsCounted
    /\ FontsCounted
    /\ EntriesCurrent
    /\ RightGlyph
    /\ RenderingCurrent

-----------------------------------------------------------------------------
(* Threads that take something up and let go of it.                        *)
Users(u, x) == {t \in Threads : u[t] = x}

LEMMA UsersType ==
    ASSUME NEW u, NEW x
    PROVE  /\ IsFiniteSet({t \in Threads : u[t] = x})
           /\ Cardinality({t \in Threads : u[t] = x}) \in Nat
           /\ Cardinality({t \in Threads : u[t] = x}) = 0 => \A t \in Threads : u[t] # x
  <1>. DEFINE U == {t \in Threads : u[t] = x}
  <1>1. IsFiniteSet(Threads) /\ U \in SUBSET Threads
    BY GlyphCacheAssumption
  <1>. HIDE DEF U
  <1>2. IsFiniteSet(U)
    BY <1>1, FS_Subset
  <1>3. Cardinality(U) \in Nat /\ (Cardinality(U) = 0 => U = {})
    BY <1>2, FS_CardinalityType, FS_EmptySet
  <1>. QED
    BY <1>2, <1>3 DEF U

LEMMA TakesUp ==
    ASSUME NEW t \in Threads, NEW u, NEW v, NEW y,
           ~ (u[t] = y) /\ \A s \in Threads : s # t => v[s] = u[s]
    PROVE  Cardinality(Users(v, y)) = Cardinality(Users(u, y)) + (IF y = v[t] THEN 1 ELSE 0)
  <1>. DEFINE U == {s \in Threads : u[s] = y}
              V == {s \in Threads : v[s] = y}
  <1>1. IsFiniteSet(U) /\ Cardinality(U) \in Nat
    BY UsersType
  <1>2. V = IF y = v[t] THEN U \cup {t} ELSE U
    OBVIOUS
  <1>3. t \notin U
    OBVIOUS
  <1>. HIDE DEF U, V
  <1>4. Cardinality(U \cup {t}) = Cardinality(U) + 1
    BY <1>1, <1>3, FS_AddElement
  <1>5. Cardinality(V) = Cardinality(U) + (IF y = v[t] THEN 1 ELSE 0)
    BY <1>1, <1>2, <1>4
  <1>. QED
    BY <1>5 DEF U, V, Users

LEMMA LetsGo ==
    ASSUME NEW u, NEW v, NEW t \in Threads, \A s \in Threads \ {t} : v[s] = u[s],
           NEW x, u[t] = x, NEW y, v[t] # y
    PROVE  Cardinality(Users(v, y)) = Cardinality(Users(u, y)) - (IF y = x THEN 1 ELSE 0)
  <1>. DEFINE U == {s \in Threads : u[s] = y}
              V == {s \in Threads : v[s] = y}
  <1>1. IsFiniteSet(U) /\ Cardinality(U) \in Nat
    BY UsersType
  <1>2. V = IF y = x THEN U \ {t} ELSE U
    OBVIOUS
  <1>3. y = x => t \in U
    OBVIOUS
  <1>. HIDE DEF U, V
  <1>4. y = x => Cardinality(U \ {t}) = Cardinality(U) - 1
    BY <1>1, <1>3, FS_RemoveElement
  <1>5. Cardinality(V) = Cardinality(U) - (IF y = x THEN 1 ELSE 0)
    BY <1>1, <1>2, <1>4
  <1>. QED
    BY <1>5 DEF U, V, Users

-----------------------------------------------------------------------------
\* What the counts say: what is free is not used, and what is used is counted.
LEMMA Counted ==
    ASSUME IInv
    PROVE  /\ \A i \in 1 .. Len(lru) :
                 lru[i] \in Entry /\ lru[i].key \in Addresses /\ lru[i].val \in Glyphs
           /\ Len(lru) \in Nat
           /\ \A g \in Glyphs : glyph[g].refs \in Nat
           /\ \A f \in Addresses : font[f] \in Nat
  <1>1. \A i \in 1 .. Len(lru) : lru[i] \in Entry
    BY ElementOfSeq DEF IInv, LooseTypeOK
  <1>2. ASSUME NEW g \in Glyphs PROVE glyph[g].refs \in Nat
    <2>1. GlyphsOf(lru, g) \in Nat
      BY ReferencesType DEF IInv, LooseTypeOK
    <2>2. Cardinality({t \in Threads : held[t] = g}) \in Nat
      BY UsersType
    <2>. QED
      BY <2>1, <2>2 DEF IInv, GlyphsCounted
  <1>3. ASSUME NEW f \in Addresses PROVE font[f] \in Nat
    <2>1. FontsOf(lru, f) \in Nat
      BY ReferencesType DEF IInv, LooseTypeOK
    <2>2. Cardinality({t \in Threads : pc[t] = f}) \in Nat
      BY UsersType
    <2>. QED
      BY <2>1, <2>2 DEF IInv, FontsCounted
  <1>. QED
    BY <1>1, <1>2, <1>3 DEF IInv, LooseTypeOK, Entry

LEMMA FreeGlyph ==
    ASSUME IInv, NEW g \in Glyphs, glyph[g].refs = 0
    PROVE  /\ GlyphsOf(lru, g) = 0
           /\ \A i \in 1 .. Len(lru) : lru[i].val # g
           /\ \A t \in Threads : held[t] # g
           /\ Cardinality({t \in Threads : held[t] = g}) = 0
  <1>1. GlyphsOf(lru, g) \in Nat
    BY ReferencesType DEF IInv, LooseTypeOK
  <1>2. Cardinality({t \in Threads : held[t] = g}) \in Nat
    BY UsersType
  <1>3. GlyphsOf(lru, g) = 0 /\ Cardinality({t \in Threads : held[t] = g}) = 0
    BY <1>1, <1>2 DEF IInv, GlyphsCounted
  <1>4. \A i \in 1 .. Len(lru) : lru[i].val # g
    BY <1>3, ReferencesType DEF IInv, LooseTypeOK
  <1>5. \A t \in Threads : held[t] # g
    BY <1>3, UsersType
  <1>. QED
    BY <1>3, <1>4, <1>5

LEMMA FreeFont ==
    ASSUME IInv, NEW f \in Addresses, font[f] = 0
    PROVE  /\ \A i \in 1 .. Len(lru) : lru[i].key # f
           /\ \A t \in Threads : pc[t] # f
           /\ f \notin owned
  <1>1. FontsOf(lru, f) \in Nat
    BY ReferencesType DEF IInv, LooseTypeOK
  <1>2. Cardinality({t \in Threads : pc[t] = f}) \in Nat
    BY UsersType
  <1>3. font[f] = Cardinality({t \in Threads : pc[t] = f})
                  + FontsOf(lru, f) + (IF f \in owned THEN 1 ELSE 0)
    BY DEF IInv, FontsCounted
  <1>4. FontsOf(lru, f) = 0 /\ Cardinality({t \in Threads : pc[t] = f}) = 0 /\ f \notin owned
    BY <1>1, <1>2, <1>3
  <1>5. \A i \in 1 .. Len(lru) : lru[i].key # f
    BY <1>4, ReferencesType DEF IInv, LooseTypeOK
  <1>6. \A t \in Threads : pc[t] # f
    BY <1>4, UsersType
  <1>. QED
    BY <1>4, <1>5, <1>6

\* The invariant gives the promised types.
LEMMA Types == IInv => TypeOK
  <1>. SUFFICES ASSUME IInv PROVE TypeOK
    OBVIOUS
  <1>1. total \in Nat
    BY SumType DEF IInv, LooseTypeOK, TotalAccounted
  <1>2. font \in [Addresses -> Nat]
    BY Counted DEF IInv, LooseTypeOK
  <1>3. glyph \in [Glyphs -> [refs : Nat, of : FontIds \cup {None}]]
    <2>1. glyph \in [Glyphs -> [refs : Int, of : FontIds \cup {None}]]
      BY DEF IInv, LooseTypeOK
    <2>2. ASSUME NEW g \in Glyphs PROVE glyph[g] \in [refs : Nat, of : FontIds \cup {None}]
      <3>1. glyph[g] \in [refs : Int, of : FontIds \cup {None}] /\ glyph[g].refs \in Nat
        BY <2>1, Counted
      <3>. QED
        BY <3>1
    <2>. QED
      BY <2>1, <2>2
  <1>. QED
    BY <1>1, <1>2, <1>3 DEF IInv, LooseTypeOK, TypeOK, Entry

LEMMA InitOK == Init => IInv
  <1>. SUFFICES ASSUME Init PROVE IInv
    OBVIOUS
  <1>0. None \notin Glyphs /\ None \notin Addresses /\ IsFiniteSet(Threads) /\ MaxCacheSize \in Nat
        /\ Len(<<>>) = 0
    BY GlyphCacheAssumption
  <1>1. LooseTypeOK
    BY DEF Init, LooseTypeOK
  <1>2. OneEntryPerGlyph /\ EntriesCurrent /\ RightGlyph /\ RenderingCurrent
    BY <1>0 DEF Init, OneEntryPerGlyph, EntriesCurrent, RightGlyph, RenderingCurrent
  <1>3. TotalAccounted
    BY <1>0, SumEmpty DEF Init, TotalAccounted
  <1>4. ASSUME NEW x, x # None
        PROVE  /\ Cardinality({t \in Threads : held[t] = x}) = 0
               /\ Cardinality({t \in Threads : pc[t] = x}) = 0
    <2>1. {t \in Threads : held[t] = x} = {} /\ {t \in Threads : pc[t] = x} = {}
      BY <1>4 DEF Init
    <2>. QED
      BY <2>1, FS_EmptySet
  <1>5. GlyphsCounted
    <2>1. \A g \in Glyphs : GlyphsOf(<<>>, g) = 0 /\ Cardinality({t \in Threads : held[t] = g}) = 0
      BY <1>0, <1>4, ReferencesNone
    <2>2. lru = <<>> /\ \A g \in Glyphs : glyph[g].refs = 0
      BY DEF Init
    <2>. QED
      BY <2>1, <2>2 DEF GlyphsCounted
  <1>6. FontsCounted
    <2>1. \A f \in Addresses : FontsOf(<<>>, f) = 0 /\ Cardinality({t \in Threads : pc[t] = f}) = 0
      BY <1>0, <1>4, ReferencesNone
    <2>2. lru = <<>> /\ owned = {} /\ \A f \in Addresses : font[f] = 0
      BY DEF Init
    <2>. QED
      BY <2>1, <2>2 DEF FontsCounted
  <1>. QED
    BY <1>1, <1>2, <1>3, <1>5, <1>6 DEF IInv

LEMMA LoadFontOK == ASSUME IInv, NEW f \in Addresses, LoadFont(f) PROVE IInv'
  <1>. USE DEF LoadFont
  <1>1. /\ \A i \in 1 .. Len(lru) : lru[i].key # f
        /\ \A t \in Threads : pc[t] # f
        /\ f \notin owned
    BY FreeFont
  <1>2. LooseTypeOK'
    BY DEF IInv, LooseTypeOK
  <1>3. OneEntryPerGlyph' /\ TotalAccounted' /\ GlyphsCounted' /\ RightGlyph'
    BY DEF IInv, OneEntryPerGlyph, TotalAccounted, GlyphsCounted, RightGlyph
  <1>4. \A a \in Addresses : a # f => made'[a] = made[a]
    BY DEF IInv, LooseTypeOK
  <1>5. EntriesCurrent'
    <2>. SUFFICES ASSUME NEW i \in 1 .. Len(lru)
                  PROVE  glyph[lru[i].val].of = <<lru[i].key, made'[lru[i].key]>>
      BY DEF EntriesCurrent, This
    <2>1. glyph[lru[i].val].of = <<lru[i].key, made[lru[i].key]>>
      BY DEF IInv, EntriesCurrent, This
    <2>2. lru[i].key \in Addresses /\ lru[i].key # f
      BY <1>1, Counted
    <2>. QED
      BY <1>4, <2>1, <2>2
  <1>6. RenderingCurrent'
    <2>1. \A t \in Threads : pc[t] # None => pc[t] \in Addresses
      BY GlyphCacheAssumption DEF IInv, LooseTypeOK
    <2>. QED
      BY <1>1, <1>4, <2>1 DEF IInv, RenderingCurrent, This
  <1>7. FontsCounted'
    <2>. SUFFICES ASSUME NEW a \in Addresses
                  PROVE  font'[a] = Cardinality({t \in Threads : pc[t] = a})
                                    + FontsOf(lru, a) + (IF a \in owned' THEN 1 ELSE 0)
      BY DEF FontsCounted
    <2>0. Cardinality({t \in Threads : pc[t] = a}) \in Nat
      BY UsersType
    <2>1. Cardinality({t \in Threads : pc[t] = a}) \in Nat /\ FontsOf(lru, a) \in Nat
      BY <2>0, ReferencesType DEF IInv, LooseTypeOK
    <2>2. font[a] = Cardinality({t \in Threads : pc[t] = a})
                    + FontsOf(lru, a) + (IF a \in owned THEN 1 ELSE 0)
      BY DEF IInv, FontsCounted
    <2>3. font'[a] = (IF a = f THEN 1 ELSE font[a])
      BY DEF IInv, LooseTypeOK
    <2>. QED
      BY <1>1, <2>1, <2>2, <2>3
  <1>. QED
    BY <1>2, <1>3, <1>5, <1>6, <1>7 DEF IInv

LEMMA DropFontOK == ASSUME IInv, NEW f \in Addresses, DropFont(f) PROVE IInv'
  <1>. USE DEF DropFont
  <1>1. LooseTypeOK'
    BY DEF IInv, LooseTypeOK
  <1>2. /\ OneEntryPerGlyph' /\ TotalAccounted' /\ GlyphsCounted'
        /\ RightGlyph' /\ EntriesCurrent' /\ RenderingCurrent'
    BY DEF IInv, OneEntryPerGlyph, TotalAccounted, GlyphsCounted, RightGlyph,
           EntriesCurrent, RenderingCurrent, This
  <1>3. FontsCounted'
    <2>. SUFFICES ASSUME NEW a \in Addresses
                  PROVE  font'[a] = Cardinality({t \in Threads : pc[t] = a})
                                    + FontsOf(lru, a) + (IF a \in owned' THEN 1 ELSE 0)
      BY DEF FontsCounted
    <2>0. Cardinality({t \in Threads : pc[t] = a}) \in Nat
      BY UsersType
    <2>1. Cardinality({t \in Threads : pc[t] = a}) \in Nat /\ FontsOf(lru, a) \in Nat
      BY <2>0, ReferencesType DEF IInv, LooseTypeOK
    <2>2. font[a] = Cardinality({t \in Threads : pc[t] = a})
                    + FontsOf(lru, a) + (IF a \in owned THEN 1 ELSE 0)
      BY DEF IInv, FontsCounted
    <2>3. font'[a] = (IF a = f THEN font[f] - 1 ELSE font[a])
      BY DEF IInv, LooseTypeOK
    <2>. QED
      BY <2>1, <2>2, <2>3
  <1>. QED
    BY <1>1, <1>2, <1>3 DEF IInv

LEMMA PurgeOK == ASSUME IInv, Purge PROVE IInv'
  <1>. USE DEF Purge
  <1>0. Len(<<>>) = 0 /\ <<>> \in Seq(Entry) /\ lru \in Seq(Entry) /\ lru' = <<>>
    BY DEF IInv, LooseTypeOK
  <1>1. /\ glyph' \in [Glyphs -> [refs : Int, of : FontIds \cup {None}]]
        /\ \A g \in Glyphs : /\ glyph'[g].refs = glyph[g].refs - GlyphsOf(lru, g)
                             /\ glyph'[g].of = glyph[g].of
    <2>1. \A g \in Glyphs : GlyphsOf(lru, g) \in Nat
      BY <1>0, ReferencesType
    <2>2. glyph \in [Glyphs -> [refs : Int, of : FontIds \cup {None}]]
      BY DEF IInv, LooseTypeOK
    <2>3. ASSUME NEW g \in Glyphs
          PROVE  /\ glyph'[g] \in [refs : Int, of : FontIds \cup {None}]
                 /\ glyph'[g].refs = glyph[g].refs - GlyphsOf(lru, g)
                 /\ glyph'[g].of = glyph[g].of
      <3>1. glyph'[g] = [glyph[g] EXCEPT !.refs = @ - GlyphsOf(lru, g)]
        OBVIOUS
      <3>2. glyph[g] \in [refs : Int, of : FontIds \cup {None}] /\ GlyphsOf(lru, g) \in Int
        BY <2>1, <2>2
      <3>. QED
        BY <3>1, <3>2
    <2>4. glyph' = [g \in Glyphs |-> glyph'[g]]
      OBVIOUS
    <2>. HIDE DEF Purge
    <2>. QED
      BY <2>3, <2>4
  <1>2. /\ font' \in [Addresses -> Int]
        /\ \A a \in Addresses : font'[a] = font[a] - FontsOf(lru, a)
    <2>1. \A a \in Addresses : FontsOf(lru, a) \in Nat
      BY <1>0, ReferencesType
    <2>. QED
      BY <2>1 DEF IInv, LooseTypeOK
  <1>3. LooseTypeOK'
    BY <1>0, <1>1, <1>2 DEF IInv, LooseTypeOK
  <1>4. OneEntryPerGlyph' /\ EntriesCurrent' /\ RenderingCurrent'
    BY <1>0 DEF IInv, OneEntryPerGlyph, EntriesCurrent, RenderingCurrent, This
  <1>5. TotalAccounted'
    BY <1>0, SumEmpty, GlyphCacheAssumption DEF TotalAccounted
  <1>6. RightGlyph'
    BY <1>1 DEF IInv, RightGlyph, LooseTypeOK
  <1>7. GlyphsCounted'
    <2>. SUFFICES ASSUME NEW g \in Glyphs
                  PROVE  glyph'[g].refs = GlyphsOf(<<>>, g) + Cardinality({t \in Threads : held[t] = g})
      BY <1>0 DEF GlyphsCounted
    <2>1. glyph[g].refs = GlyphsOf(lru, g) + Cardinality({t \in Threads : held[t] = g})
      BY DEF IInv, GlyphsCounted
    <2>2. GlyphsOf(lru, g) \in Nat /\ Cardinality({t \in Threads : held[t] = g}) \in Nat
      BY <1>0, ReferencesType, UsersType
    <2>. QED
      BY <1>1, <2>1, <2>2, ReferencesNone
  <1>8. FontsCounted'
    <2>. SUFFICES ASSUME NEW a \in Addresses
                  PROVE  font'[a] = Cardinality({t \in Threads : pc[t] = a})
                                    + FontsOf(<<>>, a) + (IF a \in owned THEN 1 ELSE 0)
      BY <1>0 DEF FontsCounted
    <2>1. font[a] = Cardinality({t \in Threads : pc[t] = a})
                    + FontsOf(lru, a) + (IF a \in owned THEN 1 ELSE 0)
      BY DEF IInv, FontsCounted
    <2>2. FontsOf(lru, a) \in Nat /\ Cardinality({t \in Threads : pc[t] = a}) \in Nat
      BY <1>0, ReferencesType, UsersType
    <2>. QED
      BY <1>2, <2>1, <2>2, ReferencesNone
  <1>. QED
    BY <1>3, <1>4, <1>5, <1>6, <1>7, <1>8 DEF IInv

-----------------------------------------------------------------------------
(* A thread gets a glyph that is in the cache.                             *)
Gets(t, f) ==
    LET i == Min(Entries(lru, f)) IN
    /\ held[t] = None
    /\ Entries(lru, f) # {}
    /\ lru' = ToFront(lru, i)
    /\ glyph' = [glyph EXCEPT ![lru[i].val].refs = @ + 1]
    /\ held' = [held EXCEPT ![t] = lru[i].val]
    /\ UNCHANGED <<total, font, owned, made, pc>>
    /\ want' = [want EXCEPT ![t] = This(f)]

LEMMA GetsOK ==
    ASSUME IInv, NEW t \in Threads, NEW f \in Addresses, Gets(t, f), pc[t] \in {None, f}
    PROVE  IInv'
  <1>. DEFINE i == Min(Entries(lru, f))
              v == lru[i].val
  <1>1. i \in 1 .. Len(lru) /\ lru[i].key = f
    BY Found DEF Gets, IInv, LooseTypeOK
  <1>2. lru[i] \in Entry /\ v \in Glyphs /\ Len(lru) \in Nat
    BY <1>1, Counted
  <1>3. /\ lru' \in Seq(Entry) /\ Len(lru') = Len(lru)
        /\ \A k \in 1 .. Len(lru) :
              lru'[k] = IF k = 1 THEN lru[i] ELSE IF k <= i THEN lru[k - 1] ELSE lru[k]
        /\ Sum(lru') = Sum(lru)
        /\ \A x : FontsOf(lru', x) = FontsOf(lru, x)
        /\ \A x : GlyphsOf(lru', x) = GlyphsOf(lru, x)
    <2>1. lru' = ToFront(lru, i) /\ lru \in Seq(Entry)
      BY DEF Gets, IInv, LooseTypeOK
    <2>. HIDE DEF i
    <2>. QED
      BY <1>1, <2>1, ToFrontProperties
  <1>4. /\ held[t] = None
        /\ glyph' = [glyph EXCEPT ![v].refs = @ + 1]
        /\ held' = [held EXCEPT ![t] = v]
        /\ UNCHANGED <<total, font, owned, made, pc>>
        /\ want' = [want EXCEPT ![t] = This(f)]
    BY DEF Gets
  <1>. HIDE DEF i, v
  <1>5. /\ glyph' \in [Glyphs -> [refs : Int, of : FontIds \cup {None}]]
        /\ \A g \in Glyphs : /\ glyph'[g].of = glyph[g].of
                             /\ glyph'[g].refs = glyph[g].refs + (IF g = v THEN 1 ELSE 0)
    <2>1. glyph \in [Glyphs -> [refs : Int, of : FontIds \cup {None}]]
      BY DEF IInv, LooseTypeOK
    <2>. QED
      BY <1>2, <1>4, <2>1
  <1>6. This(f) \in FontIds
    BY DEF IInv, LooseTypeOK, This, FontIds
  <1>7. LooseTypeOK'
    BY <1>2, <1>3, <1>4, <1>5, <1>6 DEF IInv, LooseTypeOK, FontIds
  <1>8. ASSUME NEW k \in 1 .. Len(lru')
        PROVE  \E j \in 1 .. Len(lru) : lru'[k] = lru[j]
    <2>1. CASE k = 1
      BY <1>1, <1>3, <2>1
    <2>2. CASE k # 1 /\ k <= i
      <3>1. k - 1 \in 1 .. Len(lru) /\ lru'[k] = lru[k - 1]
        BY <1>2, <1>3, <2>2
      <3>. QED
        BY <3>1
    <2>3. CASE k # 1 /\ ~(k <= i)
      BY <1>3, <2>3
    <2>. QED
      BY <2>1, <2>2, <2>3
  <1>9. OneEntryPerGlyph'
    <2>. DEFINE p(k) == IF k = 1 THEN i ELSE IF k <= i THEN k - 1 ELSE k
    <2>1. \A k \in 1 .. Len(lru) : p(k) \in 1 .. Len(lru) /\ lru'[k] = lru[p(k)]
      BY <1>1, <1>2, <1>3
    <2>2. \A j, k \in 1 .. Len(lru) : p(j) = p(k) => j = k
      BY <1>1, <1>2
    <2>. HIDE DEF p
    <2>3. \A j, k \in 1 .. Len(lru) : lru[p(j)].key = lru[p(k)].key => p(j) = p(k)
      BY <2>1 DEF IInv, OneEntryPerGlyph
    <2>. QED
      BY <1>3, <2>1, <2>2, <2>3 DEF OneEntryPerGlyph
  <1>10. TotalAccounted'
    BY <1>3, <1>4 DEF IInv, TotalAccounted
  <1>11. EntriesCurrent'
    <2>. SUFFICES ASSUME NEW k \in 1 .. Len(lru')
                  PROVE  glyph'[lru'[k].val].of = This(lru'[k].key)
      BY <1>4 DEF EntriesCurrent, This
    <2>1. PICK j \in 1 .. Len(lru) : lru'[k] = lru[j]
      BY <1>8
    <2>2. glyph[lru[j].val].of = This(lru[j].key) /\ lru[j].val \in Glyphs
      BY Counted DEF IInv, EntriesCurrent
    <2>. QED
      BY <1>5, <2>1, <2>2
  <1>12. RightGlyph'
    <2>. SUFFICES ASSUME NEW s \in Threads, held'[s] # None
                  PROVE  glyph'[held'[s]].of = want'[s]
      BY DEF RightGlyph
    <2>1. CASE s = t
      <3>1. held'[s] = v /\ want'[s] = This(f)
        BY <1>4, <2>1 DEF IInv, LooseTypeOK
      <3>2. glyph[v].of = This(f)
        BY <1>1 DEF IInv, EntriesCurrent, v
      <3>. QED
        BY <1>2, <1>5, <3>1, <3>2
    <2>2. CASE s # t
      <3>1. held'[s] = held[s] /\ want'[s] = want[s] /\ held[s] \in Glyphs
        BY <1>4, <2>2 DEF IInv, LooseTypeOK
      <3>2. glyph[held[s]].of = want[s]
        BY <3>1 DEF IInv, RightGlyph
      <3>. QED
        BY <1>5, <3>1, <3>2
    <2>. QED
      BY <2>1, <2>2
  <1>13. RenderingCurrent'
    <2>. SUFFICES ASSUME NEW s \in Threads, pc[s] # None
                  PROVE  want'[s] = This(pc[s])
      BY <1>4 DEF RenderingCurrent, This
    <2>1. want'[s] = IF s = t THEN This(f) ELSE want[s]
      BY <1>4 DEF IInv, LooseTypeOK
    <2>2. want[s] = This(pc[s])
      BY DEF IInv, RenderingCurrent
    <2>. QED
      BY <2>1, <2>2
  <1>14. GlyphsCounted'
    <2>. SUFFICES ASSUME NEW g \in Glyphs
                  PROVE  glyph'[g].refs = GlyphsOf(lru', g) + Cardinality({s \in Threads : held'[s] = g})
      BY DEF GlyphsCounted
    <2>1. Cardinality({s \in Threads : held'[s] = g}) =
              Cardinality({s \in Threads : held[s] = g}) + (IF g = v THEN 1 ELSE 0)
      <3>1. held[t] # g
        BY <1>4, GlyphCacheAssumption
      <3>2. held'[t] = v /\ \A s \in Threads \ {t} : held'[s] = held[s]
        BY <1>4 DEF IInv, LooseTypeOK
      <3>3. Cardinality(Users(held', g)) = Cardinality(Users(held, g)) + (IF g = held'[t] THEN 1 ELSE 0)
        BY <3>1, <3>2, TakesUp
      <3>. QED
        BY <3>2, <3>3 DEF Users
    <2>2. glyph[g].refs = GlyphsOf(lru, g) + Cardinality({s \in Threads : held[s] = g})
      BY DEF IInv, GlyphsCounted
    <2>3. Cardinality({s \in Threads : held[s] = g}) \in Nat
      BY UsersType
    <2>4. GlyphsOf(lru, g) \in Nat
      BY ReferencesType DEF IInv, LooseTypeOK
    <2>. QED
      BY <1>3, <1>5, <2>1, <2>2, <2>3, <2>4
  <1>15. FontsCounted'
    BY <1>3, <1>4 DEF IInv, FontsCounted
  <1>. QED
    BY <1>7, <1>9, <1>10, <1>11, <1>12, <1>13, <1>14, <1>15 DEF IInv

-----------------------------------------------------------------------------
(* A thread gets a new glyph g, which the cache keeps or does not.         *)
GetsNew(t, f, g) ==
    /\ held[t] = None
    /\ glyph[g].refs = 0
    /\ held' = [held EXCEPT ![t] = g]
    /\ want' = [want EXCEPT ![t] = This(f)]
    /\ UNCHANGED <<owned, made, pc>>

\* The thread has the glyph of its font, and renders no other.
LEMMA NewGlyph ==
    ASSUME IInv, NEW t \in Threads, NEW f \in Addresses, NEW g \in Glyphs,
           GetsNew(t, f, g), pc[t] \in {None, f},
           glyph'[g].of = This(f),
           \A h \in Glyphs : h # g => glyph'[h].of = glyph[h].of
    PROVE  /\ RightGlyph' /\ RenderingCurrent'
           /\ held' \in [Threads -> Glyphs \cup {None}]
           /\ want' \in [Threads -> FontIds \cup {None}]
           /\ \A h \in Glyphs :
                 Cardinality({s \in Threads : held'[s] = h}) =
                     Cardinality({s \in Threads : held[s] = h}) + (IF h = g THEN 1 ELSE 0)
  <1>1. /\ held[t] = None /\ held' = [held EXCEPT ![t] = g]
        /\ want' = [want EXCEPT ![t] = This(f)] /\ UNCHANGED <<owned, made, pc>>
    BY DEF GetsNew
  <1>2. \A s \in Threads : held[s] # g
    BY FreeGlyph DEF GetsNew
  <1>3. /\ held \in [Threads -> Glyphs \cup {None}]
        /\ want \in [Threads -> FontIds \cup {None}]
        /\ This(f) \in FontIds
    BY DEF IInv, LooseTypeOK, This, FontIds
  <1>4. RightGlyph'
    <2>. SUFFICES ASSUME NEW s \in Threads, held'[s] # None
                  PROVE  glyph'[held'[s]].of = want'[s]
      BY DEF RightGlyph
    <2>1. CASE s = t
      <3>1. held'[s] = g /\ want'[s] = This(f)
        BY <1>1, <1>3, <2>1
      <3>. QED
        BY <3>1
    <2>2. CASE s # t
      <3>1. held'[s] = held[s] /\ want'[s] = want[s] /\ held[s] \in Glyphs /\ held[s] # g
        BY <1>1, <1>2, <1>3, <2>2
      <3>2. glyph[held[s]].of = want[s]
        BY <3>1 DEF IInv, RightGlyph
      <3>. QED
        BY <3>1, <3>2
    <2>. QED
      BY <2>1, <2>2
  <1>5. RenderingCurrent'
    <2>. SUFFICES ASSUME NEW s \in Threads, pc[s] # None
                  PROVE  want'[s] = This(pc[s])
      BY <1>1 DEF RenderingCurrent, This
    <2>1. want'[s] = IF s = t THEN This(f) ELSE want[s]
      BY <1>1, <1>3
    <2>2. want[s] = This(pc[s])
      BY DEF IInv, RenderingCurrent
    <2>. QED
      BY <2>1, <2>2
  <1>6. ASSUME NEW h \in Glyphs
        PROVE  Cardinality({s \in Threads : held'[s] = h}) =
                   Cardinality({s \in Threads : held[s] = h}) + (IF h = g THEN 1 ELSE 0)
    <2>1. held[t] # h
      BY <1>1, GlyphCacheAssumption
    <2>2. held'[t] = g
      BY <1>1, <1>3
    <2>3. ~ (held[t] = h) /\ \A s \in Threads : s # t => held'[s] = held[s]
      BY <1>1, <1>3, <2>1
    <2>4. Cardinality(Users(held', h)) = Cardinality(Users(held, h)) + (IF h = held'[t] THEN 1 ELSE 0)
      BY <2>3, TakesUp
    <2>. QED
      BY <2>2, <2>4 DEF Users
  <1>7. held' \in [Threads -> Glyphs \cup {None}] /\ want' \in [Threads -> FontIds \cup {None}]
    BY <1>1, <1>3
  <1>. QED
    BY <1>4, <1>5, <1>6, <1>7

LEMMA UncachedOK ==
    ASSUME IInv, NEW t \in Threads, NEW f \in Addresses, NEW g \in Glyphs,
           GetsNew(t, f, g), pc[t] \in {None, f}, Uncached(f, g)
    PROVE  IInv'
  <1>1. /\ UNCHANGED <<owned, made, pc, lru, total, font>>
        /\ glyph' = [glyph EXCEPT ![g] = [refs |-> 1, of |-> This(f)]]
    BY DEF GetsNew, Uncached
  <1>2. This(f) \in FontIds
    BY DEF IInv, LooseTypeOK, This, FontIds
  <1>3. /\ glyph' \in [Glyphs -> [refs : Int, of : FontIds \cup {None}]]
        /\ glyph'[g].of = This(f) /\ glyph'[g].refs = 1
        /\ \A h \in Glyphs : h # g => glyph'[h] = glyph[h]
    BY <1>1, <1>2 DEF IInv, LooseTypeOK
  <1>4. /\ RightGlyph' /\ RenderingCurrent'
        /\ held' \in [Threads -> Glyphs \cup {None}]
        /\ want' \in [Threads -> FontIds \cup {None}]
        /\ \A h \in Glyphs :
              Cardinality({s \in Threads : held'[s] = h}) =
                  Cardinality({s \in Threads : held[s] = h}) + (IF h = g THEN 1 ELSE 0)
    BY <1>3, NewGlyph
  <1>5. LooseTypeOK'
    BY <1>1, <1>3, <1>4 DEF IInv, LooseTypeOK, FontIds
  <1>6. OneEntryPerGlyph' /\ TotalAccounted' /\ FontsCounted'
    BY <1>1 DEF IInv, OneEntryPerGlyph, TotalAccounted, FontsCounted
  <1>7. /\ \A i \in 1 .. Len(lru) : lru[i].val # g
        /\ Cardinality({s \in Threads : held[s] = g}) = 0 /\ GlyphsOf(lru, g) = 0
    BY FreeGlyph DEF GetsNew
  <1>8. EntriesCurrent'
    <2>. SUFFICES ASSUME NEW i \in 1 .. Len(lru)
                  PROVE  glyph'[lru[i].val].of = This(lru[i].key)
      BY <1>1 DEF EntriesCurrent, This
    <2>1. glyph[lru[i].val].of = This(lru[i].key) /\ lru[i].val \in Glyphs
      BY Counted DEF IInv, EntriesCurrent
    <2>. QED
      BY <1>3, <1>7, <2>1
  <1>9. GlyphsCounted'
    <2>. SUFFICES ASSUME NEW h \in Glyphs
                  PROVE  glyph'[h].refs = GlyphsOf(lru, h) + Cardinality({s \in Threads : held'[s] = h})
      BY <1>1 DEF GlyphsCounted
    <2>1. glyph[h].refs = GlyphsOf(lru, h) + Cardinality({s \in Threads : held[s] = h})
      BY DEF IInv, GlyphsCounted
    <2>2. Cardinality({s \in Threads : held[s] = h}) \in Nat
      BY UsersType
    <2>. QED
      BY <1>3, <1>4, <1>7, <2>1, <2>2
  <1>. QED
    BY <1>4, <1>5, <1>6, <1>8, <1>9 DEF IInv

LEMMA InsertOK ==
    ASSUME IInv, NEW t \in Threads, NEW f \in Addresses, NEW g \in Glyphs,
           GetsNew(t, f, g), pc[t] \in {None, f}, Entries(lru, f) = {}, Insert(f, g)
    PROVE  IInv'
  <1>. DEFINE e == [key |-> f, val |-> g]
              l == <<e>> \o lru
              n == Kept(l)
              out == SubSeq(l, n + 1, Len(l))
              new == SubSeq(l, 1, n)
  <1>1. /\ lru' = new
        /\ total' = total + GlyphSize(f) - Sum(out)
        /\ font' = [a \in Addresses |-> font[a] + (IF a = f THEN 1 ELSE 0) - FontsOf(out, a)]
        /\ glyph' = [h \in Glyphs |->
              IF h = g THEN [refs |-> 2 - GlyphsOf(out, g), of |-> This(f)]
              ELSE [glyph[h] EXCEPT !.refs = @ - GlyphsOf(out, h)]]
    BY DEF Insert, InsertWith
  <1>2. e \in Entry /\ <<e>> \in Seq(Entry) /\ lru \in Seq(Entry) /\ e.key = f /\ e.val = g
    BY DEF Entry, IInv, LooseTypeOK
  <1>3. /\ l \in Seq(Entry) /\ Len(l) = 1 + Len(lru) /\ Len(lru) \in Nat
        /\ \A k \in 1 .. 1 + Len(lru) : l[k] = IF k = 1 THEN e ELSE lru[k - 1]
    <2>. HIDE DEF e
    <2>. QED
      BY <1>2, Pushed
  <1>4. /\ Sum(l) = GlyphSize(f) + Sum(lru)
        /\ \A x : FontsOf(l, x) = FontsOf(lru, x) + (IF x = f THEN 1 ELSE 0)
        /\ \A x : GlyphsOf(l, x) = GlyphsOf(lru, x) + (IF x = g THEN 1 ELSE 0)
    <2>1. Sum(<<e>>) = GlyphSize(f)
      BY <1>2, SumOne DEF SizeOf
    <2>2. Sum(l) = Sum(<<e>>) + Sum(lru)
      BY <1>2, SumConcat
    <2>3. ASSUME NEW x PROVE FontsOf(l, x) = FontsOf(lru, x) + (IF x = f THEN 1 ELSE 0)
      <3>1. FontsOf(l, x) = FontsOf(<<e>>, x) + FontsOf(lru, x)
        BY <1>2, FontsConcat
      <3>2. FontsOf(<<e>>, x) = IF e.key = x THEN 1 ELSE 0
        BY <1>2, ReferencesOne
      <3>3. FontsOf(lru, x) \in Nat
        BY <1>2, ReferencesType
      <3>. QED
        BY <1>2, <3>1, <3>2, <3>3
    <2>4. ASSUME NEW x PROVE GlyphsOf(l, x) = GlyphsOf(lru, x) + (IF x = g THEN 1 ELSE 0)
      <3>1. GlyphsOf(l, x) = GlyphsOf(<<e>>, x) + GlyphsOf(lru, x)
        BY <1>2, GlyphsConcat
      <3>2. GlyphsOf(<<e>>, x) = IF e.val = x THEN 1 ELSE 0
        BY <1>2, ReferencesOne
      <3>3. GlyphsOf(lru, x) \in Nat
        BY <1>2, ReferencesType
      <3>. QED
        BY <1>2, <3>1, <3>2, <3>3
    <2>. QED
      BY <2>1, <2>2, <2>3, <2>4
  <1>. HIDE DEF l, e
  <1>5. n \in 0 .. Len(l) /\ Sum(new) <= MaxCacheSize
    BY <1>3, KeptProperties
  <1>. HIDE DEF n
  <1>6. /\ new \in Seq(Entry) /\ out \in Seq(Entry) /\ Len(new) = n
        /\ \A k \in 1 .. n : new[k] = l[k]
        /\ new \o out = l
    BY <1>3, <1>5, Cut
  <1>. HIDE DEF new, out
  <1>7. Sum(l) = Sum(new) + Sum(out)
    <2>1. Sum(new \o out) = Sum(new) + Sum(out)
      BY <1>6, SumConcat
    <2>. QED
      BY <1>6, <2>1
  <1>8. \A x : FontsOf(l, x) = FontsOf(new, x) + FontsOf(out, x)
    <2>1. \A x : FontsOf(new \o out, x) = FontsOf(new, x) + FontsOf(out, x)
      BY <1>6, FontsConcat
    <2>. QED
      BY <1>6, <2>1
  <1>9. \A x : GlyphsOf(l, x) = GlyphsOf(new, x) + GlyphsOf(out, x)
    <2>1. \A x : GlyphsOf(new \o out, x) = GlyphsOf(new, x) + GlyphsOf(out, x)
      BY <1>6, GlyphsConcat
    <2>. QED
      BY <1>6, <2>1
  <1>10. /\ \A x : FontsOf(out, x) \in Nat /\ FontsOf(new, x) \in Nat /\ FontsOf(lru, x) \in Nat
         /\ \A x : GlyphsOf(out, x) \in Nat /\ GlyphsOf(new, x) \in Nat /\ GlyphsOf(lru, x) \in Nat
    <2>1. \A x : FontsOf(out, x) \in Nat /\ GlyphsOf(out, x) \in Nat
      BY <1>6, ReferencesType
    <2>2. \A x : FontsOf(new, x) \in Nat /\ GlyphsOf(new, x) \in Nat
      BY <1>6, ReferencesType
    <2>3. \A x : FontsOf(lru, x) \in Nat /\ GlyphsOf(lru, x) \in Nat
      BY <1>2, ReferencesType
    <2>. QED
      BY <2>1, <2>2, <2>3
  <1>11. This(f) \in FontIds
    BY DEF IInv, LooseTypeOK, This, FontIds
  <1>12. /\ glyph' \in [Glyphs -> [refs : Int, of : FontIds \cup {None}]]
         /\ glyph'[g].of = This(f) /\ glyph'[g].refs = 2 - GlyphsOf(out, g)
         /\ \A h \in Glyphs : h # g => /\ glyph'[h].of = glyph[h].of
                                       /\ glyph'[h].refs = glyph[h].refs - GlyphsOf(out, h)
    <2>1. glyph \in [Glyphs -> [refs : Int, of : FontIds \cup {None}]]
      BY DEF IInv, LooseTypeOK
    <2>2. glyph'[g] = [refs |-> 2 - GlyphsOf(out, g), of |-> This(f)]
      BY <1>1
    <2>3. ASSUME NEW h \in Glyphs, h # g
          PROVE  /\ glyph'[h] \in [refs : Int, of : FontIds \cup {None}]
                 /\ glyph'[h].of = glyph[h].of
                 /\ glyph'[h].refs = glyph[h].refs - GlyphsOf(out, h)
      <3>1. glyph'[h] = [glyph[h] EXCEPT !.refs = @ - GlyphsOf(out, h)]
        BY <1>1, <2>3
      <3>2. glyph[h] \in [refs : Int, of : FontIds \cup {None}] /\ GlyphsOf(out, h) \in Int
        BY <1>10, <2>1
      <3>. QED
        BY <3>1, <3>2
    <2>4. glyph'[g] \in [refs : Int, of : FontIds \cup {None}]
      BY <1>10, <1>11, <2>2
    <2>5. glyph' = [h \in Glyphs |-> glyph'[h]]
      BY <1>1
    <2>6. glyph' \in [Glyphs -> [refs : Int, of : FontIds \cup {None}]]
      <3>1. \A h \in Glyphs : glyph'[h] \in [refs : Int, of : FontIds \cup {None}]
        BY <2>3, <2>4
      <3>. QED
        BY <2>5, <3>1
    <2>. QED
      BY <2>2, <2>3, <2>6
  <1>13. /\ RightGlyph' /\ RenderingCurrent'
         /\ held' \in [Threads -> Glyphs \cup {None}]
         /\ want' \in [Threads -> FontIds \cup {None}]
         /\ \A h \in Glyphs :
               Cardinality({s \in Threads : held'[s] = h}) =
                   Cardinality({s \in Threads : held[s] = h}) + (IF h = g THEN 1 ELSE 0)
    BY <1>12, NewGlyph
  <1>14. UNCHANGED <<owned, made, pc>>
    BY DEF GetsNew
  <1>15. font' \in [Addresses -> Int] /\ total' \in Int
    <2>1. font \in [Addresses -> Int] /\ total \in Int /\ GlyphSize(f) \in Nat /\ Sum(out) \in Nat
      BY <1>6, SumType, GlyphCacheAssumption DEF IInv, LooseTypeOK
    <2>. QED
      BY <1>1, <1>10, <2>1
  <1>16. LooseTypeOK'
    BY <1>1, <1>6, <1>12, <1>13, <1>14, <1>15 DEF IInv, LooseTypeOK, FontIds
  <1>17. TotalAccounted'
    <2>1. Sum(lru) \in Nat /\ Sum(out) \in Nat /\ Sum(new) \in Nat /\ GlyphSize(f) \in Nat
      BY <1>2, <1>6, SumType, GlyphCacheAssumption
    <2>2. total = Sum(lru)
      BY DEF IInv, TotalAccounted
    <2>3. total' = Sum(new)
      BY <1>1, <1>4, <1>7, <2>1, <2>2
    <2>. QED
      BY <1>1, <1>5, <2>3 DEF TotalAccounted
  <1>18. ASSUME NEW k \in 1 .. Len(lru')
         PROVE  \/ k = 1 /\ lru'[k] = e
                \/ k - 1 \in 1 .. Len(lru) /\ lru'[k] = lru[k - 1]
    <2>1. k \in 1 .. n /\ k \in 1 .. 1 + Len(lru) /\ lru'[k] = l[k] /\ Len(lru) \in Nat
      BY <1>1, <1>2, <1>3, <1>5, <1>6
    <2>. QED
      BY <1>3, <2>1
  <1>19. OneEntryPerGlyph'
    <2>1. \A k \in 1 .. Len(lru) : lru[k].key # f
      BY DEF Entries
    <2>. SUFFICES ASSUME NEW j \in 1 .. Len(lru'), NEW k \in 1 .. Len(lru'),
                         lru'[j].key = lru'[k].key
                  PROVE  j = k
      BY DEF OneEntryPerGlyph
    <2>2. CASE j = 1 /\ k = 1
      BY <2>2
    <2>3. CASE j # 1 /\ k # 1
      <3>1. /\ j - 1 \in 1 .. Len(lru) /\ lru'[j] = lru[j - 1]
            /\ k - 1 \in 1 .. Len(lru) /\ lru'[k] = lru[k - 1]
        BY <1>18, <2>3
      <3>2. j - 1 = k - 1
        BY <3>1 DEF IInv, OneEntryPerGlyph
      <3>. QED
        BY <3>2
    <2>4. CASE j = 1 /\ k # 1
      <3>1. k - 1 \in 1 .. Len(lru) /\ lru'[k] = lru[k - 1] /\ lru'[j] = e
        <4>1. ~(j - 1 \in 1 .. Len(lru))
          BY <2>4
        <4>. QED
          BY <1>18, <2>4, <4>1
      <3>. QED
        BY <1>2, <2>1, <3>1
    <2>5. CASE j # 1 /\ k = 1
      <3>1. j - 1 \in 1 .. Len(lru) /\ lru'[j] = lru[j - 1] /\ lru'[k] = e
        <4>1. ~(k - 1 \in 1 .. Len(lru))
          BY <2>5
        <4>. QED
          BY <1>18, <2>5, <4>1
      <3>. QED
        BY <1>2, <2>1, <3>1
    <2>. QED
      BY <2>2, <2>3, <2>4, <2>5
  <1>20. /\ \A i \in 1 .. Len(lru) : lru[i].val # g
         /\ Cardinality({s \in Threads : held[s] = g}) = 0 /\ GlyphsOf(lru, g) = 0
    BY FreeGlyph DEF GetsNew
  <1>21. EntriesCurrent'
    <2>. SUFFICES ASSUME NEW k \in 1 .. Len(lru')
                  PROVE  glyph'[lru'[k].val].of = This(lru'[k].key)
      BY <1>14 DEF EntriesCurrent, This
    <2>1. CASE k = 1 /\ lru'[k] = e
      BY <1>2, <1>12, <2>1
    <2>2. CASE k - 1 \in 1 .. Len(lru) /\ lru'[k] = lru[k - 1]
      <3>1. /\ glyph[lru[k - 1].val].of = This(lru[k - 1].key)
            /\ lru[k - 1].val \in Glyphs /\ lru[k - 1].val # g
        BY <1>20, <2>2, Counted DEF IInv, EntriesCurrent
      <3>. QED
        BY <1>12, <2>2, <3>1
    <2>. QED
      BY <1>18, <2>1, <2>2
  <1>22. GlyphsCounted'
    <2>. SUFFICES ASSUME NEW h \in Glyphs
                  PROVE  glyph'[h].refs = GlyphsOf(new, h) + Cardinality({s \in Threads : held'[s] = h})
      BY <1>1 DEF GlyphsCounted
    <2>1. glyph[h].refs = GlyphsOf(lru, h) + Cardinality({s \in Threads : held[s] = h})
      BY DEF IInv, GlyphsCounted
    <2>2. Cardinality({s \in Threads : held[s] = h}) \in Nat
      BY UsersType
    <2>3. GlyphsOf(lru, h) + (IF h = g THEN 1 ELSE 0) = GlyphsOf(new, h) + GlyphsOf(out, h)
      BY <1>4, <1>9
    <2>4. Cardinality({s \in Threads : held'[s] = h}) =
              Cardinality({s \in Threads : held[s] = h}) + (IF h = g THEN 1 ELSE 0)
      BY <1>13
    <2>5. GlyphsOf(lru, h) \in Nat /\ GlyphsOf(new, h) \in Nat /\ GlyphsOf(out, h) \in Nat
      BY <1>10
    <2>6. CASE h = g
      BY <1>12, <1>20, <2>2, <2>3, <2>4, <2>5, <2>6
    <2>7. CASE h # g
      BY <1>12, <2>1, <2>2, <2>3, <2>4, <2>5, <2>7
    <2>. QED
      BY <2>6, <2>7
  <1>23. FontsCounted'
    <2>. SUFFICES ASSUME NEW a \in Addresses
                  PROVE  font'[a] = Cardinality({s \in Threads : pc[s] = a})
                                    + FontsOf(new, a) + (IF a \in owned THEN 1 ELSE 0)
      BY <1>1, <1>14 DEF FontsCounted
    <2>1. font[a] = Cardinality({s \in Threads : pc[s] = a})
                    + FontsOf(lru, a) + (IF a \in owned THEN 1 ELSE 0)
      BY DEF IInv, FontsCounted
    <2>2. Cardinality({s \in Threads : pc[s] = a}) \in Nat
      BY UsersType
    <2>3. FontsOf(lru, a) + (IF a = f THEN 1 ELSE 0) = FontsOf(new, a) + FontsOf(out, a)
      BY <1>4, <1>8
    <2>4. FontsOf(lru, a) \in Nat /\ FontsOf(new, a) \in Nat /\ FontsOf(out, a) \in Nat
      BY <1>10
    <2>5. font'[a] = font[a] + (IF a = f THEN 1 ELSE 0) - FontsOf(out, a)
      BY <1>1
    <2>. QED
      BY <2>1, <2>2, <2>3, <2>4, <2>5
  <1>. QED
    BY <1>13, <1>16, <1>17, <1>19, <1>21, <1>22, <1>23 DEF IInv

-----------------------------------------------------------------------------
(* The steps of a thread.                                                  *)
LEMMA FontInUse == ASSUME IInv PROVE owned \subseteq Addresses /\ Type3 \subseteq Addresses
  BY GlyphCacheAssumption DEF IInv, LooseTypeOK

LEMMA HitOK == ASSUME IInv, NEW t \in Threads, NEW f \in Addresses, Hit(t, f) PROVE IInv'
  <1>1. Gets(t, f) /\ pc[t] \in {None, f}
    BY DEF Hit, Gets
  <1>. QED
    BY <1>1, GetsOK

LEMMA RenderOutlineOK ==
    ASSUME IInv, NEW t \in Threads, NEW f \in Addresses, RenderOutline(t, f) PROVE IInv'
  <1>1. PICK g \in Glyphs : /\ GetsNew(t, f, g)
                            /\ Insert(f, g) \/ Uncached(f, g)
    BY DEF RenderOutline, GetsNew
  <1>2. pc[t] \in {None, f} /\ Entries(lru, f) = {}
    BY DEF RenderOutline
  <1>3. CASE Insert(f, g)
    BY <1>1, <1>2, <1>3, InsertOK
  <1>4. CASE Uncached(f, g)
    BY <1>1, <1>2, <1>4, UncachedOK
  <1>. QED
    BY <1>1, <1>3, <1>4

\* The section after the procedure of a type 3 font hands out a new glyph,
\* or one another thread has encached meanwhile.
LEMMA FinishIs ==
    ASSUME IInv, NEW t \in Threads, FinishType3(t)
    PROVE  /\ pc[t] \in Addresses
           /\ \/ Gets(t, pc[t])
              \/ \E g \in Glyphs :
                    /\ GetsNew(t, pc[t], g)
                    /\ \/ Uncached(pc[t], g)
                       \/ Entries(lru, pc[t]) = {} /\ Insert(pc[t], g)
  <1>. DEFINE f == pc[t]
  <1>1. /\ f \in Addresses /\ held[t] = None /\ f # None
        /\ UNCHANGED <<owned, made, pc, want>>
    BY GlyphCacheAssumption DEF FinishType3
  <1>2. want' = [want EXCEPT ![t] = This(f)]
    <2>1. want[t] = This(f)
      BY <1>1 DEF IInv, RenderingCurrent
    <2>2. want \in [Threads -> FontIds \cup {None}]
      BY DEF IInv, LooseTypeOK
    <2>. QED
      BY <1>1, <2>1, <2>2
  <1>3. CASE \E g \in Glyphs :
                 /\ glyph[g].refs = 0
                 /\ held' = [held EXCEPT ![t] = g]
                 /\ \/ Uncached(f, g)
                    \/ Entries(lru, f) = {} /\ Insert(f, g)
    <2>1. PICK g \in Glyphs : /\ glyph[g].refs = 0
                              /\ held' = [held EXCEPT ![t] = g]
                              /\ \/ Uncached(f, g)
                                 \/ Entries(lru, f) = {} /\ Insert(f, g)
      BY <1>3
    <2>2. GetsNew(t, f, g)
      BY <1>1, <1>2, <2>1 DEF GetsNew
    <2>. QED
      BY <1>1, <2>1, <2>2
  <1>4. CASE /\ Entries(lru, f) # {}
             /\ lru' = ToFront(lru, Min(Entries(lru, f)))
             /\ glyph' = [glyph EXCEPT ![lru[Min(Entries(lru, f))].val].refs = @ + 1]
             /\ held' = [held EXCEPT ![t] = lru[Min(Entries(lru, f))].val]
             /\ UNCHANGED <<total, font>>
    <2>1. Gets(t, f)
      BY <1>1, <1>2, <1>4 DEF Gets
    <2>. QED
      BY <1>1, <2>1
  <1>. QED
    BY <1>3, <1>4 DEF FinishType3

LEMMA FinishType3OK == ASSUME IInv, NEW t \in Threads, FinishType3(t) PROVE IInv'
  <1>1. pc[t] \in Addresses /\ pc[t] \in {None, pc[t]}
    BY FinishIs
  <1>2. CASE Gets(t, pc[t])
    BY <1>1, <1>2, GetsOK
  <1>3. ASSUME NEW g \in Glyphs, GetsNew(t, pc[t], g), Uncached(pc[t], g) PROVE IInv'
    BY <1>1, <1>3, UncachedOK
  <1>4. ASSUME NEW g \in Glyphs, GetsNew(t, pc[t], g),
               Entries(lru, pc[t]) = {}, Insert(pc[t], g)
        PROVE  IInv'
    BY <1>1, <1>4, InsertOK
  <1>. QED
    BY <1>2, <1>3, <1>4, FinishIs

\* A thread that begins or gives up the procedure of a type 3 font.
LEMMA FontUsers ==
    ASSUME IInv, NEW t \in Threads, NEW d \in Int, NEW f \in Addresses,
           lru' = lru, owned' = owned,
           font' = [font EXCEPT ![f] = @ + d],
           \A a \in Addresses : Cardinality({s \in Threads : pc'[s] = a}) =
                                    Cardinality({s \in Threads : pc[s] = a}) + (IF a = f THEN d ELSE 0)
    PROVE  FontsCounted' /\ font' \in [Addresses -> Int]
  <1>. SUFFICES ASSUME NEW a \in Addresses
                PROVE  /\ font'[a] = Cardinality({s \in Threads : pc'[s] = a})
                                     + FontsOf(lru, a) + (IF a \in owned THEN 1 ELSE 0)
                       /\ font' \in [Addresses -> Int]
    <2>1. font' \in [Addresses -> Int]
      BY DEF IInv, LooseTypeOK
    <2>. QED
      BY <2>1 DEF FontsCounted
  <1>1. font[a] = Cardinality({s \in Threads : pc[s] = a})
                  + FontsOf(lru, a) + (IF a \in owned THEN 1 ELSE 0)
    BY DEF IInv, FontsCounted
  <1>2. Cardinality({s \in Threads : pc[s] = a}) \in Nat
    BY UsersType
  <1>3. FontsOf(lru, a) \in Nat
    BY ReferencesType DEF IInv, LooseTypeOK
  <1>4. font'[a] = font[a] + (IF a = f THEN d ELSE 0) /\ font' \in [Addresses -> Int]
    BY DEF IInv, LooseTypeOK
  <1>. QED
    BY <1>1, <1>2, <1>3, <1>4

LEMMA StartType3OK ==
    ASSUME IInv, NEW t \in Threads, NEW f \in Addresses, StartType3(t, f) PROVE IInv'
  <1>1. /\ pc[t] = None /\ held[t] = None /\ f \in Type3
        /\ pc' = [pc EXCEPT ![t] = f]
        /\ font' = [font EXCEPT ![f] = @ + 1]
        /\ want' = [want EXCEPT ![t] = This(f)]
        /\ UNCHANGED <<lru, total, owned, made, glyph, held>>
    BY DEF StartType3
  <1>2. /\ pc \in [Threads -> Type3 \cup {None}]
        /\ want \in [Threads -> FontIds \cup {None}]
        /\ This(f) \in FontIds
    BY DEF IInv, LooseTypeOK, This, FontIds
  <1>3. ASSUME NEW a \in Addresses
        PROVE  Cardinality({s \in Threads : pc'[s] = a}) =
                   Cardinality({s \in Threads : pc[s] = a}) + (IF a = f THEN 1 ELSE 0)
    <2>1. pc[t] # a
      BY <1>1, GlyphCacheAssumption
    <2>2. pc'[t] = f
      BY <1>1, <1>2
    <2>3. ~ (pc[t] = a) /\ \A s \in Threads : s # t => pc'[s] = pc[s]
      BY <1>1, <1>2, <2>1
    <2>4. Cardinality(Users(pc', a)) = Cardinality(Users(pc, a)) + (IF a = pc'[t] THEN 1 ELSE 0)
      BY <2>3, TakesUp
    <2>. QED
      BY <2>2, <2>4 DEF Users
  <1>4. FontsCounted' /\ font' \in [Addresses -> Int]
    <2>1. 1 \in Int /\ lru' = lru /\ owned' = owned
      BY <1>1
    <2>. QED
      BY <1>1, <1>3, <2>1, FontUsers
  <1>5. LooseTypeOK'
    BY <1>1, <1>2, <1>4 DEF IInv, LooseTypeOK, FontIds
  <1>6. OneEntryPerGlyph' /\ TotalAccounted' /\ GlyphsCounted' /\ EntriesCurrent'
    BY <1>1 DEF IInv, OneEntryPerGlyph, TotalAccounted, GlyphsCounted, EntriesCurrent, This
  <1>7. RightGlyph'
    BY <1>1, <1>2 DEF IInv, RightGlyph
  <1>8. RenderingCurrent'
    BY <1>1, <1>2 DEF IInv, RenderingCurrent, This
  <1>. QED
    BY <1>4, <1>5, <1>6, <1>7, <1>8 DEF IInv

LEMMA ThrowType3OK == ASSUME IInv, NEW t \in Threads, ThrowType3(t) PROVE IInv'
  <1>. DEFINE f == pc[t]
  <1>1. /\ f \in Addresses /\ held[t] = None
        /\ pc' = [pc EXCEPT ![t] = None]
        /\ font' = [font EXCEPT ![f] = @ - 1]
        /\ UNCHANGED <<lru, total, owned, made, glyph, held, want>>
    BY DEF ThrowType3
  <1>2. pc \in [Threads -> Type3 \cup {None}] /\ font \in [Addresses -> Int]
    BY DEF IInv, LooseTypeOK
  <1>3. ASSUME NEW a \in Addresses
        PROVE  Cardinality({s \in Threads : pc'[s] = a}) =
                   Cardinality({s \in Threads : pc[s] = a}) - (IF a = f THEN 1 ELSE 0)
    <2>1. pc'[t] # a
      BY <1>1, <1>2, GlyphCacheAssumption
    <2>2. \A s \in Threads \ {t} : pc'[s] = pc[s]
      BY <1>1, <1>2
    <2>3. Cardinality(Users(pc', a)) = Cardinality(Users(pc, a)) - (IF a = f THEN 1 ELSE 0)
      BY <2>1, <2>2, LetsGo
    <2>. QED
      BY <2>3 DEF Users
  <1>4. FontsCounted' /\ font' \in [Addresses -> Int]
    <2>1. font' = [font EXCEPT ![f] = @ + (-1)]
      BY <1>1, <1>2
    <2>2. \A a \in Addresses : Cardinality({s \in Threads : pc'[s] = a}) =
              Cardinality({s \in Threads : pc[s] = a}) + (IF a = f THEN -1 ELSE 0)
      <3>1. \A a \in Addresses : Cardinality({s \in Threads : pc[s] = a}) \in Nat
        BY UsersType
      <3>. QED
        BY <1>3, <3>1
    <2>. HIDE DEF f
    <2>3. -1 \in Int
      OBVIOUS
    <2>. QED
      BY <1>1, <2>1, <2>2, <2>3, FontUsers
  <1>5. LooseTypeOK'
    BY <1>1, <1>2, <1>4 DEF IInv, LooseTypeOK, FontIds
  <1>6. OneEntryPerGlyph' /\ TotalAccounted' /\ GlyphsCounted' /\ EntriesCurrent' /\ RightGlyph'
    BY <1>1 DEF IInv, OneEntryPerGlyph, TotalAccounted, GlyphsCounted, EntriesCurrent,
                RightGlyph, This
  <1>7. RenderingCurrent'
    BY <1>1, <1>2 DEF IInv, RenderingCurrent, This
  <1>. QED
    BY <1>4, <1>5, <1>6, <1>7 DEF IInv

LEMMA DoneOK == ASSUME IInv, NEW t \in Threads, Done(t) PROVE IInv'
  <1>. DEFINE f == pc[t]
              g == held[t]
  <1>1. /\ g # None
        /\ glyph' = [glyph EXCEPT ![g].refs = @ - 1]
        /\ held' = [held EXCEPT ![t] = None]
        /\ font' = IF f = None THEN font ELSE [font EXCEPT ![f] = @ - 1]
        /\ pc' = [pc EXCEPT ![t] = None]
        /\ UNCHANGED <<lru, total, owned, made, want>>
    BY DEF Done
  <1>2. /\ pc \in [Threads -> Type3 \cup {None}] /\ font \in [Addresses -> Int]
        /\ held \in [Threads -> Glyphs \cup {None}]
        /\ glyph \in [Glyphs -> [refs : Int, of : FontIds \cup {None}]]
        /\ g \in Glyphs
    BY <1>1 DEF IInv, LooseTypeOK
  <1>3. ASSUME NEW a \in Addresses
        PROVE  Cardinality({s \in Threads : pc'[s] = a}) =
                   Cardinality({s \in Threads : pc[s] = a}) - (IF a = f THEN 1 ELSE 0)
    <2>1. pc'[t] # a
      BY <1>1, <1>2, GlyphCacheAssumption
    <2>2. \A s \in Threads \ {t} : pc'[s] = pc[s]
      BY <1>1, <1>2
    <2>3. Cardinality(Users(pc', a)) = Cardinality(Users(pc, a)) - (IF a = f THEN 1 ELSE 0)
      BY SMTT(40), <2>1, <2>2, LetsGo
    <2>. QED
      BY <2>3 DEF Users
  <1>4. ASSUME NEW h \in Glyphs
        PROVE  Cardinality({s \in Threads : held'[s] = h}) =
                   Cardinality({s \in Threads : held[s] = h}) - (IF h = g THEN 1 ELSE 0)
    <2>1. held'[t] # h
      BY <1>1, <1>2, GlyphCacheAssumption
    <2>2. \A s \in Threads \ {t} : held'[s] = held[s]
      BY <1>1, <1>2
    <2>3. Cardinality(Users(held', h)) = Cardinality(Users(held, h)) - (IF h = g THEN 1 ELSE 0)
      BY SMTT(40), <2>1, <2>2, LetsGo
    <2>. QED
      BY <2>3 DEF Users
  <1>5. FontsCounted' /\ font' \in [Addresses -> Int]
    <2>0. \A a \in Addresses : Cardinality({s \in Threads : pc[s] = a}) \in Nat
      BY UsersType
    <2>1. CASE f = None
      <3>1. \A a \in Addresses : Cardinality({s \in Threads : pc'[s] = a}) =
                                     Cardinality({s \in Threads : pc[s] = a})
        BY <1>3, <2>0, <2>1, GlyphCacheAssumption
      <3>. QED
        BY <1>1, <1>2, <2>1, <3>1 DEF IInv, FontsCounted
    <2>2. CASE f # None
      <3>1. f \in Addresses
        BY <1>2, <2>2, GlyphCacheAssumption
      <3>2. font' = [font EXCEPT ![f] = @ + (-1)]
        BY <1>1, <1>2, <2>2
      <3>3. \A a \in Addresses : Cardinality({s \in Threads : pc'[s] = a}) =
                Cardinality({s \in Threads : pc[s] = a}) + (IF a = f THEN -1 ELSE 0)
        BY <1>3, <2>0
      <3>4. -1 \in Int /\ lru' = lru /\ owned' = owned
        BY <1>1
      <3>. HIDE DEF f
      <3>. QED
        BY <3>1, <3>2, <3>3, <3>4, FontUsers
    <2>. QED
      BY <2>1, <2>2
  <1>6. /\ glyph' \in [Glyphs -> [refs : Int, of : FontIds \cup {None}]]
        /\ \A h \in Glyphs : /\ glyph'[h].of = glyph[h].of
                             /\ glyph'[h].refs = glyph[h].refs - (IF h = g THEN 1 ELSE 0)
    <2>. HIDE DEF g
    <2>. QED
      BY <1>1, <1>2
  <1>7. LooseTypeOK'
    BY <1>1, <1>2, <1>5, <1>6 DEF IInv, LooseTypeOK, FontIds
  <1>8. OneEntryPerGlyph' /\ TotalAccounted'
    BY <1>1 DEF IInv, OneEntryPerGlyph, TotalAccounted
  <1>9. EntriesCurrent'
    <2>. SUFFICES ASSUME NEW i \in 1 .. Len(lru)
                  PROVE  glyph'[lru[i].val].of = This(lru[i].key)
      BY <1>1 DEF EntriesCurrent, This
    <2>1. glyph[lru[i].val].of = This(lru[i].key) /\ lru[i].val \in Glyphs
      BY Counted DEF IInv, EntriesCurrent
    <2>. QED
      BY <1>6, <2>1
  <1>10. RightGlyph'
    <2>. SUFFICES ASSUME NEW s \in Threads, held'[s] # None
                  PROVE  glyph'[held'[s]].of = want[s]
      BY <1>1 DEF RightGlyph
    <2>1. held'[s] = held[s] /\ held[s] \in Glyphs
      BY <1>1, <1>2
    <2>2. glyph[held[s]].of = want[s]
      BY <2>1 DEF IInv, RightGlyph
    <2>. QED
      BY <1>6, <2>1, <2>2
  <1>11. RenderingCurrent'
    BY <1>1, <1>2 DEF IInv, RenderingCurrent, This
  <1>12. GlyphsCounted'
    <2>. SUFFICES ASSUME NEW h \in Glyphs
                  PROVE  glyph'[h].refs = GlyphsOf(lru, h) + Cardinality({s \in Threads : held'[s] = h})
      BY <1>1 DEF GlyphsCounted
    <2>1. glyph[h].refs = GlyphsOf(lru, h) + Cardinality({s \in Threads : held[s] = h})
      BY DEF IInv, GlyphsCounted
    <2>2. Cardinality({s \in Threads : held[s] = h}) \in Nat
      BY UsersType
    <2>3. GlyphsOf(lru, h) \in Nat
      BY ReferencesType DEF IInv, LooseTypeOK
    <2>. QED
      BY <1>4, <1>6, <2>1, <2>2, <2>3
  <1>. QED
    BY <1>5, <1>7, <1>8, <1>9, <1>10, <1>11, <1>12 DEF IInv

-----------------------------------------------------------------------------
LEMMA StepOK == IInv /\ [Next]_vars => IInv'
  <1>. SUFFICES ASSUME IInv, [Next]_vars PROVE IInv'
    OBVIOUS
  <1>1. CASE Purge
    BY <1>1, PurgeOK
  <1>2. CASE \E f \in Addresses : LoadFont(f) \/ DropFont(f)
    BY <1>2, LoadFontOK, DropFontOK
  <1>3. ASSUME NEW t \in Threads, FinishType3(t) \/ ThrowType3(t) \/ Done(t) PROVE IInv'
    BY <1>3, FinishType3OK, ThrowType3OK, DoneOK
  <1>4. ASSUME NEW t \in Threads, NEW f \in Addresses,
               Hit(t, f) \/ RenderOutline(t, f) \/ StartType3(t, f)
        PROVE  IInv'
    BY <1>4, HitOK, RenderOutlineOK, StartType3OK
  <1>5. CASE UNCHANGED vars
    BY ZenonT(40), <1>5 DEF vars, IInv, LooseTypeOK, OneEntryPerGlyph, TotalAccounted, GlyphsCounted,
                FontsCounted, EntriesCurrent, RightGlyph, RenderingCurrent, This
  <1>. QED
    BY <1>1, <1>2, <1>3, <1>4, <1>5 DEF Next

THEOREM Inductive == Spec => []IInv
  <1>. QED
    BY InitOK, StepOK, PTL DEF Spec

(* The cache is sound: typed, one entry for each glyph, its total the sum  *)
(* of the sizes of its entries and never over the limit while the lock of  *)
(* the glyph cache is free.                                                *)
THEOREM CacheIsSound == Spec => []CacheSound
  <1>1. IInv => CacheSound
    BY Types DEF IInv, CacheSound
  <1>. QED
    BY <1>1, Inductive, PTL

(* A thread gets a glyph of the font it asked for, whatever fonts came and *)
(* went at the same address before.                                        *)
THEOREM GlyphIsRight == Spec => []RightGlyph
  <1>1. IInv => RightGlyph
    BY DEF IInv
  <1>. QED
    BY <1>1, Inductive, PTL

(* Glyphs and fonts are counted exactly: none is freed while an entry, a   *)
(* thread or the document uses it, and none is left when nothing does.     *)
THEOREM CountsAreExact == Spec => []CountsExact
  <1>1. IInv => CountsExact
    BY DEF IInv, CountsExact
  <1>. QED
    BY <1>1, Inductive, PTL

-----------------------------------------------------------------------------
(* Eviction by least recent use.                                           *)
InOrder(t) ==
    held[t] = None /\ held'[t] # None /\ GlyphsOf(lru', held'[t]) > 0 =>
        /\ lru'[1].val = held'[t]
        /\ IsPrefix(Tail(lru'), RemoveFirst(lru, lru'[1]))

\* Removing an entry by its value is removing it where it is.
LEMMA RemovedOnce ==
    ASSUME NEW l \in Seq(Entry), NEW i \in 1 .. Len(l),
           \A j \in 1 .. Len(l) : l[j] = l[i] => j = i
    PROVE  RemoveFirst(l, l[i]) = RemoveAt(l, i)
  <1>1. {j \in 1 .. Len(l) : l[j] = l[i]} = {i}
    OBVIOUS
  <1>2. SelectInSeq(l, LAMBDA e : e = l[i]) = i
    <2>1. Min({i}) = i
      BY DEF Min
    <2>. QED
      BY <1>1, <2>1 DEF SelectInSeq
  <1>. QED
    BY <1>2 DEF RemoveFirst

LEMMA GetsInOrder ==
    ASSUME IInv, NEW t \in Threads, NEW f \in Addresses, Gets(t, f), NEW s \in Threads
    PROVE  InOrder(s)
  <1>. DEFINE i == Min(Entries(lru, f))
              a == RemoveAt(lru, i)
  <1>1. lru \in Seq(Entry) /\ i \in 1 .. Len(lru) /\ lru[i].key = f
    BY Found DEF Gets, IInv, LooseTypeOK
  <1>2. lru[i] \in Entry /\ Len(lru) \in Nat
    BY <1>1, Counted
  <1>3. lru' = <<lru[i]>> \o a /\ held' = [held EXCEPT ![t] = lru[i].val]
    BY DEF Gets, ToFront
  <1>. HIDE DEF i
  <1>4. a \in Seq(Entry)
    <2>1. i - 1 \in 0 .. Len(lru) /\ i \in 0 .. Len(lru)
      BY <1>1, <1>2
    <2>2. SubSeq(lru, 1, i - 1) \in Seq(Entry)
      BY <1>1, <2>1, Cut
    <2>3. SubSeq(lru, i + 1, Len(lru)) \in Seq(Entry)
      BY <1>1, <2>1, Cut
    <2>. QED
      BY <2>2, <2>3, ConcatProperties DEF RemoveAt
  <1>. HIDE DEF a
  <1>5. lru'[1] = lru[i] /\ Tail(lru') = a
    BY <1>2, <1>3, <1>4
  <1>6. \A j \in 1 .. Len(lru) : lru[j] = lru[i] => j = i
    BY <1>1 DEF IInv, OneEntryPerGlyph
  <1>7. RemoveFirst(lru, lru'[1]) = a
    BY <1>1, <1>5, <1>6, RemovedOnce DEF a
  <1>8. held[s] = None /\ held'[s] # None => held'[s] = lru[i].val
    BY <1>3 DEF IInv, LooseTypeOK
  <1>. QED
    BY <1>5, <1>7, <1>8 DEF InOrder, IsPrefix

LEMMA InsertInOrder ==
    ASSUME IInv, NEW t \in Threads, NEW f \in Addresses, NEW g \in Glyphs,
           GetsNew(t, f, g), Entries(lru, f) = {}, Insert(f, g), NEW s \in Threads
    PROVE  InOrder(s)
  <1>. DEFINE e == [key |-> f, val |-> g]
              l == <<e>> \o lru
              n == Kept(l)
  <1>1. lru' = SubSeq(l, 1, n) /\ held' = [held EXCEPT ![t] = g]
    BY DEF Insert, InsertWith, GetsNew
  <1>2. e \in Entry /\ <<e>> \in Seq(Entry) /\ lru \in Seq(Entry) /\ e.key = f /\ e.val = g
    BY DEF Entry, IInv, LooseTypeOK
  <1>3. /\ l \in Seq(Entry) /\ Len(l) = 1 + Len(lru) /\ Len(lru) \in Nat
        /\ \A k \in 1 .. 1 + Len(lru) : l[k] = IF k = 1 THEN e ELSE lru[k - 1]
    <2>. HIDE DEF e
    <2>. QED
      BY <1>2, Pushed
  <1>. HIDE DEF l, e
  <1>4. n \in 0 .. Len(l)
    BY <1>3, KeptProperties
  <1>. HIDE DEF n
  <1>5. lru' \in Seq(Entry) /\ Len(lru') = n /\ \A k \in 1 .. n : lru'[k] = l[k]
    BY <1>1, <1>3, <1>4, Cut
  <1>. SUFFICES ASSUME held[s] = None, held'[s] # None, GlyphsOf(lru', held'[s]) > 0
                PROVE  /\ lru'[1].val = held'[s]
                       /\ IsPrefix(Tail(lru'), RemoveFirst(lru, lru'[1]))
    BY DEF InOrder
  <1>6. held'[s] = g
    BY <1>1 DEF IInv, LooseTypeOK
  <1>7. n # 0 /\ lru' # <<>>
    <2>1. GlyphsOf(<<>>, g) = 0
      BY ReferencesNone
    <2>2. lru' # <<>>
      BY <1>6, <2>1
    <2>. QED
      BY <1>5, <2>2
  <1>8. lru'[1] = e
    <2>1. 1 \in 1 .. n /\ 1 \in 1 .. 1 + Len(lru)
      BY <1>3, <1>4, <1>7
    <2>. QED
      BY <1>3, <1>5, <2>1
  <1>9. RemoveFirst(lru, e) = lru
    <2>1. \A k \in 1 .. Len(lru) : lru[k] # e
      BY <1>2 DEF Entries
    <2>. QED
      BY <2>1 DEF RemoveFirst
  <1>. DEFINE T == Tail(lru')
  <1>10. T \in Seq(Entry) /\ Len(T) = n - 1 /\ \A k \in 1 .. n - 1 : T[k] = lru'[k + 1]
    BY <1>5, <1>7, HeadTailProperties
  <1>. HIDE DEF T
  <1>11. \A k \in 1 .. n - 1 : T[k] = lru[k]
    <2>. SUFFICES ASSUME NEW k \in 1 .. n - 1 PROVE T[k] = lru[k]
      OBVIOUS
    <2>1. k + 1 \in 1 .. n /\ k + 1 \in 1 .. 1 + Len(lru) /\ k + 1 # 1 /\ (k + 1) - 1 = k
      BY <1>3, <1>4
    <2>. QED
      BY <1>3, <1>5, <1>10, <2>1
  <1>12. n - 1 \in 0 .. Len(lru)
    BY <1>3, <1>4, <1>7
  <1>13. IsPrefix(T, lru)
    <2>1. /\ SubSeq(lru, 1, n - 1) \in Seq(Entry) /\ Len(SubSeq(lru, 1, n - 1)) = n - 1
          /\ \A k \in 1 .. n - 1 : SubSeq(lru, 1, n - 1)[k] = lru[k]
      BY <1>2, <1>12, Cut
    <2>2. SubSeq(lru, 1, n - 1) = T
      BY <1>10, <1>11, <2>1, SeqEqual
    <2>3. SubSeq(T, 1, n - 1) = T
      BY <1>10, SubSeqFull
    <2>. QED
      BY <1>10, <1>12, <2>2, <2>3 DEF IsPrefix
  <1>. QED
    BY <1>2, <1>6, <1>8, <1>9, <1>13 DEF T

\* A glyph the cache does not keep is in no entry.
LEMMA UncachedInOrder ==
    ASSUME IInv, NEW t \in Threads, NEW f \in Addresses, NEW g \in Glyphs,
           GetsNew(t, f, g), Uncached(f, g), NEW s \in Threads
    PROVE  InOrder(s)
  <1>1. lru' = lru /\ held' = [held EXCEPT ![t] = g] /\ GlyphsOf(lru, g) = 0
    BY FreeGlyph DEF GetsNew, Uncached
  <1>. QED
    BY <1>1 DEF InOrder, IInv, LooseTypeOK

LEMMA FinishInOrder ==
    ASSUME IInv, NEW t \in Threads, FinishType3(t), NEW s \in Threads PROVE InOrder(s)
  <1>1. pc[t] \in Addresses
    BY FinishIs
  <1>2. CASE Gets(t, pc[t])
    BY <1>1, <1>2, GetsInOrder
  <1>3. ASSUME NEW g \in Glyphs, GetsNew(t, pc[t], g), Uncached(pc[t], g) PROVE InOrder(s)
    BY <1>1, <1>3, UncachedInOrder
  <1>4. ASSUME NEW g \in Glyphs, GetsNew(t, pc[t], g),
               Entries(lru, pc[t]) = {}, Insert(pc[t], g)
        PROVE  InOrder(s)
    BY <1>1, <1>4, InsertInOrder
  <1>. QED
    BY <1>2, <1>3, <1>4, FinishIs

OrderStep == \A t \in Threads : InOrder(t)

LEMMA StepInOrder == IInv /\ [Next]_vars => [OrderStep]_vars
  <1>. SUFFICES ASSUME IInv, Next, NEW s \in Threads PROVE InOrder(s)
    BY DEF OrderStep
  <1>1. ASSUME held' = held PROVE InOrder(s)
    BY <1>1 DEF InOrder
  <1>2. CASE Purge \/ \E f \in Addresses : LoadFont(f) \/ DropFont(f)
    BY <1>1, <1>2 DEF Purge, LoadFont, DropFont
  <1>3. ASSUME NEW t \in Threads, FinishType3(t) PROVE InOrder(s)
    BY <1>3, FinishInOrder
  <1>4. ASSUME NEW t \in Threads, ThrowType3(t) PROVE InOrder(s)
    BY <1>1, <1>4 DEF ThrowType3
  <1>5. ASSUME NEW t \in Threads, Done(t) PROVE InOrder(s)
    <2>1. held' = [held EXCEPT ![t] = None]
      BY <1>5 DEF Done
    <2>. QED
      BY <2>1 DEF InOrder, IInv, LooseTypeOK
  <1>6. ASSUME NEW t \in Threads, NEW f \in Addresses, Hit(t, f) PROVE InOrder(s)
    <2>1. Gets(t, f)
      BY <1>6 DEF Hit, Gets
    <2>. QED
      BY <2>1, GetsInOrder
  <1>7. ASSUME NEW t \in Threads, NEW f \in Addresses, RenderOutline(t, f) PROVE InOrder(s)
    <2>1. PICK g \in Glyphs : /\ GetsNew(t, f, g)
                              /\ Insert(f, g) \/ Uncached(f, g)
      BY <1>7 DEF RenderOutline, GetsNew
    <2>2. Entries(lru, f) = {}
      BY <1>7 DEF RenderOutline
    <2>. QED
      BY <2>1, <2>2, InsertInOrder, UncachedInOrder
  <1>8. ASSUME NEW t \in Threads, NEW f \in Addresses, StartType3(t, f) PROVE InOrder(s)
    BY <1>1, <1>8 DEF StartType3
  <1>. QED
    BY <1>2, <1>3, <1>4, <1>5, <1>6, <1>7, <1>8 DEF Next

(* Eviction is by least recent use: a glyph that is handed out and stays   *)
(* cached is the first entry, the others keep their order behind it, and   *)
(* only the ones used longest ago are gone.                                *)
THEOREM EvictsTheOldest == Spec => LeastRecentlyUsed
  <1>. QED
    BY Inductive, StepInOrder, PTL DEF Spec, LeastRecentlyUsed, OrderStep, InOrder
=============================================================================
