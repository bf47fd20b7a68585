--------------------------- MODULE JournalProofs ---------------------------
(***************************************************************************)
(* Theorems about Journal, for documents, objects and histories of any     *)
(* size: what a signature covers stays as it was signed, the index of the  *)
(* cross reference never hides the newest value of an object, and no list  *)
(* of fragments mentions an object twice.                                  *)
(*                                                                         *)
(* The first two follow from one fact about every call that changes the    *)
(* document: it puts a section in front if the first one takes no changes, *)
(* and then touches the first section only (Retouched).  What objects and  *)
(* fragments hold does not matter, so IInv does not type them: a table is  *)
(* a sequence of sections of some kind (Table).  The third needs the types *)
(* and the numbers of objects, and has an invariant of its own (CallInv).  *)
(***************************************************************************)
EXTENDS Journal, SequenceTheorems, FiniteSetTheorems, WellFoundedInduction, TLAPS

Table(secs) == \E S : secs \in Seq([Num -> S])

\* A document's sections, the last of which is not incremental.
Layered(secs, n) == Table(secs) /\ n \in Nat /\ n < Len(secs)

Tables ==
    /\ Layered(sections, incs)
    /\ signed \in Seq(BOOLEAN) /\ Len(signed) = Len(sections)
    /\ Layered(file.sections, file.incs)

(* No section before the one the index names for an object defines it.     *)
IndexFits(secs, idx) ==
    /\ idx \in [Num -> Nat \ {0}]
    /\ \A x \in Num : \A i \in 1 .. Len(secs) :
          secs[i][x].type # "none" => idx[x] <= i

IInv == Tables /\ IndexFits(sections, index)

FrozenStep ==
    \A d \in 1 .. Len(sections) :
        FromBottom(signed, d) /\ ~Reopen
        => /\ Len(sections') >= d
           /\ FromBottom(sections', d) = FromBottom(sections, d)

Goal == IInv' /\ FrozenStep

(* The document after the section that takes changes has been ensured, and *)
(* that section changed.                                                   *)
Retouched ==
    /\ EnsureIncrement
    /\ Table(sections')
    /\ Len(sections') = Len(WithIncrement)
    /\ \A i \in 2 .. Len(sections') : sections'[i] = WithIncrement[i]

-----------------------------------------------------------------------------
(* Sequences of sections. *)

\* A table is a sequence.
LEMMA TableProperties ==
  ASSUME NEW t, Table(t)
  PROVE  Len(t) \in Nat /\ DOMAIN t = 1 .. Len(t) /\ \A i \in 1 .. Len(t) : DOMAIN t[i] = Num
  <1>1. PICK S : t \in Seq([Num -> S])
    BY DEF Table
  <1>2. Len(t) \in Nat /\ DOMAIN t = 1 .. Len(t)
    BY <1>1, LenProperties
  <1>3. ASSUME NEW i \in 1 .. Len(t) PROVE DOMAIN t[i] = Num
    BY <1>1, <1>3, ElementOfSeq
  <1>. QED
    BY <1>2, <1>3

\* One section of a table is replaced.
LEMMA PutRow ==
  ASSUME NEW t, Table(t), Len(t) > 0, NEW T, NEW row \in [Num -> T],
         NEW r, r = [t EXCEPT ![1] = row]
  PROVE  /\ Table(r) /\ Len(r) = Len(t) /\ r[1] = row
         /\ \A i \in 2 .. Len(t) : r[i] = t[i]
  <1>1. PICK S : t \in Seq([Num -> S])
    BY DEF Table
  <1>. DEFINE U == [Num -> S \cup T]
  <1>2. t \in Seq(U) /\ row \in U
    <2>1. [Num -> S] \subseteq U /\ [Num -> T] \subseteq U
      OBVIOUS
    <2>. QED
      BY <1>1, <2>1, SeqMonotonic
  <1>3. Len(t) \in Nat /\ 1 \in 1 .. Len(t) /\ \A i \in 2 .. Len(t) : i \in 1 .. Len(t) /\ i # 1
    BY TableProperties
  <1>4. r \in Seq(U) /\ Len(r) = Len(t) /\ \A j \in 1 .. Len(t) : r[j] = IF j = 1 THEN row ELSE t[j]
    <2>. HIDE DEF U
    <2>. QED
      BY <1>2, <1>3, ExceptSeq
  <1>5. Table(r)
    BY <1>4 DEF Table
  <1>6. r[1] = row /\ \A i \in 2 .. Len(t) : r[i] = t[i]
    BY <1>3, <1>4
  <1>. QED
    BY <1>4, <1>5, <1>6

\* A section is put before the others.
LEMMA NewRow ==
  ASSUME NEW t, Table(t), NEW T, NEW row \in [Num -> T]
  PROVE  /\ Table(<<row>> \o t)
         /\ Len(<<row>> \o t) = Len(t) + 1
         /\ (<<row>> \o t)[1] = row
         /\ \A i \in 2 .. Len(t) + 1 : (<<row>> \o t)[i] = t[i - 1]
  <1>1. PICK S : t \in Seq([Num -> S])
    BY DEF Table
  <1>. DEFINE U == [Num -> S \cup T]
              r == <<row>> \o t
  <1>2. t \in Seq(U) /\ row \in U
    <2>1. [Num -> S] \subseteq U /\ [Num -> T] \subseteq U
      OBVIOUS
    <2>. QED
      BY <1>1, <2>1, SeqMonotonic
  <1>. HIDE DEF U
  <1>3. <<row>> \in Seq(U) /\ Len(<<row>>) = 1 /\ <<row>>[1] = row
    BY <1>2
  <1>4. /\ r \in Seq(U) /\ Len(r) = Len(<<row>>) + Len(t)
        /\ \A i \in 1 .. Len(<<row>>) + Len(t) :
              r[i] = IF i <= Len(<<row>>) THEN <<row>>[i] ELSE t[i - Len(<<row>>)]
    BY <1>2, <1>3, ConcatProperties
  <1>5. Len(t) \in Nat
    BY TableProperties
  <1>6. Table(r)
    BY <1>4 DEF Table, U
  <1>7. r[1] = row /\ Len(r) = Len(t) + 1
    BY <1>3, <1>4, <1>5
  <1>8. ASSUME NEW i \in 2 .. Len(t) + 1 PROVE r[i] = t[i - 1]
    BY <1>3, <1>4, <1>5
  <1>. HIDE DEF r
  <1>. QED
    BY <1>6, <1>7, <1>8 DEF r

-----------------------------------------------------------------------------
(* The section that takes changes. *)

\* The tables before a change to the document.
LEMMA IncrementProperties ==
  ASSUME IInv
  PROVE  /\ Table(WithIncrement)
         /\ Len(WithIncrement) = IF NeedsSection THEN Len(sections) + 1 ELSE Len(sections)
         /\ Len(WithIncrement) > 0 /\ Len(sections) \in Nat
         /\ \A i \in 2 .. Len(WithIncrement) :
               WithIncrement[i] = IF NeedsSection THEN sections[i - 1] ELSE sections[i]
         /\ DOMAIN WithIncrement[1] = Num
         /\ IndexFits(WithIncrement, IndexWithIncrement)
  <1>1. Table(sections) /\ Len(sections) \in Nat /\ Len(sections) > 0
    BY TableProperties DEF IInv, Tables, Layered
  <1>2. CASE NeedsSection
    <2>1. Empty \in [Num -> {Absent}] /\ \A x \in Num : Empty[x].type = "none"
      BY DEF Empty, Absent
    <2>2. /\ Table(WithIncrement) /\ Len(WithIncrement) = Len(sections) + 1
          /\ WithIncrement[1] = Empty
          /\ \A i \in 2 .. Len(sections) + 1 : WithIncrement[i] = sections[i - 1]
      <3>1. WithIncrement = <<Empty>> \o sections
        BY <1>2 DEF WithIncrement
      <3>. HIDE DEF Empty
      <3>2. /\ Table(<<Empty>> \o sections)
            /\ Len(<<Empty>> \o sections) = Len(sections) + 1
            /\ (<<Empty>> \o sections)[1] = Empty
            /\ \A i \in 2 .. Len(sections) + 1 : (<<Empty>> \o sections)[i] = sections[i - 1]
        BY ZenonT(40), <1>1, <2>1, NewRow
      <3>. QED
        BY <3>1, <3>2
    <2>3. IndexWithIncrement = [x \in Num |-> index[x] + 1]
      BY <1>2 DEF IndexWithIncrement
    <2>4. IndexFits(WithIncrement, IndexWithIncrement)
      <3>1. IndexWithIncrement \in [Num -> Nat \ {0}]
        BY <2>3 DEF IInv, IndexFits
      <3>2. ASSUME NEW x \in Num, NEW i \in 1 .. Len(sections) + 1,
                   WithIncrement[i][x].type # "none"
            PROVE  IndexWithIncrement[x] <= i
        <4>1. i # 1
          BY <2>1, <2>2, <3>2
        <4>2. i \in 2 .. Len(sections) + 1 /\ i - 1 \in 1 .. Len(sections)
          BY <1>1, <4>1
        <4>3. index[x] \in Nat /\ index[x] <= i - 1
          BY <2>2, <3>2, <4>2 DEF IInv, IndexFits
        <4>. QED
          BY <2>3, <4>2, <4>3
      <3>. QED
        BY <2>2, <3>1, <3>2 DEF IndexFits
    <2>. QED
      BY <1>1, <1>2, <2>1, <2>2, <2>4
  <1>3. CASE ~NeedsSection
    <2>1. WithIncrement = sections /\ IndexWithIncrement = index
      BY <1>3 DEF WithIncrement, IndexWithIncrement
    <2>2. 1 \in 1 .. Len(sections)
      BY <1>1
    <2>. QED
      BY <1>1, <1>3, <2>1, <2>2, TableProperties DEF IInv
  <1>. QED
    BY <1>2, <1>3

\* A change to the first section: the others are as before, and a signed one
\* is not the first.
LEMMA RetouchedOK ==
  ASSUME IInv, Retouched, file' = file, index' \in [Num -> Nat \ {0}],
         \A x \in Num : \/ index'[x] = 1
                        \/ /\ index'[x] = IndexWithIncrement[x]
                           /\ sections'[1][x] = WithIncrement[1][x]
  PROVE  Goal
  <1>. DEFINE n == Len(sections)
              w == WithIncrement
  <1>1. /\ Table(w) /\ Len(w) = IF NeedsSection THEN n + 1 ELSE n
        /\ n \in Nat /\ n > 0 /\ Len(w) > 0
        /\ \A i \in 2 .. Len(w) : w[i] = IF NeedsSection THEN sections[i - 1] ELSE sections[i]
        /\ IndexFits(w, IndexWithIncrement)
    BY IncrementProperties, TableProperties DEF IInv, Tables, Layered
  <1>2. /\ Table(sections') /\ Len(sections') = Len(w)
        /\ \A i \in 2 .. Len(w) : sections'[i] = w[i]
        /\ signed' = IF NeedsSection THEN <<FALSE>> \o signed ELSE signed
        /\ incs' = IF NeedsSection THEN incs + 1 ELSE incs
    BY DEF Retouched, EnsureIncrement
  <1>. HIDE DEF w
  <1>3. signed \in Seq(BOOLEAN) /\ Len(signed) = n /\ incs \in Nat /\ incs < n
    BY DEF IInv, Tables, Layered
  <1>4. Layered(sections, incs)'
    BY <1>1, <1>2, <1>3 DEF Layered
  <1>5. signed' \in Seq(BOOLEAN) /\ Len(signed') = Len(sections')
    <2>1. <<FALSE>> \in Seq(BOOLEAN) /\ Len(<<FALSE>>) = 1
      OBVIOUS
    <2>2. <<FALSE>> \o signed \in Seq(BOOLEAN) /\ Len(<<FALSE>> \o signed) = 1 + n
      BY SMTT(40), <1>3, <2>1, ConcatProperties
    <2>3. CASE NeedsSection
      BY <1>1, <1>2, <2>2, <2>3
    <2>4. CASE ~NeedsSection
      BY <1>1, <1>2, <1>3, <2>4
    <2>. QED
      BY <2>3, <2>4
  <1>6. IndexFits(sections, index)'
    <2>. SUFFICES ASSUME NEW x \in Num, NEW i \in 1 .. Len(w), sections'[i][x].type # "none"
                  PROVE  index'[x] <= i
      BY <1>2 DEF IndexFits
    <2>1. i = 1 \/ i \in 2 .. Len(w)
      BY <1>1
    <2>2. CASE index'[x] = 1
      BY <1>1, <2>2
    <2>3. CASE index'[x] # 1
      <3>1. index'[x] = IndexWithIncrement[x] /\ sections'[1][x] = w[1][x]
        BY <2>3 DEF w
      <3>2. w[i][x].type # "none"
        BY <1>2, <2>1, <3>1
      <3>. QED
        BY <1>1, <3>1, <3>2 DEF IndexFits
    <2>. QED
      BY <2>2, <2>3
  <1>7. FrozenStep
    <2>. SUFFICES ASSUME NEW d \in 1 .. n, FromBottom(signed, d)
                  PROVE  /\ Len(sections') >= d
                         /\ FromBottom(sections', d) = FromBottom(sections, d)
      BY DEF FrozenStep
    <2>. DEFINE i == n + 1 - d
    <2>1. i \in 1 .. n /\ signed[i]
      BY <1>1, <1>3 DEF FromBottom
    <2>2. CASE NeedsSection
      <3>1. i + 1 \in 2 .. Len(w) /\ Len(w) + 1 - d = i + 1 /\ (i + 1) - 1 = i
        BY <1>1, <2>1, <2>2
      <3>2. sections'[i + 1] = sections[i]
        BY <1>1, <1>2, <2>2, <3>1
      <3>. QED
        BY <1>1, <1>2, <2>2, <3>1, <3>2 DEF FromBottom
    <2>3. CASE ~NeedsSection
      <3>1. i # 1
        BY <2>1, <2>3 DEF NeedsSection
      <3>2. i \in 2 .. Len(w) /\ Len(w) = n
        BY <1>1, <2>1, <2>3, <3>1
      <3>3. sections'[i] = sections[i]
        BY <1>1, <1>2, <2>3, <3>2
      <3>. QED
        BY <1>1, <1>2, <3>2, <3>3 DEF FromBottom
    <2>. QED
      BY <2>2, <2>3
  <1>. QED
    BY <1>4, <1>5, <1>6, <1>7 DEF Goal, IInv, Tables

\* The first section is replaced by row.
LEMMA RowPut ==
  ASSUME IInv, EnsureIncrement, NEW T, NEW row \in [Num -> T],
         sections' = [WithIncrement EXCEPT ![1] = row]
  PROVE  Retouched /\ sections'[1] = row
  <1>. DEFINE w == WithIncrement
  <1>1. Table(w) /\ Len(w) > 0
    BY IncrementProperties
  <1>. HIDE DEF w
  <1>2. PICK r : r = [w EXCEPT ![1] = row]
    OBVIOUS
  <1>3. /\ Table(r) /\ Len(r) = Len(w) /\ r[1] = row
        /\ \A i \in 2 .. Len(w) : r[i] = w[i]
    <2>1. Table(r) /\ Len(r) = Len(w)
      BY <1>1, <1>2, PutRow
    <2>2. r[1] = row
      BY <1>1, <1>2, PutRow
    <2>3. \A i \in 2 .. Len(w) : r[i] = w[i]
      BY <1>1, <1>2, PutRow
    <2>. QED
      BY <2>1, <2>2, <2>3
  <1>4. sections' = r
    BY <1>2 DEF w
  <1>. QED
    BY <1>3, <1>4 DEF Retouched, w

\* The object x is put into the first section.
LEMMA CellPut ==
  ASSUME IInv, EnsureIncrement, NEW x \in Num, NEW e, file' = file,
         sections' = [WithIncrement EXCEPT ![1] = [WithIncrement[1] EXCEPT ![x] = e]],
         index' = [IndexWithIncrement EXCEPT ![x] = 1]
  PROVE  Goal
  <1>. DEFINE w == WithIncrement
              row == [w[1] EXCEPT ![x] = e]
  <1>1. PICK S : w \in Seq([Num -> S])
    BY IncrementProperties DEF Table
  <1>2. w[1] \in [Num -> S]
    <2>1. 1 \in 1 .. Len(w)
      BY <1>1, IncrementProperties, LenProperties
    <2>. QED
      BY <1>1, <2>1, ElementOfSeq
  <1>3. row \in [Num -> S \cup {e}] /\ \A y \in Num : y # x => row[y] = w[1][y]
    BY <1>2
  <1>4. IndexWithIncrement \in [Num -> Nat \ {0}]
    BY IncrementProperties DEF IndexFits
  <1>. HIDE DEF row, w
  <1>5. Retouched /\ sections'[1] = row
    BY <1>3, RowPut DEF row, w
  <1>6. /\ index' \in [Num -> Nat \ {0}]
        /\ \A y \in Num : index'[y] = IF y = x THEN 1 ELSE IndexWithIncrement[y]
    BY <1>4
  <1>. QED
    BY <1>3, <1>5, <1>6, RetouchedOK DEF w

\* Nothing is put into it.
LEMMA NothingPut ==
  ASSUME IInv, EnsureIncrement, sections' = WithIncrement, file' = file,
         index' \in [Num -> Nat \ {0}],
         \A x \in Num : index'[x] = 1 \/ index'[x] = IndexWithIncrement[x]
  PROVE  Goal
  <1>1. Retouched
    BY IncrementProperties DEF Retouched
  <1>. QED
    BY <1>1, RetouchedOK

\* A call that leaves the sections alone.
LEMMA Kept == ASSUME IInv, UNCHANGED <<sections, signed, incs, index, file>> PROVE Goal
  <1>1. IInv'
    BY DEF IInv, Tables, Layered, IndexFits
  <1>2. Len(sections) \in Nat
    BY TableProperties DEF IInv, Tables, Layered
  <1>3. FrozenStep
    BY <1>2 DEF FrozenStep, FromBottom
  <1>. QED
    BY <1>1, <1>3 DEF Goal

-----------------------------------------------------------------------------
(* Changing the document. *)

\* The object is moved to the first section, unless it is there.
LEMMA WithObjectIs ==
  ASSUME NEW x \in Num
  PROVE  \/ WithObject(x) = WithIncrement
         \/ \E g : WithObject(x) =
               [WithIncrement EXCEPT ![1] = [WithIncrement[1] EXCEPT ![x] = g]]
  BY DEF WithObject

LEMMA AlterOK == ASSUME IInv, NEW x \in Num, NEW v \in Val, Alter(x, v) PROVE Goal
  <1>. DEFINE w == WithIncrement
              o == WithObject(x)
  <1>1. /\ EnsureIncrement /\ file' = file
        /\ sections' = [o EXCEPT ![1] = [o[1] EXCEPT ![x] = [o[1][x] EXCEPT !.obj = v]]]
        /\ index' = [IndexWithIncrement EXCEPT ![x] = 1]
    BY DEF Alter
  <1>2. DOMAIN w[1] = Num /\ 1 \in DOMAIN w
    BY IncrementProperties, TableProperties
  <1>3. \E e : sections' = [w EXCEPT ![1] = [w[1] EXCEPT ![x] = e]]
    <2>1. CASE o = w
      BY <1>1, <2>1
    <2>2. CASE \E g : o = [w EXCEPT ![1] = [w[1] EXCEPT ![x] = g]]
      <3>1. PICK g : o = [w EXCEPT ![1] = [w[1] EXCEPT ![x] = g]]
        BY <2>2
      <3>. DEFINE h == [o[1][x] EXCEPT !.obj = v]
      <3>. HIDE DEF o, w, h
      <3>2. o[1] = [w[1] EXCEPT ![x] = g]
        BY <1>2, <3>1
      <3>3. [o[1] EXCEPT ![x] = h] = [w[1] EXCEPT ![x] = h]
        BY <1>2, <3>2
      <3>4. [o EXCEPT ![1] = [w[1] EXCEPT ![x] = h]] = [w EXCEPT ![1] = [w[1] EXCEPT ![x] = h]]
        BY <1>2, <3>1
      <3>. QED
        BY <1>1, <3>3, <3>4 DEF h
    <2>. QED
      BY <2>1, <2>2, WithObjectIs
  <1>. QED
    BY <1>1, <1>3, CellPut

LEMMA AlterFailsOK ==
  ASSUME IInv, NEW x \in Num, NEW moved \in BOOLEAN, AlterFails(x, moved)
  PROVE  Goal
  <1>1. /\ EnsureIncrement /\ file' = file
        /\ sections' = IF moved THEN WithObject(x) ELSE WithIncrement
        /\ index' = IF moved THEN [IndexWithIncrement EXCEPT ![x] = 1] ELSE IndexWithIncrement
    BY DEF AlterFails
  <1>2. IndexWithIncrement \in [Num -> Nat \ {0}]
    BY IncrementProperties DEF IndexFits
  <1>3. CASE sections' = WithIncrement
    <2>1. /\ index' \in [Num -> Nat \ {0}]
          /\ \A y \in Num : index'[y] = 1 \/ index'[y] = IndexWithIncrement[y]
      BY <1>1, <1>2
    <2>. QED
      BY <1>1, <1>3, <2>1, NothingPut
  <1>4. CASE moved /\ \E g : sections' =
               [WithIncrement EXCEPT ![1] = [WithIncrement[1] EXCEPT ![x] = g]]
    BY <1>1, <1>4, CellPut
  <1>. QED
    BY <1>1, <1>3, <1>4, WithObjectIs

LEMMA AddOK == ASSUME IInv, NEW v \in Val, Add(v) PROVE Goal
  BY CellPut DEF Add

LEMMA AddFailsOK == ASSUME IInv, AddFails PROVE Goal
  BY CellPut DEF AddFails

LEMMA UpdateOK == ASSUME IInv, NEW x \in Num, NEW v \in Val, Update(x, v) PROVE Goal
  BY CellPut DEF Update

\* A signature marks the first section, and changes nothing else.
LEMMA SignOK == ASSUME IInv, Sign PROVE Goal
  <1>1. /\ signed' = [signed EXCEPT ![1] = TRUE]
        /\ sections' = sections /\ incs' = incs /\ index' = index /\ file' = file
    BY DEF Sign
  <1>2. /\ signed \in Seq(BOOLEAN) /\ Len(signed) = Len(sections)
        /\ Len(sections) \in Nat /\ Len(sections) > 0
    BY TableProperties DEF IInv, Tables, Layered
  <1>3. signed' \in Seq(BOOLEAN) /\ Len(signed') = Len(signed)
    BY <1>1, <1>2, ExceptSeq
  <1>4. IInv'
    BY <1>1, <1>2, <1>3 DEF IInv, Tables, Layered, IndexFits
  <1>5. FrozenStep
    BY <1>1, <1>2 DEF FrozenStep, FromBottom
  <1>. QED
    BY <1>4, <1>5 DEF Goal

\* swap_fragments: what it does not mention stays.
LEMMA SwapInOK == ASSUME IInv, NEW frags, SwapIn(frags), file' = file PROVE Goal
  <1>. DEFINE w == WithIncrement
              row == SwapTable(w[1], frags)
  <1>1. CASE frags = <<>>
    BY <1>1, Kept DEF SwapIn, xrefVars
  <1>2. CASE frags # <<>>
    <2>1. /\ EnsureIncrement
          /\ sections' = [w EXCEPT ![1] = row]
          /\ index' = SwapIndex(frags)
      BY <1>2 DEF SwapIn
    <2>2. row \in [Num -> {row[x] : x \in Num}]
      BY DEF SwapTable
    <2>3. \A x \in Num : Mentions(frags, x) \/ row[x] = w[1][x]
      <3>. SUFFICES ASSUME NEW x \in Num, ~Mentions(frags, x) PROVE row[x] = w[1][x]
        OBVIOUS
      <3>1. {j \in DOMAIN frags : j < Len(frags) + 1 /\ frags[j].num = x} = {}
        BY DEF Mentions
      <3>2. Met(w[1], frags, x, Len(frags) + 1) = w[1][x]
        BY <3>1 DEF Met
      <3>. QED
        BY <3>2 DEF SwapTable
    <2>4. IndexWithIncrement \in [Num -> Nat \ {0}]
      BY IncrementProperties DEF IndexFits
    <2>5. /\ index' \in [Num -> Nat \ {0}]
          /\ \A x \in Num : index'[x] = IF Mentions(frags, x) THEN 1 ELSE IndexWithIncrement[x]
      BY <2>1, <2>4 DEF SwapIndex
    <2>. HIDE DEF row
    <2>6. Retouched /\ sections'[1] = row
      BY <2>1, <2>2, RowPut
    <2>. QED
      BY <2>3, <2>5, <2>6, RetouchedOK
  <1>. QED
    BY <1>1, <1>2

-----------------------------------------------------------------------------
(* Looking objects up. *)

\* Of some sections there is a first.
LEMMA First == ASSUME NEW F \in SUBSET Nat, F # {} PROVE \E j \in F : \A k \in F : j <= k
  <1>1. PICK j \in F : \A k \in F : ~(<<k, j>> \in OpToRel(<, Nat))
    BY NatLessThanWellFounded, WFMin
  <1>2. \A k \in F : ~(k < j)
    BY <1>1 DEF OpToRel
  <1>. QED
    BY <1>2

\* FindFrom, started at the newest section, finds the first that defines x.
LEMMA FindProperties ==
  ASSUME NEW secs, Table(secs), NEW x
  PROVE  /\ FindFrom(secs, x, 1) \in Nat
         /\ FindFrom(secs, x, 1) = 0 => \A i \in 1 .. Len(secs) : secs[i][x].type = "none"
         /\ FindFrom(secs, x, 1) # 0 =>
               /\ FindFrom(secs, x, 1) \in 1 .. Len(secs)
               /\ secs[FindFrom(secs, x, 1)][x].type # "none"
               /\ \A i \in 1 .. Len(secs) :
                     secs[i][x].type # "none" => FindFrom(secs, x, 1) <= i
  <1>. DEFINE F == {j \in 1 .. Len(secs) : secs[j][x].type # "none"}
              j == FindFrom(secs, x, 1)
  <1>1. j = IF F = {} THEN 0 ELSE CHOOSE k \in F : \A i \in F : k <= i
    BY DEF FindFrom
  <1>2. F \in SUBSET Nat
    BY TableProperties
  <1>. HIDE DEF j
  <1>3. CASE F = {}
    BY <1>1, <1>3 DEF j
  <1>4. CASE F # {}
    <2>1. j \in F /\ \A i \in F : j <= i
      <3>. HIDE DEF F
      <3>. QED
        BY <1>1, <1>2, <1>4, First
    <2>2. j \in 1 .. Len(secs) /\ j # 0 /\ j \in Nat
      BY <2>1, TableProperties
    <2>. QED
      BY <2>1, <2>2 DEF j
  <1>. QED
    BY <1>3, <1>4

LEMMA LoadOK == ASSUME IInv, NEW x \in Num, Load(x) PROVE Goal
  <1>. DEFINE j == FindFrom(sections, x, 1)
  <1>1. /\ index' = [index EXCEPT ![x] = IF j = 0 THEN 1 ELSE j]
        /\ UNCHANGED <<sections, signed, incs, file>>
    BY DEF Load
  <1>2. Table(sections) /\ Len(sections) \in Nat /\ IndexFits(sections, index)
    BY TableProperties DEF IInv, Tables, Layered
  <1>3. /\ j \in Nat
        /\ j = 0 => \A i \in 1 .. Len(sections) : sections[i][x].type = "none"
        /\ j # 0 => \A i \in 1 .. Len(sections) : sections[i][x].type # "none" => j <= i
    BY <1>2, FindProperties
  <1>. HIDE DEF j
  <1>4. IndexFits(sections, index)'
    BY <1>1, <1>2, <1>3 DEF IndexFits
  <1>5. Tables'
    BY <1>1 DEF IInv, Tables, Layered
  <1>6. FrozenStep
    BY <1>1, <1>2 DEF FrozenStep, FromBottom
  <1>. QED
    BY <1>4, <1>5, <1>6 DEF Goal, IInv

LEMMA LocalAlterOK == ASSUME IInv, NEW x \in Num, LocalAlter(x) PROVE Goal
  <1>1. /\ \/ index' = index \/ index' = [index EXCEPT ![x] = 1]
        /\ UNCHANGED <<sections, signed, incs, file>>
    BY DEF LocalAlter
  <1>2. Len(sections) \in Nat /\ IndexFits(sections, index)
    BY TableProperties DEF IInv, Tables, Layered
  <1>3. IndexFits(sections, index)'
    BY <1>1, <1>2 DEF IndexFits
  <1>4. Tables'
    BY <1>1 DEF IInv, Tables, Layered
  <1>5. FrozenStep
    BY <1>1, <1>2 DEF FrozenStep, FromBottom
  <1>. QED
    BY <1>3, <1>4, <1>5 DEF Goal, IInv

-----------------------------------------------------------------------------
(* Snapshots. *)

\* What is written is a document's table, with its changes or without.
LEMMA WrittenTables ==
  ASSUME IInv
  PROVE  /\ Layered(SectionsWritten, incs) /\ Len(SectionsWritten) = Len(sections)
         /\ Layered(SubSeq(sections, incs + 1, Len(sections)), 0)
         /\ Len(sections) \in Nat /\ incs \in Nat
  <1>. DEFINE n == Len(sections)
              kept == SubSeq(sections, incs + 1, n)
  <1>1. n \in Nat /\ DOMAIN sections = 1 .. n /\ incs \in Nat /\ incs < n
    BY TableProperties DEF IInv, Tables, Layered
  <1>2. PICK S : sections \in Seq([Num -> S])
    BY DEF IInv, Tables, Layered, Table
  <1>3. \A i \in 1 .. n : sections[i] \in [Num -> S]
    BY <1>2, ElementOfSeq
  <1>4. Table(SectionsWritten) /\ Len(SectionsWritten) = n
    <2>. DEFINE U == [Num -> S \cup {Absent}]
    <2>1. \A i \in 1 .. n : sections[i] \in U /\ Written(sections[i]) \in U
      BY <1>3 DEF Written
    <2>. HIDE DEF U
    <2>2. SectionsWritten \in [1 .. n -> U]
      BY <1>1, <2>1 DEF SectionsWritten
    <2>3. SectionsWritten \in Seq(U) /\ Len(SectionsWritten) = n
      BY <1>1, <2>2
    <2>. QED
      BY <2>3 DEF Table, U
  <1>5. Table(kept) /\ Len(kept) > 0
    <2>. DEFINE U == [Num -> S]
    <2>1. /\ incs + 1 \in Int /\ n \in Int /\ incs + 1 <= n
          /\ \A i \in incs + 1 .. n : sections[i] \in U
      BY <1>1, <1>3
    <2>. HIDE DEF U
    <2>2. kept \in Seq(U) /\ Len(kept) = n - (incs + 1) + 1
      BY <2>1, SubSeqProperties
    <2>3. n - (incs + 1) + 1 > 0
      BY <1>1
    <2>. HIDE DEF kept
    <2>. QED
      BY <2>2, <2>3 DEF Table, U
  <1>. QED
    BY <1>1, <1>4, <1>5 DEF Layered

LEMMA SnapshotOK == ASSUME IInv, Snapshot PROVE Goal
  <1>1. UNCHANGED <<sections, signed, incs, index>>
    BY DEF Snapshot, xrefVars
  <1>2. \/ file'.sections = SectionsWritten /\ file'.incs = incs
        \/ /\ file'.sections = SubSeq(sections, incs + 1, Len(sections))
           /\ file'.incs = 0
    BY DEF Snapshot, Saved
  <1>3. Layered(file.sections, file.incs)'
    BY <1>2, WrittenTables DEF Layered
  <1>4. IInv'
    BY <1>1, <1>3 DEF IInv, Tables, Layered, IndexFits
  <1>5. FrozenStep
    BY <1>1, WrittenTables DEF FrozenStep, FromBottom
  <1>. QED
    BY <1>4, <1>5 DEF Goal

\* The object of the cross reference stream is put into the table that is written.
LEMMA SnapshotAsStreamOK == ASSUME IInv, SnapshotAsStream PROVE Goal
  <1>. DEFINE x == xrefLen + 1
              w == SectionsWritten
              row == [w[1] EXCEPT ![x] = Used(FileVal)]
  <1>1. /\ UNCHANGED <<sections, signed, incs>>
        /\ index' = [index EXCEPT ![x] = 1]
        /\ file'.sections = [w EXCEPT ![1] = row] /\ file'.incs = incs
    BY DEF SnapshotAsStream, Saved
  <1>2. /\ Table(w) /\ Len(w) > 0 /\ Len(w) = Len(sections)
        /\ Len(sections) \in Nat /\ incs \in Nat /\ incs < Len(w)
    BY WrittenTables, TableProperties DEF Layered
  <1>3. PICK S : w \in Seq([Num -> S])
    BY <1>2 DEF Table
  <1>4. w[1] \in [Num -> S]
    <2>1. 1 \in 1 .. Len(w)
      BY <1>2
    <2>. QED
      BY <1>3, <2>1, ElementOfSeq
  <1>5. row \in [Num -> S \cup {Used(FileVal)}]
    BY <1>4
  <1>. HIDE DEF w, row, x
  <1>6. Table(file'.sections) /\ Len(file'.sections) = Len(w)
    <2>1. PICK r : r = [w EXCEPT ![1] = row]
      OBVIOUS
    <2>2. Table(r) /\ Len(r) = Len(w)
      BY <1>2, <1>5, <2>1, PutRow
    <2>. QED
      BY <1>1, <2>1, <2>2
  <1>7. Layered(file.sections, file.incs)'
    BY <1>1, <1>2, <1>6 DEF Layered
  <1>8. IndexFits(sections, index)'
    <2>1. /\ index \in [Num -> Nat \ {0}]
          /\ \A y \in Num : \A i \in 1 .. Len(sections) :
                sections[i][y].type # "none" => index[y] <= i
      BY DEF IInv, IndexFits
    <2>2. PICK i : i = [index EXCEPT ![x] = 1]
      OBVIOUS
    <2>3. /\ \A y \in Num : i[y] = index[y] \/ i[y] = 1
          /\ DOMAIN i = Num /\ i = [y \in Num |-> i[y]]
      BY <2>1, <2>2
    <2>4. i \in [Num -> Nat \ {0}]
      BY <2>1, <2>3
    <2>. QED
      BY <1>1, <1>2, <2>1, <2>2, <2>3, <2>4 DEF IndexFits
  <1>9. IInv'
    BY <1>1, <1>7, <1>8 DEF IInv, Tables, Layered
  <1>10. FrozenStep
    BY <1>1, <1>2 DEF FrozenStep, FromBottom
  <1>. QED
    BY <1>9, <1>10 DEF Goal

LEMMA ReopenOK == ASSUME IInv, Reopen PROVE Goal
  <1>. DEFINE secs == file.sections
  <1>1. /\ sections' = secs /\ incs' = file.incs /\ file' = file
        /\ signed' = [i \in DOMAIN secs |-> FALSE]
        /\ index' = [x \in Num |-> 1]
    BY DEF Reopen
  <1>2. Layered(secs, file.incs) /\ Len(secs) \in Nat /\ DOMAIN secs = 1 .. Len(secs)
    BY TableProperties DEF IInv, Tables, Layered
  <1>3. signed' \in Seq(BOOLEAN) /\ Len(signed') = Len(secs)
    <2>1. signed' \in [1 .. Len(secs) -> BOOLEAN]
      BY <1>1, <1>2
    <2>. QED
      BY <1>2, <2>1
  <1>4. Tables'
    BY <1>1, <1>2, <1>3 DEF Tables
  <1>5. IndexFits(sections, index)'
    BY <1>1, <1>2 DEF IndexFits
  <1>6. FrozenStep
    BY DEF FrozenStep
  <1>. QED
    BY <1>4, <1>5, <1>6 DEF Goal, IInv

-----------------------------------------------------------------------------

\* A document as it is opened.
LEMMA InitInv == Init => IInv
  <1>. SUFFICES ASSUME Init PROVE IInv
    OBVIOUS
  <1>1. /\ sections = <<FileSection>> /\ signed = <<FALSE>> /\ incs = 0
        /\ index = [x \in Num |-> 1]
        /\ file.sections = sections /\ file.incs = 0
    BY DEF Init
  <1>2. FileSection \in [Num -> {FileSection[x] : x \in Num}]
    BY DEF FileSection
  <1>3. Layered(sections, 0) /\ Len(sections) = 1
    <2>. HIDE DEF FileSection
    <2>1. sections \in Seq([Num -> {FileSection[x] : x \in Num}]) /\ Len(sections) = 1
      BY <1>1, <1>2
    <2>2. Table(sections)
      BY <2>1 DEF Table
    <2>. QED
      BY <2>1, <2>2 DEF Layered
  <1>4. signed \in Seq(BOOLEAN) /\ Len(signed) = 1
    BY <1>1
  <1>5. IndexFits(sections, index)
    BY <1>1, <1>3 DEF IndexFits
  <1>. QED
    BY <1>1, <1>3, <1>4, <1>5 DEF IInv, Tables

\* What every call does.
LEMMA StepOK == ASSUME IInv, [Next]_vars PROVE Goal
  <1>1. ASSUME NEW x \in Num, NEW v \in Val, Alter(x, v) \/ Update(x, v) PROVE Goal
    BY <1>1, AlterOK, UpdateOK
  <1>2. ASSUME NEW v \in Val, Add(v) PROVE Goal
    BY <1>2, AddOK
  <1>3. CASE Enable \/ EndInner \/ EndEmpty \/ EndNamed \/ EndImplicit
    BY <1>3, Kept DEF Enable, EndInner, EndEmpty, EndNamed, EndImplicit, EndOuter, xrefVars
  <1>4. ASSUME NEW named \in BOOLEAN, Begin(named) PROVE Goal
    BY <1>4, Kept DEF Begin, xrefVars
  <1>5. CASE Abandon
    BY <1>5, SwapInOK DEF Abandon
  <1>6. CASE Undo
    BY <1>6, SwapInOK DEF Undo
  <1>7. CASE Redo
    BY <1>7, SwapInOK DEF Redo
  <1>8. ASSUME NEW x \in Num, Load(x) PROVE Goal
    BY <1>8, LoadOK
  <1>9. CASE AddFails \/ BeginFails
    BY <1>9, AddFailsOK, Kept DEF BeginFails, xrefVars
  <1>10. ASSUME NEW x \in Num, NEW moved \in BOOLEAN, AlterFails(x, moved) PROVE Goal
    BY <1>10, AlterFailsOK
  <1>11. CASE Push \/ EnsureLocal \/ Pop \/ PopAndDiscard \/ LocalAdd
    BY <1>11, Kept DEF Push, EnsureLocal, Pop, PopAndDiscard, LocalAdd, xrefVars
  <1>12. ASSUME NEW x \in Num, LocalAlter(x) PROVE Goal
    BY <1>12, LocalAlterOK
  <1>13. CASE Sign
    BY <1>13, SignOK
  <1>14. CASE Snapshot \/ SnapshotAsStream
    BY <1>14, SnapshotOK, SnapshotAsStreamOK
  <1>15. CASE Reopen
    BY <1>15, ReopenOK
  <1>16. CASE UNCHANGED vars
    BY <1>16, Kept DEF vars, xrefVars
  <1>. QED
    BY <1>1, <1>2, <1>3, <1>4, <1>5, <1>6, <1>7, <1>8, <1>9, <1>10, <1>11, <1>12,
       <1>13, <1>14, <1>15, <1>16 DEF Next

LEMMA Invariance == Spec => []IInv
  <1>1. IInv /\ [Next]_vars => IInv'
    BY StepOK DEF Goal
  <1>. QED
    BY <1>1, InitInv, PTL DEF Spec

\* pdf_xref_ensure_incremental_object and the lookups that start at the index
\* find the newest value of every object, for documents of any size and any
\* sequence of changes, undos, signatures and crashes.
THEOREM IndexIsCurrent == Spec => []IndexCurrent
  <1>1. IInv => IndexCurrent
    <2>. SUFFICES ASSUME IInv, NEW x \in Num, FindFrom(sections, x, 1) # 0
                  PROVE  index[x] <= FindFrom(sections, x, 1)
      BY DEF IndexCurrent
    <2>1. /\ FindFrom(sections, x, 1) \in 1 .. Len(sections)
          /\ sections[FindFrom(sections, x, 1)][x].type # "none"
      BY FindProperties DEF IInv, Tables, Layered
    <2>. QED
      BY <2>1 DEF IInv, IndexFits
  <1>. QED
    BY <1>1, Invariance, PTL

\* What was signed stays as it was signed, for documents of any size with any
\* number of signatures: ensure_incremental_xref opens a new section before
\* anything is changed, by an alteration, an undo or a redo.
THEOREM SignaturesStay == Spec => SignedFrozen
  <1>1. IInv /\ [Next]_vars => [FrozenStep]_vars
    BY StepOK DEF Goal
  <1>. QED
    BY <1>1, Invariance, PTL DEF Spec, SignedFrozen, FrozenStep

-----------------------------------------------------------------------------
(***************************************************************************)
(* The types, and that a list of fragments mentions an object once.        *)
(*                                                                         *)
(* An object that is added has the next number: an open operation mentions *)
(* no number yet to come (Operation), as no section defines one (Below).   *)
(* That a document which is saved without its changes needs the numbers of *)
(* the file only is a fact about its last section, which never changes.    *)
(***************************************************************************)
\* Lists of fragments, each for another object, with numbers up to n.
Lists(n) == {f \in Seq(Fragment) : Once(f) /\ \A i \in DOMAIN f : f[i].num <= n}

Row == [Num -> Entry]
Below(row, n) == \A x \in Num : row[x].type # "none" => x <= n

\* A document's sections, n of them incremental, with numbers up to len.
DocSound(secs, n, len) ==
    /\ secs \in Seq(Row) /\ Len(secs) \in 1 .. MaxSections
    /\ n \in Nat /\ Len(secs) = n + 1
    /\ len \in FileLen .. MaxNum
    /\ \A i \in 1 .. Len(secs) : Below(secs[i], IF i = Len(secs) THEN FileLen ELSE len)

\* The history and the position in it.
HistorySound(h, c) ==
    h \in Seq(Lists(MaxNum)) /\ Len(h) <= MaxHistory /\ c \in 0 .. Len(h)

\* What an open operation has recorded is of objects that exist.
Operation(n) == [named : BOOLEAN, frags : Lists(n)]

\* The local cross reference.
LocalSound ==
    /\ local = <<>> \/ local \in [Num -> {Absent, Used(Appearance)}]
    /\ localLen \in 0 .. MaxNum /\ localNesting \in {0, 1}

OpenSound ==
    /\ journal \in BOOLEAN
    /\ nesting \in 0 .. MaxNesting /\ lost \in 0 .. nesting
    /\ Len(pending) \in nesting - lost .. nesting
    /\ pending \in Seq(Operation(xrefLen))

\* What Reopen takes.
FileSound ==
    /\ DocSound(file.sections, file.incs, file.xrefLen)
    /\ file.journal \in BOOLEAN
    /\ HistorySound(file.history, file.current)

\* The document as it is.
NowSound ==
    /\ DocSound(sections, incs, xrefLen)
    /\ signed \in Seq(BOOLEAN) /\ Len(signed) = Len(sections)
    /\ index \in [Num -> 1 .. Len(sections)]

\* What every call keeps.
CallInv ==
    NowSound /\ LocalSound /\ OpenSound /\ HistorySound(history, current) /\ FileSound

-----------------------------------------------------------------------------
(* Lists of fragments. *)

\* The bounds.
LEMMA BoundsKnown ==
  /\ FileLen \in Nat /\ MaxNum \in Nat /\ FileLen <= MaxNum
  /\ MaxNesting \in Nat /\ MaxHistory \in Nat /\ MaxSections \in Nat \ {0}
  BY JournalAssumption

\* What a list of fragments is, position by position ...
LEMMA ListProperties ==
  ASSUME NEW n \in Int, NEW f \in Lists(n)
  PROVE  /\ f \in Seq(Fragment) /\ Len(f) \in Nat /\ DOMAIN f = 1 .. Len(f)
         /\ \A i \in 1 .. Len(f) :
               /\ f[i] \in Fragment /\ f[i].num <= n /\ f[i].num \in Num
               /\ \A j \in 1 .. Len(f) : f[i].num = f[j].num => i = j
  <1>1. f \in Seq(Fragment) /\ Once(f) /\ \A i \in DOMAIN f : f[i].num <= n
    BY DEF Lists
  <1>2. Len(f) \in Nat /\ DOMAIN f = 1 .. Len(f) /\ \A i \in 1 .. Len(f) : f[i] \in Fragment
    BY <1>1, LenProperties, ElementOfSeq
  <1>3. \A g \in Fragment : g.num \in Num
    BY DEF Fragment
  <1>. QED
    BY <1>1, <1>2, <1>3 DEF Once

\* ... and that this makes it one.
LEMMA IsList ==
  ASSUME NEW n \in Int, NEW f \in Seq(Fragment),
         \A i \in 1 .. Len(f) : f[i].num <= n,
         \A i, j \in 1 .. Len(f) : f[i].num = f[j].num => i = j
  PROVE  f \in Lists(n)
  <1>1. DOMAIN f = 1 .. Len(f)
    BY LenProperties
  <1>. QED
    BY <1>1 DEF Lists, Once

\* Room for more numbers.
LEMMA ListsGrow ==
  ASSUME NEW m \in Int, NEW n \in Int, m <= n PROVE Lists(m) \subseteq Lists(n)
  <1>. SUFFICES ASSUME NEW f \in Lists(m) PROVE f \in Lists(n)
    OBVIOUS
  <1>1. \A i \in 1 .. Len(f) : f[i].num \in Int
    BY ListProperties, BoundsKnown DEF Num
  <1>. QED
    BY <1>1, ListProperties, IsList

\* An operation begins with the empty list.
LEMMA NoFragments == ASSUME NEW n \in Int PROVE <<>> \in Lists(n)
  <1>1. <<>> \in Seq(Fragment) /\ Len(<<>>) = 0
    BY EmptySeq
  <1>2. \A i \in 1 .. Len(<<>>) : FALSE
    BY <1>1
  <1>. QED
    BY <1>1, <1>2, IsList

\* An object not yet mentioned is added to a list.
LEMMA Added ==
  ASSUME NEW n \in Int, NEW f \in Lists(n), NEW g \in Fragment,
         g.num <= n, ~Mentions(f, g.num)
  PROVE  Append(f, g) \in Lists(n)
  <1>1. /\ f \in Seq(Fragment) /\ Len(f) \in Nat /\ DOMAIN f = 1 .. Len(f)
        /\ \A i \in 1 .. Len(f) : /\ f[i].num <= n
               /\ \A j \in 1 .. Len(f) : f[i].num = f[j].num => i = j
    BY ListProperties
  <1>2. PICK r : r = Append(f, g)
    OBVIOUS
  <1>3. /\ r \in Seq(Fragment) /\ Len(r) = Len(f) + 1
        /\ \A i \in 1 .. Len(f) : r[i] = f[i]
        /\ r[Len(f) + 1] = g
    BY <1>1, <1>2, AppendProperties
  <1>4. \A i \in 1 .. Len(r) : i \in 1 .. Len(f) \/ i = Len(f) + 1
    BY <1>1, <1>3
  <1>5. \A i \in 1 .. Len(f) : f[i].num # g.num
    BY <1>1 DEF Mentions
  <1>6. \A i \in 1 .. Len(r) : r[i].num <= n
    BY <1>1, <1>3, <1>4
  <1>7. \A i, j \in 1 .. Len(r) : r[i].num = r[j].num => i = j
    BY <1>1, <1>3, <1>4, <1>5
  <1>8. r \in Lists(n)
    BY <1>3, <1>6, <1>7, IsList
  <1>. QED
    BY <1>2, <1>8

\* Two lists with no object in common, one after the other.
LEMMA Joined ==
  ASSUME NEW n \in Int, NEW f \in Lists(n), NEW g \in Lists(n),
         \A i \in 1 .. Len(g) : ~Mentions(f, g[i].num)
  PROVE  f \o g \in Lists(n)
  <1>1. /\ f \in Seq(Fragment) /\ Len(f) \in Nat /\ DOMAIN f = 1 .. Len(f)
        /\ \A i \in 1 .. Len(f) : /\ f[i].num <= n
               /\ \A j \in 1 .. Len(f) : f[i].num = f[j].num => i = j
    BY ListProperties
  <1>2. /\ g \in Seq(Fragment) /\ Len(g) \in Nat
        /\ \A i \in 1 .. Len(g) : /\ g[i].num <= n
               /\ \A j \in 1 .. Len(g) : g[i].num = g[j].num => i = j
    BY ListProperties
  <1>3. PICK r : r = f \o g
    OBVIOUS
  <1>4. /\ r \in Seq(Fragment) /\ Len(r) = Len(f) + Len(g)
        /\ \A i \in 1 .. Len(f) + Len(g) : r[i] = IF i <= Len(f) THEN f[i] ELSE g[i - Len(f)]
    BY <1>1, <1>2, <1>3, ConcatProperties
  <1>5. \A i \in 1 .. Len(r) : \/ i \in 1 .. Len(f) /\ r[i] = f[i]
                               \/ /\ i - Len(f) \in 1 .. Len(g) /\ r[i] = g[i - Len(f)]
    BY <1>1, <1>2, <1>4
  <1>6. \A i \in 1 .. Len(f) : \A j \in 1 .. Len(g) : f[i].num # g[j].num
    BY <1>1 DEF Mentions
  <1>7. \A i \in 1 .. Len(r) : r[i].num <= n
    BY <1>1, <1>2, <1>5
  <1>8. ASSUME NEW i \in 1 .. Len(r), NEW j \in 1 .. Len(r), r[i].num = r[j].num
        PROVE  i = j
    <2>1. CASE i \in 1 .. Len(f) /\ r[i] = f[i]
      <3>1. j \in 1 .. Len(f) /\ r[j] = f[j]
        BY <1>5, <1>6, <1>8, <2>1
      <3>. QED
        BY <1>1, <1>8, <2>1, <3>1
    <2>2. CASE i - Len(f) \in 1 .. Len(g) /\ r[i] = g[i - Len(f)]
      <3>1. j - Len(f) \in 1 .. Len(g) /\ r[j] = g[j - Len(f)]
        BY <1>5, <1>6, <1>8, <2>2
      <3>2. i - Len(f) = j - Len(f)
        BY <1>2, <1>8, <2>2, <3>1
      <3>. QED
        BY <1>1, <1>4, <3>2
    <2>. QED
      BY <1>5, <2>1, <2>2
  <1>9. r \in Lists(n)
    BY <1>4, <1>7, <1>8, IsList
  <1>. QED
    BY <1>3, <1>9

\* What Resolve keeps of the second list: fragments of that list, in its order,
\* each at one place.
LEMMA KeptProperties ==
  ASSUME NEW k \in Nat, NEW kept \in SUBSET (1 .. k)
  PROVE  \E N \in Nat : N = Cardinality(kept) /\ \E pos \in [1 .. N -> kept] :
            /\ \A m \in 1 .. N :
                  pos[m] = CHOOSE i \in kept : Cardinality({j \in kept : j <= i}) = m
            /\ \A l, m \in 1 .. N : pos[l] = pos[m] => l = m
  <1>. DEFINE upTo(i) == {j \in kept : j <= i}
              N == Cardinality(kept)
              rank == [i \in kept |-> Cardinality(upTo(i))]
              pos == [m \in 1 .. N |-> CHOOSE i \in kept : Cardinality(upTo(i)) = m]
  <1>1. IsFiniteSet(kept) /\ N \in Nat
    <2>1. IsFiniteSet(1 .. k)
      BY FS_Interval
    <2>2. IsFiniteSet(kept)
      BY <2>1, FS_Subset
    <2>. QED
      BY <2>2, FS_CardinalityType
  <1>2. \A i \in kept : IsFiniteSet(upTo(i)) /\ rank[i] \in 1 .. N
    <2>1. SUFFICES ASSUME NEW i \in kept PROVE IsFiniteSet(upTo(i)) /\ rank[i] \in 1 .. N
      OBVIOUS
    <2>2. upTo(i) \in SUBSET kept /\ i \in upTo(i)
      OBVIOUS
    <2>3. IsFiniteSet(upTo(i)) /\ Cardinality(upTo(i)) <= N
      BY <1>1, <2>2, FS_Subset
    <2>4. Cardinality(upTo(i)) \in Nat /\ Cardinality(upTo(i)) # 0
      BY <2>2, <2>3, FS_EmptySet, FS_CardinalityType
    <2>. QED
      BY <1>1, <2>3, <2>4
  <1>3. \A i, l \in kept : i < l => rank[i] # rank[l]
    <2>1. SUFFICES ASSUME NEW i \in kept, NEW l \in kept, i < l, rank[i] = rank[l] PROVE FALSE
      OBVIOUS
    <2>2. upTo(i) \in SUBSET upTo(l) /\ l \in upTo(l) /\ l \notin upTo(i)
      <3>1. i < l /\ kept \in SUBSET Int
        BY <2>1
      <3>2. \A j \in kept : j <= i => j <= l
        BY ONLY <3>1, i \in kept, l \in kept
      <3>3. i <= i /\ l <= l /\ ~(l <= i)
        BY ONLY <3>1, i \in kept, l \in kept
      <3>. QED
        BY <3>2, <3>3
    <2>3. Cardinality(upTo(l)) = Cardinality(upTo(i))
      BY <2>1
    <2>4. upTo(l) = upTo(i)
      BY <1>2, <2>2, <2>3, FS_Subset
    <2>. QED
      BY <2>2, <2>4
  <1>4. \A i, l \in kept : rank[i] = rank[l] => i = l
    <2>1. SUFFICES ASSUME NEW i \in kept, NEW l \in kept, rank[i] = rank[l] PROVE i = l
      OBVIOUS
    <2>2. i < l \/ l < i \/ i = l
      OBVIOUS
    <2>. QED
      BY <1>3, <2>1, <2>2
  <1>5. \A m \in 1 .. N : \E i \in kept : rank[i] = m
    <2>1. rank \in Injection(kept, 1 .. N)
      BY <1>2, <1>4 DEF Injection, IsInjective
    <2>2. IsFiniteSet(1 .. N) /\ Cardinality(1 .. N) = N
      BY <1>1, FS_Interval
    <2>3. rank \in Surjection(kept, 1 .. N)
      BY <1>1, <2>1, <2>2, FS_Injection
    <2>. QED
      BY <2>3 DEF Surjection
  <1>6. \A m \in 1 .. N : pos[m] \in kept /\ rank[pos[m]] = m
    BY <1>5
  <1>7. \A l, m \in 1 .. N : pos[l] = pos[m] => l = m
    <2>. HIDE DEF rank, pos
    <2>. QED
      BY <1>6
  <1>8. pos \in [1 .. N -> kept]
    BY <1>6
  <1>9. \A m \in 1 .. N : pos[m] = CHOOSE i \in kept : Cardinality({j \in kept : j <= i}) = m
    OBVIOUS
  <1>. HIDE DEF pos, rank, upTo
  <1>10. \E p \in [1 .. N -> kept] :
            /\ \A m \in 1 .. N :
                  p[m] = CHOOSE i \in kept : Cardinality({j \in kept : j <= i}) = m
            /\ \A l, m \in 1 .. N : p[l] = p[m] => l = m
    BY Zenon, <1>7, <1>8, <1>9
  <1>. QED
    BY Zenon, <1>1, <1>10

\* resolve_undo leaves every object mentioned once.
LEMMA ResolveIs ==
  ASSUME NEW n \in Int, NEW f \in Lists(n), NEW g \in Lists(n)
  PROVE  Resolve(f, g) \in Lists(n)
  <1>. DEFINE kept == {i \in DOMAIN g : NotMentioned(f, g[i])}
  <1>1. /\ g \in Seq(Fragment) /\ Len(g) \in Nat /\ DOMAIN g = 1 .. Len(g)
        /\ \A i \in 1 .. Len(g) : /\ g[i] \in Fragment /\ g[i].num <= n
               /\ \A j \in 1 .. Len(g) : g[i].num = g[j].num => i = j
    BY ListProperties
  <1>2. kept \in SUBSET (1 .. Len(g))
    BY <1>1
  <1>3. PICK N \in Nat : N = Cardinality(kept) /\ \E pos \in [1 .. N -> kept] :
            /\ \A m \in 1 .. N :
                  pos[m] = CHOOSE i \in kept : Cardinality({j \in kept : j <= i}) = m
            /\ \A l, m \in 1 .. N : pos[l] = pos[m] => l = m
    <2>. HIDE DEF kept
    <2>. QED
      BY ZenonT(40), <1>1, <1>2, KeptProperties
  <1>4. PICK pos \in [1 .. N -> kept] :
            /\ \A m \in 1 .. N :
                  pos[m] = CHOOSE i \in kept : Cardinality({j \in kept : j <= i}) = m
            /\ \A l, m \in 1 .. N : pos[l] = pos[m] => l = m
    BY <1>3
  <1>5. PICK s : s = [m \in 1 .. N |-> g[pos[m]]]
    OBVIOUS
  <1>6. Resolve(f, g) = f \o s
    <2>1. s = [m \in 1 .. Cardinality(kept) |->
                  g[CHOOSE i \in kept : Cardinality({j \in kept : j <= i}) = m]]
      <3>. HIDE DEF kept
      <3>. QED
        BY <1>3, <1>4, <1>5
    <2>. QED
      BY <2>1 DEF Resolve
  <1>7. \A m \in 1 .. N : pos[m] \in 1 .. Len(g) /\ s[m] = g[pos[m]]
    BY <1>1, <1>4, <1>5
  <1>8. s \in Seq(Fragment) /\ Len(s) = N
    <2>1. s \in [1 .. N -> Fragment]
      BY <1>1, <1>5, <1>7
    <2>. QED
      BY <2>1
  <1>9. \A m \in 1 .. N : s[m].num <= n
    BY <1>1, <1>7
  <1>10. \A l, m \in 1 .. N : s[l].num = s[m].num => l = m
    BY <1>1, <1>4, <1>7
  <1>11. s \in Lists(n)
    BY <1>8, <1>9, <1>10, IsList
  <1>12. \A m \in 1 .. Len(s) : ~Mentions(f, s[m].num)
    BY <1>4, <1>5, <1>8 DEF NotMentioned
  <1>. QED
    BY <1>6, <1>11, <1>12, Joined

-----------------------------------------------------------------------------
(* swap_fragments *)

\* What a fragment meets is an entry.
LEMMA MetIs ==
  ASSUME NEW table \in Row, NEW f \in Seq(Fragment), NEW x \in Num, NEW i
  PROVE  Met(table, f, x, i) \in Entry
  <1>. DEFINE earlier == {j \in DOMAIN f : j < i /\ f[j].num = x}
              last == CHOOSE j \in earlier : \A k \in earlier : k <= j
  <1>1. DOMAIN f = 1 .. Len(f) /\ Len(f) \in Nat
    BY LenProperties
  <1>2. CASE earlier = {}
    BY <1>2 DEF Met, Row
  <1>3. CASE earlier # {}
    <2>. DEFINE F == {Len(f) - j : j \in earlier}
    <2>1. F \in SUBSET Nat /\ F # {}
      BY <1>1, <1>3
    <2>2. PICK m \in F : \A k \in F : m <= k
      <3>. HIDE DEF F
      <3>. QED
        BY <2>1, First
    <2>3. PICK j \in earlier : m = Len(f) - j
      BY <2>2
    <2>4. \A k \in earlier : k <= j
      <3>. SUFFICES ASSUME NEW k \in earlier PROVE k <= j
        OBVIOUS
      <3>1. Len(f) - k \in F /\ j \in 1 .. Len(f) /\ k \in 1 .. Len(f)
        BY <1>1
      <3>2. Len(f) - j <= Len(f) - k
        BY <2>2, <2>3, <3>1
      <3>. QED
        BY <1>1, <3>1, <3>2
    <2>5. last \in earlier
      <3>. HIDE DEF earlier
      <3>. QED
        BY <2>4
    <2>6. f[last] \in Fragment
      BY <1>1, <2>5, ElementOfSeq
    <2>7. Put(f[last]) \in Entry
      <3>. HIDE DEF last
      <3>. QED
        BY <2>6 DEF Put, Fragment, Entry
    <2>8. Met(table, f, x, i) = Put(f[last])
      BY <1>3 DEF Met
    <2>. QED
      BY <2>7, <2>8
  <1>. QED
    BY <1>2, <1>3

\* So the section it leaves is a section,
LEMMA SwapTableIs ==
  ASSUME NEW table \in Row, NEW f \in Seq(Fragment)
  PROVE  SwapTable(table, f) \in Row
  <1>1. \A x \in Num : Met(table, f, x, Len(f) + 1) \in Entry
    BY MetIs
  <1>. QED
    BY <1>1 DEF SwapTable, Row

\* and the list it leaves is a list of the same objects.
LEMMA SwapFragsIs ==
  ASSUME NEW n \in Int, NEW table \in Row, NEW f \in Lists(n)
  PROVE  SwapFrags(table, f) \in Lists(n)
  <1>1. /\ f \in Seq(Fragment) /\ Len(f) \in Nat /\ DOMAIN f = 1 .. Len(f)
        /\ \A i \in 1 .. Len(f) : /\ f[i].num <= n /\ f[i].num \in Num
               /\ \A j \in 1 .. Len(f) : f[i].num = f[j].num => i = j
    BY ListProperties
  <1>2. PICK r : r = SwapFrags(table, f)
    OBVIOUS
  <1>3. \A i \in 1 .. Len(f) : r[i] \in Fragment /\ r[i].num = f[i].num
    <2>. SUFFICES ASSUME NEW i \in 1 .. Len(f)
                  PROVE  r[i] \in Fragment /\ r[i].num = f[i].num
      OBVIOUS
    <2>1. PICK old : old = Met(table, f, f[i].num, i)
      OBVIOUS
    <2>2. old \in Entry
      BY <1>1, <2>1, MetIs
    <2>3. old.obj \in Val \cup {Null}
      BY <2>2 DEF Entry
    <2>4. r[i] = [num |-> f[i].num, new |-> old.type = "none", obj |-> old.obj]
      BY <1>1, <1>2, <2>1 DEF SwapFrags
    <2>5. (old.type = "none") \in BOOLEAN
      OBVIOUS
    <2>6. [num |-> f[i].num, new |-> old.type = "none", obj |-> old.obj] \in Fragment
      BY Zenon, <1>1, <2>3, <2>5 DEF Fragment
    <2>. QED
      BY <2>4, <2>6
  <1>4. r \in Seq(Fragment) /\ Len(r) = Len(f)
    <2>1. DOMAIN r = 1 .. Len(f)
      BY <1>1, <1>2 DEF SwapFrags
    <2>2. r = [i \in 1 .. Len(f) |-> r[i]]
      BY <1>1, <1>2, <2>1 DEF SwapFrags
    <2>3. r \in [1 .. Len(f) -> Fragment]
      BY <1>3, <2>2
    <2>. QED
      BY <1>1, <2>3
  <1>5. r \in Lists(n)
    BY <1>1, <1>3, <1>4, IsList
  <1>. QED
    BY <1>2, <1>5

\* What pdf_serialise_journal writes of a list is one.
LEMMA SerialisedIs ==
  ASSUME NEW n \in Int, NEW f \in Lists(n) PROVE Serialised(f) \in Lists(n)
  <1>1. /\ f \in Seq(Fragment) /\ Len(f) \in Nat /\ DOMAIN f = 1 .. Len(f)
        /\ \A i \in 1 .. Len(f) : /\ f[i] \in Fragment /\ f[i].num <= n
               /\ \A j \in 1 .. Len(f) : f[i].num = f[j].num => i = j
    BY ListProperties
  <1>2. PICK r : r = Serialised(f)
    OBVIOUS
  <1>3. \A i \in 1 .. Len(f) : r[i] \in Fragment /\ r[i].num = f[i].num
    <2>. SUFFICES ASSUME NEW i \in 1 .. Len(f)
                  PROVE  r[i] \in Fragment /\ r[i].num = f[i].num
      OBVIOUS
    <2>1. r[i] = IF f[i].new THEN [f[i] EXCEPT !.obj = Null] ELSE f[i]
      BY <1>1, <1>2 DEF Serialised
    <2>2. [f[i] EXCEPT !.obj = Null] \in Fragment /\ [f[i] EXCEPT !.obj = Null].num = f[i].num
      BY <1>1 DEF Fragment
    <2>. QED
      BY <1>1, <2>1, <2>2
  <1>4. r \in Seq(Fragment) /\ Len(r) = Len(f)
    <2>1. r = [i \in 1 .. Len(f) |-> r[i]]
      BY <1>1, <1>2 DEF Serialised
    <2>2. r \in [1 .. Len(f) -> Fragment]
      BY <1>3, <2>1
    <2>. QED
      BY <1>1, <2>2
  <1>5. r \in Lists(n)
    BY <1>1, <1>3, <1>4, IsList
  <1>. QED
    BY <1>2, <1>5

\* The largest number a list mentions, or len if that is larger.
LEMMA Largest ==
  ASSUME NEW f \in Lists(MaxNum), f # <<>>, NEW len \in 0 .. MaxNum,
         NEW m, m = (CHOOSE n \in Num : /\ n >= len
                                        /\ \A i \in DOMAIN f : n >= f[i].num
                                        /\ n = len \/ Mentions(f, n))
  PROVE  m \in len .. MaxNum /\ \A x \in Num : Mentions(f, x) => x <= m
  <1>. DEFINE P(n) == /\ n >= len
                      /\ \A i \in DOMAIN f : n >= f[i].num
                      /\ n = len \/ Mentions(f, n)
  <1>0. m = CHOOSE n \in Num : P(n)
    OBVIOUS
  <1>1. /\ f \in Seq(Fragment) /\ Len(f) \in Nat /\ DOMAIN f = 1 .. Len(f)
        /\ \A i \in 1 .. Len(f) : f[i].num <= MaxNum /\ f[i].num \in Num
    BY BoundsKnown, ListProperties
  <1>2. 1 \in 1 .. Len(f) /\ MaxNum \in Nat
    BY <1>1, BoundsKnown, EmptySeq
  <1>. DEFINE F == {n \in Num : n >= len /\ \A i \in DOMAIN f : n >= f[i].num}
  <1>3. f[1].num \in 1 .. MaxNum
    BY <1>1, <1>2 DEF Num
  <1>4. MaxNum \in F /\ F \in SUBSET Nat
    BY <1>1, <1>2, <1>3 DEF Num
  <1>5. PICK l \in F : \A k \in F : l <= k
    <2>. HIDE DEF F
    <2>. QED
      BY <1>4, First
  <1>6. l = len \/ Mentions(f, l)
    <2>. SUFFICES ASSUME l # len, ~Mentions(f, l) PROVE FALSE
      OBVIOUS
    <2>1. \A i \in 1 .. Len(f) : f[i].num \in 1 .. MaxNum /\ l - 1 >= f[i].num
      BY <1>1, <1>4, <1>5 DEF Mentions, Num
    <2>2. l - 1 \in Num /\ l - 1 >= len
      BY <1>2, <1>5, <2>1 DEF Num
    <2>3. l - 1 \in F
      BY <1>1, <2>1, <2>2
    <2>. QED
      BY <1>4, <1>5, <2>3
  <1>7. \E n \in Num : P(n)
    BY <1>5, <1>6
  <1>8. m \in Num /\ P(m)
    <2>. HIDE DEF P
    <2>. QED
      BY <1>0, <1>7
  <1>9. m \in len .. MaxNum
    BY <1>8 DEF Num
  <1>10. \A x \in Num : Mentions(f, x) => x <= m
    BY <1>8, <1>9 DEF Mentions, Num
  <1>. QED
    BY <1>9, <1>10

-----------------------------------------------------------------------------
(* The document. *)

\* The section that takes changes has been ensured.
LEMMA IncrementIs ==
  ASSUME NowSound, EnsureIncrement
  PROVE  /\ WithIncrement \in Seq(Row)
         /\ Len(WithIncrement) \in 2 .. MaxSections
         /\ incs' \in Nat /\ Len(WithIncrement) = incs' + 1
         /\ signed' \in Seq(BOOLEAN) /\ Len(signed') = Len(WithIncrement)
         /\ IndexWithIncrement \in [Num -> 1 .. Len(WithIncrement)]
         /\ \A i \in 1 .. Len(WithIncrement) :
               Below(WithIncrement[i], IF i = Len(WithIncrement) THEN FileLen ELSE xrefLen)
  <1>. DEFINE n == Len(sections)
  <1>1. /\ sections \in Seq(Row) /\ n \in 1 .. MaxSections /\ n = incs + 1 /\ incs \in Nat
        /\ \A i \in 1 .. n : Below(sections[i], IF i = n THEN FileLen ELSE xrefLen)
        /\ signed \in Seq(BOOLEAN) /\ Len(signed) = n
        /\ index \in [Num -> 1 .. n]
    BY DEF NowSound, DocSound
  <1>2. /\ NeedsSection => n < MaxSections
        /\ signed' = IF NeedsSection THEN <<FALSE>> \o signed ELSE signed
        /\ incs' = IF NeedsSection THEN incs + 1 ELSE incs
    BY DEF EnsureIncrement
  <1>3. CASE NeedsSection
    <2>1. Empty \in Row
      BY DEF Empty, Row, Absent, Entry
    <2>2. PICK w : w = <<Empty>> \o sections
      OBVIOUS
    <2>3. <<Empty>> \in Seq(Row) /\ Len(<<Empty>>) = 1 /\ <<Empty>>[1] = Empty
      <3>. HIDE DEF Empty, Row
      <3>. QED
        BY <2>1
    <2>4. /\ w \in Seq(Row) /\ Len(w) = n + 1
          /\ w[1] = Empty /\ \A i \in 2 .. n + 1 : w[i] = sections[i - 1]
      <3>1. /\ w \in Seq(Row) /\ Len(w) = Len(<<Empty>>) + n
            /\ \A i \in 1 .. Len(<<Empty>>) + n :
                  w[i] = IF i <= Len(<<Empty>>) THEN <<Empty>>[i] ELSE sections[i - Len(<<Empty>>)]
        <4>. HIDE DEF Empty
        <4>. QED
          BY <1>1, <2>2, <2>3, ConcatProperties
      <3>. HIDE DEF Empty
      <3>. QED
        BY <1>1, <2>3, <3>1
    <2>5. WithIncrement = w
      BY <1>3, <2>2 DEF WithIncrement
    <2>6. \A i \in 1 .. Len(w) : Below(w[i], IF i = Len(w) THEN FileLen ELSE xrefLen)
      <3>1. Below(Empty, FileLen) /\ Below(Empty, xrefLen)
        BY DEF Below, Empty, Absent
      <3>2. \A i \in 1 .. Len(w) :
               i = 1 \/ (i \in 2 .. n + 1 /\ i - 1 \in 1 .. n /\ (i - 1 = n <=> i = Len(w)))
        BY <1>1, <2>4
      <3>. QED
        BY <1>1, <2>4, <3>1, <3>2
    <2>7. signed' \in Seq(BOOLEAN) /\ Len(signed') = n + 1
      <3>1. <<FALSE>> \in Seq(BOOLEAN) /\ Len(<<FALSE>>) = 1
        OBVIOUS
      <3>2. <<FALSE>> \o signed \in Seq(BOOLEAN) /\ Len(<<FALSE>> \o signed) = 1 + n
        BY SMTT(40), <1>1, <3>1, ConcatProperties
      <3>. QED
        BY <1>1, <1>2, <1>3, <3>2
    <2>8. IndexWithIncrement \in [Num -> 1 .. n + 1]
      BY <1>1, <1>3 DEF IndexWithIncrement
    <2>9. n + 1 \in 2 .. MaxSections /\ incs' = n /\ n \in Nat
      BY <1>1, <1>2, <1>3, BoundsKnown
    <2>. QED
      BY <2>4, <2>5, <2>6, <2>7, <2>8, <2>9
  <1>4. CASE ~NeedsSection
    <2>1. WithIncrement = sections /\ IndexWithIncrement = index
      BY <1>4 DEF WithIncrement, IndexWithIncrement
    <2>2. incs # 0
      BY <1>4 DEF NeedsSection
    <2>3. n \in 2 .. MaxSections
      BY <1>1, <2>2, BoundsKnown
    <2>. QED
      BY <1>1, <1>2, <1>4, <2>1, <2>3
  <1>. QED
    BY <1>3, <1>4

\* The first section, which is never the one from the file.
LEMMA FirstRow ==
  ASSUME NowSound, EnsureIncrement
  PROVE  /\ WithIncrement \in Seq(Row) /\ 1 \in 1 .. Len(WithIncrement)
         /\ 1 # Len(WithIncrement)
         /\ IndexWithIncrement \in [Num -> 1 .. Len(WithIncrement)]
         /\ Below(WithIncrement[1], xrefLen)
  <1>1. PICK w : w = WithIncrement
    OBVIOUS
  <1>2. /\ w \in Seq(Row) /\ Len(w) \in 2 .. MaxSections
        /\ IndexWithIncrement \in [Num -> 1 .. Len(w)]
        /\ \A i \in 1 .. Len(w) : Below(w[i], IF i = Len(w) THEN FileLen ELSE xrefLen)
    BY <1>1, IncrementIs
  <1>3. 1 \in 1 .. Len(w) /\ 1 # Len(w)
    BY <1>2, BoundsKnown
  <1>4. Below(w[1], xrefLen)
    BY <1>2, <1>3
  <1>. QED
    BY <1>1, <1>2, <1>3, <1>4

\* A change to the first section, and perhaps new numbers.
LEMMA Changes ==
  ASSUME NowSound, EnsureIncrement,
         sections' \in Seq(Row), Len(sections') = Len(WithIncrement),
         \A i \in 2 .. Len(WithIncrement) : sections'[i] = WithIncrement[i],
         xrefLen' \in xrefLen .. MaxNum, Below(sections'[1], xrefLen'),
         DOMAIN index' = Num, index' = [x \in Num |-> index'[x]],
         \A x \in Num : index'[x] \in {1, IndexWithIncrement[x]}
  PROVE  NowSound'
  <1>1. PICK w : w = WithIncrement
    OBVIOUS
  <1>2. /\ Len(w) \in 2 .. MaxSections
        /\ incs' \in Nat /\ Len(w) = incs' + 1
        /\ signed' \in Seq(BOOLEAN) /\ Len(signed') = Len(w)
        /\ IndexWithIncrement \in [Num -> 1 .. Len(w)]
        /\ \A i \in 1 .. Len(w) : Below(w[i], IF i = Len(w) THEN FileLen ELSE xrefLen)
    BY <1>1, IncrementIs
  <1>3. xrefLen \in FileLen .. MaxNum /\ FileLen \in Nat /\ MaxNum \in Nat /\ MaxSections \in Nat
    BY BoundsKnown DEF NowSound, DocSound
  <1>4. index' \in [Num -> 1 .. Len(w)]
    <2>1. \A x \in Num : index'[x] \in 1 .. Len(w)
      BY <1>2, <1>3
    <2>. QED
      BY <2>1
  <1>5. \A i \in 1 .. Len(w) : Below(sections'[i], IF i = Len(w) THEN FileLen ELSE xrefLen')
    <2>. SUFFICES ASSUME NEW i \in 1 .. Len(w)
                  PROVE  Below(sections'[i], IF i = Len(w) THEN FileLen ELSE xrefLen')
      OBVIOUS
    <2>1. CASE i = 1
      BY <1>2, <1>3, <2>1
    <2>2. CASE i # 1
      <3>1. i \in 2 .. Len(w) /\ sections'[i] = w[i]
        BY <1>1, <1>2, <1>3, <2>2
      <3>2. Below(w[i], IF i = Len(w) THEN FileLen ELSE xrefLen)
        BY <1>2
      <3>3. Num \subseteq Int
        BY DEF Num
      <3>. QED
        BY <1>3, <3>1, <3>2, <3>3 DEF Below
    <2>. QED
      BY <2>1, <2>2
  <1>6. xrefLen' \in FileLen .. MaxNum
    BY <1>3
  <1>7. Len(sections') = Len(w) /\ Len(w) \in 1 .. MaxSections
    BY <1>1, <1>2, <1>3
  <1>8. DocSound(sections', incs', xrefLen')
    BY <1>2, <1>5, <1>6, <1>7 DEF DocSound
  <1>. QED
    BY <1>2, <1>4, <1>7, <1>8 DEF NowSound

\* The first section is replaced.
LEMMA RowChanges ==
  ASSUME NowSound, EnsureIncrement, NEW row \in Row,
         sections' = [WithIncrement EXCEPT ![1] = row],
         xrefLen' \in xrefLen .. MaxNum, Below(row, xrefLen'),
         DOMAIN index' = Num, index' = [x \in Num |-> index'[x]],
         \A x \in Num : index'[x] \in {1, IndexWithIncrement[x]}
  PROVE  NowSound'
  <1>1. PICK w : w = WithIncrement
    OBVIOUS
  <1>2. w \in Seq(Row) /\ Len(w) \in 2 .. MaxSections
    BY <1>1, IncrementIs
  <1>3. PICK r : r = [w EXCEPT ![1] = row]
    OBVIOUS
  <1>4. 1 \in 1 .. Len(w) /\ MaxSections \in Nat
    BY <1>2, BoundsKnown
  <1>5. /\ r \in Seq(Row) /\ Len(r) = Len(w)
        /\ \A i \in 1 .. Len(w) : r[i] = IF i = 1 THEN row ELSE w[i]
    BY <1>2, <1>3, <1>4, ExceptSeq
  <1>6. sections' = r
    BY <1>1, <1>3
  <1>7. \A i \in 2 .. Len(w) : sections'[i] = w[i]
    BY <1>2, <1>4, <1>5, <1>6
  <1>8. sections'[1] = row
    BY <1>4, <1>5, <1>6
  <1>. QED
    BY <1>1, <1>5, <1>6, <1>7, <1>8, Changes

\* The object x is put into the first section.
LEMMA CellChanges ==
  ASSUME NowSound, EnsureIncrement, NEW x \in Num, NEW e \in Entry,
         sections' = [WithIncrement EXCEPT ![1] = [WithIncrement[1] EXCEPT ![x] = e]],
         index' = [IndexWithIncrement EXCEPT ![x] = 1],
         xrefLen' \in xrefLen .. MaxNum, x <= xrefLen'
  PROVE  NowSound'
  <1>1. PICK row : row = [WithIncrement[1] EXCEPT ![x] = e]
    OBVIOUS
  <1>2. /\ WithIncrement \in Seq(Row) /\ 1 \in 1 .. Len(WithIncrement)
        /\ 1 # Len(WithIncrement)
        /\ IndexWithIncrement \in [Num -> 1 .. Len(WithIncrement)]
        /\ Below(WithIncrement[1], xrefLen)
    BY FirstRow
  <1>3. WithIncrement[1] \in Row
    BY <1>2, ElementOfSeq
  <1>4. row \in Row /\ \A y \in Num : row[y] = IF y = x THEN e ELSE WithIncrement[1][y]
    BY <1>1, <1>3 DEF Row
  <1>5. Below(row, xrefLen')
    <2>1. xrefLen \in Int /\ xrefLen' \in Int /\ xrefLen <= xrefLen' /\ Num \subseteq Int
      BY BoundsKnown DEF NowSound, DocSound, Num
    <2>2. \A y \in Num : WithIncrement[1][y].type # "none" => y <= xrefLen
      BY <1>2 DEF Below
    <2>. QED
      BY <1>4, <2>1, <2>2 DEF Below
  <1>6. /\ DOMAIN index' = Num /\ index' = [y \in Num |-> index'[y]]
        /\ \A y \in Num : index'[y] \in {1, IndexWithIncrement[y]}
    BY <1>2
  <1>7. sections' = [WithIncrement EXCEPT ![1] = row]
    BY <1>1
  <1>. QED
    BY <1>4, <1>5, <1>6, <1>7, RowChanges

\* A number of an object in use.
LEMMA InUseIsNumbered ==
  ASSUME NowSound, NEW x \in Num, InUse(Lookup(sections, x))
  PROVE  x <= xrefLen
  <1>. DEFINE j == FindFrom(sections, x, 1)
  <1>1. sections \in Seq(Row)
    BY DEF NowSound, DocSound
  <1>2. Table(sections)
    BY <1>1 DEF Table, Row
  <1>3. j # 0
    BY DEF Lookup, InUse, Absent
  <1>4. j \in 1 .. Len(sections) /\ sections[j][x].type # "none"
    BY <1>2, <1>3, FindProperties
  <1>. HIDE DEF j
  <1>5. x <= (IF j = Len(sections) THEN FileLen ELSE xrefLen)
    BY <1>4 DEF NowSound, DocSound, Below
  <1>6. x \in Int /\ xrefLen \in Int /\ FileLen \in Int /\ FileLen <= xrefLen
    BY BoundsKnown DEF NowSound, DocSound, Num
  <1>. QED
    BY <1>5, <1>6

\* What is moved into the first section.
LEMMA WithObjectHas ==
  ASSUME NowSound, EnsureIncrement, NEW x \in Num
  PROVE  \/ WithObject(x) = WithIncrement
         \/ \E g \in Entry : WithObject(x) =
               [WithIncrement EXCEPT ![1] = [WithIncrement[1] EXCEPT ![x] = g]]
  <1>. DEFINE w == WithIncrement
              i == IndexWithIncrement[x]
              F == {j \in i .. Len(w) : w[j][x].type # "none"}
              h == Holder(x)
  <1>1. w \in Seq(Row) /\ Len(w) \in Nat /\ i \in 1 .. Len(w)
    BY IncrementIs, LenProperties
  <1>2. CASE ~WasEmpty(x)
    BY <1>2 DEF WithObject
  <1>3. CASE WasEmpty(x)
    <2>1. h = IF F = {} THEN 0 ELSE CHOOSE j \in F : \A k \in F : j <= k
      BY DEF Holder, FindFrom
    <2>2. F \in SUBSET Nat
      BY <1>1
    <2>3. F # {}
      BY <1>3, <2>1 DEF WasEmpty
    <2>4. h \in F
      <3>. HIDE DEF F
      <3>. QED
        BY <2>1, <2>2, <2>3, First
    <2>5. h \in 1 .. Len(w)
      BY <1>1, <2>4
    <2>6. w[h] \in Row
      <3>. HIDE DEF w, h
      <3>. QED
        BY <1>1, <2>5, ElementOfSeq
    <2>7. InSection(w[h][x]) \in Entry
      <3>1. w[h][x] \in Entry
        BY <2>6 DEF Row
      <3>. HIDE DEF w, h
      <3>2. [w[h][x] EXCEPT !.type = "n"] \in Entry
        BY <3>1 DEF Entry
      <3>. QED
        BY <3>1, <3>2 DEF InSection
    <2>8. WithObject(x) = [w EXCEPT ![1] = [w[1] EXCEPT ![x] = InSection(w[h][x])]]
      BY <1>3 DEF WithObject
    <2>. QED
      BY <2>7, <2>8
  <1>. QED
    BY <1>2, <1>3

\* The first section, with the object in it.
LEMMA AlteredChanges ==
  ASSUME NowSound, EnsureIncrement, NEW x \in Num, NEW v \in Val,
         sections' = [WithObject(x) EXCEPT ![1][x].obj = v],
         index' = [IndexWithIncrement EXCEPT ![x] = 1],
         xrefLen' \in xrefLen .. MaxNum, x <= xrefLen'
  PROVE  NowSound'
  <1>1. PICK w : w = WithIncrement
    OBVIOUS
  <1>2. PICK o : o = WithObject(x)
    OBVIOUS
  <1>3. w \in Seq(Row) /\ 1 \in 1 .. Len(w)
    BY <1>1, IncrementIs, BoundsKnown
  <1>4. w[1] \in Row /\ 1 \in DOMAIN w
    BY <1>3, ElementOfSeq, LenProperties
  <1>5. o = w \/ \E g \in Entry : o = [w EXCEPT ![1] = [w[1] EXCEPT ![x] = g]]
    BY <1>1, <1>2, WithObjectHas
  <1>6. \E g \in Entry : o[1][x] = g
    <2>1. w[1][x] \in Entry
      BY <1>4 DEF Row
    <2>. QED
      BY <1>4, <1>5, <2>1 DEF Row
  <1>7. PICK e : e = [o[1][x] EXCEPT !.obj = v]
    OBVIOUS
  <1>8. e \in Entry
    BY <1>6, <1>7 DEF Entry
  <1>9. [o EXCEPT ![1] = [o[1] EXCEPT ![x] = e]] = [w EXCEPT ![1] = [w[1] EXCEPT ![x] = e]]
    <2>1. CASE o = w
      BY <2>1
    <2>2. CASE \E g \in Entry : o = [w EXCEPT ![1] = [w[1] EXCEPT ![x] = g]]
      <3>1. PICK g \in Entry : o = [w EXCEPT ![1] = [w[1] EXCEPT ![x] = g]]
        BY <2>2
      <3>2. o[1] = [w[1] EXCEPT ![x] = g]
        BY <1>4, <3>1
      <3>3. [o[1] EXCEPT ![x] = e] = [w[1] EXCEPT ![x] = e]
        BY <1>4, <3>2 DEF Row
      <3>4. [o EXCEPT ![1] = [w[1] EXCEPT ![x] = e]] = [w EXCEPT ![1] = [w[1] EXCEPT ![x] = e]]
        BY <1>4, <3>1
      <3>. QED
        BY <3>3, <3>4
    <2>. QED
      BY <1>5, <2>1, <2>2
  <1>10. [o EXCEPT ![1][x].obj = v] = [o EXCEPT ![1] = [o[1] EXCEPT ![x] = e]]
    BY <1>7
  <1>11. sections' = [WithIncrement EXCEPT ![1] = [WithIncrement[1] EXCEPT ![x] = e]]
    BY <1>1, <1>2, <1>9, <1>10
  <1>. QED
    BY <1>8, <1>11, CellChanges

-----------------------------------------------------------------------------
(* Open operations and the history. *)

\* Room for more numbers in the open operations.
LEMMA OperationsGrow ==
  ASSUME NEW m \in Int, NEW n \in Int, m <= n, NEW p \in Seq(Operation(m))
  PROVE  p \in Seq(Operation(n))
  <1>1. Operation(m) \subseteq Operation(n)
    BY ListsGrow DEF Operation
  <1>. QED
    BY <1>1, SeqMonotonic

\* The innermost operation, and those around it.
LEMMA LastOperation ==
  ASSUME OpenSound, pending # <<>>
  PROVE  /\ xrefLen \in Int => Last(pending).frags \in Lists(xrefLen)
         /\ Last(pending) = pending[Len(pending)]
         /\ Len(pending) \in 1 .. Len(pending)
         /\ Front(pending) \in Seq(Operation(xrefLen))
         /\ Len(Front(pending)) = Len(pending) - 1
         /\ \A i \in 1 .. Len(pending) - 1 : Front(pending)[i] = pending[i]
  <1>. DEFINE n == Len(pending)
  <1>1. pending \in Seq(Operation(xrefLen))
    BY DEF OpenSound
  <1>2. n \in Nat \ {0}
    BY <1>1, EmptySeq, LenProperties
  <1>3. \A i \in 1 .. n : pending[i] \in Operation(xrefLen)
    BY <1>1, ElementOfSeq
  <1>4. pending[n].frags \in Lists(xrefLen)
    BY <1>2, <1>3 DEF Operation
  <1>5. PICK f : f = SubSeq(pending, 1, n - 1)
    OBVIOUS
  <1>6. \A i \in 1 .. n - 1 : pending[i] \in Operation(xrefLen)
    BY <1>2, <1>3
  <1>7. /\ f \in Seq(Operation(xrefLen)) /\ Len(f) = IF 1 <= n - 1 THEN n - 1 - 1 + 1 ELSE 0
        /\ \A i \in 1 .. n - 1 - 1 + 1 : f[i] = pending[1 + i - 1]
    BY <1>2, <1>5, <1>6, SubSeqProperties
  <1>8. Len(f) = n - 1 /\ \A i \in 1 .. n - 1 : f[i] = pending[i]
    <2>. HIDE DEF n
    <2>1. n - 1 - 1 + 1 = n - 1 /\ \A i \in 1 .. n - 1 : 1 + i - 1 = i
      BY <1>2
    <2>2. 1 <= n - 1 \/ n - 1 = 0
      BY <1>2
    <2>. QED
      BY <1>7, <2>1, <2>2
  <1>. QED
    BY <1>1, <1>2, <1>4, <1>5, <1>7, <1>8 DEF Last, Front

\* Who has begun an operation finds one open.
LEMMA BegunIsOpen ==
  ASSUME OpenSound, HasBegun
  PROVE  /\ pending # <<>> /\ nesting \in Nat /\ nesting > 0
         /\ nesting - 1 \in 0 .. MaxNesting /\ lost \in 0 .. nesting - 1
         /\ Len(pending) \in nesting - lost .. nesting
  <1>1. /\ nesting \in 0 .. MaxNesting /\ lost \in 0 .. nesting /\ nesting > lost
        /\ Len(pending) \in nesting - lost .. nesting
    BY DEF OpenSound, HasBegun
  <1>2. Len(pending) # 0 /\ nesting \in Nat /\ lost \in Nat
    BY <1>1, BoundsKnown
  <1>3. pending # <<>>
    BY <1>2, EmptySeq
  <1>. QED
    BY <1>1, <1>2, <1>3, BoundsKnown

\* pdf_add_journal_fragment: an object the operation has not mentioned.
LEMMA FragmentAdded ==
  ASSUME OpenSound, pending # <<>>, NEW n \in Int, xrefLen \in Int, xrefLen <= n,
         NEW x \in Num, x <= n, NEW new \in BOOLEAN, NEW obj \in Val \cup {Null},
         ~Mentions(Last(pending).frags, x), AddFragment(x, new, obj)
  PROVE  pending' \in Seq(Operation(n)) /\ Len(pending') = Len(pending)
  <1>1. PICK k, op, g, q : /\ k = Len(pending) /\ op = Last(pending)
                           /\ g = [num |-> x, new |-> new, obj |-> obj]
                           /\ q = [op EXCEPT !.frags = Append(op.frags, g)]
    OBVIOUS
  <1>2. pending \in Seq(Operation(n)) /\ k \in 1 .. Len(pending) /\ op = pending[k]
    BY <1>1, LastOperation, OperationsGrow DEF OpenSound
  <1>3. op \in Operation(n)
    BY <1>2, ElementOfSeq
  <1>4. g \in Fragment /\ g.num = x
    BY <1>1 DEF Fragment
  <1>5. op.frags \in Lists(n)
    BY <1>3 DEF Operation
  <1>6. Append(op.frags, g) \in Lists(n)
    BY <1>1, <1>4, <1>5, Added
  <1>7. q \in Operation(n)
    BY <1>1, <1>3, <1>6 DEF Operation
  <1>8. pending' = [pending EXCEPT ![k] = q]
    BY <1>1, <1>2 DEF AddFragment
  <1>. QED
    BY <1>2, <1>7, <1>8, ExceptSeq

\* The history up to the current entry.
LEMMA HistoryCut ==
  ASSUME NEW h, NEW c, HistorySound(h, c)
  PROVE  /\ HistorySound(SubSeq(h, 1, c), c) /\ Len(SubSeq(h, 1, c)) = c
         /\ c \in Nat
  <1>1. h \in Seq(Lists(MaxNum)) /\ Len(h) \in Nat /\ Len(h) <= MaxHistory /\ c \in 0 .. Len(h)
    BY LenProperties DEF HistorySound
  <1>2. \A i \in 1 .. c : h[i] \in Lists(MaxNum)
    BY <1>1, ElementOfSeq
  <1>3. PICK s : s = SubSeq(h, 1, c)
    OBVIOUS
  <1>4. s \in Seq(Lists(MaxNum)) /\ Len(s) = IF 1 <= c THEN c - 1 + 1 ELSE 0
    BY <1>1, <1>2, <1>3, SubSeqProperties
  <1>5. Len(s) = c /\ c <= MaxHistory
    BY <1>1, <1>4, BoundsKnown
  <1>. QED
    BY <1>1, <1>3, <1>4, <1>5 DEF HistorySound

\* What could be redone is forgotten.
LEMMA RedoDiscarded ==
  ASSUME HistorySound(history, current), DiscardRedo
  PROVE  HistorySound(history', current)
  BY HistoryCut DEF DiscardRedo

\* The local cross reference goes.
LEMMA LocalDropped == ASSUME LocalSound, DropLocal PROVE LocalSound'
  BY BoundsKnown DEF LocalSound, DropLocal

\* The largest object number.
LEMMA NumberKnown == ASSUME NowSound
  PROVE xrefLen \in FileLen .. MaxNum /\ xrefLen \in xrefLen .. MaxNum /\ xrefLen \in Int
        /\ xrefLen \in Nat
  BY BoundsKnown DEF NowSound, DocSound

-----------------------------------------------------------------------------
(* Changing the document. *)

\* The number of what is altered is not new; it is not mentioned yet.
LEMMA AlterSound == ASSUME CallInv, NEW x \in Num, NEW v \in Val, Alter(x, v) PROVE CallInv'
  <1>1. /\ NowSound /\ LocalSound /\ OpenSound /\ HistorySound(history, current) /\ FileSound
    BY DEF CallInv
  <1>2. /\ EnsureIncrement /\ MayAlter(x) /\ DropLocal /\ DiscardRedo
        /\ sections' = [WithObject(x) EXCEPT ![1][x].obj = v]
        /\ index' = [IndexWithIncrement EXCEPT ![x] = 1]
        /\ UNCHANGED <<xrefLen, journal, nesting, lost, current, file>>
        /\ IF ~journal \/ Stashed(x)
             THEN UNCHANGED pending
             ELSE AddFragment(x, WasEmpty(x),
                              IF WasEmpty(x) THEN Null ELSE WithIncrement[1][x].obj)
    BY DEF Alter
  <1>3. xrefLen \in Int /\ x <= xrefLen /\ xrefLen' \in xrefLen .. MaxNum
    BY <1>1, <1>2, InUseIsNumbered, NumberKnown DEF MayAlter
  <1>4. NowSound'
    <2>1. x <= xrefLen'
      BY <1>2, <1>3
    <2>. QED
      BY <1>1, <1>2, <1>3, <2>1, AlteredChanges
  <1>5. OpenSound'
    <2>1. CASE ~journal \/ Stashed(x)
      BY <1>1, <1>2, <2>1 DEF OpenSound
    <2>2. CASE ~(~journal \/ Stashed(x))
      <3>2. pending # <<>>
        BY <1>2, <2>2 DEF MayAlter
      <3>3. ~Mentions(Last(pending).frags, x)
        BY <2>2 DEF Stashed
      <3>4. PICK new, obj : /\ new = WasEmpty(x)
                            /\ obj = IF WasEmpty(x) THEN Null ELSE WithIncrement[1][x].obj
        OBVIOUS
      <3>5. AddFragment(x, new, obj)
        BY <1>2, <2>2, <3>4
      <3>6. new \in BOOLEAN
        BY <3>4 DEF WasEmpty
      <3>7. obj \in Val \cup {Null}
        <4>1. WithIncrement[1] \in Row
          BY <1>1, <1>2, IncrementIs, BoundsKnown, ElementOfSeq
        <4>2. WithIncrement[1][x] \in Entry
          BY <4>1 DEF Row
        <4>3. WithIncrement[1][x].obj \in Val \cup {Null}
          BY <4>2 DEF Entry
        <4>. QED
          BY <3>4, <4>3
      <3>8. pending' \in Seq(Operation(xrefLen)) /\ Len(pending') = Len(pending)
        BY <1>1, <1>3, <3>2, <3>3, <3>5, <3>6, <3>7, FragmentAdded
      <3>. QED
        BY <1>1, <1>2, <3>8 DEF OpenSound
    <2>. QED
      BY <2>1, <2>2
  <1>6. HistorySound(history, current)' /\ LocalSound' /\ FileSound'
    BY <1>1, <1>2, RedoDiscarded, LocalDropped DEF FileSound
  <1>. QED
    BY <1>4, <1>5, <1>6 DEF CallInv

\* When memory runs out the object may have moved, and nothing is recorded.
LEMMA AlterFailsSound ==
  ASSUME CallInv, NEW x \in Num, NEW moved \in BOOLEAN, AlterFails(x, moved)
  PROVE  CallInv'
  <1>1. /\ NowSound /\ LocalSound /\ OpenSound /\ HistorySound(history, current) /\ FileSound
    BY DEF CallInv
  <1>2. /\ EnsureIncrement /\ MayAlter(x) /\ DropLocal /\ DiscardRedo
        /\ sections' = IF moved THEN WithObject(x) ELSE WithIncrement
        /\ index' = IF moved THEN [IndexWithIncrement EXCEPT ![x] = 1] ELSE IndexWithIncrement
        /\ UNCHANGED <<xrefLen, journal, nesting, lost, pending, current, file>>
    BY DEF AlterFails
  <1>3. xrefLen \in Int /\ x <= xrefLen /\ xrefLen' \in xrefLen .. MaxNum
    BY <1>1, <1>2, InUseIsNumbered, NumberKnown DEF MayAlter
  <1>4. NowSound'
    <2>1. CASE moved /\ \E g \in Entry : WithObject(x) =
                  [WithIncrement EXCEPT ![1] = [WithIncrement[1] EXCEPT ![x] = g]]
      <3>1. PICK e \in Entry : sections' =
                [WithIncrement EXCEPT ![1] = [WithIncrement[1] EXCEPT ![x] = e]]
        BY <1>2, <2>1
      <3>2. x <= xrefLen' /\ index' = [IndexWithIncrement EXCEPT ![x] = 1]
        BY <1>2, <1>3, <2>1
      <3>. QED
        BY <1>1, <1>2, <1>3, <3>1, <3>2, CellChanges
    <2>2. CASE sections' = WithIncrement
      <3>1. /\ WithIncrement \in Seq(Row) /\ 1 \in 1 .. Len(WithIncrement)
            /\ IndexWithIncrement \in [Num -> 1 .. Len(WithIncrement)]
            /\ Below(WithIncrement[1], xrefLen)
        BY <1>1, <1>2, FirstRow
      <3>2. /\ DOMAIN index' = Num /\ index' = [y \in Num |-> index'[y]]
            /\ \A y \in Num : index'[y] \in {1, IndexWithIncrement[y]}
        BY <1>2, <3>1
      <3>3. sections' \in Seq(Row) /\ Len(sections') = Len(WithIncrement)
        BY <2>2, <3>1
      <3>4. \A i \in 2 .. Len(WithIncrement) : sections'[i] = WithIncrement[i]
        BY <2>2
      <3>5. Below(sections'[1], xrefLen')
        BY <1>2, <2>2, <3>1
      <3>. QED
        BY <1>1, <1>2, <1>3, <3>2, <3>3, <3>4, <3>5, Changes
    <2>. QED
      BY <1>1, <1>2, <2>1, <2>2, WithObjectHas
  <1>5. OpenSound'
    BY <1>1, <1>2 DEF OpenSound
  <1>6. HistorySound(history, current)' /\ LocalSound' /\ FileSound'
    BY <1>1, <1>2, RedoDiscarded, LocalDropped DEF FileSound
  <1>. QED
    BY <1>4, <1>5, <1>6 DEF CallInv

\* The next number is mentioned by no open operation.
LEMMA AddSound == ASSUME CallInv, NEW v \in Val, Add(v) PROVE CallInv'
  <1>. DEFINE x == xrefLen + 1
  <1>1. /\ NowSound /\ LocalSound /\ OpenSound /\ HistorySound(history, current) /\ FileSound
    BY DEF CallInv
  <1>2. /\ EnsureIncrement /\ x \in Num /\ (journal => pending # <<>>)
        /\ sections' = [WithIncrement EXCEPT ![1] = [WithIncrement[1] EXCEPT ![x] = Used(v)]]
        /\ index' = [IndexWithIncrement EXCEPT ![x] = 1]
        /\ xrefLen' = x
        /\ IF journal THEN AddFragment(x, TRUE, Null) ELSE UNCHANGED pending
        /\ UNCHANGED <<localVars, journal, nesting, lost, history, current, file>>
    BY DEF Add
  <1>3. xrefLen \in Nat /\ x \in Int /\ xrefLen <= x /\ ~(x <= xrefLen) /\ x <= x
        /\ xrefLen' \in xrefLen .. MaxNum /\ x <= xrefLen'
    BY <1>1, <1>2, NumberKnown, BoundsKnown DEF Num
  <1>4. Used(v) \in Entry
    BY DEF Used, Entry
  <1>5. NowSound'
    <2>. HIDE DEF x
    <2>. QED
      BY <1>1, <1>2, <1>3, <1>4, CellChanges
  <1>6. pending' \in Seq(Operation(x)) /\ Len(pending') = Len(pending)
    <2>1. CASE journal
      <3>1. pending # <<>> /\ AddFragment(x, TRUE, Null)
        BY <1>2, <2>1
      <3>2. Last(pending).frags \in Lists(xrefLen)
        BY <1>1, <1>3, <3>1, LastOperation
      <3>3. ~Mentions(Last(pending).frags, x)
        BY <1>3, <3>2, ListProperties DEF Mentions
      <3>4. PICK y : y = x
        OBVIOUS
      <3>5. /\ y \in Num /\ y \in Int /\ xrefLen \in Int /\ xrefLen <= y /\ y <= y
            /\ ~Mentions(Last(pending).frags, y) /\ AddFragment(y, TRUE, Null)
        BY <1>2, <1>3, <3>1, <3>3, <3>4 DEF AddFragment
      <3>6. TRUE \in BOOLEAN /\ Null \in Val \cup {Null}
        OBVIOUS
      <3>7. pending' \in Seq(Operation(y)) /\ Len(pending') = Len(pending)
        BY <1>1, <3>1, <3>5, <3>6, FragmentAdded
      <3>. QED
        BY <3>4, <3>7
    <2>2. CASE ~journal
      BY <1>1, <1>2, <1>3, <2>2, OperationsGrow DEF OpenSound
    <2>. QED
      BY <2>1, <2>2
  <1>7. OpenSound' /\ LocalSound' /\ HistorySound(history, current)' /\ FileSound'
    BY <1>1, <1>2, <1>6 DEF OpenSound, LocalSound, localVars, FileSound
  <1>. QED
    BY <1>5, <1>7 DEF CallInv

\* A slot that stays free uses up its number.
LEMMA AddFailsSound == ASSUME CallInv, AddFails PROVE CallInv'
  <1>. DEFINE x == xrefLen + 1
  <1>1. /\ NowSound /\ LocalSound /\ OpenSound /\ HistorySound(history, current) /\ FileSound
    BY DEF CallInv
  <1>2. /\ EnsureIncrement /\ x \in Num
        /\ sections' = [WithIncrement EXCEPT ![1] = [WithIncrement[1] EXCEPT ![x] = Free]]
        /\ index' = [IndexWithIncrement EXCEPT ![x] = 1]
        /\ xrefLen' = x
        /\ UNCHANGED <<localVars, journalVars, file>>
    BY DEF AddFails
  <1>3. xrefLen \in Nat /\ x \in Int /\ xrefLen <= x
        /\ xrefLen' \in xrefLen .. MaxNum /\ x <= xrefLen'
    BY <1>1, <1>2, NumberKnown, BoundsKnown DEF Num
  <1>4. Free \in Entry
    BY DEF Free, Entry
  <1>5. NowSound'
    <2>. HIDE DEF x
    <2>. QED
      BY <1>1, <1>2, <1>3, <1>4, CellChanges
  <1>6. pending' \in Seq(Operation(x))
    BY <1>1, <1>2, <1>3, OperationsGrow DEF OpenSound, journalVars
  <1>7. OpenSound' /\ LocalSound' /\ HistorySound(history, current)' /\ FileSound'
    BY <1>1, <1>2, <1>6 DEF OpenSound, LocalSound, localVars, journalVars, FileSound
  <1>. QED
    BY <1>5, <1>7 DEF CallInv

\* What is updated has been mentioned, so its number is not new.
LEMMA UpdateSound == ASSUME CallInv, NEW x \in Num, NEW v \in Val, Update(x, v) PROVE CallInv'
  <1>1. /\ NowSound /\ LocalSound /\ OpenSound /\ HistorySound(history, current) /\ FileSound
    BY DEF CallInv
  <1>2. /\ EnsureIncrement /\ pending # <<>> /\ Mentions(Last(pending).frags, x)
        /\ sections' = [WithIncrement EXCEPT ![1] = [WithIncrement[1] EXCEPT ![x] = Used(v)]]
        /\ index' = [IndexWithIncrement EXCEPT ![x] = 1]
        /\ UNCHANGED <<xrefLen, localVars, journalVars, file>>
    BY DEF Update
  <1>3. xrefLen \in Int /\ xrefLen' \in xrefLen .. MaxNum
    BY <1>1, <1>2, NumberKnown
  <1>4. Last(pending).frags \in Lists(xrefLen)
    BY <1>1, <1>2, <1>3, LastOperation
  <1>5. x <= xrefLen'
    BY <1>2, <1>3, <1>4, ListProperties DEF Mentions
  <1>6. Used(v) \in Entry
    BY DEF Used, Entry
  <1>7. NowSound'
    BY <1>1, <1>2, <1>3, <1>5, <1>6, CellChanges
  <1>8. OpenSound' /\ LocalSound' /\ HistorySound(history, current)' /\ FileSound'
    BY <1>1, <1>2 DEF OpenSound, LocalSound, localVars, journalVars, FileSound
  <1>. QED
    BY <1>7, <1>8 DEF CallInv

-----------------------------------------------------------------------------
(* Undo, redo and abandoned operations. *)

\* swap_fragments leaves the document sound, with numbers for what it brings.
LEMMA SwapInSound ==
  ASSUME NowSound, LocalSound, NEW frags \in Lists(MaxNum), SwapIn(frags)
  PROVE  NowSound' /\ LocalSound' /\ xrefLen \in Int /\ xrefLen' \in xrefLen .. MaxNum
  <1>1. LocalSound'
    BY BoundsKnown DEF LocalSound, SwapIn
  <1>2. xrefLen \in 0 .. MaxNum /\ xrefLen \in Int /\ xrefLen \in xrefLen .. MaxNum
    BY NumberKnown, BoundsKnown
  <1>3. CASE frags = <<>>
    <2>1. UNCHANGED xrefVars
      BY <1>3 DEF SwapIn
    <2>. QED
      BY <1>1, <1>2, <2>1 DEF xrefVars, NowSound
  <1>4. CASE frags # <<>>
    <2>1. /\ EnsureIncrement
          /\ sections' = [WithIncrement EXCEPT ![1] = SwapTable(WithIncrement[1], frags)]
          /\ index' = SwapIndex(frags)
          /\ xrefLen' = CHOOSE n \in Num : /\ n >= xrefLen
                                           /\ \A i \in DOMAIN frags : n >= frags[i].num
                                           /\ n = xrefLen \/ Mentions(frags, n)
      <3>1. EnsureIncrement /\ index' = SwapIndex(frags)
        BY <1>4 DEF SwapIn
      <3>2. 1 \in DOMAIN WithIncrement
        BY <3>1, IncrementIs, LenProperties, BoundsKnown
      <3>. QED
        BY <1>4, <3>1, <3>2 DEF SwapIn
    <2>2. PICK m : m = CHOOSE n \in Num : /\ n >= xrefLen
                                          /\ \A i \in DOMAIN frags : n >= frags[i].num
                                          /\ n = xrefLen \/ Mentions(frags, n)
      OBVIOUS
    <2>3. m \in xrefLen .. MaxNum /\ \A x \in Num : Mentions(frags, x) => x <= m
      <3>1. PICK len : len = xrefLen
        OBVIOUS
      <3>2. len \in 0 .. MaxNum
        BY <1>2, <3>1
      <3>3. m = CHOOSE n \in Num : /\ n >= len
                                   /\ \A i \in DOMAIN frags : n >= frags[i].num
                                   /\ n = len \/ Mentions(frags, n)
        BY <2>2, <3>1
      <3>4. m \in len .. MaxNum /\ \A x \in Num : Mentions(frags, x) => x <= m
        BY Zenon, <1>4, <3>2, <3>3, Largest
      <3>. QED
        BY <3>1, <3>4
    <2>4. xrefLen' = m
      BY <2>1, <2>2
    <2>5. PICK row : row = SwapTable(WithIncrement[1], frags)
      OBVIOUS
    <2>6. /\ WithIncrement \in Seq(Row) /\ 1 \in 1 .. Len(WithIncrement)
          /\ 1 # Len(WithIncrement)
          /\ IndexWithIncrement \in [Num -> 1 .. Len(WithIncrement)]
          /\ Below(WithIncrement[1], xrefLen)
      BY <2>1, FirstRow
    <2>7. WithIncrement[1] \in Row /\ frags \in Seq(Fragment)
      BY <2>6, ElementOfSeq, BoundsKnown, ListProperties
    <2>8. row \in Row
      BY <2>5, <2>7, SwapTableIs
    <2>9. Below(row, m)
      <3>. SUFFICES ASSUME NEW x \in Num, row[x].type # "none", ~Mentions(frags, x)
                    PROVE  x <= m
        BY <2>3 DEF Below
      <3>1. {j \in DOMAIN frags : j < Len(frags) + 1 /\ frags[j].num = x} = {}
        BY DEF Mentions
      <3>2. Met(WithIncrement[1], frags, x, Len(frags) + 1) = WithIncrement[1][x]
        BY <3>1 DEF Met
      <3>3. row[x] = WithIncrement[1][x]
        BY <2>5, <3>2 DEF SwapTable
      <3>4. x <= xrefLen
        BY <2>6, <3>3 DEF Below
      <3>. QED
        BY <1>2, <2>3, <3>4 DEF Num
    <2>10. /\ DOMAIN index' = Num /\ index' = [x \in Num |-> index'[x]]
           /\ \A x \in Num : index'[x] \in {1, IndexWithIncrement[x]}
      BY <2>1, <2>6 DEF SwapIndex
    <2>11. sections' = [WithIncrement EXCEPT ![1] = row]
      BY <2>1, <2>5
    <2>12. xrefLen' \in xrefLen .. MaxNum /\ Below(row, xrefLen')
      BY <2>3, <2>4, <2>9
    <2>13. NowSound'
      BY <2>1, <2>8, <2>10, <2>11, <2>12, RowChanges
    <2>. QED
      BY <1>1, <1>2, <2>12, <2>13
  <1>. QED
    BY <1>3, <1>4

\* The entry it is swapped with stays a list of the history.
LEMMA SwappedIs ==
  ASSUME NowSound, NEW f \in Lists(MaxNum)
  PROVE  Swapped(f) \in Lists(MaxNum)
  <1>1. Empty \in Row
    BY DEF Empty, Row, Absent, Entry
  <1>2. sections[1] \in Row
    <2>1. sections \in Seq(Row) /\ 1 \in 1 .. Len(sections)
      BY BoundsKnown DEF NowSound, DocSound
    <2>. QED
      BY <2>1, ElementOfSeq
  <1>3. PICK table : table = IF NeedsSection THEN Empty ELSE sections[1]
    OBVIOUS
  <1>4. table \in Row
    BY <1>1, <1>2, <1>3
  <1>. QED
    BY <1>3, <1>4, BoundsKnown, SwapFragsIs DEF Swapped

\* An abandoned operation is swapped back, the ones around it stay open.
LEMMA AbandonSound == ASSUME CallInv, Abandon PROVE CallInv'
  <1>1. /\ NowSound /\ LocalSound /\ OpenSound /\ HistorySound(history, current) /\ FileSound
    BY DEF CallInv
  <1>2. /\ HasBegun /\ nesting' = nesting - 1
        /\ pending' = Front(pending)
        /\ UNCHANGED <<journal, lost, history, current, file>>
    BY DEF Abandon
  <1>3. PICK frags : frags = Last(pending).frags
    OBVIOUS
  <1>4. SwapIn(frags)
    BY <1>3 DEF Abandon, SwapIn, SwapIndex, Mentions, SwapTable
  <1>5. /\ pending # <<>> /\ nesting \in Nat
        /\ nesting - 1 \in 0 .. MaxNesting /\ lost \in 0 .. nesting - 1
        /\ Len(pending) \in nesting - lost .. nesting
    BY <1>1, <1>2, BegunIsOpen
  <1>6. frags \in Lists(MaxNum)
    <2>1. xrefLen \in Int /\ xrefLen <= MaxNum /\ MaxNum \in Int
      BY <1>1, NumberKnown, BoundsKnown
    <2>2. frags \in Lists(xrefLen)
      BY <1>1, <1>3, <1>5, <2>1, LastOperation
    <2>. QED
      BY <2>1, <2>2, ListsGrow
  <1>7. NowSound' /\ LocalSound' /\ xrefLen \in Int /\ xrefLen' \in xrefLen .. MaxNum
    BY <1>1, <1>4, <1>6, SwapInSound
  <1>8. OpenSound'
    <2>1. /\ Front(pending) \in Seq(Operation(xrefLen))
          /\ Len(Front(pending)) = Len(pending) - 1
      BY <1>1, <1>5, LastOperation
    <2>2. xrefLen' \in Int /\ xrefLen <= xrefLen'
      BY <1>7, BoundsKnown
    <2>3. PICK n : n = xrefLen'
      OBVIOUS
    <2>4. Front(pending) \in Seq(Operation(n))
      BY <1>7, <2>1, <2>2, <2>3, OperationsGrow
    <2>5. Len(Front(pending)) \in nesting - 1 - lost .. nesting - 1
      BY <1>5, <2>1
    <2>. QED
      BY <1>1, <1>2, <1>5, <2>3, <2>4, <2>5 DEF OpenSound
  <1>9. HistorySound(history, current)' /\ FileSound'
    BY <1>1, <1>2 DEF FileSound
  <1>. QED
    BY <1>7, <1>8, <1>9 DEF CallInv

\* An entry of the history changes places with the document.
LEMMA SwapSound ==
  ASSUME CallInv, NEW k \in 1 .. Len(history), NEW c \in 0 .. Len(history),
         nesting = 0, SwapIn(history[k]),
         history' = [history EXCEPT ![k] = Swapped(history[k])],
         current' = c, UNCHANGED <<journal, nesting, lost, pending, file>>
  PROVE  CallInv'
  <1>1. /\ NowSound /\ LocalSound /\ OpenSound /\ HistorySound(history, current) /\ FileSound
    BY DEF CallInv
  <1>2. history \in Seq(Lists(MaxNum)) /\ Len(history) <= MaxHistory
    BY <1>1 DEF HistorySound
  <1>3. PICK f : f = history[k]
    OBVIOUS
  <1>4. f \in Lists(MaxNum)
    BY <1>2, <1>3, ElementOfSeq
  <1>5. SwapIn(f)
    BY <1>3 DEF SwapIn, SwapIndex, Mentions, SwapTable
  <1>6. NowSound' /\ LocalSound'
    BY <1>1, <1>4, <1>5, SwapInSound
  <1>7. PICK g : g = Swapped(history[k])
    OBVIOUS
  <1>8. g \in Lists(MaxNum)
    BY <1>1, <1>3, <1>4, <1>7, SwappedIs
  <1>9. PICK h : h = [history EXCEPT ![k] = g]
    OBVIOUS
  <1>10. h \in Seq(Lists(MaxNum)) /\ Len(h) = Len(history)
    BY <1>2, <1>8, <1>9, ExceptSeq
  <1>11. history' = h
    BY <1>7, <1>9
  <1>12. HistorySound(history', current')
    BY <1>2, <1>10, <1>11 DEF HistorySound
  <1>13. OpenSound'
    <2>1. pending = <<>> /\ pending' = <<>>
      BY <1>1, EmptySeq DEF OpenSound
    <2>2. <<>> \in Seq(Operation(xrefLen'))
      BY EmptySeq
    <2>. QED
      BY <1>1, <2>1, <2>2 DEF OpenSound
  <1>. QED
    BY <1>1, <1>6, <1>12, <1>13 DEF CallInv, FileSound

\* Undo swaps the current entry,
LEMMA UndoSound == ASSUME CallInv, Undo PROVE CallInv'
  <1>1. /\ nesting = 0 /\ current > 0 /\ current' = current - 1
        /\ SwapIn(history[current])
        /\ history' = [history EXCEPT ![current] = Swapped(history[current])]
        /\ UNCHANGED <<journal, nesting, lost, pending, file>>
    BY DEF Undo
  <1>2. current \in 1 .. Len(history) /\ current - 1 \in 0 .. Len(history)
    BY <1>1, LenProperties DEF CallInv, HistorySound
  <1>. QED
    BY <1>1, <1>2, SwapSound

\* redo the one after it.
LEMMA RedoSound == ASSUME CallInv, Redo PROVE CallInv'
  <1>1. /\ nesting = 0 /\ current < Len(history) /\ current' = current + 1
        /\ SwapIn(history[current + 1])
        /\ history' = [history EXCEPT ![current + 1] = Swapped(history[current + 1])]
        /\ UNCHANGED <<journal, nesting, lost, pending, file>>
    BY DEF Redo
  <1>2. current + 1 \in 1 .. Len(history) /\ current + 1 \in 0 .. Len(history)
    BY <1>1, LenProperties DEF CallInv, HistorySound
  <1>. QED
    BY <1>1, <1>2, SwapSound

-----------------------------------------------------------------------------
(* Operations begin and end. *)

\* What leaves the document alone, and the snapshot.
LEMMA DocumentKept ==
  ASSUME CallInv, UNCHANGED <<sections, signed, incs, xrefLen, file>>,
         index' \in [Num -> 1 .. Len(sections)], LocalSound', OpenSound',
         HistorySound(history, current)'
  PROVE  CallInv'
  BY DEF CallInv, NowSound, FileSound

\* The index as it was will do.
LEMMA IndexTyped == ASSUME CallInv PROVE index \in [Num -> 1 .. Len(sections)]
  BY DEF CallInv, NowSound

\* Calls that leave the document alone.
LEMMA EnableSound == ASSUME CallInv, Enable PROVE CallInv'
  <1>1. UNCHANGED <<xrefVars, localVars, nesting, lost, pending, history, current, file>>
        /\ journal' = TRUE
    BY DEF Enable
  <1>2. OpenSound' /\ LocalSound' /\ HistorySound(history, current)'
    BY <1>1 DEF CallInv, OpenSound, LocalSound, localVars, xrefVars
  <1>. QED
    BY <1>1, <1>2, IndexTyped, DocumentKept DEF xrefVars

\* An operation starts with no fragments.
LEMMA BeginSound == ASSUME CallInv, NEW named \in BOOLEAN, Begin(named) PROVE CallInv'
  <1>1. /\ nesting < MaxNesting /\ nesting' = nesting + 1
        /\ UNCHANGED <<xrefVars, localVars, journal, lost, history, current, file>>
    BY DEF Begin
  <1>2. PICK op : op = [named |-> named, frags |-> <<>>]
    OBVIOUS
  <1>3. op \in Operation(xrefLen)
    <2>1. <<>> \in Lists(xrefLen)
      BY NumberKnown, NoFragments DEF CallInv
    <2>. QED
      BY <1>2, <2>1 DEF Operation
  <1>4. pending' = Append(pending, op)
    BY <1>2 DEF Begin
  <1>5. /\ pending \in Seq(Operation(xrefLen)) /\ journal \in BOOLEAN
        /\ nesting \in 0 .. MaxNesting /\ lost \in 0 .. nesting
        /\ Len(pending) \in nesting - lost .. nesting
    BY DEF CallInv, OpenSound
  <1>6. pending' \in Seq(Operation(xrefLen)) /\ Len(pending') = Len(pending) + 1
    BY <1>1, <1>3, <1>4, <1>5, AppendProperties
  <1>7. /\ nesting' \in 0 .. MaxNesting /\ lost' \in 0 .. nesting'
        /\ Len(pending') \in nesting' - lost' .. nesting'
    BY <1>1, <1>5, <1>6, BoundsKnown
  <1>8. OpenSound' /\ LocalSound' /\ HistorySound(history, current)'
    BY <1>1, <1>5, <1>6, <1>7 DEF CallInv, OpenSound, LocalSound, localVars, xrefVars
  <1>. QED
    BY <1>1, <1>8, IndexTyped, DocumentKept DEF xrefVars

\* A level without an operation is lost.
LEMMA BeginFailsSound == ASSUME CallInv, BeginFails PROVE CallInv'
  <1>1. /\ nesting < MaxNesting /\ nesting' = nesting + 1 /\ lost' = lost + 1
        /\ UNCHANGED <<xrefVars, localVars, journal, pending, history, current, file>>
    BY DEF BeginFails
  <1>2. /\ nesting \in 0 .. MaxNesting /\ lost \in 0 .. nesting
        /\ Len(pending) \in nesting - lost .. nesting
    BY DEF CallInv, OpenSound
  <1>3. /\ nesting' \in 0 .. MaxNesting /\ lost' \in 0 .. nesting'
        /\ Len(pending) \in nesting' - lost' .. nesting'
    BY <1>1, <1>2, BoundsKnown
  <1>4. OpenSound' /\ LocalSound' /\ HistorySound(history, current)'
    BY <1>1, <1>3 DEF CallInv, OpenSound, LocalSound, localVars, xrefVars
  <1>. QED
    BY <1>1, <1>4, IndexTyped, DocumentKept DEF xrefVars

\* The lists of an inner operation and the one around it are resolved.
LEMMA EndInnerSound == ASSUME CallInv, EndInner PROVE CallInv'
  <1>1. /\ HasBegun /\ nesting > 1 /\ nesting' = nesting - 1
        /\ UNCHANGED <<xrefVars, localVars, journal, lost, history, current, file>>
    BY DEF EndInner
  <1>2. PICK k, p, l : k = Len(pending) - 1 /\ p = Front(pending) /\ l = Last(pending).frags
    OBVIOUS
  <1>3. OpenSound /\ xrefLen \in Int
    BY NumberKnown DEF CallInv
  <1>4. /\ pending # <<>> /\ nesting \in Nat
        /\ nesting - 1 \in 0 .. MaxNesting /\ lost \in 0 .. nesting - 1
        /\ Len(pending) \in nesting - lost .. nesting
    BY <1>1, <1>3, BegunIsOpen
  <1>5. /\ pending' \in Seq(Operation(xrefLen))
        /\ Len(pending') = IF Len(pending) = 1 THEN 1 ELSE Len(pending) - 1
    <2>1. CASE Len(pending) = 1
      BY <1>3, <2>1 DEF EndInner, OpenSound
    <2>2. CASE Len(pending) # 1
      <3>1. l \in Lists(xrefLen) /\ p \in Seq(Operation(xrefLen)) /\ Len(p) = k
        BY <1>2, <1>3, <1>4, LastOperation
      <3>2. k \in 1 .. Len(p)
        BY <1>2, <1>4, <2>2, <3>1
      <3>3. p[k] \in Operation(xrefLen)
        BY <3>1, <3>2, ElementOfSeq
      <3>4. PICK r : r = Resolve(p[k].frags, l)
        OBVIOUS
      <3>5. r \in Lists(xrefLen)
        <4>1. p[k].frags \in Lists(xrefLen)
          BY <3>3 DEF Operation
        <4>. QED
          BY <1>3, <3>1, <3>4, <4>1, ResolveIs
      <3>6. PICK q : q = [p[k] EXCEPT !.frags = r]
        OBVIOUS
      <3>7. q \in Operation(xrefLen)
        BY <3>3, <3>5, <3>6 DEF Operation
      <3>8. PICK s : s = [p EXCEPT ![k] = q]
        OBVIOUS
      <3>9. s \in Seq(Operation(xrefLen)) /\ Len(s) = k
        BY <3>1, <3>2, <3>7, <3>8, ExceptSeq
      <3>10. pending' = s
        BY <1>2, <2>2, <3>4, <3>6, <3>8 DEF EndInner
      <3>. QED
        BY <1>2, <2>2, <3>9, <3>10
    <2>. QED
      BY <2>1, <2>2
  <1>6. Len(pending') \in nesting' - lost .. nesting'
    <2>1. CASE Len(pending) = 1
      BY <1>1, <1>4, <1>5, <2>1
    <2>2. CASE Len(pending) # 1
      BY <1>1, <1>4, <1>5, <2>2
    <2>. QED
      BY <2>1, <2>2
  <1>7. OpenSound' /\ LocalSound' /\ HistorySound(history, current)'
    BY <1>1, <1>4, <1>5, <1>6 DEF CallInv, OpenSound, LocalSound, localVars, xrefVars
  <1>. QED
    BY <1>1, <1>7, IndexTyped, DocumentKept DEF xrefVars

\* The outermost operation ends, whatever happens to its list.
LEMMA EndOuterSound ==
  ASSUME CallInv, EndOuter, HistorySound(history', current') PROVE CallInv'
  <1>1. /\ nesting' = 0 /\ pending' = <<>> /\ lost' = 0
        /\ UNCHANGED <<xrefVars, localVars, journal, file>>
    BY BegunIsOpen DEF EndOuter, CallInv
  <1>2. <<>> \in Seq(Operation(xrefLen)) /\ Len(<<>>) = 0
    BY EmptySeq
  <1>3. OpenSound' /\ LocalSound'
    BY <1>1, <1>2, BoundsKnown DEF CallInv, OpenSound, LocalSound, localVars, xrefVars
  <1>. QED
    BY <1>1, <1>3, IndexTyped, DocumentKept DEF xrefVars

\* The outermost operation's list.
LEMMA OuterList ==
  ASSUME CallInv, EndOuter PROVE pending[1].frags \in Lists(MaxNum)
  <1>1. nesting = 1 /\ OpenSound /\ xrefLen \in FileLen .. MaxNum /\ xrefLen \in Int
    BY NumberKnown DEF EndOuter, CallInv
  <1>2. pending \in Seq(Operation(xrefLen)) /\ 1 \in 1 .. Len(pending)
    BY <1>1, BegunIsOpen DEF OpenSound, EndOuter
  <1>3. pending[1] \in Operation(xrefLen)
    BY <1>2, ElementOfSeq
  <1>4. pending[1].frags \in Lists(xrefLen)
    BY <1>3 DEF Operation
  <1>. QED
    BY <1>1, <1>4, ListsGrow, BoundsKnown

\* It has none,
LEMMA EndEmptySound == ASSUME CallInv, EndEmpty PROVE CallInv'
  <1>1. EndOuter /\ HistorySound(history', current')
    BY DEF EndEmpty, CallInv
  <1>. QED
    BY <1>1, EndOuterSound

\* it becomes the next entry of the history,
LEMMA EndNamedSound == ASSUME CallInv, EndNamed PROVE CallInv'
  <1>1. /\ EndOuter /\ current < MaxHistory /\ current' = current + 1
        /\ history' = Append(SubSeq(history, 1, current), pending[1].frags)
    BY DEF EndNamed
  <1>2. PICK h, f : h = SubSeq(history, 1, current) /\ f = pending[1].frags
    OBVIOUS
  <1>3. HistorySound(h, current) /\ Len(h) = current /\ current \in Nat
    BY <1>2, HistoryCut DEF CallInv
  <1>4. h \in Seq(Lists(MaxNum)) /\ f \in Lists(MaxNum)
    BY <1>1, <1>2, <1>3, OuterList DEF HistorySound
  <1>5. Append(h, f) \in Seq(Lists(MaxNum)) /\ Len(Append(h, f)) = current + 1
    BY <1>3, <1>4, AppendProperties
  <1>6. current + 1 <= MaxHistory /\ current + 1 \in 0 .. current + 1
    BY <1>1, <1>3, BoundsKnown
  <1>7. HistorySound(Append(h, f), current + 1)
    BY <1>5, <1>6 DEF HistorySound
  <1>8. HistorySound(history', current')
    BY <1>1, <1>2, <1>7
  <1>. QED
    BY <1>1, <1>8, EndOuterSound

\* or it joins the one before.
LEMMA EndImplicitSound == ASSUME CallInv, EndImplicit PROVE CallInv'
  <1>1. /\ EndOuter /\ current' = current
        /\ history' = IF current = 0 THEN history
                      ELSE [history EXCEPT ![current] =
                              Resolve(history[current], pending[1].frags)]
    BY DEF EndImplicit
  <1>2. HistorySound(history, current)
    BY DEF CallInv
  <1>3. CASE current = 0
    BY <1>1, <1>2, <1>3, EndOuterSound
  <1>4. CASE current # 0
    <2>1. /\ history \in Seq(Lists(MaxNum)) /\ current \in 1 .. Len(history)
          /\ Len(history) <= MaxHistory /\ current \in 0 .. Len(history)
      BY <1>2, <1>4, LenProperties DEF HistorySound
    <2>2. history[current] \in Lists(MaxNum)
      BY <2>1, ElementOfSeq
    <2>3. PICK r : r = Resolve(history[current], pending[1].frags)
      OBVIOUS
    <2>4. r \in Lists(MaxNum)
      BY <1>1, <2>2, <2>3, OuterList, ResolveIs, BoundsKnown
    <2>5. PICK h : h = [history EXCEPT ![current] = r]
      OBVIOUS
    <2>6. h \in Seq(Lists(MaxNum)) /\ Len(h) = Len(history)
      BY <2>1, <2>4, <2>5, ExceptSeq
    <2>7. history' = h
      BY <1>1, <1>4, <2>3, <2>5
    <2>8. HistorySound(history', current')
      BY <1>1, <2>1, <2>6, <2>7 DEF HistorySound
    <2>. QED
      BY <1>1, <2>8, EndOuterSound
  <1>. QED
    BY <1>3, <1>4

-----------------------------------------------------------------------------
(* Lookups, signatures and the local cross reference. *)

\* A lookup points the index at a section that is there.
LEMMA LoadSound == ASSUME CallInv, NEW x \in Num, Load(x) PROVE CallInv'
  <1>1. /\ index' = [index EXCEPT ![x] =
                        IF FindFrom(sections, x, 1) = 0 THEN 1 ELSE FindFrom(sections, x, 1)]
        /\ UNCHANGED <<sections, signed, incs, xrefLen, localVars, journalVars, file>>
    BY DEF Load
  <1>2. PICK j : j = FindFrom(sections, x, 1)
    OBVIOUS
  <1>3. sections \in Seq(Row) /\ Len(sections) \in 1 .. MaxSections
        /\ index \in [Num -> 1 .. Len(sections)]
    BY DEF CallInv, NowSound, DocSound
  <1>4. Table(sections)
    BY <1>3 DEF Table, Row
  <1>5. (IF j = 0 THEN 1 ELSE j) \in 1 .. Len(sections)
    <2>1. j # 0 => j \in 1 .. Len(sections)
      BY <1>2, <1>4, FindProperties
    <2>2. 1 \in 1 .. Len(sections)
      BY <1>3, BoundsKnown
    <2>. QED
      BY <2>1, <2>2
  <1>6. index' = [index EXCEPT ![x] = IF j = 0 THEN 1 ELSE j]
    BY <1>1, <1>2
  <1>7. index' \in [Num -> 1 .. Len(sections)]
    BY <1>3, <1>5, <1>6
  <1>8. OpenSound' /\ LocalSound' /\ HistorySound(history, current)'
    BY <1>1 DEF CallInv, OpenSound, LocalSound, localVars, journalVars
  <1>. QED
    BY <1>1, <1>7, <1>8, DocumentKept

\* A signature marks the first section.
LEMMA SignSound == ASSUME CallInv, Sign PROVE CallInv'
  <1>1. /\ signed' = [signed EXCEPT ![1] = TRUE]
        /\ UNCHANGED <<sections, incs, xrefLen, index, localVars, journalVars, file>>
    BY DEF Sign
  <1>2. signed \in Seq(BOOLEAN) /\ Len(signed) = Len(sections) /\ 1 \in 1 .. Len(signed)
    BY BoundsKnown DEF CallInv, NowSound, DocSound
  <1>3. signed' \in Seq(BOOLEAN) /\ Len(signed') = Len(signed)
    BY <1>1, <1>2, ExceptSeq
  <1>4. NowSound'
    BY <1>1, <1>2, <1>3 DEF CallInv, NowSound
  <1>. QED
    BY <1>1, <1>4 DEF CallInv, OpenSound, LocalSound, FileSound, localVars, journalVars

\* A change to the local cross reference.
LEMMA LocalChanges ==
  ASSUME CallInv, LocalSound', index' \in [Num -> 1 .. Len(sections)],
         UNCHANGED <<sections, signed, incs, xrefLen, journalVars, file>>
  PROVE  CallInv'
  <1>1. OpenSound' /\ HistorySound(history, current)'
    BY DEF CallInv, OpenSound, journalVars
  <1>. QED
    BY <1>1, DocumentKept

\* The calls that change it, or whether it is in force.
LEMMA PushSound == ASSUME CallInv, Push PROVE CallInv'
  <1>1. LocalSound'
    BY DEF Push, CallInv, LocalSound
  <1>. QED
    BY <1>1, LocalChanges, IndexTyped DEF Push, xrefVars

LEMMA EnsureLocalSound == ASSUME CallInv, EnsureLocal PROVE CallInv'
  <1>1. local' = Empty /\ localLen' = xrefLen /\ localNesting' = localNesting
        /\ UNCHANGED <<xrefVars, journalVars, file>>
    BY DEF EnsureLocal
  <1>2. xrefLen \in 0 .. MaxNum
    BY NumberKnown, BoundsKnown DEF CallInv
  <1>3. Empty \in [Num -> {Absent, Used(Appearance)}]
    BY DEF Empty
  <1>4. LocalSound'
    BY <1>1, <1>2, <1>3 DEF CallInv, LocalSound
  <1>. QED
    BY <1>1, <1>4, LocalChanges, IndexTyped DEF xrefVars

LEMMA PopSound == ASSUME CallInv, Pop PROVE CallInv'
  <1>1. LocalSound'
    BY DEF Pop, CallInv, LocalSound
  <1>. QED
    BY <1>1, LocalChanges, IndexTyped DEF Pop, xrefVars

LEMMA PopAndDiscardSound == ASSUME CallInv, PopAndDiscard PROVE CallInv'
  <1>1. LocalSound'
    BY BoundsKnown DEF PopAndDiscard, CallInv, LocalSound
  <1>. QED
    BY <1>1, LocalChanges, IndexTyped DEF PopAndDiscard, xrefVars

\* An appearance is put into it.
LEMMA LocalPut ==
  ASSUME CallInv, InForce, NEW x \in Num, local' = [local EXCEPT ![x] = Used(Appearance)]
  PROVE  local' \in [Num -> {Absent, Used(Appearance)}]
  <1>1. local \in [Num -> {Absent, Used(Appearance)}]
    BY DEF InForce, CallInv, LocalSound
  <1>2. PICK u : u = Used(Appearance)
    OBVIOUS
  <1>. QED
    BY <1>1, <1>2

LEMMA LocalAlterSound == ASSUME CallInv, NEW x \in Num, LocalAlter(x) PROVE CallInv'
  <1>1. /\ InForce /\ local' = [local EXCEPT ![x] = Used(Appearance)]
        /\ index' = index \/ index' = [index EXCEPT ![x] = 1]
        /\ UNCHANGED <<sections, signed, incs, xrefLen, localLen, localNesting,
                       journalVars, file>>
    BY DEF LocalAlter
  <1>2. LocalSound'
    BY <1>1, LocalPut DEF CallInv, LocalSound
  <1>3. Len(sections) \in 1 .. MaxSections /\ 1 \in 1 .. Len(sections)
    BY BoundsKnown DEF CallInv, NowSound, DocSound
  <1>4. index' \in [Num -> 1 .. Len(sections)]
    BY <1>1, <1>3, IndexTyped
  <1>. QED
    BY <1>1, <1>2, <1>4, LocalChanges

LEMMA LocalAddSound == ASSUME CallInv, LocalAdd PROVE CallInv'
  <1>1. PICK x : x = localLen + 1
    OBVIOUS
  <1>2. /\ InForce /\ x \in Num /\ local' = [local EXCEPT ![x] = Used(Appearance)]
        /\ localLen' = x
        /\ UNCHANGED <<xrefVars, localNesting, journalVars, file>>
    BY <1>1 DEF LocalAdd
  <1>3. x \in 0 .. MaxNum
    BY <1>2, BoundsKnown DEF Num
  <1>4. LocalSound'
    BY <1>2, <1>3, LocalPut DEF CallInv, LocalSound
  <1>. QED
    BY <1>2, <1>4, LocalChanges, IndexTyped DEF xrefVars

-----------------------------------------------------------------------------
(* Snapshots. *)

\* What the writer skips is absent.
LEMMA WrittenIs ==
  ASSUME NEW row \in Row, NEW n \in Int, Below(row, n)
  PROVE  Written(row) \in Row /\ Below(Written(row), n)
  <1>1. \A x \in Num : row[x] \in Entry
    BY DEF Row
  <1>2. Absent \in Entry
    BY DEF Absent, Entry
  <1>3. Written(row) \in Row
    BY <1>1, <1>2 DEF Written, Row
  <1>4. Below(Written(row), n)
    BY DEF Written, Below, Absent
  <1>. QED
    BY <1>3, <1>4

\* What is saved with changes, and without.
LEMMA SavedIs ==
  ASSUME CallInv
  PROVE  /\ DocSound(SectionsWritten, incs, xrefLen)
         /\ DocSound(SubSeq(sections, incs + 1, Len(sections)), 0, FileLen)
  <1>. DEFINE n == Len(sections)
  <1>1. /\ sections \in Seq(Row) /\ n \in 1 .. MaxSections /\ n = incs + 1 /\ incs \in Nat
        /\ \A i \in 1 .. n : Below(sections[i], IF i = n THEN FileLen ELSE xrefLen)
        /\ xrefLen \in FileLen .. MaxNum
    BY DEF CallInv, NowSound, DocSound
  <1>2. \A i \in 1 .. n : sections[i] \in Row
    BY <1>1, ElementOfSeq
  <1>3. DOMAIN sections = 1 .. n /\ n \in Nat
    BY <1>1, LenProperties
  <1>4. DocSound(SectionsWritten, incs, xrefLen)
    <2>1. PICK w : w = SectionsWritten
      OBVIOUS
    <2>2. \A i \in 1 .. n : w[i] = IF i <= incs THEN Written(sections[i]) ELSE sections[i]
      BY <1>3, <2>1 DEF SectionsWritten
    <2>3. \A i \in 1 .. n : w[i] \in Row /\ Below(w[i], IF i = n THEN FileLen ELSE xrefLen)
      <3>. SUFFICES ASSUME NEW i \in 1 .. n
                    PROVE  w[i] \in Row /\ Below(w[i], IF i = n THEN FileLen ELSE xrefLen)
        OBVIOUS
      <3>1. CASE i <= incs
        <4>1. i # n /\ w[i] = Written(sections[i])
          BY <1>1, <2>2, <3>1
        <4>2. Below(sections[i], xrefLen) /\ xrefLen \in Int
          BY <1>1, <4>1, BoundsKnown
        <4>. QED
          BY <1>2, <4>1, <4>2, WrittenIs
      <3>2. CASE ~(i <= incs)
        BY <1>1, <1>2, <2>2, <3>2
      <3>. QED
        BY <3>1, <3>2
    <2>4. w \in Seq(Row) /\ Len(w) = n
      <3>1. DOMAIN w = 1 .. n /\ w = [i \in 1 .. n |-> w[i]]
        BY <1>3, <2>1 DEF SectionsWritten
      <3>2. w \in [1 .. n -> Row]
        BY <2>3, <3>1
      <3>. HIDE DEF n
      <3>. QED
        BY <1>3, <3>2
    <2>. QED
      BY <1>1, <2>1, <2>3, <2>4 DEF DocSound
  <1>5. DocSound(SubSeq(sections, incs + 1, n), 0, FileLen)
    <2>1. PICK l, m : l = incs + 1 /\ m = n
      OBVIOUS
    <2>2. PICK s : s = SubSeq(sections, l, m)
      OBVIOUS
    <2>3. l \in Int /\ m \in Int /\ l = m /\ m \in 1 .. n
      BY <1>1, <1>3, <2>1
    <2>4. \A i \in l .. m : sections[i] \in Row
      BY <1>2, <2>3
    <2>5. /\ s \in Seq(Row) /\ Len(s) = IF l <= m THEN m - l + 1 ELSE 0
          /\ \A i \in 1 .. m - l + 1 : s[i] = sections[l + i - 1]
      BY <2>2, <2>3, <2>4, SubSeqProperties
    <2>6. Len(s) = 1 /\ s[1] = sections[m]
      BY <2>3, <2>5
    <2>7. Below(s[1], FileLen)
      BY <1>1, <2>1, <2>3, <2>6
    <2>8. FileLen \in FileLen .. MaxNum /\ 1 \in 1 .. MaxSections
      BY BoundsKnown
    <2>9. \A i \in 1 .. Len(s) : Below(s[i], IF i = Len(s) THEN FileLen ELSE FileLen)
      BY <2>6, <2>7
    <2>10. DocSound(s, 0, FileLen)
      BY <2>5, <2>6, <2>8, <2>9 DEF DocSound
    <2>. QED
      BY <2>1, <2>2, <2>10
  <1>. QED
    BY <1>4, <1>5

\* The history as it is written.
LEMMA HistorySaved ==
  ASSUME NEW h, NEW c, HistorySound(h, c)
  PROVE  HistorySound([k \in DOMAIN h |-> Serialised(h[k])], c)
  <1>1. h \in Seq(Lists(MaxNum)) /\ Len(h) <= MaxHistory /\ c \in 0 .. Len(h)
    BY DEF HistorySound
  <1>2. DOMAIN h = 1 .. Len(h) /\ Len(h) \in Nat
    BY <1>1, LenProperties
  <1>3. PICK g : g = [k \in DOMAIN h |-> Serialised(h[k])]
    OBVIOUS
  <1>4. \A k \in 1 .. Len(h) : Serialised(h[k]) \in Lists(MaxNum)
    BY <1>1, ElementOfSeq, SerialisedIs, BoundsKnown
  <1>5. g \in [1 .. Len(h) -> Lists(MaxNum)]
    BY <1>2, <1>3, <1>4
  <1>6. g \in Seq(Lists(MaxNum)) /\ Len(g) = Len(h)
    BY <1>2, <1>5
  <1>. QED
    BY <1>1, <1>3, <1>6 DEF HistorySound

\* A snapshot is a document one can go on from, with a history to go with it.
LEMMA SnapshotSound == ASSUME CallInv, Snapshot PROVE CallInv'
  <1>1. /\ UNCHANGED <<xrefVars, localVars, journalVars>>
        /\ \/ /\ file'.sections = SectionsWritten
              /\ file'.incs = incs /\ file'.xrefLen = xrefLen
           \/ /\ file'.sections = SubSeq(sections, incs + 1, Len(sections))
              /\ file'.incs = 0 /\ file'.xrefLen = FileLen
        /\ file'.journal = journal
        /\ file'.history = [k \in DOMAIN history |-> Serialised(history[k])]
        /\ file'.current = current
    BY DEF Snapshot, Saved
  <1>2. DocSound(file'.sections, file'.incs, file'.xrefLen)
    BY <1>1, SavedIs
  <1>3. HistorySound(file'.history, file'.current)
    BY <1>1, HistorySaved DEF CallInv
  <1>4. journal \in BOOLEAN
    BY DEF CallInv, OpenSound
  <1>5. FileSound'
    BY <1>1, <1>2, <1>3, <1>4 DEF FileSound
  <1>. QED
    BY <1>1, <1>5 DEF CallInv, NowSound, LocalSound, OpenSound, xrefVars, localVars, journalVars

\* Room for more numbers in the sections.
LEMMA DocumentGrows ==
  ASSUME NEW secs, NEW n, NEW m \in Int, NEW len \in m .. MaxNum, DocSound(secs, n, m)
  PROVE  DocSound(secs, n, len)
  <1>1. \A row : Below(row, m) => Below(row, len)
    BY BoundsKnown DEF Below, Num
  <1>. QED
    BY <1>1, BoundsKnown DEF DocSound

\* The number of a cross reference stream is used up, the operation that made it
\* is a step of its own, and the file has the object.
LEMMA SnapshotAsStreamSound == ASSUME CallInv, SnapshotAsStream PROVE CallInv'
  <1>. DEFINE x == xrefLen + 1
  <1>1. /\ NowSound /\ LocalSound /\ OpenSound /\ HistorySound(history, current) /\ FileSound
    BY DEF CallInv
  <1>2. PICK w, h, c, made, row :
           /\ w = SectionsWritten /\ h = history' /\ c = current'
           /\ made = <<[num |-> x, new |-> TRUE, obj |-> Null]>>
           /\ row = [w[1] EXCEPT ![x] = Used(FileVal)]
    OBVIOUS
  <1>3. /\ x \in Num /\ current < MaxHistory /\ xrefLen' = x /\ Changed
        /\ index' = [index EXCEPT ![x] = 1]
        /\ h = IF journal THEN Append(SubSeq(history, 1, current), made) ELSE history
        /\ c = IF journal THEN current + 1 ELSE current
        /\ file'.sections = [w EXCEPT ![1] = row]
        /\ file'.incs = incs /\ file'.xrefLen = x /\ file'.journal = journal
        /\ file'.history = [k \in DOMAIN h |-> Serialised(h[k])] /\ file'.current = c
        /\ UNCHANGED <<sections, signed, incs, localVars, journal, nesting, lost, pending>>
    BY <1>2 DEF SnapshotAsStream, Saved
  <1>4. xrefLen \in Int /\ x \in Int /\ x \in xrefLen .. MaxNum /\ xrefLen <= x
    BY <1>1, <1>3, NumberKnown, BoundsKnown DEF Num
  <1>. HIDE DEF x
  <1>5. NowSound'
    <2>1. DocSound(sections, incs, x)
      BY <1>1, <1>4, DocumentGrows DEF NowSound
    <2>2. index \in [Num -> 1 .. Len(sections)] /\ 1 \in 1 .. Len(sections)
      BY <1>1, BoundsKnown DEF NowSound, DocSound
    <2>. QED
      BY <1>1, <1>3, <2>1, <2>2 DEF NowSound
  <1>6. HistorySound(h, c)
    <2>1. CASE journal
      <3>1. PICK f, e : f = [num |-> x, new |-> TRUE, obj |-> Null] /\ e = <<>>
        OBVIOUS
      <3>2. f \in Fragment /\ f.num <= MaxNum
        BY <1>3, <1>4, <3>1, BoundsKnown DEF Fragment
      <3>3. e \in Lists(MaxNum) /\ MaxNum \in Int /\ ~Mentions(e, f.num)
        BY <3>1, NoFragments, BoundsKnown DEF Mentions
      <3>4. Append(e, f) \in Lists(MaxNum)
        BY <3>2, <3>3, Added
      <3>5. made \in Lists(MaxNum)
        BY <1>2, <3>1, <3>4
      <3>6. PICK s : s = SubSeq(history, 1, current)
        OBVIOUS
      <3>7. s \in Seq(Lists(MaxNum)) /\ Len(s) = current /\ current \in Nat
        BY <1>1, <3>6, HistoryCut DEF HistorySound
      <3>8. Append(s, made) \in Seq(Lists(MaxNum)) /\ Len(Append(s, made)) = current + 1
        BY <3>5, <3>7, AppendProperties
      <3>9. current + 1 <= MaxHistory /\ current + 1 \in 0 .. current + 1
        BY <1>3, <3>7, BoundsKnown
      <3>. QED
        BY <1>3, <2>1, <3>6, <3>8, <3>9 DEF HistorySound
    <2>2. CASE ~journal
      BY <1>1, <1>3, <2>2
    <2>. QED
      BY <2>1, <2>2
  <1>7. DocSound(file'.sections, incs, x)
    <2>1. DocSound(w, incs, x)
      BY <1>2, <1>4, SavedIs, DocumentGrows
    <2>2. /\ w \in Seq(Row) /\ 1 \in 1 .. Len(w) /\ incs > 0
          /\ Len(w) = incs + 1 /\ incs \in Nat
      BY <1>3, <2>1, BoundsKnown DEF DocSound, Changed
    <2>3. w[1] \in Row /\ Below(w[1], x)
      BY <2>1, <2>2, ElementOfSeq DEF DocSound
    <2>4. Used(FileVal) \in Entry
      BY JournalAssumption DEF Used, Entry
    <2>5. row \in Row /\ Below(row, x)
      <3>1. PICK t, e : t = w[1] /\ e = Used(FileVal)
        OBVIOUS
      <3>2. row = [t EXCEPT ![x] = e] /\ t \in Row /\ e \in Entry /\ Below(t, x)
        BY <1>2, <2>3, <2>4, <3>1
      <3>3. row \in Row /\ \A y \in Num : row[y] = IF y = x THEN e ELSE t[y]
        BY <3>2 DEF Row
      <3>4. x <= x
        BY <1>4
      <3>. QED
        BY <3>2, <3>3, <3>4 DEF Below
    <2>6. PICK r : r = [w EXCEPT ![1] = row]
      OBVIOUS
    <2>7. r \in Seq(Row) /\ Len(r) = Len(w) /\ \A i \in 1 .. Len(w) : r[i] = IF i = 1 THEN row ELSE w[i]
      BY <2>2, <2>5, <2>6, ExceptSeq
    <2>8. \A i \in 1 .. Len(r) : Below(r[i], IF i = Len(r) THEN FileLen ELSE x)
      BY <2>1, <2>2, <2>5, <2>7 DEF DocSound
    <2>9. DocSound(r, incs, x)
      BY <2>1, <2>7, <2>8 DEF DocSound
    <2>. QED
      BY <1>3, <2>6, <2>9
  <1>8. FileSound'
    <2>1. HistorySound(file'.history, file'.current)
      <3>1. PICK g : g = [k \in DOMAIN h |-> Serialised(h[k])]
        OBVIOUS
      <3>2. HistorySound(g, c)
        BY <1>6, <3>1, HistorySaved
      <3>. QED
        BY <1>3, <3>1, <3>2
    <2>2. journal \in BOOLEAN
      BY <1>1 DEF OpenSound
    <2>. QED
      BY <1>3, <1>7, <2>1, <2>2 DEF FileSound
  <1>9. OpenSound'
    <2>1. pending \in Seq(Operation(x))
      BY <1>1, <1>4, OperationsGrow DEF OpenSound
    <2>. QED
      BY <1>1, <1>3, <2>1 DEF OpenSound
  <1>10. LocalSound' /\ HistorySound(history, current)'
    BY <1>1, <1>2, <1>3, <1>6 DEF LocalSound, localVars
  <1>. QED
    BY <1>5, <1>8, <1>9, <1>10 DEF CallInv

\* A program that died goes on with what it saved.
LEMMA ReopenSound == ASSUME CallInv, Reopen PROVE CallInv'
  <1>1. /\ sections' = file.sections
        /\ signed' = [i \in DOMAIN file.sections |-> FALSE]
        /\ incs' = file.incs /\ xrefLen' = file.xrefLen
        /\ index' = [x \in Num |-> 1]
        /\ local' = <<>> /\ localLen' = 0 /\ localNesting' = 0
        /\ journal' = file.journal
        /\ nesting' = 0 /\ lost' = 0 /\ pending' = <<>>
        /\ history' = file.history /\ current' = file.current
        /\ file' = file
    BY DEF Reopen
  <1>2. FileSound
    BY DEF CallInv
  <1>3. /\ file.sections \in Seq(Row) /\ Len(file.sections) \in 1 .. MaxSections
    BY <1>2 DEF FileSound, DocSound
  <1>4. NowSound'
    <2>1. DOMAIN file.sections = 1 .. Len(file.sections) /\ Len(file.sections) \in Nat
      BY <1>3, LenProperties
    <2>2. signed' \in [1 .. Len(file.sections) -> BOOLEAN]
      BY <1>1, <2>1
    <2>3. signed' \in Seq(BOOLEAN) /\ Len(signed') = Len(file.sections)
      BY <2>1, <2>2
    <2>4. 1 \in 1 .. Len(file.sections)
      BY <1>3, BoundsKnown
    <2>5. index' \in [Num -> 1 .. Len(file.sections)]
      BY <1>1, <2>4
    <2>. QED
      BY <1>1, <1>2, <2>3, <2>5 DEF FileSound, NowSound
  <1>5. LocalSound'
    BY <1>1, BoundsKnown DEF LocalSound
  <1>6. OpenSound'
    <2>1. <<>> \in Seq(Operation(xrefLen')) /\ Len(<<>>) = 0
      BY EmptySeq
    <2>2. file.journal \in BOOLEAN
      BY <1>2 DEF FileSound
    <2>. QED
      BY <1>1, <2>1, <2>2, BoundsKnown DEF OpenSound
  <1>7. HistorySound(history, current)' /\ FileSound'
    BY <1>1, <1>2 DEF FileSound
  <1>. QED
    BY <1>4, <1>5, <1>6, <1>7 DEF CallInv

-----------------------------------------------------------------------------

\* A document as it is opened.
LEMMA InitSound == Init => CallInv
  <1>. SUFFICES ASSUME Init PROVE CallInv
    OBVIOUS
  <1>1. /\ sections = <<FileSection>> /\ signed = <<FALSE>>
        /\ incs = 0 /\ xrefLen = FileLen
        /\ index = [x \in Num |-> 1]
        /\ local = <<>> /\ localLen = 0 /\ localNesting = 0
        /\ journal = FALSE /\ nesting = 0 /\ lost = 0
        /\ pending = <<>> /\ history = <<>> /\ current = 0
        /\ file.sections = sections /\ file.incs = 0 /\ file.xrefLen = FileLen
        /\ file.journal = FALSE /\ file.history = <<>> /\ file.current = 0
    BY DEF Init
  <1>2. FileSection \in Row /\ Below(FileSection, FileLen)
    <2>1. Used(FileVal) \in Entry /\ Absent \in Entry
      BY JournalAssumption DEF Used, Absent, Entry
    <2>2. FileSection \in Row
      BY <2>1 DEF FileSection, Row
    <2>3. Below(FileSection, FileLen)
      BY DEF FileSection, Below, Absent
    <2>. QED
      BY <2>2, <2>3
  <1>3. sections \in Seq(Row) /\ Len(sections) = 1 /\ sections[1] = FileSection
    <2>. HIDE DEF FileSection, Row
    <2>. QED
      BY <1>1, <1>2
  <1>4. DocSound(sections, 0, FileLen)
    <2>1. 1 \in 1 .. MaxSections /\ FileLen \in FileLen .. MaxNum
      BY BoundsKnown
    <2>2. \A i \in 1 .. Len(sections) : Below(sections[i], FileLen)
      BY <1>2, <1>3
    <2>. QED
      BY <1>3, <2>1, <2>2 DEF DocSound
  <1>5. NowSound
    <2>1. signed \in Seq(BOOLEAN) /\ Len(signed) = 1
      BY <1>1
    <2>. QED
      BY <1>1, <1>3, <1>4, <2>1 DEF NowSound
  <1>6. LocalSound
    BY <1>1, BoundsKnown DEF LocalSound
  <1>7. \A S : <<>> \in Seq(S) /\ Len(<<>>) = 0
    BY EmptySeq
  <1>8. OpenSound
    <2>1. pending \in Seq(Operation(xrefLen)) /\ Len(pending) = nesting
      BY <1>1, <1>7
    <2>2. nesting \in 0 .. MaxNesting
      BY <1>1, BoundsKnown
    <2>3. journal \in BOOLEAN
      BY Zenon, <1>1
    <2>4. lost \in 0 .. nesting /\ Len(pending) \in nesting - lost .. nesting
      BY <1>1, <2>1
    <2>. QED
      BY <2>1, <2>2, <2>3, <2>4 DEF OpenSound
  <1>9. HistorySound(<<>>, 0)
    BY <1>7, BoundsKnown DEF HistorySound
  <1>10. FileSound
    BY <1>1, <1>4, <1>9 DEF FileSound
  <1>. QED
    BY <1>1, <1>5, <1>6, <1>8, <1>9, <1>10 DEF CallInv

\* Every call.
LEMMA NextSound == ASSUME CallInv, [Next]_vars PROVE CallInv'
  <1>1. ASSUME NEW x \in Num, NEW v \in Val, Alter(x, v) \/ Update(x, v) PROVE CallInv'
    BY <1>1, AlterSound, UpdateSound
  <1>2. ASSUME NEW v \in Val, Add(v) PROVE CallInv'
    BY <1>2, AddSound
  <1>3. CASE Enable
    BY <1>3, EnableSound
  <1>4. ASSUME NEW named \in BOOLEAN, Begin(named) PROVE CallInv'
    BY <1>4, BeginSound
  <1>5. CASE EndInner \/ EndEmpty \/ EndNamed \/ EndImplicit
    BY <1>5, EndInnerSound, EndEmptySound, EndNamedSound, EndImplicitSound
  <1>6. CASE Abandon \/ Undo \/ Redo
    BY <1>6, AbandonSound, UndoSound, RedoSound
  <1>7. ASSUME NEW x \in Num, Load(x) PROVE CallInv'
    BY <1>7, LoadSound
  <1>8. CASE AddFails \/ BeginFails
    BY <1>8, AddFailsSound, BeginFailsSound
  <1>9. ASSUME NEW x \in Num, NEW moved \in BOOLEAN, AlterFails(x, moved) PROVE CallInv'
    BY <1>9, AlterFailsSound
  <1>10. CASE Push \/ EnsureLocal \/ Pop \/ PopAndDiscard \/ LocalAdd
    BY <1>10, PushSound, EnsureLocalSound, PopSound, PopAndDiscardSound, LocalAddSound
  <1>11. ASSUME NEW x \in Num, LocalAlter(x) PROVE CallInv'
    BY <1>11, LocalAlterSound
  <1>12. CASE Sign
    BY <1>12, SignSound
  <1>13. CASE Snapshot \/ SnapshotAsStream \/ Reopen
    BY <1>13, SnapshotSound, SnapshotAsStreamSound, ReopenSound
  <1>14. CASE UNCHANGED vars
    BY <1>14 DEF vars, xrefVars, localVars, journalVars, CallInv, NowSound, LocalSound,
                 OpenSound, FileSound
  <1>. QED
    BY <1>1, <1>2, <1>3, <1>4, <1>5, <1>6, <1>7, <1>8, <1>9, <1>10, <1>11, <1>12,
       <1>13, <1>14 DEF Next

\* So it is always.
LEMMA SoundAlways == Spec => []CallInv
  BY InitSound, NextSound, PTL DEF Spec

\* The invariant says what TypeOK says,
LEMMA TypesFollow == CallInv => TypeOK
  <1>. SUFFICES ASSUME CallInv PROVE TypeOK
    OBVIOUS
  <1>1. /\ NowSound /\ LocalSound /\ OpenSound /\ HistorySound(history, current) /\ FileSound
    BY DEF CallInv
  <1>2. /\ sections \in Seq([Num -> Entry]) /\ Len(sections) \in 1 .. MaxSections
        /\ incs \in Nat /\ Len(sections) = incs + 1
        /\ xrefLen \in FileLen .. MaxNum
    BY <1>1 DEF NowSound, DocSound, Row
  <1>3. signed \in [DOMAIN sections -> BOOLEAN]
    <2>1. DOMAIN sections = 1 .. Len(sections)
      BY <1>2, LenProperties
    <2>2. signed \in [1 .. Len(signed) -> BOOLEAN] /\ Len(signed) = Len(sections)
      BY <1>1, LenProperties DEF NowSound
    <2>. QED
      BY <2>1, <2>2
  <1>4. incs \in 0 .. Len(sections) - 1
    BY <1>2
  <1>5. pending \in Seq([named : BOOLEAN, frags : Seq(Fragment)])
    <2>1. Operation(xrefLen) \subseteq [named : BOOLEAN, frags : Seq(Fragment)]
      BY DEF Operation, Lists
    <2>. QED
      BY <1>1, <2>1, SeqMonotonic DEF OpenSound
  <1>6. history \in Seq(Seq(Fragment))
    <2>1. Lists(MaxNum) \subseteq Seq(Fragment)
      BY DEF Lists
    <2>. QED
      BY <1>1, <2>1, SeqMonotonic DEF HistorySound
  <1>. QED
    BY <1>1, <1>2, <1>3, <1>4, <1>5, <1>6
       DEF TypeOK, NowSound, LocalSound, OpenSound, HistorySound

\* and that a list mentions an object once.
LEMMA OnceFollows == CallInv => ObjectsOnce
  <1>. SUFFICES ASSUME CallInv PROVE ObjectsOnce
    OBVIOUS
  <1>1. \A k \in DOMAIN pending : Once(pending[k].frags)
    <2>1. pending \in Seq(Operation(xrefLen))
      BY DEF CallInv, OpenSound
    <2>2. \A k \in DOMAIN pending : pending[k] \in Operation(xrefLen)
      BY <2>1, LenProperties, ElementOfSeq
    <2>. QED
      BY <2>2 DEF Operation, Lists
  <1>2. \A k \in DOMAIN history : Once(history[k])
    <2>1. history \in Seq(Lists(MaxNum))
      BY DEF CallInv, HistorySound
    <2>2. \A k \in DOMAIN history : history[k] \in Lists(MaxNum)
      BY <2>1, LenProperties, ElementOfSeq
    <2>. QED
      BY <2>2 DEF Lists
  <1>. QED
    BY <1>1, <1>2 DEF ObjectsOnce

\* Between calls the document's tables and its journal are sound, for documents,
\* nestings and histories of any size: every value has its type, no entry of the
\* history and no open operation mentions an object twice (or undo and redo, which
\* run through it in the same order, would restore the wrong value), and the index
\* hides no newer value.
THEOREM JournalIsSound == Spec => []JournalSound
  BY SoundAlways, TypesFollow, OnceFollows, IndexIsCurrent, PTL DEF JournalSound
=============================================================================
