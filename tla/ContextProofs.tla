--------------------------- MODULE ContextProofs ---------------------------
(***************************************************************************)
(* Theorems about Context, for any number of clones and of shared parts.   *)
(*                                                                         *)
(* context_count does not count the contexts that are alive: a clone is    *)
(* counted before it is returned, and a context that is being dropped is   *)
(* no longer counted while it still uses its parts.  CountExact says what  *)
(* it does count.  That the master's memory is there for whoever may use   *)
(* it follows from that count, once the family is known to agree on who    *)
(* its master is (OneMaster) and each half-made clone to have one maker    *)
(* (OneMaker).                                                           *)
(***************************************************************************)
EXTENDS Context, FiniteSetTheorems, TLAPS

LooseTypeOK ==
    /\ memory \in [Contexts -> {"unused", "used", "freed", "freed twice"}]
    /\ master \in [Contexts -> {Root, Nobody}]
    /\ count \in Int
    /\ pc \in [Contexts -> PCs]
    /\ child \in [Contexts -> Clones \cup {Nobody}]
    /\ refs \in [PartSet -> Int]
    /\ shares \in [Contexts -> SUBSET PartSet]

(* The contexts in the count of the master: those that may still be used,  *)
(* and the clones that are getting their references.                       *)
Kept(d) == \E c \in Contexts : pc[c] = "keep" /\ child[c] = d
Counted == {d \in Contexts : pc[d] \in {"new", "idle", "clone", "keep"} \/ Kept(d)}

CountExact == count = Cardinality(Counted)

(* A half-made clone has one maker, and nobody else can use it.            *)
ChildWhileCloning ==
    \A c \in Contexts : child[c] # Nobody <=> pc[c] \in {"clone", "keep"}
ChildUnborn ==
    \A c \in Contexts : child[c] # Nobody =>
        pc[child[c]] = "absent" /\ memory[child[c]] = "used"
OneMaker ==
    \A c, d \in Contexts : child[c] = child[d] /\ child[c] # Nobody => c = d

(* While fz_new_context is making the master there is nobody else.         *)
NewAlone ==
    /\ pc[Root] # "absent"
    /\ \A c \in Clones : pc[c] # "new"
    /\ pc[Root] = "new" => \A c \in Clones : pc[c] = "absent"

PartsHeld == \A c \in Contexts : shares[c] # {} => Alive(c) \/ Kept(c)

OneMaster ==
    \A c \in Contexts : Alive(c) \/ Kept(c) => master[c] = Root

ClonesMemory ==
    \A c \in Clones :
        /\ Alive(c) => memory[c] = "used"
        /\ pc[c] = "gone" => memory[c] = "freed"
        /\ pc[c] = "absent" => memory[c] \in {"unused", "used"}
        /\ pc[c] = "absent" /\ memory[c] = "used" =>
             \E k \in Contexts : child[k] = c

(* What holds even when the master is dropped at the wrong moment.         *)
Ledger ==
    /\ LooseTypeOK
    /\ CountExact
    /\ ChildWhileCloning /\ ChildUnborn /\ OneMaker
    /\ NewAlone
    /\ PartsHeld
    /\ OneMaster
    /\ ClonesMemory
    /\ PartsShared

(* The memory of the master: once it has been dropped, it is there as long *)
(* as the family is not, or the last child is on its way to free it.       *)
MastersMemory ==
    /\ \A c \in Contexts : pc[c] = "freeMaster" =>
          c # Root /\ pc[Root] = "gone" /\ count = 0
    /\ \A c, d \in Contexts : pc[c] = "freeMaster" /\ pc[d] = "freeMaster" => c = d
    /\ Alive(Root) => memory[Root] = "used"
    /\ pc[Root] = "gone" =>
          memory[Root] = IF count # 0 \/ \E c \in Contexts : pc[c] = "freeMaster"
                         THEN "used" ELSE "freed"

IInv == Ledger /\ MastersMemory

-----------------------------------------------------------------------------

\* The names of a family are distinct.
LEMMA Family ==
    /\ Root \in Contexts /\ Clones \subseteq Contexts
    /\ Root \notin Clones /\ Nobody \notin Contexts /\ Nobody \notin Clones
    /\ \A c \in Contexts : c # Root => c \in Clones
  BY ContextAssumption DEF Contexts, Nobody

\* A family is finite, and so are the sets its counters count.
LEMMA FamilyFinite ==
    /\ IsFiniteSet(Contexts)
    /\ \A S \in SUBSET Contexts :
          /\ IsFiniteSet(S) /\ Cardinality(S) \in Nat
          /\ Cardinality(S) <= Cardinality(Contexts)
          /\ Cardinality(S) = 0 <=> S = {}
          /\ \A c \in Contexts \ S : Cardinality(S \cup {c}) = Cardinality(S) + 1
          /\ \A c \in S : Cardinality(S \ {c}) = Cardinality(S) - 1
  <1>2. Contexts = Clones \cup {Root} /\ IsFiniteSet(Clones)
    BY ContextAssumption DEF Contexts
  <1>3. IsFiniteSet(Contexts)
    BY <1>2, FS_AddElement
  <1>4. ASSUME NEW S \in SUBSET Contexts
        PROVE  /\ IsFiniteSet(S) /\ Cardinality(S) \in Nat
               /\ Cardinality(S) <= Cardinality(Contexts)
               /\ Cardinality(S) = 0 <=> S = {}
               /\ \A c \in Contexts \ S : Cardinality(S \cup {c}) = Cardinality(S) + 1
               /\ \A c \in S : Cardinality(S \ {c}) = Cardinality(S) - 1
    <2>1. IsFiniteSet(S) /\ Cardinality(S) <= Cardinality(Contexts)
      BY <1>3, FS_Subset
    <2>2. Cardinality(S) \in Nat /\ (Cardinality(S) = 0 <=> S = {})
      BY <2>1, FS_CardinalityType, FS_EmptySet
    <2>3. \A c \in Contexts \ S : Cardinality(S \cup {c}) = Cardinality(S) + 1
      BY <2>1, FS_AddElement
    <2>4. \A c \in S : Cardinality(S \ {c}) = Cardinality(S) - 1
      BY <2>1, FS_RemoveElement
    <2>. QED
      BY <2>1, <2>2, <2>3, <2>4
  <1>. QED
    BY <1>3, <1>4

(* The contexts that point to a part.                                      *)
Sharing(p) == {c \in Contexts : p \in shares[c]}

\* fz_new_context_imp starts a family that keeps the invariant.
LEMMA InitInv == Init => IInv
  <1>. SUFFICES ASSUME Init PROVE IInv
    OBVIOUS
  <1>. USE Family
  <1>1. /\ LooseTypeOK /\ ChildWhileCloning /\ ChildUnborn /\ OneMaker
        /\ NewAlone /\ PartsHeld /\ OneMaster
    BY DEF Init, LooseTypeOK, ChildWhileCloning, ChildUnborn, OneMaker,
       NewAlone, PartsHeld, OneMaster, Kept,
           Alive, PCs, Contexts
  <1>2. CountExact
    <2>1. Counted = {Root}
      BY DEF Init, Counted, Kept
    <2>. QED
      BY <2>1, FS_Singleton DEF Init, CountExact
  <1>3. ClonesMemory
    BY DEF Init, ClonesMemory, Alive
  <1>4. PartsShared
    BY FS_EmptySet DEF Init, PartsShared
  <1>5. MastersMemory
    BY DEF Init, MastersMemory, Alive
  <1>. QED
    BY <1>1, <1>2, <1>3, <1>4, <1>5 DEF IInv, Ledger

(* PartsShared in terms of Sharing, before and after a step.               *)
LEMMA PartsSharedNext ==
    ASSUME \A p \in PartSet : refs'[p] = Cardinality(Sharing(p)')
    PROVE  PartsShared'
  BY DEF PartsShared, Sharing

-----------------------------------------------------------------------------

\* Each step of fz_new_context, fz_clone_context and fz_drop_context keeps the
\* ledger, whenever the master is dropped.
LEMMA LedgerStep == Ledger /\ [Next]_vars => Ledger'
  <1>. SUFFICES ASSUME Ledger, [Next]_vars PROVE Ledger'
    OBVIOUS
  <1>. USE Family
  <1>0. /\ LooseTypeOK /\ CountExact /\ NewAlone
        /\ ChildWhileCloning /\ ChildUnborn /\ OneMaker
        /\ PartsHeld /\ OneMaster /\ ClonesMemory /\ PartsShared
    BY DEF Ledger
  <1>T. \A c \in Contexts : child[c] \in Clones \cup {Nobody} /\ shares[c] \in SUBSET PartSet
    BY <1>0 DEF LooseTypeOK
  <1>I. count \in Int /\ refs \in [PartSet -> Int]
    BY <1>0 DEF LooseTypeOK
  <1>S. /\ Counted \in SUBSET Contexts
        /\ \A p \in PartSet : Sharing(p) \in SUBSET Contexts
    BY DEF Counted, Sharing
  <1>R. \A p \in PartSet : refs[p] = Cardinality(Sharing(p))
    BY <1>0 DEF PartsShared, Sharing
  <1>1. ASSUME NEW i \in 1..Len(Parts), NewPart(i)
       PROVE  Ledger'
    <2>1. PICK p \in PartSet : p = Parts[i]
      BY DEF PartSet
    <2>2. refs' = [refs EXCEPT ![p] = 1]
      BY <1>1, <2>1 DEF NewPart
    <2>3. /\ pc[Root] = "new"
      BY <1>1, <1>0, <1>T DEF NewPart, ChildWhileCloning, ChildUnborn,
         OneMaker, ClonesMemory, OneMaster, NewAlone, Alive, Kept
    <2>4. /\ \A q \in PartSet : refs'[q] = IF q = p THEN 1 ELSE refs[q]
          /\ \A x \in Contexts : shares'[x] = IF x = Root THEN shares[x] \cup {p} ELSE shares[x]
          /\ memory' = memory
          /\ master' = master
          /\ count' = count
          /\ pc' = pc
          /\ child' = child
      BY <1>1, <1>0, <2>3, <2>1 DEF NewPart, LooseTypeOK, OneMaster,
         ClonesMemory, Alive
    <2>5. LooseTypeOK'
      <3>1. refs' \in [PartSet -> Int]
        BY <1>1, <1>I, <2>2
      <3>2. shares' \in [Contexts -> SUBSET PartSet]
        BY <1>1, <1>0, <2>3, <2>1 DEF LooseTypeOK, NewPart
      <3>. QED
        BY <1>0, <2>4, <3>1, <3>2 DEF LooseTypeOK
    <2>6. ChildWhileCloning' /\ NewAlone'
      BY <1>0, <2>3, <2>4 DEF ChildWhileCloning, NewAlone
    <2>7. ChildUnborn' /\ OneMaker'
      BY <1>0, <2>3, <2>4, <1>T DEF ChildUnborn, OneMaker, ChildWhileCloning,
         NewAlone
    <2>8. CountExact'
      <3>1. Counted' = Counted
        BY <1>0, <2>3, <2>4 DEF Counted, Kept, ChildWhileCloning, OneMaker,
           NewAlone
      <3>. QED
        BY <1>0, <2>4, <3>1 DEF CountExact
    <2>9. PartsHeld' /\ OneMaster'
      BY <1>0, <2>3, <2>4 DEF PartsHeld, OneMaster, Alive, Kept,
         ChildWhileCloning, OneMaker, NewAlone
    <2>10. ClonesMemory'
      BY <1>0, <2>3, <2>4 DEF ClonesMemory, ChildWhileCloning, Alive, NewAlone
    <2>11. PartsShared'
      <3>1. \A c \in Clones : shares[c] = {}
        BY <1>0, <2>3, <2>4 DEF NewAlone, ChildWhileCloning, PartsHeld, Alive,
           Kept
      <3>2. \A q \in PartSet : Sharing(q)' = IF q = p THEN {Root} ELSE Sharing(q)
        BY <1>0, <2>3, <2>4, <3>1 DEF Sharing
      <3>. QED
        BY <1>0, <2>3, <2>4, <1>R, <3>2, FS_Singleton, PartsSharedNext
    <2>. QED
      BY <2>5, <2>6, <2>7, <2>8, <2>9, <2>10, <2>11 DEF Ledger
  <1>2. ASSUME NewDone
       PROVE  Ledger'
    <2>1. /\ pc[Root] = "new"
      BY <1>2, <1>0, <1>T DEF NewDone, Go, ChildWhileCloning, ChildUnborn,
         OneMaker, ClonesMemory, OneMaster, NewAlone, Alive, Kept
    <2>2. /\ \A x \in Contexts : pc'[x] = IF x = Root THEN "idle" ELSE pc[x]
          /\ memory' = memory
          /\ master' = master
          /\ count' = count
          /\ child' = child
          /\ refs' = refs
          /\ shares' = shares
      BY <1>2, <1>0, <2>1 DEF NewDone, Go, LooseTypeOK, OneMaster,
         ClonesMemory, Alive
    <2>3. LooseTypeOK'
      BY <1>2, <1>0, <2>1 DEF LooseTypeOK, NewDone, Go, PCs
    <2>4. ChildWhileCloning' /\ NewAlone'
      BY <1>0, <2>1, <2>2 DEF ChildWhileCloning, NewAlone
    <2>5. ChildUnborn' /\ OneMaker'
      BY <1>0, <2>1, <2>2, <1>T DEF ChildUnborn, OneMaker, ChildWhileCloning,
         NewAlone
    <2>6. CountExact'
      <3>1. Counted' = Counted
        BY <1>0, <2>1, <2>2 DEF Counted, Kept, ChildWhileCloning, OneMaker,
           NewAlone
      <3>. QED
        BY <1>0, <2>2, <3>1 DEF CountExact
    <2>7. PartsHeld' /\ OneMaster'
      BY <1>0, <2>1, <2>2 DEF PartsHeld, OneMaster, Alive, Kept,
         ChildWhileCloning, OneMaker, NewAlone
    <2>8. ClonesMemory'
      BY <1>0, <2>1, <2>2 DEF ClonesMemory, ChildWhileCloning, Alive, NewAlone
    <2>9. PartsShared'
      BY <1>0, <2>2 DEF PartsShared
    <2>. QED
      BY <2>3, <2>4, <2>5, <2>6, <2>7, <2>8, <2>9 DEF Ledger
  <1>3. ASSUME NEW c \in Contexts, NEW d \in Clones, CloneMalloc(c, d)
       PROVE  Ledger'
    <2>1. /\ pc[c] = "idle"
          /\ memory[d] = "unused"
          /\ pc[d] = "absent"
          /\ d # c
          /\ \A k \in Contexts : child[k] # d
      BY <1>3, <1>0, <1>T DEF CloneMalloc, Go, ChildWhileCloning, ChildUnborn,
         OneMaker, ClonesMemory, OneMaster, NewAlone, Alive, Kept
    <2>2. /\ \A x \in Contexts : memory'[x] = IF x = d THEN "used" ELSE memory[x]
          /\ \A x \in Contexts : pc'[x] = IF x = c THEN "clone" ELSE pc[x]
          /\ \A x \in Contexts : child'[x] = IF x = c THEN d ELSE child[x]
          /\ master' = master
          /\ count' = count
          /\ refs' = refs
          /\ shares' = shares
      BY ZenonT(40), <1>3, <1>0, <2>1 DEF CloneMalloc, Go, LooseTypeOK, OneMaster,
         ClonesMemory, Alive
    <2>3. LooseTypeOK'
      BY <1>3, <1>0, <2>1 DEF LooseTypeOK, CloneMalloc, Go, PCs
    <2>4. ChildWhileCloning' /\ NewAlone'
      BY <1>0, <2>1, <2>2 DEF ChildWhileCloning, NewAlone
    <2>5. ChildUnborn' /\ OneMaker'
      BY <1>0, <2>1, <2>2, <1>T DEF ChildUnborn, OneMaker, ChildWhileCloning,
         NewAlone
    <2>6. CountExact'
      <3>1. Counted' = Counted
        BY <1>0, <2>1, <2>2 DEF Counted, Kept, ChildWhileCloning, OneMaker,
           NewAlone
      <3>. QED
        BY <1>0, <2>2, <3>1 DEF CountExact
    <2>7. PartsHeld' /\ OneMaster'
      BY <1>0, <2>1, <2>2 DEF PartsHeld, OneMaster, Alive, Kept,
         ChildWhileCloning, OneMaker, NewAlone
    <2>8. ClonesMemory'
      BY <1>0, <2>1, <2>2 DEF ClonesMemory, ChildWhileCloning, Alive, NewAlone
    <2>9. PartsShared'
      BY <1>0, <2>2 DEF PartsShared
    <2>. QED
      BY <2>3, <2>4, <2>5, <2>6, <2>7, <2>8, <2>9 DEF Ledger
  <1>4. ASSUME NEW c \in Contexts, CloneCount(c)
       PROVE  Ledger'
    <2>1. /\ pc[c] = "clone"
          /\ child[c] \in Clones
          /\ child[c] # c
          /\ pc[child[c]] = "absent"
          /\ ~Kept(child[c])
          /\ master[c] = Root
      BY <1>4, <1>0, <1>T DEF CloneCount, Go, ChildWhileCloning, ChildUnborn,
         OneMaker, ClonesMemory, OneMaster, NewAlone, Alive, Kept
    <2>2. /\ \A x \in Contexts : master'[x] = IF x = child[c] THEN Root ELSE master[x]
          /\ count' = count + 1
          /\ \A x \in Contexts : pc'[x] = IF x = c THEN "keep" ELSE pc[x]
          /\ memory' = memory
          /\ child' = child
          /\ refs' = refs
          /\ shares' = shares
      BY <1>4, <1>0, <2>1 DEF CloneCount, Go, LooseTypeOK, OneMaster,
         ClonesMemory, Alive
    <2>3. LooseTypeOK'
      <3>1. count' \in Int
        BY <1>4, <1>I DEF CloneCount
      <3>2. master' \in [Contexts -> {Root, Nobody}]
        BY <1>4, <1>0, <2>1 DEF LooseTypeOK, CloneCount, Go
      <3>3. pc' \in [Contexts -> PCs]
        BY <1>4, <1>0, <2>1 DEF LooseTypeOK, CloneCount, Go, PCs
      <3>. QED
        BY <1>0, <2>2, <3>1, <3>2, <3>3 DEF LooseTypeOK
    <2>4. ChildWhileCloning' /\ NewAlone'
      BY <1>0, <2>1, <2>2 DEF ChildWhileCloning, NewAlone
    <2>5. ChildUnborn' /\ OneMaker'
      BY <1>0, <2>1, <2>2, <1>T DEF ChildUnborn, OneMaker, ChildWhileCloning,
         NewAlone
    <2>6. CountExact'
      <3>1. Counted' = Counted \cup {child[c]} /\ child[c] \in Contexts \ Counted
        BY <1>0, <2>1, <2>2 DEF Counted, Kept, ChildWhileCloning, OneMaker,
           NewAlone
      <3>. QED
        BY <1>0, <2>2, <3>1, <1>S, FamilyFinite DEF CountExact
    <2>7. PartsHeld' /\ OneMaster'
      BY <1>0, <2>1, <2>2 DEF PartsHeld, OneMaster, Alive, Kept,
         ChildWhileCloning, OneMaker, NewAlone
    <2>8. ClonesMemory'
      BY <1>0, <2>1, <2>2 DEF ClonesMemory, ChildWhileCloning, Alive, NewAlone
    <2>9. PartsShared'
      BY <1>0, <2>2 DEF PartsShared
    <2>. QED
      BY <2>3, <2>4, <2>5, <2>6, <2>7, <2>8, <2>9 DEF Ledger
  <1>5. ASSUME NEW c \in Contexts, NEW p \in PartSet, CloneKeep(c, p)
       PROVE  Ledger'
    <2>1. /\ pc[c] = "keep"
          /\ child[c] \in Clones
          /\ Kept(child[c])
          /\ p \notin shares[child[c]]
      BY <1>5, <1>0, <1>T DEF CloneKeep, ChildWhileCloning, ChildUnborn,
         OneMaker, ClonesMemory, OneMaster, NewAlone, Alive, Kept
    <2>2. /\ \A q \in PartSet : refs'[q] = IF q = p THEN refs[q] + 1 ELSE refs[q]
          /\ \A x \in Contexts : shares'[x] = IF x = child[c] THEN shares[x] \cup {p} ELSE shares[x]
          /\ memory' = memory
          /\ master' = master
          /\ count' = count
          /\ pc' = pc
          /\ child' = child
      BY <1>5, <1>0, <2>1 DEF CloneKeep, LooseTypeOK, OneMaster, ClonesMemory,
         Alive
    <2>3. LooseTypeOK'
      <3>1. refs' \in [PartSet -> Int]
        BY <1>5, <1>I DEF CloneKeep
      <3>2. shares' \in [Contexts -> SUBSET PartSet]
        BY <1>5, <1>0, <2>1 DEF LooseTypeOK, CloneKeep
      <3>. QED
        BY <1>0, <2>2, <3>1, <3>2 DEF LooseTypeOK
    <2>4. ChildWhileCloning' /\ NewAlone'
      BY <1>0, <2>1, <2>2 DEF ChildWhileCloning, NewAlone
    <2>5. ChildUnborn' /\ OneMaker'
      BY <1>0, <2>1, <2>2, <1>T DEF ChildUnborn, OneMaker, ChildWhileCloning,
         NewAlone
    <2>6. CountExact'
      <3>1. Counted' = Counted
        BY <1>0, <2>1, <2>2 DEF Counted, Kept, ChildWhileCloning, OneMaker,
           NewAlone
      <3>. QED
        BY <1>0, <2>2, <3>1 DEF CountExact
    <2>7. PartsHeld' /\ OneMaster'
      BY ZenonT(40), <1>0, <2>1, <2>2 DEF PartsHeld, OneMaster, Alive, Kept,
         ChildWhileCloning, OneMaker, NewAlone
    <2>8. ClonesMemory'
      BY <1>0, <2>1, <2>2 DEF ClonesMemory, ChildWhileCloning, Alive, NewAlone
    <2>9. PartsShared'
      <3>1. child[c] \in Contexts \ Sharing(p)
        BY <2>1 DEF Sharing
      <3>2. \A q \in PartSet : Sharing(q)' = IF q = p THEN Sharing(p) \cup {child[c]} ELSE Sharing(q)
        BY ZenonT(40), <2>1, <2>2 DEF Sharing
      <3>. QED
        BY <1>0, <2>1, <2>2, <1>R, <1>S, <3>1, <3>2, FamilyFinite, PartsSharedNext
    <2>. QED
      BY <2>3, <2>4, <2>5, <2>6, <2>7, <2>8, <2>9 DEF Ledger
  <1>6. ASSUME NEW c \in Contexts, CloneDone(c)
       PROVE  Ledger'
    <2>1. /\ pc[c] = "keep"
          /\ child[c] \in Clones
          /\ child[c] # c
          /\ pc[child[c]] = "absent"
          /\ memory[child[c]] = "used"
          /\ Kept(child[c])
      BY <1>6, <1>0, <1>T DEF CloneDone, ChildWhileCloning, ChildUnborn,
         OneMaker, ClonesMemory, OneMaster, NewAlone, Alive, Kept
    <2>2. /\ \A x \in Contexts : pc'[x] = IF x = c \/ x = child[c] THEN "idle" ELSE pc[x]
          /\ \A x \in Contexts : child'[x] = IF x = c THEN Nobody ELSE child[x]
          /\ memory' = memory
          /\ master' = master
          /\ count' = count
          /\ refs' = refs
          /\ shares' = shares
      BY <1>6, <1>0, <2>1 DEF CloneDone, LooseTypeOK, OneMaster, ClonesMemory,
         Alive
    <2>3. LooseTypeOK'
      BY <1>6, <1>0, <2>1 DEF LooseTypeOK, CloneDone, PCs
    <2>4. ChildWhileCloning' /\ NewAlone'
      BY <1>0, <2>1, <2>2 DEF ChildWhileCloning, NewAlone
    <2>5. ChildUnborn' /\ OneMaker'
      BY <1>0, <2>1, <2>2, <1>T DEF ChildUnborn, OneMaker, ChildWhileCloning,
         NewAlone
    <2>6. CountExact'
      <3>1. Counted' = Counted
        BY <1>0, <2>1, <2>2 DEF Counted, Kept, ChildWhileCloning, OneMaker,
           NewAlone
      <3>. QED
        BY <1>0, <2>2, <3>1 DEF CountExact
    <2>7. PartsHeld' /\ OneMaster'
      BY <1>0, <2>1, <2>2 DEF PartsHeld, OneMaster, Alive, Kept,
         ChildWhileCloning, OneMaker, NewAlone
    <2>8. ClonesMemory'
      BY <1>0, <2>1, <2>2 DEF ClonesMemory, ChildWhileCloning, Alive, NewAlone
    <2>9. PartsShared'
      BY <1>0, <2>2 DEF PartsShared
    <2>. QED
      BY <2>3, <2>4, <2>5, <2>6, <2>7, <2>8, <2>9 DEF Ledger
  <1>7. ASSUME NEW c \in Contexts, DropCount(c)
       PROVE  Ledger'
    <2>1. /\ pc[c] \in {"new", "idle"}
          /\ child[c] = Nobody
          /\ \A k \in Contexts : child[k] # c
      BY <1>7, <1>0, <1>T DEF DropCount, Go, ChildWhileCloning, ChildUnborn,
         OneMaker, ClonesMemory, OneMaster, NewAlone, Alive, Kept
    <2>2. /\ count' = count - 1
          /\ \E l \in {"freeMaster", "parts"} : \A x \in Contexts : pc'[x] = IF x = c THEN l ELSE pc[x]
          /\ memory' = memory
          /\ master' = master
          /\ child' = child
          /\ refs' = refs
          /\ shares' = shares
      BY <1>7, <1>0, <2>1 DEF DropCount, Go, LooseTypeOK, OneMaster,
         ClonesMemory, Alive
    <2>3. LooseTypeOK'
      <3>1. count' \in Int
        BY <1>7, <1>I DEF DropCount
      <3>2. pc' \in [Contexts -> PCs]
        BY <1>7, <1>0, <2>1 DEF LooseTypeOK, DropCount, Go, PCs
      <3>. QED
        BY <1>0, <2>2, <3>1, <3>2 DEF LooseTypeOK
    <2>4. ChildWhileCloning' /\ NewAlone'
      BY <1>0, <2>1, <2>2 DEF ChildWhileCloning, NewAlone
    <2>5. ChildUnborn' /\ OneMaker'
      BY <1>0, <2>1, <2>2, <1>T DEF ChildUnborn, OneMaker, ChildWhileCloning,
         NewAlone
    <2>6. CountExact'
      <3>1. Counted' = Counted \ {c} /\ c \in Counted
        BY <1>0, <2>1, <2>2 DEF Counted, Kept, ChildWhileCloning, OneMaker,
           NewAlone
      <3>. QED
        BY <1>0, <2>2, <3>1, <1>S, FamilyFinite DEF CountExact
    <2>7. PartsHeld' /\ OneMaster'
      BY <1>0, <2>1, <2>2 DEF PartsHeld, OneMaster, Alive, Kept,
         ChildWhileCloning, OneMaker, NewAlone
    <2>8. ClonesMemory'
      BY <1>0, <2>1, <2>2 DEF ClonesMemory, ChildWhileCloning, Alive, NewAlone
    <2>9. PartsShared'
      BY <1>0, <2>2 DEF PartsShared
    <2>. QED
      BY <2>3, <2>4, <2>5, <2>6, <2>7, <2>8, <2>9 DEF Ledger
  <1>8. ASSUME NEW c \in Contexts, FreeMaster(c)
       PROVE  Ledger'
    <2>1. /\ pc[c] = "freeMaster"
          /\ master[c] = Root
      BY <1>8, <1>0, <1>T DEF FreeMaster, Go, Freed, ChildWhileCloning,
         ChildUnborn, OneMaker, ClonesMemory, OneMaster, NewAlone, Alive, Kept
    <2>2. /\ \A x \in Clones : memory'[x] = memory[x]
          /\ \A x \in Contexts : pc'[x] = IF x = c THEN "parts" ELSE pc[x]
          /\ master' = master
          /\ count' = count
          /\ child' = child
          /\ refs' = refs
          /\ shares' = shares
      BY <1>8, <1>0, <2>1 DEF FreeMaster, Go, Freed, LooseTypeOK, OneMaster,
         ClonesMemory, Alive
    <2>3. LooseTypeOK'
      BY <1>8, <1>0, <2>1 DEF LooseTypeOK, FreeMaster, Go, Freed, PCs
    <2>4. ChildWhileCloning' /\ NewAlone'
      BY <1>0, <2>1, <2>2 DEF ChildWhileCloning, NewAlone
    <2>5. ChildUnborn' /\ OneMaker'
      BY <1>0, <2>1, <2>2, <1>T DEF ChildUnborn, OneMaker, ChildWhileCloning,
         NewAlone
    <2>6. CountExact'
      <3>1. Counted' = Counted
        BY <1>0, <2>1, <2>2 DEF Counted, Kept, ChildWhileCloning, OneMaker,
           NewAlone
      <3>. QED
        BY <1>0, <2>2, <3>1 DEF CountExact
    <2>7. PartsHeld' /\ OneMaster'
      BY <1>0, <2>1, <2>2 DEF PartsHeld, OneMaster, Alive, Kept,
         ChildWhileCloning, OneMaker, NewAlone
    <2>8. ClonesMemory'
      BY <1>0, <2>1, <2>2 DEF ClonesMemory, ChildWhileCloning, Alive, NewAlone
    <2>9. PartsShared'
      BY <1>0, <2>2 DEF PartsShared
    <2>. QED
      BY <2>3, <2>4, <2>5, <2>6, <2>7, <2>8, <2>9 DEF Ledger
  <1>9. ASSUME NEW c \in Contexts, NEW p \in PartSet, DropPart(c, p)
       PROVE  Ledger'
    <2>1. /\ pc[c] = "parts"
          /\ p \in shares[c]
      BY <1>9, <1>0, <1>T DEF DropPart, ChildWhileCloning, ChildUnborn,
         OneMaker, ClonesMemory, OneMaster, NewAlone, Alive, Kept
    <2>2. /\ \A q \in PartSet : refs'[q] = IF q = p THEN refs[q] - 1 ELSE refs[q]
          /\ \A x \in Contexts : shares'[x] = IF x = c THEN shares[x] \ {p} ELSE shares[x]
          /\ memory' = memory
          /\ master' = master
          /\ count' = count
          /\ pc' = pc
          /\ child' = child
      BY <1>9, <1>0, <2>1 DEF DropPart, LooseTypeOK, OneMaster, ClonesMemory,
         Alive
    <2>3. LooseTypeOK'
      <3>1. refs' \in [PartSet -> Int]
        BY <1>9, <1>I DEF DropPart
      <3>2. shares' \in [Contexts -> SUBSET PartSet]
        BY <1>9, <1>0, <2>1 DEF LooseTypeOK, DropPart
      <3>. QED
        BY <1>0, <2>2, <3>1, <3>2 DEF LooseTypeOK
    <2>4. ChildWhileCloning' /\ NewAlone'
      BY <1>0, <2>1, <2>2 DEF ChildWhileCloning, NewAlone
    <2>5. ChildUnborn' /\ OneMaker'
      BY <1>0, <2>1, <2>2, <1>T DEF ChildUnborn, OneMaker, ChildWhileCloning,
         NewAlone
    <2>6. CountExact'
      <3>1. Counted' = Counted
        BY <1>0, <2>1, <2>2 DEF Counted, Kept, ChildWhileCloning, OneMaker,
           NewAlone
      <3>. QED
        BY <1>0, <2>2, <3>1 DEF CountExact
    <2>7. PartsHeld' /\ OneMaster'
      BY <1>0, <2>1, <2>2 DEF PartsHeld, OneMaster, Alive, Kept,
         ChildWhileCloning, OneMaker, NewAlone
    <2>8. ClonesMemory'
      BY <1>0, <2>1, <2>2 DEF ClonesMemory, ChildWhileCloning, Alive, NewAlone
    <2>9. PartsShared'
      <3>1. c \in Sharing(p)
        BY <2>1 DEF Sharing
      <3>2. \A q \in PartSet : Sharing(q)' = IF q = p THEN Sharing(p) \ {c} ELSE Sharing(q)
        BY <2>1, <2>2 DEF Sharing
      <3>. QED
        BY <1>0, <2>1, <2>2, <1>R, <1>S, <3>1, <3>2, FamilyFinite, PartsSharedNext
    <2>. QED
      BY <2>3, <2>4, <2>5, <2>6, <2>7, <2>8, <2>9 DEF Ledger
  <1>10. ASSUME NEW c \in Contexts, FreeSelf(c)
       PROVE  Ledger'
    <2>1. /\ pc[c] = "parts"
          /\ shares[c] = {}
          /\ master[c] = Root
          /\ c \in Clones => memory[c] = "used"
          /\ \A k \in Contexts : child[k] # c
      BY ZenonT(40), <1>10, <1>0, <1>T DEF FreeSelf, Go, Freed, ChildUnborn, ClonesMemory,
         OneMaster, Alive
    <2>2. /\ \A x \in Clones : memory'[x] = IF x = c THEN "freed" ELSE memory[x]
          /\ \A x \in Contexts : x # c => master'[x] = master[x]
          /\ \A x \in Contexts : pc'[x] = IF x = c THEN "gone" ELSE pc[x]
          /\ count' = count
          /\ child' = child
          /\ refs' = refs
          /\ shares' = shares
      <3>1. memory \in [Contexts -> {"unused", "used", "freed", "freed twice"}]
            /\ master \in [Contexts -> {Root, Nobody}] /\ pc \in [Contexts -> PCs]
        BY <1>0 DEF LooseTypeOK
      <3>2. CASE c = Root
        BY <1>10, <2>1, <3>1, <3>2 DEF FreeSelf, Go, Freed
      <3>3. CASE c # Root
        BY <1>10, <2>1, <3>1, <3>3 DEF FreeSelf, Go, Freed
      <3>. QED
        BY <3>2, <3>3
    <2>3. LooseTypeOK'
      BY <1>10, <1>0, <2>1 DEF LooseTypeOK, FreeSelf, Go, Freed, PCs
    <2>4. ChildWhileCloning' /\ NewAlone'
      BY <1>0, <2>1, <2>2 DEF ChildWhileCloning, NewAlone
    <2>5. ChildUnborn' /\ OneMaker'
      BY <1>0, <2>1, <2>2, <1>T DEF ChildUnborn, OneMaker, ChildWhileCloning,
         NewAlone
    <2>6. CountExact'
      <3>1. Counted' = Counted
        BY <1>0, <2>1, <2>2 DEF Counted, Kept, ChildWhileCloning, OneMaker,
           NewAlone
      <3>. QED
        BY <1>0, <2>2, <3>1 DEF CountExact
    <2>7. PartsHeld' /\ OneMaster'
      BY <1>0, <2>1, <2>2, <1>T DEF PartsHeld, OneMaster, Alive, Kept,
         ChildWhileCloning, OneMaker, NewAlone
    <2>8. ClonesMemory'
      BY <1>0, <2>1, <2>2 DEF ClonesMemory, ChildWhileCloning, Alive, NewAlone
    <2>9. PartsShared'
      BY <1>0, <2>2 DEF PartsShared
    <2>. QED
      BY <2>3, <2>4, <2>5, <2>6, <2>7, <2>8, <2>9 DEF Ledger
  <1>11. CASE UNCHANGED vars
    <2>1. LooseTypeOK'
      BY <1>11, <1>0 DEF vars, LooseTypeOK
    <2>2. NewAlone' /\ ClonesMemory'
      BY <1>11, <1>0 DEF vars, NewAlone, ClonesMemory, Alive
    <2>3. PartsHeld' /\ OneMaster'
      BY <1>11, <1>0 DEF vars, PartsHeld, OneMaster, Kept, Alive
    <2>4. ChildWhileCloning' /\ ChildUnborn' /\ OneMaker'
      BY <1>11, <1>0 DEF vars, ChildWhileCloning, ChildUnborn, OneMaker
    <2>5. CountExact' /\ PartsShared'
      BY <1>11, <1>0 DEF vars, CountExact, PartsShared, Counted, Kept
    <2>. QED
      BY <2>1, <2>4, <2>5, <2>2, <2>3 DEF Ledger
  <1>. QED
    BY <1>1, <1>2, <1>3, <1>4, <1>5, <1>6, <1>7, <1>8, <1>9, <1>10, <1>11 DEF Next

-----------------------------------------------------------------------------

\* If the application does not drop another context during the drop of the
\* master, each step keeps the master's memory in place as long as needed.
LEMMA MasterStep == ASSUME Overlap = FALSE
                    PROVE  IInv /\ [Next]_vars => MastersMemory'
  <1>. SUFFICES ASSUME Overlap = FALSE, IInv, [Next]_vars PROVE MastersMemory'
    OBVIOUS
  <1>. USE Family
  <1>0. /\ LooseTypeOK /\ CountExact /\ NewAlone /\ ChildWhileCloning
        /\ ChildUnborn /\ OneMaster /\ MastersMemory
    BY DEF IInv, Ledger
  <1>T. /\ memory \in [Contexts -> {"unused", "used", "freed", "freed twice"}]
        /\ pc \in [Contexts -> PCs] /\ count \in Int
    BY <1>0 DEF LooseTypeOK
  <1>C. count \in Int
    BY <1>0 DEF LooseTypeOK
  <1>1. ASSUME NEW i \in 1..Len(Parts), NewPart(i)
        PROVE  MastersMemory'
    <2>1. UNCHANGED <<memory, pc, count>>
      BY <1>1 DEF NewPart
    <2>. QED
      BY <1>0, <2>1 DEF MastersMemory, Alive
  <1>2. ASSUME NewDone
        PROVE  MastersMemory'
    BY <1>0, <1>T, <1>2 DEF NewDone, Go, MastersMemory, Alive
  <1>3. ASSUME NEW c \in Contexts, NEW d \in Clones, CloneMalloc(c, d)
        PROVE  MastersMemory'
    BY <1>0, <1>T, <1>3 DEF CloneMalloc, Go, MastersMemory, Alive
  <1>4. ASSUME NEW c \in Contexts, CloneCount(c)
        PROVE  MastersMemory'
    \* c is counted, so the family is not gone, and will not be.
    <2>1. c \in Counted /\ Counted \in SUBSET Contexts
      BY <1>4 DEF CloneCount, Counted
    <2>2. count # 0 /\ count + 1 # 0
      BY <1>0, <2>1, FamilyFinite DEF CountExact
    <2>. QED
      BY <1>0, <1>T, <1>4, <2>2 DEF CloneCount, Go, MastersMemory, Alive
  <1>5. ASSUME NEW c \in Contexts, NEW p \in PartSet, CloneKeep(c, p)
        PROVE  MastersMemory'
    BY <1>0, <1>5 DEF CloneKeep, MastersMemory, Alive
  <1>6. ASSUME NEW c \in Contexts, CloneDone(c)
        PROVE  MastersMemory'
    <2>1. child[c] \in Clones /\ pc[child[c]] = "absent" /\ pc[c] = "keep"
      BY <1>0, <1>6 DEF CloneDone, ChildWhileCloning, ChildUnborn, LooseTypeOK
    <2>2. \A x \in Contexts :
              pc'[x] = IF x = c \/ x = child[c] THEN "idle" ELSE pc[x]
      BY <1>6, <1>T, <2>1 DEF CloneDone
    <2>3. memory' = memory /\ count' = count
      BY <1>6 DEF CloneDone
    <2>. QED
      BY <1>0, <2>1, <2>2, <2>3 DEF MastersMemory, Alive
  <1>7. ASSUME NEW c \in Contexts, DropCount(c)
        PROVE  MastersMemory'
    <2>1. /\ c \in Counted /\ Counted \in SUBSET Contexts /\ count # 0
          /\ master[c] = Root /\ pc[Root] \notin {"freeMaster", "parts"}
          /\ \A k \in Contexts : pc[k] # "freeMaster"
      <3>1. c \in Counted /\ Counted \in SUBSET Contexts /\ master[c] = Root
        BY <1>0, <1>7 DEF DropCount, Counted, OneMaster, Alive
      <3>2. count # 0
        BY <1>0, <3>1, FamilyFinite DEF CountExact
      <3>. QED
        BY <1>0, <1>7, <3>1, <3>2 DEF DropCount, Dropping, MastersMemory
    \* The last one cannot be a clone as long as the master counts.
    <2>2. ASSUME count = 1, c # Root
          PROVE  pc[Root] = "gone"
      <3>1. /\ Cardinality(Counted) = 1
            /\ Cardinality(Counted \ {c}) = Cardinality(Counted) - 1
        BY <1>0, <2>1, <2>2, FamilyFinite DEF CountExact
      <3>2. Cardinality(Counted \ {c}) = 0 <=> Counted \ {c} = {}
        <4>1. Counted \ {c} \in SUBSET Contexts
          BY <2>1
        <4>. QED
          BY <4>1, FamilyFinite
      <3>3. Counted \ {c} = {}
        BY <3>1, <3>2
      <3>4. Root \notin Counted
        BY <2>2, <3>3
      <3>. QED
        BY <1>0, <1>T, <2>1, <3>4 DEF Counted, NewAlone, PCs
    <2>3. /\ \A x \in Contexts : pc'[x] =
                IF x # c THEN pc[x]
                ELSE IF count = 1 /\ c # Root THEN "freeMaster" ELSE "parts"
          /\ count' = count - 1 /\ memory' = memory
          /\ pc[c] \in {"new", "idle"}
      BY <1>7, <1>T, <2>1 DEF DropCount, Go
    <2>4. CASE count = 1 /\ c # Root
      <3>1. /\ count' = 0 /\ pc'[c] = "freeMaster" /\ pc'[Root] = "gone"
            /\ \A k \in Contexts : pc'[k] = "freeMaster" => k = c
            /\ memory'[Root] = "used"
        BY <1>0, <2>1, <2>2, <2>3, <2>4 DEF MastersMemory
      <3>. QED
        BY <2>4, <3>1 DEF MastersMemory, Alive
    <2>5. CASE ~(count = 1 /\ c # Root)
      <3>1. \A k \in Contexts : pc'[k] # "freeMaster"
        BY <2>1, <2>3, <2>5
      <3>2. /\ Alive(Root) <=> Alive(Root)'
            /\ pc[Root] = "gone" <=> pc'[Root] = "gone"
            /\ c = Root => pc[Root] # "gone"
        BY <2>3, <2>5 DEF Alive
      <3>3. c # Root => count' # 0
        BY <1>C, <2>3, <2>5
      <3>. QED
        BY <1>0, <2>1, <2>3, <3>1, <3>2, <3>3 DEF MastersMemory
    <2>. QED
      BY <2>4, <2>5
  <1>8. ASSUME NEW c \in Contexts, FreeMaster(c)
        PROVE  MastersMemory'
    <2>1. /\ master[c] = Root /\ c # Root /\ pc[Root] = "gone" /\ count = 0
          /\ memory[Root] = "used"
      BY <1>0, <1>8 DEF FreeMaster, OneMaster, MastersMemory, Alive
    <2>2. /\ pc' = [pc EXCEPT ![c] = "parts"] /\ count' = count
          /\ memory' = [memory EXCEPT ![Root] = "freed"] /\ pc[c] = "freeMaster"
      BY <1>8, <1>T, <2>1 DEF FreeMaster, Go, Freed
    <2>. QED
      BY <1>0, <1>T, <2>1, <2>2 DEF MastersMemory, Alive
  <1>9. ASSUME NEW c \in Contexts, NEW p \in PartSet, DropPart(c, p)
        PROVE  MastersMemory'
    BY <1>0, <1>9 DEF DropPart, MastersMemory, Alive
  <1>10. ASSUME NEW c \in Contexts, FreeSelf(c)
         PROVE  MastersMemory'
    <2>1. pc[c] = "parts" /\ pc' = [pc EXCEPT ![c] = "gone"] /\ count' = count
      BY <1>10 DEF FreeSelf, Go
    <2>2. CASE c = Root
      <3>1. /\ master[Root] = Root /\ memory[Root] = "used"
            /\ \A k \in Contexts : pc[k] # "freeMaster"
        BY <1>0, <2>1, <2>2 DEF OneMaster, MastersMemory, Alive
      <3>2. memory'[Root] = IF count # 0 THEN "used" ELSE "freed"
        BY <1>10, <1>T, <2>2, <3>1 DEF FreeSelf, Freed
      <3>. QED
        BY <1>0, <1>T, <2>1, <2>2, <3>1, <3>2 DEF MastersMemory, Alive
    <2>3. CASE c # Root
      <3>1. memory'[Root] = memory[Root]
        BY <1>10, <1>T, <2>3 DEF FreeSelf, Freed
      <3>. QED
        BY <1>0, <1>T, <2>1, <2>3, <3>1 DEF MastersMemory, Alive
    <2>. QED
      BY <2>2, <2>3
  <1>11. CASE UNCHANGED vars
    BY <1>0, <1>11 DEF vars, MastersMemory, Alive
  <1>. QED
    BY <1>1, <1>2, <1>3, <1>4, <1>5, <1>6, <1>7, <1>8, <1>9, <1>10, <1>11 DEF Next

-----------------------------------------------------------------------------

\* Counts are within the size of the family: what TypeOK adds to LooseTypeOK.
LEMMA LedgerTypes == Ledger => TypeOK
  <1>. SUFFICES ASSUME Ledger PROVE TypeOK
    OBVIOUS
  <1>1. LooseTypeOK /\ CountExact /\ PartsShared
    BY DEF Ledger
  <1>2. \A S \in SUBSET Contexts : Cardinality(S) \in 0..Cardinality(Contexts)
    BY FamilyFinite
  <1>3. Counted \in SUBSET Contexts /\ \A p \in PartSet : Sharing(p) \in SUBSET Contexts
    BY DEF Counted, Sharing
  <1>4. count \in 0..Cardinality(Contexts)
    BY <1>1, <1>2, <1>3 DEF CountExact
  <1>5. \A p \in PartSet : refs[p] = Cardinality(Sharing(p))
    BY <1>1 DEF PartsShared, Sharing
  <1>6. refs \in [PartSet -> 0..Cardinality(Contexts)]
    <2>1. refs \in [PartSet -> Int]
      BY <1>1 DEF LooseTypeOK
    <2>. QED
      BY <1>2, <1>3, <1>5, <2>1
  <1>. QED
    BY <1>1, <1>4, <1>6 DEF LooseTypeOK, TypeOK

\* Whoever may use the master's memory is counted, or on its way to free it.
LEMMA MemoryImplied == IInv => NoUseAfterFree
  <1>. SUFFICES ASSUME IInv PROVE NoUseAfterFree
    OBVIOUS
  <1>. USE Family
  <1>0. /\ LooseTypeOK /\ CountExact /\ NewAlone /\ OneMaster /\ ClonesMemory
        /\ MastersMemory
    BY DEF IInv, Ledger
  <1>1. ASSUME NEW c \in Contexts, Alive(c)
        PROVE  memory[c] = "used"
    BY <1>0, <1>1 DEF ClonesMemory, MastersMemory
  <1>2. ASSUME NEW c \in Contexts, pc[c] \in {"new", "idle", "clone", "freeMaster"}
        PROVE  memory[Root] = "used"
    <2>1. CASE pc[c] = "freeMaster"
      BY <1>0, <2>1 DEF MastersMemory
    <2>2. CASE pc[c] # "freeMaster"
      <3>1. c \in Counted /\ Counted \in SUBSET Contexts
        BY <1>2, <2>2 DEF Counted
      <3>2. count # 0
        BY <1>0, <3>1, FamilyFinite DEF CountExact
      <3>3. pc[Root] # "absent"
        BY <1>0 DEF NewAlone
      <3>. QED
        BY <1>0, <3>2, <3>3 DEF MastersMemory, Alive
    <2>. QED
      BY <2>1, <2>2
  <1>3. \A c \in Contexts : Alive(c) => master[c] = Root
    BY <1>0 DEF OneMaster
  <1>4. ASSUME NEW c \in Contexts
        PROVE  memory[c] # "freed twice"
    <2>1. pc[c] \in PCs
      BY <1>0 DEF LooseTypeOK
    <2>2. CASE c = Root
      BY <1>0, <2>2 DEF NewAlone, MastersMemory, Alive
    <2>3. CASE c \in Clones
      BY <1>0, <2>1, <2>3 DEF ClonesMemory, Alive
    <2>. QED
      BY <2>2, <2>3
  <1>. QED
    BY <1>1, <1>2, <1>3, <1>4 DEF NoUseAfterFree, Reaches, Alive

\* A family of which nobody is left is not counted any more.
LEMMA NothingLeftImplied == IInv => NothingLeft
  <1>. SUFFICES ASSUME IInv, \A c \in Contexts : ~Alive(c)
                PROVE  /\ \A c \in Contexts : memory[c] # "used"
                       /\ \A p \in PartSet : refs[p] = 0
    BY DEF NothingLeft
  <1>. USE Family
  <1>0. /\ CountExact /\ NewAlone /\ ChildWhileCloning /\ PartsHeld
        /\ ClonesMemory /\ PartsShared /\ MastersMemory
    BY DEF IInv, Ledger
  <1>1. \A c \in Contexts : pc[c] \in {"absent", "gone"}
    BY DEF Alive
  <1>2. Counted = {} /\ \A c \in Contexts : ~Kept(c) /\ child[c] = Nobody
    BY <1>0, <1>1 DEF Counted, Kept, ChildWhileCloning
  <1>3. count = 0
    BY <1>0, <1>2, FS_EmptySet DEF CountExact
  <1>4. memory[Root] = "freed"
    BY <1>0, <1>1, <1>3 DEF NewAlone, MastersMemory
  <1>5. \A c \in Clones : memory[c] # "used"
    BY <1>0, <1>1, <1>2 DEF ClonesMemory
  <1>6. \A p \in PartSet : Sharing(p) = {} /\ refs[p] = Cardinality(Sharing(p))
    BY <1>0, <1>2 DEF Sharing, PartsHeld, PartsShared
  <1>. QED
    BY <1>4, <1>5, <1>6, FS_EmptySet

-----------------------------------------------------------------------------

\* The ledger holds in every reachable state, whenever the master is dropped.
LEMMA LedgerKept == Spec => []Ledger
  <1>1. Init => Ledger
    BY InitInv DEF IInv
  <1>. QED
    BY <1>1, LedgerStep, PTL DEF Spec

\* The inductive invariant holds if drops of the master do not overlap others.
LEMMA Invariance == ASSUME Overlap = FALSE PROVE Spec => []IInv
  <1>1. IInv /\ [Next]_vars => IInv'
    BY LedgerStep, MasterStep DEF IInv
  <1>. QED
    BY <1>1, InitInv, PTL DEF Spec

\* fz_clone_context and fz_drop_context keep context_count, and the counters of
\* the shared parts, between 0 and the size of the family.
THEOREM TypeCorrect == Spec => []TypeOK
  BY LedgerKept, LedgerTypes, PTL

\* Each part's counter is the number of contexts that point to it, so that the
\* last of them, and no other, frees it: the keep and drop functions of the
\* parts in context.c, for any number of clones made from any member.
THEOREM PartsCounted == Spec => []PartsShared
  <1>1. Ledger => PartsShared
    BY DEF Ledger
  <1>. QED
    BY <1>1, LedgerKept, PTL

\* The memory of a context, and that of the master with its count, is not freed
\* under a call that uses it, nor freed twice, if nobody else drops a context
\* while the master is being dropped: fz_drop_context.
THEOREM MemorySafe == ASSUME Overlap = FALSE PROVE Spec => []NoUseAfterFree
  BY Invariance, MemoryImplied, PTL

\* However the drops are ordered, the last one leaves nothing allocated.
THEOREM AllReturned == ASSUME Overlap = FALSE PROVE Spec => []NothingLeft
  BY Invariance, NothingLeftImplied, PTL
=============================================================================
