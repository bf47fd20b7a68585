--------------------------- MODULE StorableProofs ---------------------------
(***************************************************************************)
(* Theorems about Storable, for any sets of objects and handles.           *)
(*                                                                         *)
(* The invariants are not inductive one by one: NoDangling needs the       *)
(* counters to be exact (a handle that is not counted could be left        *)
(* behind), and the counters stay exact only because an object with no     *)
(* reference left is never handed out again before it is destroyed.  IInv  *)
(* is their conjunction.                                                   *)
(***************************************************************************)
EXTENDS Storable, FiniteSetTheorems, TLAPS

LooseTypeOK ==
    /\ ptr \in [Handles -> Vals \cup {Null}]
    /\ refs \in [Vals -> Int]
    /\ keyRefs \in [Vals -> Int]
    /\ mem \in [Vals -> {"free", "live", "dying"}]

RefsExact == \A v \in Vals \ Static : refs[v] = Cardinality(Owners(v))

KeyRefsExact == \A v \in Vals : keyRefs[v] = Cardinality(KeyOwners(v))

StaticUncounted == \A v \in Static : refs[v] = -1 /\ mem[v] = "live"

KeysPointToKeyVals == \A k \in KeyHandles : ptr[k] \in KeyVals \cup {Null}

LiveIffCounted == \A v \in Vals \ Static : mem[v] = "live" <=> refs[v] > 0

IInv ==
    /\ LooseTypeOK
    /\ RefsExact
    /\ KeyRefsExact
    /\ StaticUncounted
    /\ KeysPointToKeyVals
    /\ LiveIffCounted

-----------------------------------------------------------------------------

\* The sets the counters count are finite, so their cardinalities are naturals.
LEMMA OwnersFinite ==
    ASSUME NEW v
    PROVE  /\ IsFiniteSet(Owners(v))
           /\ IsFiniteSet(KeyOwners(v))
           /\ Cardinality(Owners(v)) \in Nat
           /\ Cardinality(KeyOwners(v)) \in Nat
           /\ KeyOwners(v) \subseteq Owners(v)
           /\ Cardinality(KeyOwners(v)) <= Cardinality(Owners(v))
           /\ Cardinality(KeyOwners(v)) <= Cardinality(KeyHandles)
           /\ Cardinality(Owners(v)) <= Cardinality(Handles)
  <1>1. IsFiniteSet(Handles) /\ KeyHandles \subseteq Handles
    BY StorableAssumption
  <1>2. IsFiniteSet(KeyHandles)
    BY <1>1, FS_Subset
  <1>3. Owners(v) \in SUBSET Handles /\ KeyOwners(v) \in SUBSET KeyHandles
    BY DEF Owners, KeyOwners
  <1>4. /\ IsFiniteSet(Owners(v)) /\ IsFiniteSet(KeyOwners(v))
        /\ Cardinality(KeyOwners(v)) <= Cardinality(KeyHandles)
        /\ Cardinality(Owners(v)) <= Cardinality(Handles)
    BY <1>1, <1>2, <1>3, FS_Subset
  <1>5. KeyOwners(v) \in SUBSET Owners(v)
    BY <1>1 DEF Owners, KeyOwners
  <1>6. Cardinality(KeyOwners(v)) <= Cardinality(Owners(v))
    BY <1>4, <1>5, FS_Subset
  <1>7. Cardinality(Owners(v)) \in Nat /\ Cardinality(KeyOwners(v)) \in Nat
    BY <1>4, FS_CardinalityType
  <1>. QED
    BY <1>4, <1>5, <1>6, <1>7

\* An object with a handle is counted at least once, one without is not.
LEMMA OwnersEmpty ==
    ASSUME NEW v
    PROVE  /\ Cardinality(Owners(v)) = 0 <=> Owners(v) = {}
           /\ Cardinality(KeyOwners(v)) = 0 <=> KeyOwners(v) = {}
  BY OwnersFinite, FS_EmptySet

\* A handle that was null and now refers to w.
LEMMA OwnersGain ==
    ASSUME LooseTypeOK, NEW h \in Handles, NEW w \in Vals, ptr[h] = Null,
           ptr' = [ptr EXCEPT ![h] = w], NEW v \in Vals
    PROVE  /\ Cardinality(Owners(v)') =
                 IF v = w THEN Cardinality(Owners(v)) + 1
                          ELSE Cardinality(Owners(v))
           /\ Cardinality(KeyOwners(v)') =
                 IF v = w /\ h \in KeyHandles THEN Cardinality(KeyOwners(v)) + 1
                                              ELSE Cardinality(KeyOwners(v))
  <1>1. Null \notin Vals /\ KeyHandles \subseteq Handles
    BY StorableAssumption
  <1>2. h \notin Owners(v) /\ h \notin KeyOwners(v)
    BY <1>1 DEF Owners, KeyOwners
  <1>3. Owners(v)' = IF v = w THEN Owners(v) \cup {h} ELSE Owners(v)
    BY <1>1 DEF Owners, LooseTypeOK
  <1>4. KeyOwners(v)' = IF v = w /\ h \in KeyHandles THEN KeyOwners(v) \cup {h}
                                                     ELSE KeyOwners(v)
    BY <1>1 DEF KeyOwners, LooseTypeOK
  <1>5. /\ Cardinality(Owners(v) \cup {h}) = Cardinality(Owners(v)) + 1
        /\ Cardinality(KeyOwners(v) \cup {h}) = Cardinality(KeyOwners(v)) + 1
    <2>1. IsFiniteSet(Owners(v)) /\ IsFiniteSet(KeyOwners(v))
      BY OwnersFinite
    <2>. QED
      BY <1>2, <2>1, FS_AddElement
  <1>. QED
    BY <1>3, <1>4, <1>5

\* A handle that referred to w and is now null.
LEMMA OwnersLose ==
    ASSUME LooseTypeOK, NEW h \in Handles, NEW w \in Vals, ptr[h] = w,
           ptr' = [ptr EXCEPT ![h] = Null], NEW v \in Vals
    PROVE  /\ Cardinality(Owners(v)') =
                 IF v = w THEN Cardinality(Owners(v)) - 1
                          ELSE Cardinality(Owners(v))
           /\ Cardinality(KeyOwners(v)') =
                 IF v = w /\ h \in KeyHandles THEN Cardinality(KeyOwners(v)) - 1
                                              ELSE Cardinality(KeyOwners(v))
  <1>1. Null \notin Vals /\ KeyHandles \subseteq Handles
    BY StorableAssumption
  <1>2. /\ v = w => h \in Owners(v)
        /\ v = w /\ h \in KeyHandles => h \in KeyOwners(v)
    BY <1>1 DEF Owners, KeyOwners
  <1>3. Owners(v)' = IF v = w THEN Owners(v) \ {h} ELSE Owners(v)
    BY <1>1 DEF Owners, LooseTypeOK
  <1>4. KeyOwners(v)' = IF v = w /\ h \in KeyHandles THEN KeyOwners(v) \ {h}
                                                     ELSE KeyOwners(v)
    BY <1>1 DEF KeyOwners, LooseTypeOK
  <1>5. /\ v = w => Cardinality(Owners(v) \ {h}) = Cardinality(Owners(v)) - 1
        /\ v = w /\ h \in KeyHandles =>
             Cardinality(KeyOwners(v) \ {h}) = Cardinality(KeyOwners(v)) - 1
    <2>1. IsFiniteSet(Owners(v)) /\ IsFiniteSet(KeyOwners(v))
      BY OwnersFinite
    <2>. QED
      BY <1>2, <2>1, FS_RemoveElement
  <1>. QED
    BY <1>3, <1>4, <1>5

\* Several handles, none of them inside a key, that are null afterwards.
LEMMA OwnersRelease ==
    ASSUME LooseTypeOK, NEW H \in SUBSET Normal, NEW v \in Vals,
           ptr' = [h \in Handles |-> IF h \in H THEN Null ELSE ptr[h]]
    PROVE  /\ Cardinality(Owners(v)') =
                 Cardinality(Owners(v)) - Cardinality(Owners(v) \cap H)
           /\ Cardinality(Owners(v) \cap H) \in Nat
           /\ KeyOwners(v)' = KeyOwners(v)
  <1>1. Null \notin Vals /\ KeyHandles \subseteq Handles
    BY StorableAssumption
  <1>2. Owners(v)' = Owners(v) \ H
    BY <1>1 DEF Owners, LooseTypeOK
  <1>3. KeyOwners(v)' = KeyOwners(v)
    BY <1>1 DEF KeyOwners, Normal
  <1>4. IsFiniteSet(Owners(v))
    BY OwnersFinite
  <1>5. Cardinality(Owners(v) \ H) =
            Cardinality(Owners(v)) - Cardinality(Owners(v) \cap H)
    BY <1>4, FS_Difference
  <1>6. Cardinality(Owners(v) \cap H) \in Nat
    <2>1. Owners(v) \cap H \in SUBSET Owners(v)
      OBVIOUS
    <2>2. IsFiniteSet(Owners(v) \cap H)
      BY <1>4, <2>1, FS_Subset
    <2>. QED
      BY <2>2, FS_CardinalityType
  <1>. QED
    BY <1>2, <1>3, <1>5, <1>6

-----------------------------------------------------------------------------

\* The counters start exact: nothing is referred to and nothing is counted.
LEMMA InitInv == Init => IInv
  <1>. SUFFICES ASSUME Init PROVE IInv
    OBVIOUS
  <1>1. LooseTypeOK
    BY StorableAssumption DEF Init, LooseTypeOK
  <1>2. \A v \in Vals : Owners(v) = {} /\ KeyOwners(v) = {}
    BY StorableAssumption DEF Init, Owners, KeyOwners
  <1>3. \A v \in Vals : Cardinality(Owners(v)) = 0 /\ Cardinality(KeyOwners(v)) = 0
    BY <1>2, OwnersEmpty
  <1>4. RefsExact /\ KeyRefsExact /\ LiveIffCounted /\ StaticUncounted
    BY <1>3, StorableAssumption
    DEF Init, RefsExact, KeyRefsExact, LiveIffCounted, StaticUncounted
  <1>5. KeysPointToKeyVals
    BY StorableAssumption DEF Init, KeysPointToKeyVals
  <1>. QED
    BY <1>1, <1>4, <1>5 DEF IInv

\* Every action keeps the counters exact, if a short can count the keys.
LEMMA StepInv ==
    ASSUME KeyRoom, IInv, [Next]_vars
    PROVE  IInv'
  <1>. USE DEF IInv
  <1>0. /\ Null \notin Vals /\ KeyHandles \subseteq Handles
        /\ KeyVals \subseteq Vals /\ Static \subseteq Vals \ KeyVals
        /\ Normal \subseteq Handles /\ ShortMax \in Nat
    BY StorableAssumption DEF Normal
  <1>1. ASSUME NEW h \in Normal, NEW v \in Vals, New(h, v)
        PROVE  IInv'
    <2>1. v \notin Static /\ refs[v] = 0
      <3>1. v \notin Static
        BY <1>1 DEF New, StaticUncounted
      <3>2. refs[v] \in Nat /\ ~(refs[v] > 0)
        BY <1>1, <3>1, OwnersFinite DEF New, LiveIffCounted, RefsExact
      <3>. QED
        BY <3>1, <3>2
    <2>2. Owners(v) = {} /\ KeyOwners(v) = {}
      <3>1. Owners(v) = {}
        BY <2>1, OwnersEmpty DEF RefsExact
      <3>. QED
        BY <3>1, OwnersFinite
    <2>3. \A u \in Vals :
            /\ Cardinality(Owners(u)') = IF u = v THEN 1 ELSE Cardinality(Owners(u))
            /\ Cardinality(KeyOwners(u)') = Cardinality(KeyOwners(u))
            /\ u = v => Cardinality(KeyOwners(u)) = 0
      <3>1. h \in Handles /\ h \notin KeyHandles
        BY DEF Normal
      <3>2. Cardinality(Owners(v)) = 0 /\ Cardinality(KeyOwners(v)) = 0
        BY <2>2, OwnersEmpty
      <3>3. \A u \in Vals :
              /\ Cardinality(Owners(u)') =
                    IF u = v THEN Cardinality(Owners(u)) + 1
                             ELSE Cardinality(Owners(u))
              /\ Cardinality(KeyOwners(u)') = Cardinality(KeyOwners(u))
        <4>1. ptr[h] = Null /\ ptr' = [ptr EXCEPT ![h] = v]
          BY <1>1 DEF New
        <4>. QED
          BY <3>1, <4>1, OwnersGain
      <3>. QED
        BY <3>2, <3>3
    <2>4. LooseTypeOK'
      BY <1>0, <1>1 DEF New, LooseTypeOK
    <2>5. RefsExact' /\ KeyRefsExact' /\ LiveIffCounted'
      BY <1>1, <2>1, <2>3 DEF New, LooseTypeOK, RefsExact, KeyRefsExact, LiveIffCounted
    <2>6. StaticUncounted' /\ KeysPointToKeyVals'
      BY <1>0, <1>1, <2>1
      DEF New, LooseTypeOK, StaticUncounted, KeysPointToKeyVals, Normal
    <2>. QED
      BY <2>4, <2>5, <2>6
  <1>2. ASSUME NEW h \in Normal, NEW v \in Vals, TakeStatic(h, v)
        PROVE  IInv'
    <2>1. \A u \in Vals :
            /\ u # v => Cardinality(Owners(u)') = Cardinality(Owners(u))
            /\ Cardinality(KeyOwners(u)') = Cardinality(KeyOwners(u))
      <3>1. h \in Handles /\ h \notin KeyHandles
        BY DEF Normal
      <3>. QED
        BY <1>2, <3>1, OwnersGain DEF TakeStatic
    <2>2. LooseTypeOK'
      BY <1>0, <1>2 DEF TakeStatic, LooseTypeOK
    <2>3. RefsExact' /\ KeyRefsExact' /\ LiveIffCounted' /\ StaticUncounted'
      BY <1>2, <2>1
      DEF TakeStatic, RefsExact, KeyRefsExact, LiveIffCounted, StaticUncounted
    <2>4. KeysPointToKeyVals'
      BY <1>0, <1>2 DEF TakeStatic, KeysPointToKeyVals, Normal, LooseTypeOK
    <2>. QED
      BY <2>2, <2>3, <2>4
  <1>3. ASSUME NEW h \in Normal, NEW g \in Normal, Keep(h, g)
        PROVE  IInv'
    <2>. DEFINE v == ptr[h]
    <2>1. /\ v \in Vals /\ g \in Handles /\ g \notin KeyHandles
          /\ ptr[g] = Null /\ ptr' = [ptr EXCEPT ![g] = v]
      BY <1>0, <1>3 DEF Keep, Normal, LooseTypeOK
    <2>2. \A u \in Vals :
            /\ Cardinality(Owners(u)') =
                  IF u = v THEN Cardinality(Owners(u)) + 1 ELSE Cardinality(Owners(u))
            /\ Cardinality(KeyOwners(u)') = Cardinality(KeyOwners(u))
      BY <2>1, OwnersGain
    <2>3. h \in Owners(v)
      BY <1>0 DEF Owners, Normal
    <2>4. v \notin Static => refs[v] > 0
      BY <2>1, <2>3, OwnersEmpty, OwnersFinite DEF RefsExact
    <2>5. LooseTypeOK'
      BY <1>0, <1>3, <2>1 DEF Keep, LooseTypeOK
    <2>6. RefsExact' /\ KeyRefsExact' /\ LiveIffCounted' /\ StaticUncounted'
      BY <1>3, <2>1, <2>2, <2>4
      DEF Keep, LooseTypeOK, RefsExact, KeyRefsExact, LiveIffCounted, StaticUncounted
    <2>7. KeysPointToKeyVals'
      BY <1>0, <2>1 DEF KeysPointToKeyVals, LooseTypeOK
    <2>. QED
      BY <2>5, <2>6, <2>7
  <1>4. ASSUME NEW H \in SUBSET Normal, Release(H)
        PROVE  IInv'
    <2>1. \A u \in Vals :
            /\ Cardinality(Owners(u)') =
                  Cardinality(Owners(u)) - Cardinality(Owners(u) \cap H)
            /\ Cardinality(Owners(u) \cap H) \in Nat
            /\ Cardinality(KeyOwners(u)') = Cardinality(KeyOwners(u))
            /\ Cardinality(Owners(u)) \in Nat
            /\ Cardinality(Owners(u)') \in Nat
      <3>1. \A u \in Vals : Cardinality(Owners(u)) \in Nat
        BY OwnersFinite
      <3>2. \A u \in Vals : Cardinality(Owners(u)') \in Nat
        <4>1. SUFFICES ASSUME NEW u \in Vals
                       PROVE  Cardinality(Owners(u)') \in Nat
          OBVIOUS
        <4>2. IsFiniteSet(Handles) /\ Owners(u)' \in SUBSET Handles
          BY StorableAssumption DEF Owners
        <4>3. IsFiniteSet(Owners(u)')
          BY <4>2, FS_Subset
        <4>. QED
          BY <4>3, FS_CardinalityType
      <3>. QED
        BY <1>4, <3>1, <3>2, OwnersRelease DEF Release
    <2>2. LooseTypeOK'
      BY <1>0, <1>4, <2>1 DEF Release, RefsAfter, LooseTypeOK
    <2>3. \A u \in Vals \ Static :
            /\ refs'[u] = Cardinality(Owners(u)')
            /\ refs'[u] \in Nat
            /\ refs[u] \in Nat
      <3>1. SUFFICES ASSUME NEW u \in Vals \ Static
                     PROVE  /\ refs'[u] = Cardinality(Owners(u)')
                            /\ refs'[u] \in Nat
                            /\ refs[u] \in Nat
        OBVIOUS
      <3>2. refs[u] = Cardinality(Owners(u)) /\ refs[u] \in Nat
        BY <2>1 DEF RefsExact
      <3>3. CASE refs[u] > 0
        BY <1>4, <2>1, <3>2, <3>3 DEF Release, RefsAfter
      <3>4. CASE ~(refs[u] > 0)
        <4>1. refs'[u] = refs[u] /\ refs[u] = 0
          BY <1>4, <3>2, <3>4 DEF Release, RefsAfter
        <4>2. Cardinality(Owners(u)') = 0
          <5>1. /\ Cardinality(Owners(u)') =
                      Cardinality(Owners(u)) - Cardinality(Owners(u) \cap H)
                /\ Cardinality(Owners(u) \cap H) \in Nat
                /\ Cardinality(Owners(u)') \in Nat
            BY <2>1
          <5>2. \A a, b \in Nat : a = 0 - b => a = 0
            OBVIOUS
          <5>3. Cardinality(Owners(u)) = 0
            BY <3>2, <4>1
          <5>. QED
            BY <5>1, <5>2, <5>3
        <4>. QED
          BY <4>1, <4>2
      <3>. QED
        BY <3>3, <3>4
    <2>4. RefsExact'
      BY <2>3 DEF RefsExact
    <2>5. KeyRefsExact'
      BY <1>4, <2>1 DEF Release, KeyRefsExact
    <2>6. StaticUncounted'
      BY <1>0, <1>4 DEF Release, RefsAfter, StaticUncounted
    <2>7. LiveIffCounted'
      <3>1. SUFFICES ASSUME NEW u \in Vals \ Static
                     PROVE  mem'[u] = "live" <=> refs'[u] > 0
        BY DEF LiveIffCounted
      <3>2. /\ refs'[u] = RefsAfter(H)[u]
            /\ mem'[u] = IF refs[u] > 0 /\ refs'[u] = 0 THEN "dying" ELSE mem[u]
        BY <1>4 DEF Release
      <3>3. refs[u] > 0 \/ refs'[u] = refs[u]
        BY <3>2 DEF RefsAfter
      <3>. QED
        BY <2>3, <3>2, <3>3 DEF LiveIffCounted
    <2>8. KeysPointToKeyVals'
      BY <1>0, <1>4 DEF Release, KeysPointToKeyVals
    <2>. QED
      BY <2>2, <2>4, <2>5, <2>6, <2>7, <2>8
  <1>5. ASSUME NEW h \in Normal, NEW k \in KeyHandles, KeepKey(h, k)
        PROVE  IInv'
    <2>. DEFINE v == ptr[h]
    <2>1. /\ v \in KeyVals /\ v \in Vals /\ v \notin Static /\ k \in Handles
          /\ ptr[k] = Null /\ ptr' = [ptr EXCEPT ![k] = v]
      BY <1>0, <1>5 DEF KeepKey
    <2>2. \A u \in Vals :
            /\ Cardinality(Owners(u)') =
                  IF u = v THEN Cardinality(Owners(u)) + 1 ELSE Cardinality(Owners(u))
            /\ Cardinality(KeyOwners(u)') =
                  IF u = v THEN Cardinality(KeyOwners(u)) + 1
                           ELSE Cardinality(KeyOwners(u))
      BY <2>1, OwnersGain
    <2>3. h \in Owners(v)
      BY <1>0 DEF Owners, Normal
    <2>4. refs[v] > 0
      BY <2>1, <2>3, OwnersEmpty, OwnersFinite DEF RefsExact
    <2>5. Short(keyRefs[v] + 1) = keyRefs[v] + 1
      <3>1. IsFiniteSet(KeyHandles)
        <4>1. IsFiniteSet(Handles) /\ KeyHandles \in SUBSET Handles
          BY StorableAssumption
        <4>. QED
          BY <4>1, FS_Subset
      <3>2. KeyOwners(v) \cup {k} \in SUBSET KeyHandles /\ k \notin KeyOwners(v)
        BY <1>0, <2>1 DEF KeyOwners
      <3>3. Cardinality(KeyOwners(v) \cup {k}) <= Cardinality(KeyHandles)
        BY <3>1, <3>2, FS_Subset
      <3>4. IsFiniteSet(KeyOwners(v)) /\ Cardinality(KeyOwners(v)) \in Nat
        BY OwnersFinite
      <3>5. Cardinality(KeyOwners(v) \cup {k}) = Cardinality(KeyOwners(v)) + 1
        BY <3>2, <3>4, FS_AddElement
      <3>6. Cardinality(KeyHandles) \in Nat
        BY <3>1, FS_CardinalityType
      <3>7. keyRefs[v] + 1 <= ShortMax
        BY <1>0, <2>1, <3>3, <3>4, <3>5, <3>6 DEF KeyRoom, KeyRefsExact
      <3>. QED
        BY <1>0, <2>1, <3>7 DEF Short, LooseTypeOK
    <2>6. /\ refs' = [refs EXCEPT ![v] = @ + 1]
          /\ keyRefs' = [keyRefs EXCEPT ![v] = @ + 1]
          /\ mem' = mem
      BY <1>5, <2>1, <2>4, <2>5 DEF KeepKey, LooseTypeOK
    <2>7. LooseTypeOK'
      BY <2>1, <2>6 DEF LooseTypeOK
    <2>8. RefsExact' /\ KeyRefsExact' /\ StaticUncounted'
      BY <2>1, <2>2, <2>6
      DEF LooseTypeOK, RefsExact, KeyRefsExact, StaticUncounted
    <2>9. LiveIffCounted'
      BY <2>1, <2>4, <2>6 DEF LooseTypeOK, LiveIffCounted
    <2>10. KeysPointToKeyVals'
      BY <2>1 DEF KeysPointToKeyVals, LooseTypeOK
    <2>. QED
      BY <2>7, <2>8, <2>9, <2>10
  <1>6. ASSUME NEW k \in KeyHandles, DropKey(k)
        PROVE  IInv'
    <2>. DEFINE v == ptr[k]
    <2>1. /\ v \in KeyVals /\ v \in Vals /\ v \notin Static /\ k \in Handles
          /\ ptr' = [ptr EXCEPT ![k] = Null]
          /\ refs' = [refs EXCEPT ![v] = @ - 1]
          /\ keyRefs' = [keyRefs EXCEPT ![v] = @ - 1]
          /\ mem' = IF refs[v] = 1 THEN [mem EXCEPT ![v] = "dying"] ELSE mem
      BY <1>0, <1>6 DEF DropKey, KeysPointToKeyVals
    <2>2. \A u \in Vals :
            /\ Cardinality(Owners(u)') =
                  IF u = v THEN Cardinality(Owners(u)) - 1 ELSE Cardinality(Owners(u))
            /\ Cardinality(KeyOwners(u)') =
                  IF u = v THEN Cardinality(KeyOwners(u)) - 1
                           ELSE Cardinality(KeyOwners(u))
      BY <2>1, OwnersLose
    <2>3. k \in Owners(v)
      BY <2>1 DEF Owners
    <2>4. refs[v] \in Nat /\ refs[v] > 0
      BY <2>1, <2>3, OwnersEmpty, OwnersFinite DEF RefsExact
    <2>5. LooseTypeOK'
      BY <1>0, <2>1 DEF LooseTypeOK
    <2>6. RefsExact' /\ KeyRefsExact' /\ StaticUncounted'
      BY <2>1, <2>2
      DEF LooseTypeOK, RefsExact, KeyRefsExact, StaticUncounted
    <2>7. LiveIffCounted'
      BY <2>1, <2>4 DEF LooseTypeOK, LiveIffCounted
    <2>8. KeysPointToKeyVals'
      BY <1>0, <2>1 DEF KeysPointToKeyVals, LooseTypeOK
    <2>. QED
      BY <2>5, <2>6, <2>7, <2>8
  <1>7. ASSUME NEW v \in Vals, Destroy(v)
        PROVE  IInv'
    <2>1. /\ mem[v] = "dying" /\ mem' = [mem EXCEPT ![v] = "free"]
          /\ ptr' = ptr /\ refs' = refs /\ keyRefs' = keyRefs
      BY <1>7 DEF Destroy
    <2>2. \A u : Owners(u)' = Owners(u) /\ KeyOwners(u)' = KeyOwners(u)
      BY <2>1 DEF Owners, KeyOwners
    <2>3. LooseTypeOK' /\ LiveIffCounted' /\ StaticUncounted'
      BY <2>1 DEF LooseTypeOK, LiveIffCounted, StaticUncounted
    <2>4. RefsExact' /\ KeyRefsExact' /\ KeysPointToKeyVals'
      BY <2>1, <2>2 DEF RefsExact, KeyRefsExact, KeysPointToKeyVals
    <2>. QED
      BY <2>3, <2>4
  <1>8. CASE UNCHANGED vars
    <2>1. \A u : Owners(u)' = Owners(u) /\ KeyOwners(u)' = KeyOwners(u)
      BY <1>8 DEF vars, Owners, KeyOwners
    <2>. QED
      BY <1>8, <2>1
      DEF vars, LooseTypeOK, RefsExact, KeyRefsExact, StaticUncounted,
          KeysPointToKeyVals, LiveIffCounted
  <1>. QED
    BY <1>1, <1>2, <1>3, <1>4, <1>5, <1>6, <1>7, <1>8 DEF Next

\* What IInv says, in the words of the properties TLC checks.
LEMMA InvImplies ==
    ASSUME KeyRoom, IInv
    PROVE  TypeOK /\ NoDangling /\ NoLeak /\ CountersExact /\ KeyAssertHolds /\ ReapTestExact
  <1>. USE DEF IInv
  <1>0. /\ Null \notin Vals /\ KeyHandles \subseteq Handles
        /\ KeyVals \subseteq Vals /\ Static \subseteq Vals \ KeyVals
        /\ ShortMax \in Nat /\ Cardinality(Handles) \in Nat
        /\ Cardinality(KeyHandles) \in Nat
    <2>1. IsFiniteSet(Handles) /\ KeyHandles \in SUBSET Handles
      BY StorableAssumption
    <2>2. IsFiniteSet(KeyHandles)
      BY <2>1, FS_Subset
    <2>. QED
      BY <2>1, <2>2, StorableAssumption, FS_CardinalityType
  <1>1. CountersExact
    BY DEF CountersExact, RefsExact, KeyRefsExact
  <1>2. \A v \in Vals \ Static : refs[v] \in 0 .. Cardinality(Handles)
    BY <1>0, OwnersFinite DEF RefsExact
  <1>3. \A v \in Vals : keyRefs[v] \in 0 .. ShortMax
    BY <1>0, OwnersFinite DEF KeyRefsExact, KeyRoom
  <1>4. TypeOK
    BY <1>0, <1>2, <1>3 DEF TypeOK, LooseTypeOK, StaticUncounted
  <1>5. NoDangling
    <2>1. SUFFICES ASSUME NEW h \in Handles, ptr[h] # Null
                   PROVE  mem[ptr[h]] = "live"
      BY DEF NoDangling
    <2>2. ptr[h] \in Vals /\ h \in Owners(ptr[h])
      BY <2>1 DEF LooseTypeOK, Owners
    <2>3. CASE ptr[h] \in Static
      BY <2>3 DEF StaticUncounted
    <2>4. CASE ptr[h] \notin Static
      <3>1. refs[ptr[h]] \in Nat /\ refs[ptr[h]] # 0
        BY <1>2, <2>2, <2>4, OwnersEmpty, OwnersFinite DEF RefsExact
      <3>. QED
        BY <2>2, <2>4, <3>1 DEF LiveIffCounted
    <2>. QED
      BY <2>3, <2>4
  <1>6. NoLeak
    BY OwnersEmpty DEF NoLeak, LiveIffCounted, RefsExact
  <1>7. KeyAssertHolds
    <2>1. SUFFICES ASSUME NEW k \in KeyHandles, ptr[k] # Null
                   PROVE  keyRefs[ptr[k]] > 0 /\ refs[ptr[k]] >= keyRefs[ptr[k]]
      BY DEF KeyAssertHolds
    <2>2. /\ ptr[k] \in KeyVals /\ ptr[k] \in Vals /\ ptr[k] \notin Static
          /\ k \in KeyOwners(ptr[k])
      BY <1>0, <2>1 DEF KeysPointToKeyVals, KeyOwners
    <2>3. keyRefs[ptr[k]] # 0
      BY <2>2, OwnersEmpty DEF KeyRefsExact
    <2>4. Cardinality(KeyOwners(ptr[k])) <= Cardinality(Owners(ptr[k]))
      BY OwnersFinite
    <2>. QED
      BY <1>2, <1>3, <2>2, <2>3, <2>4 DEF KeyRefsExact, RefsExact
  <1>8. ReapTestExact
    <2>1. SUFFICES ASSUME NEW v \in KeyVals
                   PROVE  refs[v] = keyRefs[v] <=> Owners(v) \subseteq KeyHandles
      BY DEF ReapTestExact
    <2>2. v \in Vals /\ v \notin Static
      BY <1>0
    <2>3. Owners(v) \subseteq KeyHandles <=> KeyOwners(v) = Owners(v)
      BY <1>0 DEF Owners, KeyOwners
    <2>4. IsFiniteSet(Owners(v)) /\ KeyOwners(v) \in SUBSET Owners(v)
      BY OwnersFinite
    <2>5. KeyOwners(v) = Owners(v) <=>
              Cardinality(KeyOwners(v)) = Cardinality(Owners(v))
      BY <2>4, FS_Subset
    <2>. QED
      BY <2>2, <2>3, <2>5 DEF RefsExact, KeyRefsExact
  <1>. QED
    BY <1>1, <1>4, <1>5, <1>6, <1>7, <1>8

-----------------------------------------------------------------------------

\* The inductive invariant holds in every reachable state.
LEMMA Invariance == ASSUME KeyRoom PROVE Spec => []IInv
  BY InitInv, StepInv, PTL DEF Spec

\* The counters of an object stay within the width of their C types, and a
\* static object is never counted: FZ_INIT_STORABLE and the keep and drop
\* functions of store.c, for any number of objects and handles.
THEOREM TypeCorrect == ASSUME KeyRoom PROVE Spec => []TypeOK
  BY Invariance, InvImplies, PTL

\* No owner of a reference ever sees its object destroyed by the drops of the
\* others: fz_drop_storable, fz_drop_key_storable, fz_drop_key_storable_key.
THEOREM NeverDangling == ASSUME KeyRoom PROVE Spec => []NoDangling
  BY Invariance, InvImplies, PTL

\* An object nobody refers to is destroyed: the drop function that brings refs
\* to 0 always calls s->drop.
THEOREM NeverLeaked == ASSUME KeyRoom PROVE Spec => []NoLeak
  BY Invariance, InvImplies, PTL

\* refs and store_key_refs count the pointers and the pointers in store keys.
THEOREM CountersCount == ASSUME KeyRoom PROVE Spec => []CountersExact
  BY Invariance, InvImplies, PTL

\* The assertions of fz_drop_key_storable and fz_drop_key_storable_key hold, as
\* long as a short can count the keys.
THEOREM AssertionsHold == ASSUME KeyRoom PROVE Spec => []KeyAssertHolds
  BY Invariance, InvImplies, PTL

\* The comparison refs == store_key_refs detects exactly the objects that only
\* keys of the store keep alive.
THEOREM ReapTestCorrect == ASSUME KeyRoom PROVE Spec => []ReapTestExact
  BY Invariance, InvImplies, PTL
=============================================================================
