---------------------------- MODULE LocksProofs ----------------------------
(***************************************************************************)
(* Theorems about Locks, for any number of threads, fonts and values.       *)
(*                                                                         *)
(* That the order of the locks is kept depends on what may be called while  *)
(* FREETYPE or GLYPHCACHE is held, at whatever depth: the invariant Sound   *)
(* says which frames can be above one that holds a lock, and Ready ties the  *)
(* locks to the frames.  A stack is taken apart into its top frame and the  *)
(* rest, so that a step only has to say what the new top frame fits on.     *)
(* The last theorem, about faces, has an invariant of its own (FInv).       *)
(***************************************************************************)
EXTENDS Locks, SequenceTheorems, FiniteSetTheorems, TLAPS

FtHeld(f) == f.proc = "ft" /\ f.pc # "lock"
CacheHeld(f) == f.proc \in Draw \cup {"purge"} /\ f.pc \notin {"lock", "run"}
AllocHeld(f) == f.proc = "section" /\ f.pc # "lock"

FtIn(s) == \E i \in 1 .. Len(s) : FtHeld(s[i])
CacheIn(s) == \E i \in 1 .. Len(s) : CacheHeld(s[i])
AllocIn(s) == s # <<>> /\ AllocHeld(s[Len(s)])

Known(f) ==
    /\ f.proc = "ft" => f.pc \in {"lock", "user", "in", "had", "unuser"}
    /\ f.proc = "section" =>
          f.work \in {"malloc", "drop", "store"} /\ (f.pc = "last" => f.work = "drop")

\* What may be above a frame that holds a lock; FreeType only allocates.
AboveFt(f) == (f.proc = "section" /\ f.work = "malloc") \/ f.proc = "evict"
AboveCache(f) == f.proc \notin Draw \cup {"purge", "load"}

InMalloc(f) == f.proc = "ft" => f.pc = "had"
FtCalls(s) == \A i \in 1 .. Len(s) : InMalloc(s[i])
OnSection(s) == s # <<>> /\ s[Len(s)].proc = "section"
OnMore(s) == OnSection(s) /\ s[Len(s)].pc = "more"

\* What f needs of the frames below it.  A section lets go of its lock to
\* evict, and calls nothing else.
Fits(s, f) ==
    /\ FtIn(s) => AboveFt(f)
    /\ CacheIn(s) => AboveCache(f)
    /\ FtCalls(s)
    /\ OnSection(s) => f.proc = "evict"
    /\ f.proc = "evict" => OnMore(s)

\* The same of the j-th frame.
FitsAt(s, j) ==
    /\ Known(s[j])
    /\ \A i \in 1 .. j - 1 :
          /\ FtHeld(s[i]) => AboveFt(s[j])
          /\ CacheHeld(s[i]) => AboveCache(s[j])
          /\ InMalloc(s[i])
    /\ j > 1 /\ s[j - 1].proc = "section" => s[j].proc = "evict"
    /\ s[j].proc = "evict" => j > 1 /\ s[j - 1].proc = "section" /\ s[j - 1].pc = "more"

Sound(s) == s \in Seq(Frame) /\ \A j \in 1 .. Len(s) : FitsAt(s, j)

Types ==
    /\ holder \in [Lock -> Threads \cup {None}]
    /\ user \in Threads \cup {None}
    /\ stack \in [Threads -> Seq(Frame)]

UserFor(f, t) == IF f.pc = "user" THEN None ELSE t
UserIn(s, t, u) == \A i \in 1 .. Len(s) : FtHeld(s[i]) => u = UserFor(s[i], t)

\* What thread t's stack says of the locks and of ftmemory.user.
Ready(t, s, h, u) ==
    /\ Sound(s)
    /\ h[ALLOC] = t <=> AllocIn(s)
    /\ h[FREETYPE] = t <=> FtIn(s)
    /\ h[GLYPHCACHE] = t <=> CacheIn(s)
    /\ UserIn(s, t, u)
    /\ u = t => h[FREETYPE] = t

IInv == Types /\ \A t \in Threads : Ready(t, stack[t], holder, user)

-----------------------------------------------------------------------------
(* Stacks. *)

With(f, pc) == [f EXCEPT !.pc = pc]

\* A stack is its top frame on the rest.
LEMMA SplitTop ==
    ASSUME NEW s \in Seq(Frame), s # <<>>
    PROVE  /\ Popped(s) \in Seq(Frame)
           /\ s[Len(s)] \in Frame
           /\ s = Append(Popped(s), s[Len(s)])
           /\ \A pc \in Pc :
                 /\ With(s[Len(s)], pc) \in Frame
                 /\ Moved(s, pc) = Append(Popped(s), With(s[Len(s)], pc))
<1> DEFINE n == Len(s)
           p == SubSeq(s, 1, n - 1)
<1>1. n \in Nat /\ n >= 1 /\ s \in [1 .. n -> Frame] /\ n \in 1 .. n
  OBVIOUS
<1>2. n - 1 \in Int /\ \A i \in 1 .. n - 1 : s[i] \in Frame
  BY <1>1
<1>3. p \in Seq(Frame) /\ Len(p) = n - 1
  <2>1. /\ p \in Seq(Frame)
        /\ Len(p) = IF 1 <= n - 1 THEN n - 1 - 1 + 1 ELSE 0
    BY <1>2, SubSeqProperties
  <2> HIDE DEF p, n
  <2> QED
    BY <1>1, <2>1
<1>4. \A i \in 1 .. n - 1 : p[i] = s[i]
  BY <1>1
<1>5. ASSUME NEW f \in Frame
      PROVE  /\ Append(p, f) \in Seq(Frame) /\ Len(Append(p, f)) = n
             /\ Append(p, f)[n] = f
             /\ \A i \in 1 .. n - 1 : Append(p, f)[i] = s[i]
  <2>1. /\ Append(p, f) \in Seq(Frame) /\ Len(Append(p, f)) = Len(p) + 1
        /\ Append(p, f)[Len(p) + 1] = f
        /\ \A i \in 1 .. Len(p) : Append(p, f)[i] = p[i]
    BY <1>3, AppendProperties
  <2> HIDE DEF p, n
  <2> QED
    BY <1>1, <1>3, <1>4, <2>1
<1>6. Append(p, s[n]) = s
  <2>1. \A i \in 1 .. n : Append(p, s[n])[i] = s[i]
    <3> HIDE DEF p, n
    <3> QED
      BY <1>1, <1>5
  <2> QED
    BY <1>1, <1>5, <2>1, SeqEqual
<1>7. ASSUME NEW pc \in Pc
      PROVE  With(s[n], pc) \in Frame /\ Moved(s, pc) = Append(p, With(s[n], pc))
  <2>1. With(s[n], pc) \in Frame
    BY <1>1 DEF Frame, With
  <2> DEFINE f == With(s[n], pc)
             r == [s EXCEPT ![n] = f]
  <2>2. Moved(s, pc) = r
    BY DEF Moved, With
  <2> HIDE DEF f
  <2>3. /\ r \in Seq(Frame) /\ Len(r) = n
        /\ \A i \in 1 .. n : r[i] = IF i = n THEN f ELSE s[i]
    <3>1. f \in Frame
      BY <2>1 DEF f
    <3>2. \A x \in Frame :
             /\ [s EXCEPT ![n] = x] \in Seq(Frame)
             /\ Len([s EXCEPT ![n] = x]) = n
             /\ \A i \in 1 .. n : [s EXCEPT ![n] = x][i] = IF i = n THEN x ELSE s[i]
      BY <1>1, ExceptSeq
    <3> QED
      BY <3>1, <3>2
  <2>4. /\ Append(p, f) \in Seq(Frame) /\ Len(Append(p, f)) = n
        /\ \A i \in 1 .. n : Append(p, f)[i] = IF i = n THEN f ELSE s[i]
    <3>1. f \in Frame
      BY <2>1 DEF f
    <3> HIDE DEF p, n
    <3> QED
      BY <1>1, <1>5, <3>1
  <2>5. r = Append(p, f)
    <3> HIDE DEF r, p, n
    <3> QED
      BY <2>3, <2>4, SeqEqual
  <2> QED
    BY <2>1, <2>2, <2>5 DEF f
<1> QED
  BY <1>1, <1>3, <1>6, <1>7 DEF Popped

\* What holds of a stack with one more frame.
LEMMA AppendHolds ==
    ASSUME NEW p \in Seq(Frame), NEW f \in Frame, NEW t, NEW u
    PROVE  /\ Append(p, f) \in Seq(Frame) /\ Append(p, f) # <<>>
           /\ Append(p, f)[Len(Append(p, f))] = f
           /\ FtIn(Append(p, f)) <=> FtIn(p) \/ FtHeld(f)
           /\ CacheIn(Append(p, f)) <=> CacheIn(p) \/ CacheHeld(f)
           /\ AllocIn(Append(p, f)) <=> AllocHeld(f)
           /\ FtCalls(Append(p, f)) <=> FtCalls(p) /\ InMalloc(f)
           /\ OnSection(Append(p, f)) <=> f.proc = "section"
           /\ OnMore(Append(p, f)) <=> f.proc = "section" /\ f.pc = "more"
           /\ UserIn(Append(p, f), t, u) <=> UserIn(p, t, u) /\ (FtHeld(f) => u = UserFor(f, t))
<1> DEFINE q == Append(p, f)
           n == Len(p)
<1>1. /\ q \in Seq(Frame) /\ q # <<>> /\ Len(q) = n + 1 /\ n \in Nat
      /\ q[n + 1] = f
      /\ \A i \in 1 .. n : q[i] = p[i]
  BY AppendProperties
<1> HIDE DEF q
<1>2. 1 .. Len(q) = (1 .. n) \cup {n + 1}
  BY <1>1
<1>3. FtIn(q) <=> FtIn(p) \/ FtHeld(f)
  BY <1>1, <1>2 DEF FtIn
<1>4. CacheIn(q) <=> CacheIn(p) \/ CacheHeld(f)
  BY <1>1, <1>2 DEF CacheIn
<1>5. FtCalls(q) <=> FtCalls(p) /\ InMalloc(f)
  BY <1>1, <1>2 DEF FtCalls
<1>6. UserIn(q, t, u) <=> UserIn(p, t, u) /\ (FtHeld(f) => u = UserFor(f, t))
  BY <1>1, <1>2 DEF UserIn
<1>7. q[Len(q)] = f
  BY <1>1
<1> QED
  BY <1>1, <1>3, <1>4, <1>5, <1>6, <1>7 DEF AllocIn, OnSection, OnMore, q

LEMMA AppendSound ==
    ASSUME NEW p \in Seq(Frame), NEW f \in Frame
    PROVE  Sound(Append(p, f)) <=> Sound(p) /\ Known(f) /\ Fits(p, f)
<1> DEFINE q == Append(p, f)
           n == Len(p)
<1>1. /\ q \in Seq(Frame) /\ Len(q) = n + 1 /\ n \in Nat
      /\ q[n + 1] = f
      /\ \A i \in 1 .. n : q[i] = p[i]
  BY AppendProperties
<1> HIDE DEF q
<1>2. 1 .. Len(q) = (1 .. n) \cup {n + 1}
  BY <1>1
<1>3. ASSUME NEW j \in 1 .. n PROVE FitsAt(q, j) <=> FitsAt(p, j)
  <2>1. /\ q[j] = p[j]
        /\ \A i \in 1 .. j - 1 : q[i] = p[i]
        /\ j > 1 => q[j - 1] = p[j - 1]
    BY <1>1
  <2> QED
    BY <2>1 DEF FitsAt
<1>4. FitsAt(q, n + 1) <=> Known(f) /\ Fits(p, f)
  <2>1. /\ 1 .. n + 1 - 1 = 1 .. n /\ n + 1 - 1 = n
        /\ n + 1 > 1 <=> p # <<>>
        /\ p # <<>> => q[n] = p[n]
    BY <1>1
  <2>2. FitsAt(q, n + 1) <=>
            /\ Known(f)
            /\ \A i \in 1 .. n :
                  /\ FtHeld(p[i]) => AboveFt(f)
                  /\ CacheHeld(p[i]) => AboveCache(f)
                  /\ InMalloc(p[i])
            /\ p # <<>> /\ p[n].proc = "section" => f.proc = "evict"
            /\ f.proc = "evict" => p # <<>> /\ p[n].proc = "section" /\ p[n].pc = "more"
    BY <1>1, <2>1 DEF FitsAt
  <2> QED
    BY <2>2 DEF Fits, FtIn, CacheIn, FtCalls, OnSection, OnMore
<1> QED
  BY <1>1, <1>2, <1>3, <1>4 DEF Sound, q

\* The same of a stack with one more frame, in terms of that frame and the rest.
OneMore(t, p, f, h, u) ==
    /\ Sound(p) /\ Known(f) /\ Fits(p, f)
    /\ h[ALLOC] = t <=> AllocHeld(f)
    /\ h[FREETYPE] = t <=> FtIn(p) \/ FtHeld(f)
    /\ h[GLYPHCACHE] = t <=> CacheIn(p) \/ CacheHeld(f)
    /\ UserIn(p, t, u)
    /\ FtHeld(f) => u = UserFor(f, t)
    /\ u = t => h[FREETYPE] = t

LEMMA AppendReady ==
    ASSUME NEW p \in Seq(Frame), NEW f \in Frame, NEW t, NEW h, NEW u
    PROVE  Ready(t, Append(p, f), h, u) <=> OneMore(t, p, f, h, u)
<1> DEFINE q == Append(p, f)
<1>1. Sound(q) <=> Sound(p) /\ Known(f) /\ Fits(p, f)
  BY AppendSound
<1>2. /\ FtIn(q) <=> FtIn(p) \/ FtHeld(f)
      /\ CacheIn(q) <=> CacheIn(p) \/ CacheHeld(f)
      /\ AllocIn(q) <=> AllocHeld(f)
      /\ UserIn(q, t, u) <=> UserIn(p, t, u) /\ (FtHeld(f) => u = UserFor(f, t))
  BY AppendHolds
<1> HIDE DEF q
<1>3. Ready(t, q, h, u) <=> OneMore(t, p, f, h, u)
  BY <1>1, <1>2 DEF Ready, OneMore
<1> QED
  BY <1>3 DEF q

\* The top frame of a thread in a call, and the rest of its stack.
LEMMA TopFacts ==
    ASSUME IInv, NEW t \in Threads, stack[t] # <<>>
    PROVE  /\ Popped(stack[t]) \in Seq(Frame)
           /\ Top(t) \in Frame
           /\ stack[t] = Append(Popped(stack[t]), Top(t))
           /\ OneMore(t, Popped(stack[t]), Top(t), holder, user)
           /\ \A pc \in Pc :
                 /\ With(Top(t), pc) \in Frame
                 /\ Moved(stack[t], pc) = Append(Popped(stack[t]), With(Top(t), pc))
<1>1. stack[t] \in Seq(Frame) /\ Ready(t, stack[t], holder, user)
  BY DEF IInv, Types
<1>2. /\ Popped(stack[t]) \in Seq(Frame)
      /\ Top(t) \in Frame
      /\ stack[t] = Append(Popped(stack[t]), Top(t))
      /\ \A pc \in Pc :
            /\ With(Top(t), pc) \in Frame
            /\ Moved(stack[t], pc) = Append(Popped(stack[t]), With(Top(t), pc))
  BY <1>1, SplitTop DEF Top
<1>3. Ready(t, Append(Popped(stack[t]), Top(t)), holder, user)
  BY <1>1, <1>2
<1>4. OneMore(t, Popped(stack[t]), Top(t), holder, user)
  BY <1>2, <1>3, AppendReady
<1> QED
  BY <1>2, <1>4

\* A step of t that leaves the locks and ftmemory.user of the others alone.
LEMMA Preserved ==
    ASSUME IInv, NEW t \in Threads, NEW s,
           stack' = [stack EXCEPT ![t] = s],
           Ready(t, s, holder', user'),
           holder' \in [Lock -> Threads \cup {None}],
           \A n \in Lock, r \in Threads \ {t} : holder'[n] = r <=> holder[n] = r,
           user' = user \/ (user' \in {t, None} /\ holder[FREETYPE] = t)
    PROVE  IInv'
<1>1. Types'
  BY DEF IInv, Types, Ready, Sound
<1>2. ASSUME NEW r \in Threads
      PROVE  Ready(r, stack[r], holder, user)'
  <2>1. CASE r = t
    <3>1. stack'[r] = s
      BY <2>1 DEF IInv, Types
    <3> QED
      BY <2>1, <3>1 DEF Ready
  <2>2. CASE r # t
    <3>1. stack'[r] = stack[r] /\ Ready(r, stack[r], holder, user)
      BY <2>2 DEF IInv, Types
    <3>2. \A n \in Lock : holder'[n] = r <=> holder[n] = r
      BY <2>2
    <3>3. UserIn(stack[r], r, user')
      <4>1. CASE user' = user
        BY <3>1, <4>1 DEF Ready
      <4>2. CASE holder[FREETYPE] = t
        BY <2>2, <3>1, <4>2 DEF Ready, UserIn, FtIn
      <4> QED
        BY <4>1, <4>2
    <3>4. user' = r => holder'[FREETYPE] = r
      BY <2>2, <3>1, <3>2, LocksAssumption DEF Ready, Lock
    <3> QED
      BY <3>1, <3>2, <3>3, <3>4 DEF Ready, Lock
  <2> QED
    BY <2>1, <2>2
<1> QED
  BY <1>1, <1>2 DEF IInv

-----------------------------------------------------------------------------
(* Frames. *)

LEMMA WithFields ==
    ASSUME NEW f \in Frame, NEW pc \in Pc
    PROVE  With(f, pc).proc = f.proc /\ With(f, pc).pc = pc /\ With(f, pc).work = f.work
BY DEF With, Frame

LEMMA FrameTypes ==
    ASSUME NEW proc \in Proc, NEW pc \in Pc, NEW work \in Work,
           NEW item \in Fonts \cup Others \cup {None}
    PROVE  F(proc, pc, work, item) \in Frame
BY DEF F, Frame

LEMMA TopTypes ==
    ASSUME NEW f \in Frame
    PROVE  /\ f.proc \in Proc /\ f.pc \in Pc /\ f.work \in Work
           /\ f.item \in Fonts \cup Others \cup {None}
BY DEF Frame

\* In a region FreeType works in, ftmemory.user is the thread.
LEMMA UserBelow ==
    ASSUME NEW p, NEW t, NEW u, FtIn(p), FtCalls(p), UserIn(p, t, u)
    PROVE  u = t
BY DEF FtIn, FtCalls, UserIn, UserFor, FtHeld, InMalloc

\* What FitsOn asks of a second frame.
LEMMA FitsOn ==
    ASSUME NEW p \in Seq(Frame), NEW f \in Frame, NEW g
    PROVE  Fits(Append(p, f), g) <=>
              /\ FtIn(p) \/ FtHeld(f) => AboveFt(g)
              /\ CacheIn(p) \/ CacheHeld(f) => AboveCache(g)
              /\ FtCalls(p) /\ InMalloc(f)
              /\ f.proc = "section" => g.proc = "evict"
              /\ g.proc = "evict" => f.proc = "section" /\ f.pc = "more"
BY AppendHolds DEF Fits

-----------------------------------------------------------------------------
(* How a step changes the stack. *)

\* The top frame goes on.
LEMMA GoesOn ==
    ASSUME IInv, NEW t \in Threads, stack[t] # <<>>, NEW pc \in Pc,
           stack' = Goes(t, pc),
           OneMore(t, Popped(stack[t]), With(Top(t), pc), holder', user'),
           holder' \in [Lock -> Threads \cup {None}],
           \A n \in Lock, r \in Threads \ {t} : holder'[n] = r <=> holder[n] = r,
           user' = user \/ (user' \in {t, None} /\ holder[FREETYPE] = t)
    PROVE  IInv'
<1>1. stack' = [stack EXCEPT ![t] = Moved(stack[t], pc)]
  BY DEF Goes
<1>2. /\ Moved(stack[t], pc) = Append(Popped(stack[t]), With(Top(t), pc))
      /\ Popped(stack[t]) \in Seq(Frame) /\ With(Top(t), pc) \in Frame
  BY TopFacts
<1>3. Ready(t, Append(Popped(stack[t]), With(Top(t), pc)), holder', user')
  BY <1>2, AppendReady
<1> QED
  BY <1>1, <1>2, <1>3, Preserved

\* The top frame goes on at pc, below a new one.
LEMMA CallsOn ==
    ASSUME IInv, NEW t \in Threads, stack[t] # <<>>, NEW pc \in Pc, NEW g \in Frame,
           stack' = Calls(t, pc, g),
           OneMore(t, Append(Popped(stack[t]), With(Top(t), pc)), g, holder, user),
           UNCHANGED <<holder, user>>
    PROVE  IInv'
<1>1. stack' = [stack EXCEPT ![t] = Append(Moved(stack[t], pc), g)]
  BY DEF Calls
<1>2. Ready(t, Append(Moved(stack[t], pc), g), holder', user')
  <2>1. /\ With(Top(t), pc) \in Frame /\ Popped(stack[t]) \in Seq(Frame)
        /\ Moved(stack[t], pc) = Append(Popped(stack[t]), With(Top(t), pc))
    BY TopFacts
  <2>2. Append(Popped(stack[t]), With(Top(t), pc)) \in Seq(Frame)
    BY <2>1, AppendProperties
  <2> QED
    BY <2>1, <2>2, AppendReady
<1> QED
  BY <1>1, <1>2, Preserved DEF IInv, Types

\* The top frame ends.
LEMMA ReturnsOn ==
    ASSUME IInv, NEW t \in Threads, stack[t] # <<>>,
           stack' = Returns(t),
           Ready(t, Popped(stack[t]), holder', user'),
           holder' \in [Lock -> Threads \cup {None}],
           \A n \in Lock, r \in Threads \ {t} : holder'[n] = r <=> holder[n] = r,
           user' = user \/ (user' \in {t, None} /\ holder[FREETYPE] = t)
    PROVE  IInv'
<1>1. stack' = [stack EXCEPT ![t] = Popped(stack[t])]
  BY DEF Returns
<1> QED
  BY <1>1, Preserved

\* The top frame ends with a call.
LEMMA BecomesOn ==
    ASSUME IInv, NEW t \in Threads, stack[t] # <<>>, NEW g \in Frame,
           stack' = Becomes(t, g),
           OneMore(t, Popped(stack[t]), g, holder', user'),
           holder' \in [Lock -> Threads \cup {None}],
           \A n \in Lock, r \in Threads \ {t} : holder'[n] = r <=> holder[n] = r,
           user' = user \/ (user' \in {t, None} /\ holder[FREETYPE] = t)
    PROVE  IInv'
<1>1. stack' = [stack EXCEPT ![t] = Append(Popped(stack[t]), g)]
  BY DEF Becomes
<1>2. Ready(t, Append(Popped(stack[t]), g), holder', user')
  BY TopFacts, AppendReady
<1> QED
  BY <1>1, <1>2, Preserved

\* What is below the top frame, once that is gone, and where it may leave off.
LEMMA BelowReady ==
    ASSUME NEW t, NEW p \in Seq(Frame), NEW f \in Frame, NEW h, NEW u, NEW h2, NEW u2,
           OneMore(t, p, f, h, u),
           h2[ALLOC] = t <=> f.proc = "evict",
           h2[FREETYPE] = t <=> FtIn(p),
           h2[GLYPHCACHE] = t <=> CacheIn(p),
           u2 = u \/ (u2 = None /\ ~FtIn(p)), u2 = t => h2[FREETYPE] = t
    PROVE  Ready(t, p, h2, u2)
<1>1. AllocIn(p) <=> f.proc = "evict"
  BY DEF OneMore, Fits, AllocIn, AllocHeld, OnSection, OnMore
<1>2. UserIn(p, t, u2)
  BY DEF OneMore, UserIn, FtIn
<1> QED
  BY <1>1, <1>2 DEF Ready, OneMore

-----------------------------------------------------------------------------
(* The steps. *)

LEMMA HolderTypes ==
    ASSUME IInv, NEW t \in Threads, NEW n \in Lock
    PROVE  /\ Acquire(t, n) =>
                /\ holder' \in [Lock -> Threads \cup {None}]
                /\ holder[n] = None /\ holder'[n] = t
                /\ \A m \in Lock \ {n} : holder'[m] = holder[m]
                /\ \A m \in Lock, r \in Threads \ {t} : holder'[m] = r <=> holder[m] = r
           /\ Release(n) /\ holder[n] = t =>
                /\ holder' \in [Lock -> Threads \cup {None}]
                /\ holder'[n] = None
                /\ \A m \in Lock \ {n} : holder'[m] = holder[m]
                /\ \A m \in Lock, r \in Threads \ {t} : holder'[m] = r <=> holder[m] = r
           /\ UNCHANGED holder =>
                /\ holder' \in [Lock -> Threads \cup {None}]
                /\ \A m \in Lock : holder'[m] = holder[m]
                /\ \A m \in Lock, r \in Threads \ {t} : holder'[m] = r <=> holder[m] = r
BY LocksAssumption DEF IInv, Types, Acquire, Release

\* What the top frame says of those below it.
LEMMA TopRules ==
    ASSUME NEW p, NEW f, NEW t, NEW h, NEW u, OneMore(t, p, f, h, u)
    PROVE  /\ f.proc \notin {"section", "evict"} => ~FtIn(p)
           /\ f.proc = "section" /\ f.work # "malloc" => ~FtIn(p)
           /\ f.proc \in {"render", "type3", "purge", "load"} => ~CacheIn(p)
           /\ ~FtIn(p) => \A u2 : UserIn(p, t, u2)
           /\ FtIn(p) => u = t
<1>1. ~FtIn(p) => \A u2 : UserIn(p, t, u2)
  BY DEF FtIn, UserIn
<1>2. FtIn(p) => u = t
  BY UserBelow DEF OneMore, Fits
<1> QED
  BY <1>1, <1>2 DEF OneMore, Fits, AboveFt, AboveCache, Draw

\* The top frame at another pc fits where it did.
LEMMA WithReady ==
    ASSUME NEW p, NEW f \in Frame, NEW pc \in Pc, NEW t,
           NEW h, NEW u, NEW h2, NEW u2,
           OneMore(t, p, f, h, u),
           f.proc = "ft" => pc \in {"lock", "user", "in", "had", "unuser"},
           pc # "last",
           h2[ALLOC] = t <=> f.proc = "section" /\ pc # "lock",
           h2[FREETYPE] = t <=> FtIn(p) \/ (f.proc = "ft" /\ pc # "lock"),
           h2[GLYPHCACHE] = t <=>
              CacheIn(p) \/ (f.proc \in {"render", "type3", "purge"} /\ pc \notin {"lock", "run"}),
           u2 = u \/ ~FtIn(p),
           f.proc = "ft" /\ pc # "lock" => u2 = IF pc = "user" THEN None ELSE t,
           u2 = t => h2[FREETYPE] = t
    PROVE  OneMore(t, p, With(f, pc), h2, u2)
<1> DEFINE g == With(f, pc)
<1>1. g.proc = f.proc /\ g.pc = pc /\ g.work = f.work
  BY WithFields
<1>2. UserIn(p, t, u2)
  BY TopRules DEF OneMore
<1> HIDE DEF g
<1>3. Known(g) /\ Fits(p, g)
  BY <1>1 DEF OneMore, Known, Fits, AboveFt, AboveCache
<1>4. /\ AllocHeld(g) <=> f.proc = "section" /\ pc # "lock"
      /\ FtHeld(g) <=> f.proc = "ft" /\ pc # "lock"
      /\ CacheHeld(g) <=> f.proc \in {"render", "type3", "purge"} /\ pc \notin {"lock", "run"}
      /\ UserFor(g, t) = IF pc = "user" THEN None ELSE t
  BY <1>1 DEF AllocHeld, FtHeld, CacheHeld, Draw, UserFor
<1>5. OneMore(t, p, g, h2, u2)
  BY <1>2, <1>3, <1>4 DEF OneMore
<1> QED
  BY <1>5 DEF g

\* The top frame goes on at pc.
LEMMA GoesKeeps ==
    ASSUME IInv, NEW t \in Threads, stack[t] # <<>>, NEW pc \in Pc,
           stack' = Goes(t, pc),
           Top(t).proc = "ft" => pc \in {"lock", "user", "in", "had", "unuser"},
           pc # "last",
           holder'[ALLOC] = t <=> Top(t).proc = "section" /\ pc # "lock",
           holder'[FREETYPE] = t <=>
              FtIn(Popped(stack[t])) \/ (Top(t).proc = "ft" /\ pc # "lock"),
           holder'[GLYPHCACHE] = t <=>
              CacheIn(Popped(stack[t]))
              \/ (Top(t).proc \in {"render", "type3", "purge"} /\ pc \notin {"lock", "run"}),
           user' = user \/ ~FtIn(Popped(stack[t])),
           Top(t).proc = "ft" /\ pc # "lock" => user' = IF pc = "user" THEN None ELSE t,
           user' = t => holder'[FREETYPE] = t,
           holder' \in [Lock -> Threads \cup {None}],
           \A n \in Lock, r \in Threads \ {t} : holder'[n] = r <=> holder[n] = r,
           user' = user \/ (user' \in {t, None} /\ holder[FREETYPE] = t)
    PROVE  IInv'
<1> DEFINE p == Popped(stack[t])
           f == Top(t)
<1>1. p \in Seq(Frame) /\ f \in Frame /\ OneMore(t, p, f, holder, user)
  BY TopFacts
<1>2. OneMore(t, p, With(f, pc), holder', user')
  BY <1>1, WithReady
<1> QED
  BY <1>2, GoesOn

\* The frame g holds no lock yet, and evicts nothing.
Starts(g) ==
    /\ Known(g) /\ g.proc # "evict"
    /\ ~AllocHeld(g) /\ ~FtHeld(g) /\ ~CacheHeld(g)

\* The top frame goes on at pc, and calls g.
LEMMA CallsKeeps ==
    ASSUME IInv, NEW t \in Threads, stack[t] # <<>>, NEW pc \in Pc, NEW g \in Frame,
           stack' = Calls(t, pc, g), UNCHANGED <<holder, user>>,
           Starts(g), Top(t).proc # "section", pc # "last",
           Top(t).proc = "ft" => pc = "had" /\ Top(t).pc \notin {"lock", "user"},
           Top(t).proc \in {"render", "type3", "purge"} =>
              pc \notin {"lock", "run"} /\ Top(t).pc \notin {"lock", "run"},
           FtIn(Popped(stack[t])) \/ Top(t).proc = "ft" => AboveFt(g),
           CacheIn(Popped(stack[t])) \/ Top(t).proc \in {"render", "type3", "purge"} => AboveCache(g)
    PROVE  IInv'
<1> DEFINE p == Popped(stack[t])
           f == Top(t)
           e == With(f, pc)
<1>1. p \in Seq(Frame) /\ f \in Frame /\ e \in Frame /\ OneMore(t, p, f, holder, user)
  BY TopFacts
<1>2. e.proc = f.proc /\ e.pc = pc
  BY <1>1, WithFields
<1>3. OneMore(t, p, e, holder, user)
  <2>1. /\ holder[ALLOC] = t <=> f.proc = "section" /\ pc # "lock"
        /\ holder[FREETYPE] = t <=> FtIn(p) \/ (f.proc = "ft" /\ pc # "lock")
        /\ holder[GLYPHCACHE] = t <=>
              CacheIn(p) \/ (f.proc \in {"render", "type3", "purge"} /\ pc \notin {"lock", "run"})
        /\ f.proc = "ft" /\ pc # "lock" => user = t
        /\ user = t => holder[FREETYPE] = t
    BY <1>1 DEF OneMore, AllocHeld, FtHeld, CacheHeld, Draw, UserFor
  <2> HIDE DEF p, f
  <2> QED
    BY <1>1, <2>1, WithReady DEF f
<1> HIDE DEF p, e
<1>4. /\ FtHeld(e) <=> f.proc = "ft"
      /\ CacheHeld(e) <=> f.proc \in {"render", "type3", "purge"}
      /\ InMalloc(e)
      /\ e.proc # "section" /\ ~AllocHeld(e)
  BY <1>2 DEF FtHeld, CacheHeld, InMalloc, AllocHeld, Draw
<1>5. Fits(Append(p, e), g)
  <2>1. FtCalls(p)
    BY <1>1 DEF OneMore, Fits
  <2> QED
    BY <1>1, <1>4, <2>1, FitsOn DEF Starts, p
<1>6. /\ Append(p, e) \in Seq(Frame)
      /\ Sound(Append(p, e))
      /\ FtIn(Append(p, e)) <=> FtIn(p) \/ FtHeld(e)
      /\ CacheIn(Append(p, e)) <=> CacheIn(p) \/ CacheHeld(e)
      /\ UserIn(Append(p, e), t, user)
  BY <1>1, <1>3, AppendHolds, AppendSound DEF OneMore
<1>7. OneMore(t, Append(p, e), g, holder, user)
  BY <1>3, <1>4, <1>5, <1>6 DEF OneMore, Starts
<1> QED
  BY <1>7, CallsOn DEF p, e

\* The top frame ends, and leaves the locks to those below it.
LEMMA ReturnsKeeps ==
    ASSUME IInv, NEW t \in Threads, stack[t] # <<>>,
           stack' = Returns(t),
           holder'[ALLOC] = t <=> Top(t).proc = "evict",
           holder'[FREETYPE] = t <=> FtIn(Popped(stack[t])),
           holder'[GLYPHCACHE] = t <=> CacheIn(Popped(stack[t])),
           user' = user \/ (user' = None /\ ~FtIn(Popped(stack[t])) /\ holder[FREETYPE] = t),
           user' = t => holder'[FREETYPE] = t,
           holder' \in [Lock -> Threads \cup {None}],
           \A n \in Lock, r \in Threads \ {t} : holder'[n] = r <=> holder[n] = r
    PROVE  IInv'
<1> DEFINE p == Popped(stack[t])
           f == Top(t)
<1>1. p \in Seq(Frame) /\ f \in Frame /\ OneMore(t, p, f, holder, user)
  BY TopFacts
<1>2. Ready(t, p, holder', user')
  BY <1>1, BelowReady
<1> QED
  BY <1>2, ReturnsOn

\* The top frame ends, and g takes its place.
LEMMA BecomesKeeps ==
    ASSUME IInv, NEW t \in Threads, stack[t] # <<>>, NEW g \in Frame,
           stack' = Becomes(t, g), Starts(g),
           Top(t).proc \in {"dropfont", "load", "section"},
           FtIn(Popped(stack[t])) => AboveFt(g),
           CacheIn(Popped(stack[t])) => AboveCache(g),
           holder'[ALLOC] # t,
           holder'[FREETYPE] = holder[FREETYPE],
           holder'[GLYPHCACHE] = holder[GLYPHCACHE],
           user' = user,
           holder' \in [Lock -> Threads \cup {None}],
           \A n \in Lock, r \in Threads \ {t} : holder'[n] = r <=> holder[n] = r
    PROVE  IInv'
<1> DEFINE p == Popped(stack[t])
           f == Top(t)
<1>1. p \in Seq(Frame) /\ f \in Frame /\ OneMore(t, p, f, holder, user)
  BY TopFacts
<1>2. ~FtHeld(f) /\ ~CacheHeld(f) /\ ~OnSection(p)
  BY <1>1 DEF OneMore, Fits, FtHeld, CacheHeld, Draw
<1>3. Fits(p, g)
  BY <1>1, <1>2 DEF OneMore, Fits, Starts
<1>4. OneMore(t, p, g, holder', user')
  BY <1>1, <1>2, <1>3 DEF OneMore, Starts
<1> QED
  BY <1>4, BecomesOn

\* What the invariant says of a thread in a call, in terms of its top frame.
LEMMA InvTop ==
    ASSUME IInv, NEW t \in Threads, stack[t] # <<>>
    PROVE  /\ Popped(stack[t]) \in Seq(Frame) /\ Top(t) \in Frame /\ Known(Top(t))
           /\ holder[ALLOC] = t <=> Top(t).proc = "section" /\ Top(t).pc # "lock"
           /\ holder[FREETYPE] = t <=>
                 FtIn(Popped(stack[t])) \/ (Top(t).proc = "ft" /\ Top(t).pc # "lock")
           /\ holder[GLYPHCACHE] = t <=>
                 CacheIn(Popped(stack[t]))
                 \/ (Top(t).proc \in {"render", "type3", "purge"} /\ Top(t).pc \notin {"lock", "run"})
           /\ Top(t).proc = "ft" /\ Top(t).pc # "lock" => user = IF Top(t).pc = "user" THEN None ELSE t
           /\ user = t => holder[FREETYPE] = t
           /\ Top(t).proc \notin {"section", "evict"} => ~FtIn(Popped(stack[t]))
           /\ Top(t).proc = "section" /\ Top(t).work # "malloc" => ~FtIn(Popped(stack[t]))
           /\ FtIn(Popped(stack[t])) => user = t
           /\ Top(t).proc \in {"render", "type3", "purge", "load"} => ~CacheIn(Popped(stack[t]))
           /\ holder \in [Lock -> Threads \cup {None}] /\ t # None
<1>1. OneMore(t, Popped(stack[t]), Top(t), holder, user) /\ Popped(stack[t]) \in Seq(Frame) /\ Top(t) \in Frame
  BY TopFacts
<1>2. holder \in [Lock -> Threads \cup {None}] /\ t # None
  BY LocksAssumption DEF IInv, Types
<1> QED
  BY <1>1, <1>2, TopRules DEF OneMore, AllocHeld, FtHeld, CacheHeld, Draw, UserFor

\* The frames a step begins.
LEMMA FrameStarts ==
    ASSUME NEW work \in Work, NEW item \in Fonts \cup Others \cup {None}
    PROVE  /\ Region(work, item) \in Frame /\ Starts(Region(work, item)) /\ AboveCache(Region(work, item))
           /\ DropFont(work, item) \in Frame /\ Starts(DropFont(work, item)) /\ AboveCache(DropFont(work, item))
           /\ work \in {"malloc", "drop", "store"} =>
                Section(work, item) \in Frame /\ Starts(Section(work, item)) /\ AboveCache(Section(work, item))
BY FrameTypes DEF Region, DropFont, Section, F, Proc, Pc, Starts, Known, AllocHeld, FtHeld, CacheHeld,
   Draw, AboveCache

LEMMA MallocStarts == Malloc \in Frame /\ Starts(Malloc) /\ AboveCache(Malloc) /\ AboveFt(Malloc)
BY FrameStarts DEF Malloc, Section, F, Work, AboveFt

LEMMA FtLockKeeps ==
    ASSUME IInv, NEW t \in Threads, FtLock(t)
    PROVE  IInv'
<1>1. stack[t] # <<>> /\ Top(t).proc = "ft" /\ Top(t).pc = "lock"
  BY DEF FtLock, At
<1>2. /\ holder' \in [Lock -> Threads \cup {None}]
      /\ holder[FREETYPE] = None /\ holder'[FREETYPE] = t
      /\ holder'[ALLOC] = holder[ALLOC] /\ holder'[GLYPHCACHE] = holder[GLYPHCACHE]
      /\ \A m \in Lock, r \in Threads \ {t} : holder'[m] = r <=> holder[m] = r
  BY HolderTypes DEF FtLock, Lock, ALLOC, FREETYPE, GLYPHCACHE
<1>3. user = None /\ user' = user /\ stack' = Goes(t, "user")
  BY LocksAssumption, <1>2 DEF FtLock, IInv, Types, Ready
<1>4. "user" \in Pc
  BY DEF Pc
<1> QED
  BY <1>1, <1>2, <1>3, <1>4, InvTop, GoesKeeps

LEMMA SetUserKeeps ==
    ASSUME IInv, NEW t \in Threads, SetUser(t)
    PROVE  IInv'
<1>1. stack[t] # <<>> /\ Top(t).proc = "ft" /\ Top(t).pc = "user"
  BY DEF SetUser, At
<1>2. user' = t /\ UNCHANGED holder /\ stack' = Goes(t, "in") /\ "in" \in Pc
  BY DEF SetUser, Briefly, Pc
<1> QED
  BY <1>1, <1>2, InvTop, HolderTypes, GoesKeeps DEF Lock

LEMMA FtAllocKeeps ==
    ASSUME IInv, NEW t \in Threads, FtAlloc(t)
    PROVE  IInv'
<1>1. stack[t] # <<>> /\ Top(t).proc = "ft" /\ Top(t).pc = "in"
  BY DEF FtAlloc, At
<1>2. UNCHANGED <<holder, user>> /\ stack' = Calls(t, "had", Malloc) /\ "had" \in Pc
  BY DEF FtAlloc, Pc
<1> QED
  BY <1>1, <1>2, MallocStarts, CallsKeeps

LEMMA FtWorkKeeps ==
    ASSUME IInv, NEW t \in Threads, FtWork(t)
    PROVE  IInv'
<1>1. stack[t] # <<>> /\ Top(t).proc = "ft" /\ Top(t).pc \in {"in", "had"}
  BY DEF FtWork, InFreeType, At
<1>2. UNCHANGED <<holder, user>> /\ stack' = Goes(t, "unuser") /\ "unuser" \in Pc
  BY DEF FtWork, Pc
<1> QED
  BY <1>1, <1>2, InvTop, GoesKeeps

LEMMA FtUnlockKeeps ==
    ASSUME IInv, NEW t \in Threads, FtUnlock(t)
    PROVE  IInv'
<1>1. stack[t] # <<>> /\ Top(t).proc = "ft" /\ Top(t).pc = "unuser"
  BY DEF FtUnlock, At
<1>2. holder[FREETYPE] = t
  BY <1>1, InvTop
<1>3. /\ holder' \in [Lock -> Threads \cup {None}]
      /\ holder'[FREETYPE] = None
      /\ holder'[ALLOC] = holder[ALLOC] /\ holder'[GLYPHCACHE] = holder[GLYPHCACHE]
      /\ \A m \in Lock, r \in Threads \ {t} : holder'[m] = r <=> holder[m] = r
  BY <1>2, HolderTypes DEF FtUnlock, Lock, ALLOC, FREETYPE, GLYPHCACHE
<1>4. user' = None /\ stack' = Returns(t)
  BY DEF FtUnlock
<1> QED
  BY <1>1, <1>2, <1>3, <1>4, InvTop, ReturnsKeeps

LEMMA UnrefKeeps ==
    ASSUME IInv, NEW t \in Threads, Unref(t)
    PROVE  IInv'
<1>1. stack[t] # <<>> /\ Top(t).proc = "dropfont" /\ Top(t).item \in Fonts \cup Others \cup {None}
  BY InvTop, TopTypes DEF Unref, At
<1>2. UNCHANGED <<holder, user>>
  BY DEF Unref, Briefly
<1>3. CASE stack' = Returns(t)
  BY <1>1, <1>2, <1>3, InvTop, ReturnsKeeps
<1>4. CASE stack' = Calls(t, "unkeep", Region("close", Top(t).item))
  <2>1. "unkeep" \in Pc /\ "close" \in Work
    BY DEF Pc, Work
  <2> QED
    BY <1>1, <1>2, <1>4, <2>1, InvTop, FrameStarts, CallsKeeps
<1> QED
  BY <1>3, <1>4 DEF Unref

LEMMA DropFreetypeKeeps ==
    ASSUME IInv, NEW t \in Threads, DropFreetype(t)
    PROVE  IInv'
<1>1. /\ stack[t] # <<>> /\ Top(t).proc \in {"dropfont", "load"}
      /\ Top(t).item \in Fonts \cup Others \cup {None}
  BY InvTop, TopTypes DEF DropFreetype, At
<1>2. UNCHANGED <<holder, user>> /\ stack' = Becomes(t, Region("unkeep", Top(t).item)) /\ "unkeep" \in Work
  BY DEF DropFreetype, Work
<1>3. Region("unkeep", Top(t).item) \in Frame /\ Starts(Region("unkeep", Top(t).item))
      /\ AboveCache(Region("unkeep", Top(t).item))
  BY <1>1, <1>2, FrameStarts
<1> QED
  BY <1>1, <1>2, <1>3, InvTop, BecomesKeeps

LEMMA LoadStepKeeps ==
    ASSUME IInv, NEW t \in Threads, LoadStep(t)
    PROVE  IInv'
<1> DEFINE f == Top(t).item
<1>1. /\ stack[t] # <<>> /\ Top(t).proc = "load"
      /\ Top(t).item \in Fonts \cup Others \cup {None}
  BY InvTop, TopTypes DEF LoadStep, At
<1>2. UNCHANGED <<holder, user>>
  BY DEF LoadStep
<1>3. /\ "open" \in Pc /\ "store" \in Pc /\ "unkeep" \in Pc /\ "item" \in Pc
      /\ "keep" \in Work /\ "open" \in Work /\ "none" \in Work /\ "store" \in Work
  BY DEF Pc, Work
<1>4. ASSUME NEW w \in Work, NEW pc \in {"open", "store", "unkeep"}, stack' = Calls(t, pc, Region(w, f))
      PROVE  IInv'
  BY <1>1, <1>2, <1>3, <1>4, InvTop, FrameStarts, CallsKeeps
<1>5. CASE stack' = Calls(t, "item", Malloc)
  BY <1>1, <1>2, <1>3, <1>5, InvTop, MallocStarts, CallsKeeps
<1>6. ASSUME NEW g, g \in {Region("none", f), Section("store", f)}, stack' = Becomes(t, g)
      PROVE  IInv'
  <2>1. g \in Frame /\ Starts(g) /\ AboveCache(g)
    BY <1>1, <1>3, <1>6, FrameStarts
  <2> QED
    BY <1>1, <1>2, <1>6, <2>1, InvTop, BecomesKeeps
<1>7. CASE stack' = Returns(t)
  BY <1>1, <1>2, <1>7, InvTop, ReturnsKeeps
<1>8. \/ stack' = Calls(t, "open", Region("keep", f))
      \/ stack' = Becomes(t, Region("none", f))
      \/ stack' = Calls(t, "store", Region("open", f))
      \/ stack' = Calls(t, "unkeep", Region("none", f))
      \/ stack' = Calls(t, "item", Malloc)
      \/ stack' = Becomes(t, Section("store", f))
      \/ stack' = Returns(t)
  BY DEF LoadStep
<1> QED
  BY <1>3, <1>4, <1>5, <1>6, <1>7, <1>8

LEMMA SectionLockKeeps ==
    ASSUME IInv, NEW t \in Threads, SectionLock(t)
    PROVE  IInv'
<1>1. stack[t] # <<>> /\ Top(t).proc = "section" /\ Top(t).pc = "lock"
  BY DEF SectionLock, At
<1>2. /\ holder' \in [Lock -> Threads \cup {None}]
      /\ holder'[ALLOC] = t
      /\ holder'[FREETYPE] = holder[FREETYPE] /\ holder'[GLYPHCACHE] = holder[GLYPHCACHE]
      /\ \A m \in Lock, r \in Threads \ {t} : holder'[m] = r <=> holder[m] = r
  BY HolderTypes DEF SectionLock, Lock, ALLOC, FREETYPE, GLYPHCACHE
<1>3. user' = user /\ stack' = Goes(t, "in") /\ "in" \in Pc
  BY DEF SectionLock, Pc
<1> QED
  BY <1>1, <1>2, <1>3, InvTop, GoesKeeps

LEMMA RelockKeeps ==
    ASSUME IInv, NEW t \in Threads, Relock(t)
    PROVE  IInv'
<1>1. stack[t] # <<>> /\ Top(t).proc = "evict"
  BY DEF Relock, At
<1>2. /\ holder' \in [Lock -> Threads \cup {None}]
      /\ holder'[ALLOC] = t
      /\ holder'[FREETYPE] = holder[FREETYPE] /\ holder'[GLYPHCACHE] = holder[GLYPHCACHE]
      /\ \A m \in Lock, r \in Threads \ {t} : holder'[m] = r <=> holder[m] = r
  BY HolderTypes DEF Relock, Lock, ALLOC, FREETYPE, GLYPHCACHE
<1>3. user' = user /\ stack' = Returns(t)
  BY DEF Relock
<1> QED
  BY <1>1, <1>2, <1>3, InvTop, ReturnsKeeps

LEMMA ScavengedKeeps ==
    ASSUME IInv, NEW t \in Threads, Scavenged(t)
    PROVE  IInv'
<1>1. stack[t] # <<>> /\ Top(t).proc = "section" /\ Top(t).pc = "more"
  BY DEF Scavenged, At
<1>2. PICK pc \in {"in", "unlock"} : stack' = Goes(t, pc)
  BY DEF Scavenged
<1>3. UNCHANGED <<holder, user>> /\ pc \in Pc
  BY DEF Scavenged, Pc
<1> QED
  BY <1>1, <1>2, <1>3, InvTop, GoesKeeps

LEMMA SectionDoneKeeps ==
    ASSUME IInv, NEW t \in Threads, SectionDone(t)
    PROVE  IInv'
<1>1. /\ stack[t] # <<>> /\ Top(t).proc = "section" /\ Top(t).pc \in {"in", "unlock", "last"}
      /\ Top(t).item \in Fonts \cup Others \cup {None}
  BY InvTop, TopTypes DEF SectionDone, At
<1>2. holder[ALLOC] = t
  BY <1>1, InvTop
<1>3. /\ holder' \in [Lock -> Threads \cup {None}]
      /\ holder'[ALLOC] = None
      /\ holder'[FREETYPE] = holder[FREETYPE] /\ holder'[GLYPHCACHE] = holder[GLYPHCACHE]
      /\ \A m \in Lock, r \in Threads \ {t} : holder'[m] = r <=> holder[m] = r
  BY <1>2, HolderTypes DEF SectionDone, Lock, ALLOC, FREETYPE, GLYPHCACHE
<1>4. user' = user
  BY DEF SectionDone
<1>5. CASE stack' = Returns(t)
  BY <1>1, <1>3, <1>4, <1>5, InvTop, ReturnsKeeps
<1>6. CASE Top(t).pc = "last" /\ stack' = Becomes(t, DropFont("drop", Top(t).item))
  <2>1. Top(t).work = "drop"
    BY <1>1, <1>6, InvTop DEF Known
  <2>2. /\ DropFont("drop", Top(t).item) \in Frame /\ Starts(DropFont("drop", Top(t).item))
        /\ AboveCache(DropFont("drop", Top(t).item))
    BY <1>1, FrameStarts DEF Work
  <2> QED
    BY <1>1, <1>3, <1>4, <1>6, <2>1, <2>2, InvTop, BecomesKeeps
<1> QED
  BY <1>5, <1>6 DEF SectionDone

LEMMA EvictKeeps ==
    ASSUME IInv, Listed = {}, NEW t \in Threads, NEW x \in Fonts \cup Others, Evict(t, x)
    PROVE  IInv'
<1> DEFINE p == Popped(stack[t])
           f == Top(t)
           e == With(f, "more")
           d == F("evict", "relock", "none", x)
           g == DropFont("drop", x)
           q == Append(Append(p, e), d)
<1>1. /\ stack[t] # <<>> /\ f.proc = "section" /\ f.pc \in {"in", "more"}
      /\ Scavenges(f.work) => Droppable(t, x)
      /\ user' = user
      /\ stack' = [stack EXCEPT ![t] = Append(Moved(@, "more"), d) \o Destruction(x)]
  BY DEF Evict, At, Evictable
<1>2. "more" \in Pc /\ "none" \in Work /\ "drop" \in Work /\ "evict" \in Proc /\ "relock" \in Pc
  BY DEF Pc, Work, Proc
<1>3. /\ p \in Seq(Frame) /\ f \in Frame /\ e \in Frame /\ OneMore(t, p, f, holder, user)
      /\ Moved(stack[t], "more") = Append(p, e)
  BY <1>1, <1>2, TopFacts
<1>4. d \in Frame /\ d.proc = "evict" /\ d.pc = "relock"
  BY <1>2, FrameTypes DEF F
<1>5. g \in Frame /\ Starts(g) /\ AboveCache(g)
  BY <1>2, FrameStarts
<1>6. holder[ALLOC] = t /\ e.proc = "section" /\ e.pc = "more"
  BY <1>1, <1>2, <1>3, WithFields, InvTop
<1>7. /\ holder' \in [Lock -> Threads \cup {None}]
      /\ holder'[ALLOC] # t
      /\ holder'[FREETYPE] = holder[FREETYPE] /\ holder'[GLYPHCACHE] = holder[GLYPHCACHE]
      /\ \A m \in Lock, r \in Threads \ {t} : holder'[m] = r <=> holder[m] = r
  BY <1>6, HolderTypes, LocksAssumption DEF Evict, Lock, ALLOC, FREETYPE, GLYPHCACHE
<1>8. x \in Fonts => ~FtIn(p)
  <2>1. f.work \in {"malloc", "drop", "store"}
    BY <1>1, InvTop DEF Known
  <2> QED
    BY <1>1, <2>1, InvTop DEF Scavenges, Droppable
<1>9. Ready(t, q, holder', user')
  <2> HIDE DEF p, e, d
  <2>1. OneMore(t, p, e, holder, user)
    <3>1. Known(e) /\ Fits(p, e)
      <4>1. e.proc = f.proc /\ e.work = f.work /\ e.pc = "more"
        BY <1>2, <1>3, WithFields DEF e
      <4> QED
        BY <1>1, <1>3, <4>1 DEF OneMore, Known, Fits, AboveFt, AboveCache
    <3>2. AllocHeld(e) /\ ~FtHeld(e) /\ ~CacheHeld(e) /\ ~FtHeld(f) /\ ~CacheHeld(f)
      BY <1>1, <1>6 DEF AllocHeld, FtHeld, CacheHeld, Draw
    <3> QED
      BY <1>3, <1>6, <3>1, <3>2 DEF OneMore
  <2>2. /\ Append(p, e) \in Seq(Frame) /\ Sound(Append(p, e))
        /\ FtIn(Append(p, e)) <=> FtIn(p) \/ FtHeld(e)
        /\ CacheIn(Append(p, e)) <=> CacheIn(p) \/ CacheHeld(e)
        /\ UserIn(Append(p, e), t, user)
    BY <1>3, <2>1, AppendHolds, AppendSound DEF OneMore
  <2>3. ~FtHeld(e) /\ ~CacheHeld(e) /\ InMalloc(e)
        /\ ~FtHeld(d) /\ ~CacheHeld(d) /\ ~AllocHeld(d) /\ Known(d) /\ AboveFt(d) /\ AboveCache(d)
    BY <1>4, <1>6 DEF AllocHeld, FtHeld, CacheHeld, Draw, InMalloc, Known, AboveFt, AboveCache
  <2>4. FtCalls(p)
    BY <2>1 DEF OneMore, Fits
  <2>5. Fits(Append(p, e), d)
    BY <1>3, <1>4, <1>6, <2>3, <2>4, FitsOn
  <2>6. OneMore(t, Append(p, e), d, holder', user')
    BY <1>1, <1>7, <2>1, <2>2, <2>3, <2>5 DEF OneMore
  <2> QED
    BY <1>4, <2>2, <2>6, AppendReady DEF q
<1>10. CASE x \in Fonts
  <2>1. ~FtIn(q) /\ FtCalls(q) /\ ~OnSection(q) /\ q \in Seq(Frame)
    <3>1. ~FtHeld(e) /\ InMalloc(e) /\ ~FtHeld(d) /\ InMalloc(d)
      BY <1>4, <1>6 DEF FtHeld, InMalloc
    <3>2. FtCalls(p)
      BY <1>3 DEF OneMore, Fits
    <3>3. /\ Append(p, e) \in Seq(Frame) /\ ~FtIn(Append(p, e)) /\ FtCalls(Append(p, e))
      <4> HIDE DEF p, e
      <4> QED
        BY <1>3, <1>8, <1>10, <3>1, <3>2, AppendHolds
    <3>4. ~FtIn(Append(Append(p, e), d)) /\ FtCalls(Append(Append(p, e), d))
          /\ ~OnSection(Append(Append(p, e), d)) /\ Append(Append(p, e), d) \in Seq(Frame)
      <4> HIDE DEF p, e, d
      <4> QED
        BY <1>4, <3>1, <3>3, AppendHolds
    <3> QED
      BY <3>4
  <2> HIDE DEF q, g
  <2>2. Fits(q, g)
    BY <1>5, <2>1 DEF Fits, Starts
  <2>3. OneMore(t, q, g, holder', user')
    BY <1>5, <1>7, <1>9, <2>2 DEF OneMore, Ready, Starts
  <2>4. Ready(t, Append(q, g), holder', user')
    BY <1>5, <2>1, <2>3, AppendReady
  <2>5. stack' = [stack EXCEPT ![t] = Append(q, g)]
    <3>1. Append(q, g) = q \o <<g>>
      BY <1>5, <2>1, AppendIsConcat
    <3>2. Append(Moved(stack[t], "more"), d) = q
      BY <1>3 DEF q
    <3>3. Destruction(x) = <<g>>
      BY <1>10 DEF Destruction, g
    <3> QED
      BY <1>1, <3>1, <3>2, <3>3
  <2> QED
    BY <1>1, <1>7, <2>4, <2>5, Preserved
<1>11. CASE x \notin Fonts
  <2> HIDE DEF q
  <2>1. q \in Seq(Frame)
    BY <1>9 DEF Ready, Sound
  <2>2. stack' = [stack EXCEPT ![t] = q]
    <3>1. q \o <<>> = q
      BY <2>1, ConcatEmptySeq
    <3>2. Append(Moved(stack[t], "more"), d) = q
      BY <1>3 DEF q
    <3>3. Destruction(x) = <<>>
      BY <1>11 DEF Destruction
    <3> QED
      BY <1>1, <3>1, <3>2, <3>3
  <2> QED
    BY <1>1, <1>7, <1>9, <2>2, Preserved
<1> QED
  BY <1>10, <1>11

LEMMA CacheLockKeeps ==
    ASSUME IInv, NEW t \in Threads, CacheLock(t)
    PROVE  IInv'
<1>1. stack[t] # <<>> /\ Top(t).proc \in {"render", "type3", "purge"} /\ Top(t).pc = "lock"
  BY DEF CacheLock, At, Draw
<1>2. /\ holder' \in [Lock -> Threads \cup {None}]
      /\ holder'[GLYPHCACHE] = t
      /\ holder'[FREETYPE] = holder[FREETYPE] /\ holder'[ALLOC] = holder[ALLOC]
      /\ \A m \in Lock, r \in Threads \ {t} : holder'[m] = r <=> holder[m] = r
  BY HolderTypes DEF CacheLock, Lock, ALLOC, FREETYPE, GLYPHCACHE
<1>3. PICK pc \in {"drop", "look"} : stack' = Goes(t, pc)
  BY DEF CacheLock
<1>4. user' = user /\ pc \in Pc
  BY DEF CacheLock, Pc
<1> QED
  BY <1>1, <1>2, <1>3, <1>4, InvTop, GoesKeeps

LEMMA RenderOutlineKeeps ==
    ASSUME IInv, NEW t \in Threads, RenderOutline(t)
    PROVE  IInv'
<1>1. /\ stack[t] # <<>> /\ Top(t).proc = "render" /\ Top(t).pc = "look"
      /\ Top(t).item \in Fonts \cup Others \cup {None}
  BY InvTop, TopTypes DEF RenderOutline, At
<1>2. UNCHANGED <<holder, user>> /\ stack' = Calls(t, "insert", Region("use", Top(t).item))
      /\ "insert" \in Pc /\ "use" \in Work
  BY DEF RenderOutline, Pc, Work
<1> QED
  BY <1>1, <1>2, InvTop, FrameStarts, CallsKeeps

LEMMA StartType3Keeps ==
    ASSUME IInv, NEW t \in Threads, StartType3(t)
    PROVE  IInv'
<1>1. stack[t] # <<>> /\ Top(t).proc = "type3" /\ Top(t).pc = "look"
  BY DEF StartType3, At
<1>2. holder[GLYPHCACHE] = t
  BY <1>1, InvTop
<1>3. /\ holder' \in [Lock -> Threads \cup {None}]
      /\ holder'[GLYPHCACHE] = None
      /\ holder'[FREETYPE] = holder[FREETYPE] /\ holder'[ALLOC] = holder[ALLOC]
      /\ \A m \in Lock, r \in Threads \ {t} : holder'[m] = r <=> holder[m] = r
  BY <1>2, HolderTypes DEF StartType3, Lock, ALLOC, FREETYPE, GLYPHCACHE
<1>4. user' = user /\ stack' = Goes(t, "run") /\ "run" \in Pc
  BY DEF StartType3, Pc
<1> QED
  BY <1>1, <1>3, <1>4, InvTop, GoesKeeps

LEMMA FinishType3Keeps ==
    ASSUME IInv, NEW t \in Threads, FinishType3(t)
    PROVE  IInv'
<1>1. stack[t] # <<>> /\ Top(t).proc = "type3" /\ Top(t).pc = "run"
  BY DEF FinishType3, At
<1>2. /\ holder' \in [Lock -> Threads \cup {None}]
      /\ holder'[GLYPHCACHE] = t
      /\ holder'[FREETYPE] = holder[FREETYPE] /\ holder'[ALLOC] = holder[ALLOC]
      /\ \A m \in Lock, r \in Threads \ {t} : holder'[m] = r <=> holder[m] = r
  BY HolderTypes DEF FinishType3, Lock, ALLOC, FREETYPE, GLYPHCACHE
<1>3. user' = user /\ stack' = Goes(t, "insert") /\ "insert" \in Pc
  BY DEF FinishType3, Pc
<1> QED
  BY <1>1, <1>2, <1>3, InvTop, GoesKeeps

LEMMA NewEntryKeeps ==
    ASSUME IInv, NEW t \in Threads, NewEntry(t)
    PROVE  IInv'
<1>1. stack[t] # <<>> /\ Top(t).proc \in {"render", "type3"} /\ Top(t).pc = "insert"
  BY DEF NewEntry, At, Draw
<1>2. UNCHANGED <<holder, user>> /\ stack' = Calls(t, "entry", Malloc) /\ "entry" \in Pc
  BY DEF NewEntry, Pc
<1> QED
  BY <1>1, <1>2, InvTop, MallocStarts, CallsKeeps

LEMMA InsertKeeps ==
    ASSUME IInv, NEW t \in Threads, Insert(t)
    PROVE  IInv'
<1>1. stack[t] # <<>> /\ Top(t).proc \in {"render", "type3"} /\ Top(t).pc = "entry"
  BY DEF Insert, At, Draw
<1>2. UNCHANGED <<holder, user>> /\ stack' = Goes(t, "drop") /\ "drop" \in Pc
  BY DEF Insert, Pc, Briefly
<1> QED
  BY <1>1, <1>2, InvTop, GoesKeeps

LEMMA DropEntryKeeps ==
    ASSUME IInv, NEW t \in Threads, NEW f \in Fonts, DropEntry(t, f)
    PROVE  IInv'
<1>1. stack[t] # <<>> /\ Top(t).proc \in {"render", "type3", "purge"} /\ Top(t).pc = "drop"
  BY DEF DropEntry, At, Draw
<1>2. UNCHANGED <<holder, user>> /\ stack' = Calls(t, "drop", DropFont("use", f))
      /\ "drop" \in Pc /\ "use" \in Work
  BY DEF DropEntry, Pc, Work
<1> QED
  BY <1>1, <1>2, InvTop, FrameStarts, CallsKeeps

LEMMA CacheUnlockKeeps ==
    ASSUME IInv, NEW t \in Threads, CacheUnlock(t)
    PROVE  IInv'
<1>1. /\ stack[t] # <<>> /\ Top(t).proc \in {"render", "type3", "purge"}
      /\ Top(t).pc \in {"look", "insert", "entry", "drop"}
  BY DEF CacheUnlock, At, Draw
<1>2. holder[GLYPHCACHE] = t
  BY <1>1, InvTop
<1>3. /\ holder' \in [Lock -> Threads \cup {None}]
      /\ holder'[GLYPHCACHE] = None
      /\ holder'[FREETYPE] = holder[FREETYPE] /\ holder'[ALLOC] = holder[ALLOC]
      /\ \A m \in Lock, r \in Threads \ {t} : holder'[m] = r <=> holder[m] = r
  BY <1>2, HolderTypes DEF CacheUnlock, Lock, ALLOC, FREETYPE, GLYPHCACHE
<1>4. user' = user /\ stack' = Returns(t)
  BY DEF CacheUnlock
<1> QED
  BY <1>1, <1>3, <1>4, InvTop, ReturnsKeeps

\* Where a thread calls from its own code or from a type 3 glyph, it holds no lock.
LEMMA QuietCaller ==
    ASSUME IInv, NEW t \in Threads, CanCall(t)
    PROVE  /\ stack[t] \in Seq(Frame) /\ Sound(stack[t])
           /\ ~FtIn(stack[t]) /\ ~CacheIn(stack[t]) /\ ~AllocIn(stack[t])
           /\ FtCalls(stack[t]) /\ ~OnSection(stack[t])
           /\ \A n \in Lock : holder[n] # t
           /\ user # t
<1>1. Ready(t, stack[t], holder, user) /\ stack[t] \in Seq(Frame)
  BY DEF IInv, Types
<1>2. ~FtIn(stack[t]) /\ ~CacheIn(stack[t]) /\ ~AllocIn(stack[t])
      /\ FtCalls(stack[t]) /\ ~OnSection(stack[t])
  <2>1. CASE stack[t] = <<>>
    BY <2>1 DEF FtIn, CacheIn, AllocIn, FtCalls, OnSection
  <2>2. CASE At(t, "type3", "run")
    <3> DEFINE p == Popped(stack[t])
               f == Top(t)
    <3>1. stack[t] # <<>> /\ f.proc = "type3" /\ f.pc = "run"
      BY <2>2 DEF At
    <3>2. /\ p \in Seq(Frame) /\ f \in Frame /\ OneMore(t, p, f, holder, user)
          /\ stack[t] = Append(p, f)
      BY <3>1, TopFacts
    <3>3. ~FtIn(p) /\ ~CacheIn(p) /\ FtCalls(p)
      BY <3>1, <3>2, TopRules DEF OneMore, Fits
    <3>4. ~FtHeld(f) /\ ~CacheHeld(f) /\ ~AllocHeld(f) /\ InMalloc(f) /\ f.proc # "section"
      BY <3>1 DEF FtHeld, CacheHeld, AllocHeld, InMalloc
    <3> HIDE DEF p, f
    <3>5. ~FtIn(Append(p, f)) /\ ~CacheIn(Append(p, f)) /\ ~AllocIn(Append(p, f))
          /\ FtCalls(Append(p, f)) /\ ~OnSection(Append(p, f))
      BY <3>2, <3>3, <3>4, AppendHolds
    <3> QED
      BY <3>2, <3>5
  <2> QED
    BY <2>1, <2>2 DEF CanCall
<1> QED
  BY <1>1, <1>2 DEF Ready, Lock

\* It calls g.
LEMMA EnterKeeps ==
    ASSUME IInv, NEW t \in Threads, CanCall(t), NEW g \in Frame,
           stack' = [stack EXCEPT ![t] = Append(@, g)],
           Known(g), ~FtHeld(g), ~CacheHeld(g), g.proc # "evict",
           holder'[ALLOC] = t <=> AllocHeld(g),
           holder'[FREETYPE] = holder[FREETYPE],
           holder'[GLYPHCACHE] = holder[GLYPHCACHE],
           user' = user,
           holder' \in [Lock -> Threads \cup {None}],
           \A n \in Lock, r \in Threads \ {t} : holder'[n] = r <=> holder[n] = r
    PROVE  IInv'
<1>1. Fits(stack[t], g)
  BY QuietCaller DEF Fits
<1>2. UserIn(stack[t], t, user')
  BY QuietCaller DEF UserIn, FtIn
<1>3. OneMore(t, stack[t], g, holder', user')
  BY <1>1, <1>2, QuietCaller DEF OneMore, Lock
<1>4. Ready(t, Append(stack[t], g), holder', user')
  BY <1>3, QuietCaller, AppendReady
<1> QED
  BY <1>4, Preserved

LEMMA CallKeeps ==
    ASSUME IInv, NEW t \in Threads, NEW g \in Frame, Starts(g), Call(t, g)
    PROVE  IInv'
<1>1. CanCall(t) /\ UNCHANGED <<holder, user>> /\ stack' = [stack EXCEPT ![t] = Append(@, g)]
  BY DEF Call
<1> QED
  BY <1>1, QuietCaller, EnterKeeps DEF IInv, Types, Starts, Lock

LEMMA BeginKeeps ==
    ASSUME IInv, NEW t \in Threads, Begin(t)
    PROVE  IInv'
<1>1. "none" \in Work /\ "use" \in Work /\ "open" \in Work /\ "store" \in Work
  BY DEF Work
<1>2. PICK g : Call(t, g) /\ g \in {Malloc, Region("none", None),
                                    F("purge", "lock", "none", None), F("type3", "lock", "use", None)}
                              \cup {Section("store", x) : x \in Others}
                              \cup {F("load", "keep", "open", f) : f \in Fonts}
                              \cup {Region("use", f) : f \in Fonts}
                              \cup {F("render", "lock", "use", f) : f \in Fonts}
  BY DEF Begin
<1>3. /\ Region("none", None) \in Frame /\ Starts(Region("none", None))
      /\ \A x \in Others : Section("store", x) \in Frame /\ Starts(Section("store", x))
      /\ \A f \in Fonts : Region("use", f) \in Frame /\ Starts(Region("use", f))
  BY <1>1, FrameStarts
<1>4. ASSUME NEW proc \in {"purge", "type3", "render", "load"}, NEW pc \in {"lock", "keep"},
             NEW work \in Work, NEW item \in Fonts \cup {None}, proc = "load" \/ pc = "lock"
      PROVE  F(proc, pc, work, item) \in Frame /\ Starts(F(proc, pc, work, item))
  BY ZenonT(40), <1>4, FrameTypes DEF F, Proc, Pc, Starts, Known, AllocHeld, FtHeld, CacheHeld, Draw
<1>5. g \in Frame /\ Starts(g)
  BY <1>1, <1>2, <1>3, <1>4, MallocStarts
<1> QED
  BY <1>2, <1>5, CallKeeps

LEMMA DropKeeps ==
    ASSUME IInv, NEW t \in Threads, NEW f \in Fonts, Drop(t, f)
    PROVE  IInv'
<1>1. PICK pc \in {"last", "in"} :
         stack' = [stack EXCEPT ![t] = Append(@, F("section", pc, "drop", f))]
  BY DEF Drop
<1>2. /\ F("section", pc, "drop", f) \in Frame /\ Known(F("section", pc, "drop", f))
      /\ AllocHeld(F("section", pc, "drop", f)) /\ ~FtHeld(F("section", pc, "drop", f))
      /\ ~CacheHeld(F("section", pc, "drop", f)) /\ F("section", pc, "drop", f).proc # "evict"
  BY ZenonT(40), FrameTypes DEF F, Proc, Pc, Work, Known, AllocHeld, FtHeld, CacheHeld, Draw
<1>3. /\ holder' \in [Lock -> Threads \cup {None}]
      /\ holder'[ALLOC] = t
      /\ holder'[FREETYPE] = holder[FREETYPE] /\ holder'[GLYPHCACHE] = holder[GLYPHCACHE]
      /\ \A m \in Lock, r \in Threads \ {t} : holder'[m] = r <=> holder[m] = r
  BY HolderTypes DEF Drop, Lock, ALLOC, FREETYPE, GLYPHCACHE
<1>4. CanCall(t) /\ user' = user
  BY DEF Drop
<1> QED
  BY <1>1, <1>2, <1>3, <1>4, EnterKeeps

-----------------------------------------------------------------------------
(* The invariant, and what follows from it. *)

LEMMA IInvInit == Init => IInv
<1> SUFFICES ASSUME Init PROVE IInv
  OBVIOUS
<1>1. Types
  BY DEF Init, Types
<1>2. ASSUME NEW t \in Threads PROVE Ready(t, stack[t], holder, user)
  <2>1. stack[t] = <<>> /\ t # None /\ user = None /\ \A n \in Lock : holder[n] = None
    BY LocksAssumption DEF Init
  <2>2. Sound(<<>>) /\ ~FtIn(<<>>) /\ ~CacheIn(<<>>) /\ ~AllocIn(<<>>) /\ UserIn(<<>>, t, None)
    BY DEF Sound, FtIn, CacheIn, AllocIn, UserIn
  <2> QED
    BY <2>1, <2>2 DEF Ready, Lock
<1> QED
  BY <1>1, <1>2 DEF IInv

LEMMA IInvNext == Listed = {} /\ IInv /\ [Next]_vars => IInv'
<1> SUFFICES ASSUME Listed = {}, IInv, [Next]_vars PROVE IInv'
  OBVIOUS
<1>1. CASE UNCHANGED vars
  BY <1>1 DEF vars, IInv, Types, Ready
<1>2. ASSUME NEW t \in Threads, Step(t) PROVE IInv'
  BY <1>2, FtLockKeeps, SetUserKeeps, FtAllocKeeps, FtWorkKeeps, FtUnlockKeeps, UnrefKeeps,
     DropFreetypeKeeps, LoadStepKeeps, SectionLockKeeps, RelockKeeps, ScavengedKeeps,
     SectionDoneKeeps, EvictKeeps, CacheLockKeeps, RenderOutlineKeeps, StartType3Keeps,
     FinishType3Keeps, NewEntryKeeps, InsertKeeps, CacheUnlockKeeps, DropEntryKeeps
  DEF Step
<1>3. ASSUME NEW t \in Threads, NEW f \in Fonts, Share(t, f) PROVE IInv'
  <2>1. UNCHANGED <<holder, user, stack>>
    BY <1>3 DEF Share, Briefly
  <2> QED
    BY <2>1 DEF IInv, Types, Ready
<1> QED
  BY <1>1, <1>2, <1>3, BeginKeeps, DropKeeps DEF Next

LEMMA IInvAlways == Listed = {} /\ Spec => []IInv
<1> SUFFICES ASSUME Listed = {} PROVE Spec => []IInv
  OBVIOUS
<1>1. IInv /\ [Next]_vars => IInv'
  BY IInvNext
<1> QED
  BY <1>1, IInvInit, PTL DEF Spec

LEMMA OrderFollows == IInv => OrderKept
<1> SUFFICES ASSUME IInv, NEW t \in Threads, NEW n \in Wants(t), NEW i \in Lock, i <= n
             PROVE  holder[i] # t
  BY DEF OrderKept
<1> USE DEF ALLOC, FREETYPE, GLYPHCACHE
<1>1. stack[t] # <<>> /\ Top(t).pc \in Waits[Top(t).proc] /\ n = LockOf(Top(t).proc, Top(t).pc)
  BY DEF Wants
<1>2. Top(t).proc \in Proc
  BY <1>1, InvTop, TopTypes
<1>3. CASE Top(t).proc = "ft"
  <2>1. Top(t).pc \in {"lock", "user", "unuser"}
    BY <1>1, <1>3 DEF Waits
  <2>2. n = IF Top(t).pc = "lock" THEN 1 ELSE 0
    BY <1>1, <1>3, <2>1 DEF LockOf, Draw
  <2> QED
    BY <1>1, <1>3, <2>1, <2>2, InvTop DEF Lock
<1>4. CASE Top(t).proc = "section"
  <2>1. Top(t).pc = "lock"
    BY <1>1, <1>4 DEF Waits
  <2>2. n = 0
    BY <1>1, <1>4 DEF LockOf, Draw
  <2> QED
    BY <1>1, <1>4, <2>1, <2>2, InvTop DEF Lock
<1>5. CASE Top(t).proc \in {"evict", "dropfont"}
  <2>1. n = 0
    BY <1>1, <1>5 DEF LockOf, Draw
  <2> QED
    BY <1>1, <1>5, <2>1, InvTop DEF Lock
<1>6. CASE Top(t).proc \in {"render", "type3", "purge"}
  <2>1. Top(t).pc \in {"lock", "run", "entry"}
    BY <1>1, <1>6 DEF Waits
  <2>2. n = IF Top(t).pc = "entry" THEN 0 ELSE 2
    BY <1>1, <1>6 DEF LockOf, Draw
  <2> QED
    BY <1>1, <1>6, <2>1, <2>2, InvTop DEF Lock
<1>7. CASE Top(t).proc = "load"
  BY <1>1, <1>7 DEF Waits
<1> QED
  BY <1>2, <1>3, <1>4, <1>5, <1>6, <1>7 DEF Proc

LEMMA StuckFollows == IInv => NotStuck
<1> SUFFICES ASSUME IInv, NEW t \in Threads, InCall(t)
             PROVE  \E r \in Threads : InCall(r) /\ \A n \in Wants(r) : holder[n] = None
  BY DEF NotStuck
<1> USE DEF ALLOC, FREETYPE, GLYPHCACHE
<1>1. \A r \in Threads : \A n \in Wants(r), i \in Lock : i <= n => holder[i] # r
  BY OrderFollows DEF OrderKept
<1>2. \A r \in Threads : Wants(r) \subseteq Lock
  BY DEF Wants, LockOf, Lock
<1>3. \A n \in Lock : holder[n] \in Threads \cup {None}
  BY DEF IInv, Types
<1>4. \A r \in Threads, n \in Lock : holder[n] = r => InCall(r)
  BY DEF IInv, Ready, Lock, AllocIn, FtIn, CacheIn, InCall
<1>5. CASE holder[ALLOC] # None
  <2>1. holder[ALLOC] \in Threads /\ InCall(holder[ALLOC])
    BY <1>3, <1>4, <1>5 DEF Lock
  <2>2. Wants(holder[ALLOC]) = {}
    BY <1>1, <1>2, <2>1 DEF Lock
  <2> QED
    BY <2>1, <2>2
<1>6. CASE holder[ALLOC] = None /\ holder[FREETYPE] # None
  <2>1. holder[FREETYPE] \in Threads /\ InCall(holder[FREETYPE])
    BY <1>3, <1>4, <1>6 DEF Lock
  <2>2. \A n \in Wants(holder[FREETYPE]) : n = ALLOC
    BY <1>1, <1>2, <2>1 DEF Lock
  <2> QED
    BY <1>6, <2>1, <2>2
<1>7. CASE holder[ALLOC] = None /\ holder[FREETYPE] = None /\ holder[GLYPHCACHE] # None
  <2>1. holder[GLYPHCACHE] \in Threads /\ InCall(holder[GLYPHCACHE])
    BY <1>3, <1>4, <1>7 DEF Lock
  <2>2. \A n \in Wants(holder[GLYPHCACHE]) : n \in {ALLOC, FREETYPE}
    BY <1>1, <1>2, <2>1 DEF Lock
  <2> QED
    BY <1>7, <2>1, <2>2
<1>8. CASE \A n \in Lock : holder[n] = None
  BY <1>2, <1>8
<1> QED
  BY <1>5, <1>6, <1>7, <1>8 DEF Lock

LEMMA UserFollows == IInv => UserIsHolder
<1> SUFFICES ASSUME IInv, NEW t \in Threads
             PROVE  /\ At(t, "ft", "user") => user = None
                    /\ user = t => holder[FREETYPE] = t
                    /\ InFreeType(t) => user = t
  BY DEF UserIsHolder
<1> QED
  BY InvTop DEF At, InFreeType, IInv, Ready

\* The rule of context.h for the order of the locks is kept by every thread at
\* every depth of calls, as long as nothing in the store but a PDF font has a
\* destruction that closes a face.
THEOREM OrderIsKept == Listed = {} /\ Spec => []OrderKept
BY IInvAlways, OrderFollows, PTL

\* Then no set of threads can wait for one another for ever.
THEOREM NeverStuck == Listed = {} /\ Spec => []NotStuck
BY IInvAlways, StuckFollows, PTL

\* FreeType's memory functions always find the context of the thread that is
\* in FreeType, and fz_ft_lock's assertion holds.
THEOREM UserHolds == Listed = {} /\ Spec => []UserIsHolder
BY IInvAlways, UserFollows, PTL

-----------------------------------------------------------------------------
(***************************************************************************)
(* The faces.  FreeType is called on an open face only, and while its       *)
(* library is there, for any number of threads and fonts.                   *)
(*                                                                         *)
(* Nothing in Locks counts the references to a font: who may use it, and    *)
(* who is to take it down, is known from the frames.  So the invariant says *)
(* of each frame what it claims of its font (Claim), which frame may be on  *)
(* which (Sits), and that of the frames that load a font, drop its last     *)
(* description or take it out of the glyph cache there is at most one of a  *)
(* kind for each font (Unique).  The library stays while it has as many     *)
(* references as there are fonts with one (Kept).  That no two entries let  *)
(* go of one font at the same time is due to GLYPHCACHE, and that is taken  *)
(* from the invariant above.                                               *)
(***************************************************************************)

(***************************************************************************)
(* What a frame e of thread t says of its font.  O, C, D and K are owners, *)
(* faces, descs and cached.                                                *)
(***************************************************************************)

\* The font is being loaded or taken down, by this frame alone.
Sole(e) ==
    \/ e.proc = "load" /\ e.pc \in {"keep", "open", "unkeep"}
    \/ e.proc = "dropfont" /\ e.pc = "unkeep"
    \/ e.proc = "ft" /\ (e.work = "unkeep" \/ (e.work = "open" /\ e.pc # "unuser"))

\* The last owner of the description is gone.
Doomed(e) ==
    \/ e.proc = "section" /\ e.pc = "last"
    \/ e.proc = "dropfont" /\ e.pc = "unref" /\ e.work = "drop"

\* An entry of the glyph cache lets go of the font.
Uncaching(e) == e.proc = "dropfont" /\ e.pc = "unref" /\ e.work = "use"

Kind(e) == IF Sole(e) THEN "sole" ELSE IF Doomed(e) THEN "doomed"
           ELSE IF Uncaching(e) THEN "uncaching" ELSE "other"

\* The thread has a reference of its own.
Uses(e) ==
    \/ e.proc = "ft" /\ (e.work = "use" \/ (e.work = "open" /\ e.pc = "unuser"))
    \/ e.proc = "render"
    \/ e.proc = "section" /\ e.work = "store" /\ e.item \in Fonts
    \/ e.proc = "load" /\ e.pc = "item"

Claim(t, e, O, C, D, K) ==
    /\ Sole(e) => /\ O[e.item] = {} /\ e.item \notin D \cup K
                  /\ e.proc # "dropfont" => e.item \notin C
    /\ Doomed(e) => O[e.item] = {} /\ e.item \in D
    /\ Uncaching(e) => e.item \in K
    /\ e.proc = "ft" /\ e.work = "close" => (e.item \in C <=> e.pc # "unuser")
    /\ Uses(e) => t \in O[e.item]

\* What it says in addition while it is the last.
TopClaim(t, e, O, C) ==
    /\ e.proc = "load" /\ e.pc = "store" => t \in O[e.item]
    /\ e.proc = "dropfont" /\ e.pc = "unkeep" => e.item \notin C

-----------------------------------------------------------------------------
(* Which frame is on which. *)

Formed(e) ==
    /\ e.proc = "load" => e.pc \in {"keep", "open", "store", "unkeep", "item"}
    /\ e.proc = "dropfont" => e.pc \in {"unref", "unkeep"} /\ e.work \in {"drop", "use"}
    /\ \/ e.proc \in {"load", "dropfont", "render"}
       \/ e.proc = "section" /\ e.work = "drop"
       \/ e.proc = "ft" /\ e.work # "none"
       => e.item \in Fonts

\* The work of the region that is called from e.
Calling(e) ==
    IF e.proc = "load" /\ e.pc = "open" THEN "keep"
    ELSE IF e.proc = "load" /\ e.pc = "store" THEN "open"
    ELSE IF e.proc = "dropfont" /\ e.pc = "unkeep" THEN "close" ELSE "other"

Called(e) == IF e.proc = "ft" /\ e.work \in {"keep", "open", "close"} THEN e.work ELSE "other"

\* e may be on the stack s.
Sits(s, e) ==
    /\ Formed(e)
    /\ e.proc = "type3" => \A i \in 1 .. Len(s) : s[i].proc = "type3"
    /\ Called(e) # "other" => s # <<>>
    /\ s # <<>> => /\ Calling(s[Len(s)]) = Called(e)
                   /\ Called(e) # "other" => s[Len(s)].item = e.item
    /\ Uncaching(e) => CacheIn(s)

\* The same of the j-th frame.
SitsAt(s, j) ==
    /\ Formed(s[j])
    /\ s[j].proc = "type3" => \A i \in 1 .. j - 1 : s[i].proc = "type3"
    /\ Called(s[j]) # "other" => j > 1
    /\ j > 1 => /\ Calling(s[j - 1]) = Called(s[j])
                /\ Called(s[j]) # "other" => s[j - 1].item = s[j].item
    /\ Uncaching(s[j]) => \E i \in 1 .. j - 1 : CacheHeld(s[i])

Shaped(s) == \A j \in 1 .. Len(s) : SitsAt(s, j)

-----------------------------------------------------------------------------
(* All the stacks. *)

Unique(S) ==
    \A t, u \in Threads : \A i \in 1 .. Len(S[t]), j \in 1 .. Len(S[u]) :
        Kind(S[t][i]) = Kind(S[u][j]) /\ Kind(S[t][i]) # "other" /\ S[t][i].item = S[u][j].item
        => t = u /\ i = j

World(O, C, D, K) ==
    /\ O \in [Fonts -> SUBSET (Threads \cup {Store})]
    /\ C \subseteq Fonts /\ D \cup K \subseteq C
    /\ \A f \in Fonts : O[f] # {} => f \in D

Base(S, O, C, D, K) ==
    /\ S \in [Threads -> Seq(Frame)]
    /\ World(O, C, D, K)
    /\ \A t \in Threads : Shaped(S[t])
    /\ \A t \in Threads : \A i \in 1 .. Len(S[t]) : Claim(t, S[t][i], O, C, D, K)
    /\ Unique(S)

Tops(S, O, C) == \A t \in Threads : S[t] # <<>> => TopClaim(t, S[t][Len(S[t])], O, C)

\* The fonts with a reference to FreeType's library.
Keeps(e) ==
    \/ e.proc \in {"load", "dropfont"} /\ e.pc = "unkeep"
    \/ e.proc = "ft" /\ e.work = "keep" /\ e.pc = "unuser"
    \/ e.proc = "ft" /\ e.work \in {"open", "unkeep"} /\ e.pc # "unuser"
KeepsOnTop(e) == e.proc = "load" /\ e.pc = "open"

Low(S) ==
    {f \in Fonts :
        \E t \in Threads : \E i \in 1 .. Len(S[t]) : Keeps(S[t][i]) /\ S[t][i].item = f}
High(S) ==
    {f \in Fonts :
        \E t \in Threads :
            S[t] # <<>> /\ KeepsOnTop(S[t][Len(S[t])]) /\ S[t][Len(S[t])].item = f}

Kept(S, C) == C \cup Low(S) \cup High(S)

FInv ==
    /\ Base(stack, owners, faces, descs, cached)
    /\ Tops(stack, owners, faces)
    /\ lib \in Int /\ lib >= Cardinality(Kept(stack, faces))
    /\ others \subseteq Others /\ scavenging \in BOOLEAN

-----------------------------------------------------------------------------
(* One frame more, and one less. *)

\* A stack with one frame more is shaped if the frame may be on it.
LEMMA AppendShaped ==
    ASSUME NEW p \in Seq(Frame), NEW e \in Frame
    PROVE  Shaped(Append(p, e)) <=> Shaped(p) /\ Sits(p, e)
<1> DEFINE q == Append(p, e)
           n == Len(p)
<1>1. /\ q \in Seq(Frame) /\ Len(q) = n + 1 /\ n \in Nat
      /\ q[n + 1] = e
      /\ \A i \in 1 .. n : q[i] = p[i]
  BY AppendProperties
<1> HIDE DEF q
<1>2. 1 .. Len(q) = (1 .. n) \cup {n + 1}
  BY <1>1
<1>3. ASSUME NEW j \in 1 .. n PROVE SitsAt(q, j) <=> SitsAt(p, j)
  <2>1. /\ q[j] = p[j]
        /\ \A i \in 1 .. j - 1 : q[i] = p[i]
        /\ j > 1 => q[j - 1] = p[j - 1]
    BY <1>1
  <2> QED
    BY <2>1 DEF SitsAt
<1>4. SitsAt(q, n + 1) <=> Sits(p, e)
  <2>1. /\ 1 .. n + 1 - 1 = 1 .. n /\ n + 1 - 1 = n
        /\ n + 1 > 1 <=> p # <<>>
        /\ p # <<>> => q[n] = p[n]
    BY <1>1
  <2>2. SitsAt(q, n + 1) <=>
            /\ Formed(e)
            /\ e.proc = "type3" => \A i \in 1 .. n : p[i].proc = "type3"
            /\ Called(e) # "other" => p # <<>>
            /\ p # <<>> => /\ Calling(p[n]) = Called(e)
                           /\ Called(e) # "other" => p[n].item = e.item
            /\ Uncaching(e) => \E i \in 1 .. n : CacheHeld(p[i])
    BY <1>1, <2>1 DEF SitsAt
  <2> QED
    BY <2>2 DEF Sits, CacheIn
<1> QED
  BY <1>1, <1>2, <1>3, <1>4 DEF Shaped, q

\* No frame of the kind k with item f is anywhere.
Free(S, k, f) ==
    \A t \in Threads : \A i \in 1 .. Len(S[t]) : ~(Kind(S[t][i]) = k /\ S[t][i].item = f)

Grown(S, t, e) == [S EXCEPT ![t] = Append(@, e)]
Cut(S, t) == [S EXCEPT ![t] = Popped(@)]

\* What Grown and Cut do to the stacks.
LEMMA GrownIs ==
    ASSUME NEW S \in [Threads -> Seq(Frame)], NEW t \in Threads, NEW e \in Frame
    PROVE  /\ Grown(S, t, e) \in [Threads -> Seq(Frame)]
           /\ Grown(S, t, e)[t] = Append(S[t], e)
           /\ \A u \in Threads : u # t => Grown(S, t, e)[u] = S[u]
           /\ Len(Grown(S, t, e)[t]) = Len(S[t]) + 1 /\ Len(S[t]) \in Nat
           /\ Grown(S, t, e)[t][Len(S[t]) + 1] = e
           /\ \A i \in 1 .. Len(S[t]) : Grown(S, t, e)[t][i] = S[t][i]
           /\ Grown(S, t, e)[t] # <<>>
<1>1. S[t] \in Seq(Frame)
  OBVIOUS
<1>2. /\ Append(S[t], e) \in Seq(Frame) /\ Len(Append(S[t], e)) = Len(S[t]) + 1
      /\ Len(S[t]) \in Nat /\ Append(S[t], e)[Len(S[t]) + 1] = e
      /\ \A i \in 1 .. Len(S[t]) : Append(S[t], e)[i] = S[t][i]
      /\ Append(S[t], e) # <<>>
  BY <1>1, AppendProperties
<1>3. /\ Grown(S, t, e)[t] = Append(S[t], e)
      /\ \A u \in Threads : u # t => Grown(S, t, e)[u] = S[u]
      /\ Grown(S, t, e) \in [Threads -> Seq(Frame)]
  BY <1>2 DEF Grown
<1> QED
  BY <1>2, <1>3

\* A place of the longer stacks is one of the shorter, or the new one.
LEMMA GrownPlaces ==
    ASSUME NEW S \in [Threads -> Seq(Frame)], NEW t \in Threads, NEW e \in Frame,
           NEW u \in Threads, NEW i \in 1 .. Len(Grown(S, t, e)[u])
    PROVE  \/ u = t /\ i = Len(S[t]) + 1 /\ Grown(S, t, e)[u][i] = e
           \/ i \in 1 .. Len(S[u]) /\ Grown(S, t, e)[u][i] = S[u][i]
<1>1. CASE u # t
  <2>1. Grown(S, t, e)[u] = S[u]
    BY <1>1, GrownIs
  <2> QED
    BY <2>1
<1>2. CASE u = t
  <2>1. i = Len(S[t]) + 1 \/ i \in 1 .. Len(S[t])
    <3>1. Len(Grown(S, t, e)[t]) = Len(S[t]) + 1 /\ Len(S[t]) \in Nat
      BY GrownIs
    <3> QED
      BY <1>2, <3>1
  <2> QED
    BY <1>2, <2>1, GrownIs
<1> QED
  BY <1>1, <1>2

\* A frame is called: what it claims has to hold, and it has to be the only
\* one of its kind for the font.
LEMMA PushBase ==
    ASSUME NEW S, NEW O, NEW C, NEW D, NEW K, Base(S, O, C, D, K),
           NEW t \in Threads, NEW e \in Frame,
           Sits(S[t], e), Claim(t, e, O, C, D, K),
           Kind(e) = "other" \/ Free(S, Kind(e), e.item)
    PROVE  Base(Grown(S, t, e), O, C, D, K)
<1> DEFINE T == Grown(S, t, e)
<1>1. S \in [Threads -> Seq(Frame)] /\ S[t] \in Seq(Frame)
  BY DEF Base
<1>2. T \in [Threads -> Seq(Frame)] /\ T[t] = Append(S[t], e)
      /\ \A u \in Threads : u # t => T[u] = S[u]
  BY <1>1, GrownIs
<1>3. \A u \in Threads : \A i \in 1 .. Len(T[u]) :
         \/ u = t /\ i = Len(S[t]) + 1 /\ T[u][i] = e
         \/ i \in 1 .. Len(S[u]) /\ T[u][i] = S[u][i]
  BY <1>1, GrownPlaces
<1> HIDE DEF T
<1>4. \A u \in Threads : Shaped(T[u])
  <2>1. Shaped(Append(S[t], e))
    BY <1>1, AppendShaped DEF Base
  <2> QED
    BY <1>2, <2>1 DEF Base
<1>5. \A u \in Threads : \A i \in 1 .. Len(T[u]) : Claim(u, T[u][i], O, C, D, K)
  BY <1>3 DEF Base
<1>6. Unique(T)
  <2> SUFFICES ASSUME NEW u \in Threads, NEW v \in Threads,
                      NEW i \in 1 .. Len(T[u]), NEW j \in 1 .. Len(T[v]),
                      Kind(T[u][i]) = Kind(T[v][j]), Kind(T[u][i]) # "other",
                      T[u][i].item = T[v][j].item
               PROVE  u = v /\ i = j
    BY DEF Unique
  <2>1. CASE i \in 1 .. Len(S[u]) /\ T[u][i] = S[u][i] /\ j \in 1 .. Len(S[v]) /\ T[v][j] = S[v][j]
    BY <2>1 DEF Base, Unique
  <2>2. CASE u = t /\ T[u][i] = e /\ j \in 1 .. Len(S[v]) /\ T[v][j] = S[v][j]
    BY <2>2 DEF Free
  <2>3. CASE v = t /\ T[v][j] = e /\ i \in 1 .. Len(S[u]) /\ T[u][i] = S[u][i]
    BY <2>3 DEF Free
  <2>4. CASE u = t /\ i = Len(S[t]) + 1 /\ v = t /\ j = Len(S[t]) + 1
    BY <2>4
  <2> QED
    BY <1>3, <2>1, <2>2, <2>3, <2>4
<1> QED
  BY <1>2, <1>4, <1>5, <1>6 DEF Base, T

LEMMA FreeGrown ==
    ASSUME NEW S \in [Threads -> Seq(Frame)], NEW t \in Threads, NEW e \in Frame,
           NEW k, NEW f, Free(S, k, f), Kind(e) # k \/ e.item # f
    PROVE  Free(Grown(S, t, e), k, f)
BY ZenonT(40), GrownPlaces DEF Free

LEMMA CutIs ==
    ASSUME NEW S \in [Threads -> Seq(Frame)], NEW t \in Threads, S[t] # <<>>
    PROVE  /\ Cut(S, t) \in [Threads -> Seq(Frame)]
           /\ Cut(S, t)[t] = Popped(S[t])
           /\ S[t] = Append(Popped(S[t]), S[t][Len(S[t])])
           /\ Popped(S[t]) \in Seq(Frame) /\ S[t][Len(S[t])] \in Frame
           /\ Len(S[t]) \in 1 .. Len(S[t])
           /\ S = Grown(Cut(S, t), t, S[t][Len(S[t])])
           /\ \A u \in Threads : u # t => Cut(S, t)[u] = S[u]
<1>1. S[t] \in Seq(Frame)
  OBVIOUS
<1>2. /\ Popped(S[t]) \in Seq(Frame) /\ S[t][Len(S[t])] \in Frame
      /\ S[t] = Append(Popped(S[t]), S[t][Len(S[t])])
  BY <1>1, SplitTop
<1>3. Cut(S, t) \in [Threads -> Seq(Frame)] /\ Cut(S, t)[t] = Popped(S[t])
      /\ \A u \in Threads : u # t => Cut(S, t)[u] = S[u]
  BY <1>2 DEF Cut
<1>4. Len(S[t]) \in 1 .. Len(S[t])
  BY <1>1
<1>5. S = Grown(Cut(S, t), t, S[t][Len(S[t])])
  <2> DEFINE G == Grown(Cut(S, t), t, S[t][Len(S[t])])
  <2>1. G \in [Threads -> Seq(Frame)] /\ \A u \in Threads : G[u] = S[u]
    <3>1. /\ G \in [Threads -> Seq(Frame)] /\ G[t] = Append(Cut(S, t)[t], S[t][Len(S[t])])
          /\ \A u \in Threads : u # t => G[u] = Cut(S, t)[u]
      BY SMTT(40), <1>2, <1>3, GrownIs
    <3> HIDE DEF G
    <3> QED
      BY <1>2, <1>3, <3>1
  <2> HIDE DEF G
  <2>2. G = S
    BY <2>1
  <2> QED
    BY <2>2 DEF G
<1> QED
  BY <1>2, <1>3, <1>4, <1>5

\* A place of the shorter stacks is one of the longer.
LEMMA CutPlaces ==
    ASSUME NEW S \in [Threads -> Seq(Frame)], NEW t \in Threads, S[t] # <<>>
    PROVE  \A u \in Threads : \A i \in 1 .. Len(Cut(S, t)[u]) :
              i \in 1 .. Len(S[u]) /\ S[u][i] = Cut(S, t)[u][i]
<1>0. PICK T, e : T = Cut(S, t) /\ e = S[t][Len(S[t])]
  OBVIOUS
<1>1. T \in [Threads -> Seq(Frame)] /\ e \in Frame /\ S = Grown(T, t, e)
      /\ \A u \in Threads : u # t => T[u] = S[u]
  BY <1>0, CutIs
<1>2. /\ Len(S[t]) = Len(T[t]) + 1 /\ Len(T[t]) \in Nat
      /\ \A i \in 1 .. Len(T[t]) : S[t][i] = T[t][i]
  <2>1. /\ Len(Grown(T, t, e)[t]) = Len(T[t]) + 1 /\ Len(T[t]) \in Nat
        /\ \A i \in 1 .. Len(T[t]) : Grown(T, t, e)[t][i] = T[t][i]
    BY SMTT(40), <1>1, GrownIs
  <2> QED
    BY <1>1, <2>1
<1>3. ASSUME NEW u \in Threads, NEW i \in 1 .. Len(T[u])
      PROVE  i \in 1 .. Len(S[u]) /\ S[u][i] = T[u][i]
  <2>1. CASE u = t
    BY <1>2, <2>1
  <2>2. CASE u # t
    BY <1>1, <2>2
  <2> QED
    BY <2>1, <2>2
<1> QED
  BY <1>0, <1>3

\* A frame is gone: the rest still fits, and had room for it.
LEMMA PopBase ==
    ASSUME NEW S, NEW O, NEW C, NEW D, NEW K, Base(S, O, C, D, K),
           NEW t \in Threads, S[t] # <<>>
    PROVE  /\ Base(Cut(S, t), O, C, D, K)
           /\ Sits(Popped(S[t]), S[t][Len(S[t])])
           /\ Claim(t, S[t][Len(S[t])], O, C, D, K)
           /\ \/ Kind(S[t][Len(S[t])]) = "other"
              \/ Free(Cut(S, t), Kind(S[t][Len(S[t])]), S[t][Len(S[t])].item)
<1> DEFINE T == Cut(S, t)
           e == S[t][Len(S[t])]
           n == Len(S[t])
<1>1. S \in [Threads -> Seq(Frame)]
  BY DEF Base
<1>2. /\ T \in [Threads -> Seq(Frame)] /\ T[t] = Popped(S[t]) /\ S[t] = Append(T[t], e)
      /\ e \in Frame /\ n \in 1 .. n /\ S = Grown(T, t, e)
      /\ \A u \in Threads : u # t => T[u] = S[u]
  BY <1>1, CutIs
<1>3. Shaped(T[t]) /\ Sits(T[t], e)
  <2>1. Shaped(Append(T[t], e)) /\ T[t] \in Seq(Frame)
    BY <1>2 DEF Base
  <2> HIDE DEF T, e
  <2> QED
    BY <1>2, <2>1, AppendShaped
<1>4. n = Len(T[t]) + 1 /\ Len(T[t]) \in Nat
      /\ \A i \in 1 .. Len(T[t]) : S[t][i] = T[t][i]
  <2> HIDE DEF T, e
  <2> QED
    BY <1>2, GrownIs
<1> HIDE DEF T, e, n
<1>5. \A u \in Threads : \A i \in 1 .. Len(T[u]) :
         i \in 1 .. Len(S[u]) /\ T[u][i] = S[u][i] /\ (u = t => i # n)
  <2> SUFFICES ASSUME NEW u \in Threads, NEW i \in 1 .. Len(T[u])
               PROVE  i \in 1 .. Len(S[u]) /\ T[u][i] = S[u][i] /\ (u = t => i # n)
    OBVIOUS
  <2>1. CASE u = t
    BY <1>4, <2>1 DEF n
  <2>2. CASE u # t
    BY <1>2, <2>2
  <2> QED
    BY <2>1, <2>2
<1>6. \A u \in Threads : Shaped(T[u])
  BY <1>2, <1>3 DEF Base
<1>7. \A u \in Threads : \A i \in 1 .. Len(T[u]) : Claim(u, T[u][i], O, C, D, K)
  BY <1>5 DEF Base
<1>8. Unique(T)
  <2> SUFFICES ASSUME NEW u \in Threads, NEW v \in Threads,
                      NEW i \in 1 .. Len(T[u]), NEW j \in 1 .. Len(T[v]),
                      Kind(T[u][i]) = Kind(T[v][j]), Kind(T[u][i]) # "other",
                      T[u][i].item = T[v][j].item
               PROVE  u = v /\ i = j
    BY DEF Unique
  <2>1. /\ i \in 1 .. Len(S[u]) /\ T[u][i] = S[u][i]
        /\ j \in 1 .. Len(S[v]) /\ T[v][j] = S[v][j]
    BY <1>5
  <2> QED
    BY <2>1 DEF Base, Unique
<1>9. Kind(e) = "other" \/ Free(T, Kind(e), e.item)
  <2> SUFFICES ASSUME Kind(e) # "other", NEW u \in Threads, NEW i \in 1 .. Len(T[u]),
                      Kind(T[u][i]) = Kind(e), T[u][i].item = e.item
               PROVE  FALSE
    BY DEF Free
  <2>1. S[t][n] = e /\ n \in 1 .. Len(S[t])
    BY <1>2 DEF e, n
  <2>2. i \in 1 .. Len(S[u]) /\ T[u][i] = S[u][i] /\ (u = t => i # n)
    BY <1>5
  <2> QED
    BY <2>1, <2>2 DEF Base, Unique
<1>10. Claim(t, e, O, C, D, K)
  BY <1>2 DEF Base, e, n
<1>11. Base(T, O, C, D, K)
  BY <1>2, <1>6, <1>7, <1>8 DEF Base
<1> QED
  BY <1>2, <1>3, <1>9, <1>10, <1>11 DEF T, e

-----------------------------------------------------------------------------
(* References to the library. *)

\* How the fonts with a reference to the library change with the stacks.
LEMMA LowGrown ==
    ASSUME NEW S \in [Threads -> Seq(Frame)], NEW t \in Threads, NEW e \in Frame,
           NEW f \in Low(Grown(S, t, e))
    PROVE  f \in Low(S) \/ (Keeps(e) /\ e.item = f)
<1>1. PICK u \in Threads : \E i \in 1 .. Len(Grown(S, t, e)[u]) :
         Keeps(Grown(S, t, e)[u][i]) /\ Grown(S, t, e)[u][i].item = f
  BY DEF Low
<1>. PICK i \in 1 .. Len(Grown(S, t, e)[u]) :
         Keeps(Grown(S, t, e)[u][i]) /\ Grown(S, t, e)[u][i].item = f
  BY <1>1
<1>2. CASE Grown(S, t, e)[u][i] = e
  BY <1>1, <1>2
<1>3. CASE i \in 1 .. Len(S[u]) /\ Grown(S, t, e)[u][i] = S[u][i]
  BY <1>1, <1>3 DEF Low
<1> QED
  BY <1>2, <1>3, GrownPlaces

LEMMA LowCut ==
    ASSUME NEW S \in [Threads -> Seq(Frame)], NEW t \in Threads, S[t] # <<>>
    PROVE  Low(Cut(S, t)) \subseteq Low(S)
<1>0. PICK T : T = Cut(S, t)
  OBVIOUS
<1>1. \A u \in Threads : \A i \in 1 .. Len(T[u]) : i \in 1 .. Len(S[u]) /\ S[u][i] = T[u][i]
  BY <1>0, CutPlaces
<1>2. Low(T) \subseteq Low(S)
  BY <1>1 DEF Low
<1> QED
  BY <1>0, <1>2

LEMMA HighIs ==
    ASSUME NEW S \in [Threads -> Seq(Frame)], NEW t \in Threads, NEW s \in Seq(Frame),
           NEW f \in High([S EXCEPT ![t] = s])
    PROVE  f \in High(S) \/ (s # <<>> /\ KeepsOnTop(s[Len(s)]) /\ s[Len(s)].item = f)
<1> DEFINE T == [S EXCEPT ![t] = s]
<1>1. PICK u \in Threads : T[u] # <<>> /\ KeepsOnTop(T[u][Len(T[u])]) /\ T[u][Len(T[u])].item = f
  BY DEF High
<1>2. CASE u = t
  BY <1>1, <1>2
<1>3. CASE u # t
  <2>1. T[u] = S[u]
    BY <1>3
  <2> QED
    BY <1>1, <2>1 DEF High
<1> QED
  BY <1>2, <1>3

\* The fonts with a reference can be counted.
LEMMA KeptFinite ==
    ASSUME NEW S, NEW C \in SUBSET Fonts
    PROVE  /\ Kept(S, C) \in SUBSET Fonts /\ IsFiniteSet(Kept(S, C))
           /\ Cardinality(Kept(S, C)) \in Nat
<1>1. Kept(S, C) \in SUBSET Fonts
  BY DEF Kept, Low, High
<1> QED
  BY <1>1, LocksAssumption, FS_Subset, FS_CardinalityType

\* The library has as many references as before, and no more users.
LEMMA LibStays ==
    ASSUME FInv, NEW T, NEW C \in SUBSET Fonts, Kept(T, C) \subseteq Kept(stack, faces)
    PROVE  lib \in Int /\ lib >= Cardinality(Kept(T, C))
<1>1. faces \in SUBSET Fonts
  BY DEF FInv, Base, World
<1>2. /\ IsFiniteSet(Kept(stack, faces))
      /\ Cardinality(Kept(stack, faces)) \in Nat /\ Cardinality(Kept(T, C)) \in Nat
  BY <1>1, KeptFinite
<1>3. Cardinality(Kept(T, C)) <= Cardinality(Kept(stack, faces))
  BY <1>2, FS_Subset
<1> QED
  BY <1>2, <1>3 DEF FInv

\* What a step has to show.
LEMMA Assembled ==
    ASSUME FInv, NEW t \in Threads, NEW s \in Seq(Frame),
           stack' = [stack EXCEPT ![t] = s],
           Base(stack', owners', faces', descs', cached'),
           \A u \in Threads \ {t} :
              stack[u] # <<>> => TopClaim(u, stack[u][Len(stack[u])], owners', faces'),
           s # <<>> => TopClaim(t, s[Len(s)], owners', faces'),
           lib' \in Int, lib' >= Cardinality(Kept(stack', faces')),
           others' \subseteq Others, scavenging' \in BOOLEAN
    PROVE  FInv'
<1>1. stack \in [Threads -> Seq(Frame)]
  BY DEF FInv, Base
<1>2. ASSUME NEW u \in Threads, stack'[u] # <<>>
      PROVE  TopClaim(u, stack'[u][Len(stack'[u])], owners', faces')
  <2>1. CASE u = t
    BY <1>1, <1>2, <2>1
  <2>2. CASE u # t
    <3>1. stack'[u] = stack[u]
      BY <1>1, <2>2
    <3> QED
      BY <1>2, <2>2, <3>1
  <2> QED
    BY <2>1, <2>2
<1> QED
  BY <1>2 DEF FInv, Tops

-----------------------------------------------------------------------------
(* Steps that change no reference. *)

Still == UNCHANGED <<owners, faces, descs, cached, lib, others>> /\ scavenging' \in BOOLEAN

\* The library reference a frame on top has, if any.
Holds(e) == Keeps(e) \/ KeepsOnTop(e)

LEMMA HeldIsKept ==
    ASSUME FInv, NEW t \in Threads, stack[t] # <<>>, Holds(Top(t)), Top(t).item \in Fonts
    PROVE  Top(t).item \in Kept(stack, faces)
<1>1. Len(stack[t]) \in 1 .. Len(stack[t])
  BY CutIs DEF FInv, Base
<1> QED
  BY <1>1 DEF Holds, Kept, Low, High, Top

\* What the invariant says of the top frame and of the stacks without it.
LEMMA TopIs ==
    ASSUME FInv, NEW t \in Threads, stack[t] # <<>>
    PROVE  /\ Popped(stack[t]) \in Seq(Frame) /\ Top(t) \in Frame
           /\ stack \in [Threads -> Seq(Frame)]
           /\ stack[t] = Append(Popped(stack[t]), Top(t))
           /\ Cut(stack, t) \in [Threads -> Seq(Frame)]
           /\ Cut(stack, t)[t] = Popped(stack[t])
           /\ \A u \in Threads : u # t => Cut(stack, t)[u] = stack[u]
           /\ Base(Cut(stack, t), owners, faces, descs, cached)
           /\ Low(Cut(stack, t)) \subseteq Low(stack)
           /\ Sits(Popped(stack[t]), Top(t))
           /\ Claim(t, Top(t), owners, faces, descs, cached)
           /\ TopClaim(t, Top(t), owners, faces)
           /\ Kind(Top(t)) = "other" \/ Free(Cut(stack, t), Kind(Top(t)), Top(t).item)
           /\ \A pc \in Pc :
                 /\ With(Top(t), pc) \in Frame
                 /\ Moved(stack[t], pc) = Append(Popped(stack[t]), With(Top(t), pc))
<1>1. /\ stack \in [Threads -> Seq(Frame)] /\ Base(stack, owners, faces, descs, cached)
      /\ stack[t] \in Seq(Frame)
  BY DEF FInv, Base
<1>2. TopClaim(t, Top(t), owners, faces)
  BY DEF FInv, Tops, Top
<1> QED
  BY <1>1, <1>2, CutIs, PopBase, LowCut, SplitTop DEF Top

\* What the others say of their last frames stays.
LEMMA OthersTops ==
    ASSUME FInv, NEW t \in Threads, UNCHANGED <<owners, faces>>
    PROVE  \A u \in Threads \ {t} :
              stack[u] # <<>> => TopClaim(u, stack[u][Len(stack[u])], owners', faces')
BY DEF FInv, Tops

\* The frame on top of t's stack is another one.
Topped(S, t, e) == Grown(Cut(S, t), t, e)

LEMMA ToppedIs ==
    ASSUME NEW S \in [Threads -> Seq(Frame)], NEW t \in Threads, NEW e \in Frame,
           NEW s, s = Append(Popped(S[t]), e)
    PROVE  Topped(S, t, e) = [S EXCEPT ![t] = s]
BY DEF Topped, Grown, Cut

\* A stack that is some frame on another one.
LEMMA AppendTop ==
    ASSUME NEW p \in Seq(Frame), NEW e \in Frame, NEW s, s = Append(p, e)
    PROVE  s \in Seq(Frame) /\ s # <<>> /\ s[Len(s)] = e
BY AppendHolds

\* A new top frame that holds no other reference adds none.
LEMMA ToppedKept ==
    ASSUME NEW S \in [Threads -> Seq(Frame)], NEW t \in Threads, S[t] # <<>>, NEW e \in Frame,
           NEW C, S[t][Len(S[t])].item \in Fonts \/ ~Holds(e),
           Holds(e) => Holds(S[t][Len(S[t])]) /\ e.item = S[t][Len(S[t])].item
    PROVE  Kept(Topped(S, t, e), C) \subseteq Kept(S, C)
<1> DEFINE T == Cut(S, t)
<1>1. T \in [Threads -> Seq(Frame)] /\ Low(T) \subseteq Low(S) /\ Len(S[t]) \in 1 .. Len(S[t])
  BY CutIs, LowCut
<1>2. Holds(e) => e.item \in Low(S) \cup High(S)
  BY <1>1 DEF Holds, Low, High
<1>3. ASSUME NEW f \in Low(Topped(S, t, e)) PROVE f \in Low(S) \cup High(S)
  <2>1. f \in Low(T) \/ (Keeps(e) /\ e.item = f)
    BY <1>1, <1>3, LowGrown DEF Topped
  <2> QED
    BY <1>1, <1>2, <2>1 DEF Holds
<1>4. ASSUME NEW f \in High(Topped(S, t, e)) PROVE f \in Low(S) \cup High(S)
  <2>0. PICK s, p : s = Append(Popped(S[t]), e) /\ p = Popped(S[t])
    OBVIOUS
  <2>1. s \in Seq(Frame) /\ s # <<>> /\ s[Len(s)] = e
    <3>1. p \in Seq(Frame) /\ s = Append(p, e)
      BY <2>0, CutIs
    <3> QED
      BY <3>1, AppendTop
  <2>3. Topped(S, t, e) = [S EXCEPT ![t] = s]
    BY <2>0, ToppedIs
  <2>2. f \in High(S) \/ (KeepsOnTop(e) /\ e.item = f)
    BY <1>4, <2>1, <2>3, HighIs
  <2> QED
    BY <1>2, <2>2 DEF Holds
<1> QED
  BY <1>3, <1>4 DEF Kept

\* The top frame becomes e.
LEMMA StillTop ==
    ASSUME FInv, NEW t \in Threads, stack[t] # <<>>, NEW e \in Frame, Still,
           stack' = [stack EXCEPT ![t] = Append(Popped(stack[t]), e)],
           Sits(Popped(stack[t]), e),
           Claim(t, e, owners, faces, descs, cached), TopClaim(t, e, owners, faces),
           Kind(e) = "other" \/ (Kind(e) = Kind(Top(t)) /\ e.item = Top(t).item),
           Holds(e) => Holds(Top(t)) /\ e.item = Top(t).item /\ e.item \in Fonts
    PROVE  FInv'
<1>0. PICK S, T, O, C, D, K, p, s :
         /\ S = stack /\ T = Cut(stack, t) /\ O = owners /\ C = faces /\ D = descs /\ K = cached
         /\ p = Popped(stack[t])
         /\ s = Append(Popped(stack[t]), e)
  OBVIOUS
<1>1. /\ S \in [Threads -> Seq(Frame)] /\ T \in [Threads -> Seq(Frame)]
      /\ T[t] = Popped(stack[t]) /\ T = Cut(S, t)
      /\ Base(T, O, C, D, K)
      /\ Kind(e) = "other" \/ Free(T, Kind(e), e.item)
  BY <1>0, TopIs
<1>2. stack' = Topped(S, t, e) /\ s \in Seq(Frame) /\ s # <<>> /\ s[Len(s)] = e
  <2>0. /\ s = Append(Popped(S[t]), e) /\ S[t] # <<>>
        /\ S \in [Threads -> Seq(Frame)] /\ t \in Threads /\ e \in Frame
    BY <1>0, <1>1
  <2>1. s \in Seq(Frame) /\ s # <<>> /\ s[Len(s)] = e
    <3>1. p \in Seq(Frame) /\ s = Append(p, e)
      BY <1>0, TopIs
    <3> QED
      BY <3>1, AppendTop
  <2>2. Topped(S, t, e) = [S EXCEPT ![t] = s]
    BY ONLY <2>0, ToppedIs
  <2> QED
    BY <1>0, <2>1, <2>2
<1>3. Base(Topped(S, t, e), O, C, D, K)
  BY <1>0, <1>1, PushBase DEF Topped
<1>4. Base(stack', owners', faces', descs', cached')
  BY <1>0, <1>2, <1>3 DEF Still
<1>5. Kept(Topped(S, t, e), C) \subseteq Kept(S, C)
  BY <1>0, <1>1, ToppedKept DEF Top
<1>6. lib' \in Int /\ lib' >= Cardinality(Kept(stack', faces'))
  <2>1. faces' = C /\ lib' = lib /\ C \in SUBSET Fonts /\ Kept(S, C) = Kept(stack, faces)
    BY <1>0 DEF FInv, Base, World, Still
  <2>2. lib \in Int /\ lib >= Cardinality(Kept(Topped(S, t, e), C))
    BY <1>5, <2>1, LibStays
  <2> QED
    BY <1>2, <2>1, <2>2
<1>7. others' \subseteq Others /\ scavenging' \in BOOLEAN
  BY DEF FInv, Still
<1>8. TopClaim(t, e, owners', faces')
  BY DEF Still
<1>9. \A u \in Threads \ {t} :
         stack[u] # <<>> => TopClaim(u, stack[u][Len(stack[u])], owners', faces')
  BY OthersTops DEF Still
<1> QED
  BY <1>0, <1>2, <1>4, <1>6, <1>7, <1>8, <1>9, Assembled

LEMMA FreeCut ==
    ASSUME NEW S \in [Threads -> Seq(Frame)], NEW t \in Threads, S[t] # <<>>,
           NEW k, NEW f, Free(S, k, f)
    PROVE  Free(Cut(S, t), k, f)
<1>0. PICK T : T = Cut(S, t)
  OBVIOUS
<1>1. \A u \in Threads : \A i \in 1 .. Len(T[u]) : i \in 1 .. Len(S[u]) /\ S[u][i] = T[u][i]
  BY <1>0, CutPlaces
<1>2. Free(T, k, f)
  BY <1>1 DEF Free
<1> QED
  BY <1>0, <1>2

\* The top frame becomes e, and calls g.
LEMMA StillCalls ==
    ASSUME FInv, NEW t \in Threads, stack[t] # <<>>, NEW e \in Frame, NEW g \in Frame, Still,
           stack' = [stack EXCEPT ![t] = Append(Append(Popped(stack[t]), e), g)],
           Sits(Popped(stack[t]), e), Sits(Append(Popped(stack[t]), e), g),
           Claim(t, e, owners, faces, descs, cached),
           Claim(t, g, owners, faces, descs, cached), TopClaim(t, g, owners, faces),
           Kind(e) = "other" \/ (Kind(g) = "other" /\ Kind(e) = Kind(Top(t)) /\ e.item = Top(t).item),
           \/ Kind(g) = "other"
           \/ Kind(g) = Kind(Top(t)) /\ g.item = Top(t).item
           \/ Free(stack, Kind(g), g.item),
           Keeps(e) => Holds(Top(t)) /\ e.item = Top(t).item /\ e.item \in Fonts,
           Holds(g) => Holds(Top(t)) /\ g.item = Top(t).item /\ g.item \in Fonts
    PROVE  FInv'
<1>0. PICK S, T, O, C, D, K, p, q, s :
         /\ S = stack /\ T = Cut(stack, t) /\ O = owners /\ C = faces /\ D = descs /\ K = cached
         /\ p = Popped(stack[t]) /\ q = Append(Popped(stack[t]), e)
         /\ s = Append(Append(Popped(stack[t]), e), g)
  OBVIOUS
<1>1. /\ S \in [Threads -> Seq(Frame)] /\ T \in [Threads -> Seq(Frame)]
      /\ T[t] = p /\ T = Cut(S, t) /\ p \in Seq(Frame) /\ S[t] # <<>>
      /\ Base(T, O, C, D, K)
      /\ Kind(Top(t)) = "other" \/ Free(T, Kind(Top(t)), Top(t).item)
      /\ Low(T) \subseteq Low(S)
  BY <1>0, TopIs
<1>2. PICK U : U = Grown(T, t, e)
  OBVIOUS
<1>3. /\ U \in [Threads -> Seq(Frame)] /\ U[t] = q /\ q = Append(p, e)
      /\ Base(U, O, C, D, K)
  <2>1. Kind(e) = "other" \/ Free(T, Kind(e), e.item)
    BY <1>1
  <2>2. Base(U, O, C, D, K)
    BY <1>0, <1>1, <1>2, <2>1, PushBase
  <2>3. U[t] = Append(p, e)
    BY ZenonT(40), <1>1, <1>2, GrownIs
  <2> QED
    BY <1>0, <2>2, <2>3 DEF Base
<1>4. Kind(g) = "other" \/ Free(U, Kind(g), g.item)
  <2>1. CASE Kind(g) # "other"
    <3>1. Kind(e) = "other"
      BY <2>1
    <3>2. Free(T, Kind(g), g.item)
      <4>1. CASE Kind(g) = Kind(Top(t)) /\ g.item = Top(t).item
        BY <1>1, <2>1, <4>1
      <4>2. CASE Free(stack, Kind(g), g.item)
        BY <1>0, <1>1, <4>2, FreeCut
      <4> QED
        BY <2>1, <4>1, <4>2
    <3> QED
      BY <1>1, <1>2, <2>1, <3>1, <3>2, FreeGrown
  <2> QED
    BY <2>1
<1>5. Base(Grown(U, t, g), O, C, D, K)
  BY <1>0, <1>3, <1>4, PushBase
<1>6. stack' = Grown(U, t, g) /\ s \in Seq(Frame) /\ s # <<>> /\ s[Len(s)] = g /\ stack' = [S EXCEPT ![t] = s]
  <2>1. q \in Seq(Frame) /\ s = Append(q, g)
    BY <1>0, <1>3
  <2>2. s \in Seq(Frame) /\ s # <<>> /\ s[Len(s)] = g
    BY <2>1, AppendTop
  <2>3. stack' = [S EXCEPT ![t] = s]
    BY <1>0
  <2>4. Grown(U, t, g) = [S EXCEPT ![t] = s]
    <3>1. T = [S EXCEPT ![t] = p]
      BY <1>0, <1>1 DEF Cut
    <3>2. U = [T EXCEPT ![t] = q]
      BY <1>0, <1>1, <1>2 DEF Grown
    <3>3. Grown(U, t, g) = [U EXCEPT ![t] = s]
      BY <1>3, <2>1 DEF Grown
    <3> QED
      BY <1>1, <3>1, <3>2, <3>3
  <2> QED
    BY <2>2, <2>3, <2>4
<1>7. Kept(Grown(U, t, g), C) \subseteq Kept(S, C)
  <2>1. Holds(Top(t)) /\ Top(t).item \in Fonts => Top(t).item \in Kept(S, C)
    BY <1>0, HeldIsKept
  <2>2. ASSUME NEW f \in Low(Grown(U, t, g)) PROVE f \in Kept(S, C)
    <3>1. f \in Low(U) \/ (Keeps(g) /\ g.item = f)
      BY <1>3, <2>2, LowGrown
    <3>2. f \in Low(U) => f \in Low(T) \/ (Keeps(e) /\ e.item = f)
      BY <1>1, <1>2, LowGrown
    <3> QED
      BY <1>1, <2>1, <3>1, <3>2 DEF Holds, Kept
  <2>3. ASSUME NEW f \in High(Grown(U, t, g)) PROVE f \in Kept(S, C)
    <3>1. f \in High([S EXCEPT ![t] = s])
      <4>1. Grown(U, t, g) = [S EXCEPT ![t] = s]
        BY <1>6
      <4> QED
        BY <2>3, <4>1
    <3>2. f \in High(S) \/ (KeepsOnTop(g) /\ g.item = f)
      <4>1. s \in Seq(Frame) /\ s # <<>> /\ s[Len(s)] = g
        BY <1>6
      <4> QED
        BY ONLY <1>1, <3>1, <4>1, t \in Threads, HighIs
    <3> QED
      BY <2>1, <3>2 DEF Holds, Kept
  <2> QED
    BY <2>2, <2>3 DEF Kept
<1>8. lib' \in Int /\ lib' >= Cardinality(Kept(stack', faces'))
  <2>1. faces' = C /\ lib' = lib /\ C \in SUBSET Fonts /\ Kept(S, C) = Kept(stack, faces)
    BY <1>0 DEF FInv, Base, World, Still
  <2>2. lib \in Int /\ lib >= Cardinality(Kept(Grown(U, t, g), C))
    BY <1>7, <2>1, LibStays
  <2> QED
    BY <1>6, <2>1, <2>2
<1>9. others' \subseteq Others /\ scavenging' \in BOOLEAN
  BY DEF FInv, Still
<1>10. TopClaim(t, g, owners', faces')
  BY DEF Still
<1>11. \A u \in Threads \ {t} :
         stack[u] # <<>> => TopClaim(u, stack[u][Len(stack[u])], owners', faces')
  BY OthersTops DEF Still
<1>12. Base(stack', owners', faces', descs', cached')
  BY <1>0, <1>5, <1>6 DEF Still
<1> QED
  BY <1>0, <1>6, <1>8, <1>9, <1>10, <1>11, <1>12, Assembled

\* The top frame ends.
LEMMA StillReturns ==
    ASSUME FInv, NEW t \in Threads, stack[t] # <<>>, Still,
           stack' = [stack EXCEPT ![t] = Popped(stack[t])],
           NEW p, p = Popped(stack[t]),
           p # <<>> => /\ TopClaim(t, p[Len(p)], owners, faces)
                       /\ KeepsOnTop(p[Len(p)]) =>
                             Holds(Top(t)) /\ p[Len(p)].item = Top(t).item /\ Top(t).item \in Fonts
    PROVE  FInv'
<1>0. PICK S, T, O, C, D, K :
         S = stack /\ T = Cut(stack, t) /\ O = owners /\ C = faces /\ D = descs /\ K = cached
  OBVIOUS
<1>1. /\ S \in [Threads -> Seq(Frame)] /\ T \in [Threads -> Seq(Frame)]
      /\ p \in Seq(Frame) /\ Base(T, O, C, D, K) /\ Low(T) \subseteq Low(S)
  BY <1>0, TopIs
<1>2. stack' = T /\ T = [S EXCEPT ![t] = p]
  BY <1>0 DEF Cut
<1>3. Kept(T, C) \subseteq Kept(S, C)
  <2>1. Holds(Top(t)) /\ Top(t).item \in Fonts => Top(t).item \in Kept(S, C)
    BY <1>0, HeldIsKept
  <2>2. ASSUME NEW f \in High(T) PROVE f \in Kept(S, C)
    <3>1. f \in High(S) \/ (p # <<>> /\ KeepsOnTop(p[Len(p)]) /\ p[Len(p)].item = f)
      BY ZenonT(40), <1>1, <1>2, <2>2, HighIs
    <3> QED
      BY <2>1, <3>1 DEF Kept
  <2> QED
    BY <1>1, <2>2 DEF Kept
<1>4. lib' \in Int /\ lib' >= Cardinality(Kept(stack', faces'))
  <2>1. faces' = C /\ lib' = lib /\ C \in SUBSET Fonts /\ Kept(S, C) = Kept(stack, faces)
    BY <1>0 DEF FInv, Base, World, Still
  <2>2. lib \in Int /\ lib >= Cardinality(Kept(T, C))
    BY <1>3, <2>1, LibStays
  <2> QED
    BY <1>2, <2>1, <2>2
<1>5. others' \subseteq Others /\ scavenging' \in BOOLEAN
  BY DEF FInv, Still
<1>6. p # <<>> => TopClaim(t, p[Len(p)], owners', faces')
  BY DEF Still
<1>7. \A u \in Threads \ {t} :
         stack[u] # <<>> => TopClaim(u, stack[u][Len(stack[u])], owners', faces')
  BY OthersTops DEF Still
<1>8. Base(stack', owners', faces', descs', cached')
  BY <1>0, <1>1, <1>2 DEF Still
<1> QED
  BY <1>0, <1>1, <1>2, <1>4, <1>5, <1>6, <1>7, <1>8, Assembled

\* A call that holds nothing begins.
LEMMA StillEnters ==
    ASSUME FInv, NEW t \in Threads, NEW g \in Frame, Still,
           stack' = [stack EXCEPT ![t] = Append(stack[t], g)],
           Sits(stack[t], g),
           Claim(t, g, owners, faces, descs, cached), TopClaim(t, g, owners, faces),
           Kind(g) = "other" \/ Free(stack, Kind(g), g.item),
           ~Holds(g)
    PROVE  FInv'
<1>0. PICK S, O, C, D, K, p, s :
         /\ S = stack /\ O = owners /\ C = faces /\ D = descs /\ K = cached
         /\ p = stack[t] /\ s = Append(stack[t], g)
  OBVIOUS
<1>1. /\ S \in [Threads -> Seq(Frame)] /\ p \in Seq(Frame) /\ Base(S, O, C, D, K) /\ s = Append(p, g)
  BY <1>0 DEF FInv, Base
<1>2. s \in Seq(Frame) /\ s # <<>> /\ s[Len(s)] = g
  BY <1>1, AppendTop
<1>3. stack' = Grown(S, t, g) /\ stack' = [S EXCEPT ![t] = s]
  BY <1>0 DEF Grown
<1>4. Base(Grown(S, t, g), O, C, D, K)
  BY <1>0, <1>1, PushBase
<1>5. Kept(Grown(S, t, g), C) \subseteq Kept(S, C)
  <2>2. ASSUME NEW f \in Low(Grown(S, t, g)) PROVE f \in Kept(S, C)
    BY <1>1, <2>2, LowGrown DEF Holds, Kept
  <2>3. ASSUME NEW f \in High(Grown(S, t, g)) PROVE f \in Kept(S, C)
    <3>1. f \in High([S EXCEPT ![t] = s])
      <4>1. Grown(S, t, g) = [S EXCEPT ![t] = s]
        BY <1>3
      <4> QED
        BY <2>3, <4>1
    <3>2. f \in High(S) \/ (KeepsOnTop(g) /\ g.item = f)
      <4>1. S \in [Threads -> Seq(Frame)] /\ s \in Seq(Frame) /\ s # <<>> /\ s[Len(s)] = g
        BY <1>1, <1>2
      <4> QED
        BY ONLY <4>1, <3>1, t \in Threads, HighIs
    <3> QED
      BY <3>2 DEF Holds, Kept
  <2> QED
    BY <2>2, <2>3 DEF Kept
<1>6. lib' \in Int /\ lib' >= Cardinality(Kept(stack', faces'))
  <2>1. faces' = C /\ lib' = lib /\ C \in SUBSET Fonts /\ Kept(S, C) = Kept(stack, faces)
    BY <1>0 DEF FInv, Base, World, Still
  <2>2. lib \in Int /\ lib >= Cardinality(Kept(Grown(S, t, g), C))
    BY <1>5, <2>1, LibStays
  <2> QED
    BY <1>3, <2>1, <2>2
<1>7. others' \subseteq Others /\ scavenging' \in BOOLEAN
  BY DEF FInv, Still
<1>8. TopClaim(t, g, owners', faces')
  BY DEF Still
<1>9. \A u \in Threads \ {t} :
         stack[u] # <<>> => TopClaim(u, stack[u][Len(stack[u])], owners', faces')
  BY OthersTops DEF Still
<1>10. Base(stack', owners', faces', descs', cached')
  BY <1>0, <1>3, <1>4 DEF Still
<1> QED
  BY <1>0, <1>2, <1>3, <1>6, <1>7, <1>8, <1>9, <1>10, Assembled

-----------------------------------------------------------------------------
(* Steps in which only the stack changes. *)

LEMMA WithIs ==
    ASSUME NEW f \in Frame, NEW pc \in Pc
    PROVE  /\ With(f, pc).proc = f.proc /\ With(f, pc).pc = pc
           /\ With(f, pc).work = f.work /\ With(f, pc).item = f.item
BY DEF With, Frame

\* The top frame goes on at pc, where it says nothing new.
LEMMA GoesStill ==
    ASSUME FInv, NEW t \in Threads, stack[t] # <<>>, NEW pc \in Pc, Still, stack' = Goes(t, pc),
           Top(t).proc \in {"ft", "section", "render", "type3", "purge"},
           Top(t).proc = "ft" => Top(t).pc # "unuser" /\ pc # "unuser",
           pc # "last"
    PROVE  FInv'
<1>0. PICK p, e, g : p = Popped(stack[t]) /\ e = Top(t) /\ g = With(Top(t), pc)
  OBVIOUS
<1>1. /\ e \in Frame /\ g \in Frame /\ Sits(p, e)
      /\ Claim(t, e, owners, faces, descs, cached)
      /\ stack' = [stack EXCEPT ![t] = Append(Popped(stack[t]), g)]
  BY <1>0, TopIs DEF Goes
<1>2. g.proc = e.proc /\ g.pc = pc /\ g.work = e.work /\ g.item = e.item
  BY <1>0, <1>1, WithIs
<1>3. e.proc \in {"ft", "section", "render", "type3", "purge"}
      /\ (e.proc = "ft" => e.pc # "unuser" /\ pc # "unuser")
  BY <1>0
<1>4. /\ Sole(g) <=> Sole(e)
      /\ ~Doomed(g) /\ ~Uncaching(g)
      /\ Uses(g) <=> Uses(e)
      /\ Keeps(g) <=> Keeps(e)
      /\ ~KeepsOnTop(g)
      /\ Called(g) = Called(e)
      /\ TopClaim(t, g, owners, faces)
      /\ Formed(e) => Formed(g)
      /\ Keeps(e) => e.work # "none" /\ e.proc = "ft"
  BY <1>2, <1>3 DEF Sole, Doomed, Uncaching, Uses, Keeps, KeepsOnTop, Called, TopClaim, Formed
<1>5. Sits(p, g)
  BY <1>1, <1>2, <1>4 DEF Sits
<1>6. Claim(t, g, owners, faces, descs, cached)
  BY <1>1, <1>2, <1>3, <1>4 DEF Claim
<1>7. Kind(g) = "other" \/ (Kind(g) = Kind(e) /\ g.item = e.item)
  BY <1>2, <1>4 DEF Kind
<1>8. Holds(g) => Holds(e) /\ g.item = e.item /\ g.item \in Fonts
  BY <1>1, <1>2, <1>4 DEF Holds, Sits, Formed
<1> QED
  BY <1>0, <1>1, <1>5, <1>6, <1>4, <1>7, <1>8, StillTop

\* FtLock to FinishType3: the top frame goes on.
LEMMA FtLockFaces ==
    ASSUME FInv, NEW t \in Threads, FtLock(t)
    PROVE  FInv'
BY GoesStill DEF FtLock, At, Still, Pc, FInv, fontVars, storeVars

LEMMA SetUserFaces ==
    ASSUME FInv, NEW t \in Threads, SetUser(t)
    PROVE  FInv'
BY GoesStill DEF SetUser, At, Still, Pc, FInv, fontVars, storeVars

LEMMA SectionLockFaces ==
    ASSUME FInv, NEW t \in Threads, SectionLock(t)
    PROVE  FInv'
BY GoesStill DEF SectionLock, At, Still, Pc, FInv, fontVars, storeVars

LEMMA ScavengedFaces ==
    ASSUME FInv, NEW t \in Threads, Scavenged(t)
    PROVE  FInv'
<1>1. PICK pc \in {"in", "unlock"} : stack' = Goes(t, pc)
  BY DEF Scavenged
<1>2. Still /\ stack[t] # <<>> /\ Top(t).proc = "section" /\ pc \in Pc
  BY DEF Scavenged, At, Still, Pc, FInv, fontVars
<1> QED
  BY <1>1, <1>2, GoesStill

LEMMA CacheLockFaces ==
    ASSUME FInv, NEW t \in Threads, CacheLock(t)
    PROVE  FInv'
<1>1. PICK pc \in {"drop", "look"} : stack' = Goes(t, pc)
  BY DEF CacheLock
<1>2. Still /\ stack[t] # <<>> /\ Top(t).proc \in {"render", "type3", "purge"} /\ pc \in Pc
  BY DEF CacheLock, At, Still, Pc, FInv, fontVars, storeVars, Draw
<1> QED
  BY <1>1, <1>2, GoesStill

LEMMA StartType3Faces ==
    ASSUME FInv, NEW t \in Threads, StartType3(t)
    PROVE  FInv'
BY GoesStill DEF StartType3, At, Still, Pc, FInv, fontVars, storeVars

LEMMA FinishType3Faces ==
    ASSUME FInv, NEW t \in Threads, FinishType3(t)
    PROVE  FInv'
BY GoesStill DEF FinishType3, At, Still, Pc, FInv, fontVars, storeVars

\* What a frame that is not called for a font leaves on top.
LEMMA QuietBelow ==
    ASSUME NEW p, NEW e, Sits(p, e), p # <<>>, NEW t, NEW O, NEW C
    PROVE  Called(e) = "other" => TopClaim(t, p[Len(p)], O, C) /\ ~KeepsOnTop(p[Len(p)])
BY DEF Sits, Calling, TopClaim, KeepsOnTop

\* The top frame ends, and was not called for a font.
LEMMA ReturnsStill ==
    ASSUME FInv, NEW t \in Threads, stack[t] # <<>>, Still, stack' = Returns(t),
           Top(t).proc # "ft"
    PROVE  FInv'
<1>0. PICK p, e, O, C : p = Popped(stack[t]) /\ e = Top(t) /\ O = owners /\ C = faces
  OBVIOUS
<1>1. Sits(p, e) /\ Called(e) = "other"
  BY <1>0, TopIs DEF Called
<1>2. p # <<>> => TopClaim(t, p[Len(p)], O, C) /\ ~KeepsOnTop(p[Len(p)])
  BY <1>1, QuietBelow
<1>3. stack' = [stack EXCEPT ![t] = Popped(stack[t])]
  BY DEF Returns
<1>4. p # <<>> => TopClaim(t, p[Len(p)], owners, faces)
  BY <1>0, <1>2
<1> QED
  BY <1>0, <1>2, <1>3, <1>4, StillReturns

\* FtUnlock, Relock, CacheUnlock: the top frame ends.
LEMMA FtUnlockFaces ==
    ASSUME FInv, NEW t \in Threads, FtUnlock(t)
    PROVE  FInv'
<1>0. PICK p, e, O, C : p = Popped(stack[t]) /\ e = Top(t) /\ O = owners /\ C = faces
  OBVIOUS
<1>1. /\ stack[t] # <<>> /\ e.proc = "ft" /\ e.pc = "unuser" /\ Still
      /\ stack' = [stack EXCEPT ![t] = Popped(stack[t])]
  BY <1>0 DEF FtUnlock, At, Still, FInv, fontVars, storeVars, Returns
<1>2. Sits(p, e) /\ Claim(t, e, O, C, descs, cached)
  BY <1>0, <1>1, TopIs
<1>3. CASE Called(e) = "other"
  <2>1. p # <<>> => TopClaim(t, p[Len(p)], O, C) /\ ~KeepsOnTop(p[Len(p)])
    BY <1>2, <1>3, QuietBelow
  <2>2. p # <<>> => TopClaim(t, p[Len(p)], owners, faces)
    BY <1>0, <2>1
  <2> QED
    BY <1>0, <1>1, <2>1, <2>2, StillReturns
<1>4. CASE Called(e) # "other"
  <2>1. /\ p # <<>> /\ Calling(p[Len(p)]) = Called(e) /\ p[Len(p)].item = e.item
        /\ Called(e) = e.work /\ e.work \in {"keep", "open", "close"} /\ e.item \in Fonts
    BY <1>1, <1>2, <1>4 DEF Sits, Called, Formed
  <2>2. TopClaim(t, p[Len(p)], O, C)
    BY <1>1, <1>2, <2>1 DEF Claim, Uses, Calling, TopClaim
  <2>3. KeepsOnTop(p[Len(p)]) => Holds(e)
    BY <1>1, <2>1 DEF Calling, KeepsOnTop, Holds, Keeps
  <2>4. TopClaim(t, p[Len(p)], owners, faces)
    BY <1>0, <2>2
  <2> QED
    BY <1>0, <1>1, <2>1, <2>3, <2>4, StillReturns
<1> QED
  BY <1>3, <1>4

LEMMA RelockFaces ==
    ASSUME FInv, NEW t \in Threads, Relock(t)
    PROVE  FInv'
BY ReturnsStill DEF Relock, At, Still, FInv, fontVars, storeVars

LEMMA CacheUnlockFaces ==
    ASSUME FInv, NEW t \in Threads, CacheUnlock(t)
    PROVE  FInv'
<1>1. /\ stack[t] # <<>> /\ Top(t).proc \in {"render", "type3", "purge"} /\ Still
      /\ stack' = Returns(t)
  BY DEF CacheUnlock, At, Still, FInv, fontVars, storeVars, Draw
<1> QED
  BY <1>1, ReturnsStill

-----------------------------------------------------------------------------
(* The frames a step begins, and what they say. *)

\* A frame that says no more of a font than that the thread has a reference.
Plain(g) ==
    /\ g \in Frame /\ Formed(g) /\ Kind(g) = "other" /\ ~Uncaching(g)
    /\ Called(g) = "other" /\ ~Holds(g)
    /\ \A t, O, C : TopClaim(t, g, O, C)
    /\ \A t, O, C, D, K : (Uses(g) => t \in O[g.item]) => Claim(t, g, O, C, D, K)

\* Most frames are plain.
LEMMA PlainIs ==
    ASSUME NEW g \in Frame,
           \/ g.proc = "section" /\ g.work # "drop" /\ g.pc # "last"
           \/ g.proc = "ft" /\ g.work = "none"
           \/ g.proc = "ft" /\ g.work = "use" /\ g.item \in Fonts
           \/ g.proc \in {"purge", "type3", "evict"}
           \/ g.proc = "render" /\ g.item \in Fonts
    PROVE  Plain(g)
<1>1. Formed(g) /\ Called(g) = "other"
  BY DEF Formed, Called
<1>2. ~Sole(g) /\ ~Doomed(g) /\ ~Uncaching(g) /\ ~Holds(g)
      /\ ~(g.proc = "ft" /\ g.work = "close")
  BY DEF Sole, Doomed, Uncaching, Holds, Keeps, KeepsOnTop
<1>3. \A t, O, C : TopClaim(t, g, O, C)
  BY DEF TopClaim
<1> QED
  BY <1>1, <1>2, <1>3 DEF Plain, Kind, Claim

LEMMA PlainFrames ==
    /\ Plain(Malloc) /\ ~Uses(Malloc) /\ Malloc.proc # "type3"
    /\ \A x \in Fonts \cup Others :
          /\ Plain(Section("store", x)) /\ Section("store", x).item = x
          /\ Section("store", x).proc = "section"
    /\ \A x \in Fonts \cup Others \cup {None} :
          Plain(Region("none", x)) /\ ~Uses(Region("none", x)) /\ Region("none", x).proc = "ft"
    /\ \A f \in Fonts :
          Plain(Region("use", f)) /\ Region("use", f).item = f /\ Region("use", f).proc = "ft"
<1>1. "malloc" \in Work /\ "store" \in Work /\ "none" \in Work /\ "use" \in Work
  BY DEF Work
<1>2. Malloc \in Frame /\ Malloc.proc = "section" /\ Malloc.work = "malloc" /\ Malloc.pc = "lock"
  BY MallocStarts DEF Malloc, Section, F
<1>3. ASSUME NEW x \in Fonts \cup Others \cup {None}, NEW w \in Work
      PROVE  /\ Section("store", x) \in Frame
             /\ Section("store", x).proc = "section" /\ Section("store", x).work = "store"
             /\ Section("store", x).pc = "lock" /\ Section("store", x).item = x
             /\ Region(w, x) \in Frame /\ Region(w, x).proc = "ft"
             /\ Region(w, x).work = w /\ Region(w, x).item = x
  BY <1>1, FrameStarts DEF Section, Region, F
<1>4. Plain(Malloc) /\ ~Uses(Malloc) /\ Malloc.proc # "type3"
  BY <1>2, PlainIs DEF Uses
<1>5. ASSUME NEW x \in Fonts \cup Others \cup {None}
      PROVE  /\ Plain(Section("store", x)) /\ Section("store", x).item = x
             /\ Section("store", x).proc = "section"
             /\ Plain(Region("none", x)) /\ ~Uses(Region("none", x)) /\ Region("none", x).proc = "ft"
  <2>1. Plain(Section("store", x))
    BY <1>1, <1>3, PlainIs
  <2>2. Plain(Region("none", x)) /\ ~Uses(Region("none", x))
    BY <1>1, <1>3, PlainIs DEF Uses
  <2> QED
    BY <1>1, <1>3, <2>1, <2>2
<1>6. ASSUME NEW f \in Fonts
      PROVE  Plain(Region("use", f)) /\ Region("use", f).item = f /\ Region("use", f).proc = "ft"
  BY <1>1, <1>3, PlainIs
<1> QED
  BY <1>4, <1>5, <1>6

\* g may be called from e.
LEMMA CalledSits ==
    ASSUME NEW p \in Seq(Frame), NEW e \in Frame, NEW g, Formed(g), g.proc # "type3",
           Calling(e) = Called(g), Called(g) # "other" => e.item = g.item,
           Uncaching(g) => CacheHeld(e)
    PROVE  Sits(Append(p, e), g)
<1>0. PICK s : s = Append(p, e)
  OBVIOUS
<1>1. /\ s \in Seq(Frame) /\ s # <<>> /\ s[Len(s)] = e
      /\ CacheIn(s) <=> CacheIn(p) \/ CacheHeld(e)
  BY <1>0, AppendHolds
<1>2. Sits(s, g)
  BY <1>1 DEF Sits
<1> QED
  BY <1>0, <1>2

\* The top frame goes on as d, and calls g.
LEMMA CallsStill ==
    ASSUME FInv, NEW t \in Threads, stack[t] # <<>>, NEW pc \in Pc, NEW g \in Frame, Still,
           stack' = Calls(t, pc, g),
           NEW e, e = Top(t), NEW d, d = With(Top(t), pc),
           Formed(d), Uncaching(d) => Uncaching(e),
           Formed(g), g.proc # "type3", Calling(d) = Called(g),
           Called(g) # "other" => d.item = g.item, Uncaching(g) => CacheHeld(d),
           Claim(t, d, owners, faces, descs, cached),
           Claim(t, g, owners, faces, descs, cached), TopClaim(t, g, owners, faces),
           Kind(d) = "other" \/ (Kind(g) = "other" /\ Kind(d) = Kind(e)),
           \/ Kind(g) = "other" \/ (Kind(g) = Kind(e) /\ g.item = e.item)
           \/ Free(stack, Kind(g), g.item),
           Keeps(d) => Holds(e) /\ e.item \in Fonts,
           Holds(g) => Holds(e) /\ g.item = e.item /\ e.item \in Fonts
    PROVE  FInv'
<1>0. PICK p : p = Popped(stack[t])
  OBVIOUS
<1>1. /\ e \in Frame /\ d \in Frame /\ p \in Seq(Frame) /\ Sits(p, e)
      /\ stack' = [stack EXCEPT ![t] = Append(Append(Popped(stack[t]), d), g)]
  BY <1>0, TopIs DEF Calls
<1>2. d.proc = e.proc /\ d.pc = pc /\ d.work = e.work /\ d.item = e.item
  BY <1>1, WithIs
<1>3. Sits(p, d)
  BY <1>1, <1>2 DEF Sits, Called
<1>4. Sits(Append(p, d), g)
  BY <1>1, CalledSits
<1>5. Sits(Popped(stack[t]), d) /\ Sits(Append(Popped(stack[t]), d), g)
  BY <1>0, <1>3, <1>4
<1>6. /\ Kind(d) = "other" \/ (Kind(g) = "other" /\ Kind(d) = Kind(Top(t)) /\ d.item = Top(t).item)
      /\ \/ Kind(g) = "other" \/ (Kind(g) = Kind(Top(t)) /\ g.item = Top(t).item)
         \/ Free(stack, Kind(g), g.item)
      /\ Keeps(d) => Holds(Top(t)) /\ d.item = Top(t).item /\ d.item \in Fonts
      /\ Holds(g) => Holds(Top(t)) /\ g.item = Top(t).item /\ g.item \in Fonts
  BY <1>2
<1> QED
  BY <1>1, <1>5, <1>6, StillCalls

\* The top frame goes on as d, says of its font what it did, and calls g.
LEMMA CallsPlain ==
    ASSUME FInv, NEW t \in Threads, stack[t] # <<>>, NEW pc \in Pc, NEW g, Still,
           stack' = Calls(t, pc, g), Plain(g), g.proc # "type3",
           Uses(g) => t \in owners[g.item],
           NEW e, e = Top(t), NEW d, d = With(Top(t), pc),
           Formed(d), Calling(d) = "other",
           ~Uncaching(d), Claim(t, d, owners, faces, descs, cached),
           Kind(d) \in {"other", Kind(e)},
           Keeps(d) => Holds(e) /\ e.item \in Fonts
    PROVE  FInv'
<1>1. g \in Frame
  BY DEF Plain
<1>2. /\ Formed(g) /\ Kind(g) = "other" /\ ~Uncaching(g) /\ Called(g) = "other" /\ ~Holds(g)
      /\ Claim(t, g, owners, faces, descs, cached) /\ TopClaim(t, g, owners, faces)
  BY DEF Plain
<1> QED
  BY <1>1, <1>2, CallsStill

\* FtAlloc to LoadStep: the top frame calls another.
LEMMA FtAllocFaces ==
    ASSUME FInv, NEW t \in Threads, FtAlloc(t)
    PROVE  FInv'
<1>0. PICK e, d, p : e = Top(t) /\ d = With(Top(t), "had") /\ p = Popped(stack[t])
  OBVIOUS
<1>1. /\ stack[t] # <<>> /\ e.proc = "ft" /\ e.pc = "in" /\ "had" \in Pc /\ Still
      /\ stack' = Calls(t, "had", Malloc)
  BY <1>0 DEF FtAlloc, At, Still, FInv, fontVars, storeVars, Pc
<1>2. e \in Frame /\ Sits(p, e) /\ Claim(t, e, owners, faces, descs, cached)
  BY <1>0, <1>1, TopIs
<1>3. d.proc = "ft" /\ d.pc = "had" /\ d.work = e.work /\ d.item = e.item
  BY <1>0, <1>1, <1>2, WithIs
<1>4. /\ Formed(d) /\ Calling(d) = "other" /\ ~Uncaching(d) /\ ~Doomed(d) /\ ~Uncaching(e) /\ ~Doomed(e)
      /\ Sole(d) <=> Sole(e)
      /\ Uses(d) <=> Uses(e)
      /\ Keeps(d) => Keeps(e) /\ e.item \in Fonts
  BY <1>1, <1>2, <1>3 DEF Sits, Formed, Calling, Uncaching, Doomed, Sole, Uses, Keeps
<1>5. Claim(t, d, owners, faces, descs, cached)
  BY <1>1, <1>2, <1>3, <1>4 DEF Claim
<1>6. Kind(d) \in {"other", Kind(e)}
  BY <1>4 DEF Kind
<1>7. Plain(Malloc) /\ ~Uses(Malloc) /\ Malloc.proc # "type3"
  BY PlainFrames
<1> QED
  BY <1>0, <1>1, <1>4, <1>5, <1>6, <1>7, CallsPlain DEF Holds

LEMMA RenderOutlineFaces ==
    ASSUME FInv, NEW t \in Threads, RenderOutline(t)
    PROVE  FInv'
<1>0. PICK e, d, p : e = Top(t) /\ d = With(Top(t), "insert") /\ p = Popped(stack[t])
  OBVIOUS
<1>1. /\ stack[t] # <<>> /\ e.proc = "render" /\ "insert" \in Pc /\ Still
      /\ stack' = Calls(t, "insert", Region("use", e.item))
  BY <1>0 DEF RenderOutline, At, Still, FInv, fontVars, storeVars, Pc
<1>2. e \in Frame /\ Sits(p, e) /\ Claim(t, e, owners, faces, descs, cached)
  BY <1>0, <1>1, TopIs
<1>3. d.proc = "render" /\ d.item = e.item
  BY <1>0, <1>1, <1>2, WithIs
<1>4. e.item \in Fonts /\ t \in owners[e.item]
  BY <1>1, <1>2 DEF Sits, Formed, Claim, Uses
<1>5. /\ Formed(d) /\ Calling(d) = "other" /\ ~Uncaching(d) /\ Kind(d) = "other" /\ ~Keeps(d)
      /\ ~Sole(d) /\ ~Doomed(d)
  BY <1>3, <1>4 DEF Formed, Calling, Uncaching, Doomed, Sole, Keeps, Kind
<1>6. Claim(t, d, owners, faces, descs, cached)
  BY <1>3, <1>4, <1>5 DEF Claim
<1>7. PICK g : g = Region("use", e.item)
  OBVIOUS
<1>8. Plain(g) /\ g.item = e.item /\ g.proc = "ft"
  BY <1>4, <1>7, PlainFrames
<1> QED
  BY <1>0, <1>1, <1>4, <1>5, <1>6, <1>7, <1>8, CallsPlain

LEMMA NewEntryFaces ==
    ASSUME FInv, NEW t \in Threads, NewEntry(t)
    PROVE  FInv'
<1>0. PICK e, d, p : e = Top(t) /\ d = With(Top(t), "entry") /\ p = Popped(stack[t])
  OBVIOUS
<1>1. /\ stack[t] # <<>> /\ e.proc \in {"render", "type3"} /\ "entry" \in Pc /\ Still
      /\ stack' = Calls(t, "entry", Malloc)
  BY <1>0 DEF NewEntry, At, Still, FInv, fontVars, storeVars, Pc, Draw
<1>2. e \in Frame /\ Sits(p, e) /\ Claim(t, e, owners, faces, descs, cached)
  BY <1>0, <1>1, TopIs
<1>3. d.proc = e.proc /\ d.item = e.item
  BY <1>0, <1>1, <1>2, WithIs
<1>4. /\ Formed(d) /\ Calling(d) = "other" /\ ~Uncaching(d) /\ Kind(d) = "other" /\ ~Keeps(d)
      /\ ~Sole(d) /\ ~Doomed(d)
      /\ Uses(d) <=> Uses(e)
  BY <1>1, <1>2, <1>3 DEF Sits, Formed, Calling, Uncaching, Doomed, Sole, Keeps, Kind, Uses
<1>5. Claim(t, d, owners, faces, descs, cached)
  BY <1>1, <1>2, <1>3, <1>4 DEF Claim
<1>6. Plain(Malloc) /\ ~Uses(Malloc) /\ Malloc.proc # "type3"
  BY PlainFrames
<1> QED
  BY <1>0, <1>1, <1>4, <1>5, <1>6, CallsPlain

\* There is one thread in the glyph cache, so one entry at most is being dropped.
LEMMA DropsOnce ==
    ASSUME FInv, IInv, NEW t \in Threads, stack[t] # <<>>,
           Top(t).proc \in {"render", "type3", "purge"}, Top(t).pc \notin {"lock", "run"}, NEW f
    PROVE  Free(stack, "uncaching", f)
<1>1. holder[GLYPHCACHE] = t /\ ~CacheIn(Popped(stack[t]))
  BY InvTop
<1> SUFFICES ASSUME NEW u \in Threads, NEW i \in 1 .. Len(stack[u]), Kind(stack[u][i]) = "uncaching"
             PROVE  FALSE
  BY DEF Free
<1>2. Uncaching(stack[u][i])
  BY DEF Kind
<1>3. stack \in [Threads -> Seq(Frame)] /\ SitsAt(stack[u], i)
  BY DEF FInv, Base, Shaped
<1>4. PICK j \in 1 .. i - 1 : CacheHeld(stack[u][j])
  BY <1>2, <1>3 DEF SitsAt
<1>5. Len(stack[u]) \in Nat /\ j \in 1 .. Len(stack[u]) /\ j < i
  BY <1>3, <1>4
<1>6. u = t
  <2>1. CacheIn(stack[u]) /\ Ready(u, stack[u], holder, user)
    BY <1>4, <1>5 DEF CacheIn, IInv
  <2> QED
    BY <1>1, <2>1 DEF Ready
<1>7. i # Len(stack[t])
  BY <1>2, <1>6 DEF Uncaching, Top
<1>8. PICK p : p = Popped(stack[t])
  OBVIOUS
<1>9. p \in Seq(Frame) /\ stack[t] = Append(p, Top(t)) /\ Top(t) \in Frame
  BY <1>8, TopIs
<1>10. Len(stack[t]) = Len(p) + 1 /\ Len(p) \in Nat /\ \A k \in 1 .. Len(p) : stack[t][k] = p[k]
  BY <1>9, AppendProperties
<1>11. j \in 1 .. Len(p) /\ CacheHeld(p[j])
  BY <1>4, <1>5, <1>6, <1>7, <1>10
<1> QED
  BY <1>1, <1>8, <1>11 DEF CacheIn

LEMMA DropEntryFaces ==
    ASSUME FInv, IInv, NEW t \in Threads, NEW f \in Fonts, DropEntry(t, f)
    PROVE  FInv'
<1>0. PICK e, d, p, g :
         e = Top(t) /\ d = With(Top(t), "drop") /\ p = Popped(stack[t]) /\ g = DropFont("use", f)
  OBVIOUS
<1>1. /\ stack[t] # <<>> /\ e.proc \in {"render", "type3", "purge"} /\ e.pc = "drop" /\ "drop" \in Pc
      /\ Still /\ f \in cached /\ stack' = Calls(t, "drop", g)
  BY <1>0 DEF DropEntry, At, Still, FInv, fontVars, storeVars, Pc, Draw
<1>2. e \in Frame /\ Sits(p, e) /\ Claim(t, e, owners, faces, descs, cached)
  BY <1>0, <1>1, TopIs
<1>3. d.proc = e.proc /\ d.item = e.item /\ d.pc = "drop"
  BY <1>0, <1>1, <1>2, WithIs
<1>4. /\ Formed(d) /\ Calling(d) = "other" /\ ~Uncaching(d) /\ Kind(d) = "other" /\ ~Keeps(d)
      /\ ~Sole(d) /\ ~Doomed(d) /\ CacheHeld(d)
      /\ Uses(d) <=> Uses(e)
  BY <1>1, <1>2, <1>3
     DEF Sits, Formed, Calling, Uncaching, Doomed, Sole, Keeps, Kind, Uses, CacheHeld, Draw
<1>5. Claim(t, d, owners, faces, descs, cached)
  BY <1>1, <1>2, <1>3, <1>4 DEF Claim
<1>6. g \in Frame /\ g.proc = "dropfont" /\ g.pc = "unref" /\ g.work = "use" /\ g.item = f
  BY <1>0, FrameStarts DEF DropFont, F, Work
<1>7. /\ Formed(g) /\ Called(g) = "other" /\ Kind(g) = "uncaching" /\ ~Holds(g)
      /\ ~Sole(g) /\ ~Doomed(g) /\ ~Uses(g)
      /\ TopClaim(t, g, owners, faces)
  BY <1>6 DEF Formed, Called, Kind, Holds, Keeps, KeepsOnTop, Sole, Doomed, Uncaching, Uses, TopClaim
<1>8. Claim(t, g, owners, faces, descs, cached)
  BY <1>1, <1>6, <1>7 DEF Claim
<1>9. Free(stack, Kind(g), g.item)
  BY <1>0, <1>1, <1>6, <1>7, DropsOnce
<1> QED
  BY <1>0, <1>1, <1>4, <1>5, <1>6, <1>7, <1>8, <1>9, CallsStill

LEMMA DropFreetypeFaces ==
    ASSUME FInv, NEW t \in Threads, DropFreetype(t)
    PROVE  FInv'
<1>0. PICK e, p, g : e = Top(t) /\ p = Popped(stack[t]) /\ g = Region("unkeep", Top(t).item)
  OBVIOUS
<1>1. /\ stack[t] # <<>> /\ e.proc \in {"dropfont", "load"} /\ e.pc = "unkeep" /\ Still
      /\ stack' = [stack EXCEPT ![t] = Append(Popped(stack[t]), g)]
  BY <1>0 DEF DropFreetype, At, Still, FInv, fontVars, storeVars, Becomes
<1>2. /\ e \in Frame /\ Sits(p, e) /\ Claim(t, e, owners, faces, descs, cached)
      /\ TopClaim(t, e, owners, faces)
  BY <1>0, <1>1, TopIs
<1>3. e.item \in Fonts
  BY <1>1, <1>2 DEF Sits, Formed
<1>4. g \in Frame /\ g.proc = "ft" /\ g.pc = "lock" /\ g.work = "unkeep" /\ g.item = e.item
  BY <1>0, <1>3, FrameStarts DEF Region, F, Work
<1>5. Sole(e) /\ Sole(g) /\ ~Doomed(g) /\ ~Uncaching(g) /\ ~Uses(g) /\ Keeps(e) /\ Keeps(g)
      /\ Called(e) = "other" /\ Called(g) = "other" /\ Formed(g) /\ TopClaim(t, g, owners, faces)
  BY <1>1, <1>3, <1>4 DEF Sole, Doomed, Uncaching, Uses, Keeps, Called, Formed, TopClaim
<1>6. Claim(t, g, owners, faces, descs, cached)
  BY <1>1, <1>2, <1>4, <1>5 DEF Claim, TopClaim
<1>7. Sits(p, g)
  BY <1>2, <1>4, <1>5 DEF Sits
<1>8. Kind(g) = Kind(e)
  BY <1>5 DEF Kind
<1> QED
  BY <1>0, <1>1, <1>3, <1>4, <1>5, <1>6, <1>7, <1>8, StillTop DEF Holds

\* The top frame becomes one that says no more than that there is a reference.
LEMMA BecomesPlain ==
    ASSUME FInv, NEW t \in Threads, stack[t] # <<>>, NEW g, Still, Plain(g),
           stack' = Becomes(t, g), g.proc # "type3",
           Uses(g) => t \in owners[g.item], Called(Top(t)) = "other"
    PROVE  FInv'
<1>0. PICK e, p : e = Top(t) /\ p = Popped(stack[t])
  OBVIOUS
<1>1. Sits(p, e)
  BY <1>0, TopIs
<1>2. /\ g \in Frame /\ Formed(g) /\ Kind(g) = "other" /\ ~Uncaching(g) /\ Called(g) = "other" /\ ~Holds(g)
      /\ Claim(t, g, owners, faces, descs, cached) /\ TopClaim(t, g, owners, faces)
  BY DEF Plain
<1>3. Sits(p, g)
  BY <1>0, <1>1, <1>2 DEF Sits
<1>4. stack' = [stack EXCEPT ![t] = Append(Popped(stack[t]), g)]
  BY DEF Becomes
<1> QED
  BY <1>0, <1>2, <1>3, <1>4, StillTop

LEMMA LoadStepFaces ==
    ASSUME FInv, NEW t \in Threads, LoadStep(t)
    PROVE  FInv'
<1>0. PICK e, p, f : e = Top(t) /\ p = Popped(stack[t]) /\ f = Top(t).item
  OBVIOUS
<1>1. /\ stack[t] # <<>> /\ e.proc = "load" /\ Still
  BY <1>0 DEF LoadStep, At, Still, FInv, fontVars, storeVars
<1>2. /\ e \in Frame /\ Sits(p, e) /\ Claim(t, e, owners, faces, descs, cached)
      /\ TopClaim(t, e, owners, faces)
  BY <1>0, <1>1, TopIs
<1>3. f \in Fonts /\ Called(e) = "other" /\ ~Uncaching(e) /\ ~Doomed(e)
  BY <1>0, <1>1, <1>2 DEF Sits, Formed, Called, Uncaching, Doomed
<1>4. CASE e.pc = "keep" /\ stack' = Calls(t, "open", Region("keep", f))
  <2>0. PICK d, g : d = With(Top(t), "open") /\ g = Region("keep", f)
    OBVIOUS
  <2>1. "open" \in Pc /\ d.proc = "load" /\ d.pc = "open" /\ d.item = f
    BY <1>0, <1>1, <1>2, <2>0, WithIs DEF Pc
  <2>2. g \in Frame /\ g.proc = "ft" /\ g.work = "keep" /\ g.pc = "lock" /\ g.item = f
    BY <1>3, <2>0, FrameStarts DEF Region, F, Work
  <2>3. /\ Formed(d) /\ ~Uncaching(d) /\ ~Doomed(d) /\ ~Uses(d) /\ Sole(d) /\ Sole(e) /\ ~Keeps(d)
        /\ Calling(d) = "keep"
    BY <1>1, <1>3, <1>4, <2>1 DEF Formed, Uncaching, Doomed, Uses, Sole, Keeps, Calling
  <2>4. /\ Formed(g) /\ ~Uncaching(g) /\ ~Doomed(g) /\ ~Uses(g) /\ ~Sole(g) /\ ~Holds(g)
        /\ Called(g) = "keep" /\ TopClaim(t, g, owners, faces)
    BY <1>3, <2>2 DEF Formed, Uncaching, Doomed, Uses, Sole, Keeps, KeepsOnTop, Holds, Called, TopClaim
  <2>5. Claim(t, d, owners, faces, descs, cached) /\ Claim(t, g, owners, faces, descs, cached)
    BY <1>0, <1>1, <1>2, <2>1, <2>2, <2>3, <2>4 DEF Claim
  <2>6. Kind(d) = Kind(e) /\ Kind(g) = "other"
    BY <2>3, <2>4 DEF Kind
  <2> QED
    BY <1>0, <1>1, <1>4, <2>0, <2>1, <2>2, <2>3, <2>4, <2>5, <2>6, CallsStill
<1>5. CASE e.pc = "open" /\ stack' = Calls(t, "store", Region("open", f))
  <2>0. PICK d, g : d = With(Top(t), "store") /\ g = Region("open", f)
    OBVIOUS
  <2>1. "store" \in Pc /\ d.proc = "load" /\ d.pc = "store" /\ d.item = f
    BY <1>0, <1>1, <1>2, <2>0, WithIs DEF Pc
  <2>2. g \in Frame /\ g.proc = "ft" /\ g.work = "open" /\ g.pc = "lock" /\ g.item = f
    BY <1>3, <2>0, FrameStarts DEF Region, F, Work
  <2>3. /\ Formed(d) /\ ~Uncaching(d) /\ ~Doomed(d) /\ ~Uses(d) /\ ~Sole(d) /\ Sole(e) /\ ~Keeps(d)
        /\ Calling(d) = "open" /\ KeepsOnTop(e)
    BY <1>1, <1>3, <1>5, <2>1 DEF Formed, Uncaching, Doomed, Uses, Sole, Keeps, KeepsOnTop, Calling
  <2>4. /\ Formed(g) /\ ~Uncaching(g) /\ ~Doomed(g) /\ ~Uses(g) /\ Sole(g)
        /\ Called(g) = "open" /\ TopClaim(t, g, owners, faces)
    BY <1>3, <2>2 DEF Formed, Uncaching, Doomed, Uses, Sole, Called, TopClaim
  <2>5. Claim(t, d, owners, faces, descs, cached)
    BY <1>0, <1>1, <1>2, <2>1, <2>3 DEF Claim
  <2>6. Claim(t, g, owners, faces, descs, cached)
    BY <1>0, <1>1, <1>2, <2>2, <2>3, <2>4 DEF Claim
  <2>7. Kind(d) = "other" /\ Kind(g) = Kind(e)
    BY <2>3, <2>4 DEF Kind
  <2> QED
    BY <1>0, <1>1, <1>3, <1>5, <2>0, <2>1, <2>2, <2>3, <2>4, <2>5, <2>6, <2>7, CallsStill DEF Holds
<1>6. CASE e.pc = "open" /\ stack' = Calls(t, "unkeep", Region("none", f))
  <2>0. PICK d, g : d = With(Top(t), "unkeep") /\ g = Region("none", f)
    OBVIOUS
  <2>1. "unkeep" \in Pc /\ d.proc = "load" /\ d.pc = "unkeep" /\ d.item = f
    BY <1>0, <1>1, <1>2, <2>0, WithIs DEF Pc
  <2>2. Plain(g) /\ ~Uses(g) /\ g.proc # "type3"
    BY <1>3, <2>0, PlainFrames
  <2>3. /\ Formed(d) /\ ~Uncaching(d) /\ ~Doomed(d) /\ ~Uses(d) /\ Sole(d) /\ Sole(e)
        /\ Calling(d) = "other" /\ KeepsOnTop(e)
    BY <1>1, <1>3, <1>6, <2>1 DEF Formed, Uncaching, Doomed, Uses, Sole, KeepsOnTop, Calling
  <2>4. Claim(t, d, owners, faces, descs, cached)
    BY <1>0, <1>1, <1>2, <2>1, <2>3 DEF Claim
  <2>5. Kind(d) = Kind(e)
    BY <2>3 DEF Kind
  <2> QED
    BY <1>0, <1>1, <1>3, <1>6, <2>0, <2>1, <2>2, <2>3, <2>4, <2>5, CallsPlain DEF Holds
<1>7. CASE e.pc = "store" /\ stack' = Calls(t, "item", Malloc)
  <2>0. PICK d : d = With(Top(t), "item")
    OBVIOUS
  <2>1. "item" \in Pc /\ d.proc = "load" /\ d.pc = "item" /\ d.item = f
    BY <1>0, <1>1, <1>2, <2>0, WithIs DEF Pc
  <2>2. Plain(Malloc) /\ ~Uses(Malloc) /\ Malloc.proc # "type3"
    BY PlainFrames
  <2>3. /\ Formed(d) /\ ~Uncaching(d) /\ ~Doomed(d) /\ ~Sole(d) /\ ~Keeps(d) /\ Calling(d) = "other"
    BY <1>3, <2>1 DEF Formed, Uncaching, Doomed, Sole, Keeps, Calling
  <2>4. Claim(t, d, owners, faces, descs, cached)
    BY <1>0, <1>1, <1>2, <1>7, <2>1, <2>3 DEF Claim, TopClaim
  <2>5. Kind(d) = "other"
    BY <2>3 DEF Kind
  <2> QED
    BY <1>0, <1>1, <1>7, <2>0, <2>1, <2>2, <2>3, <2>4, <2>5, CallsPlain
<1>8. CASE stack' = Becomes(t, Region("none", f))
  <2>1. PICK g : g = Region("none", f)
    OBVIOUS
  <2>2. Plain(g) /\ ~Uses(g) /\ g.proc # "type3"
    BY <1>3, <2>1, PlainFrames
  <2> QED
    BY <1>0, <1>1, <1>3, <1>8, <2>1, <2>2, BecomesPlain
<1>9. CASE e.pc = "item" /\ stack' = Becomes(t, Section("store", f))
  <2>1. PICK g : g = Section("store", f)
    OBVIOUS
  <2>2. Plain(g) /\ g.item = f /\ g.proc # "type3"
    BY <1>3, <2>1, PlainFrames
  <2>3. t \in owners[f]
    BY <1>0, <1>1, <1>2, <1>9 DEF Claim, Uses
  <2> QED
    BY <1>0, <1>1, <1>3, <1>9, <2>1, <2>2, <2>3, BecomesPlain
<1>10. CASE stack' = Returns(t)
  BY <1>0, <1>1, <1>10, ReturnsStill
<1>11. \/ e.pc = "keep" /\ stack' = Calls(t, "open", Region("keep", f))
       \/ stack' = Becomes(t, Region("none", f))
       \/ e.pc = "open" /\ stack' = Calls(t, "store", Region("open", f))
       \/ e.pc = "open" /\ stack' = Calls(t, "unkeep", Region("none", f))
       \/ e.pc = "store" /\ stack' = Calls(t, "item", Malloc)
       \/ e.pc = "item" /\ stack' = Becomes(t, Section("store", f))
       \/ stack' = Returns(t)
  BY <1>0 DEF LoadStep, At
<1> QED
  BY <1>4, <1>5, <1>6, <1>7, <1>8, <1>9, <1>10, <1>11

\* A thread that may call has type 3 glyphs on its stack and nothing else.
LEMMA CallerIs ==
    ASSUME FInv, NEW t \in Threads, CanCall(t)
    PROVE  /\ stack[t] \in Seq(Frame)
           /\ \A i \in 1 .. Len(stack[t]) : stack[t][i].proc = "type3"
<1>1. stack[t] \in Seq(Frame) /\ Shaped(stack[t])
  BY DEF FInv, Base
<1>2. CASE stack[t] = <<>>
  BY <1>1, <1>2
<1>3. CASE stack[t] # <<>> /\ Top(t).proc = "type3"
  <2>1. PICK n : n = Len(stack[t])
    OBVIOUS
  <2>2. n \in Nat /\ n \in 1 .. n /\ SitsAt(stack[t], n) /\ stack[t][n].proc = "type3"
    BY <1>1, <1>3, <2>1 DEF Shaped, Top
  <2>3. \A i \in 1 .. n - 1 : stack[t][i].proc = "type3"
    BY <2>2 DEF SitsAt
  <2> QED
    BY <1>1, <2>1, <2>2, <2>3
<1> QED
  BY <1>1, <1>2, <1>3 DEF CanCall, At

\* It may call any frame that is not called for a font.
LEMMA EnterSits ==
    ASSUME FInv, NEW t \in Threads, CanCall(t), NEW g, Formed(g), Called(g) = "other", ~Uncaching(g)
    PROVE  Sits(stack[t], g)
<1>1. PICK s : s = stack[t]
  OBVIOUS
<1>2. s \in Seq(Frame) /\ \A i \in 1 .. Len(s) : s[i].proc = "type3"
  BY <1>1, CallerIs
<1>3. s # <<>> => Calling(s[Len(s)]) = "other"
  BY <1>2 DEF Calling
<1>4. Sits(s, g)
  BY <1>2, <1>3 DEF Sits
<1> QED
  BY <1>1, <1>4

LEMMA EntersPlain ==
    ASSUME FInv, NEW t \in Threads, NEW g, Plain(g), Call(t, g), Uses(g) => t \in owners[g.item]
    PROVE  FInv'
<1>1. CanCall(t) /\ Still /\ stack' = [stack EXCEPT ![t] = Append(stack[t], g)]
  BY DEF Call, Still, FInv, fontVars, storeVars
<1>2. /\ g \in Frame /\ Formed(g) /\ Kind(g) = "other" /\ ~Uncaching(g) /\ Called(g) = "other" /\ ~Holds(g)
      /\ Claim(t, g, owners, faces, descs, cached) /\ TopClaim(t, g, owners, faces)
  BY DEF Plain
<1>3. Sits(stack[t], g)
  BY <1>1, <1>2, EnterSits
<1> QED
  BY <1>1, <1>2, <1>3, StillEnters

LEMMA LoadFaces ==
    ASSUME FInv, NEW t \in Threads, NEW f \in Fonts, Fresh(f), Call(t, F("load", "keep", "open", f))
    PROVE  FInv'
<1>0. PICK g : g = F("load", "keep", "open", f)
  OBVIOUS
<1>1. CanCall(t) /\ Still /\ stack' = [stack EXCEPT ![t] = Append(stack[t], g)]
  BY <1>0 DEF Call, Still, FInv, fontVars, storeVars
<1>2. g \in Frame /\ g.proc = "load" /\ g.pc = "keep" /\ g.item = f
  <2>1. "load" \in Proc /\ "keep" \in Pc /\ "open" \in Work
    BY DEF Proc, Pc, Work
  <2>2. g \in Frame
    BY <1>0, <2>1, FrameTypes
  <2> QED
    BY <1>0, <2>2 DEF F
<1>3. /\ Formed(g) /\ Called(g) = "other" /\ ~Uncaching(g) /\ ~Doomed(g) /\ ~Uses(g) /\ Sole(g) /\ ~Holds(g)
      /\ TopClaim(t, g, owners, faces)
  BY <1>2 DEF Formed, Called, Uncaching, Doomed, Uses, Sole, Keeps, KeepsOnTop, Holds, TopClaim
<1>4. Claim(t, g, owners, faces, descs, cached)
  BY <1>2, <1>3 DEF Claim, Fresh
<1>5. Free(stack, Kind(g), g.item)
  <2>1. stack \in [Threads -> Seq(Frame)]
    BY DEF FInv, Base
  <2>2. \A u \in Threads : \A i \in 1 .. Len(stack[u]) : stack[u][i].item # f
    BY <2>1 DEF Fresh, Mentioned
  <2> QED
    BY <1>2, <2>2 DEF Free
<1>6. Sits(stack[t], g)
  BY <1>1, <1>3, EnterSits
<1> QED
  BY <1>1, <1>2, <1>3, <1>4, <1>5, <1>6, StillEnters

LEMMA BeginFaces ==
    ASSUME FInv, NEW t \in Threads, Begin(t)
    PROVE  FInv'
<1>1. ASSUME NEW f \in Fonts, Fresh(f), Call(t, F("load", "keep", "open", f))
      PROVE  FInv'
  BY <1>1, LoadFaces
<1>2. ASSUME NEW proc \in {"purge", "type3"}, NEW work \in {"none", "use"}, Call(t, F(proc, "lock", work, None))
      PROVE  FInv'
  <2>1. PICK g : g = F(proc, "lock", work, None)
    OBVIOUS
  <2>2. g \in Frame /\ g.proc = proc
    <3>1. proc \in Proc /\ "lock" \in Pc /\ work \in Work
      BY DEF Proc, Pc, Work
    <3>2. g \in Frame
      BY <2>1, <3>1, FrameTypes
    <3> QED
      BY <2>1, <3>2 DEF F
  <2>3. Plain(g) /\ ~Uses(g)
    BY <2>2, PlainIs DEF Uses
  <2> QED
    BY <1>2, <2>1, <2>3, EntersPlain
<1>3. ASSUME NEW f \in Fonts, t \in owners[f], Call(t, F("render", "lock", "use", f))
      PROVE  FInv'
  <2>1. PICK g : g = F("render", "lock", "use", f)
    OBVIOUS
  <2>2. g \in Frame /\ g.proc = "render" /\ g.item = f
    BY <2>1, FrameTypes DEF F, Proc, Pc, Work
  <2>3. Plain(g)
    BY <2>2, PlainIs
  <2> QED
    BY <1>3, <2>1, <2>2, <2>3, EntersPlain
<1>4. ASSUME NEW f \in Fonts, t \in owners[f], Call(t, Region("use", f))
      PROVE  FInv'
  <2>1. PICK g : g = Region("use", f)
    OBVIOUS
  <2>2. Plain(g) /\ g.item = f
    BY <2>1, PlainFrames
  <2> QED
    BY <1>4, <2>1, <2>2, EntersPlain
<1>5. ASSUME NEW x \in Others, Call(t, Section("store", x))
      PROVE  FInv'
  <2>1. PICK g : g = Section("store", x)
    OBVIOUS
  <2>2. Plain(g) /\ g.item = x /\ g.proc = "section"
    BY <2>1, PlainFrames
  <2>3. ~Uses(g)
    BY <2>2, LocksAssumption DEF Uses
  <2> QED
    BY <1>5, <2>1, <2>2, <2>3, EntersPlain
<1>6. ASSUME NEW g \in {Malloc, Region("none", None)}, Call(t, g)
      PROVE  FInv'
  <2>1. Plain(g) /\ ~Uses(g)
    BY PlainFrames
  <2> QED
    BY <1>6, <2>1, EntersPlain
<1> QED
  BY <1>1, <1>2, <1>3, <1>4, <1>5, <1>6 DEF Begin

-----------------------------------------------------------------------------
(* Steps that change what is known of one font. *)

OnlyAt(f, O, C, D, K, O2, C2, D2, K2) ==
    \A y \in Fonts \ {f} :
        /\ O2[y] = O[y]
        /\ y \in C2 <=> y \in C
        /\ y \in D2 <=> y \in D
        /\ y \in K2 <=> y \in K

\* What a frame says of another font stays.
LEMMA ApartClaim ==
    ASSUME NEW O, NEW C, NEW D, NEW K, NEW O2, NEW C2, NEW D2, NEW K2,
           World(O, C, D, K), NEW f, OnlyAt(f, O, C, D, K, O2, C2, D2, K2),
           NEW u, NEW x, Formed(x), Claim(u, x, O, C, D, K), x.item # f
    PROVE  Claim(u, x, O2, C2, D2, K2)
<1>1. x.item \in Fonts =>
         /\ O2[x.item] = O[x.item]
         /\ x.item \in C2 <=> x.item \in C
         /\ x.item \in D2 <=> x.item \in D
         /\ x.item \in K2 <=> x.item \in K
  BY DEF OnlyAt
<1>2. /\ Sole(x) \/ Uses(x) \/ Uncaching(x) => x.item \in Fonts
      /\ x.proc = "ft" /\ x.work = "close" => x.item \in Fonts
  BY DEF Formed, Sole, Uses, Uncaching
<1>3. Doomed(x) => x.item \in Fonts
  BY DEF Claim, World
<1> QED
  BY <1>1, <1>2, <1>3 DEF Claim

\* Every frame of a shaped stack is formed.
LEMMA ShapedFormed ==
    ASSUME NEW S \in [Threads -> Seq(Frame)], \A t \in Threads : Shaped(S[t])
    PROVE  \A u \in Threads : \A i \in 1 .. Len(S[u]) : Formed(S[u][i])
BY DEF Shaped, SitsAt

\* A change that is about f is to be checked for the frames with f only.
LEMMA VarsBase ==
    ASSUME NEW S, NEW O, NEW C, NEW D, NEW K, NEW O2, NEW C2, NEW D2, NEW K2,
           Base(S, O, C, D, K), World(O2, C2, D2, K2),
           NEW f, OnlyAt(f, O, C, D, K, O2, C2, D2, K2),
           \A u \in Threads : \A i \in 1 .. Len(S[u]) :
              S[u][i].item = f => Claim(u, S[u][i], O2, C2, D2, K2)
    PROVE  Base(S, O2, C2, D2, K2)
<1>1. \A u \in Threads : \A i \in 1 .. Len(S[u]) : Formed(S[u][i])
  BY ShapedFormed DEF Base
<1>2. ASSUME NEW u \in Threads, NEW i \in 1 .. Len(S[u]) PROVE Claim(u, S[u][i], O2, C2, D2, K2)
  <2>1. PICK x : x = S[u][i]
    OBVIOUS
  <2>2. Formed(x) /\ Claim(u, x, O, C, D, K) /\ World(O, C, D, K)
    BY <1>1, <2>1 DEF Base
  <2>3. x.item # f => Claim(u, x, O2, C2, D2, K2)
    BY <2>2, ApartClaim
  <2>4. x.item = f => Claim(u, x, O2, C2, D2, K2)
    BY <2>1
  <2> QED
    BY <2>1, <2>3, <2>4
<1> QED
  BY <1>2 DEF Base

LEMMA VarsTop ==
    ASSUME NEW O, NEW C, NEW D, NEW K, NEW O2, NEW C2, NEW D2, NEW K2,
           NEW f, OnlyAt(f, O, C, D, K, O2, C2, D2, K2),
           NEW u, NEW x, Formed(x), TopClaim(u, x, O, C), x.item # f
    PROVE  TopClaim(u, x, O2, C2)
BY DEF OnlyAt, Formed, TopClaim

\* The change of the variables, and what it leaves for the others to say.
Changed(f, t) ==
    /\ World(owners', faces', descs', cached')
    /\ OnlyAt(f, owners, faces, descs, cached, owners', faces', descs', cached')
    /\ \A u \in Threads : \A i \in 1 .. Len(Cut(stack, t)[u]) :
          Cut(stack, t)[u][i].item = f =>
             Claim(u, Cut(stack, t)[u][i], owners', faces', descs', cached')
    /\ \A u \in Threads \ {t} :
          stack[u] # <<>> /\ stack[u][Len(stack[u])].item = f =>
             TopClaim(u, stack[u][Len(stack[u])], owners', faces')
    /\ others' \subseteq Others /\ scavenging' \in BOOLEAN

LEMMA ChangedBase ==
    ASSUME FInv, NEW t \in Threads, stack[t] # <<>>, NEW f, Changed(f, t)
    PROVE  /\ Base(Cut(stack, t), owners', faces', descs', cached')
           /\ \A u \in Threads \ {t} :
                 stack[u] # <<>> => TopClaim(u, stack[u][Len(stack[u])], owners', faces')
<1>0. PICK S, T, O, C, D, K, O2, C2, D2, K2 :
         /\ S = stack /\ T = Cut(stack, t) /\ O = owners /\ C = faces /\ D = descs /\ K = cached
         /\ O2 = owners' /\ C2 = faces' /\ D2 = descs' /\ K2 = cached'
  OBVIOUS
<1>1. Base(T, O, C, D, K) /\ S \in [Threads -> Seq(Frame)]
  BY <1>0, TopIs
<1>2. /\ World(O2, C2, D2, K2) /\ OnlyAt(f, O, C, D, K, O2, C2, D2, K2)
      /\ \A u \in Threads : \A i \in 1 .. Len(T[u]) :
            T[u][i].item = f => Claim(u, T[u][i], O2, C2, D2, K2)
      /\ \A u \in Threads \ {t} :
            S[u] # <<>> /\ S[u][Len(S[u])].item = f => TopClaim(u, S[u][Len(S[u])], O2, C2)
  BY <1>0 DEF Changed
<1>3. Base(T, O2, C2, D2, K2)
  BY <1>1, <1>2, VarsBase
<1>4. ASSUME NEW u \in Threads \ {t}, S[u] # <<>> PROVE TopClaim(u, S[u][Len(S[u])], O2, C2)
  <2>1. PICK x : x = S[u][Len(S[u])]
    OBVIOUS
  <2>2. Formed(x) /\ TopClaim(u, x, O, C)
    <3>1. \A v \in Threads : \A i \in 1 .. Len(S[v]) : Formed(S[v][i])
      BY <1>0, ShapedFormed DEF FInv, Base
    <3>2. Len(S[u]) \in 1 .. Len(S[u])
      BY <1>1, <1>4
    <3> QED
      BY <1>0, <1>4, <2>1, <3>1, <3>2 DEF FInv, Tops
  <2>3. x.item # f => TopClaim(u, x, O2, C2)
    BY <1>2, <2>2, VarsTop
  <2> QED
    BY <1>2, <1>4, <2>1, <2>3
<1> QED
  BY <1>0, <1>3, <1>4

\* The top frame becomes g.
LEMMA TopMoves ==
    ASSUME FInv, NEW t \in Threads, stack[t] # <<>>, NEW f, Changed(f, t), NEW g \in Frame,
           stack' = [stack EXCEPT ![t] = Append(Popped(stack[t]), g)],
           Sits(Popped(stack[t]), g),
           Claim(t, g, owners', faces', descs', cached'), TopClaim(t, g, owners', faces'),
           Kind(g) = "other" \/ (Kind(g) = Kind(Top(t)) /\ g.item = Top(t).item),
           lib' \in Int, lib' >= Cardinality(Kept(stack', faces'))
    PROVE  FInv'
<1>0. PICK S, T, O2, C2, D2, K2, p, s :
         /\ S = stack /\ T = Cut(stack, t)
         /\ O2 = owners' /\ C2 = faces' /\ D2 = descs' /\ K2 = cached'
         /\ p = Popped(stack[t]) /\ s = Append(Popped(stack[t]), g)
  OBVIOUS
<1>1. /\ S \in [Threads -> Seq(Frame)] /\ T \in [Threads -> Seq(Frame)]
      /\ T[t] = p /\ T = Cut(S, t) /\ p \in Seq(Frame)
      /\ Kind(g) = "other" \/ Free(T, Kind(g), g.item)
  BY <1>0, TopIs
<1>2. /\ Base(T, O2, C2, D2, K2)
      /\ \A u \in Threads \ {t} :
            stack[u] # <<>> => TopClaim(u, stack[u][Len(stack[u])], owners', faces')
  BY <1>0, ChangedBase
<1>3. s \in Seq(Frame) /\ s # <<>> /\ s[Len(s)] = g
  <2>1. p \in Seq(Frame) /\ s = Append(p, g)
    BY <1>0, <1>1
  <2> QED
    BY <2>1, AppendTop
<1>4. stack' = Grown(T, t, g) /\ stack' = [stack EXCEPT ![t] = s]
  <2>0. /\ s = Append(Popped(S[t]), g) /\ S \in [Threads -> Seq(Frame)]
    BY <1>0, <1>1
  <2>1. Topped(S, t, g) = [S EXCEPT ![t] = s]
    BY ONLY <2>0, t \in Threads, g \in Frame, ToppedIs
  <2> QED
    BY <1>0, <1>1, <2>1 DEF Topped
<1>5. Base(Grown(T, t, g), O2, C2, D2, K2)
  <2>1. Sits(T[t], g) /\ Claim(t, g, O2, C2, D2, K2)
    BY <1>0, <1>1
  <2> QED
    BY <1>1, <1>2, <2>1, PushBase
<1>6. Base(stack', owners', faces', descs', cached')
  BY <1>0, <1>4, <1>5
<1>7. others' \subseteq Others /\ scavenging' \in BOOLEAN
  BY DEF Changed
<1> QED
  BY <1>2, <1>3, <1>4, <1>6, <1>7, Assembled

\* The top frame ends.
LEMMA ReturnsMoves ==
    ASSUME FInv, NEW t \in Threads, stack[t] # <<>>, NEW f, Changed(f, t),
           stack' = [stack EXCEPT ![t] = Popped(stack[t])],
           Called(Top(t)) = "other",
           lib' \in Int, lib' >= Cardinality(Kept(stack', faces'))
    PROVE  FInv'
<1>0. PICK e, p, O2, C2 : e = Top(t) /\ p = Popped(stack[t]) /\ O2 = owners' /\ C2 = faces'
  OBVIOUS
<1>1. p \in Seq(Frame) /\ Sits(p, e) /\ stack \in [Threads -> Seq(Frame)]
  BY <1>0, TopIs
<1>2. /\ Base(Cut(stack, t), owners', faces', descs', cached')
      /\ \A u \in Threads \ {t} :
            stack[u] # <<>> => TopClaim(u, stack[u][Len(stack[u])], owners', faces')
  BY ChangedBase
<1>3. stack' = [stack EXCEPT ![t] = p] /\ stack' = Cut(stack, t)
  BY <1>0 DEF Cut
<1>4. p # <<>> => TopClaim(t, p[Len(p)], O2, C2)
  BY <1>0, <1>1, QuietBelow
<1>5. others' \subseteq Others /\ scavenging' \in BOOLEAN
  BY DEF Changed
<1>6. Base(stack', owners', faces', descs', cached')
  BY <1>2, <1>3
<1> QED
  BY <1>0, <1>1, <1>2, <1>3, <1>4, <1>5, <1>6, Assembled

\* The top frame becomes d, and calls g.
LEMMA CallsMoves ==
    ASSUME FInv, NEW t \in Threads, stack[t] # <<>>, NEW f, Changed(f, t),
           NEW d \in Frame, NEW g \in Frame,
           stack' = [stack EXCEPT ![t] = Append(Append(Popped(stack[t]), d), g)],
           Sits(Popped(stack[t]), d), Sits(Append(Popped(stack[t]), d), g),
           Claim(t, d, owners', faces', descs', cached'),
           Claim(t, g, owners', faces', descs', cached'), TopClaim(t, g, owners', faces'),
           Kind(d) = "other" \/ Free(Cut(stack, t), Kind(d), d.item), 
           \/ Kind(g) = "other"
           \/ Free(Cut(stack, t), Kind(g), g.item) /\ (Kind(d) # Kind(g) \/ d.item # g.item),
           lib' \in Int, lib' >= Cardinality(Kept(stack', faces'))
    PROVE  FInv'
<1>0. PICK S, T, O2, C2, D2, K2, p, q, s :
         /\ S = stack /\ T = Cut(stack, t)
         /\ O2 = owners' /\ C2 = faces' /\ D2 = descs' /\ K2 = cached'
         /\ p = Popped(stack[t]) /\ q = Append(Popped(stack[t]), d)
         /\ s = Append(Append(Popped(stack[t]), d), g)
  OBVIOUS
<1>1. /\ S \in [Threads -> Seq(Frame)] /\ T \in [Threads -> Seq(Frame)]
      /\ T[t] = p /\ T = Cut(S, t) /\ p \in Seq(Frame)
  BY <1>0, TopIs
<1>2. /\ Base(T, O2, C2, D2, K2)
      /\ \A u \in Threads \ {t} :
            stack[u] # <<>> => TopClaim(u, stack[u][Len(stack[u])], owners', faces')
  BY <1>0, ChangedBase
<1>3. PICK U : U = Grown(T, t, d)
  OBVIOUS
<1>4. U \in [Threads -> Seq(Frame)] /\ U[t] = q /\ Base(U, O2, C2, D2, K2)
  <2>1. Sits(T[t], d) /\ Claim(t, d, O2, C2, D2, K2)
    BY <1>0, <1>1
  <2>2. Kind(d) = "other" \/ Free(T, Kind(d), d.item)
    BY <1>0
  <2>3. Base(U, O2, C2, D2, K2)
    BY <1>2, <1>3, <2>1, <2>2, PushBase
  <2>4. U[t] = Append(p, d)
    BY ZenonT(40), <1>1, <1>3, GrownIs
  <2> QED
    BY <1>0, <2>3, <2>4 DEF Base
<1>5. Kind(g) = "other" \/ Free(U, Kind(g), g.item)
  BY <1>0, <1>1, <1>3, FreeGrown
<1>6. Base(Grown(U, t, g), O2, C2, D2, K2)
  <2>1. Sits(U[t], g) /\ Claim(t, g, O2, C2, D2, K2)
    BY <1>0, <1>4
  <2> QED
    BY <1>4, <1>5, <2>1, PushBase
<1>7. s \in Seq(Frame) /\ s # <<>> /\ s[Len(s)] = g /\ stack' = [stack EXCEPT ![t] = s]
      /\ stack' = Grown(U, t, g)
  <2>1. q \in Seq(Frame) /\ s = Append(q, g)
    BY <1>0, <1>4
  <2>2. s \in Seq(Frame) /\ s # <<>> /\ s[Len(s)] = g
    BY <2>1, AppendTop
  <2>3. stack' = [S EXCEPT ![t] = s]
    BY <1>0
  <2>4. Grown(U, t, g) = [S EXCEPT ![t] = s]
    <3>1. T = [S EXCEPT ![t] = p]
      BY <1>0, <1>1 DEF Cut
    <3>2. U = [T EXCEPT ![t] = q]
      BY <1>0, <1>1, <1>3 DEF Grown
    <3>3. Grown(U, t, g) = [U EXCEPT ![t] = s]
      BY <1>4, <2>1 DEF Grown
    <3> QED
      BY <1>1, <3>1, <3>2, <3>3
  <2> QED
    BY <1>0, <2>2, <2>3, <2>4
<1>8. Base(stack', owners', faces', descs', cached')
  BY <1>0, <1>6, <1>7
<1>9. others' \subseteq Others /\ scavenging' \in BOOLEAN
  BY DEF Changed
<1> QED
  BY <1>2, <1>7, <1>8, <1>9, Assembled

\* Who keeps the library after that.
LEMMA KeptTop ==
    ASSUME NEW S \in [Threads -> Seq(Frame)], NEW t \in Threads, S[t] # <<>>, NEW g \in Frame,
           NEW C2
    PROVE  \A x \in Kept(Topped(S, t, g), C2) :
              \/ x \in C2 \/ x \in Low(Cut(S, t)) \/ (Holds(g) /\ g.item = x)
              \/ \E u \in Threads \ {t} :
                    S[u] # <<>> /\ KeepsOnTop(S[u][Len(S[u])]) /\ S[u][Len(S[u])].item = x
<1>0. PICK T, G : T = Cut(S, t) /\ G = Topped(S, t, g)
  OBVIOUS
<1>1. T \in [Threads -> Seq(Frame)] /\ G = Grown(T, t, g)
      /\ \A u \in Threads \ {t} : T[u] = S[u]
  BY <1>0, CutIs DEF Topped
<1>2. /\ \A u \in Threads \ {t} : G[u] = T[u]
      /\ G[t] = Append(T[t], g) /\ T[t] \in Seq(Frame)
  <2>1. T \in [Threads -> Seq(Frame)]
    BY <1>1
  <2>2. /\ Grown(T, t, g)[t] = Append(T[t], g)
        /\ \A u \in Threads : u # t => Grown(T, t, g)[u] = T[u]
    BY ONLY <2>1, t \in Threads DEF Grown
  <2>3. \A u \in Threads \ {t} : G[u] = T[u]
    BY <1>1, <2>2
  <2>4. G[t] = Append(T[t], g)
    BY <1>1, <2>2
  <2> QED
    BY <2>1, <2>3, <2>4
<1>3. G[t][Len(G[t])] = g
  BY <1>2, AppendTop
<1>4. ASSUME NEW x \in Low(G) PROVE x \in Low(T) \/ (Holds(g) /\ g.item = x)
  BY <1>1, <1>4, LowGrown DEF Holds
<1>5. ASSUME NEW x \in High(G)
      PROVE  \/ Holds(g) /\ g.item = x
             \/ \E u \in Threads \ {t} :
                   S[u] # <<>> /\ KeepsOnTop(S[u][Len(S[u])]) /\ S[u][Len(S[u])].item = x
  <2>1. PICK u \in Threads : G[u] # <<>> /\ KeepsOnTop(G[u][Len(G[u])]) /\ G[u][Len(G[u])].item = x
    BY <1>5 DEF High
  <2>2. CASE u = t
    BY <1>3, <2>1, <2>2 DEF Holds
  <2>3. CASE u # t
    <3>1. G[u] = S[u]
      BY <1>1, <1>2, <2>3
    <3> QED
      BY <2>1, <2>3, <3>1
  <2> QED
    BY <2>2, <2>3
<1> QED
  BY <1>0, <1>4, <1>5 DEF Kept

-----------------------------------------------------------------------------
(* FtWork. *)

\* One reference more, or one less, and one font with it.
LEMMA LibGrows ==
    ASSUME FInv, NEW T, NEW C \in SUBSET Fonts, NEW f \in Fonts,
           Kept(T, C) \subseteq Kept(stack, faces) \cup {f}
    PROVE  lib + 1 \in Int /\ lib + 1 >= Cardinality(Kept(T, C))
<1>0. PICK A, B : A = Kept(stack, faces) /\ B = Kept(T, C)
  OBVIOUS
<1>1. /\ IsFiniteSet(A) /\ Cardinality(A) \in Nat /\ Cardinality(B) \in Nat
  <2>1. faces \in SUBSET Fonts
    BY DEF FInv, Base, World
  <2> QED
    BY <1>0, <2>1, KeptFinite
<1>2. IsFiniteSet(A \cup {f}) /\ Cardinality(A \cup {f}) \in {Cardinality(A), Cardinality(A) + 1}
  BY <1>1, FS_AddElement
<1>3. Cardinality(B) <= Cardinality(A \cup {f})
  BY <1>0, <1>2, FS_Subset
<1> QED
  BY <1>0, <1>1, <1>2, <1>3 DEF FInv

LEMMA LibShrinks ==
    ASSUME FInv, NEW T, NEW C \in SUBSET Fonts, NEW f \in Kept(stack, faces),
           Kept(T, C) \subseteq Kept(stack, faces) \ {f}
    PROVE  lib - 1 \in Int /\ lib - 1 >= Cardinality(Kept(T, C))
<1>0. PICK A, B : A = Kept(stack, faces) /\ B = Kept(T, C)
  OBVIOUS
<1>1. /\ IsFiniteSet(A) /\ Cardinality(A) \in Nat /\ Cardinality(B) \in Nat
  <2>1. faces \in SUBSET Fonts
    BY DEF FInv, Base, World
  <2> QED
    BY <1>0, <2>1, KeptFinite
<1>2. IsFiniteSet(A \ {f}) /\ Cardinality(A \ {f}) = Cardinality(A) - 1
  BY <1>0, <1>1, FS_RemoveElement
<1>3. Cardinality(B) <= Cardinality(A \ {f})
  BY <1>0, <1>2, FS_Subset
<1> QED
  BY <1>0, <1>1, <1>2, <1>3 DEF FInv

\* A region that is called for a font is on a frame that has the font alone.
LEMMA CalledOn ==
    ASSUME NEW T \in [Threads -> Seq(Frame)], \A t \in Threads : Shaped(T[t])
    PROVE  \A u \in Threads : \A i \in 1 .. Len(T[u]) :
              Called(T[u][i]) \in {"keep", "close"} =>
                 /\ i > 1 /\ i - 1 \in 1 .. Len(T[u])
                 /\ Kind(T[u][i - 1]) = "sole" /\ T[u][i - 1].item = T[u][i].item
<1> SUFFICES ASSUME NEW u \in Threads, NEW i \in 1 .. Len(T[u]), Called(T[u][i]) \in {"keep", "close"}
             PROVE  /\ i > 1 /\ i - 1 \in 1 .. Len(T[u])
                    /\ Kind(T[u][i - 1]) = "sole" /\ T[u][i - 1].item = T[u][i].item
  OBVIOUS
<1>1. SitsAt(T[u], i) /\ Len(T[u]) \in Nat
  BY DEF Shaped
<1>2. /\ i > 1 /\ Calling(T[u][i - 1]) = Called(T[u][i]) /\ T[u][i - 1].item = T[u][i].item
  BY <1>1 DEF SitsAt
<1>3. i - 1 \in 1 .. Len(T[u])
  BY <1>1, <1>2
<1>4. Sole(T[u][i - 1])
  BY <1>2 DEF Calling, Sole
<1> QED
  BY <1>2, <1>3, <1>4 DEF Kind

\* A font nobody loads or takes down has no frame with a reference.
LEMMA NotLow ==
    ASSUME NEW T \in [Threads -> Seq(Frame)], \A t \in Threads : Shaped(T[t]),
           NEW f, Free(T, "sole", f)
    PROVE  f \notin Low(T)
<1> SUFFICES ASSUME NEW u \in Threads, NEW i \in 1 .. Len(T[u]),
                    Keeps(T[u][i]), T[u][i].item = f
             PROVE  FALSE
  BY DEF Low
<1>1. ~Sole(T[u][i])
  BY DEF Free, Kind
<1>2. Called(T[u][i]) = "keep"
  BY <1>1 DEF Keeps, Sole, Called
<1>3. i - 1 \in 1 .. Len(T[u]) /\ Kind(T[u][i - 1]) = "sole" /\ T[u][i - 1].item = f
  BY <1>2, CalledOn
<1> QED
  BY <1>3 DEF Free

\* Nothing is changed.
LEMMA SameChanged ==
    ASSUME FInv, NEW t \in Threads, stack[t] # <<>>, NEW f,
           UNCHANGED <<owners, faces, descs, cached>>,
           others' \subseteq Others, scavenging' \in BOOLEAN
    PROVE  Changed(f, t)
<1>1. Base(Cut(stack, t), owners, faces, descs, cached)
  BY TopIs
<1>2. World(owners, faces, descs, cached)
      /\ \A u \in Threads : \A i \in 1 .. Len(Cut(stack, t)[u]) :
            Claim(u, Cut(stack, t)[u][i], owners, faces, descs, cached)
  BY <1>1 DEF Base
<1>3. \A u \in Threads : stack[u] # <<>> => TopClaim(u, stack[u][Len(stack[u])], owners, faces)
  BY DEF FInv, Tops
<1> QED
  BY <1>2, <1>3 DEF Changed, OnlyAt

\* The region at "unuser".
LEMMA WorkIs ==
    ASSUME FInv, NEW t \in Threads, FtWork(t)
    PROVE  /\ stack[t] # <<>> /\ Top(t).proc = "ft" /\ Top(t).pc \in {"in", "had"}
           /\ With(Top(t), "unuser") \in Frame
           /\ With(Top(t), "unuser").proc = "ft" /\ With(Top(t), "unuser").pc = "unuser"
           /\ With(Top(t), "unuser").work = Top(t).work /\ With(Top(t), "unuser").item = Top(t).item
           /\ Sits(Popped(stack[t]), With(Top(t), "unuser"))
           /\ stack' = [stack EXCEPT ![t] = Append(Popped(stack[t]), With(Top(t), "unuser"))]
<1>0. PICK e, p, g : e = Top(t) /\ p = Popped(stack[t]) /\ g = With(Top(t), "unuser")
  OBVIOUS
<1>1. /\ stack[t] # <<>> /\ e.proc = "ft" /\ e.pc \in {"in", "had"} /\ stack' = Goes(t, "unuser")
      /\ "unuser" \in Pc
  BY <1>0 DEF FtWork, InFreeType, At, Pc
<1>2. /\ e \in Frame /\ g \in Frame /\ Sits(p, e)
      /\ stack' = [stack EXCEPT ![t] = Append(Popped(stack[t]), g)]
  BY <1>0, <1>1, TopIs DEF Goes
<1>3. g.proc = "ft" /\ g.pc = "unuser" /\ g.work = e.work /\ g.item = e.item
  BY <1>0, <1>1, <1>2, WithIs
<1>4. Sits(p, g)
  <2>1. Formed(e) => Formed(g)
    BY <1>1, <1>3 DEF Formed
  <2>2. Called(e) = Called(g) /\ ~Uncaching(g)
    BY <1>1, <1>3 DEF Called, Uncaching
  <2> QED
    BY <1>2, <1>3, <2>1, <2>2 DEF Sits
<1> QED
  BY <1>0, <1>1, <1>2, <1>3, <1>4

\* FtWork, for each work there is.
LEMMA WorkKeep ==
    ASSUME FInv, NEW t \in Threads, FtWork(t), Top(t).work = "keep"
    PROVE  FInv'
<1>0. PICK e, f, g, S, C : e = Top(t) /\ f = Top(t).item /\ g = With(Top(t), "unuser") /\ S = stack /\ C = faces
  OBVIOUS
<1>1. /\ stack[t] # <<>> /\ e.proc = "ft" /\ e.pc \in {"in", "had"} /\ g \in Frame
      /\ g.proc = "ft" /\ g.pc = "unuser" /\ g.work = e.work /\ g.item = e.item
      /\ Sits(Popped(stack[t]), g)
      /\ stack' = [stack EXCEPT ![t] = Append(Popped(stack[t]), g)]
  BY <1>0, WorkIs
<1>2. /\ lib' = lib + 1 /\ UNCHANGED <<owners, faces, descs, cached, others, scavenging>>
  BY <1>0 DEF FtWork, storeVars
<1>3. f \in Fonts
  BY <1>0, <1>1 DEF Sits, Formed
<1>4. Changed(f, t)
  BY <1>1, <1>2, SameChanged DEF FInv
<1>5. /\ Claim(t, g, owners', faces', descs', cached') /\ TopClaim(t, g, owners', faces')
      /\ Kind(g) = "other"
  BY <1>0, <1>1 DEF Claim, TopClaim, Kind, Sole, Doomed, Uncaching, Uses
<1>6. lib' \in Int /\ lib' >= Cardinality(Kept(stack', faces'))
  <2>1. stack' = Topped(S, t, g) /\ S \in [Threads -> Seq(Frame)] /\ S[t] # <<>>
    <3>1. S \in [Threads -> Seq(Frame)]
      BY <1>0 DEF FInv, Base
    <3> QED
      BY <1>0, <1>1, <3>1 DEF Topped, Grown, Cut
  <2>2. \A x \in Kept(Topped(S, t, g), C) : x \in Kept(S, C) \cup {f}
    <3>1. \A x \in Kept(Topped(S, t, g), C) :
              \/ x \in C \/ x \in Low(Cut(S, t)) \/ (Holds(g) /\ g.item = x)
              \/ \E u \in Threads \ {t} :
                    S[u] # <<>> /\ KeepsOnTop(S[u][Len(S[u])]) /\ S[u][Len(S[u])].item = x
      BY <1>1, <2>1, KeptTop
    <3>2. Low(Cut(S, t)) \subseteq Low(S)
      BY <2>1, LowCut
    <3>3. Kept(Topped(S, t, g), C) \subseteq Fonts
      BY <1>0, KeptFinite DEF FInv, Base, World
    <3> QED
      BY <1>0, <1>1, <3>1, <3>2, <3>3 DEF Kept, High
  <2>3. C \in SUBSET Fonts
    BY <1>0 DEF FInv, Base, World
  <2>4. lib + 1 \in Int /\ lib + 1 >= Cardinality(Kept(Topped(S, t, g), C))
    BY <1>0, <1>3, <2>2, <2>3, LibGrows
  <2> QED
    BY <1>0, <1>2, <2>1, <2>4
<1> QED
  BY <1>1, <1>4, <1>5, <1>6, TopMoves

LEMMA TopKeeps ==
    ASSUME NEW S \in [Threads -> Seq(Frame)], NEW t \in Threads, S[t] # <<>>, NEW g \in Frame,
           NEW C, NEW C2 \in SUBSET Fonts
    PROVE  \A x \in Kept(Topped(S, t, g), C2) :
              x \in Kept(S, C) \/ x \in C2 \/ (Holds(g) /\ g.item = x)
<1>1. \A x \in Kept(Topped(S, t, g), C2) :
          \/ x \in C2 \/ x \in Low(Cut(S, t)) \/ (Holds(g) /\ g.item = x)
          \/ \E u \in Threads \ {t} :
                S[u] # <<>> /\ KeepsOnTop(S[u][Len(S[u])]) /\ S[u][Len(S[u])].item = x
  BY KeptTop
<1>2. Low(Cut(S, t)) \subseteq Low(S)
  BY LowCut
<1>3. Kept(Topped(S, t, g), C2) \subseteq Fonts
  BY KeptFinite
<1> QED
  BY <1>1, <1>2, <1>3 DEF Kept, High

\* The last frame of another thread is one of the places without t's.
LEMMA OtherTop ==
    ASSUME NEW S \in [Threads -> Seq(Frame)], NEW t \in Threads, S[t] # <<>>
    PROVE  \A u \in Threads \ {t} : S[u] # <<>> =>
              /\ Len(S[u]) \in 1 .. Len(Cut(S, t)[u])
              /\ Cut(S, t)[u][Len(S[u])] = S[u][Len(S[u])]
<1>0. PICK T : T = Cut(S, t)
  OBVIOUS
<1>1. \A u \in Threads : u # t => T[u] = S[u]
  BY <1>0, CutIs
<1>2. ASSUME NEW u \in Threads \ {t}, S[u] # <<>>
      PROVE  Len(S[u]) \in 1 .. Len(T[u]) /\ T[u][Len(S[u])] = S[u][Len(S[u])]
  BY <1>1, <1>2
<1> QED
  BY <1>0, <1>2

LEMMA WorkOpen ==
    ASSUME FInv, NEW t \in Threads, FtWork(t), Top(t).work = "open"
    PROVE  FInv'
<1>0. PICK e, f, g, S, T, O, C, D, K :
         /\ e = Top(t) /\ f = Top(t).item /\ g = With(Top(t), "unuser") /\ S = stack /\ T = Cut(stack, t)
         /\ O = owners /\ C = faces /\ D = descs /\ K = cached
  OBVIOUS
<1>1. /\ stack[t] # <<>> /\ e.proc = "ft" /\ e.pc \in {"in", "had"} /\ g \in Frame
      /\ g.proc = "ft" /\ g.pc = "unuser" /\ g.work = e.work /\ g.item = e.item
      /\ Sits(Popped(stack[t]), g)
      /\ stack' = [stack EXCEPT ![t] = Append(Popped(stack[t]), g)]
  BY <1>0, WorkIs
<1>2. /\ lib' = lib /\ faces' = C \cup {f} /\ owners' = [O EXCEPT ![f] = {t}] /\ descs' = D \cup {f}
      /\ cached' = K /\ UNCHANGED <<others, scavenging>>
  BY <1>0 DEF FtWork, storeVars
<1>3. f \in Fonts
  BY <1>0, <1>1 DEF Sits, Formed
<1>4. PICK O2, C2, D2 : O2 = owners' /\ C2 = faces' /\ D2 = descs'
  OBVIOUS
<1>5. /\ S \in [Threads -> Seq(Frame)] /\ S[t] # <<>> /\ T = Cut(S, t)
      /\ World(O, C, D, K)
      /\ T \in [Threads -> Seq(Frame)] /\ \A u \in Threads : Shaped(T[u])
      /\ \A u \in Threads : \A i \in 1 .. Len(T[u]) : Claim(u, T[u][i], O, C, D, K)
      /\ \A u \in Threads : S[u] # <<>> => TopClaim(u, S[u][Len(S[u])], O, C)
      /\ Claim(t, e, O, C, D, K)
      /\ Kind(e) = "other" \/ Free(T, Kind(e), e.item)
  BY <1>0, <1>1, TopIs DEF FInv, Base, Tops
<1>6. Sole(e) /\ Keeps(e) /\ Free(T, "sole", f)
  <2>1. Sole(e) /\ Keeps(e)
    BY <1>0, <1>1 DEF Sole, Keeps
  <2> QED
    BY <1>0, <1>5, <2>1 DEF Kind
<1>7. O[f] = {} /\ f \notin C \cup D \cup K
  BY <1>0, <1>1, <1>5, <1>6 DEF Claim
<1>8. World(O2, C2, D2, K) /\ OnlyAt(f, O, C, D, K, O2, C2, D2, K)
  BY <1>2, <1>3, <1>4, <1>5 DEF World, OnlyAt
<1>9. ASSUME NEW u \in Threads, NEW i \in 1 .. Len(T[u]), T[u][i].item = f
      PROVE  Claim(u, T[u][i], O2, C2, D2, K)
  <2>1. PICK x : x = T[u][i]
    OBVIOUS
  <2>2. Claim(u, x, O, C, D, K) /\ x.item = f
    BY <1>5, <1>9, <2>1
  <2>3. ~Sole(x)
    BY <1>6, <1>9, <2>1 DEF Free, Kind
  <2>4. Called(x) # "close"
    BY <1>5, <1>6, <1>9, <2>1, CalledOn DEF Free
  <2>5. ~(x.proc = "ft" /\ x.work = "close")
    BY <2>4 DEF Called
  <2>6. ~Doomed(x) /\ ~Uncaching(x) /\ ~Uses(x)
    BY <1>7, <2>2 DEF Claim
  <2> QED
    BY <2>1, <2>3, <2>5, <2>6 DEF Claim
<1>10. ASSUME NEW u \in Threads \ {t}, S[u] # <<>>, S[u][Len(S[u])].item = f
       PROVE  TopClaim(u, S[u][Len(S[u])], O2, C2)
  <2>1. PICK x : x = S[u][Len(S[u])]
    OBVIOUS
  <2>2. ~Sole(x)
    <3>1. Len(S[u]) \in 1 .. Len(T[u]) /\ T[u][Len(S[u])] = x
      BY <1>5, <1>10, <2>1, OtherTop
    <3> QED
      BY <1>6, <1>10, <2>1, <3>1 DEF Free, Kind
  <2>3. TopClaim(u, x, O, C) /\ x.item = f
    BY <1>5, <1>10, <2>1
  <2> QED
    BY <1>7, <2>1, <2>2, <2>3 DEF TopClaim, Sole
<1>11. Changed(f, t)
  BY <1>0, <1>2, <1>4, <1>8, <1>9, <1>10 DEF Changed, FInv
<1>12. /\ Claim(t, g, O2, C2, D2, K) /\ TopClaim(t, g, O2, C2) /\ Kind(g) = "other"
  <2>1. ~Sole(g) /\ ~Doomed(g) /\ ~Uncaching(g) /\ g.proc = "ft" /\ g.work = "open"
    BY <1>0, <1>1 DEF Sole, Doomed, Uncaching
  <2>2. t \in O2[f] /\ g.item = f
    BY <1>0, <1>1, <1>2, <1>3, <1>4, <1>5 DEF World
  <2> QED
    BY <2>1, <2>2 DEF Claim, TopClaim, Kind
<1>13. lib' \in Int /\ lib' >= Cardinality(Kept(stack', faces'))
  <2>1. stack' = Topped(S, t, g)
    BY <1>0, <1>1 DEF Topped, Grown, Cut
  <2>2. C2 \in SUBSET Fonts
    BY <1>8 DEF World
  <2>3. f \in Kept(stack, faces)
    BY <1>0, <1>1, <1>3, <1>6, HeldIsKept DEF Holds
  <2>4. \A x \in Kept(Topped(S, t, g), C2) : x \in Kept(S, C) \/ x \in C2 \/ (Holds(g) /\ g.item = x)
    <3>1. S \in [Threads -> Seq(Frame)] /\ S[t] # <<>> /\ g \in Frame
      BY <1>1, <1>5
    <3> QED
      BY ONLY <2>2, <3>1, t \in Threads, TopKeeps
  <2>5. ~Holds(g)
    BY <1>0, <1>1 DEF Holds, Keeps, KeepsOnTop
  <2>6. Kept(Topped(S, t, g), C2) \subseteq Kept(stack, faces)
    BY <1>0, <1>2, <1>4, <2>3, <2>4, <2>5 DEF Kept
  <2>7. lib \in Int /\ lib >= Cardinality(Kept(Topped(S, t, g), C2))
    BY <2>2, <2>6, LibStays
  <2> QED
    BY <1>2, <1>4, <2>1, <2>7
<1>14. Claim(t, g, owners', faces', descs', cached') /\ TopClaim(t, g, owners', faces')
  BY <1>2, <1>4, <1>12
<1> QED
  BY <1>1, <1>11, <1>12, <1>13, <1>14, TopMoves

LEMMA WorkClose ==
    ASSUME FInv, NEW t \in Threads, FtWork(t), Top(t).work = "close"
    PROVE  FInv'
<1>0. PICK e, f, g, S, T, O, C, D, K, p :
         /\ e = Top(t) /\ f = Top(t).item /\ g = With(Top(t), "unuser") /\ S = stack /\ T = Cut(stack, t)
         /\ O = owners /\ C = faces /\ D = descs /\ K = cached /\ p = Popped(stack[t])
  OBVIOUS
<1>1. /\ stack[t] # <<>> /\ e.proc = "ft" /\ e.pc \in {"in", "had"} /\ g \in Frame
      /\ g.proc = "ft" /\ g.pc = "unuser" /\ g.work = e.work /\ g.item = e.item
      /\ Sits(Popped(stack[t]), g)
      /\ stack' = [stack EXCEPT ![t] = Append(Popped(stack[t]), g)]
  BY <1>0, WorkIs
<1>2. /\ lib' = lib /\ faces' = C \ {f} /\ owners' = O /\ descs' = D
      /\ cached' = K /\ UNCHANGED <<others, scavenging>>
  BY <1>0 DEF FtWork, storeVars
<1>3. f \in Fonts
  BY <1>0, <1>1 DEF Sits, Formed
<1>4. PICK C2 : C2 = faces'
  OBVIOUS
<1>5. /\ S \in [Threads -> Seq(Frame)] /\ S[t] # <<>> /\ T = Cut(S, t)
      /\ World(O, C, D, K) /\ T[t] = p /\ p \in Seq(Frame)
      /\ T \in [Threads -> Seq(Frame)] /\ \A u \in Threads : Shaped(T[u])
      /\ \A u \in Threads : \A i \in 1 .. Len(T[u]) : Claim(u, T[u][i], O, C, D, K)
      /\ \A u \in Threads : S[u] # <<>> => TopClaim(u, S[u][Len(S[u])], O, C)
      /\ Unique(T)
      /\ Claim(t, e, O, C, D, K) /\ Sits(p, e)
  BY <1>0, <1>1, TopIs DEF FInv, Base, Tops
<1>6. /\ p # <<>> /\ Len(p) \in 1 .. Len(p) /\ p[Len(p)].proc = "dropfont" /\ Sole(p[Len(p)])
      /\ Kind(p[Len(p)]) = "sole" /\ p[Len(p)].item = f
  <2>1. /\ p # <<>> /\ Calling(p[Len(p)]) = "close" /\ p[Len(p)].item = f
    BY <1>0, <1>1, <1>5 DEF Sits, Called
  <2>2. p[Len(p)].proc = "dropfont" /\ Sole(p[Len(p)])
    BY <2>1 DEF Calling, Sole
  <2>3. Len(p) \in 1 .. Len(p)
    BY <1>5, <2>1
  <2> QED
    BY <2>1, <2>2, <2>3 DEF Kind
<1>7. O[f] = {} /\ f \notin D \cup K
  BY <1>5, <1>6 DEF Claim
<1>8. World(O, C2, D, K) /\ OnlyAt(f, O, C, D, K, O, C2, D, K)
  BY <1>2, <1>3, <1>4, <1>5, <1>7 DEF World, OnlyAt
<1>9. ASSUME NEW u \in Threads, NEW i \in 1 .. Len(T[u]), T[u][i].item = f
      PROVE  Claim(u, T[u][i], O, C2, D, K)
  <2>1. PICK x : x = T[u][i]
    OBVIOUS
  <2>2. Claim(u, x, O, C, D, K) /\ x.item = f
    BY <1>5, <1>9, <2>1
  <2>3. Called(x) # "close"
    <3> SUFFICES ASSUME Called(T[u][i]) = "close" PROVE FALSE
      BY <2>1
    <3>1. i - 1 \in 1 .. Len(T[u]) /\ Kind(T[u][i - 1]) = "sole" /\ T[u][i - 1].item = f
      BY <1>5, <1>9, CalledOn
    <3>2. u = t /\ i - 1 = Len(p)
      <4>0. PICK m, n : m = i - 1 /\ n = Len(p)
        OBVIOUS
      <4>1. /\ Unique(T) /\ m \in 1 .. Len(T[u]) /\ n \in 1 .. Len(T[t])
            /\ Kind(T[u][m]) = "sole" /\ Kind(T[t][n]) = "sole" /\ T[u][m].item = T[t][n].item
        BY <1>5, <1>6, <3>1, <4>0
      <4>2. u = t /\ m = n
        BY ONLY <4>1, u \in Threads, t \in Threads DEF Unique
      <4> QED
        BY <4>0, <4>2
    <3> QED
      BY <1>5, <3>2
  <2>4. ~(x.proc = "ft" /\ x.work = "close")
    BY <2>3 DEF Called
  <2> QED
    BY <1>2, <1>4, <2>1, <2>2, <2>4 DEF Claim
<1>10. ASSUME NEW u \in Threads \ {t}, S[u] # <<>>, S[u][Len(S[u])].item = f
       PROVE  TopClaim(u, S[u][Len(S[u])], O, C2)
  BY <1>2, <1>4, <1>5, <1>10 DEF TopClaim
<1>11. Changed(f, t)
  BY <1>0, <1>2, <1>4, <1>8, <1>9, <1>10 DEF Changed, FInv
<1>12. /\ Claim(t, g, O, C2, D, K) /\ TopClaim(t, g, O, C2) /\ Kind(g) = "other" /\ ~Holds(g)
  <2>1. ~Sole(g) /\ ~Doomed(g) /\ ~Uncaching(g) /\ ~Uses(g) /\ g.proc = "ft" /\ g.work = "close" /\ g.pc = "unuser"
        /\ ~Holds(g)
    BY <1>0, <1>1 DEF Sole, Doomed, Uncaching, Uses, Holds, Keeps, KeepsOnTop
  <2> QED
    BY <1>0, <1>1, <1>2, <1>4, <2>1 DEF Claim, TopClaim, Kind
<1>13. lib' \in Int /\ lib' >= Cardinality(Kept(stack', faces'))
  <2>1. stack' = Topped(S, t, g)
    BY <1>0, <1>1 DEF Topped, Grown, Cut
  <2>2. C2 \in SUBSET Fonts
    BY <1>8 DEF World
  <2>4. \A x \in Kept(Topped(S, t, g), C2) : x \in Kept(S, C) \/ x \in C2 \/ (Holds(g) /\ g.item = x)
    <3>1. S \in [Threads -> Seq(Frame)] /\ S[t] # <<>> /\ g \in Frame
      BY <1>1, <1>5
    <3> QED
      BY ONLY <2>2, <3>1, t \in Threads, TopKeeps
  <2>6. Kept(Topped(S, t, g), C2) \subseteq Kept(stack, faces)
    BY <1>0, <1>2, <1>4, <1>12, <2>4 DEF Kept
  <2>7. lib \in Int /\ lib >= Cardinality(Kept(Topped(S, t, g), C2))
    BY <2>2, <2>6, LibStays
  <2> QED
    BY <1>2, <1>4, <2>1, <2>7
<1>14. Claim(t, g, owners', faces', descs', cached') /\ TopClaim(t, g, owners', faces')
  BY <1>2, <1>4, <1>12
<1> QED
  BY <1>1, <1>11, <1>12, <1>13, <1>14, TopMoves

LEMMA WorkUnkeep ==
    ASSUME FInv, NEW t \in Threads, FtWork(t), Top(t).work = "unkeep"
    PROVE  FInv'
<1>0. PICK e, f, g, S, T, O, C, D, K :
         /\ e = Top(t) /\ f = Top(t).item /\ g = With(Top(t), "unuser") /\ S = stack /\ T = Cut(stack, t)
         /\ O = owners /\ C = faces /\ D = descs /\ K = cached
  OBVIOUS
<1>1. /\ stack[t] # <<>> /\ e.proc = "ft" /\ e.pc \in {"in", "had"} /\ g \in Frame
      /\ g.proc = "ft" /\ g.pc = "unuser" /\ g.work = e.work /\ g.item = e.item
      /\ Sits(Popped(stack[t]), g)
      /\ stack' = [stack EXCEPT ![t] = Append(Popped(stack[t]), g)]
  BY <1>0, WorkIs
<1>2. /\ lib' = lib - 1 /\ UNCHANGED <<owners, faces, descs, cached, others, scavenging>>
  BY <1>0 DEF FtWork, storeVars
<1>3. f \in Fonts
  BY <1>0, <1>1 DEF Sits, Formed
<1>4. /\ S \in [Threads -> Seq(Frame)] /\ S[t] # <<>> /\ T = Cut(S, t) /\ C \in SUBSET Fonts
      /\ T \in [Threads -> Seq(Frame)] /\ \A u \in Threads : Shaped(T[u])
      /\ Claim(t, e, O, C, D, K)
      /\ Kind(e) = "other" \/ Free(T, Kind(e), e.item)
  BY <1>0, <1>1, TopIs DEF FInv, Base, World
<1>5. /\ Sole(e) /\ Sole(g) /\ Keeps(e) /\ ~Holds(g) /\ ~Doomed(g) /\ ~Uncaching(g) /\ ~Uses(g)
      /\ Kind(g) = Kind(e) /\ Kind(e) = "sole"
  BY <1>0, <1>1 DEF Sole, Keeps, KeepsOnTop, Holds, Doomed, Uncaching, Uses, Kind
<1>6. Claim(t, g, O, C, D, K) /\ TopClaim(t, g, O, C) /\ f \notin C
  BY <1>0, <1>1, <1>4, <1>5 DEF Claim, TopClaim
<1>7. Claim(t, g, owners', faces', descs', cached') /\ TopClaim(t, g, owners', faces')
  BY <1>0, <1>2, <1>6
<1>8. Changed(f, t)
  BY <1>1, <1>2, SameChanged DEF FInv
<1>9. lib' \in Int /\ lib' >= Cardinality(Kept(stack', faces'))
  <2>1. stack' = Topped(S, t, g)
    BY <1>0, <1>1 DEF Topped, Grown, Cut
  <2>2. f \in Kept(stack, faces)
    BY <1>0, <1>1, <1>3, <1>5, HeldIsKept DEF Holds
  <2>3. /\ \A x \in Kept(Topped(S, t, g), C) : x \in Kept(S, C) \/ x \in C \/ (Holds(g) /\ g.item = x)
        /\ \A x \in Kept(Topped(S, t, g), C) :
              \/ x \in C \/ x \in Low(Cut(S, t)) \/ (Holds(g) /\ g.item = x)
              \/ \E u \in Threads \ {t} :
                    S[u] # <<>> /\ KeepsOnTop(S[u][Len(S[u])]) /\ S[u][Len(S[u])].item = x
    <3>1. S \in [Threads -> Seq(Frame)] /\ S[t] # <<>> /\ g \in Frame /\ C \in SUBSET Fonts
      BY <1>1, <1>4
    <3>2. \A x \in Kept(Topped(S, t, g), C) : x \in Kept(S, C) \/ x \in C \/ (Holds(g) /\ g.item = x)
      BY ONLY <3>1, t \in Threads, TopKeeps
    <3>3. \A x \in Kept(Topped(S, t, g), C) :
              \/ x \in C \/ x \in Low(Cut(S, t)) \/ (Holds(g) /\ g.item = x)
              \/ \E u \in Threads \ {t} :
                    S[u] # <<>> /\ KeepsOnTop(S[u][Len(S[u])]) /\ S[u][Len(S[u])].item = x
      BY ONLY <3>1, t \in Threads, KeptTop
    <3> QED
      BY <3>2, <3>3
  <2>4. f \notin Low(T)
    BY <1>0, <1>4, <1>5, NotLow
  <2>5. ASSUME NEW u \in Threads \ {t}, S[u] # <<>>, KeepsOnTop(S[u][Len(S[u])]), S[u][Len(S[u])].item = f
        PROVE  FALSE
    <3>1. Len(S[u]) \in 1 .. Len(T[u]) /\ T[u][Len(S[u])] = S[u][Len(S[u])]
      BY <1>4, <2>5, OtherTop
    <3>2. Kind(S[u][Len(S[u])]) = "sole"
      BY <2>5 DEF KeepsOnTop, Sole, Kind
    <3> QED
      BY <1>0, <1>4, <1>5, <2>5, <3>1, <3>2 DEF Free
  <2>6. f \notin Kept(Topped(S, t, g), C)
    BY <1>4, <1>5, <1>6, <2>3, <2>4, <2>5
  <2>7. Kept(Topped(S, t, g), C) \subseteq Kept(stack, faces) \ {f}
    BY <1>0, <1>5, <2>3, <2>6 DEF Kept
  <2>8. lib - 1 \in Int /\ lib - 1 >= Cardinality(Kept(Topped(S, t, g), C))
    BY <1>4, <2>2, <2>7, LibShrinks
  <2> QED
    BY <1>0, <1>2, <2>1, <2>8
<1> QED
  BY <1>0, <1>1, <1>5, <1>7, <1>8, <1>9, TopMoves

LEMMA WorkOther ==
    ASSUME FInv, NEW t \in Threads, FtWork(t), Top(t).work \notin {"keep", "open", "close", "unkeep"}
    PROVE  FInv'
<1>0. PICK e, g : e = Top(t) /\ g = With(Top(t), "unuser")
  OBVIOUS
<1>1. /\ stack[t] # <<>> /\ e.proc = "ft" /\ e.pc \in {"in", "had"} /\ g \in Frame
      /\ g.proc = "ft" /\ g.pc = "unuser" /\ g.work = e.work /\ g.item = e.item
      /\ Sits(Popped(stack[t]), g)
      /\ stack' = [stack EXCEPT ![t] = Append(Popped(stack[t]), g)]
  BY <1>0, WorkIs
<1>2. Still
  BY <1>0 DEF FtWork, storeVars, Still, FInv
<1>3. Claim(t, e, owners, faces, descs, cached)
  BY <1>0, <1>1, TopIs
<1>4. ~Sole(g) /\ ~Doomed(g) /\ ~Uncaching(g) /\ ~Holds(g) /\ (Uses(g) <=> Uses(e))
  BY <1>0, <1>1 DEF Sole, Doomed, Uncaching, Holds, Keeps, KeepsOnTop, Uses
<1>5. Claim(t, g, owners, faces, descs, cached) /\ TopClaim(t, g, owners, faces) /\ Kind(g) = "other"
  BY <1>0, <1>1, <1>3, <1>4 DEF Claim, TopClaim, Kind
<1> QED
  BY <1>1, <1>2, <1>4, <1>5, StillTop

LEMMA FtWorkFaces ==
    ASSUME FInv, NEW t \in Threads, FtWork(t)
    PROVE  FInv'
BY WorkKeep, WorkOpen, WorkClose, WorkUnkeep, WorkOther

-----------------------------------------------------------------------------
(* Unref. *)

\* References of the frames, when the top one is gone or calls another.
LEMMA CutKept ==
    ASSUME NEW S \in [Threads -> Seq(Frame)], NEW t \in Threads, S[t] # <<>>,
           NEW p, p = Popped(S[t]), p # <<>> => ~KeepsOnTop(p[Len(p)]), NEW C
    PROVE  Kept(Cut(S, t), C) \subseteq Kept(S, C)
<1>1. p \in Seq(Frame) /\ Low(Cut(S, t)) \subseteq Low(S)
  BY CutIs, LowCut
<1>2. High(Cut(S, t)) \subseteq High(S)
  <2> SUFFICES ASSUME NEW f \in High(Cut(S, t)) PROVE f \in High(S)
    OBVIOUS
  <2>1. f \in High([S EXCEPT ![t] = p])
    BY DEF Cut
  <2>2. f \in High(S) \/ (p # <<>> /\ KeepsOnTop(p[Len(p)]) /\ p[Len(p)].item = f)
    BY ONLY <1>1, <2>1, S \in [Threads -> Seq(Frame)], t \in Threads, HighIs
  <2> QED
    BY <2>2
<1> QED
  BY <1>1, <1>2 DEF Kept

LEMMA CallsKept ==
    ASSUME NEW S \in [Threads -> Seq(Frame)], NEW t \in Threads, S[t] # <<>>,
           NEW d \in Frame, NEW g \in Frame, NEW C,
           NEW V, V = Grown(Grown(Cut(S, t), t, d), t, g)
    PROVE  \A x \in Kept(V, C) :
              x \in Kept(S, C) \/ (Keeps(d) /\ d.item = x) \/ (Holds(g) /\ g.item = x)
<1>0. PICK T, U, p, q, s :
         /\ T = Cut(S, t) /\ U = Grown(T, t, d) /\ V = Grown(U, t, g)
         /\ p = Popped(S[t]) /\ q = Append(p, d) /\ s = Append(q, g)
  OBVIOUS
<1>1. T \in [Threads -> Seq(Frame)] /\ T[t] = p /\ p \in Seq(Frame) /\ Low(T) \subseteq Low(S)
  BY <1>0, CutIs, LowCut
<1>2. q \in Seq(Frame) /\ s \in Seq(Frame) /\ s # <<>> /\ s[Len(s)] = g
  <2>1. q \in Seq(Frame)
    BY <1>0, <1>1, AppendTop
  <2> QED
    BY <1>0, <2>1, AppendTop
<1>3. U \in [Threads -> Seq(Frame)] /\ U[t] = q
  BY <1>0, <1>1, <1>2 DEF Grown
<1>4. V = [S EXCEPT ![t] = s]
  <2>1. T = [S EXCEPT ![t] = p]
    BY <1>0 DEF Cut
  <2>2. U = [T EXCEPT ![t] = q]
    BY <1>0, <1>1 DEF Grown
  <2>3. V = [U EXCEPT ![t] = s]
    BY <1>0, <1>3 DEF Grown
  <2> QED
    BY <2>1, <2>2, <2>3
<1>5. \A x \in Low(V) : x \in Low(S) \/ (Keeps(d) /\ d.item = x) \/ (Holds(g) /\ g.item = x)
  <2> TAKE x \in Low(V)
  <2>1. x \in Low(U) \/ (Keeps(g) /\ g.item = x)
    BY ZenonT(40), <1>0, <1>3, LowGrown
  <2>2. x \in Low(U) => x \in Low(T) \/ (Keeps(d) /\ d.item = x)
    BY <1>0, <1>1, LowGrown
  <2> QED
    BY <1>1, <2>1, <2>2 DEF Holds
<1>6. \A x \in High(V) : x \in High(S) \/ (Holds(g) /\ g.item = x)
  <2> TAKE x \in High(V)
  <2>1. x \in High([S EXCEPT ![t] = s])
    BY <1>4
  <2>2. s \in Seq(Frame) /\ s # <<>> /\ s[Len(s)] = g
    BY <1>2
  <2>3. x \in High(S) \/ (KeepsOnTop(g) /\ g.item = x)
    BY ONLY <2>1, <2>2, S \in [Threads -> Seq(Frame)], t \in Threads, HighIs
  <2> QED
    BY <2>3 DEF Holds
<1> QED
  BY <1>5, <1>6 DEF Kept

\* Unref lets go of the font for one of the two that refer to it, and closes
\* the face if it was the last.
LEMMA UnrefChanges ==
    ASSUME FInv, NEW t \in Threads, Unref(t)
    PROVE  /\ Changed(Top(t).item, t)
           /\ Top(t).item \in faces /\ Free(Cut(stack, t), "sole", Top(t).item)
           /\ stack[t] # <<>> /\ Top(t).proc = "dropfont" /\ Top(t).pc = "unref" /\ Top(t).item \in Fonts
           /\ UNCHANGED <<owners, faces, lib>>
<1>0. PICK e, f, S, T, O, C, D, K :
         /\ e = Top(t) /\ f = Top(t).item /\ S = stack /\ T = Cut(stack, t)
         /\ O = owners /\ C = faces /\ D = descs /\ K = cached
  OBVIOUS
<1>1. /\ stack[t] # <<>> /\ e.proc = "dropfont" /\ e.pc = "unref"
      /\ descs' = IF e.work = "drop" THEN D \ {f} ELSE D
      /\ cached' = IF e.work = "drop" THEN K ELSE K \ {f}
      /\ UNCHANGED <<owners, faces, lib, others, scavenging>>
  BY <1>0 DEF Unref, At, storeVars
<1>2. PICK D2, K2 : D2 = descs' /\ K2 = cached'
  OBVIOUS
<1>3. /\ S \in [Threads -> Seq(Frame)] /\ S[t] # <<>> /\ T = Cut(S, t)
      /\ World(O, C, D, K)
      /\ \A u \in Threads : \A i \in 1 .. Len(T[u]) : Claim(u, T[u][i], O, C, D, K)
      /\ \A u \in Threads : S[u] # <<>> => TopClaim(u, S[u][Len(S[u])], O, C)
      /\ Claim(t, e, O, C, D, K) /\ Formed(e)
      /\ Kind(e) = "other" \/ Free(T, Kind(e), e.item)
  BY <1>0, <1>1, TopIs DEF FInv, Base, Tops, Sits
<1>4. f \in Fonts /\ e.work \in {"drop", "use"}
  BY <1>0, <1>1, <1>3 DEF Formed
<1>5. /\ ~Sole(e)
      /\ Doomed(e) <=> e.work = "drop"
      /\ Uncaching(e) <=> e.work = "use"
  BY <1>1, <1>4 DEF Sole, Doomed, Uncaching
<1>6. /\ e.work = "drop" => Free(T, "doomed", f) /\ O[f] = {} /\ f \in D
      /\ e.work = "use" => Free(T, "uncaching", f) /\ f \in K
  BY <1>0, <1>3, <1>4, <1>5 DEF Kind, Claim
<1>7. f \in C /\ f \in D \cup K
  BY <1>3, <1>4, <1>6 DEF World
<1>8. World(O, C, D2, K2) /\ OnlyAt(f, O, C, D, K, O, C, D2, K2)
  BY <1>1, <1>2, <1>3, <1>4, <1>6 DEF World, OnlyAt
<1>9. \A x : (Doomed(x) => ~Sole(x)) /\ (Uncaching(x) => ~Sole(x) /\ ~Doomed(x))
  BY DEF Doomed, Uncaching, Sole
<1>10. ASSUME NEW u \in Threads, NEW i \in 1 .. Len(T[u]), T[u][i].item = f
      PROVE  Claim(u, T[u][i], O, C, D2, K2) /\ ~Sole(T[u][i])
  <2>1. PICK x : x = T[u][i]
    OBVIOUS
  <2>2. Claim(u, x, O, C, D, K) /\ x.item = f
    BY <1>3, <1>10, <2>1
  <2>3. ~Sole(x)
    BY <1>7, <2>2 DEF Claim
  <2>4. e.work = "drop" => ~Doomed(x)
    <3>1. e.work = "drop" => Kind(x) # "doomed"
      BY <1>6, <1>10, <2>1 DEF Free
    <3> QED
      BY <1>9, <3>1 DEF Kind
  <2>5. e.work = "use" => ~Uncaching(x)
    <3>1. e.work = "use" => Kind(x) # "uncaching"
      BY <1>6, <1>10, <2>1 DEF Free
    <3> QED
      BY <1>9, <3>1 DEF Kind
  <2>6. Doomed(x) => x.item \in D2
    BY <1>1, <1>2, <1>4, <2>2, <2>4 DEF Claim
  <2>7. Uncaching(x) => x.item \in K2
    BY <1>1, <1>2, <1>4, <2>2, <2>5 DEF Claim
  <2> QED
    BY <2>1, <2>2, <2>3, <2>6, <2>7 DEF Claim
<1>11. Changed(f, t)
  <2>1. \A u \in Threads : stack[u] # <<>> => TopClaim(u, stack[u][Len(stack[u])], owners', faces')
    BY <1>1 DEF FInv, Tops
  <2> QED
    BY <1>0, <1>1, <1>2, <1>8, <1>10, <2>1 DEF Changed, FInv
<1>12. Free(T, "sole", f)
  BY <1>10 DEF Free, Kind
<1> QED
  BY <1>0, <1>1, <1>4, <1>7, <1>11, <1>12

LEMMA UnrefFaces ==
    ASSUME FInv, NEW t \in Threads, Unref(t)
    PROVE  FInv'
<1>0. PICK e, f, S, C, p, d, g :
         /\ e = Top(t) /\ f = Top(t).item /\ S = stack /\ C = faces /\ p = Popped(stack[t])
         /\ d = With(Top(t), "unkeep") /\ g = Region("close", f)
  OBVIOUS
<1>1. /\ Changed(f, t) /\ f \in C /\ Free(Cut(stack, t), "sole", f)
      /\ stack[t] # <<>> /\ e.proc = "dropfont" /\ e.pc = "unref" /\ f \in Fonts
      /\ UNCHANGED <<owners, faces, lib>>
  BY <1>0, UnrefChanges
<1>2. /\ e \in Frame /\ Sits(p, e) /\ p \in Seq(Frame) /\ S \in [Threads -> Seq(Frame)] /\ S[t] # <<>>
  BY <1>0, <1>1, TopIs
<1>3. Called(e) = "other"
  BY <1>1 DEF Called
<1>4. C \in SUBSET Fonts
  BY <1>0 DEF FInv, Base, World
<1>5. CASE stack' = Returns(t)
  <2>1. p # <<>> => ~KeepsOnTop(p[Len(p)])
    BY <1>2, <1>3, QuietBelow
  <2>2. Kept(Cut(S, t), C) \subseteq Kept(stack, faces)
    BY <1>0, <1>2, <2>1, CutKept
  <2>3. lib \in Int /\ lib >= Cardinality(Kept(Cut(S, t), C))
    BY <1>4, <2>2, LibStays
  <2>4. stack' = [stack EXCEPT ![t] = Popped(stack[t])] /\ stack' = Cut(S, t)
    BY <1>0, <1>5 DEF Returns, Cut
  <2>5. lib' \in Int /\ lib' >= Cardinality(Kept(stack', faces'))
    BY <1>0, <1>1, <2>3, <2>4
  <2> QED
    BY <1>0, <1>1, <1>3, <2>4, <2>5, ReturnsMoves
<1>6. CASE ~Referred(f, descs', cached') /\ stack' = Calls(t, "unkeep", Region("close", f))
  <2>1. d \in Frame /\ d.proc = "dropfont" /\ d.pc = "unkeep" /\ d.work = e.work /\ d.item = f
        /\ stack' = [stack EXCEPT ![t] = Append(Append(Popped(stack[t]), d), g)]
    <3>1. "unkeep" \in Pc
      BY DEF Pc
    <3>2. d \in Frame /\ stack' = [stack EXCEPT ![t] = Append(Append(Popped(stack[t]), d), g)]
      BY <1>0, <1>1, <1>6, <3>1, TopIs DEF Calls
    <3> QED
      BY <1>0, <1>1, <1>2, <3>1, <3>2, WithIs
  <2>2. g \in Frame /\ g.proc = "ft" /\ g.work = "close" /\ g.pc = "lock" /\ g.item = f
    BY <1>0, <1>1, FrameStarts DEF Region, F, Work
  <2>3. /\ Sole(d) /\ ~Doomed(d) /\ ~Uncaching(d) /\ ~Uses(d) /\ Called(d) = "other"
        /\ Calling(d) = "close" /\ Kind(d) = "sole"
    BY <2>1 DEF Sole, Doomed, Uncaching, Uses, Called, Calling, Kind
  <2>4. /\ ~Sole(g) /\ ~Doomed(g) /\ ~Uncaching(g) /\ ~Uses(g) /\ ~Holds(g) /\ Called(g) = "close"
        /\ Formed(g) /\ Kind(g) = "other" /\ TopClaim(t, g, owners', faces')
    BY <1>1, <2>2 DEF Sole, Doomed, Uncaching, Uses, Holds, Keeps, KeepsOnTop, Called, Formed, Kind, TopClaim
  <2>5. owners'[f] = {} /\ f \notin descs' \cup cached'
    BY <1>1, <1>6 DEF Referred, Changed, World
  <2>6. Claim(t, d, owners', faces', descs', cached')
    BY <2>1, <2>3, <2>5 DEF Claim
  <2>7. Claim(t, g, owners', faces', descs', cached')
    BY <1>0, <1>1, <2>2, <2>4 DEF Claim
  <2>8. Formed(d)
    BY <1>1, <1>2, <2>1 DEF Sits, Formed
  <2>9. Sits(p, d)
    BY <1>2, <1>3, <2>1, <2>3, <2>8 DEF Sits
  <2>10. Sits(Append(p, d), g)
    BY <1>2, <2>1, <2>2, <2>3, <2>4, CalledSits
  <2>11. lib' \in Int /\ lib' >= Cardinality(Kept(stack', faces'))
    <3>3. PICK V : V = Grown(Grown(Cut(S, t), t, d), t, g)
      OBVIOUS
    <3>1. \A x \in Kept(V, C) :
              x \in Kept(S, C) \/ (Keeps(d) /\ d.item = x) \/ (Holds(g) /\ g.item = x)
      <4>1. S \in [Threads -> Seq(Frame)] /\ S[t] # <<>> /\ d \in Frame /\ g \in Frame
        BY <1>2, <2>1, <2>2
      <4> QED
        BY ONLY <4>1, <3>3, t \in Threads, CallsKept
    <3>2. stack' = V /\ faces' = C
      <4>1. V = [S EXCEPT ![t] = Append(Append(Popped(S[t]), d), g)]
        BY <1>2, <3>3 DEF Grown, Cut
      <4> QED
        BY <1>0, <1>1, <2>1, <4>1
    <3>4. Kept(V, C) \subseteq Kept(stack, faces)
      BY <1>0, <1>1, <2>1, <2>4, <3>1, <3>3 DEF Kept
    <3>5. lib \in Int /\ lib >= Cardinality(Kept(V, C))
      BY <1>4, <3>4, LibStays
    <3> QED
      BY <1>1, <3>2, <3>3, <3>5
  <2> QED
    BY <1>0, <1>1, <2>1, <2>2, <2>3, <2>4, <2>6, <2>7, <2>9, <2>10, <2>11, CallsMoves
<1>7. stack' = Returns(t) \/ (~Referred(f, descs', cached') /\ stack' = Calls(t, "unkeep", Region("close", f)))
  BY <1>0 DEF Unref
<1> QED
  BY <1>5, <1>6, <1>7

-----------------------------------------------------------------------------
(* References to a font, and its entries in the glyph cache. *)

\* The top frame ends, or becomes one that holds no reference to the library.
LEMMA ReturnsLib ==
    ASSUME FInv, NEW t \in Threads, stack[t] # <<>>, UNCHANGED <<faces, lib>>,
           stack' = [stack EXCEPT ![t] = Popped(stack[t])], Called(Top(t)) = "other"
    PROVE  lib' \in Int /\ lib' >= Cardinality(Kept(stack', faces'))
<1>0. PICK e, p, S, C : e = Top(t) /\ p = Popped(stack[t]) /\ S = stack /\ C = faces
  OBVIOUS
<1>1. Sits(p, e) /\ S \in [Threads -> Seq(Frame)] /\ C \in SUBSET Fonts
  BY <1>0, TopIs DEF FInv, Base, World
<1>2. p # <<>> => ~KeepsOnTop(p[Len(p)])
  BY <1>0, <1>1, QuietBelow
<1>3. Kept(Cut(S, t), C) \subseteq Kept(stack, faces)
  BY <1>0, <1>1, <1>2, CutKept
<1>4. lib \in Int /\ lib >= Cardinality(Kept(Cut(S, t), C))
  BY <1>1, <1>3, LibStays
<1>5. stack' = Cut(S, t)
  BY <1>0 DEF Cut
<1> QED
  BY <1>0, <1>4, <1>5

LEMMA TopLib ==
    ASSUME FInv, NEW t \in Threads, stack[t] # <<>>, UNCHANGED <<faces, lib>>,
           NEW g \in Frame, ~Holds(g), stack' = [stack EXCEPT ![t] = Append(Popped(stack[t]), g)]
    PROVE  lib' \in Int /\ lib' >= Cardinality(Kept(stack', faces'))
<1>0. PICK S, C : S = stack /\ C = faces
  OBVIOUS
<1>1. S \in [Threads -> Seq(Frame)] /\ S[t] # <<>> /\ C \in SUBSET Fonts
  BY <1>0 DEF FInv, Base, World
<1>2. \A x \in Kept(Topped(S, t, g), C) : x \in Kept(S, C) \/ x \in C \/ (Holds(g) /\ g.item = x)
  BY ONLY <1>1, t \in Threads, g \in Frame, TopKeeps
<1>3. Kept(Topped(S, t, g), C) \subseteq Kept(stack, faces)
  BY <1>0, <1>2 DEF Kept
<1>4. lib \in Int /\ lib >= Cardinality(Kept(Topped(S, t, g), C))
  BY <1>1, <1>3, LibStays
<1>5. stack' = Topped(S, t, g)
  BY <1>0 DEF Topped, Grown, Cut
<1> QED
  BY <1>0, <1>4, <1>5

\* SectionDone may store a description, and may be the one to take it down.
LEMMA SectionDoneChanges ==
    ASSUME FInv, NEW t \in Threads, SectionDone(t)
    PROVE  Changed(Top(t).item, t)
<1>0. PICK e, f, S, T, O, C, D, K :
         /\ e = Top(t) /\ f = Top(t).item /\ S = stack /\ T = Cut(stack, t)
         /\ O = owners /\ C = faces /\ D = descs /\ K = cached
  OBVIOUS
<1>1. /\ stack[t] # <<>> /\ e.proc = "section"
      /\ owners' = IF e.work = "store" /\ f \in Fonts THEN [O EXCEPT ![f] = @ \cup {Store}] ELSE O
      /\ others' \subseteq Others
      /\ UNCHANGED <<faces, descs, cached, lib, scavenging>>
  BY <1>0 DEF SectionDone, At, FInv
<1>2. PICK O2 : O2 = owners'
  OBVIOUS
<1>3. /\ S \in [Threads -> Seq(Frame)] /\ S[t] # <<>> /\ T = Cut(S, t)
      /\ World(O, C, D, K)
      /\ \A u \in Threads : \A i \in 1 .. Len(T[u]) : Claim(u, T[u][i], O, C, D, K)
      /\ \A u \in Threads : S[u] # <<>> => TopClaim(u, S[u][Len(S[u])], O, C)
      /\ Claim(t, e, O, C, D, K)
  BY <1>0, <1>1, TopIs DEF FInv, Base, Tops
<1>4. CASE e.work = "store" /\ f \in Fonts
  <2>1. t \in O[f] /\ O2 = [O EXCEPT ![f] = @ \cup {Store}]
    BY <1>0, <1>1, <1>2, <1>3, <1>4 DEF Claim, Uses
  <2>2. /\ O2 \in [Fonts -> SUBSET (Threads \cup {Store})] /\ O2[f] = O[f] \cup {Store}
        /\ \A y \in Fonts \ {f} : O2[y] = O[y]
    BY <1>3, <1>4, <2>1 DEF World
  <2>3. World(O2, C, D, K) /\ OnlyAt(f, O, C, D, K, O2, C, D, K)
    BY <1>3, <1>4, <2>1, <2>2 DEF World, OnlyAt
  <2>4. ASSUME NEW u \in Threads, NEW i \in 1 .. Len(T[u]), T[u][i].item = f
        PROVE  Claim(u, T[u][i], O2, C, D, K)
    <3>1. PICK x : x = T[u][i]
      OBVIOUS
    <3>2. Claim(u, x, O, C, D, K) /\ x.item = f
      BY <1>3, <2>4, <3>1
    <3>3. ~Sole(x) /\ ~Doomed(x)
      BY <2>1, <3>2 DEF Claim
    <3> QED
      BY <2>2, <3>1, <3>2, <3>3 DEF Claim
  <2>5. ASSUME NEW u \in Threads, S[u] # <<>>, S[u][Len(S[u])].item = f
        PROVE  TopClaim(u, S[u][Len(S[u])], O2, C)
    BY <1>3, <2>2, <2>5 DEF TopClaim
  <2> QED
    BY <1>0, <1>1, <1>2, <2>3, <2>4, <2>5 DEF Changed, FInv
<1>5. CASE ~(e.work = "store" /\ f \in Fonts)
  BY <1>0, <1>1, <1>5, SameChanged DEF FInv
<1> QED
  BY <1>4, <1>5

LEMMA SectionDoneFaces ==
    ASSUME FInv, IInv, NEW t \in Threads, SectionDone(t)
    PROVE  FInv'
<1>0. PICK e, f, p, g : e = Top(t) /\ f = Top(t).item /\ p = Popped(stack[t]) /\ g = DropFont("drop", f)
  OBVIOUS
<1>1. /\ stack[t] # <<>> /\ e.proc = "section" /\ UNCHANGED <<faces, lib>>
  BY <1>0 DEF SectionDone, At
<1>2. Changed(f, t)
  BY <1>0, SectionDoneChanges
<1>3. /\ e \in Frame /\ Sits(p, e) /\ Claim(t, e, owners, faces, descs, cached) /\ Known(e)
  BY <1>0, <1>1, TopIs, InvTop
<1>4. Called(e) = "other"
  BY <1>1 DEF Called
<1>5. CASE stack' = Returns(t)
  <2>1. stack' = [stack EXCEPT ![t] = Popped(stack[t])]
    BY <1>5 DEF Returns
  <2>2. lib' \in Int /\ lib' >= Cardinality(Kept(stack', faces'))
    BY <1>0, <1>1, <1>4, <2>1, ReturnsLib
  <2> QED
    BY <1>0, <1>1, <1>2, <1>4, <2>1, <2>2, ReturnsMoves
<1>6. CASE e.pc = "last" /\ stack' = Becomes(t, DropFont("drop", f))
  <2>1. stack' = [stack EXCEPT ![t] = Append(Popped(stack[t]), g)]
    BY <1>0, <1>6 DEF Becomes
  <2>2. e.work = "drop" /\ f \in Fonts /\ Doomed(e) /\ ~Sole(e)
    BY <1>0, <1>1, <1>3, <1>6 DEF Known, Sits, Formed, Doomed, Sole
  <2>3. g \in Frame /\ g.proc = "dropfont" /\ g.pc = "unref" /\ g.work = "drop" /\ g.item = f
    BY <1>0, <2>2, FrameStarts DEF DropFont, F, Work
  <2>4. /\ ~Sole(g) /\ Doomed(g) /\ ~Uncaching(g) /\ ~Uses(g) /\ ~Holds(g) /\ Called(g) = "other"
        /\ Formed(g) /\ TopClaim(t, g, owners', faces')
    BY <2>2, <2>3 DEF Sole, Doomed, Uncaching, Uses, Holds, Keeps, KeepsOnTop, Called, Formed, TopClaim
  <2>5. Kind(g) = Kind(e)
    BY <2>2, <2>4 DEF Kind
  <2>6. Sits(p, g)
    BY <1>3, <1>4, <2>3, <2>4 DEF Sits
  <2>7. Claim(t, g, owners', faces', descs', cached')
    <3>1. UNCHANGED <<owners, descs>>
      BY <1>0, <2>2 DEF SectionDone
    <3> QED
      BY <1>0, <1>3, <2>2, <2>3, <2>4, <3>1 DEF Claim
  <2>8. lib' \in Int /\ lib' >= Cardinality(Kept(stack', faces'))
    BY <1>1, <2>1, <2>3, <2>4, TopLib
  <2> QED
    BY <1>0, <1>1, <1>2, <2>1, <2>3, <2>4, <2>5, <2>6, <2>7, <2>8, TopMoves
<1>7. stack' = Returns(t) \/ (e.pc = "last" /\ stack' = Becomes(t, DropFont("drop", f)))
  BY <1>0 DEF SectionDone
<1> QED
  BY <1>5, <1>6, <1>7

\* An entry of the glyph cache refers to a font that is in use.
LEMMA InsertFaces ==
    ASSUME FInv, NEW t \in Threads, Insert(t)
    PROVE  FInv'
<1>0. PICK e, f, g, p, S, T, O, C, D, K :
         /\ e = Top(t) /\ f = Top(t).item /\ g = With(Top(t), "drop") /\ p = Popped(stack[t])
         /\ S = stack /\ T = Cut(stack, t)
         /\ O = owners /\ C = faces /\ D = descs /\ K = cached
  OBVIOUS
<1>1. /\ stack[t] # <<>> /\ e.proc \in {"render", "type3"} /\ e.pc = "entry" /\ stack' = Goes(t, "drop")
      /\ cached' = IF e.proc = "render" THEN K \cup {f} ELSE K
      /\ UNCHANGED <<lib, faces, owners, descs, others, scavenging>>
      /\ "drop" \in Pc
  BY <1>0 DEF Insert, At, Draw, storeVars, Pc
<1>2. PICK K2 : K2 = cached'
  OBVIOUS
<1>3. /\ S \in [Threads -> Seq(Frame)] /\ S[t] # <<>> /\ T = Cut(S, t)
      /\ World(O, C, D, K)
      /\ \A u \in Threads : \A i \in 1 .. Len(T[u]) : Claim(u, T[u][i], O, C, D, K)
      /\ \A u \in Threads : S[u] # <<>> => TopClaim(u, S[u][Len(S[u])], O, C)
      /\ Claim(t, e, O, C, D, K) /\ e \in Frame /\ g \in Frame /\ Sits(p, e)
      /\ stack' = [stack EXCEPT ![t] = Append(Popped(stack[t]), g)]
  BY <1>0, <1>1, TopIs DEF FInv, Base, Tops, Goes
<1>4. g.proc = e.proc /\ g.pc = "drop" /\ g.work = e.work /\ g.item = f
  BY <1>0, <1>1, <1>3, WithIs
<1>5. Changed(f, t)
  <2>1. CASE e.proc = "render"
    <3>1. f \in Fonts /\ t \in O[f]
      BY <1>0, <1>3, <2>1 DEF Sits, Formed, Claim, Uses
    <3>2. World(O, C, D, K2) /\ OnlyAt(f, O, C, D, K, O, C, D, K2)
      BY <1>1, <1>2, <1>3, <2>1, <3>1 DEF World, OnlyAt
    <3>3. ASSUME NEW u \in Threads, NEW i \in 1 .. Len(T[u]), T[u][i].item = f
          PROVE  Claim(u, T[u][i], O, C, D, K2)
      <4>1. PICK x : x = T[u][i]
        OBVIOUS
      <4>2. Claim(u, x, O, C, D, K) /\ x.item = f
        BY <1>3, <3>3, <4>1
      <4>3. ~Sole(x)
        BY <3>1, <4>2 DEF Claim
      <4> QED
        BY <1>1, <1>2, <2>1, <4>1, <4>2, <4>3 DEF Claim
    <3> QED
      BY <1>0, <1>1, <1>2, <1>3, <3>2, <3>3 DEF Changed, FInv
  <2>2. CASE e.proc # "render"
    BY <1>0, <1>1, <2>2, SameChanged DEF FInv
  <2> QED
    BY <2>1, <2>2
<1>6. /\ ~Sole(g) /\ ~Doomed(g) /\ ~Uncaching(g) /\ ~Holds(g) /\ (Uses(g) <=> Uses(e))
      /\ Kind(g) = "other" /\ Called(g) = Called(e) /\ (Formed(e) => Formed(g))
  BY <1>0, <1>1, <1>4
     DEF Sole, Doomed, Uncaching, Holds, Keeps, KeepsOnTop, Uses, Kind, Called, Formed
<1>7. Sits(p, g)
  <2>1. Formed(g) /\ (g.proc = "type3" => e.proc = "type3") /\ Called(g) = Called(e) /\ ~Uncaching(g)
        /\ (Called(g) # "other" => g.item = e.item)
    <3>1. Sits(p, e) /\ g.proc = e.proc /\ g.item = e.item /\ ~Uncaching(g)
          /\ Called(g) = Called(e) /\ (Formed(e) => Formed(g))
      BY <1>0, <1>3, <1>4, <1>6
    <3> QED
      BY ONLY <3>1 DEF Sits
  <2>2. Sits(p, e)
    BY <1>3
  <2> QED
    BY ONLY <2>1, <2>2 DEF Sits
<1>8. Claim(t, g, owners', faces', descs', cached') /\ TopClaim(t, g, owners', faces')
  BY <1>0, <1>1, <1>3, <1>4, <1>6 DEF Claim, TopClaim
<1>9. lib' \in Int /\ lib' >= Cardinality(Kept(stack', faces'))
  BY <1>0, <1>1, <1>3, <1>6, TopLib
<1>10. /\ stack[t] # <<>> /\ g \in Frame /\ Sits(Popped(stack[t]), g) /\ Kind(g) = "other"
       /\ stack' = [stack EXCEPT ![t] = Append(Popped(stack[t]), g)]
  <2>1. stack[t] # <<>> /\ g \in Frame /\ Kind(g) = "other"
    BY <1>1, <1>3, <1>6
  <2>2. Sits(Popped(stack[t]), g)
    BY <1>0, <1>7
  <2>3. stack' = [stack EXCEPT ![t] = Append(Popped(stack[t]), g)]
    BY <1>3
  <2> QED
    BY <2>1, <2>2, <2>3
<1> QED
  BY <1>5, <1>8, <1>9, <1>10, TopMoves

-----------------------------------------------------------------------------
(* Steps that change who refers to a description, on all the stacks. *)

\* A call adds the reference its frame holds.
LEMMA GrownKept ==
    ASSUME NEW S \in [Threads -> Seq(Frame)], NEW t \in Threads, NEW g \in Frame, NEW C,
           NEW V, V = Grown(S, t, g)
    PROVE  \A x \in Kept(V, C) : x \in Kept(S, C) \/ (Holds(g) /\ g.item = x)
<1>0. PICK s : s = Append(S[t], g)
  OBVIOUS
<1>1. s \in Seq(Frame) /\ s # <<>> /\ s[Len(s)] = g
  BY <1>0, AppendTop
<1>2. ASSUME NEW f \in Low(V) PROVE f \in Low(S) \/ (Holds(g) /\ g.item = f)
  BY LowGrown DEF Holds
<1>3. ASSUME NEW f \in High(V) PROVE f \in High(S) \/ (Holds(g) /\ g.item = f)
  <2>1. f \in High([S EXCEPT ![t] = s])
    BY <1>0 DEF Grown
  <2>2. f \in High(S) \/ (KeepsOnTop(g) /\ g.item = f)
    BY ONLY <1>1, <2>1, S \in [Threads -> Seq(Frame)], t \in Threads, HighIs
  <2> QED
    BY <2>2 DEF Holds
<1> QED
  BY <1>2, <1>3 DEF Kept

\* What the frames say of f when the set of its owners becomes P.
Owned(f, P) ==
    /\ owners' = [owners EXCEPT ![f] = P] /\ UNCHANGED <<faces, descs, cached>>
    /\ P \subseteq Threads \cup {Store}
    /\ owners[f] # {}
    /\ \A u \in Threads : \A i \in 1 .. Len(stack[u]) :
          Uses(stack[u][i]) /\ stack[u][i].item = f => u \in P
    /\ \A u \in Threads :
          stack[u] # <<>> =>
             LET x == stack[u][Len(stack[u])]
             IN  x.proc = "load" /\ x.pc = "store" /\ x.item = f => u \in P

\* Share, Drop and Evict change the owners alone.
LEMMA OwnedBase ==
    ASSUME FInv, NEW f \in Fonts, NEW P, Owned(f, P)
    PROVE  /\ Base(stack, owners', faces', descs', cached')
           /\ Tops(stack, owners', faces')
<1>0. PICK S, O, C, D, K, O2 :
         S = stack /\ O = owners /\ C = faces /\ D = descs /\ K = cached /\ O2 = owners'
  OBVIOUS
<1>1. /\ faces' = C /\ descs' = D /\ cached' = K
      /\ O2 = [O EXCEPT ![f] = P] /\ P \subseteq Threads \cup {Store} /\ O[f] # {}
      /\ \A u \in Threads : \A i \in 1 .. Len(S[u]) : Uses(S[u][i]) /\ S[u][i].item = f => u \in P
  BY <1>0 DEF Owned
<1>2. Base(S, O, C, D, K)
  BY <1>0 DEF FInv
<1>3. World(O, C, D, K)
  BY <1>2 DEF Base
<1>4. O2[f] = P /\ World(O2, C, D, K) /\ OnlyAt(f, O, C, D, K, O2, C, D, K)
  BY <1>1, <1>3 DEF World, OnlyAt
<1>5. ASSUME NEW u \in Threads, NEW i \in 1 .. Len(S[u]), S[u][i].item = f
      PROVE  Claim(u, S[u][i], O2, C, D, K)
  <2>1. PICK x : x = S[u][i]
    OBVIOUS
  <2>2. Claim(u, x, O, C, D, K) /\ x.item = f /\ (Uses(x) => u \in P)
    BY <1>1, <1>2, <1>5, <2>1 DEF Base
  <2>3. Claim(u, x, O2, C, D, K)
    BY ONLY <1>1, <1>4, <2>2 DEF Claim
  <2> QED
    BY <2>1, <2>3
<1>6. Base(S, O2, C, D, K)
  BY ONLY <1>2, <1>4, <1>5, VarsBase
<1>7. ASSUME NEW u \in Threads, S[u] # <<>> PROVE TopClaim(u, S[u][Len(S[u])], O2, C)
  <2>1. PICK x : x = S[u][Len(S[u])]
    OBVIOUS
  <2>2. Formed(x)
    <3>1. \A v \in Threads : \A i \in 1 .. Len(S[v]) : Formed(S[v][i])
      BY <1>2, ShapedFormed DEF Base
    <3>2. Len(S[u]) \in 1 .. Len(S[u])
      BY <1>2, <1>7 DEF Base
    <3> QED
      BY <2>1, <3>1, <3>2
  <2>3. TopClaim(u, x, O, C)
    BY <1>0, <1>7, <2>1 DEF FInv, Tops
  <2>4. x.item # f => TopClaim(u, x, O2, C)
    BY <1>4, <2>2, <2>3, VarsTop
  <2>5. x.proc = "load" /\ x.pc = "store" /\ x.item = f => u \in P
    BY <1>0, <1>7, <2>1 DEF Owned
  <2>6. x.item = f => TopClaim(u, x, O2, C)
    BY ONLY <1>4, <2>3, <2>5 DEF TopClaim
  <2> QED
    BY <2>1, <2>4, <2>6
<1> QED
  BY <1>0, <1>1, <1>6, <1>7 DEF Tops

LEMMA ShareFaces ==
    ASSUME FInv, NEW t \in Threads, NEW f \in Fonts, Share(t, f)
    PROVE  FInv'
<1>0. PICK P : P = owners[f] \cup {t}
  OBVIOUS
<1>1. /\ owners' = [owners EXCEPT ![f] = P] /\ owners[f] # {}
      /\ UNCHANGED <<faces, descs, cached, lib, others, scavenging, stack>>
  BY <1>0 DEF Share, storeVars
<1>2. Owned(f, P)
  <2>1. owners \in [Fonts -> SUBSET (Threads \cup {Store})]
    BY DEF FInv, Base, World
  <2>2. ASSUME NEW u \in Threads, NEW i \in 1 .. Len(stack[u]), Uses(stack[u][i]), stack[u][i].item = f
        PROVE  u \in P
    BY <1>0, <2>2 DEF FInv, Base, Claim
  <2>3. ASSUME NEW u \in Threads, stack[u] # <<>>, NEW x, x = stack[u][Len(stack[u])],
               x.proc = "load", x.pc = "store", x.item = f
        PROVE  u \in P
    BY <1>0, <2>3 DEF FInv, Tops, TopClaim
  <2> QED
    BY <1>0, <1>1, <2>1, <2>2, <2>3 DEF Owned
<1>3. Base(stack, owners', faces', descs', cached') /\ Tops(stack, owners', faces')
  BY <1>2, OwnedBase
<1>4. /\ stack' = stack /\ lib' = lib /\ faces' = faces /\ others' = others /\ scavenging' = scavenging
      /\ lib \in Int /\ lib >= Cardinality(Kept(stack, faces))
      /\ others \subseteq Others /\ scavenging \in BOOLEAN
  BY <1>1 DEF FInv
<1>5. Kept(stack', faces') = Kept(stack, faces)
  BY <1>4
<1> QED
  BY <1>3, <1>4, <1>5 DEF FInv

\* A caller has no frame that refers to a font.
LEMMA CallersUse ==
    ASSUME FInv, NEW t \in Threads, CanCall(t)
    PROVE  /\ \A i \in 1 .. Len(stack[t]) : ~Uses(stack[t][i])
           /\ stack[t] # <<>> => stack[t][Len(stack[t])].proc = "type3"
<1>1. PICK s : s = stack[t]
  OBVIOUS
<1>2. s \in Seq(Frame) /\ \A i \in 1 .. Len(s) : s[i].proc = "type3"
  BY <1>1, CallerIs
<1>3. /\ \A i \in 1 .. Len(s) : ~Uses(s[i])
      /\ s # <<>> => s[Len(s)].proc = "type3"
  BY <1>2 DEF Uses
<1> QED
  BY <1>1, <1>3

\* While the description has owners, nobody is taking it down.
LEMMA OwnedFree ==
    ASSUME FInv, NEW f, owners[f] # {}
    PROVE  Free(stack, "doomed", f)
<1> SUFFICES ASSUME NEW u \in Threads, NEW i \in 1 .. Len(stack[u]), Kind(stack[u][i]) = "doomed",
                    stack[u][i].item = f
             PROVE  FALSE
  BY DEF Free
<1>1. Doomed(stack[u][i])
  BY DEF Kind
<1> QED
  BY <1>1 DEF FInv, Base, Claim

LEMMA DropFaces ==
    ASSUME FInv, NEW t \in Threads, NEW f \in Fonts, Drop(t, f)
    PROVE  FInv'
<1>0. PICK P, pc, g, s, S, O2, C, D, K :
         /\ P = owners[f] \ {t} /\ pc = (IF owners'[f] = {} THEN "last" ELSE "in")
         /\ g = F("section", IF owners'[f] = {} THEN "last" ELSE "in", "drop", f)
         /\ s = Append(stack[t], g) /\ S = stack /\ O2 = owners' /\ C = faces /\ D = descs /\ K = cached
  OBVIOUS
<1>1. /\ CanCall(t) /\ t \in owners[f] /\ owners' = [owners EXCEPT ![f] = P]
      /\ stack' = [stack EXCEPT ![t] = s]
      /\ UNCHANGED <<faces, descs, cached, lib, others, scavenging>>
  BY <1>0 DEF Drop, storeVars
<1>2. /\ S \in [Threads -> Seq(Frame)] /\ S[t] \in Seq(Frame) /\ World(owners, C, D, K)
  BY <1>0 DEF FInv, Base
<1>3. O2[f] = P /\ f \in D
  BY <1>0, <1>1, <1>2 DEF World
<1>4. /\ g \in Frame /\ g.proc = "section" /\ g.pc = pc /\ g.work = "drop" /\ g.item = f
      /\ pc = (IF O2[f] = {} THEN "last" ELSE "in")
  <2>1. pc \in Pc /\ "section" \in Proc /\ "drop" \in Work /\ g = F("section", pc, "drop", f)
    BY <1>0 DEF Pc, Proc, Work
  <2> QED
    BY <1>0, <2>1, FrameTypes DEF F
<1>5. Owned(f, P)
  <2>1. owners \in [Fonts -> SUBSET (Threads \cup {Store})]
    BY <1>2 DEF World
  <2>2. ASSUME NEW u \in Threads, NEW i \in 1 .. Len(stack[u]), Uses(stack[u][i]), stack[u][i].item = f
        PROVE  u \in P
    <3>1. u # t
      BY <1>1, <2>2, CallersUse
    <3>2. u \in owners[f]
      BY <2>2 DEF FInv, Base, Claim
    <3> QED
      BY <1>0, <3>1, <3>2
  <2>3. ASSUME NEW u \in Threads, stack[u] # <<>>, NEW x, x = stack[u][Len(stack[u])],
               x.proc = "load", x.pc = "store", x.item = f
        PROVE  u \in P
    <3>1. u # t
      BY <1>1, <2>3, CallersUse
    <3>2. u \in owners[f]
      BY <2>3 DEF FInv, Tops, TopClaim
    <3> QED
      BY <1>0, <3>1, <3>2
  <2>4. owners[f] # {} /\ P \subseteq Threads \cup {Store}
    BY <1>0, <1>1, <2>1
  <2> QED
    BY <1>1, <2>2, <2>3, <2>4 DEF Owned
<1>6. Base(S, O2, C, D, K) /\ Tops(S, O2, C)
  BY <1>0, <1>1, <1>5, OwnedBase
<1>7. /\ Formed(g) /\ Called(g) = "other" /\ ~Uncaching(g) /\ ~Sole(g) /\ ~Uses(g) /\ ~Holds(g)
      /\ TopClaim(t, g, O2, C)
      /\ Doomed(g) => O2[f] = {}
  BY <1>4 DEF Formed, Called, Uncaching, Sole, Uses, Keeps, KeepsOnTop, Holds, TopClaim, Doomed
<1>8. Sits(S[t], g)
  BY <1>0, <1>1, <1>7, EnterSits
<1>9. Claim(t, g, O2, C, D, K)
  BY <1>3, <1>4, <1>7 DEF Claim
<1>10. Kind(g) = "other" \/ Free(S, Kind(g), g.item)
  <2>1. Free(S, "doomed", f)
    BY <1>0, <1>1, OwnedFree
  <2>2. Kind(g) \in {"other", "doomed"}
    BY <1>7 DEF Kind
  <2> QED
    BY <1>4, <2>1, <2>2
<1>11. Base(Grown(S, t, g), O2, C, D, K)
  BY ONLY <1>4, <1>6, <1>8, <1>9, <1>10, t \in Threads, PushBase
<1>12. stack' = Grown(S, t, g)
  BY <1>0, <1>1 DEF Grown
<1>13. Base(stack', owners', faces', descs', cached')
  BY <1>0, <1>1, <1>11, <1>12
<1>14. lib' \in Int /\ lib' >= Cardinality(Kept(stack', faces'))
  <2>1. PICK V : V = Grown(S, t, g)
    OBVIOUS
  <2>2. Kept(V, C) \subseteq Kept(S, C)
    BY <1>2, <1>4, <1>7, <2>1, GrownKept
  <2>3. C \in SUBSET Fonts /\ Kept(V, C) \subseteq Kept(stack, faces)
    BY <1>0, <1>2, <2>2 DEF World
  <2>4. lib \in Int /\ lib >= Cardinality(Kept(V, C))
    BY <2>3, LibStays
  <2> QED
    BY <1>0, <1>1, <1>12, <2>1, <2>4
<1>15. s \in Seq(Frame) /\ s # <<>> /\ s[Len(s)] = g
  BY <1>0, <1>2, <1>4, AppendTop
<1>16. \A u \in Threads \ {t} :
          stack[u] # <<>> => TopClaim(u, stack[u][Len(stack[u])], owners', faces')
  BY <1>0, <1>1, <1>6 DEF Tops
<1>17. s # <<>> => TopClaim(t, s[Len(s)], owners', faces')
  BY <1>0, <1>1, <1>7, <1>15
<1>18. others' \subseteq Others /\ scavenging' \in BOOLEAN
  BY <1>1 DEF FInv
<1> QED
  BY <1>1, <1>13, <1>14, <1>15, <1>16, <1>17, <1>18, Assembled

\* A value leaves the store: if it is a font, nobody refers to the description
\* any more.
LEMMA EvictVars ==
    ASSUME FInv, NEW t \in Threads, NEW x \in Fonts \cup Others, Evict(t, x)
    PROVE  /\ Base(stack, owners', faces', descs', cached') /\ Tops(stack, owners', faces')
           /\ x \in Fonts => owners[x] # {} /\ owners'[x] = {} /\ x \in descs
           /\ UNCHANGED <<faces, descs, cached, lib>>
           /\ others' \subseteq Others /\ scavenging' \in BOOLEAN
<1>1. UNCHANGED <<faces, descs, cached, lib>>
  BY DEF Evict
<1>2. others' \subseteq Others /\ scavenging' \in BOOLEAN
  <2>1. others \subseteq Others /\ scavenging \in BOOLEAN
    BY DEF FInv
  <2>2. others' = others \/ others' = others \ {x}
    BY DEF Evict
  <2>3. scavenging' = (scavenging \/ Scavenges(Top(t).work))
    BY DEF Evict
  <2> QED
    BY <2>1, <2>2, <2>3
<1>3. CASE x \notin Fonts
  <2>1. owners' = owners
    BY <1>3 DEF Evict
  <2> QED
    BY <1>1, <1>2, <1>3, <2>1 DEF FInv
<1>4. CASE x \in Fonts
  <2>1. owners[x] = {Store} /\ owners' = [owners EXCEPT ![x] = {}]
    BY <1>4 DEF Evict, Evictable, Unreferenced
  <2>2. owners \in [Fonts -> SUBSET (Threads \cup {Store})] /\ x \in descs
    BY <1>4, <2>1 DEF FInv, Base, World
  <2>3. ASSUME NEW u \in Threads, NEW i \in 1 .. Len(stack[u]), Uses(stack[u][i]), stack[u][i].item = x
        PROVE  u \in {}
    <3>1. u \in owners[x]
      BY <2>3 DEF FInv, Base, Claim
    <3> QED
      BY <2>1, <3>1, LocksAssumption
  <2>4. ASSUME NEW u \in Threads, stack[u] # <<>>, NEW y, y = stack[u][Len(stack[u])],
               y.proc = "load", y.pc = "store", y.item = x
        PROVE  u \in {}
    <3>1. u \in owners[x]
      BY <2>4 DEF FInv, Tops, TopClaim
    <3> QED
      BY <2>1, <3>1, LocksAssumption
  <2>5. Owned(x, {})
    BY <1>1, <2>1, <2>3, <2>4 DEF Owned
  <2>6. Base(stack, owners', faces', descs', cached') /\ Tops(stack, owners', faces')
    BY <1>4, <2>5, OwnedBase
  <2> QED
    BY <1>1, <1>2, <1>4, <2>1, <2>2, <2>6
<1> QED
  BY <1>3, <1>4

\* The frames of the section and of evict.
LEMMA EvictFrames ==
    ASSUME FInv, NEW t \in Threads, NEW x \in Fonts \cup Others, Evict(t, x)
    PROVE  \E d, e, U, V, q :
              /\ d = With(Top(t), "more") /\ e = F("evict", "relock", "none", x)
              /\ U = Grown(Cut(stack, t), t, d) /\ V = Grown(U, t, e) /\ q = Append(Popped(stack[t]), d)
              /\ Base(V, owners', faces', descs', cached')
              /\ V \in [Threads -> Seq(Frame)] /\ V[t] = Append(q, e) /\ q \in Seq(Frame)
              /\ d \in Frame /\ d.proc = "section" /\ d.pc = "more" /\ Plain(e) /\ e.proc = "evict"
              /\ Kept(V, faces) \subseteq Kept(stack, faces)
              /\ stack[t] # <<>>
              /\ \A k, f : k # "other" /\ Free(stack, k, f) => Free(V, k, f)
<1> PICK d, e, U, V, q :
       /\ d = With(Top(t), "more") /\ e = F("evict", "relock", "none", x)
       /\ U = Grown(Cut(stack, t), t, d) /\ V = Grown(U, t, e) /\ q = Append(Popped(stack[t]), d)
  OBVIOUS
<1>0. PICK S, T, p, h, O2, C, D, K :
         /\ S = stack /\ T = Cut(stack, t) /\ p = Popped(stack[t]) /\ h = Top(t)
         /\ O2 = owners' /\ C = faces /\ D = descs /\ K = cached
  OBVIOUS
<1>1. stack[t] # <<>> /\ h.proc = "section" /\ h.pc \in {"in", "more"} /\ "more" \in Pc
  BY <1>0 DEF Evict, At, Pc
<1>2. Base(S, O2, C, D, K) /\ C \subseteq Fonts /\ faces' = C /\ descs' = D /\ cached' = K
  BY <1>0, EvictVars DEF Base, World
<1>3. S \in [Threads -> Seq(Frame)] /\ T = Cut(S, t) /\ S[t] # <<>> /\ h = S[t][Len(S[t])] /\ p = Popped(S[t])
  BY <1>0, <1>1, <1>2 DEF Base, Top
<1>4. Base(T, O2, C, D, K) /\ Sits(p, h) /\ Claim(t, h, O2, C, D, K)
  BY <1>2, <1>3, PopBase
<1>5. T \in [Threads -> Seq(Frame)] /\ T[t] = p /\ p \in Seq(Frame) /\ h \in Frame /\ d \in Frame
  BY <1>0, <1>1, TopIs
<1>6. d.proc = "section" /\ d.pc = "more" /\ d.work = h.work /\ d.item = h.item
  BY <1>0, <1>1, <1>5, WithIs
<1>7. /\ ~Sole(d) /\ ~Doomed(d) /\ ~Uncaching(d) /\ ~Holds(d) /\ (Uses(d) <=> Uses(h))
      /\ Called(d) = "other" /\ Called(h) = "other" /\ Calling(d) = "other" /\ (Formed(h) => Formed(d))
  BY <1>1, <1>6
     DEF Sole, Doomed, Uncaching, Holds, Keeps, KeepsOnTop, Uses, Called, Calling, Formed
<1>8. Kind(d) = "other"
  BY <1>7 DEF Kind
<1>9. Sits(p, d)
  <2>1. Formed(d) /\ d.proc # "type3" /\ Called(d) = Called(h) /\ Called(d) = "other" /\ ~Uncaching(d)
    BY <1>4, <1>6, <1>7 DEF Sits
  <2> QED
    BY ONLY <1>4, <2>1 DEF Sits
<1>10. Claim(t, d, O2, C, D, K)
  BY ONLY <1>4, <1>6, <1>7 DEF Claim
<1>11. Base(U, O2, C, D, K)
  <2>1. U = Grown(T, t, d) /\ Sits(T[t], d)
    BY <1>0, <1>5, <1>9
  <2> QED
    BY ONLY <1>4, <1>5, <1>8, <1>10, <2>1, t \in Threads, PushBase
<1>12. /\ U \in [Threads -> Seq(Frame)] /\ U[t] = q /\ q \in Seq(Frame) /\ U = Grown(T, t, d)
  <2>1. U = Grown(T, t, d) /\ q = Append(T[t], d)
    BY <1>0, <1>5
  <2>2. U \in [Threads -> Seq(Frame)] /\ U[t] = q
    BY ONLY <1>5, <2>1, t \in Threads, GrownIs
  <2> QED
    BY <2>1, <2>2
<1>13. Plain(e) /\ e \in Frame /\ e.proc = "evict"
  <2>1. e \in Frame
    BY FrameTypes DEF Proc, Pc, Work
  <2>2. e.proc = "evict"
    BY DEF F
  <2> QED
    BY <2>1, <2>2, PlainIs
<1>14. Formed(e) /\ Called(e) = "other" /\ ~Uncaching(e) /\ ~Holds(e) /\ Kind(e) = "other"
       /\ Claim(t, e, O2, C, D, K)
  <2>1. ~Uses(e)
    BY <1>13 DEF Uses
  <2> QED
    BY <1>13, <2>1 DEF Plain
<1>15. Sits(q, e)
  <2>1. q = Append(p, d)
    BY <1>0
  <2>2. e.proc # "type3" /\ Formed(e) /\ Calling(d) = Called(e) /\ Called(e) = "other" /\ ~Uncaching(e)
    BY <1>7, <1>13, <1>14
  <2>3. Sits(Append(p, d), e)
    BY ONLY <1>5, <2>2, CalledSits
  <2> QED
    BY <2>1, <2>3
<1>16. Base(V, O2, C, D, K)
  <2>1. Sits(U[t], e)
    BY <1>12, <1>15
  <2> QED
    BY ONLY <1>11, <1>13, <1>14, <2>1, V = Grown(U, t, e), t \in Threads, PushBase
<1>17. V \in [Threads -> Seq(Frame)] /\ V[t] = Append(q, e)
  <2>1. V = Grown(U, t, e)
    OBVIOUS
  <2>2. V \in [Threads -> Seq(Frame)] /\ V[t] = Append(U[t], e)
    BY ONLY <1>12, <1>13, <2>1, t \in Threads, GrownIs
  <2> QED
    BY <1>12, <2>2
<1>18. Kept(V, C) \subseteq Kept(S, C)
  <2>1. p # <<>> => ~KeepsOnTop(p[Len(p)])
    BY <1>4, <1>7, QuietBelow
  <2>2. Kept(T, C) \subseteq Kept(S, C)
    BY ONLY <1>3, <2>1, t \in Threads, CutKept
  <2>3. Kept(U, C) \subseteq Kept(T, C)
    BY ONLY <1>5, <1>7, <1>12, t \in Threads, GrownKept
  <2>4. V = Grown(U, t, e)
    OBVIOUS
  <2>5. Kept(V, C) \subseteq Kept(U, C)
    BY ONLY <1>12, <1>13, <1>14, <2>4, t \in Threads, GrownKept
  <2> QED
    BY <2>2, <2>3, <2>5
<1>19. ASSUME NEW k, NEW f, k # "other", Free(S, k, f) PROVE Free(V, k, f)
  <2>1. Free(T, k, f)
    BY <1>3, <1>19, FreeCut
  <2>2. Free(U, k, f)
    BY ONLY <1>5, <1>8, <1>12, <1>19, <2>1, t \in Threads, FreeGrown
  <2>3. V = Grown(U, t, e)
    OBVIOUS
  <2> QED
    BY ONLY <1>12, <1>13, <1>14, <1>19, <2>2, <2>3, t \in Threads, FreeGrown
<1> QED
  <2>1. /\ Base(V, owners', faces', descs', cached')
        /\ V \in [Threads -> Seq(Frame)] /\ V[t] = Append(q, e) /\ q \in Seq(Frame)
        /\ d \in Frame /\ d.proc = "section" /\ d.pc = "more" /\ Plain(e) /\ e.proc = "evict"
        /\ Kept(V, faces) \subseteq Kept(stack, faces)
        /\ stack[t] # <<>>
    BY <1>0, <1>1, <1>2, <1>5, <1>6, <1>12, <1>13, <1>16, <1>17, <1>18
  <2>2. \A k, f : k # "other" /\ Free(stack, k, f) => Free(V, k, f)
    BY <1>0, <1>19
  <2>3. /\ d = With(Top(t), "more") /\ e = F("evict", "relock", "none", x)
        /\ U = Grown(Cut(stack, t), t, d) /\ V = Grown(U, t, e) /\ q = Append(Popped(stack[t]), d)
    OBVIOUS
  <2> QED
    BY ONLY <2>1, <2>2, <2>3, Zenon

LEMMA EvictFaces ==
    ASSUME FInv, Listed = {}, NEW t \in Threads, NEW x \in Fonts \cup Others, Evict(t, x)
    PROVE  FInv'
<1> PICK d, e, U, V, q :
       /\ d = With(Top(t), "more") /\ e = F("evict", "relock", "none", x)
       /\ U = Grown(Cut(stack, t), t, d) /\ V = Grown(U, t, e) /\ q = Append(Popped(stack[t]), d)
       /\ Base(V, owners', faces', descs', cached')
       /\ V \in [Threads -> Seq(Frame)] /\ V[t] = Append(q, e) /\ q \in Seq(Frame)
       /\ d \in Frame /\ d.proc = "section" /\ d.pc = "more" /\ Plain(e) /\ e.proc = "evict"
       /\ Kept(V, faces) \subseteq Kept(stack, faces)
       /\ stack[t] # <<>>
       /\ \A k, f : k # "other" /\ Free(stack, k, f) => Free(V, k, f)
  BY EvictFrames
<1>0. PICK g, r, O2, C, D, K :
         /\ g = DropFont("drop", x) /\ r = Append(q, e)
         /\ O2 = owners' /\ C = faces /\ D = descs /\ K = cached
  OBVIOUS
<1>1. /\ Base(V, O2, C, D, K) /\ V \in [Threads -> Seq(Frame)] /\ V[t] = r /\ q \in Seq(Frame)
      /\ d \in Frame /\ d.proc = "section" /\ d.pc = "more" /\ Plain(e) /\ e.proc = "evict" /\ e \in Frame
      /\ Kept(V, C) \subseteq Kept(stack, C) /\ stack[t] # <<>>
      /\ \A k, f : k # "other" /\ Free(stack, k, f) => Free(V, k, f)
  <2>1. UNCHANGED <<faces, descs, cached>>
    BY EvictVars
  <2>2. e \in Frame
    BY DEF Plain
  <2> QED
    BY <1>0, <2>1, <2>2
<1>2. /\ x \in Fonts => owners[x] # {} /\ O2[x] = {} /\ x \in D
      /\ faces' = C /\ descs' = D /\ cached' = K /\ lib' = lib
      /\ others' \subseteq Others /\ scavenging' \in BOOLEAN
      /\ Tops(stack, O2, C)
  BY <1>0, EvictVars
<1>3. \A u \in Threads \ {t} :
         stack[u] # <<>> => TopClaim(u, stack[u][Len(stack[u])], owners', faces')
  BY <1>0, <1>2 DEF Tops
<1>4. C \in SUBSET Fonts /\ stack \in [Threads -> Seq(Frame)]
  BY <1>0 DEF FInv, Base, World
<1>5. r \in Seq(Frame) /\ r # <<>> /\ r[Len(r)] = e /\ r = Append(q, e)
  BY <1>0, <1>1, AppendTop
<1>6. /\ stack' = [stack EXCEPT ![t] = r \o Destruction(x)]
      /\ V = [stack EXCEPT ![t] = r]
  <2>1. stack' = [stack EXCEPT ![t] = Append(Moved(@, "more"), e) \o Destruction(x)]
    BY <1>0 DEF Evict
  <2>2. Moved(stack[t], "more") = q
    <3>1. "more" \in Pc
      BY DEF Pc
    <3> QED
      BY <1>0, <1>1, <3>1, TopIs
  <2>3. stack' = [stack EXCEPT ![t] = r \o Destruction(x)]
    BY <1>5, <2>1, <2>2
  <2>4. V = [stack EXCEPT ![t] = r]
    BY <1>0, <1>1, <1>4 DEF Grown, Cut
  <2> QED
    BY <2>3, <2>4
<1>7. CASE x \notin Fonts
  <2>1. stack' = [stack EXCEPT ![t] = r]
    <3>1. r \o <<>> = r
      BY <1>5, ConcatEmptySeq
    <3>2. Destruction(x) = <<>>
      BY <1>7 DEF Destruction
    <3> QED
      BY <1>6, <3>1, <3>2
  <2>2. stack' = V
    BY <1>6, <2>1
  <2>3. Base(stack', owners', faces', descs', cached')
    BY <1>0, <1>1, <1>2, <2>2
  <2>4. lib' \in Int /\ lib' >= Cardinality(Kept(stack', faces'))
    <3>1. Kept(V, C) \subseteq Kept(stack, faces)
      BY <1>0, <1>1
    <3>2. lib \in Int /\ lib >= Cardinality(Kept(V, C))
      BY <1>4, <3>1, LibStays
    <3> QED
      BY <1>2, <2>2, <3>2
  <2>5. r # <<>> => TopClaim(t, r[Len(r)], owners', faces')
    BY <1>1, <1>5 DEF Plain
  <2> QED
    BY <1>2, <1>3, <1>5, <2>1, <2>3, <2>4, <2>5, Assembled
<1>8. CASE x \in Fonts
  <2>1. /\ g \in Frame /\ g.proc = "dropfont" /\ g.pc = "unref" /\ g.work = "drop" /\ g.item = x
    <3>1. "drop" \in Work
      BY DEF Work
    <3> QED
      BY <1>0, <1>8, <3>1, FrameStarts DEF DropFont, F
  <2>2. /\ ~Sole(g) /\ Doomed(g) /\ ~Uncaching(g) /\ ~Uses(g) /\ ~Holds(g) /\ Called(g) = "other"
        /\ Formed(g) /\ TopClaim(t, g, O2, C)
    BY <1>8, <2>1 DEF Sole, Doomed, Uncaching, Uses, Holds, Keeps, KeepsOnTop, Called, Formed, TopClaim
  <2>3. Kind(g) = "doomed"
    BY <2>2 DEF Kind
  <2>4. Claim(t, g, O2, C, D, K)
    BY <1>2, <1>8, <2>1, <2>2 DEF Claim
  <2>5. Free(V, "doomed", x)
    <3>1. Free(stack, "doomed", x)
      BY <1>2, <1>8, OwnedFree
    <3> QED
      BY <1>1, <3>1
  <2>6. Sits(V[t], g)
    <3>1. Calling(e) = "other"
      BY <1>1 DEF Calling
    <3>2. Formed(g) /\ g.proc # "type3" /\ Calling(e) = Called(g) /\ Called(g) = "other" /\ ~Uncaching(g)
      BY <2>1, <2>2, <3>1
    <3>3. q \in Seq(Frame) /\ e \in Frame /\ V[t] = Append(q, e)
      BY <1>1, <1>5
    <3>4. Sits(Append(q, e), g)
      BY ONLY <3>2, <3>3, CalledSits
    <3> QED
      BY <3>3, <3>4
  <2>7. PICK W, s : W = Grown(V, t, g) /\ s = Append(r, g)
    OBVIOUS
  <2>8. Base(W, O2, C, D, K)
    <3>1. Base(V, O2, C, D, K) /\ Free(V, Kind(g), g.item) /\ g \in Frame /\ W = Grown(V, t, g)
      BY <1>1, <2>1, <2>3, <2>5, <2>7
    <3> QED
      BY ONLY <2>4, <2>6, <3>1, t \in Threads, PushBase
  <2>9. s \in Seq(Frame) /\ s # <<>> /\ s[Len(s)] = g
    BY SMTT(40), <1>5, <2>1, <2>7, AppendTop
  <2>10. stack' = [stack EXCEPT ![t] = s]
    <3>1. s = r \o <<g>>
      BY <1>5, <2>1, <2>7, AppendIsConcat
    <3>2. Destruction(x) = <<g>>
      BY <1>0, <1>8 DEF Destruction
    <3> QED
      BY <1>6, <3>1, <3>2
  <2>11. stack' = W
    BY <1>1, <1>4, <1>6, <2>7, <2>10 DEF Grown
  <2>12. Base(stack', owners', faces', descs', cached')
    BY <1>0, <1>2, <2>8, <2>11
  <2>13. lib' \in Int /\ lib' >= Cardinality(Kept(stack', faces'))
    <3>1. Kept(W, C) \subseteq Kept(V, C)
      BY <1>1, <2>1, <2>2, <2>7, GrownKept
    <3>2. Kept(W, C) \subseteq Kept(stack, faces)
      BY <1>0, <1>1, <3>1
    <3>3. lib \in Int /\ lib >= Cardinality(Kept(W, C))
      BY <1>4, <3>2, LibStays
    <3> QED
      BY <1>2, <2>11, <3>3
  <2>14. s # <<>> => TopClaim(t, s[Len(s)], owners', faces')
    BY <1>0, <1>2, <2>2, <2>9
  <2> QED
    BY <1>2, <1>3, <2>9, <2>10, <2>12, <2>13, <2>14, Assembled
<1> QED
  BY <1>7, <1>8

-----------------------------------------------------------------------------
(* The invariant holds in every state. *)

\* It holds at first, and every step keeps it.
LEMMA FInvInit == Init => FInv
<1> SUFFICES ASSUME Init PROVE FInv
  OBVIOUS
<1>1. /\ stack = [t \in Threads |-> <<>>] /\ owners = [f \in Fonts |-> {}]
      /\ faces = {} /\ descs = {} /\ cached = {} /\ lib = 0 /\ others = {} /\ scavenging = FALSE
  BY DEF Init
<1>2. stack \in [Threads -> Seq(Frame)] /\ \A t \in Threads : stack[t] = <<>> /\ 1 .. Len(stack[t]) = {}
  BY <1>1
<1>3. Base(stack, owners, faces, descs, cached)
  BY <1>1, <1>2 DEF Base, World, Shaped, Unique
<1>4. Tops(stack, owners, faces)
  BY <1>2 DEF Tops
<1>5. Kept(stack, faces) = {}
  BY <1>1, <1>2 DEF Kept, Low, High
<1>6. lib \in Int /\ lib >= Cardinality(Kept(stack, faces))
  <2>1. PICK Z : Z = Kept(stack, faces)
    OBVIOUS
  <2>2. Z = {} /\ Cardinality(Z) = 0
    BY ONLY <1>5, <2>1, FS_EmptySet
  <2>3. lib = 0
    BY <1>1
  <2>4. lib \in Int /\ lib >= Cardinality(Z)
    BY ONLY <2>2, <2>3
  <2> QED
    BY ONLY <2>1, <2>4
<1>7. others \subseteq Others /\ scavenging \in BOOLEAN
  BY <1>1
<1> QED
  BY <1>3, <1>4, <1>6, <1>7 DEF FInv

LEMMA FInvNext == Listed = {} /\ IInv /\ FInv /\ [Next]_vars => FInv'
<1> SUFFICES ASSUME Listed = {}, IInv, FInv, [Next]_vars PROVE FInv'
  OBVIOUS
<1>1. CASE UNCHANGED vars
  BY <1>1 DEF vars, fontVars, storeVars, FInv
<1>2. ASSUME NEW t \in Threads, Step(t) PROVE FInv'
  BY <1>2, FtLockFaces, SetUserFaces, FtAllocFaces, FtWorkFaces, FtUnlockFaces, UnrefFaces,
     DropFreetypeFaces, LoadStepFaces, SectionLockFaces, RelockFaces, ScavengedFaces,
     SectionDoneFaces, EvictFaces, CacheLockFaces, RenderOutlineFaces, StartType3Faces,
     FinishType3Faces, NewEntryFaces, InsertFaces, CacheUnlockFaces, DropEntryFaces
  DEF Step
<1> QED
  BY <1>1, <1>2, BeginFaces, ShareFaces, DropFaces DEF Next

LEMMA FInvAlways == Listed = {} /\ Spec => []FInv
<1> SUFFICES ASSUME Listed = {} PROVE Spec => []FInv
  OBVIOUS
<1>1. IInv /\ FInv /\ [Next]_vars => FInv'
  BY FInvNext
<1>2. Spec => []IInv
  BY IInvAlways
<1> QED
  BY <1>1, <1>2, FInvInit, PTL DEF Spec

\* What the invariant says of a thread that is in FreeType.
LEMMA FaceOpenFollows == IInv /\ FInv => FaceOpenInUse
<1> SUFFICES ASSUME IInv, FInv PROVE FaceOpenInUse
  OBVIOUS
<1>1. lib \in Nat
  <2>1. faces \in SUBSET Fonts /\ lib \in Int /\ lib >= Cardinality(Kept(stack, faces))
    BY DEF FInv, Base, World
  <2>2. Cardinality(Kept(stack, faces)) \in Nat
    BY <2>1, KeptFinite
  <2> QED
    BY <2>1, <2>2
<1>2. TypeOK
  <2>1. /\ faces \subseteq Fonts /\ descs \subseteq Fonts /\ cached \subseteq Fonts
        /\ owners \in [Fonts -> SUBSET (Threads \cup {Store})]
        /\ others \subseteq Others /\ scavenging \in BOOLEAN
    BY DEF FInv, Base, World
  <2>2. /\ holder \in [Lock -> Threads \cup {None}] /\ user \in Threads \cup {None}
        /\ stack \in [Threads -> Seq(Frame)]
    BY DEF IInv, Types
  <2> QED
    BY <1>1, <2>1, <2>2 DEF TypeOK
<1>3. ASSUME NEW t \in Threads, InFreeType(t)
      PROVE  /\ Top(t).work \in {"use", "close"} => Top(t).item \in faces
             /\ Top(t).work \in {"open", "use", "close", "unkeep"} => lib > 0
  <2>1. PICK e : e = Top(t)
    OBVIOUS
  <2>2. stack[t] # <<>> /\ e.proc = "ft" /\ e.pc \in {"in", "had"}
    BY <1>3, <2>1 DEF InFreeType, At
  <2>3. Claim(t, e, owners, faces, descs, cached) /\ Formed(e)
    BY <2>1, <2>2, TopIs DEF Sits
  <2>4. e.work \in {"use", "close"} => e.item \in faces
    <3>1. CASE e.work = "use"
      <4>1. t \in owners[e.item] /\ e.item \in Fonts
        BY <2>2, <2>3, <3>1 DEF Claim, Uses, Formed
      <4> QED
        BY <4>1 DEF FInv, Base, World
    <3>2. CASE e.work = "close"
      BY <2>2, <2>3, <3>2 DEF Claim
    <3> QED
      BY <3>1, <3>2
  <2>5. e.work \in {"open", "use", "close", "unkeep"} => e.item \in Kept(stack, faces)
    <3>1. e.work \in {"open", "unkeep"} => e.item \in Kept(stack, faces)
      <4>1. e.work \in {"open", "unkeep"} => Holds(e) /\ e.item \in Fonts
        BY <2>2, <2>3 DEF Holds, Keeps, Formed
      <4> QED
        BY <2>1, <2>2, <4>1, HeldIsKept
    <3> QED
      BY <2>4, <3>1 DEF Kept
  <2>6. e.item \in Kept(stack, faces) => lib > 0
    <3>1. PICK Z : Z = Kept(stack, faces)
      OBVIOUS
    <3>2. IsFiniteSet(Z) /\ lib \in Int /\ lib >= Cardinality(Z) /\ Cardinality(Z) \in Nat
      BY <3>1, KeptFinite DEF FInv, Base, World
    <3>3. e.item \in Z => Cardinality(Z) # 0
      BY <3>2, FS_EmptySet
    <3> QED
      BY <3>1, <3>2, <3>3
  <2> QED
    BY <2>1, <2>4, <2>5, <2>6
<1> QED
  BY <1>2, <1>3 DEF FaceOpenInUse

\* A thread in FreeType works on an open face, and the library is there: nobody
\* closes a face, or lets go of the library, that another thread still uses.
THEOREM FaceAlwaysOpen == Listed = {} /\ Spec => []FaceOpenInUse
<1> SUFFICES ASSUME Listed = {} PROVE Spec => []FaceOpenInUse
  OBVIOUS
<1>1. Spec => []IInv /\ []FInv
  BY IInvAlways, FInvAlways
<1> QED
  BY <1>1, FaceOpenFollows, PTL
=============================================================================
