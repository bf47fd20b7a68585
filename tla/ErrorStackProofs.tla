-------------------------- MODULE ErrorStackProofs --------------------------
(***************************************************************************)
(* Theorems about ErrorStack, for an array of any size, any nesting of try *)
(* statements and any error codes, under the rules context.h gives for the *)
(* blocks (Habits = {}).                                                   *)
(*                                                                         *)
(* The library knows slots, the program knows statements, and the          *)
(* invariant ties them together: slot i belongs to the i-th statement that *)
(* can still be jumped to (Matches), and the state and the code of the     *)
(* slot say how far that statement is and what was thrown into it          *)
(* (Agrees).  The last two parts of it are about the ends of the array and *)
(* of the catch blocks: the level kept for an overflow is only in use      *)
(* while the always block of the statement that overflowed is running      *)
(* (Reserved), and a catch block that may rethrow has an error (Fresh).    *)
(***************************************************************************)
EXTENDS ErrorStack, SequenceTheorems, FiniteSetTheorems, TLAPS

(* A statement in its catch block was thrown into and has been cleaned up. *)
Caught(f) ==
    f.phase = "catch" => f.thrown # None /\ (f.always => f.ran = 1)

FramesOK(fs) ==
    /\ fs \in Seq(Frame) /\ Len(fs) <= MaxFrames
    /\ \A p \in 1..Len(fs) : Caught(fs[p])
    /\ \A p \in 1..Len(fs) : p < Len(fs) /\ fs[p].phase = "catch" => ~fs[p].fresh

(* The jump buffers in use belong to the guarded statements, in order.     *)
Matches(fs, st) ==
    /\ st \in Seq(Slot)
    /\ \A i \in 1..Len(st) :
          st[i].buf \in 1..Len(fs) /\ fs[st[i].buf].phase # "catch"
    /\ \A i, j \in 1..Len(st) : i < j => st[i].buf < st[j].buf
    /\ \A p \in 1..Len(fs) :
          fs[p].phase # "catch" => \E i \in 1..Len(st) : st[i].buf = p

Agrees(f, s) ==
    /\ s.code = f.thrown
    /\ \/ f.phase = "try" /\ f.ran = 0 /\ f.thrown = None /\ s.state = 0
       \/ /\ f.phase = "always" /\ f.always /\ f.ran = 1
          /\ s.state = IF f.thrown = None THEN 1 ELSE 3

AgreeUpTo(fs, st, n) == \A i \in 1..n : Agrees(fs[st[i].buf], st[i])

Reserved(fs, st) ==
    Len(st) < N /\ (Len(st) = N - 1 => fs # <<>> /\ fs[Len(fs)].phase = "always")

Fresh(fs, e) ==
    /\ fs = <<>> => e = None
    /\ fs # <<>> /\ fs[Len(fs)].phase = "catch" /\ fs[Len(fs)].fresh =>
          fs[Len(fs)].handled \/ e # None

Shape ==
    /\ FramesOK(frames)
    /\ Matches(frames, stack)
    /\ AgreeUpTo(frames, stack, Len(stack))
    /\ Reserved(frames, stack)
    /\ Fresh(frames, errcode)
    /\ errcode \in Code

IInv == Shape /\ exited \in BOOLEAN

-----------------------------------------------------------------------------
(* Leaving a block.  fs and st are the statements and the slots when the   *)
(* block of the last statement of fs has been left, by its end or by a     *)
(* longjmp.                                                                *)

Leaving(fs, st) ==
    /\ FramesOK(fs) /\ Matches(fs, st)
    /\ fs # <<>> /\ st # <<>> /\ st[Len(st)].buf = Len(fs)
    /\ AgreeUpTo(fs, st, Len(st) - 1)
    /\ Len(st) < N
    /\ st[Len(st)].code = fs[Len(fs)].thrown

\* The try block was left, and there is an always block to come.
FromTry(f, s) ==
    f.phase = "try" /\ f.ran = 0 /\ s.state = IF f.thrown = None THEN 0 ELSE 2

\* No block but the catch block is left to run.
Cleaned(f, s) ==
    (f.always => f.ran = 1) /\ (s.state > 1 <=> f.thrown # None)

(* What has become of the statements fs.                                   *)
Outcome(fs) ==
    /\ Len(frames') \in {Len(fs) - 1, Len(fs)}
    /\ \A p \in 1..Len(fs) - 1 : frames'[p] = fs[p]
    /\ Len(frames') = Len(fs) /\ frames'[Len(fs)].phase = "catch" =>
          errcode' = frames'[Len(fs)].thrown
    /\ Len(frames') < Len(fs) =>
          /\ fs[Len(fs)].thrown = None
          /\ fs[Len(fs)].always => fs[Len(fs)].ran = 1

\* A sequence without its last element.
LEMMA FrontProperties ==
  ASSUME NEW S, NEW s \in Seq(S), s # <<>>
  PROVE  /\ Front(s) \in Seq(S) /\ Len(s) \in Nat \ {0}
         /\ Len(Front(s)) = Len(s) - 1
         /\ \A i \in 1..Len(s) - 1 : Front(s)[i] = s[i]
  <1>1. Len(s) \in Nat \ {0}
    BY EmptySeq
  <1>2. \A i \in 1..Len(s) - 1 : s[i] \in S
    BY <1>1, ElementOfSeq
  <1>. DEFINE n == Len(s) - 1
              t == SubSeq(s, 1, n)
  <1>3. /\ t \in Seq(S) /\ Len(t) = IF 1 <= n THEN n - 1 + 1 ELSE 0
        /\ \A i \in 1..n - 1 + 1 : t[i] = s[1 + i - 1]
    BY <1>1, <1>2, SubSeqProperties
  <1>4. Front(s) = t
    BY DEF Front
  <1>. HIDE DEF t
  <1>5. Len(t) = n
    <2>1. n \in Nat
      BY <1>1
    <2>. HIDE DEF n
    <2>2. IF 1 <= n THEN n - 1 + 1 = n ELSE n = 0
      BY <2>1
    <2>. QED
      BY <1>3, <2>2
  <1>6. ASSUME NEW i \in 1..n PROVE t[i] = s[i]
    <2>1. i \in 1..n - 1 + 1 /\ 1 + i - 1 = i
      BY <1>1
    <2>. QED
      BY <1>3, <2>1
  <1>. QED
    BY <1>1, <1>3, <1>4, <1>5, <1>6

\* What Leaving says of the last statement and its slot.
LEMMA LeavingLast ==
  ASSUME NEW fs, NEW st, Leaving(fs, st)
  PROVE  /\ fs \in Seq(Frame) /\ st \in Seq(Slot)
         /\ Len(fs) \in Nat \ {0} /\ Len(st) \in Nat \ {0}
         /\ \A p \in 1..Len(fs) : fs[p] \in Frame
         /\ \A i \in 1..Len(st) : st[i] \in Slot
         /\ fs[Len(fs)].phase # "catch"
         /\ \A i \in 1..Len(st) - 1 : st[i].buf \in 1..Len(fs) - 1
  <1>1. fs \in Seq(Frame) /\ st \in Seq(Slot) /\ fs # <<>> /\ st # <<>>
    BY DEF Leaving, FramesOK, Matches
  <1>2. Len(fs) \in Nat \ {0} /\ Len(st) \in Nat \ {0}
    BY <1>1, EmptySeq
  <1>3. \A i \in 1..Len(st) - 1 : st[i].buf < st[Len(st)].buf /\ st[i].buf \in 1..Len(fs)
    BY SMTT(40), <1>2 DEF Leaving, Matches
  <1>4. fs[Len(fs)].phase # "catch"
    BY <1>2 DEF Leaving, Matches
  <1>. QED
    BY <1>1, <1>2, <1>3, <1>4, ElementOfSeq DEF Leaving

\* The always block is entered: only the phase of the last statement changes.
LEMMA DoAlwaysOK ==
  ASSUME NEW fs, NEW st, NEW e \in Code, Leaving(fs, st),
         FromTry(fs[Len(fs)], st[Len(st)]), fs[Len(fs)].always, DoAlways(fs, st, e)
  PROVE  Shape' /\ Outcome(fs) /\ Len(frames') = Len(fs)
  <1>. DEFINE n == Len(fs)
              m == Len(st)
              f == [fs[n] EXCEPT !.phase = "always", !.ran = @ + 1]
              s == [st[m] EXCEPT !.state = @ + 1]
  <1>1. /\ fs \in Seq(Frame) /\ st \in Seq(Slot)
        /\ n \in Nat \ {0} /\ m \in Nat \ {0}
        /\ fs[n] \in Frame /\ st[m] \in Slot
        /\ \A i \in 1..m - 1 : st[i].buf \in 1..n - 1
    BY LeavingLast
  <1>2. f \in Frame /\ s \in Slot
    <2>1. fs[n].ran + 1 \in 0..1
      BY DEF FromTry
    <2>2. st[m].state + 1 \in 0..5
      BY DEF FromTry
    <2>. QED
      BY <1>1, <2>1, <2>2 DEF Frame, Slot
  <1>3. frames' = [fs EXCEPT ![n] = f] /\ stack' = [st EXCEPT ![m] = s] /\ errcode' = e
    BY <1>1 DEF DoAlways, Frame
  <1>4. /\ frames' \in Seq(Frame) /\ Len(frames') = n
        /\ \A p \in 1..n : frames'[p] = IF p = n THEN f ELSE fs[p]
    <2>. HIDE DEF f
    <2>. QED
      BY <1>1, <1>2, <1>3, ExceptSeq
  <1>5. /\ stack' \in Seq(Slot) /\ Len(stack') = m
        /\ \A i \in 1..m : stack'[i] = IF i = m THEN s ELSE st[i]
    <2>. HIDE DEF s
    <2>. QED
      BY <1>1, <1>2, <1>3, ExceptSeq
  <1>6. f.phase = "always" /\ f.always /\ f.ran = 1 /\ f.thrown = fs[n].thrown
    BY <1>1 DEF FromTry, Frame
  <1>7. s.buf = n /\ s.code = f.thrown /\ s.state = IF f.thrown = None THEN 1 ELSE 3
    BY <1>1, <1>6 DEF FromTry, Slot, Leaving
  <1>. HIDE DEF f, s
  <1>8. FramesOK(frames)'
    BY <1>1, <1>4, <1>6 DEF FramesOK, Caught, Leaving
  <1>9. Matches(frames, stack)'
    <2>1. \A i \in 1..m : stack'[i].buf = st[i].buf
      BY <1>1, <1>5, <1>7 DEF Leaving
    <2>2. \A p \in 1..n : frames'[p].phase # "catch" <=> fs[p].phase # "catch"
      BY <1>1, <1>4, <1>6, LeavingLast
    <2>3. Matches(fs, st)
      BY DEF Leaving
    <2>4. \A i \in 1..m :
             stack'[i].buf \in 1..n /\ frames'[stack'[i].buf].phase # "catch"
      BY <2>1, <2>2, <2>3, <1>1 DEF Matches
    <2>5. \A i, j \in 1..m : i < j => stack'[i].buf < stack'[j].buf
      BY <2>1, <2>3, <1>1 DEF Matches
    <2>6. \A p \in 1..n :
             frames'[p].phase # "catch" => \E i \in 1..m : stack'[i].buf = p
      BY <2>1, <2>2, <2>3, <1>1 DEF Matches
    <2>. QED
      BY <2>4, <2>5, <2>6, <1>4, <1>5 DEF Matches
  <1>10. AgreeUpTo(frames, stack, Len(stack))'
    <2>. SUFFICES ASSUME NEW i \in 1..m PROVE Agrees(frames'[stack'[i].buf], stack'[i])
      BY <1>5 DEF AgreeUpTo
    <2>1. CASE i = m
      <3>1. stack'[i] = s /\ frames'[n] = f
        BY SMTT(40), <2>1, <1>1, <1>4, <1>5
      <3>. QED
        BY <3>1, <1>6, <1>7 DEF Agrees
    <2>2. CASE i # m
      <3>1. i \in 1..m - 1 /\ stack'[i] = st[i]
        BY <2>2, <1>1, <1>5
      <3>2. st[i].buf \in 1..n - 1 /\ frames'[st[i].buf] = fs[st[i].buf]
        BY <3>1, <1>1, <1>4
      <3>3. Agrees(fs[st[i].buf], st[i])
        BY <3>1 DEF AgreeUpTo, Leaving
      <3>. QED
        BY <3>1, <3>2, <3>3
    <2>. QED
      BY <2>1, <2>2
  <1>11. Reserved(frames, stack)' /\ Fresh(frames, errcode)' /\ errcode' \in Code
    BY <1>1, <1>3, <1>4, <1>5, <1>6, EmptySeq DEF Reserved, Fresh, Leaving
  <1>. QED
    BY <1>1, <1>4, <1>6, <1>8, <1>9, <1>10, <1>11 DEF Shape, Outcome

\* The catch block is entered, with what was thrown as the current error.
LEMMA EnterCatch ==
  ASSUME NEW fs, NEW st, Leaving(fs, st),
         Cleaned(fs[Len(fs)], st[Len(st)]), fs[Len(fs)].thrown # None, DoCatch(fs, st)
  PROVE  Shape' /\ Outcome(fs) /\ Len(frames') = Len(fs)
  <1>. DEFINE n == Len(fs)
              m == Len(st)
              f == [fs[n] EXCEPT !.phase = "catch", !.fresh = TRUE]
  <1>1. /\ fs \in Seq(Frame) /\ st \in Seq(Slot)
        /\ n \in Nat \ {0} /\ m \in Nat \ {0}
        /\ fs[n] \in Frame /\ st[m] \in Slot /\ st # <<>>
        /\ \A i \in 1..m - 1 : st[i].buf \in 1..n - 1
    BY SMTT(40), LeavingLast DEF Leaving
  <1>2. f \in Frame
    BY <1>1 DEF Frame
  <1>3. frames' = [fs EXCEPT ![n] = f] /\ stack' = Front(st) /\ errcode' = st[m].code
    BY <1>1 DEF DoCatch, CatchIf, Cleaned, Last, Frame
  <1>4. /\ frames' \in Seq(Frame) /\ Len(frames') = n
        /\ \A p \in 1..n : frames'[p] = IF p = n THEN f ELSE fs[p]
    <2>. HIDE DEF f
    <2>. QED
      BY <1>1, <1>2, <1>3, ExceptSeq
  <1>5. /\ stack' \in Seq(Slot) /\ Len(stack') = m - 1
        /\ \A i \in 1..m - 1 : stack'[i] = st[i]
    BY <1>1, <1>3, FrontProperties
  <1>6. /\ f.phase = "catch" /\ f.thrown = fs[n].thrown
        /\ f.always = fs[n].always /\ f.ran = fs[n].ran
    BY <1>1 DEF Frame
  <1>7. errcode' = f.thrown /\ errcode' # None /\ errcode' \in Code
    BY <1>1, <1>3, <1>6 DEF Leaving, Slot
  <1>. HIDE DEF f
  <1>8. FramesOK(frames)'
    BY <1>1, <1>4, <1>6, <1>7 DEF FramesOK, Caught, Cleaned, Leaving
  <1>9. Matches(frames, stack)'
    <2>1. Matches(fs, st) /\ st[m].buf = n
      BY DEF Leaving
    <2>5. \A i : i \in 1..m - 1 <=> i \in 1..m /\ i # m
      BY <1>1
    <2>2. \A i \in 1..m - 1 :
             stack'[i].buf \in 1..n /\ frames'[stack'[i].buf].phase # "catch"
      BY SMTT(40), <2>1, <2>5, <1>1, <1>4, <1>5 DEF Matches
    <2>3. \A i, j \in 1..m - 1 : i < j => stack'[i].buf < stack'[j].buf
      BY <2>1, <2>5, <1>5 DEF Matches
    <2>4. ASSUME NEW p \in 1..n, frames'[p].phase # "catch"
          PROVE  \E i \in 1..m - 1 : stack'[i].buf = p
      <3>1. p # n /\ fs[p].phase # "catch"
        BY <2>4, <1>4, <1>6
      <3>2. PICK i \in 1..m : st[i].buf = p
        BY <3>1, <2>1 DEF Matches
      <3>. QED
        BY <3>1, <3>2, <2>1, <2>5, <1>5
    <2>. QED
      BY <2>2, <2>3, <2>4, <1>4, <1>5 DEF Matches
  <1>10. AgreeUpTo(frames, stack, Len(stack))'
    BY <1>1, <1>4, <1>5 DEF AgreeUpTo, Leaving
  <1>11. Reserved(frames, stack)' /\ Fresh(frames, errcode)'
    BY <1>1, <1>4, <1>5, <1>7, EmptySeq, ErrorAssumption DEF Reserved, Fresh, Leaving
  <1>. QED
    BY <1>1, <1>4, <1>6, <1>7, <1>8, <1>9, <1>10, <1>11 DEF Shape, Outcome

\* The statement is over: nothing was thrown into it.
LEMMA LeaveStatement ==
  ASSUME NEW fs, NEW st, Leaving(fs, st),
         Cleaned(fs[Len(fs)], st[Len(st)]), fs[Len(fs)].thrown = None, DoCatch(fs, st)
  PROVE  Shape' /\ Outcome(fs)
  <1>. DEFINE n == Len(fs)
              m == Len(st)
  <1>1. /\ fs \in Seq(Frame) /\ st \in Seq(Slot) /\ fs # <<>> /\ st # <<>>
        /\ n \in Nat \ {0} /\ m \in Nat \ {0}
        /\ fs[n] \in Frame /\ st[m] \in Slot
        /\ fs[n].phase # "catch"
        /\ \A i \in 1..m - 1 : st[i].buf \in 1..n - 1
    BY LeavingLast DEF Leaving
  <1>2. frames' = Front(fs) /\ stack' = Front(st) /\ errcode' = None
    BY <1>1 DEF DoCatch, CatchIf, Cleaned, Last, Leaving
  <1>3. /\ frames' \in Seq(Frame) /\ Len(frames') = n - 1
        /\ \A p \in 1..n - 1 : frames'[p] = fs[p]
    BY <1>1, <1>2, FrontProperties
  <1>4. /\ stack' \in Seq(Slot) /\ Len(stack') = m - 1
        /\ \A i \in 1..m - 1 : stack'[i] = st[i]
    BY <1>1, <1>2, FrontProperties
  <1>5. FramesOK(frames)'
    <2>1. /\ Len(fs) <= MaxFrames /\ MaxFrames \in Int
          /\ \A p \in 1..n : Caught(fs[p])
          /\ \A p \in 1..n : p < n /\ fs[p].phase = "catch" => ~fs[p].fresh
      BY ErrorAssumption DEF FramesOK, Leaving
    <2>2. \A p \in 1..n - 1 : p \in 1..n /\ p < n
      BY <1>1
    <2>3. n - 1 <= MaxFrames
      BY <1>1, <2>1
    <2>. HIDE DEF n
    <2>. QED
      BY <1>3, <2>1, <2>2, <2>3 DEF FramesOK
  <1>6. Matches(frames, stack)'
    <2>1. Matches(fs, st) /\ st[m].buf = n
      BY DEF Leaving
    <2>5. \A i : i \in 1..m - 1 <=> i \in 1..m /\ i # m
      BY <1>1
    <2>2. \A i \in 1..m - 1 :
             stack'[i].buf \in 1..n - 1 /\ frames'[stack'[i].buf].phase # "catch"
      BY <2>1, <2>5, <1>1, <1>3, <1>4 DEF Matches
    <2>3. \A i, j \in 1..m - 1 : i < j => stack'[i].buf < stack'[j].buf
      BY <2>1, <2>5, <1>4 DEF Matches
    <2>4. ASSUME NEW p \in 1..n - 1, frames'[p].phase # "catch"
          PROVE  \E i \in 1..m - 1 : stack'[i].buf = p
      <3>1. p # n /\ p \in 1..n /\ fs[p].phase # "catch"
        BY <2>4, <1>1, <1>3
      <3>2. PICK i \in 1..m : st[i].buf = p
        BY <3>1, <2>1 DEF Matches
      <3>. QED
        BY <3>1, <3>2, <2>1, <2>5, <1>4
    <2>. QED
      BY <2>2, <2>3, <2>4, <1>3, <1>4 DEF Matches
  <1>7. AgreeUpTo(frames, stack, Len(stack))'
    BY <1>1, <1>3, <1>4 DEF AgreeUpTo, Leaving
  <1>8. Reserved(frames, stack)' /\ errcode' \in Code
    BY <1>1, <1>2, <1>4, ErrorAssumption DEF Reserved, Leaving, Code
  <1>9. Fresh(frames, errcode)'
    BY <1>1, <1>2, <1>3, EmptySeq DEF Fresh, FramesOK, Leaving
  <1>. QED
    BY <1>1, <1>3, <1>5, <1>6, <1>7, <1>8, <1>9 DEF Shape, Outcome, Cleaned

\* fz_do_catch, once the always block, if any, has been run.
LEMMA DoCatchOK ==
  ASSUME NEW fs, NEW st, Leaving(fs, st),
         Cleaned(fs[Len(fs)], st[Len(st)]), DoCatch(fs, st)
  PROVE  /\ Shape' /\ Outcome(fs)
         /\ fs[Len(fs)].thrown # None => Len(frames') = Len(fs)
  BY EnterCatch, LeaveStatement

\* What follows a block, whichever it was.
LEMMA AfterTryOK ==
  ASSUME NEW fs, NEW st, NEW e \in Code, Leaving(fs, st),
         FromTry(fs[Len(fs)], st[Len(st)])
         \/ /\ Cleaned(fs[Len(fs)], st[Len(st)])
            /\ fs[Len(fs)].thrown # None /\ st[Len(st)].state \in {3, 5},
         AfterTry(fs, st, e)
  PROVE  /\ Shape' /\ Outcome(fs)
         /\ fs[Len(fs)].thrown # None => Len(frames') = Len(fs)
  <1>. DEFINE f == fs[Len(fs)]
              s == st[Len(st)]
  <1>1. CASE f.always /\ s.state < 3
    <2>1. FromTry(f, s)
      BY <1>1
    <2>2. DoAlways(fs, st, e)
      BY <1>1 DEF AfterTry, AlwaysDue, Last
    <2>. QED
      BY <1>1, <2>1, <2>2, DoAlwaysOK
  <1>2. CASE ~(f.always /\ s.state < 3)
    <2>1. DoCatch(fs, st)
      BY <1>2 DEF AfterTry, AlwaysDue, Last
    <2>2. Cleaned(f, s)
      BY <1>2 DEF Cleaned, FromTry
    <2>. QED
      BY <2>1, <2>2, DoCatchOK
  <1>. QED
    BY <1>1, <1>2

-----------------------------------------------------------------------------
(* The actions.                                                            *)

(* What a step does to the always blocks, and to what was thrown.          *)
CleanupStep ==
    \A p \in 1..Len(frames) :
        Len(frames') < p /\ frames[p].always => frames[p].ran = 1

CaughtStep ==
    /\ \A p \in 1..Len(frames') :
          /\ frames'[p].phase = "catch"
          /\ p > Len(frames) \/ frames[p].phase # "catch"
          => errcode' = frames'[p].thrown
    /\ \A p \in 1..Len(frames) :
          /\ Len(frames') < p
          /\ frames[p].phase # "catch"
          => frames[p].thrown = None

Goal == Shape' /\ CleanupStep /\ CaughtStep

\* The types of the state's parts.
LEMMA ShapeTypes ==
  ASSUME Shape
  PROVE  /\ frames \in Seq(Frame) /\ stack \in Seq(Slot)
         /\ Len(frames) \in Nat /\ top \in Nat /\ top = Len(stack)
         /\ \A p \in 1..Len(frames) : frames[p] \in Frame
         /\ \A i \in 1..top : stack[i] \in Slot
         /\ frames # <<>> <=> Len(frames) > 0
         /\ stack # <<>> <=> top > 0
  <1>1. frames \in Seq(Frame) /\ stack \in Seq(Slot)
    BY DEF Shape, FramesOK, Matches
  <1>2. Len(frames) \in Nat /\ Len(stack) \in Nat
    BY <1>1, LenProperties
  <1>3. (frames # <<>> <=> Len(frames) > 0) /\ (stack # <<>> <=> Len(stack) > 0)
    BY <1>1, <1>2, EmptySeq
  <1>. QED
    BY <1>1, <1>2, <1>3, ElementOfSeq DEF top

\* The top slot is that of the innermost statement that can be jumped to.
LEMMA TopSlot ==
  ASSUME Shape, NEW p \in 1..Len(frames), frames[p].phase # "catch"
  PROVE  stack # <<>> /\ p <= stack[top].buf
  <1>1. PICK i \in 1..top : stack[i].buf = p
    BY ShapeTypes DEF Shape, Matches
  <1>2. top \in 1..top /\ stack[top] \in Slot /\ stack # <<>>
    BY <1>1, ShapeTypes
  <1>3. i = top \/ stack[i].buf < stack[top].buf
    <2>1. top = Len(stack) /\ (i = top \/ i < top)
      BY <1>1, ShapeTypes
    <2>2. \A k, j \in 1..Len(stack) : k < j => stack[k].buf < stack[j].buf
      BY DEF Shape, Matches
    <2>. QED
      BY <2>1, <2>2, <1>1, <1>2
  <1>4. stack[top].buf \in Nat
    BY <1>2, ErrorAssumption DEF Slot
  <1>. QED
    BY <1>1, <1>2, <1>3, <1>4

\* A try or an always block is left by its end.
LEMMA EndOK ==
  ASSUME Shape, frames # <<>>, Current.phase # "catch"
  PROVE  Leaving(frames, stack) /\ Agrees(Current, stack[Len(stack)])
  <1>1. Len(frames) \in 1..Len(frames) /\ frames[Len(frames)].phase # "catch"
    BY ShapeTypes DEF Current
  <1>2. stack # <<>> /\ top \in 1..top /\ Len(frames) <= stack[top].buf
    BY <1>1, TopSlot, ShapeTypes
  <1>3. stack[top].buf \in 1..Len(frames)
    BY <1>2, ShapeTypes DEF Shape, Matches
  <1>4. stack[top].buf = Len(frames)
    BY <1>2, <1>3, ShapeTypes
  <1>5. Agrees(Current, stack[Len(stack)])
    BY <1>2, <1>4, ShapeTypes DEF Shape, AgreeUpTo, Current
  <1>6. \A i \in 1..Len(stack) - 1 : i \in 1..Len(stack)
    BY ShapeTypes
  <1>. QED
    BY <1>2, <1>4, <1>5, <1>6, ShapeTypes DEF Shape, Leaving, Reserved, AgreeUpTo, Agrees, Current

\* What the outcome of leaving a block means for the statements of the state.
LEMMA OutcomeOfEnd ==
  ASSUME Shape, frames # <<>>, Current.phase # "catch", Outcome(frames)
  PROVE  CleanupStep /\ CaughtStep
  <1>1. Len(frames) \in Nat /\ Len(frames) > 0
    BY ShapeTypes
  <1>2. CleanupStep
    BY <1>1 DEF CleanupStep, Outcome
  <1>3. CaughtStep
    BY <1>1 DEF CaughtStep, Outcome
  <1>. QED
    BY <1>2, <1>3

LEMMA EndTryOK == ASSUME Shape, EndTry PROVE Goal
  <1>1. frames # <<>> /\ Current.phase = "try" /\ AfterTry(frames, stack, errcode)
    BY DEF EndTry, In
  <1>2. Leaving(frames, stack) /\ Agrees(Current, stack[Len(stack)])
    BY <1>1, EndOK
  <1>3. FromTry(frames[Len(frames)], stack[Len(stack)])
    BY <1>1, <1>2 DEF Agrees, FromTry, Current
  <1>4. Shape' /\ Outcome(frames)
    BY <1>1, <1>2, <1>3, AfterTryOK DEF Shape
  <1>. QED
    BY <1>1, <1>4, OutcomeOfEnd DEF Goal

LEMMA EndAlwaysOK == ASSUME Shape, EndAlways PROVE Goal
  <1>1. frames # <<>> /\ Current.phase = "always" /\ DoCatch(frames, stack)
    BY DEF EndAlways, In
  <1>2. Leaving(frames, stack) /\ Agrees(Current, stack[Len(stack)])
    BY <1>1, EndOK
  <1>3. Cleaned(frames[Len(frames)], stack[Len(stack)])
    BY <1>1, <1>2 DEF Agrees, Cleaned, Current
  <1>4. Shape' /\ Outcome(frames)
    BY <1>1, <1>2, <1>3, DoCatchOK
  <1>. QED
    BY <1>1, <1>4, OutcomeOfEnd DEF Goal

\* A catch block that ends cleanly leaves no error behind.
LEMMA EndCatchOK == ASSUME Shape, Habits = {}, EndCatch PROVE Goal
  <1>. DEFINE n == Len(frames)
  <1>1. /\ frames # <<>> /\ frames[n].phase = "catch" /\ errcode = None
        /\ frames' = Front(frames) /\ stack' = stack /\ errcode' = None
    BY DEF EndCatch, In, Current
  <1>2. /\ frames \in Seq(Frame) /\ stack \in Seq(Slot)
        /\ n \in Nat \ {0} /\ Len(stack) \in Nat
    BY <1>1, ShapeTypes
  <1>3. /\ frames' \in Seq(Frame) /\ Len(frames') = n - 1
        /\ \A p \in 1..n - 1 : frames'[p] = frames[p]
    BY <1>1, <1>2, FrontProperties
  <1>4. \A p : p \in 1..n - 1 <=> p \in 1..n /\ p # n
    BY <1>2
  <1>5. \A i \in 1..Len(stack) : stack[i].buf \in 1..n - 1
    BY <1>1, <1>4 DEF Shape, Matches
  <1>6. FramesOK(frames)'
    BY <1>2, <1>3, <1>4, ErrorAssumption DEF Shape, FramesOK
  <1>7. Matches(frames, stack)'
    BY <1>1, <1>3, <1>4, <1>5 DEF Shape, Matches
  <1>8. AgreeUpTo(frames, stack, Len(stack))'
    BY <1>1, <1>3, <1>5 DEF Shape, AgreeUpTo
  <1>9. Reserved(frames, stack)'
    BY <1>1 DEF Shape, Reserved
  <1>10. Fresh(frames, errcode)' /\ errcode' \in Code
    BY <1>1, <1>2, <1>3, <1>4, EmptySeq DEF Shape, Fresh, FramesOK, Code
  <1>11. Shape'
    BY <1>6, <1>7, <1>8, <1>9, <1>10 DEF Shape
  <1>12. CleanupStep
    BY <1>1, <1>2, <1>3 DEF CleanupStep, Shape, FramesOK, Caught
  <1>13. CaughtStep
    <2>1. \A p \in 1..n - 1 : frames'[p] = frames[p] /\ p \in 1..n /\ ~(p > n)
      BY <1>2, <1>3
    <2>2. \A p \in 1..n : Len(frames') < p => p = n
      BY <1>2, <1>3
    <2>. QED
      BY <1>1, <1>3, <2>1, <2>2 DEF CaughtStep
  <1>. QED
    BY <1>11, <1>12, <1>13 DEF Goal

\* A catch block deals with its error: fz_report_error and the like.
LEMMA HandleOK == ASSUME Shape, Handle PROVE Goal
  <1>. DEFINE n == Len(frames)
              f == [frames[n] EXCEPT !.handled = TRUE]
  <1>1. /\ frames # <<>> /\ frames[n].phase = "catch"
        /\ stack' = stack /\ errcode' = None
    BY DEF Handle, In, Current
  <1>2. n \in Nat /\ n \in 1..n /\ frames \in Seq(Frame) /\ frames[n] \in Frame
    BY <1>1, ShapeTypes
  <1>3. f \in Frame /\ frames' = [frames EXCEPT ![n] = f]
    BY <1>2 DEF Frame, Handle
  <1>4. /\ frames' \in Seq(Frame) /\ Len(frames') = n
        /\ \A p \in 1..n : frames'[p] = IF p = n THEN f ELSE frames[p]
    <2>. HIDE DEF f
    <2>. QED
      BY <1>2, <1>3, ExceptSeq
  <1>5. /\ f.phase = "catch" /\ f.thrown = frames[n].thrown /\ f.handled
        /\ f.always = frames[n].always /\ f.ran = frames[n].ran
    BY <1>1, <1>2 DEF Frame
  <1>. HIDE DEF f
  <1>6. \A p \in 1..n : frames'[p].phase = frames[p].phase
    BY <1>1, <1>4, <1>5
  <1>7. FramesOK(frames)'
    BY <1>1, <1>2, <1>4, <1>5 DEF Shape, FramesOK, Caught
  <1>8. Matches(frames, stack)'
    BY <1>1, <1>4, <1>6 DEF Shape, Matches
  <1>9. AgreeUpTo(frames, stack, Len(stack))'
    <2>1. \A i \in 1..Len(stack) : stack[i].buf \in 1..n /\ stack[i].buf # n
      BY <1>1 DEF Shape, Matches
    <2>. QED
      BY <1>1, <1>4, <2>1 DEF Shape, AgreeUpTo
  <1>10. Reserved(frames, stack)'
    BY <1>1 DEF Shape, Reserved
  <1>11. Fresh(frames, errcode)' /\ errcode' \in Code
    BY <1>1, <1>2, <1>4, <1>5, EmptySeq DEF Fresh, Code
  <1>12. Shape'
    BY <1>7, <1>8, <1>9, <1>10, <1>11 DEF Shape
  <1>13. CleanupStep /\ CaughtStep
    BY <1>2, <1>4, <1>6 DEF CleanupStep, CaughtStep
  <1>. QED
    BY <1>12, <1>13 DEF Goal

\* The error is changed into another: fz_morph_error.
LEMMA MorphOK ==
  ASSUME Shape, NEW from \in Errors, NEW to \in Errors, Morph(from, to)
  PROVE  Goal
  <1>1. frames' = frames /\ stack' = stack /\ errcode' = to /\ frames # <<>>
    BY DEF Morph, In
  <1>2. to # None /\ to \in Code
    BY ErrorAssumption DEF Code
  <1>3. Shape'
    BY <1>1, <1>2 DEF Shape, Fresh
  <1>4. Len(frames) \in Nat
    BY ShapeTypes
  <1>5. CleanupStep /\ CaughtStep
    BY <1>1, <1>4 DEF CleanupStep, CaughtStep
  <1>. QED
    BY <1>3, <1>5 DEF Goal

\* A longjmp: the statements above the one that is jumped to are abandoned.
LEMMA JumpOK ==
  ASSUME Shape, NEW c \in Errors, NEW e \in Code, stack # <<>>, Jump(c, e)
  PROVE  Goal /\ exited' = exited
  <1>. DEFINE n == Len(frames)
              b == stack[top].buf
              f == [frames[b] EXCEPT !.thrown = c]
              s == Thrown(stack[top], c)
              fs == SubSeq(Mark(frames, Innermost, c), 1, b)
              st == [stack EXCEPT ![top] = s]
  <1>1. /\ n \in Nat /\ top \in Nat /\ top > 0 /\ top = Len(stack) /\ top \in 1..top
        /\ frames \in Seq(Frame) /\ stack \in Seq(Slot)
        /\ stack[top] \in Slot
    BY ShapeTypes
  <1>2. b \in 1..n /\ frames[b].phase # "catch" /\ frames[b] \in Frame
    BY <1>1, ShapeTypes DEF Shape, Matches
  <1>3. \A p \in 1..n : p > b => frames[p].phase = "catch"
    <2>1. \A p \in 1..n : frames[p].phase # "catch" => p <= b
      BY TopSlot
    <2>. QED
      BY <1>1, <1>2, <2>1
  <1>4. Innermost = b
    <2>1. b \in Guarded(frames) /\ \A p \in Guarded(frames) : b >= p
      BY <1>1, <1>2, TopSlot DEF Guarded
    <2>2. Guarded(frames) \subseteq Int
      BY DEF Guarded
    <2>3. \A p \in Guarded(frames) : (\A q \in Guarded(frames) : p >= q) => p = b
      BY <2>1, <2>2
    <2>4. Max(Guarded(frames)) = b
      BY <2>1, <2>3 DEF Max
    <2>. QED
      BY <2>1, <2>4 DEF Innermost
  <1>5. Agrees(frames[b], stack[top])
    BY <1>1 DEF Shape, AgreeUpTo
  <1>6. c \in Code /\ c # None
    BY ErrorAssumption DEF Code
  <1>7. f \in Frame /\ s \in Slot
    <2>1. stack[top].state + 2 \in 0..5
      BY <1>5 DEF Agrees
    <2>. QED
      BY <1>1, <1>2, <1>6, <2>1 DEF Frame, Slot, Thrown
  <1>8. /\ f.thrown = c /\ f.phase = frames[b].phase
        /\ f.always = frames[b].always /\ f.ran = frames[b].ran
        /\ s.code = c /\ s.buf = b /\ s.state = stack[top].state + 2
    BY <1>1, <1>2 DEF Frame, Slot, Thrown
  <1>9. /\ fs \in Seq(Frame) /\ Len(fs) = b /\ fs[b] = f
        /\ \A p \in 1..b - 1 : fs[p] = frames[p]
    <2>. DEFINE marked == [frames EXCEPT ![b] = f]
    <2>1. Mark(frames, Innermost, c) = marked
      BY <1>1, <1>2, <1>4 DEF Mark, Frame
    <2>. HIDE DEF f
    <2>2. /\ marked \in Seq(Frame) /\ Len(marked) = n
          /\ \A p \in 1..n : marked[p] = IF p = b THEN f ELSE frames[p]
      BY <1>1, <1>2, <1>7, ExceptSeq
    <2>. HIDE DEF marked
    <2>3. /\ b \in Nat /\ b > 0 /\ n \in Nat /\ b <= n
          /\ \A p \in 1..b : p \in 1..n /\ marked[p] \in Frame
      BY <1>1, <1>2, <2>2, ElementOfSeq
    <2>4. /\ SubSeq(marked, 1, b) \in Seq(Frame)
          /\ Len(SubSeq(marked, 1, b)) = b - 1 + 1
          /\ \A p \in 1..b - 1 + 1 : SubSeq(marked, 1, b)[p] = marked[1 + p - 1]
      BY <2>3, SubSeqProperties
    <2>5. fs = SubSeq(marked, 1, b)
      BY <2>1
    <2>. HIDE DEF fs
    <2>6. Len(fs) = b
      BY <2>3, <2>4, <2>5
    <2>7. ASSUME NEW p \in 1..b PROVE fs[p] = marked[p]
      <3>1. p \in 1..b - 1 + 1 /\ 1 + p - 1 = p
        BY <2>3
      <3>. QED
        BY <2>4, <2>5, <3>1
    <2>. QED
      BY <2>2, <2>3, <2>4, <2>5, <2>6, <2>7
  <1>10. /\ st \in Seq(Slot) /\ Len(st) = top /\ st # <<>>
         /\ \A i \in 1..top : st[i] = IF i = top THEN s ELSE stack[i]
    <2>. HIDE DEF s
    <2>. QED
      BY <1>1, <1>7, ExceptSeq, EmptySeq
  <1>11. AfterTry(fs, st, e) /\ exited' = exited
    BY DEF Jump, Last, top
  <1>. HIDE DEF f, s, fs, st
  <1>12. FramesOK(fs)
    <2>1. b <= n /\ b \in Nat /\ n <= MaxFrames /\ FramesOK(frames)
      BY <1>1, <1>2 DEF Shape, FramesOK
    <2>2. ASSUME NEW p \in 1..b, fs[p].phase = "catch"
          PROVE  p \in 1..n /\ p < b /\ fs[p] = frames[p]
      BY <2>1, <2>2, <1>2, <1>8, <1>9
    <2>3. \A p \in 1..b : Caught(fs[p])
      BY <2>1, <2>2 DEF FramesOK, Caught
    <2>4. \A p \in 1..b : p < b /\ fs[p].phase = "catch" => ~fs[p].fresh
      BY <2>1, <2>2 DEF FramesOK
    <2>. QED
      BY <2>1, <2>3, <2>4, <1>9, ErrorAssumption DEF FramesOK
  <1>13. Matches(fs, st)
    <2>1. \A i \in 1..top : st[i].buf = stack[i].buf /\ stack[i].buf \in 1..n
      BY <1>1, <1>8, <1>10 DEF Shape, Matches
    <2>2. \A p \in 1..b : fs[p].phase = frames[p].phase /\ p \in 1..n
      BY <1>1, <1>2, <1>8, <1>9
    <2>3. \A i \in 1..top : stack[i].buf \in 1..b
      BY <1>1, <1>2, <1>3, <2>1 DEF Shape, Matches
    <2>4. \A i \in 1..top : st[i].buf \in 1..b /\ fs[st[i].buf].phase # "catch"
      BY <1>1, <2>1, <2>2, <2>3 DEF Shape, Matches
    <2>5. \A i, j \in 1..top : i < j => st[i].buf < st[j].buf
      BY <1>1, <2>1 DEF Shape, Matches
    <2>6. ASSUME NEW p \in 1..b, fs[p].phase # "catch"
          PROVE  \E i \in 1..top : st[i].buf = p
      <3>1. p \in 1..n /\ frames[p].phase # "catch"
        BY <2>2, <2>6
      <3>2. PICK i \in 1..top : stack[i].buf = p
        BY <3>1, <1>1 DEF Shape, Matches
      <3>. QED
        BY <3>2, <2>1
    <2>. QED
      BY <2>4, <2>5, <2>6, <1>9, <1>10 DEF Matches
  <1>14. AgreeUpTo(fs, st, top - 1)
    <2>1. \A i \in 1..top - 1 : i \in 1..top /\ i # top /\ i < top
      BY <1>1
    <2>2. \A i \in 1..top - 1 : stack[i].buf < b /\ stack[i].buf \in 1..n
      BY <1>1, <2>1 DEF Shape, Matches
    <2>3. \A i \in 1..top - 1 : stack[i].buf \in 1..b - 1
      BY <1>1, <1>2, <2>2
    <2>. QED
      BY <1>1, <1>9, <1>10, <2>1, <2>3 DEF Shape, AgreeUpTo
  <1>15. Leaving(fs, st)
    <2>1. fs # <<>>
      BY <1>2, <1>9, EmptySeq
    <2>. QED
      BY <2>1, <1>1, <1>8, <1>9, <1>10, <1>12, <1>13, <1>14 DEF Shape, Reserved, Leaving
  <1>16. FromTry(fs[Len(fs)], st[Len(st)])
         \/ /\ Cleaned(fs[Len(fs)], st[Len(st)])
            /\ fs[Len(fs)].thrown # None /\ st[Len(st)].state \in {3, 5}
    <2>1. fs[Len(fs)] = f /\ st[Len(st)] = s
      BY <1>1, <1>9, <1>10
    <2>. QED
      BY <2>1, <1>5, <1>6, <1>8 DEF Agrees, FromTry, Cleaned
  <1>17. Shape' /\ Outcome(fs) /\ Len(frames') = b
    BY <1>6, <1>8, <1>9, <1>11, <1>15, <1>16, AfterTryOK
  <1>18. /\ \A p \in 1..b - 1 : frames'[p] = frames[p]
         /\ frames'[b].phase = "catch" => errcode' = frames'[b].thrown
    BY <1>2, <1>9, <1>17 DEF Outcome
  <1>19. CleanupStep
    BY <1>1, <1>2, <1>3, <1>17 DEF CleanupStep, Shape, FramesOK, Caught
  <1>20. CaughtStep
    <2>1. \A p \in 1..b : p = b \/ (p \in 1..b - 1 /\ ~(p > n))
      BY <1>1, <1>2
    <2>2. \A p \in 1..n : Len(frames') < p => frames[p].phase = "catch"
      BY <1>1, <1>2, <1>3, <1>17
    <2>. QED
      BY <1>17, <1>18, <2>1, <2>2 DEF CaughtStep
  <1>. QED
    BY <1>11, <1>17, <1>19, <1>20 DEF Goal

\* The state is unchanged when the process exits.
LEMMA StutterOK == ASSUME Shape, UNCHANGED <<frames, stack, errcode>> PROVE Goal
  <1>1. Shape'
    BY DEF Shape
  <1>2. Len(frames) \in Nat
    BY ShapeTypes
  <1>3. CleanupStep /\ CaughtStep
    BY <1>2 DEF CleanupStep, CaughtStep
  <1>. QED
    BY <1>1, <1>3 DEF Goal

\* throw, from anywhere.
LEMMA ThrowOK == ASSUME Shape, exited \in BOOLEAN, NEW c \in Errors, Throw(c)
                 PROVE  Goal /\ exited' \in BOOLEAN
  <1>1. Jump(c, None) /\ None \in Code
    BY DEF Throw, Code
  <1>2. CASE stack # <<>>
    BY <1>1, <1>2, JumpOK
  <1>3. CASE stack = <<>>
    BY <1>1, <1>3, StutterOK DEF Jump
  <1>. QED
    BY <1>2, <1>3

\* fz_rethrow: the catch block still has its error to pass on.
LEMMA RethrowOK == ASSUME Shape, exited \in BOOLEAN, Habits = {}, Rethrow
                   PROVE  Goal /\ exited' \in BOOLEAN
  <1>1. Jump(errcode, errcode) /\ errcode \in Code
    BY DEF Rethrow, Shape
  <1>2. errcode \in Errors
    BY <1>1 DEF Rethrow, Shape, Fresh, In, Current, Code
  <1>3. CASE stack # <<>>
    BY <1>1, <1>2, <1>3, JumpOK
  <1>4. CASE stack = <<>>
    BY <1>1, <1>4, StutterOK DEF Jump
  <1>. QED
    BY <1>3, <1>4

(* The statements there are when a new one begins: if a catch block holds  *)
(* it, its error is no longer the one to rethrow.                          *)
Opened == IF In("catch") THEN [frames EXCEPT ![Len(frames)].fresh = FALSE] ELSE frames

LEMMA OpenedProperties ==
  ASSUME Shape
  PROVE  /\ Opened \in Seq(Frame) /\ Len(Opened) = Len(frames)
         /\ \A p \in 1..Len(frames) :
               /\ Opened[p].phase = frames[p].phase /\ Opened[p].always = frames[p].always
               /\ Opened[p].ran = frames[p].ran /\ Opened[p].thrown = frames[p].thrown
               /\ Opened[p].phase = "catch" => ~Opened[p].fresh
  <1>. DEFINE n == Len(frames)
              f == [frames[n] EXCEPT !.fresh = FALSE]
  <1>1. n \in Nat /\ frames \in Seq(Frame) /\ (frames # <<>> <=> n > 0)
    BY ShapeTypes
  <1>2. CASE In("catch")
    <2>1. n \in 1..n /\ frames[n] \in Frame
      BY <1>1, <1>2, ShapeTypes DEF In
    <2>2. f \in Frame /\ Opened = [frames EXCEPT ![n] = f]
      BY <1>2, <2>1 DEF Opened, Frame
    <2>3. /\ f.phase = frames[n].phase /\ f.always = frames[n].always
          /\ f.ran = frames[n].ran /\ f.thrown = frames[n].thrown /\ ~f.fresh
      BY <2>1 DEF Frame
    <2>. HIDE DEF f
    <2>4. /\ Opened \in Seq(Frame) /\ Len(Opened) = n
          /\ \A p \in 1..n : Opened[p] = IF p = n THEN f ELSE frames[p]
      BY <1>1, <2>1, <2>2, ExceptSeq
    <2>5. \A p \in 1..n : p # n /\ frames[p].phase = "catch" => ~frames[p].fresh
      BY <1>1 DEF Shape, FramesOK
    <2>. QED
      BY <2>3, <2>4, <2>5
  <1>3. CASE ~In("catch")
    <2>1. Opened = frames
      BY <1>3 DEF Opened
    <2>2. \A p \in 1..n : p = n => frames # <<>> /\ frames[p].phase # "catch"
      BY <1>1, <1>3 DEF In, Current
    <2>3. \A p \in 1..n : frames[p].phase = "catch" => ~frames[p].fresh
      BY <1>1, <2>2 DEF Shape, FramesOK
    <2>. QED
      BY <1>1, <2>1, <2>3
  <1>. QED
    BY <1>2, <1>3

\* fz_push_try: a statement f and its slot s are added.
LEMMA Pushed ==
  ASSUME Shape, NEW f \in Frame, NEW s \in Slot, Len(frames) + 1 <= MaxFrames,
         f.phase = "try", s.buf = Len(frames) + 1
  PROVE  /\ FramesOK(Append(Opened, f)) /\ Matches(Append(Opened, f), Append(stack, s))
         /\ AgreeUpTo(Append(Opened, f), Append(stack, s), top)
         /\ Len(Append(Opened, f)) = Len(frames) + 1 /\ Len(Append(stack, s)) = top + 1
         /\ Append(Opened, f)[Len(frames) + 1] = f /\ Append(stack, s)[top + 1] = s
         /\ \A p \in 1..Len(frames) : Append(Opened, f)[p] = Opened[p]
         /\ Append(Opened, f) \in Seq(Frame) /\ Append(stack, s) \in Seq(Slot)
  <1>. DEFINE n == Len(frames)
              fs == Append(Opened, f)
              st == Append(stack, s)
  <1>1. /\ n \in Nat /\ top \in Nat /\ top = Len(stack)
        /\ stack \in Seq(Slot)
    BY ShapeTypes
  <1>2. /\ fs \in Seq(Frame) /\ Len(fs) = n + 1 /\ fs[n + 1] = f
        /\ \A p \in 1..n : fs[p] = Opened[p]
    BY OpenedProperties, AppendProperties
  <1>3. /\ st \in Seq(Slot) /\ Len(st) = top + 1 /\ st[top + 1] = s
        /\ \A i \in 1..top : st[i] = stack[i]
    BY <1>1, AppendProperties
  <1>. HIDE DEF fs, st
  <1>4. \A p \in 1..n + 1 : p = n + 1 \/ p \in 1..n
    BY <1>1
  <1>5. \A i \in 1..top + 1 : i = top + 1 \/ i \in 1..top
    BY <1>1
  <1>6. \A i \in 1..top : stack[i].buf \in 1..n /\ frames[stack[i].buf].phase # "catch"
    BY <1>1 DEF Shape, Matches
  <1>7. FramesOK(fs)
    <2>1. \A p \in 1..n : Caught(fs[p]) /\ (fs[p].phase = "catch" => ~fs[p].fresh)
      BY <1>2, OpenedProperties DEF Shape, FramesOK, Caught
    <2>. QED
      BY <2>1, <1>1, <1>2, <1>4 DEF FramesOK, Caught
  <1>8. Matches(fs, st)
    <2>1. \A i \in 1..top + 1 : st[i].buf \in 1..n + 1 /\ fs[st[i].buf].phase # "catch"
      <3>1. \A i \in 1..top :
               st[i].buf \in 1..n /\ st[i].buf \in 1..n + 1 /\ fs[st[i].buf].phase # "catch"
        <4>1. \A p \in 1..n : p \in 1..n + 1 /\ fs[p].phase = frames[p].phase
          BY <1>1, <1>2, OpenedProperties
        <4>2. \A i \in 1..top : st[i].buf = stack[i].buf
          BY <1>3
        <4>. QED
          BY <4>1, <4>2, <1>6
      <3>2. st[top + 1].buf = n + 1 /\ n + 1 \in 1..n + 1 /\ fs[n + 1].phase # "catch"
        BY <1>1, <1>2, <1>3
      <3>. QED
        BY <3>1, <3>2, <1>5
    <2>2. ASSUME NEW i \in 1..top + 1, NEW j \in 1..top + 1, i < j
          PROVE  st[i].buf < st[j].buf
      <3>1. i \in 1..top
        BY <2>2, <1>1
      <3>2. CASE j = top + 1
        BY <3>1, <3>2, <1>1, <1>3, <1>6
      <3>3. CASE j \in 1..top
        BY <2>2, <3>1, <3>3, <1>1, <1>3 DEF Shape, Matches
      <3>. QED
        BY <3>2, <3>3, <1>5
    <2>3. ASSUME NEW p \in 1..n + 1, fs[p].phase # "catch"
          PROVE  \E i \in 1..top + 1 : st[i].buf = p
      <3>1. CASE p = n + 1
        <4>1. top + 1 \in 1..top + 1
          BY <1>1
        <4>. QED
          BY <3>1, <4>1, <1>3
      <3>2. CASE p \in 1..n
        <4>1. frames[p].phase # "catch"
          BY <2>3, <3>2, <1>2, OpenedProperties
        <4>2. PICK i \in 1..top : stack[i].buf = p
          BY <3>2, <4>1, <1>1 DEF Shape, Matches
        <4>3. i \in 1..top + 1
          BY <1>1
        <4>. QED
          BY <4>2, <4>3, <1>3
      <3>. QED
        BY <3>1, <3>2, <1>4
    <2>. QED
      BY <2>1, <2>2, <2>3, <1>2, <1>3 DEF Matches
  <1>9. AgreeUpTo(fs, st, top)
    <2>. SUFFICES ASSUME NEW i \in 1..top PROVE Agrees(fs[st[i].buf], st[i])
      BY DEF AgreeUpTo
    <2>. DEFINE p == stack[i].buf
    <2>1. st[i] = stack[i] /\ p \in 1..n
      BY <1>3, <1>6
    <2>2. Agrees(frames[p], stack[i])
      BY <1>1 DEF Shape, AgreeUpTo
    <2>3. fs[p] = Opened[p]
      BY <1>2, <2>1
    <2>4. /\ fs[p].phase = frames[p].phase /\ fs[p].always = frames[p].always
          /\ fs[p].ran = frames[p].ran /\ fs[p].thrown = frames[p].thrown
      BY <2>1, <2>3, OpenedProperties
    <2>. HIDE DEF p
    <2>5. Agrees(fs[p], stack[i])
      BY <2>2, <2>4 DEF Agrees
    <2>. QED
      BY <2>1, <2>5 DEF p
  <1>. QED
    BY <1>1, <1>2, <1>3, <1>7, <1>8, <1>9 DEF fs, st

\* A new statement.  Past the end of the array it starts as if something had
\* been thrown into it: there is always room for this one extra level.
LEMMA BeginOK ==
  ASSUME Shape, Habits = {}, NEW a \in BOOLEAN, Begin(a)
  PROVE  Goal /\ exited' = exited
  <1>. DEFINE n == Len(frames)
              new == [always |-> a, phase |-> "try", ran |-> 0, thrown |-> None,
                      fresh |-> FALSE, handled |-> FALSE]
              full == [new EXCEPT !.thrown = Limit]
              slot == [state |-> 0, code |-> None, buf |-> n + 1]
              used == [state |-> 2, code |-> Limit, buf |-> n + 1]
  <1>1. /\ n \in Nat /\ top \in Nat /\ top = Len(stack) /\ stack \in Seq(Slot)
        /\ frames # <<>> <=> n > 0
    BY ShapeTypes
  <1>2. /\ n + 1 <= MaxFrames
        /\ In("always") => ~(top + 1 >= N)
        /\ exited' = exited
        /\ \/ /\ RoomForTry
              /\ stack' = Append(stack, slot) /\ frames' = Append(Opened, new)
              /\ errcode' = errcode
           \/ /\ ~RoomForTry
              /\ AfterTry(Append(Opened, full), Append(stack, used), errcode)
    <2>1. (n + 1) - 1 = n
      BY <1>1
    <2>. DEFINE opened ==
                  IF In("catch") THEN [frames EXCEPT ![(n + 1) - 1].fresh = FALSE] ELSE frames
    <2>2. Opened = opened
      BY <2>1 DEF Opened
    <2>3. n + 1 <= MaxFrames /\ exited' = exited
      BY DEF Begin
    <2>4. In("always") => ~(top + 1 >= N)
      BY DEF Begin
    <2>5. CASE RoomForTry
      <3>1. stack' = Append(stack, slot)
        BY <2>5 DEF Begin
      <3>2. frames' = Append(opened, new)
        BY <2>5 DEF Begin
      <3>3. errcode' = errcode
        BY <2>5 DEF Begin
      <3>. QED
        BY <2>2, <2>3, <2>4, <2>5, <3>1, <3>2, <3>3
    <2>6. CASE ~RoomForTry
      <3>1. AfterTry(Append(opened, full), Append(stack, used), errcode)
        BY <2>6 DEF Begin
      <3>. HIDE DEF opened, full, used
      <3>2. AfterTry(Append(Opened, full), Append(stack, used), errcode)
        BY <2>2, <3>1
      <3>. QED
        BY <2>3, <2>4, <2>6, <3>2
    <2>. QED
      BY <2>5, <2>6
  <1>3. /\ new \in Frame /\ full \in Frame /\ slot \in Slot /\ used \in Slot
        /\ Limit \in Code /\ Limit # None
    <2>1. Limit \in Code /\ Limit # None /\ None \in Code
      BY ErrorAssumption DEF Code
    <2>2. n + 1 \in 1..MaxFrames
      BY <1>1, <1>2, ErrorAssumption
    <2>3. slot \in Slot /\ used \in Slot
      BY <2>1, <2>2 DEF Slot
    <2>4. new \in Frame
      BY <2>1 DEF Frame
    <2>5. full \in Frame
      BY <2>1, <2>4 DEF Frame
    <2>. QED
      BY <2>1, <2>3, <2>4, <2>5
  <1>4. /\ new.phase = "try" /\ new.ran = 0 /\ new.thrown = None
        /\ full.phase = "try" /\ full.ran = 0 /\ full.thrown = Limit
        /\ slot.state = 0 /\ slot.code = None /\ slot.buf = n + 1
        /\ used.state = 2 /\ used.code = Limit /\ used.buf = n + 1
    OBVIOUS
  <1>. HIDE DEF new, full, slot, used
  <1>5. CASE RoomForTry
    <2>. DEFINE fs == Append(Opened, new)
                st == Append(stack, slot)
    <2>1. frames' = fs /\ stack' = st /\ errcode' = errcode
      BY <1>2, <1>5
    <2>2. /\ FramesOK(fs) /\ Matches(fs, st) /\ AgreeUpTo(fs, st, top)
          /\ Len(fs) = n + 1 /\ Len(st) = top + 1
          /\ fs[n + 1] = new /\ st[top + 1] = slot
          /\ \A p \in 1..n : fs[p] = Opened[p]
          /\ fs \in Seq(Frame)
      BY <1>2, <1>3, <1>4, Pushed
    <2>. HIDE DEF fs, st
    <2>3. AgreeUpTo(fs, st, top + 1)
      <3>1. \A i \in 1..top + 1 : i = top + 1 \/ i \in 1..top
        BY <1>1
      <3>2. Agrees(fs[st[top + 1].buf], st[top + 1])
        BY <2>2, <1>4 DEF Agrees
      <3>. QED
        BY <2>2, <3>1, <3>2 DEF AgreeUpTo
    <2>4. Reserved(fs, st)
      BY <1>1, <1>5, <2>2, ErrorAssumption DEF Reserved, RoomForTry
    <2>5. Fresh(fs, errcode)
      BY <1>1, <1>4, <2>2, EmptySeq DEF Fresh
    <2>6. Shape'
      BY <2>1, <2>2, <2>3, <2>4, <2>5 DEF Shape
    <2>7. CleanupStep /\ CaughtStep
      <3>1. \A p \in 1..n + 1 : p = n + 1 \/ (p \in 1..n /\ ~(p > n))
        BY <1>1
      <3>2. \A p \in 1..n : frames'[p].phase = frames[p].phase
        BY <2>1, <2>2, OpenedProperties
      <3>3. frames'[n + 1].phase # "catch" /\ Len(frames') = n + 1
        BY <1>4, <2>1, <2>2
      <3>4. \A p \in 1..n : ~(Len(frames') < p)
        BY <1>1, <3>3
      <3>. QED
        BY <3>1, <3>2, <3>3, <3>4 DEF CleanupStep, CaughtStep
    <2>. QED
      BY <1>2, <2>6, <2>7 DEF Goal
  <1>6. CASE ~RoomForTry
    <2>. DEFINE fs == Append(Opened, full)
                st == Append(stack, used)
    <2>1. AfterTry(fs, st, errcode)
      BY <1>2, <1>6
    <2>2. /\ FramesOK(fs) /\ Matches(fs, st) /\ AgreeUpTo(fs, st, top)
          /\ Len(fs) = n + 1 /\ Len(st) = top + 1
          /\ fs[n + 1] = full /\ st[top + 1] = used
          /\ \A p \in 1..n : fs[p] = Opened[p]
          /\ fs \in Seq(Frame) /\ st \in Seq(Slot)
      BY <1>2, <1>3, <1>4, Pushed
    <2>. HIDE DEF fs, st
    <2>3. top + 1 < N
      BY <1>1, <1>2, ErrorAssumption DEF Shape, Reserved, In, Current
    <2>4. Leaving(fs, st)
      <3>1. fs # <<>> /\ st # <<>>
        BY <1>1, <2>2, EmptySeq
      <3>2. top + 1 - 1 = top
        BY <1>1
      <3>3. AgreeUpTo(fs, st, Len(st) - 1)
        <4>1. Len(st) = top + 1
          BY <2>2
        <4>2. Len(st) - 1 = top
          BY <1>1, <4>1
        <4>. QED
          BY <2>2, <4>2
      <3>4. st[Len(st)].buf = Len(fs) /\ st[Len(st)].code = fs[Len(fs)].thrown
        BY <1>4, <2>2
      <3>5. Len(st) < N
        BY <2>2, <2>3
      <3>. QED
        BY <3>1, <3>3, <3>4, <3>5, <2>2 DEF Leaving
    <2>5. FromTry(fs[Len(fs)], st[Len(st)])
      BY <1>3, <1>4, <2>2 DEF FromTry
    <2>6. Shape' /\ Outcome(fs) /\ Len(frames') = n + 1
      BY <1>3, <1>4, <2>1, <2>2, <2>4, <2>5, AfterTryOK DEF Shape
    <2>7. CleanupStep /\ CaughtStep
      <3>1. \A p \in 1..n + 1 : p = n + 1 \/ (p \in 1..n /\ ~(p > n))
        BY <1>1
      <3>2. n + 1 - 1 = n
        BY <1>1
      <3>3. \A p \in 1..n : frames'[p].phase = frames[p].phase
        BY <2>2, <2>6, <3>2, OpenedProperties DEF Outcome
      <3>4. frames'[n + 1].phase = "catch" => errcode' = frames'[n + 1].thrown
        BY <2>2, <2>6 DEF Outcome
      <3>5. \A p \in 1..n : ~(Len(frames') < p)
        BY <1>1, <2>6
      <3>. QED
        BY <2>6, <3>1, <3>3, <3>4, <3>5 DEF CleanupStep, CaughtStep
    <2>. QED
      BY <1>2, <2>6, <2>7 DEF Goal
  <1>. QED
    BY <1>5, <1>6

-----------------------------------------------------------------------------

\* A new context has no statement open.
LEMMA InitInv == Init => IInv
  <1>. SUFFICES ASSUME Init PROVE IInv
    OBVIOUS
  <1>1. /\ frames = <<>> /\ stack = <<>> /\ errcode = None /\ exited = FALSE
        /\ Len(frames) = 0 /\ Len(stack) = 0
        /\ frames \in Seq(Frame) /\ stack \in Seq(Slot)
    BY EmptySeq DEF Init
  <1>2. 1..0 = {}
    OBVIOUS
  <1>3. FramesOK(frames) /\ Matches(frames, stack) /\ AgreeUpTo(frames, stack, Len(stack))
    BY <1>1, <1>2, ErrorAssumption DEF FramesOK, Matches, AgreeUpTo
  <1>4. Reserved(frames, stack) /\ Fresh(frames, errcode) /\ errcode \in Code
    BY <1>1, ErrorAssumption DEF Reserved, Fresh, Code
  <1>. QED
    BY <1>1, <1>3, <1>4 DEF IInv, Shape

\* What every step does.
LEMMA StepOK == ASSUME IInv, Habits = {}, [Next]_vars
                PROVE  IInv' /\ CleanupStep /\ CaughtStep
  <1>. USE DEF IInv
  <1>. SUFFICES Goal /\ exited' \in BOOLEAN
    BY DEF Goal
  <1>1. ASSUME NEW a \in BOOLEAN, Begin(a) PROVE Goal /\ exited' \in BOOLEAN
    BY <1>1, BeginOK
  <1>2. ASSUME NEW c \in Errors, Throw(c) PROVE Goal /\ exited' \in BOOLEAN
    BY <1>2, ThrowOK
  <1>3. CASE Rethrow
    BY <1>3, RethrowOK
  <1>4. CASE EndTry
    BY <1>4, EndTryOK DEF EndTry
  <1>5. CASE EndAlways
    BY <1>5, EndAlwaysOK DEF EndAlways
  <1>6. CASE EndCatch
    BY <1>6, EndCatchOK DEF EndCatch
  <1>7. CASE Handle
    BY <1>7, HandleOK DEF Handle
  <1>8. ASSUME NEW from \in Errors, NEW to \in Errors, Morph(from, to)
        PROVE  Goal /\ exited' \in BOOLEAN
    BY <1>8, MorphOK DEF Morph
  <1>9. CASE UNCHANGED vars
    BY <1>9, StutterOK DEF vars
  <1>. QED
    BY <1>1, <1>2, <1>3, <1>4, <1>5, <1>6, <1>7, <1>8, <1>9 DEF Next

\* The invariant holds under the rules of context.h.
LEMMA Invariance == ASSUME Habits = {} PROVE Spec => []IInv
  <1>1. IInv /\ [Next]_vars => IInv'
    BY StepOK
  <1>. QED
    BY <1>1, InitInv, PTL DEF Spec

\* The slots match the guarded statements one to one, so their numbers agree.
LEMMA SlotsCounted == ASSUME IInv PROVE SlotsMatchFrames
  <1>. DEFINE G == Guarded(frames)
              buf == [i \in 1..top |-> stack[i].buf]
  <1>1. top \in Nat /\ top = Len(stack) /\ Len(frames) \in Nat
    BY ShapeTypes DEF IInv
  <1>2. /\ \A i \in 1..top : buf[i] = stack[i].buf /\ buf[i] \in G
        /\ \A i, j \in 1..top : i < j => buf[i] < buf[j]
        /\ \A p \in G : \E i \in 1..top : buf[i] = p
    BY <1>1 DEF IInv, Shape, Matches, Guarded
  <1>3. buf \in [1..top -> G] /\ G \subseteq Int
    BY <1>2 DEF Guarded
  <1>. HIDE DEF buf, G
  <1>4. \A i, j \in 1..top : buf[i] <= buf[j] <=> i <= j
    <2>. SUFFICES ASSUME NEW i \in 1..top, NEW j \in 1..top
                  PROVE  buf[i] <= buf[j] <=> i <= j
      OBVIOUS
    <2>1. buf[i] \in Int /\ buf[j] \in Int
      BY <1>3
    <2>2. (i < j => buf[i] < buf[j]) /\ (j < i => buf[j] < buf[i])
      BY <1>2
    <2>. QED
      BY <1>1, <2>1, <2>2
  <1>5. ASSUME NEW n \in 0..top, NEW H \in SUBSET G,
               \A i \in 1..top : buf[i] \in H <=> i <= n
        PROVE  Cardinality(H) = n
    <2>. DEFINE g == [i \in 1..n |-> buf[i]]
    <2>1. \A i \in 1..n : i \in 1..top
      BY <1>1
    <2>2. g \in [1..n -> H]
      BY <1>5, <2>1
    <2>3. \A i, j \in 1..n : i # j => g[i] # g[j]
      <3>1. \A i, j \in 1..n : g[i] = g[j] => i <= j /\ j <= i
        BY <1>3, <1>4, <2>1
      <3>. QED
        BY <3>1
    <2>4. \A p \in H : \E i \in 1..n : g[i] = p
      <3>. SUFFICES ASSUME NEW p \in H PROVE \E i \in 1..n : g[i] = p
        OBVIOUS
      <3>1. PICK i \in 1..top : buf[i] = p
        BY <1>2
      <3>2. i \in 1..n
        BY <3>1, <1>5, <1>1
      <3>. QED
        BY <3>1, <3>2
    <2>5. g \in Bijection(1..n, H)
      <3>. HIDE DEF g
      <3>. QED
        BY <2>2, <2>3, <2>4 DEF Bijection, Injection, Surjection, IsInjective
    <2>6. ExistsBijection(1..n, H) /\ n \in Nat
      BY <2>5, <1>1 DEF ExistsBijection
    <2>. QED
      BY <2>6, FS_CountingElements
  <1>6. top = Cardinality(G)
    <2>1. \A i \in 1..top : buf[i] \in G <=> i <= top
      BY <1>1, <1>2
    <2>2. top \in 0..top
      BY <1>1
    <2>. QED
      BY <1>5, <2>1, <2>2
  <1>7. ASSUME NEW p \in G
        PROVE  stack[Cardinality({q \in G : q <= p})].buf = p
    <2>1. PICK n \in 1..top : buf[n] = p
      BY <1>2
    <2>2. \A i \in 1..top : buf[i] \in {q \in G : q <= p} <=> i <= n
      BY <1>2, <1>4, <2>1
    <2>3. n \in 0..top /\ {q \in G : q <= p} \in SUBSET G
      BY <1>1
    <2>4. Cardinality({q \in G : q <= p}) = n
      BY <1>5, <2>2, <2>3
    <2>. QED
      BY <1>2, <2>1, <2>4
  <1>. QED
    BY <1>6, <1>7 DEF SlotsMatchFrames, G

\* The exception stack stays within its array, an overflow uses the level kept
\* for it and no more, and its slots are those of the statements that can still
\* catch: fz_push_try, throw, fz_do_always and fz_do_catch, for an array of any
\* size and any nesting of statements that keep to the rules of context.h.
THEOREM StackIsSound == ASSUME Habits = {} PROVE Spec => []StackSound
  <1>1. IInv => StackSound
    <2>. SUFFICES ASSUME IInv PROVE StackSound
      OBVIOUS
    <2>1. TypeOK
      BY DEF IInv, Shape, FramesOK, Matches, TypeOK
    <2>2. TopInStack
      BY DEF IInv, Shape, Reserved, TopInStack, top
    <2>3. QuietWhenUnwound
      <3>. SUFFICES ASSUME frames = <<>> PROVE stack = <<>> /\ errcode = None
        BY DEF QuietWhenUnwound
      <3>1. Len(frames) = 0 /\ top = Len(stack) /\ top \in Nat /\ (stack # <<>> <=> top > 0)
        BY ShapeTypes DEF IInv
      <3>2. \A i \in 1..top : stack[i].buf \in 1..0
        BY <3>1 DEF IInv, Shape, Matches
      <3>3. top = 0
        BY <3>1, <3>2
      <3>. QED
        BY <3>1, <3>3 DEF IInv, Shape, Fresh
    <2>. QED
      BY <2>1, <2>2, <2>3, SlotsCounted DEF StackSound
  <1>. QED
    BY <1>1, Invariance, PTL

\* No catch block is entered without an error: fz_do_catch, with the states
\* throw and fz_do_always count up.
THEOREM CatchesAreReal == ASSUME Habits = {} PROVE Spec => []CatchOnlyOnError
  <1>1. IInv => CatchOnlyOnError
    BY DEF IInv, Shape, FramesOK, Caught, CatchOnlyOnError
  <1>. QED
    BY <1>1, Invariance, PTL

\* However a statement is left, its always block has been entered once: by the
\* end of its try block, by a throw into it, and not again by a throw out of it.
THEOREM AlwaysBlocksRun == ASSUME Habits = {} PROVE Spec => CleanupRuns
  <1>1. IInv /\ [Next]_vars => [CleanupStep]_vars
    BY StepOK
  <1>. QED
    BY <1>1, Invariance, PTL DEF Spec, CleanupRuns, CleanupStep

\* An exception reaches the catch block of the statement it was thrown into,
\* as the current error, whatever always blocks run in between.
THEOREM ExceptionsArrive == ASSUME Habits = {} PROVE Spec => ThrownIsCaught
  <1>1. IInv /\ [Next]_vars => [CaughtStep]_vars
    BY StepOK
  <1>. QED
    BY <1>1, Invariance, PTL DEF Spec, ThrownIsCaught, CaughtStep
=============================================================================
