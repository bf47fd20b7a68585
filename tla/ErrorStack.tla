----------------------------- MODULE ErrorStack -----------------------------
(***************************************************************************)
(* The exception stack of one fz_context (source/fitz/error.c) and the     *)
(* fz_try / fz_always / fz_catch macros of include/mupdf/fitz/context.h.   *)
(*                                                                         *)
(* frames is the C call stack seen through its try statements: the         *)
(* innermost statement is last and phase says which of its blocks runs.    *)
(* The library's own bookkeeping is ctx->error: the slots from stack_base  *)
(* up to top, here the sequence stack, with in buf the statement whose     *)
(* setjmp filled the jump buffer, and errcode.  longjmp is a jump to the   *)
(* statement buf names, which abandons every statement above it.  always,  *)
(* ran and thrown describe a statement and are not known to the library;   *)
(* fresh and handled say how far its catch block got.                      *)
(***************************************************************************)
EXTENDS Integers, SequencesExt, FiniteSetsExt

CONSTANTS N,            \* nelem(ctx->error.stack), 256 in the code
          MaxFrames,    \* bound: try statements on the C stack
          Errors,       \* the error codes other than FZ_ERROR_NONE
          Habits        \* what blocks do beyond the rules of context.h

Limit == "limit"        \* FZ_ERROR_LIMIT
None  == "none"         \* FZ_ERROR_NONE

ASSUME ErrorAssumption ==
    /\ N \in Nat /\ N > 2
    /\ MaxFrames \in Nat
    /\ Limit \in Errors /\ None \notin Errors
    \* "swallow": a catch block ends with the error still set (store.c:487,
    \*            load-jpeg.c:476, pdf-xref.c:3195, ...)
    \* "cleanup": a catch block runs a try statement and then rethrows
    \*            (pdf-xref.c:3658 drops the document first)
    \* "deeper":  an always block that the overflow of the stack has entered
    \*            contains a try statement (pdf-op-run.c:2086 reaches one)
    /\ Habits \subseteq {"swallow", "cleanup", "deeper"}

VARIABLES frames, stack, errcode, exited

vars == <<frames, stack, errcode, exited>>

top == Len(stack)       \* ctx->error.top - ctx->error.stack_base

Code  == Errors \cup {None}
Slot  == [state : 0..5, code : Code, buf : 1..MaxFrames]
Frame == [always : BOOLEAN, phase : {"try", "always", "catch"}, ran : 0..1,
          thrown : Code, fresh : BOOLEAN, handled : BOOLEAN]

Current == frames[Len(frames)]
In(phase) == frames # <<>> /\ Current.phase = phase

(* The statement an exception belongs to: the innermost one that has not   *)
(* reached its catch block, 0 when there is none.                          *)
Guarded(fs) == {p \in 1..Len(fs) : fs[p].phase # "catch"}
Innermost == IF Guarded(frames) = {} THEN 0 ELSE Max(Guarded(frames))

(* What the caller has thrown into statement p.                            *)
Mark(fs, p, c) == [fs EXCEPT ![p].thrown = c]

Init ==
    /\ frames = <<>>
    /\ stack = <<>>
    /\ errcode = None
    /\ exited = FALSE

-----------------------------------------------------------------------------
(* fz_do_catch: the code of the top slot becomes the current error, the    *)
(* slot is popped, and the catch block runs if anything was thrown.        *)
CatchIf(thrown, code, fs, rest) ==
    /\ errcode' = code
    /\ stack' = rest
    /\ frames' = IF thrown
                 THEN [fs EXCEPT ![Len(fs)].phase = "catch", ![Len(fs)].fresh = TRUE]
                 ELSE Front(fs)

\* Mutants: catch blocks entered too seldom, too often, and without the pop.
DoCatchEarly(fs, st) == CatchIf(Last(st).state > 2, Last(st).code, fs, Front(st))
DoCatchLate(fs, st)  == CatchIf(Last(st).state > 0, Last(st).code, fs, Front(st))
DoCatchNoPop(fs, st) ==
    CatchIf(Last(st).state > 1, Last(st).code, fs,
            IF Last(st).state > 1 THEN st ELSE Front(st))
DoCatch(fs, st) == CatchIf(Last(st).state > 1, Last(st).code, fs, Front(st))

(* fz_do_always: the always block is entered once, and not again when a    *)
(* throw comes out of it.                                                  *)
\* Mutant: the always block is entered again after a throw out of it.
AlwaysDueTwice(slot) == slot.state <= 3
AlwaysDue(slot) == slot.state < 3

DoAlways(fs, st, e) ==
    /\ frames' = [fs EXCEPT ![Len(fs)].phase = "always", ![Len(fs)].ran = @ + 1]
    /\ stack' = [st EXCEPT ![Len(st)].state = @ + 1]
    /\ errcode' = e

(* What follows the try block of the innermost statement of fs, however it *)
(* was left: the always block if there is one and it is due, or the catch. *)
AfterTry(fs, st, e) ==
    IF Last(fs).always /\ AlwaysDue(Last(st)) THEN DoAlways(fs, st, e)
                                              ELSE DoCatch(fs, st)

-----------------------------------------------------------------------------
(* fz_try, with the test of fz_push_try for the end of the stack: at the   *)
(* last level the statement starts as if a throw had already taken place.  *)
\* Mutant: the overflow is noticed one level too late.
RoomForTryLate == top < N
RoomForTry == top + 2 < N

Begin(a) ==
    LET p   == Len(frames) + 1
        fs  == IF In("catch") THEN [frames EXCEPT ![p - 1].fresh = FALSE] ELSE frames
        new == [always |-> a, phase |-> "try", ran |-> 0, thrown |-> None,
                fresh |-> FALSE, handled |-> FALSE]
    IN
    /\ ~exited /\ p <= MaxFrames
    /\ In("always") /\ top + 1 >= N => "deeper" \in Habits
    /\ \/ /\ RoomForTry
          /\ stack' = Append(stack, [state |-> 0, code |-> None, buf |-> p])
          /\ frames' = Append(fs, new)
          /\ UNCHANGED errcode
       \/ /\ ~RoomForTry
          /\ AfterTry(Append(fs, [new EXCEPT !.thrown = Limit]),
                      Append(stack, [state |-> 2, code |-> Limit, buf |-> p]),
                      errcode)
    /\ UNCHANGED exited

(* throw: the top slot takes the code and control goes to the statement    *)
(* its jump buffer belongs to; without a slot the process exits.  e is the *)
(* value errcode has when throw is called.                                 *)
\* Mutant: a throw does not replace the code of an earlier one.
ThrownFirst(slot, c) ==
    [slot EXCEPT !.state = @ + 2, !.code = IF @ = None THEN c ELSE @]
Thrown(slot, c) == [slot EXCEPT !.state = @ + 2, !.code = c]

Jump(c, e) ==
    IF stack # <<>>
    THEN /\ AfterTry(SubSeq(Mark(frames, Innermost, c), 1, Last(stack).buf),
                     [stack EXCEPT ![top] = Thrown(@, c)], e)
         /\ UNCHANGED exited
    ELSE exited' = TRUE /\ UNCHANGED <<frames, stack, errcode>>

(* fz_vthrow: an error nobody dealt with is reported and cleared first.    *)
Throw(c) == ~exited /\ Jump(c, None)

(* fz_rethrow, from a catch block that has not dealt with its error; the   *)
(* rule of context.h (no try statement in between) is part of the guard    *)
(* unless catch blocks are known to break it.                              *)
Rethrow ==
    /\ ~exited /\ In("catch") /\ ~Current.handled
    /\ Current.fresh \/ "cleanup" \in Habits
    /\ Jump(errcode, errcode)

(* The end of a try, an always and a catch block.                          *)
EndTry    == ~exited /\ In("try") /\ AfterTry(frames, stack, errcode)
             /\ UNCHANGED exited
EndAlways == ~exited /\ In("always") /\ DoCatch(frames, stack)
             /\ UNCHANGED exited
EndCatch ==
    /\ ~exited /\ In("catch")
    /\ errcode = None \/ "swallow" \in Habits
    /\ frames' = Front(frames)
    /\ UNCHANGED <<stack, errcode, exited>>

(* fz_report_error, fz_ignore_error and fz_convert_error.                  *)
Handle ==
    /\ ~exited /\ In("catch")
    /\ errcode' = None
    /\ frames' = [frames EXCEPT ![Len(frames)].handled = TRUE]
    /\ UNCHANGED <<stack, exited>>

(* fz_morph_error(from, to).                                               *)
Morph(from, to) ==
    /\ ~exited /\ In("catch") /\ errcode = from
    /\ errcode' = to
    /\ UNCHANGED <<frames, stack, exited>>

Next ==
    \/ \E a \in BOOLEAN : Begin(a)
    \/ \E c \in Errors : Throw(c)
    \/ Rethrow \/ EndTry \/ EndAlways \/ EndCatch \/ Handle
    \/ \E from, to \in Errors : Morph(from, to)

Spec == Init /\ [][Next]_vars

-----------------------------------------------------------------------------
(* The shape of the state; a slot's state never passes 5, as the comment   *)
(* above throw works out.                                                  *)
TypeOK ==
    /\ frames \in Seq(Frame) /\ Len(frames) <= MaxFrames
    /\ stack \in Seq(Slot)
    /\ errcode \in Code
    /\ exited \in BOOLEAN

(* The jump buffers in use are exactly those of the statements that can    *)
(* still be jumped to, in order: no throw resumes a block that has been    *)
(* left, and no statement that could catch is passed over.  This is what   *)
(* leaving a try block by return, or a lost pop, would break.              *)
SlotsMatchFrames ==
    /\ top = Cardinality(Guarded(frames))
    /\ \A p \in Guarded(frames) :
           stack[Cardinality({q \in Guarded(frames) : q <= p})].buf = p

(* The slots in use stay inside the array: "We assume that we always have  *)
(* room for 1 extra level on the stack" (fz_push_try).                     *)
TopInStack == top < N

(* When a context has no statement open its stack is empty and no error is *)
(* pending: what fz_drop_context asserts and tests.                        *)
QuietWhenUnwound == frames = <<>> => stack = <<>> /\ errcode = None

(* The exception stack is sound: typed, within its array, and the slots in *)
(* use are those of the statements that can catch, none when none is open. *)
StackSound == TypeOK /\ TopInStack /\ SlotsMatchFrames /\ QuietWhenUnwound

(* A catch block only runs for a real error, never for FZ_ERROR_NONE.      *)
CatchOnlyOnError ==
    \A p \in 1..Len(frames) : frames[p].phase = "catch" => frames[p].thrown # None

(* A statement is never left, by its end or by a longjmp, without its      *)
(* always block having been entered exactly once.                          *)
CleanupRuns ==
    [][\A p \in 1..Len(frames) :
          Len(frames') < p /\ frames[p].always => frames[p].ran = 1]_vars

(* What was thrown into a statement arrives in its catch block, with the   *)
(* code thrown last, and is not dropped on the way through always blocks.  *)
ThrownIsCaught ==
    [][/\ \A p \in 1..Len(frames') :
             /\ frames'[p].phase = "catch"
             /\ p > Len(frames) \/ frames[p].phase # "catch"
             => errcode' = frames'[p].thrown
       /\ \A p \in 1..Len(frames) :
             /\ Len(frames') < p
             /\ frames[p].phase # "catch"
             => frames[p].thrown = None]_vars
=============================================================================
