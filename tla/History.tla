------------------------------ MODULE History ------------------------------
(***************************************************************************)
(* What the undo journal of a PDF document promises: the document as one    *)
(* value, the values undo returns to, the values redo goes on to, and a     *)
(* stack of open operations, each of which can still be abandoned.  Nothing *)
(* here knows of cross reference sections, fragments or object types.       *)
(***************************************************************************)
EXTENDS Integers, Sequences

CONSTANTS
    Num,        \* object numbers
    Val,        \* contents of an object
    Null,       \* no object under this number
    Original    \* the document in the file, Num -> Val or Null

VARIABLES
    doc,        \* the document
    past,       \* what undo returns to, the most recent last
    future,     \* what redo goes on to, the nearest first
    open,       \* [doc, named] of each open operation when it began
    recording,  \* the document keeps a history
    saved       \* the snapshot on disk

vars == <<doc, past, future, open, recording, saved>>

Version == [doc |-> doc, past |-> past, future |-> future, recording |-> recording]
Front(s) == SubSeq(s, 1, Len(s) - 1)
Last(s) == s[Len(s)]

Init ==
    /\ doc = Original
    /\ past = <<>>
    /\ future = <<>>
    /\ open = <<>>
    /\ recording = FALSE
    /\ saved = Version

Record ==
    /\ recording' = TRUE
    /\ UNCHANGED <<doc, past, future, open, saved>>

\* A document that keeps a history changes inside an operation only.
MayChange == recording => open # <<>>

\* To alter an object gives up what could be redone, even if it then fails.
Alter(x, v) ==
    /\ MayChange
    /\ doc[x] # Null
    /\ doc' = [doc EXCEPT ![x] = v]
    /\ future' = <<>>
    /\ UNCHANGED <<past, open, recording, saved>>

\* To add one, or to give what the operation added another value, does not.
Add(x, v) ==
    /\ MayChange
    /\ doc[x] = Null \/ (recording /\ Last(open).doc[x] = Null)
    /\ doc' = [doc EXCEPT ![x] = v]
    /\ UNCHANGED <<past, future, open, recording, saved>>

Forget ==
    /\ open # <<>>
    /\ future' = <<>>
    /\ UNCHANGED <<doc, past, open, recording, saved>>

Begin(named) ==
    /\ recording
    /\ open' = Append(open, [doc |-> doc, named |-> named])
    /\ UNCHANGED <<doc, past, future, recording, saved>>

\* An inner operation becomes part of the one around it.
EndInner ==
    /\ Len(open) > 1
    /\ open' = Front(open)
    /\ UNCHANGED <<doc, past, future, recording, saved>>

\* A named operation is one step of the history.
EndNamed ==
    /\ Len(open) = 1
    /\ open[1].named
    /\ open' = <<>>
    /\ past' = Append(past, open[1].doc)
    /\ future' = <<>>
    /\ UNCHANGED <<doc, recording, saved>>

\* An implicit one joins the step before it.
EndImplicit ==
    /\ Len(open) = 1
    /\ ~open[1].named
    /\ open' = <<>>
    /\ future' = <<>>
    /\ UNCHANGED <<doc, past, recording, saved>>

\* An operation that changed nothing leaves no trace.
EndUnchanged ==
    /\ Len(open) = 1
    /\ doc = open[1].doc
    /\ open' = <<>>
    /\ UNCHANGED <<doc, past, future, recording, saved>>

Abandon ==
    /\ open # <<>>
    /\ doc' = Last(open).doc
    /\ open' = Front(open)
    /\ UNCHANGED <<past, future, recording, saved>>

Undo ==
    /\ open = <<>> /\ past # <<>>
    /\ doc' = Last(past)
    /\ past' = Front(past)
    /\ future' = <<doc>> \o future
    /\ UNCHANGED <<open, recording, saved>>

Redo ==
    /\ open = <<>> /\ future # <<>>
    /\ doc' = Head(future)
    /\ past' = Append(past, doc)
    /\ future' = Tail(future)
    /\ UNCHANGED <<open, recording, saved>>

Save ==
    /\ open = <<>>
    /\ saved' = Version
    /\ UNCHANGED <<doc, past, future, open, recording>>

\* The program dies and opens its last snapshot again.
Reopen ==
    /\ doc' = saved.doc
    /\ past' = saved.past
    /\ future' = saved.future
    /\ recording' = saved.recording
    /\ open' = <<>>
    /\ UNCHANGED saved

Next ==
    \/ Record \/ Forget
    \/ \E x \in Num, v \in Val : Alter(x, v) \/ Add(x, v)
    \/ \E named \in BOOLEAN : Begin(named)
    \/ EndInner \/ EndNamed \/ EndImplicit \/ EndUnchanged \/ Abandon
    \/ Undo \/ Redo
    \/ Save \/ Reopen

Spec == Init /\ [][Next]_vars
=============================================================================
