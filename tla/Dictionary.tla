----------------------------- MODULE Dictionary -----------------------------
(***************************************************************************)
(* What the hash table of include/mupdf/fitz/hash.h promises to threads    *)
(* that share it: a partial function from keys to values.  An insertion    *)
(* keeps the value that is already there and returns it, and may fail      *)
(* without a trace when the table has to grow and there is no memory.      *)
(***************************************************************************)
CONSTANTS Keys, Vals, Threads, NoVal,
          Selections    \* the sets of keys a filter may remove

VARIABLES dict,     \* the value of each key
          answer    \* what the last insertion of each thread returned

vars == <<dict, answer>>

Init == dict = [k \in Keys |-> NoVal] /\ answer = [t \in Threads |-> NoVal]

Insert(t, k, v) ==
    /\ answer' = [answer EXCEPT ![t] = dict[k]]
    /\ dict' = IF dict[k] = NoVal THEN [dict EXCEPT ![k] = v] ELSE dict

Remove(k) == dict' = [dict EXCEPT ![k] = NoVal] /\ UNCHANGED answer

Filter(gone) ==
    /\ dict' = [k \in Keys |-> IF k \in gone THEN NoVal ELSE dict[k]]
    /\ UNCHANGED answer

Next ==
    \/ \E t \in Threads, k \in Keys, v \in Vals : Insert(t, k, v)
    \/ \E k \in Keys : Remove(k)
    \/ \E gone \in Selections : Filter(gone)

Spec == Init /\ [][Next]_vars
=============================================================================
