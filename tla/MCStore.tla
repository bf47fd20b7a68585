------------------------------ MODULE MCStore ------------------------------
(***************************************************************************)
(* Store on small instances.                                               *)
(***************************************************************************)
EXTENDS Store, TLC

MCSize(v) == IF v \in Images THEN 4 ELSE 10

\* One tile as large as an image, one smaller and one larger.
MCUneven(v) ==
    LET small == CHOOSE u \in Tiles : TRUE
        large == CHOOSE u \in Tiles \ {small} : TRUE
    IN IF v = small THEN 2 ELSE IF v = large THEN 20 ELSE 8

\* The document's thread asks for little, or for more than there can be.
MCSmallRequests == {<<Doc, 8>>}
MCHugeRequests == {<<Doc, SizeMax>>}
MCAllRequests == MCSmallRequests \cup MCHugeRequests

Symmetric == Permutations(Ids) \cup Permutations(Tiles) \cup Permutations(Images)
=============================================================================
