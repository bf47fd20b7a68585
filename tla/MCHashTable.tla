---------------------------- MODULE MCHashTable ----------------------------
(* Two threads and six keys, enough to make a table of six slots grow.   *)
(* The hashes collide, run over the end of the small array, and spread     *)
(* differently in the large one.                                           *)
EXTENDS HashTable, TLC

MCHash(k) == <<5, 5, 0, 4, 2, 6>>[k]

\* A duplicate of key 1 may come with another value.
MCValsOf(k) == IF k = 1 THEN Vals ELSE {CHOOSE v \in Vals : TRUE}

Symmetric == Permutations(Threads)
=============================================================================
