----------------------------- MODULE MCStorable -----------------------------
(***************************************************************************)
(* Storable on a small instance: an image that two keys can refer to, a    *)
(* tile, a static object, and three ordinary pointers.                     *)
(***************************************************************************)
EXTENDS Storable
=============================================================================
