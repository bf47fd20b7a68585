----------------------------- MODULE MCContext -----------------------------
(* A family of one master and a few clones with two shared parts.          *)
EXTENDS Context, TLC

MCParts == <<"store", "glyphs">>

Symmetric == Permutations(Clones)
=============================================================================
