--------------------------- MODULE MCSemanticCache ---------------------------
(* Three keys, room for two. *)
EXTENDS SemanticCache

Symmetric == Permutations(Keys) \cup Permutations(Dims)
=============================================================================
