---------------------------- MODULE MCPersistence ----------------------------
(* Two keys, two crashes. *)
EXTENDS Persistence, TLC

Symmetric == Permutations(Keys)
=============================================================================
