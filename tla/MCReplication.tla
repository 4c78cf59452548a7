---------------------------- MODULE MCReplication ----------------------------
(* Instance of Replication for TLC.                                          *)
EXTENDS Replication, TLC

CONSTANTS k1, k2, c1, c2, c3, s1, s2

Symmetry == Permutations(Conns) \cup Permutations(Slaves) \cup Permutations(Keys)
=============================================================================
