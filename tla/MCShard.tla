------------------------------ MODULE MCShard ------------------------------
(* Small instances of Shard for TLC.                                       *)
EXTENDS Shard, TLC

Symmetry == Permutations(Keys) \cup Permutations(Values)

=============================================================================
