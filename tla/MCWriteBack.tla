---------------------------- MODULE MCWriteBack ----------------------------
(* Small instances of WriteBack for TLC.                                   *)
EXTENDS WriteBack, TLC

CONSTANTS k1, k2

\* Both keys share one shard.
OneShard == [k \in Keys |-> 1]

\* Each key has a shard of its own.
TwoShards == [k \in Keys |-> IF k = k1 THEN 1 ELSE 2]

\* Bounds on the writes of each key.
OneEach == [k \in Keys |-> 1]
TwoEach == [k \in Keys |-> 2]

Symmetry == Permutations(Keys) \cup Permutations(Clients)

=============================================================================
