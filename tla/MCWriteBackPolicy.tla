------------------------- MODULE MCWriteBackPolicy -------------------------
(* Small instances of WriteBackPolicy for TLC.                             *)
EXTENDS WriteBackPolicy

CONSTANT k1

OneShard == [k \in Keys |-> 1]

\* Every key may be written twice.
TwoEach == [k \in Keys |-> 2]

\* Only k1 may be written again.
TwoOfFirst == [k \in Keys |-> IF k = k1 THEN 2 ELSE 1]

MCSymmetry == Permutations(Keys \ {k1})

=============================================================================
