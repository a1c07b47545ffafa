---------------------------- MODULE MCCliState -----------------------------
(* A small instance of CliState for TLC.                                   *)
EXTENDS CliState

CONSTANTS k1, k2, k3

Item(k, h, form, t) ==
    [key |-> k, value |-> Nobody, hits |-> h, form |-> form, t |-> t]

\* A file of an older version with one item that cannot be read, and a file
\* saved under a larger capacity.
Files ==
    {<<Item(k1, 0, "wall", 2), Item(k2, 0, "bad", 0)>>,
     <<Item(k1, 1, "left", 2), Item(k2, 0, "left", 0), Item(k3, 0, "left", 1)>>}

=============================================================================
