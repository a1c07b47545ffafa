---------------------------- MODULE MCShutdown -----------------------------
(* Small instances of Shutdown for TLC.                                    *)
EXTENDS Shutdown

\* Both keys share one shard.
OneShard == [k \in Keys |-> 1]

\* Bounds on the writes of each key.
TwoEach == [k \in Keys |-> 2]

=============================================================================
