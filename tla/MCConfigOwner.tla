---------------------------- MODULE MCConfigOwner ----------------------------
(* ConfigOwner for TLC: a few operations on one key and symmetric requests *)
(* and processes.                                                          *)
EXTENDS ConfigOwner, TLC

CONSTANTS k1, a, t1

MCTwoOps == { [kind |-> "publish", key |-> k1, content |-> a, tags |-> {t1}],
              [kind |-> "delete", key |-> k1] }

MCOneOp == { [kind |-> "publish", key |-> k1, content |-> a, tags |-> {}] }

Symmetry == Permutations(Procs) \cup Permutations(Requests)
=============================================================================
