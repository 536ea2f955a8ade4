------------------------- MODULE MCCommandDispatch -------------------------
(* Small instances of CommandDispatch: one command of one machine, dispatched *)
(* by two calls on two replicas.                                              *)
EXTENDS CommandDispatch, TLC

CONSTANTS c1, c2, u1, u2, r1, r2, k1, k2

MCHome == [u \in {u1, u2} |-> IF u = u1 THEN r1 ELSE r2]
OneHome == [u \in {u1, u2} |-> r1]
ReceiptKeys == Permutations({k1, k2})
=============================================================================
