-------------------------- MODULE MCMachineLedger --------------------------
(* Small instances of MachineLedger: a purchase under one key, or two in turn. *)
EXTENDS MachineLedger, TLC

CONSTANTS k1, k2, p1, p2, c1, c2, c3

MCIntended == [k \in Keys |-> p1]
\* The machine takes up key k2 when it is told that k1 is spent.
MCAfter == [k \in Keys |-> IF k = k2 THEN k1 ELSE "none"]
=============================================================================
