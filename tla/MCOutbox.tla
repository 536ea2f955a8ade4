------------------------------ MODULE MCOutbox ------------------------------
(* A small instance of Outbox: one row, two replicas, a ceiling of two attempts. *)
EXTENDS Outbox, TLC

CONSTANTS w1, w2

MCWorkers == {w1, w2}
OneEvent == {1}
OneRowMax == [e \in OneEvent |-> 2]
=============================================================================
