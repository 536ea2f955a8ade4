----------------------------- MODULE MCCommerce -----------------------------
(* Small instances of Commerce: one order, at most two payments and three lines. *)
EXTENDS Commerce, TLC

CONSTANTS c1, c2

TwoCallers == {c1, c2}
Concurrent == Permutations(TwoCallers)
OneOf == {1}
TwoOf == 1..2
ThreeOf == 1..3
FourOf == 1..4
NoneOf == {}

OneSlot == [l \in OneOf |-> 1]
SharedSlot == [l \in TwoOf |-> 1]
TwoSlots == [l \in ThreeOf |-> IF l = 1 THEN 1 ELSE 2]

Report(k, S) == [key |-> k, lines |-> S]
WholeSlotOnly == {Report(1, {1, 2})}
\* A line of its own, a line and its slot, a key used for two lines, a spent key.
MixedReports == {Report(1, {1}), Report(2, {2}), Report(3, {2, 3}), Report(2, {3}), Report(4, {3})}
LastKey == {4}

MixedRefunds == [k \in ThreeOf |-> IF k = 1 THEN 1 ELSE 2]
NoRefunds == [k \in NoneOf |-> 1]
=============================================================================
