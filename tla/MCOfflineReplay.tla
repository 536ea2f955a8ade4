-------------------------- MODULE MCOfflineReplay --------------------------
(* Small instances of OfflineReplay: two commerce events and a cash report, *)
(* so that events of two streams compete for a sequence number.             *)
EXTENDS OfflineReplay, TLC

CONSTANTS e1, e2, m1, p1, p2

MCStreamOf == [e \in Events |-> IF e = m1 THEN "cash" ELSE "commerce"]
\* Pushes are alike, and so are the two commerce events.
Alike == {f @@ g : f \in Permutations({p1, p2}), g \in Permutations({e1, e2})}
=============================================================================
