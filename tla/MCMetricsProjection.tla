------------------------ MODULE MCMetricsProjection ------------------------
(* A small instance of MetricsProjection: critical metrics published twice   *)
(* under one key with different payloads, and an inventory event.            *)
EXTENDS MetricsProjection, TLC

MCType == <<"rollup", "rollup", "inventory">>
MCKey == <<1, 1, 2>>
MCPayload == <<1, 2, 3>>
Symmetry == Permutations(Procs) \cup Permutations(Samples)
=============================================================================
