------------------------ MODULE MCTelemetryPipeline ------------------------
(* A small instance of TelemetryPipeline: one machine's state updates, with a *)
(* metric to fill the queue and a critical event.                             *)
EXTENDS TelemetryPipeline, TLC

CONSTANTS s

MCKind == [m \in Msgs |-> IF m = 2 THEN "droppable"
                          ELSE IF m = 4 THEN "critical" ELSE s]
=============================================================================
