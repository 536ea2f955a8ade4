-------------------------- MODULE MetricsProjection --------------------------
(***************************************************************************)
(* The durable consumer of the metrics stream: each worker process pulls   *)
(* batches, skips what its memory says it has handled, projects a message  *)
(* into several database rows, one statement at a time, and acknowledges   *)
(* it.  A message without an acknowledgement is delivered again, to any    *)
(* process, while the first one may still be at work on it.                *)
(*                                                                         *)
(* Rows are named by the idempotency key of the message, or by the message *)
(* when it has none.  Type of a message:                                   *)
(*   "event"      vend or cash event: a row with a unique dedupe_key       *)
(*   "rollup"     critical metrics: that row, then one merge per sample    *)
(*   "metric"     other metrics: one merge per sample                      *)
(*   "inventory"  inventory event: a count, then an insert, no unique key  *)
(***************************************************************************)
EXTENDS Integers, Sequences, FiniteSets

CONSTANTS Procs,      \* worker processes
          MaxMsg,     \* bound: messages of the stream, numbered by sequence
          Type, Key,  \* of a message; Key 0: none
          Payload,    \* hash of a message's payload
          Samples,    \* metric keys of a payload
          MaxDeliver, \* the consumer's limit of deliveries
          MemorySize, \* size of each memory, of messages and of keys
          MaxFaults   \* bound: failed statements, lost acks and crashes

Msgs == 1..MaxMsg

ASSUME ProjectionSets == IsFiniteSet(Procs) /\ IsFiniteSet(Samples) /\ Samples # {}
ASSUME ProjectionTypes == Type \in [Msgs -> {"event", "rollup", "metric", "inventory"}]
\* bridge.go gives every critical message a key.  That a key is used for messages of one
\* type is the device's contract: its own dedupe_key is taken as it is.
ASSUME ProjectionKeys ==
  /\ Key \in [Msgs -> Nat]
  /\ \A m \in Msgs : Type[m] # "metric" => Key[m] # 0
  /\ \A m, n \in Msgs : Key[m] = Key[n] /\ Key[m] # 0 => Type[m] = Type[n]
ASSUME ProjectionLimits == /\ MaxMsg \in Nat /\ MaxDeliver \in Nat \ {0}
                           /\ MemorySize \in Nat \ {0} /\ MaxFaults \in Nat

VARIABLES
  broker,  \* "queued", "out" while an acknowledgement is awaited, "done"
  tries,   \* deliveries of a message
  batch,   \* messages a process has fetched and not begun
  proc,    \* the message a process is at work on
  seen,    \* stream sequences a process remembers, oldest first
  guard,   \* keys and payload hashes it remembers, oldest first
  stored,  \* rows of device_telemetry_events
  rows,    \* rows of inventory_events
  merged,  \* merges into telemetry_rollups
  faults

vars == <<broker, tries, batch, proc, seen, guard, stored, rows, merged, faults>>

\* A key is negative, so that it is not taken for a message.
Id(m) == IF Key[m] = 0 THEN m ELSE -Key[m]
Ids == {Id(m) : m \in Msgs}
Idle == [at |-> "idle", msg |-> 0, left |-> {}]

TypeOK ==
  /\ broker \in [Msgs -> {"queued", "out", "done"}]
  /\ tries \in [Msgs -> 0..MaxDeliver]
  /\ batch \in [Procs -> SUBSET Msgs]
  /\ proc \in [Procs -> [at : {"idle", "dedupe", "append", "count", "insert", "merge", "finish"},
                         msg : 0..MaxMsg, left : SUBSET Samples]]
  /\ seen \in [Procs -> Seq(Msgs)]
  /\ guard \in [Procs -> Seq(Ids \X {Payload[m] : m \in Msgs})]
  /\ \A p \in Procs : Len(seen[p]) <= MemorySize /\ Len(guard[p]) <= MemorySize
  /\ stored \subseteq Ids
  /\ rows \in [Ids -> Nat]
  /\ merged \in [Ids -> [Samples -> Nat]]
  /\ faults \in 0..MaxFaults

Init ==
  /\ broker = [m \in Msgs |-> "queued"]
  /\ tries = [m \in Msgs |-> 0]
  /\ batch = [p \in Procs |-> {}]
  /\ proc = [p \in Procs |-> Idle]
  /\ seen = [p \in Procs |-> <<>>]
  /\ guard = [p \in Procs |-> <<>>]
  /\ stored = {}
  /\ rows = [i \in Ids |-> 0]
  /\ merged = [i \in Ids |-> [s \in Samples |-> 0]]
  /\ faults = 0

memory == <<seen, guard>>
tables == <<stored, rows, merged>>

Fault == faults < MaxFaults /\ faults' = faults + 1
Goes(p, at) == proc' = [proc EXCEPT ![p].at = at]
Ends(p) == proc' = [proc EXCEPT ![p] = Idle]
Ack(m) == broker' = [broker EXCEPT ![m] = "done"]
Nak(m) == broker' = [broker EXCEPT ![m] = IF @ = "out" THEN "queued" ELSE @]

-----------------------------------------------------------------------------
(* The broker.                                                             *)

Fetch(p, ms) ==
  /\ proc[p] = Idle /\ batch[p] = {} /\ ms # {}
  /\ \A m \in ms : broker[m] = "queued" /\ tries[m] < MaxDeliver
  /\ batch' = [batch EXCEPT ![p] = ms]
  /\ broker' = [m \in Msgs |-> IF m \in ms THEN "out" ELSE broker[m]]
  /\ tries' = [m \in Msgs |-> IF m \in ms THEN tries[m] + 1 ELSE tries[m]]
  /\ UNCHANGED <<proc, memory, tables, faults>>

AckWaitLapses(m) ==
  /\ broker[m] = "out"
  /\ Nak(m)
  /\ UNCHANGED <<tries, batch, proc, memory, tables, faults>>

-----------------------------------------------------------------------------
(* A process: pullLoop and the handlers.                                   *)

Begin(p, m) ==
  /\ proc[p] = Idle /\ m \in batch[p] /\ \A n \in batch[p] : m <= n
  /\ batch' = [batch EXCEPT ![p] = @ \ {m}]
  /\ proc' = [proc EXCEPT ![p] = [Idle EXCEPT !.at = "dedupe", !.msg = m]]
  /\ UNCHANGED <<broker, tries, memory, tables, faults>>

\* Known by its sequence, or its key is known, with this payload or another one.
Handled(p, m) ==
  \/ \E i \in 1..Len(seen[p]) : seen[p][i] = m
  \/ Key[m] # 0 /\ \E i \in 1..Len(guard[p]) : guard[p][i][1] = Id(m)

First(m) == CASE Type[m] \in {"event", "rollup"} -> "append"
              [] Type[m] = "inventory" -> "count"
              [] Type[m] = "metric" -> "merge"

MetricsDedupeAction(p) ==
  LET m == proc[p].msg IN
  /\ proc[p].at = "dedupe"
  /\ \/ Handled(p, m) /\ Ack(m) /\ Ends(p)
     \/ /\ ~Handled(p, m)
        /\ proc' = [proc EXCEPT ![p].at = First(m),
                                ![p].left = IF First(m) = "merge" THEN Samples ELSE {}]
        /\ UNCHANGED broker
  /\ UNCHANGED <<tries, batch, memory, tables, faults>>

\* Mutation: a duplicate row does not end the handler.
AppendThenMerge(p) ==
  LET m == proc[p].msg IN
  /\ proc[p].at = "append"
  /\ stored' = stored \cup {Id(m)}
  /\ proc' = IF Type[m] = "rollup"
             THEN [proc EXCEPT ![p].at = "merge", ![p].left = Samples]
             ELSE [proc EXCEPT ![p].at = "finish"]
  /\ UNCHANGED <<broker, tries, batch, memory, rows, merged, faults>>

\* The insert; a duplicate ends the handler with success.
AppendDeviceTelemetryEdgeEvent(p) ==
  LET m == proc[p].msg IN
  /\ proc[p].at = "append"
  /\ stored' = stored \cup {Id(m)}
  /\ proc' = IF Type[m] = "rollup" /\ Id(m) \notin stored
             THEN [proc EXCEPT ![p].at = "merge", ![p].left = Samples]
             ELSE [proc EXCEPT ![p].at = "finish"]
  /\ UNCHANGED <<broker, tries, batch, memory, rows, merged, faults>>

\* Mutation: the count looks for another key than the insert writes.
CountFindsNone(p) ==
  /\ proc[p].at = "count"
  /\ Goes(p, "insert")
  /\ UNCHANGED <<broker, tries, batch, memory, tables, faults>>

CountInventoryEvents(p) ==
  /\ proc[p].at = "count"
  /\ Goes(p, IF rows[Id(proc[p].msg)] > 0 THEN "finish" ELSE "insert")
  /\ UNCHANGED <<broker, tries, batch, memory, tables, faults>>

InsertInventoryEvent(p) ==
  /\ proc[p].at = "insert"
  /\ rows' = [rows EXCEPT ![Id(proc[p].msg)] = @ + 1]
  /\ Goes(p, "finish")
  /\ UNCHANGED <<broker, tries, batch, memory, stored, merged, faults>>

MergeTelemetryRollupMinute(p, s) ==
  /\ proc[p].at = "merge" /\ s \in proc[p].left
  /\ merged' = [merged EXCEPT ![Id(proc[p].msg)][s] = @ + 1]
  /\ proc' = [proc EXCEPT ![p].left = @ \ {s},
                          ![p].at = IF proc[p].left = {s} THEN "finish" ELSE "merge"]
  /\ UNCHANGED <<broker, tries, batch, memory, stored, rows, faults>>

\* Mutation: the memory without eviction.
RememberAll(q, x) == Append(q, x)

\* A bounded memory: the oldest entry leaves.
Remember(q, x) == IF Len(q) < MemorySize THEN Append(q, x) ELSE Append(Tail(q), x)

\* Neither is in the memory yet: a process handles one message of the stream at a time.
RememberMetricsDedupe(p, m) ==
  /\ seen' = [seen EXCEPT ![p] = Remember(@, m)]
  /\ guard' = IF Key[m] = 0 THEN guard
              ELSE [guard EXCEPT ![p] = Remember(@, <<Id(m), Payload[m]>>)]

\* The handler has returned success.  The acknowledgement may not arrive.
Finish(p) ==
  LET m == proc[p].msg IN
  /\ proc[p].at = "finish"
  /\ RememberMetricsDedupe(p, m)
  /\ \/ Ack(m) /\ UNCHANGED faults
     \/ Fault /\ UNCHANGED broker
  /\ Ends(p)
  /\ UNCHANGED <<tries, batch, tables>>

\* Mutation: the message is acknowledged although its handler failed.
FailAcks(p) ==
  /\ proc[p].at \notin {"idle", "dedupe"} /\ Fault
  /\ Ack(proc[p].msg) /\ Ends(p)
  /\ UNCHANGED <<tries, batch, memory, tables>>

\* A statement fails, or its result is not seen.
HandlerFails(p) ==
  /\ proc[p].at \notin {"idle", "dedupe"} /\ Fault
  /\ Nak(proc[p].msg) /\ Ends(p)
  /\ UNCHANGED <<tries, batch, memory, tables>>

\* A new process starts with an empty memory.
Crash(p) ==
  /\ Fault
  /\ proc[p] # Idle \/ batch[p] # {} \/ seen[p] # <<>>
  /\ Ends(p)
  /\ batch' = [batch EXCEPT ![p] = {}]
  /\ seen' = [seen EXCEPT ![p] = <<>>]
  /\ guard' = [guard EXCEPT ![p] = <<>>]
  /\ UNCHANGED <<broker, tries, tables>>

-----------------------------------------------------------------------------
Handle(p) ==
  \/ MetricsDedupeAction(p) \/ AppendDeviceTelemetryEdgeEvent(p)
  \/ CountInventoryEvents(p) \/ InsertInventoryEvent(p)
  \/ \E s \in Samples : MergeTelemetryRollupMinute(p, s)
  \/ Finish(p)

Next ==
  \/ \E p \in Procs : \/ \E ms \in SUBSET Msgs : Fetch(p, ms)
                      \/ \E m \in Msgs : Begin(p, m)
                      \/ Handle(p) \/ HandlerFails(p) \/ Crash(p)
  \/ \E m \in Msgs : AckWaitLapses(m)

Spec == Init /\ [][Next]_vars

-----------------------------------------------------------------------------
(* Properties. *)

\* A sample of a critical event is merged at most once, however often the event is
\* published and delivered and whichever process dies in between: the row with its
\* key comes first, and only its writer merges (handleGenericMetrics).
CriticalOnce ==
  \A m \in Msgs : Type[m] = "rollup" => \A s \in Samples : merged[Id(m)][s] <= 1

\* What is acknowledged is stored: no message leaves the stream on the strength of a
\* memory whose handler did not get as far as its row.
AckedIsStored ==
  \A m \in Msgs : broker[m] = "done" =>
    /\ Type[m] \in {"event", "rollup"} => Id(m) \in stored
    /\ Type[m] = "inventory" => rows[Id(m)] > 0

\* An inventory event has at most one row for each process, however often it is sent and
\* delivered: count and insert are two statements and nothing makes the key unique, so
\* that processes that count at the same time each insert, but none after them
\* (AppendInventoryEventFromDeviceTelemetry).
InventoryBound == \A i \in Ids : rows[i] <= Cardinality(Procs)
=============================================================================
