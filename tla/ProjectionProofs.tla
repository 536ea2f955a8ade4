-------------------------- MODULE ProjectionProofs --------------------------
(***************************************************************************)
(* Proofs about module MetricsProjection, for every number of processes,   *)
(* messages and samples, every size of the memories, any number of         *)
(* deliveries and of faults.                                               *)
(***************************************************************************)
EXTENDS MetricsProjection, FiniteSetTheorems, SequenceTheorems, TLAPS

-----------------------------------------------------------------------------
(* The inductive invariant. *)

\* A process at work has a message, of the type its statement is for.
Shape ==
  \A p \in Procs :
    /\ proc[p].at # "idle" => proc[p].msg \in Msgs
    /\ proc[p].at = "append" => Type[proc[p].msg] \in {"event", "rollup"}
    /\ proc[p].at \in {"count", "insert"} => Type[proc[p].msg] = "inventory"
    /\ proc[p].at = "merge" => Type[proc[p].msg] \in {"rollup", "metric"}

\* The process merges the samples of a critical message.
Merging(p) == proc[p].at = "merge" /\ Type[proc[p].msg] = "rollup"

\* Only the process that wrote the row merges, a sample it has left is not merged, and
\* nothing is merged before the row.
MergeInv ==
  /\ \A p \in Procs : Merging(p) => /\ Id(proc[p].msg) \in stored
                                    /\ \A s \in proc[p].left : merged[Id(proc[p].msg)][s] = 0
  /\ \A p, q \in Procs :
       Merging(p) /\ Merging(q) /\ Id(proc[p].msg) = Id(proc[q].msg) => p = q
  /\ \A m \in Msgs : Type[m] = "rollup" /\ Id(m) \notin stored =>
       \A s \in Samples : merged[Id(m)][s] = 0

\* The row of a message is written.
Written(m) ==
  /\ Type[m] \in {"event", "rollup"} => Id(m) \in stored
  /\ Type[m] = "inventory" => rows[Id(m)] > 0

WrittenAfter(m) ==
  /\ Type[m] \in {"event", "rollup"} => Id(m) \in stored'
  /\ Type[m] = "inventory" => rows'[Id(m)] > 0

\* What a handler is done with, and what a memory holds, is written.
WrittenInv ==
  /\ \A p \in Procs : proc[p].at \in {"merge", "finish"} => Written(proc[p].msg)
  /\ \A p \in Procs : \A i \in 1..Len(seen[p]) : Written(seen[p][i])
  /\ \A p \in Procs : \A i \in 1..Len(guard[p]) : \A m \in Msgs :
       Id(m) = guard[p][i][1] => Written(m)

\* The processes that have counted no row of i and are about to insert one.
Inserting(i) == {p \in Procs : proc[p].at = "insert" /\ Id(proc[p].msg) = i}

RowsInv == \A i \in Ids : rows[i] + Cardinality(Inserting(i)) <= Cardinality(Procs)

PInv == TypeOK /\ Shape /\ MergeInv /\ CriticalOnce /\ WrittenInv /\ AckedIsStored /\ RowsInv

-----------------------------------------------------------------------------
(* Operators of the model. *)

PState == [at : {"idle", "dedupe", "append", "count", "insert", "merge", "finish"},
           msg : 0..MaxMsg, left : SUBSET Samples]

LEMMA IdleState == Idle \in PState
  BY ProjectionLimits DEF Idle, PState

\* Messages under one id are of one type.
LEMMA IdType ==
  ASSUME NEW m \in Msgs, NEW n \in Msgs, Id(m) = Id(n)
  PROVE  Type[m] = Type[n]
  <1>1. m \in Nat \ {0} /\ n \in Nat \ {0}  BY ProjectionLimits DEF Msgs
  <1>2. Key[m] \in Nat /\ Key[n] \in Nat  BY ProjectionKeys
  <1>3. CASE Key[m] = 0 /\ Key[n] = 0  BY <1>3 DEF Id
  <1>4. CASE Key[m] # 0 /\ Key[n] # 0  BY <1>2, <1>4, ProjectionKeys DEF Id
  <1>5. CASE (Key[m] = 0) # (Key[n] = 0)  BY <1>1, <1>2, <1>5 DEF Id
  <1> QED BY <1>3, <1>4, <1>5

\* Sequence r has nothing but x and the entries of q.
HoldsOnly(r, q, x) ==
  \A i \in 1..Len(r) : r[i] = x \/ \E j \in 1..Len(q) : r[i] = q[j]

\* A bounded memory keeps its bound and holds nothing but what it was given.
LEMMA RememberKeeps ==
  ASSUME NEW S, NEW q \in Seq(S), NEW x \in S, Len(q) <= MemorySize
  PROVE  /\ Remember(q, x) \in Seq(S)
         /\ Len(Remember(q, x)) <= MemorySize
         /\ HoldsOnly(Remember(q, x), q, x)
  <1>0. MemorySize \in Nat \ {0} /\ Len(q) \in Nat  BY ProjectionLimits, LenProperties
  <1>1. CASE Len(q) < MemorySize
    <2>1. Remember(q, x) = Append(q, x)  BY <1>1 DEF Remember
    <2> QED BY <1>0, <1>1, <2>1, AppendProperties DEF HoldsOnly
  <1>2. CASE ~(Len(q) < MemorySize)
    <2>1. Remember(q, x) = Append(Tail(q), x)  BY <1>2 DEF Remember
    <2>2. q # <<>>  BY <1>0, <1>2, EmptySeq
    <2>3. /\ Tail(q) \in Seq(S) /\ Len(Tail(q)) = Len(q) - 1
          /\ \A i \in 1..Len(Tail(q)) : Tail(q)[i] = q[i + 1]
      BY <2>2, HeadTailProperties
    <2>4. /\ Append(Tail(q), x) \in Seq(S) /\ Len(Append(Tail(q), x)) = Len(q)
          /\ \A i \in 1..Len(q) - 1 : Append(Tail(q), x)[i] = q[i + 1]
          /\ Append(Tail(q), x)[Len(q)] = x
      BY <1>0, <2>3, AppendProperties
    <2>5. ASSUME NEW i \in 1..Len(q)
          PROVE  Append(Tail(q), x)[i] = x \/ \E j \in 1..Len(q) : Append(Tail(q), x)[i] = q[j]
      <3>1. CASE i = Len(q)  BY <2>4, <3>1
      <3>2. CASE i # Len(q)
        <4>1. i \in 1..Len(q) - 1 /\ i + 1 \in 1..Len(q)  BY <1>0, <3>2
        <4> QED BY <2>4, <4>1
      <3> QED BY <3>1, <3>2
    <2> QED BY <1>0, <2>1, <2>4, <2>5 DEF HoldsOnly
  <1> QED BY <1>1, <1>2

-----------------------------------------------------------------------------
(* What a step does to the processes, and types. *)

Others(p) == \A q \in Procs : q # p => proc'[q] = proc[q]

\* Process p is put into state r.
LEMMA ProcMoves ==
  ASSUME TypeOK, NEW p \in Procs, NEW r \in PState, proc' = [proc EXCEPT ![p] = r]
  PROVE  proc' \in [Procs -> PState] /\ proc'[p] = r /\ Others(p)
  BY DEF TypeOK, Others, PState

LEMMA ProcShape ==
  ASSUME TypeOK, NEW p \in Procs
  PROVE  /\ proc \in [Procs -> PState]
         /\ proc[p] = [at |-> proc[p].at, msg |-> proc[p].msg, left |-> proc[p].left]
         /\ proc[p].msg \in 0..MaxMsg /\ proc[p].left \in SUBSET Samples
  BY DEF TypeOK, PState

LEMMA EndsStep ==
  ASSUME TypeOK, NEW p \in Procs, Ends(p)
  PROVE  proc' \in [Procs -> PState] /\ proc'[p] = Idle /\ Others(p)
  BY IdleState, ProcMoves DEF Ends

LEMMA DedupeStep ==
  ASSUME TypeOK, Shape, NEW p \in Procs, MetricsDedupeAction(p)
  PROVE  /\ TypeOK' /\ Others(p)
         /\ \/ /\ Handled(p, proc[p].msg) /\ Ack(proc[p].msg) /\ proc'[p] = Idle
            \/ /\ broker' = broker
               /\ proc'[p] = [at |-> First(proc[p].msg), msg |-> proc[p].msg,
                              left |-> IF First(proc[p].msg) = "merge" THEN Samples ELSE {}]
  <1> DEFINE m == proc[p].msg
  <1>0. m \in Msgs  BY DEF MetricsDedupeAction, Shape
  <1>1. First(m) \in {"append", "count", "merge"}
    <2>1. Type[m] \in {"event", "rollup", "metric", "inventory"}  BY <1>0, ProjectionTypes
    <2> QED BY <2>1 DEF First
  <1>2. CASE Handled(p, m) /\ Ack(m) /\ Ends(p)
    <2>1. proc' \in [Procs -> PState] /\ proc'[p] = Idle /\ Others(p)  BY <1>2, EndsStep
    <2>2. broker' \in [Msgs -> {"queued", "out", "done"}]  BY <1>2 DEF Ack, TypeOK
    <2> QED BY <1>2, <2>1, <2>2 DEF TypeOK, PState, MetricsDedupeAction, memory, tables
  <1>3. CASE /\ proc' = [proc EXCEPT ![p].at = First(m),
                                     ![p].left = IF First(m) = "merge" THEN Samples ELSE {}]
             /\ UNCHANGED broker
    <2> DEFINE r == [at |-> First(m), msg |-> m,
                     left |-> IF First(m) = "merge" THEN Samples ELSE {}]
    <2>1. r \in PState  BY <1>1, ProcShape DEF PState
    <2>s. /\ proc \in [Procs -> PState]
          /\ proc[p] = [at |-> proc[p].at, msg |-> proc[p].msg, left |-> proc[p].left]
      BY ProcShape
    <2>3. proc' \in [Procs -> PState] /\ Others(p) /\ proc'[p] = r
      BY <2>1, <1>3, <2>s DEF PState, Others
    <2> HIDE DEF r
    <2>4. TypeOK'  BY <1>3, <2>3 DEF TypeOK, PState, MetricsDedupeAction, memory, tables
    <2> QED BY <1>3, <2>3, <2>4 DEF r
  <1> QED BY <1>2, <1>3 DEF MetricsDedupeAction

LEMMA AppendStep ==
  ASSUME TypeOK, Shape, NEW p \in Procs, AppendDeviceTelemetryEdgeEvent(p)
  PROVE  /\ TypeOK' /\ Others(p)
         /\ proc'[p].msg = proc[p].msg
         /\ \/ /\ Type[proc[p].msg] = "rollup" /\ Id(proc[p].msg) \notin stored
               /\ proc'[p].at = "merge"
            \/ proc'[p].at = "finish"
  <1> DEFINE m == proc[p].msg
  <1>0. m \in Msgs  BY DEF AppendDeviceTelemetryEdgeEvent, Shape
  <1>1. stored' \subseteq Ids  BY <1>0 DEF AppendDeviceTelemetryEdgeEvent, TypeOK, Ids
  <1>2. CASE Type[m] = "rollup" /\ Id(m) \notin stored
    <2> DEFINE r == [at |-> "merge", msg |-> m, left |-> Samples]
    <2>a. r \in PState  BY ProcShape DEF PState
    <2>s. /\ proc \in [Procs -> PState]
          /\ proc[p] = [at |-> proc[p].at, msg |-> proc[p].msg, left |-> proc[p].left]
      BY ProcShape
    <2>1. proc' \in [Procs -> PState] /\ Others(p) /\ proc'[p] = r
      BY <2>a, <1>2, <2>s DEF PState, AppendDeviceTelemetryEdgeEvent, Others
    <2> HIDE DEF r
    <2>2. TypeOK'  BY <1>1, <2>1 DEF TypeOK, PState, AppendDeviceTelemetryEdgeEvent, memory
    <2> QED BY <1>2, <2>1, <2>2 DEF r
  <1>3. CASE ~(Type[m] = "rollup" /\ Id(m) \notin stored)
    <2> DEFINE r == [at |-> "finish", msg |-> m, left |-> proc[p].left]
    <2>a. r \in PState  BY ProcShape DEF PState
    <2>s. /\ proc \in [Procs -> PState]
          /\ proc[p] = [at |-> proc[p].at, msg |-> proc[p].msg, left |-> proc[p].left]
      BY ProcShape
    <2>1. proc' \in [Procs -> PState] /\ Others(p) /\ proc'[p] = r
      BY <2>a, <1>3, <2>s DEF PState, AppendDeviceTelemetryEdgeEvent, Others
    <2> HIDE DEF r
    <2>2. TypeOK'  BY <1>1, <2>1 DEF TypeOK, PState, AppendDeviceTelemetryEdgeEvent, memory
    <2> QED BY <2>1, <2>2 DEF r
  <1> QED BY <1>2, <1>3

LEMMA CountStep ==
  ASSUME TypeOK, NEW p \in Procs, CountInventoryEvents(p)
  PROVE  /\ TypeOK' /\ Others(p)
         /\ proc'[p].msg = proc[p].msg
         /\ proc'[p].at = IF rows[Id(proc[p].msg)] > 0 THEN "finish" ELSE "insert"
  <1> DEFINE at == IF rows[Id(proc[p].msg)] > 0 THEN "finish" ELSE "insert"
  <1> DEFINE r == [at |-> at, msg |-> proc[p].msg, left |-> proc[p].left]
  <1>a. r \in PState  BY ProcShape DEF PState
  <1>s. /\ proc \in [Procs -> PState]
        /\ proc[p] = [at |-> proc[p].at, msg |-> proc[p].msg, left |-> proc[p].left]
    BY ProcShape
  <1>1. proc' \in [Procs -> PState] /\ Others(p) /\ proc'[p] = r
    BY <1>a, <1>s DEF PState, CountInventoryEvents, Goes, Others
  <1> HIDE DEF r
  <1>2. TypeOK'  BY <1>1 DEF TypeOK, PState, CountInventoryEvents, memory, tables
  <1> QED BY <1>1, <1>2 DEF r

LEMMA InsertStep ==
  ASSUME TypeOK, Shape, NEW p \in Procs, InsertInventoryEvent(p)
  PROVE  /\ TypeOK' /\ Others(p)
         /\ proc'[p].msg = proc[p].msg /\ proc'[p].at = "finish"
         /\ \A i \in Ids : rows'[i] = IF i = Id(proc[p].msg) THEN rows[i] + 1 ELSE rows[i]
  <1> DEFINE r == [at |-> "finish", msg |-> proc[p].msg, left |-> proc[p].left]
  <1>a. r \in PState  BY ProcShape DEF PState
  <1>s. /\ proc \in [Procs -> PState]
        /\ proc[p] = [at |-> proc[p].at, msg |-> proc[p].msg, left |-> proc[p].left]
    BY ProcShape
  <1>1. proc' \in [Procs -> PState] /\ Others(p) /\ proc'[p] = r
    BY <1>a, <1>s DEF PState, InsertInventoryEvent, Goes, Others
  <1> HIDE DEF r
  <1>2. Id(proc[p].msg) \in Ids  BY DEF Ids, Shape, InsertInventoryEvent
  <1>3. /\ rows' \in [Ids -> Nat]
        /\ \A i \in Ids : rows'[i] = IF i = Id(proc[p].msg) THEN rows[i] + 1 ELSE rows[i]
    BY <1>2 DEF InsertInventoryEvent, TypeOK
  <1>4. TypeOK'  BY <1>1, <1>3 DEF TypeOK, PState, InsertInventoryEvent, memory
  <1> QED BY <1>1, <1>3, <1>4 DEF r

LEMMA MergeStep ==
  ASSUME TypeOK, Shape, NEW p \in Procs, NEW s \in Samples, MergeTelemetryRollupMinute(p, s)
  PROVE  /\ TypeOK' /\ Others(p)
         /\ proc'[p].msg = proc[p].msg /\ proc'[p].left = proc[p].left \ {s}
         /\ proc'[p].at \in {"finish", "merge"}
         /\ \A i \in Ids, t \in Samples :
              merged'[i][t] = IF i = Id(proc[p].msg) /\ t = s THEN merged[i][t] + 1
                              ELSE merged[i][t]
  <1> DEFINE at == IF proc[p].left = {s} THEN "finish" ELSE "merge"
  <1>0. proc[p].left \in SUBSET Samples /\ proc[p].msg \in Msgs
    BY DEF TypeOK, Shape, MergeTelemetryRollupMinute
  <1> DEFINE r == [at |-> at, msg |-> proc[p].msg, left |-> proc[p].left \ {s}]
  <1>a. r \in PState  BY ProcShape DEF PState
  <1>s. /\ proc \in [Procs -> PState]
        /\ proc[p] = [at |-> proc[p].at, msg |-> proc[p].msg, left |-> proc[p].left]
    BY ProcShape
  <1>2. proc' \in [Procs -> PState] /\ Others(p) /\ proc'[p] = r
    BY <1>a, <1>s DEF PState, MergeTelemetryRollupMinute, Others
  <1> HIDE DEF r
  <1>3. Id(proc[p].msg) \in Ids  BY <1>0 DEF Ids
  <1>4. /\ merged' \in [Ids -> [Samples -> Nat]]
        /\ \A i \in Ids, t \in Samples :
             merged'[i][t] = IF i = Id(proc[p].msg) /\ t = s THEN merged[i][t] + 1
                             ELSE merged[i][t]
    BY <1>3 DEF MergeTelemetryRollupMinute, TypeOK
  <1>5. TypeOK'  BY <1>2, <1>4 DEF TypeOK, PState, MergeTelemetryRollupMinute, memory
  <1> QED BY <1>2, <1>4, <1>5 DEF r

LEMMA FetchStep ==
  ASSUME TypeOK, NEW p \in Procs, NEW ms \in SUBSET Msgs, Fetch(p, ms)
  PROVE  TypeOK' /\ proc' = proc /\ \A m \in Msgs : broker'[m] = "done" => broker[m] = "done"
  <1>1. /\ broker' \in [Msgs -> {"queued", "out", "done"}]
        /\ \A m \in Msgs : broker'[m] = "done" => broker[m] = "done"
    BY DEF TypeOK, Fetch
  <1>2. tries' \in [Msgs -> 0..MaxDeliver]
    <2>1. ASSUME NEW m \in Msgs PROVE tries'[m] \in 0..MaxDeliver
      BY <2>1, ProjectionLimits DEF TypeOK, Fetch
    <2> QED BY <2>1 DEF Fetch
  <1>3. batch' \in [Procs -> SUBSET Msgs]  BY DEF TypeOK, Fetch
  <1> QED BY <1>1, <1>2, <1>3 DEF TypeOK, Fetch, memory, tables

LEMMA NakStep ==
  ASSUME TypeOK, NEW m \in Msgs, Nak(m)
  PROVE  /\ broker' \in [Msgs -> {"queued", "out", "done"}]
         /\ \A n \in Msgs : broker'[n] = "done" => broker[n] = "done"
  BY DEF TypeOK, Nak

LEMMA BeginStep ==
  ASSUME TypeOK, NEW p \in Procs, NEW m \in Msgs, Begin(p, m)
  PROVE  TypeOK' /\ Others(p) /\ proc'[p] = [at |-> "dedupe", msg |-> m, left |-> {}]
  <1> DEFINE r == [at |-> "dedupe", msg |-> m, left |-> {}]
  <1>1. r \in PState  BY ProjectionLimits DEF PState, Msgs
  <1>2. proc' \in [Procs -> PState] /\ Others(p)
        /\ proc'[p].at = "dedupe" /\ proc'[p].msg = m /\ proc'[p].left = {}
    BY <1>1 DEF Begin, Idle, Others, PState, TypeOK
  <1>3. proc'[p] = r  BY <1>2 DEF PState
  <1> HIDE DEF r
  <1>4. batch' \in [Procs -> SUBSET Msgs]  BY DEF TypeOK, Begin
  <1>5. TypeOK'  BY <1>2, <1>4 DEF TypeOK, PState, Begin, memory, tables
  <1> QED BY <1>2, <1>3, <1>5 DEF r

\* What a process remembers when it is done with a message.
LEMMA FinishStep ==
  ASSUME TypeOK, Shape, NEW p \in Procs, Finish(p)
  PROVE  /\ TypeOK' /\ Others(p) /\ proc'[p] = Idle
         /\ \A m \in Msgs : broker'[m] = "done" => broker[m] = "done" \/ m = proc[p].msg
         /\ \A q \in Procs :
              /\ HoldsOnly(seen'[q], seen[q], proc[p].msg)
              /\ HoldsOnly(guard'[q], guard[q], <<Id(proc[p].msg), Payload[proc[p].msg]>>)
  <1> DEFINE m == proc[p].msg
             G == Ids \X {Payload[n] : n \in Msgs}
             x == <<Id(m), Payload[m]>>
  <1>0. m \in Msgs  BY DEF Finish, Shape
  <1>1. proc' \in [Procs -> PState] /\ proc'[p] = Idle /\ Others(p)  BY EndsStep DEF Finish
  <1>2. /\ broker' \in [Msgs -> {"queued", "out", "done"}]
        /\ \A n \in Msgs : broker'[n] = "done" => broker[n] = "done" \/ n = m
        /\ faults' \in 0..MaxFaults
    <2>1. m \in Msgs /\ faults \in 0..MaxFaults /\ MaxFaults \in Nat
      BY <1>0, ProjectionLimits DEF TypeOK
    <2>2. CASE Ack(m) /\ UNCHANGED faults  BY <2>1, <2>2 DEF Ack, TypeOK
    <2>3. CASE Fault /\ UNCHANGED broker  BY <2>1, <2>3 DEF Fault, TypeOK
    <2> QED BY <2>2, <2>3 DEF Finish
  <1>3. /\ seen' \in [Procs -> Seq(Msgs)]
        /\ \A q \in Procs : Len(seen'[q]) <= MemorySize
        /\ \A q \in Procs : HoldsOnly(seen'[q], seen[q], m)
    <2>1. /\ Remember(seen[p], m) \in Seq(Msgs)
          /\ Len(Remember(seen[p], m)) <= MemorySize
          /\ HoldsOnly(Remember(seen[p], m), seen[p], m)
      <3>1. seen[p] \in Seq(Msgs) /\ Len(seen[p]) <= MemorySize  BY DEF TypeOK
      <3> HIDE DEF m
      <3> QED BY <1>0, <3>1, RememberKeeps
    <2>2. seen' = [seen EXCEPT ![p] = Remember(seen[p], m)]
      BY DEF Finish, RememberMetricsDedupe
    <2> HIDE DEF m
    <2>3. \A q \in Procs : HoldsOnly(seen[q], seen[q], m)  BY DEF HoldsOnly
    <2> QED BY <2>1, <2>2, <2>3 DEF TypeOK
  <1>4. /\ guard' \in [Procs -> Seq(G)]
        /\ \A q \in Procs : Len(guard'[q]) <= MemorySize
        /\ \A q \in Procs : HoldsOnly(guard'[q], guard[q], x)
    <2>0. guard \in [Procs -> Seq(G)] /\ \A q \in Procs : Len(guard[q]) <= MemorySize
      BY DEF TypeOK
    <2>1. x \in G  BY <1>0 DEF Ids
    <2>2. guard' = guard \/ guard' = [guard EXCEPT ![p] = Remember(guard[p], x)]
      BY DEF Finish, RememberMetricsDedupe
    <2> HIDE DEF G, x
    <2>3. /\ Remember(guard[p], x) \in Seq(G)
          /\ Len(Remember(guard[p], x)) <= MemorySize
          /\ HoldsOnly(Remember(guard[p], x), guard[p], x)
      <3>1. guard[p] \in Seq(G) /\ Len(guard[p]) <= MemorySize  BY <2>0
      <3> QED BY <2>1, <3>1, RememberKeeps
    <2>4. \A q \in Procs : HoldsOnly(guard[q], guard[q], x)  BY DEF HoldsOnly
    <2> QED BY <2>0, <2>2, <2>3, <2>4
  <1>6. TypeOK'
    BY <1>1, <1>2, <1>3, <1>4 DEF TypeOK, PState, Finish, tables
  <1> QED BY <1>1, <1>2, <1>3, <1>4, <1>6

LEMMA FailStep ==
  ASSUME TypeOK, Shape, NEW p \in Procs, HandlerFails(p)
  PROVE  /\ TypeOK' /\ Others(p) /\ proc'[p] = Idle
         /\ \A m \in Msgs : broker'[m] = "done" => broker[m] = "done"
  <1>1. proc' \in [Procs -> PState] /\ proc'[p] = Idle /\ Others(p)  BY EndsStep DEF HandlerFails
  <1>2. /\ broker' \in [Msgs -> {"queued", "out", "done"}]
        /\ \A n \in Msgs : broker'[n] = "done" => broker[n] = "done"
    <2>1. proc[p].msg \in Msgs  BY DEF HandlerFails, Shape
    <2> QED BY <2>1, NakStep DEF HandlerFails
  <1>3. faults' \in 0..MaxFaults  BY ProjectionLimits DEF HandlerFails, Fault, TypeOK
  <1>4. TypeOK'  BY <1>1, <1>2, <1>3 DEF TypeOK, PState, HandlerFails, memory, tables
  <1> QED BY <1>1, <1>2, <1>4

LEMMA CrashStep ==
  ASSUME TypeOK, NEW p \in Procs, Crash(p)
  PROVE  /\ TypeOK' /\ Others(p) /\ proc'[p] = Idle
         /\ seen'[p] = <<>> /\ guard'[p] = <<>>
         /\ \A q \in Procs : q # p => seen'[q] = seen[q] /\ guard'[q] = guard[q]
  <1>1. proc' \in [Procs -> PState] /\ proc'[p] = Idle /\ Others(p)  BY EndsStep DEF Crash
  <1>2. faults' \in 0..MaxFaults  BY ProjectionLimits DEF Crash, Fault, TypeOK
  <1>3. batch' \in [Procs -> SUBSET Msgs]  BY DEF Crash, TypeOK
  <1>4. /\ seen' \in [Procs -> Seq(Msgs)] /\ guard' \in [Procs -> Seq(Ids \X {Payload[m] : m \in Msgs})]
        /\ seen'[p] = <<>> /\ guard'[p] = <<>>
        /\ \A q \in Procs : q # p => seen'[q] = seen[q] /\ guard'[q] = guard[q]
    BY EmptySeq DEF Crash, TypeOK
  <1>5. \A q \in Procs : Len(seen'[q]) <= MemorySize /\ Len(guard'[q]) <= MemorySize
    <2>1. ASSUME NEW q \in Procs PROVE Len(seen'[q]) <= MemorySize /\ Len(guard'[q]) <= MemorySize
      <3>1. CASE q = p
        <4>1. Len(seen'[q]) = 0 /\ Len(guard'[q]) = 0  BY <1>4, <3>1
        <4> QED BY <4>1, ProjectionLimits
      <3>2. CASE q # p  BY <1>4, <3>2 DEF TypeOK
      <3> QED BY <3>1, <3>2
    <2> QED BY <2>1
  <1>6. TypeOK'  BY <1>1, <1>2, <1>3, <1>4, <1>5 DEF TypeOK, PState, Crash, tables
  <1> QED BY <1>1, <1>4, <1>6

-----------------------------------------------------------------------------
(* The parts of the invariant under steps that leave the tables alone. *)

LEMMA InsertingFinite ==
  ASSUME NEW i
  PROVE  /\ IsFiniteSet(Inserting(i)) /\ Cardinality(Inserting(i)) \in Nat
         /\ Cardinality(Inserting(i)) <= Cardinality(Procs)
  <1>1. Inserting(i) \in SUBSET Procs  BY DEF Inserting
  <1> QED BY <1>1, ProjectionSets, FS_Subset, FS_CardinalityType

\* Fewer processes are about to insert, and no row is written.
LEMMA FewerInserting ==
  ASSUME RowsInv, rows' = rows, TypeOK, NEW i \in Ids, Inserting(i)' \subseteq Inserting(i)
  PROVE  rows'[i] + Cardinality(Inserting(i)') <= Cardinality(Procs)
  <1>1. IsFiniteSet(Inserting(i)) /\ Cardinality(Inserting(i)) \in Nat  BY InsertingFinite
  <1>2. /\ Cardinality(Inserting(i)') <= Cardinality(Inserting(i))
        /\ Cardinality(Inserting(i)') \in Nat
    BY <1>1, FS_Subset, FS_CardinalityType
  <1>3. rows[i] \in Nat /\ Cardinality(Procs) \in Nat
    BY ProjectionSets, FS_CardinalityType DEF TypeOK
  <1>4. rows[i] + Cardinality(Inserting(i)) <= Cardinality(Procs)  BY DEF RowsInv
  <1> QED BY <1>1, <1>2, <1>3, <1>4

\* A process that begins, ends or goes to a statement of another kind than an insert or the
\* merge of a critical sample.
LEMMA QuietStep ==
  ASSUME PInv, NEW p \in Procs, Others(p), UNCHANGED tables,
         proc'[p].at # "insert", ~(proc'[p].at = "merge" /\ Type[proc'[p].msg] = "rollup")
  PROVE  MergeInv' /\ CriticalOnce' /\ RowsInv'
  <1> USE DEF tables
  <1>1. /\ Merging(p)' = FALSE
        /\ \A q \in Procs : q # p => Merging(q)' = Merging(q) /\ proc'[q] = proc[q]
    BY DEF Merging, Others
  <1>2. MergeInv'
    <2> HIDE DEF Merging
    <2>1. ASSUME NEW q \in Procs, Merging(q)'
          PROVE  /\ Id(proc'[q].msg) \in stored'
                 /\ \A s \in proc'[q].left : merged'[Id(proc'[q].msg)][s] = 0
      BY <1>1, <2>1 DEF MergeInv, PInv
    <2>2. ASSUME NEW q1 \in Procs, NEW q2 \in Procs, Merging(q1)', Merging(q2)',
                 Id(proc'[q1].msg) = Id(proc'[q2].msg)
          PROVE  q1 = q2
      BY <1>1, <2>2 DEF MergeInv, PInv
    <2>3. \A m \in Msgs : Type[m] = "rollup" /\ Id(m) \notin stored' =>
            \A s \in Samples : merged'[Id(m)][s] = 0
      BY DEF MergeInv, PInv
    <2> QED BY <2>1, <2>2, <2>3 DEF MergeInv
  <1>3. CriticalOnce'  BY DEF CriticalOnce, PInv
  <1>4. RowsInv'
    <2>1. ASSUME NEW i \in Ids PROVE rows'[i] + Cardinality(Inserting(i)') <= Cardinality(Procs)
      <3>1. Inserting(i)' \subseteq Inserting(i)  BY DEF Inserting, Others
      <3> QED BY <3>1, FewerInserting DEF PInv
    <2> QED BY <2>1 DEF RowsInv
  <1> QED BY <1>2, <1>3, <1>4

\* Rows are never deleted.
LEMMA WrittenStays ==
  ASSUME TypeOK, stored \subseteq stored', \A i \in Ids : rows'[i] \in Nat /\ rows'[i] >= rows[i],
         NEW m \in Msgs, Written(m)
  PROVE  WrittenAfter(m)
  <1>1. Id(m) \in Ids  BY DEF Ids
  <1>2. rows[Id(m)] \in Nat  BY <1>1 DEF TypeOK
  <1> QED BY <1>1, <1>2 DEF Written, WrittenAfter

\* Messages under one id are written together.
LEMMA WrittenById ==
  ASSUME NEW m \in Msgs, NEW n \in Msgs, Id(m) = Id(n), Written(m)
  PROVE  Written(n)
  BY IdType DEF Written

\* What is acknowledged stays written, if nothing else is acknowledged.
LEMMA AckedStays ==
  ASSUME PInv, stored \subseteq stored', \A i \in Ids : rows'[i] \in Nat /\ rows'[i] >= rows[i],
         \A m \in Msgs : broker'[m] = "done" => broker[m] = "done" \/ WrittenAfter(m)
  PROVE  AckedIsStored'
  <1>1. ASSUME NEW m \in Msgs, broker'[m] = "done" PROVE WrittenAfter(m)
    <2>1. CASE broker[m] = "done"
      <3>1. Written(m)  BY <2>1 DEF PInv, AckedIsStored, Written
      <3> QED BY <3>1, WrittenStays DEF PInv
    <2> QED BY <1>1, <2>1
  <1> QED BY <1>1 DEF AckedIsStored, WrittenAfter

\* The memories, as long as rows are not deleted and nothing new is remembered.
LEMMA MemoryStays ==
  ASSUME PInv, stored \subseteq stored', \A i \in Ids : rows'[i] \in Nat /\ rows'[i] >= rows[i],
         \A q \in Procs : (seen'[q] = seen[q] /\ guard'[q] = guard[q])
                          \/ (Len(seen'[q]) = 0 /\ Len(guard'[q]) = 0),
         \A q \in Procs : proc'[q].at \in {"merge", "finish"} =>
           proc'[q].msg \in Msgs /\ (WrittenAfter(proc'[q].msg) \/ Written(proc'[q].msg))
  PROVE  WrittenInv'
  <1>0. \A m \in Msgs : Written(m) => WrittenAfter(m)  BY WrittenStays DEF PInv
  <1>1. ASSUME NEW q \in Procs, proc'[q].at \in {"merge", "finish"} PROVE WrittenAfter(proc'[q].msg)
    BY <1>0, <1>1
  <1>2. ASSUME NEW q \in Procs, NEW i \in 1..Len(seen'[q]) PROVE WrittenAfter(seen'[q][i])
    <2>1. seen'[q] = seen[q]  BY <1>2
    <2>2. seen[q] \in Seq(Msgs) /\ i \in 1..Len(seen[q])  BY <2>1, <1>2 DEF PInv, TypeOK
    <2>3. seen[q][i] \in Msgs  BY <2>2, ElementOfSeq
    <2>4. Written(seen[q][i])  BY <2>2 DEF PInv, WrittenInv
    <2> QED BY <1>0, <2>1, <2>3, <2>4
  <1>3. ASSUME NEW q \in Procs, NEW i \in 1..Len(guard'[q]), NEW m \in Msgs, Id(m) = guard'[q][i][1]
        PROVE  WrittenAfter(m)
    <2>1. guard'[q] = guard[q]  BY <1>3
    <2>2. i \in 1..Len(guard[q])  BY <2>1, <1>3
    <2>3. Written(m)  BY <1>3, <2>1, <2>2 DEF PInv, WrittenInv
    <2> QED BY <1>0, <2>3
  <1> QED BY <1>1, <1>2, <1>3 DEF WrittenInv, Written, WrittenAfter

\* A step of process p that leaves the tables alone, and whose process is not about to write.
LEMMA QuietInv ==
  ASSUME PInv, TypeOK', Shape', NEW p \in Procs, Others(p), UNCHANGED tables,
         proc'[p].at # "insert", ~(proc'[p].at = "merge" /\ Type[proc'[p].msg] = "rollup"),
         proc'[p].at \in {"merge", "finish"} => Written(proc'[p].msg),
         \A q \in Procs : (seen'[q] = seen[q] /\ guard'[q] = guard[q])
                          \/ (Len(seen'[q]) = 0 /\ Len(guard'[q]) = 0),
         \A m \in Msgs : broker'[m] = "done" => broker[m] = "done" \/ Written(m)
  PROVE  PInv'
  <1>1. stored' = stored /\ \A i \in Ids : rows'[i] \in Nat /\ rows'[i] >= rows[i]
    BY DEF tables, PInv, TypeOK
  <1>2. \A m : WrittenAfter(m) = Written(m)  BY DEF tables, Written, WrittenAfter
  <1>3. MergeInv' /\ CriticalOnce' /\ RowsInv'  BY QuietStep
  <1>4. AckedIsStored'  BY <1>1, <1>2, AckedStays
  <1>5. WrittenInv'
    <2>1. ASSUME NEW q \in Procs, proc'[q].at \in {"merge", "finish"}
          PROVE  proc'[q].msg \in Msgs /\ Written(proc'[q].msg)
      <3>1. proc'[q].msg \in Msgs  BY <2>1 DEF Shape
      <3>2. CASE q = p  BY <2>1, <3>1, <3>2
      <3>3. CASE q # p  BY <2>1, <3>1, <3>3 DEF Others, PInv, WrittenInv
      <3> QED BY <3>2, <3>3
    <2> QED BY <1>1, <2>1, MemoryStays
  <1> QED BY <1>3, <1>4, <1>5 DEF PInv

-----------------------------------------------------------------------------
(* One lemma for each action. *)

LEMMA FetchInv ==
  ASSUME PInv, NEW p \in Procs, NEW ms \in SUBSET Msgs, Fetch(p, ms)
  PROVE  PInv'
  <1>1. TypeOK' /\ proc' = proc /\ \A m \in Msgs : broker'[m] = "done" => broker[m] = "done"
    BY FetchStep DEF PInv
  <1>2. Shape'  BY <1>1 DEF Shape, PInv
  <1>3. proc[p].at = "idle"  BY DEF Fetch, Idle
  <1>4. UNCHANGED tables /\ seen' = seen /\ guard' = guard  BY DEF Fetch, memory
  <1> QED BY <1>1, <1>2, <1>3, <1>4, QuietInv DEF Others

LEMMA LapseInv ==
  ASSUME PInv, NEW m \in Msgs, AckWaitLapses(m)
  PROVE  PInv'
  <1>1. /\ broker' \in [Msgs -> {"queued", "out", "done"}]
        /\ \A n \in Msgs : broker'[n] = "done" => broker[n] = "done"
    BY NakStep DEF AckWaitLapses, PInv
  <1>2. TypeOK'  BY <1>1 DEF TypeOK, PInv, AckWaitLapses, memory, tables
  <1>3. AckedIsStored'  BY <1>1 DEF AckedIsStored, PInv, AckWaitLapses, tables
  <1>4. Shape' /\ MergeInv' /\ CriticalOnce' /\ WrittenInv' /\ RowsInv'
    BY DEF PInv, Shape, MergeInv, Merging, CriticalOnce, WrittenInv, Written, RowsInv, Inserting,
           AckWaitLapses, memory, tables
  <1> QED BY <1>2, <1>3, <1>4 DEF PInv

LEMMA BeginInv ==
  ASSUME PInv, NEW p \in Procs, NEW m \in Msgs, Begin(p, m)
  PROVE  PInv'
  <1>1. TypeOK' /\ Others(p) /\ proc'[p] = [at |-> "dedupe", msg |-> m, left |-> {}]
    BY BeginStep DEF PInv
  <1>2. Shape'  BY <1>1 DEF Shape, PInv, Others
  <1>3. UNCHANGED tables /\ seen' = seen /\ guard' = guard /\ broker' = broker
    BY DEF Begin, memory
  <1> QED BY <1>1, <1>2, <1>3, QuietInv

\* A message that is known, or whose key is, is written.
LEMMA HandledIsWritten ==
  ASSUME PInv, NEW p \in Procs, NEW m \in Msgs, Handled(p, m)
  PROVE  Written(m)
  BY DEF Handled, PInv, WrittenInv

LEMMA DedupeInv ==
  ASSUME PInv, NEW p \in Procs, MetricsDedupeAction(p)
  PROVE  PInv'
  <1> DEFINE m == proc[p].msg
  <1>0. m \in Msgs /\ Type[m] \in {"event", "rollup", "metric", "inventory"}
    BY ProjectionTypes DEF PInv, Shape, MetricsDedupeAction
  <1>1. TypeOK' /\ Others(p)  BY DedupeStep DEF PInv
  <1>2. UNCHANGED tables /\ seen' = seen /\ guard' = guard  BY DEF MetricsDedupeAction, memory
  <1>3. CASE Handled(p, m) /\ Ack(m) /\ proc'[p] = Idle
    <2>1. Written(m)  BY <1>0, <1>3, HandledIsWritten
    <2>2. \A n \in Msgs : broker'[n] = "done" => broker[n] = "done" \/ Written(n)
      BY <1>3, <2>1 DEF Ack, PInv, TypeOK
    <2>3. Shape'  BY <1>1, <1>3 DEF Shape, PInv, Others, Idle
    <2> QED BY <1>1, <1>2, <1>3, <2>2, <2>3, QuietInv DEF Idle
  <1>4. CASE /\ broker' = broker
             /\ proc'[p] = [at |-> First(m), msg |-> m,
                            left |-> IF First(m) = "merge" THEN Samples ELSE {}]
    <2>1. /\ First(m) \in {"append", "count", "merge"}
          /\ First(m) = "append" => Type[m] \in {"event", "rollup"}
          /\ First(m) = "count" => Type[m] = "inventory"
          /\ First(m) = "merge" => Type[m] = "metric"
      BY <1>0 DEF First
    <2>2. proc'[p].at = First(m) /\ proc'[p].msg = m  BY <1>4
    <2>3. Shape'  BY <1>0, <1>1, <2>1, <2>2 DEF Shape, PInv, Others
    <2>4. First(m) = "merge" => Written(m)  BY <2>1 DEF Written
    <2> QED BY <1>1, <1>2, <1>4, <2>1, <2>2, <2>3, <2>4, QuietInv
  <1> QED BY <1>3, <1>4, DedupeStep DEF PInv

\* The first writer of the row is the only one that goes on to merge.
LEMMA AppendInv ==
  ASSUME PInv, NEW p \in Procs, AppendDeviceTelemetryEdgeEvent(p)
  PROVE  PInv'
  <1> DEFINE m == proc[p].msg
  <1>0. m \in Msgs /\ Type[m] \in {"event", "rollup"} /\ proc[p].at = "append"
    BY DEF PInv, Shape, AppendDeviceTelemetryEdgeEvent
  <1>1. /\ TypeOK' /\ Others(p) /\ proc'[p].msg = m
        /\ \/ Type[m] = "rollup" /\ Id(m) \notin stored /\ proc'[p].at = "merge"
           \/ proc'[p].at = "finish"
    BY AppendStep DEF PInv
  <1>2. /\ stored' = stored \cup {Id(m)} /\ merged' = merged /\ rows' = rows
        /\ broker' = broker /\ seen' = seen /\ guard' = guard
    BY DEF AppendDeviceTelemetryEdgeEvent, memory
  <1>3. stored \subseteq stored' /\ \A i \in Ids : rows'[i] \in Nat /\ rows'[i] >= rows[i]
    BY <1>2 DEF PInv, TypeOK
  <1>4. Shape'  BY <1>0, <1>1 DEF Shape, PInv, Others
  <1>5. MergeInv'
    <2>1. ASSUME NEW q \in Procs, Merging(q)'
          PROVE  /\ Id(proc'[q].msg) \in stored'
                 /\ \A s \in proc'[q].left : merged'[Id(proc'[q].msg)][s] = 0
      <3>1. CASE q # p  BY <1>1, <1>2, <2>1, <3>1 DEF Others, PInv, MergeInv, Merging
      <3>2. CASE q = p
        <4>1. Type[m] = "rollup" /\ Id(m) \notin stored  BY <1>1, <2>1, <3>2 DEF Merging
        <4>2. \A s \in Samples : merged[Id(m)][s] = 0  BY <1>0, <4>1 DEF PInv, MergeInv
        <4>3. proc'[p].left \subseteq Samples  BY <1>1 DEF TypeOK
        <4> QED BY <1>1, <1>2, <3>2, <4>2, <4>3
      <3> QED BY <3>1, <3>2
    <2>2. ASSUME NEW q1 \in Procs, NEW q2 \in Procs, Merging(q1)', Merging(q2)',
                 Id(proc'[q1].msg) = Id(proc'[q2].msg), q1 # q2
          PROVE  FALSE
      <3>1. CASE q1 # p /\ q2 # p  BY <1>1, <2>2, <3>1 DEF Others, PInv, MergeInv, Merging
      <3>2. CASE q1 = p
        <4>1. Id(m) \notin stored  BY <1>1, <2>2, <3>2 DEF Merging
        <4>2. Merging(q2) /\ Id(proc[q2].msg) = Id(m)
          BY <1>1, <2>2, <3>2 DEF Merging, Others
        <4> QED BY <4>1, <4>2 DEF PInv, MergeInv
      <3>3. CASE q2 = p
        <4>1. Id(m) \notin stored  BY <1>1, <2>2, <3>3 DEF Merging
        <4>2. Merging(q1) /\ Id(proc[q1].msg) = Id(m)
          BY <1>1, <2>2, <3>3 DEF Merging, Others
        <4> QED BY <4>1, <4>2 DEF PInv, MergeInv
      <3> QED BY <3>1, <3>2, <3>3
    <2>3. \A n \in Msgs : Type[n] = "rollup" /\ Id(n) \notin stored' =>
            \A s \in Samples : merged'[Id(n)][s] = 0
      BY <1>2 DEF PInv, MergeInv
    <2> QED BY <2>1, <2>2, <2>3 DEF MergeInv
  <1>6. CriticalOnce'  BY <1>2 DEF PInv, CriticalOnce
  <1>7. AckedIsStored'  BY <1>2, <1>3, AckedStays
  <1>8. WrittenInv'
    <2>1. WrittenAfter(m)  BY <1>0, <1>2 DEF WrittenAfter
    <2>2. ASSUME NEW q \in Procs, proc'[q].at \in {"merge", "finish"}
          PROVE  proc'[q].msg \in Msgs /\ (WrittenAfter(proc'[q].msg) \/ Written(proc'[q].msg))
      <3>1. CASE q = p  BY <1>0, <1>1, <2>1, <3>1
      <3>2. CASE q # p  BY <1>1, <2>2, <3>2 DEF Others, PInv, WrittenInv, Shape
      <3> QED BY <3>1, <3>2
    <2> QED BY <1>2, <1>3, <2>2, MemoryStays
  <1>9. RowsInv'
    <2>1. ASSUME NEW i \in Ids PROVE rows'[i] + Cardinality(Inserting(i)') <= Cardinality(Procs)
      <3>1. Inserting(i)' \subseteq Inserting(i)  BY <1>1 DEF Inserting, Others
      <3> QED BY <1>2, <3>1, FewerInserting DEF PInv
    <2> QED BY <2>1 DEF RowsInv
  <1> QED BY <1>1, <1>4, <1>5, <1>6, <1>7, <1>8, <1>9 DEF PInv

\* The insert follows a count that found nothing.
LEMMA CountInv ==
  ASSUME PInv, NEW p \in Procs, CountInventoryEvents(p)
  PROVE  PInv'
  <1> DEFINE m == proc[p].msg
  <1>0. m \in Msgs /\ Type[m] = "inventory" /\ Id(m) \in Ids
    BY DEF PInv, Shape, CountInventoryEvents, Ids
  <1>1. /\ TypeOK' /\ Others(p) /\ proc'[p].msg = m
        /\ proc'[p].at = IF rows[Id(m)] > 0 THEN "finish" ELSE "insert"
    BY CountStep DEF PInv
  <1>2. /\ UNCHANGED tables /\ broker' = broker /\ seen' = seen /\ guard' = guard
    BY DEF CountInventoryEvents, memory
  <1>3. Shape'  BY <1>0, <1>1 DEF Shape, PInv, Others
  <1>4. CASE rows[Id(m)] > 0
    <2>1. Written(m)  BY <1>0, <1>4 DEF Written
    <2>2. proc'[p].at = "finish"  BY <1>1, <1>4
    <2> QED BY <1>1, <1>2, <1>3, <2>1, <2>2, QuietInv
  <1>5. CASE ~(rows[Id(m)] > 0)
    <2>1. proc'[p].at = "insert" /\ rows[Id(m)] = 0
      BY <1>0, <1>1, <1>5 DEF PInv, TypeOK
    <2>2. stored' = stored /\ rows' = rows /\ merged' = merged  BY <1>2 DEF tables
    <2>3. \A q \in Procs : Merging(q)' => Merging(q) /\ proc'[q] = proc[q]
      BY <1>1, <2>1 DEF Merging, Others
    <2>4. MergeInv'
      <3>1. ASSUME NEW q \in Procs, Merging(q)'
            PROVE  /\ Id(proc'[q].msg) \in stored'
                   /\ \A s \in proc'[q].left : merged'[Id(proc'[q].msg)][s] = 0
        BY <2>2, <2>3, <3>1 DEF PInv, MergeInv
      <3>2. ASSUME NEW q1 \in Procs, NEW q2 \in Procs, Merging(q1)', Merging(q2)',
                   Id(proc'[q1].msg) = Id(proc'[q2].msg)
            PROVE  q1 = q2
        BY <2>3, <3>2 DEF PInv, MergeInv
      <3> QED BY <2>2, <3>1, <3>2 DEF PInv, MergeInv
    <2>5. CriticalOnce'  BY <2>2 DEF PInv, CriticalOnce
    <2>6. AckedIsStored'  BY <1>2, <2>2 DEF PInv, AckedIsStored
    <2>7. WrittenInv'
      <3>1. ASSUME NEW q \in Procs, proc'[q].at \in {"merge", "finish"}
            PROVE  proc'[q].msg \in Msgs /\ Written(proc'[q].msg)
        BY <1>1, <2>1, <3>1 DEF Others, PInv, WrittenInv, Shape
      <3>2. stored \subseteq stored' /\ \A i \in Ids : rows'[i] \in Nat /\ rows'[i] >= rows[i]
        BY <2>2 DEF PInv, TypeOK
      <3> QED BY <1>2, <3>1, <3>2, MemoryStays
    <2>8. RowsInv'
      <3>1. ASSUME NEW i \in Ids
            PROVE  rows'[i] + Cardinality(Inserting(i)') <= Cardinality(Procs)
        <4>1. CASE i = Id(m)
          <5>1. Inserting(i)' \in SUBSET Procs  BY DEF Inserting
          <5>2. /\ Cardinality(Inserting(i)') \in Nat
                /\ Cardinality(Inserting(i)') <= Cardinality(Procs)
            BY <5>1, ProjectionSets, FS_Subset, FS_CardinalityType
          <5> QED BY <2>1, <2>2, <4>1, <5>2
        <4>2. CASE i # Id(m)
          <5>1. Inserting(i)' \subseteq Inserting(i)  BY <1>1, <4>2 DEF Inserting, Others
          <5> QED BY <2>2, <5>1, FewerInserting DEF PInv
        <4> QED BY <4>1, <4>2
      <3> QED BY <3>1 DEF RowsInv
    <2> QED BY <1>1, <1>3, <2>4, <2>5, <2>6, <2>7, <2>8 DEF PInv
  <1> QED BY <1>4, <1>5

\* A row more, and a process less that is about to insert one.
LEMMA InsertInv ==
  ASSUME PInv, NEW p \in Procs, InsertInventoryEvent(p)
  PROVE  PInv'
  <1> DEFINE m == proc[p].msg
  <1>0. m \in Msgs /\ Type[m] = "inventory" /\ Id(m) \in Ids /\ proc[p].at = "insert"
    BY DEF PInv, Shape, InsertInventoryEvent, Ids
  <1>1. /\ TypeOK' /\ Others(p) /\ proc'[p].msg = m /\ proc'[p].at = "finish"
        /\ \A i \in Ids : rows'[i] = IF i = Id(m) THEN rows[i] + 1 ELSE rows[i]
    BY InsertStep DEF PInv
  <1>2. /\ stored' = stored /\ merged' = merged /\ broker' = broker
        /\ seen' = seen /\ guard' = guard
    BY DEF InsertInventoryEvent, memory
  <1>3. Shape'  BY <1>0, <1>1 DEF Shape, PInv, Others
  <1>4. stored \subseteq stored' /\ \A i \in Ids : rows'[i] \in Nat /\ rows'[i] >= rows[i]
    <2>1. ASSUME NEW i \in Ids PROVE rows'[i] \in Nat /\ rows'[i] >= rows[i]
      <3>1. rows[i] \in Nat  BY DEF PInv, TypeOK
      <3> QED BY <1>1, <3>1
    <2> QED BY <1>2, <2>1
  <1>5. MergeInv'
    <2>1. \A q \in Procs : Merging(q)' => Merging(q) /\ proc'[q] = proc[q]
      BY <1>1 DEF Merging, Others
    <2>2. ASSUME NEW q \in Procs, Merging(q)'
          PROVE  /\ Id(proc'[q].msg) \in stored'
                 /\ \A s \in proc'[q].left : merged'[Id(proc'[q].msg)][s] = 0
      BY <1>2, <2>1, <2>2 DEF PInv, MergeInv
    <2>3. ASSUME NEW q1 \in Procs, NEW q2 \in Procs, Merging(q1)', Merging(q2)',
                 Id(proc'[q1].msg) = Id(proc'[q2].msg)
          PROVE  q1 = q2
      BY <2>1, <2>3 DEF PInv, MergeInv
    <2> QED BY <1>2, <2>2, <2>3 DEF PInv, MergeInv
  <1>6. CriticalOnce'  BY <1>2 DEF PInv, CriticalOnce
  <1>7. AckedIsStored'  BY <1>2, <1>4, AckedStays
  <1>8. WrittenInv'
    <2>1. WrittenAfter(m)  BY <1>0, <1>1 DEF WrittenAfter, PInv, TypeOK
    <2>2. ASSUME NEW q \in Procs, proc'[q].at \in {"merge", "finish"}
          PROVE  proc'[q].msg \in Msgs /\ (WrittenAfter(proc'[q].msg) \/ Written(proc'[q].msg))
      <3>1. CASE q = p  BY <1>0, <1>1, <2>1, <3>1
      <3>2. CASE q # p  BY <1>1, <2>2, <3>2 DEF Others, PInv, WrittenInv, Shape
      <3> QED BY <3>1, <3>2
    <2> QED BY <1>2, <1>4, <2>2, MemoryStays
  <1>9. RowsInv'
    <2>1. ASSUME NEW i \in Ids PROVE rows'[i] + Cardinality(Inserting(i)') <= Cardinality(Procs)
      <3>0. /\ IsFiniteSet(Inserting(i)) /\ Cardinality(Inserting(i)) \in Nat
            /\ rows[i] \in Nat /\ Cardinality(Procs) \in Nat
            /\ rows[i] + Cardinality(Inserting(i)) <= Cardinality(Procs)
        BY InsertingFinite, ProjectionSets, FS_CardinalityType DEF PInv, TypeOK, RowsInv
      <3>1. CASE i = Id(m)
        <4>1. p \in Inserting(i) /\ Inserting(i)' = Inserting(i) \ {p}
          BY <1>0, <1>1, <3>1 DEF Inserting, Others
        <4>2. Cardinality(Inserting(i)') = Cardinality(Inserting(i)) - 1
          BY <3>0, <4>1, FS_RemoveElement
        <4>3. rows'[i] = rows[i] + 1  BY <1>1, <3>1
        <4> QED BY <3>0, <4>2, <4>3
      <3>2. CASE i # Id(m)
        <4>1. Inserting(i)' = Inserting(i)  BY <1>1, <3>2 DEF Inserting, Others
        <4> QED BY <1>1, <3>0, <3>2, <4>1
      <3> QED BY <3>1, <3>2
    <2> QED BY <2>1 DEF RowsInv
  <1> QED BY <1>1, <1>3, <1>5, <1>6, <1>7, <1>8, <1>9 DEF PInv

\* A critical sample goes from none to one, and leaves what its only writer has left.
LEMMA MergingInv ==
  ASSUME PInv, NEW p \in Procs, NEW s \in Samples, MergeTelemetryRollupMinute(p, s)
  PROVE  PInv'
  <1> DEFINE m == proc[p].msg
  <1>0. /\ m \in Msgs /\ Id(m) \in Ids /\ proc[p].at = "merge" /\ s \in proc[p].left
        /\ Type[m] \in {"rollup", "metric"}
    BY DEF PInv, Shape, MergeTelemetryRollupMinute, Ids
  <1>1. /\ TypeOK' /\ Others(p) /\ proc'[p].msg = m /\ proc'[p].left = proc[p].left \ {s}
        /\ proc'[p].at \in {"finish", "merge"}
        /\ \A i \in Ids, t \in Samples :
             merged'[i][t] = IF i = Id(m) /\ t = s THEN merged[i][t] + 1 ELSE merged[i][t]
    BY MergeStep DEF PInv
  <1>2. /\ stored' = stored /\ rows' = rows /\ broker' = broker /\ seen' = seen /\ guard' = guard
    BY DEF MergeTelemetryRollupMinute, memory
  <1>3. Shape'  BY <1>0, <1>1 DEF Shape, PInv, Others
  <1>4. stored \subseteq stored' /\ \A i \in Ids : rows'[i] \in Nat /\ rows'[i] >= rows[i]
    BY <1>2 DEF PInv, TypeOK
  <1>5. \A n \in Msgs : Id(n) \in Ids /\ (Id(n) = Id(m) => Type[n] = Type[m])
    BY <1>0, IdType DEF Ids
  <1>6. \A q \in Procs : Merging(q)' => Merging(q) /\ proc'[q].msg = proc[q].msg
    BY <1>0, <1>1 DEF Merging, Others
  <1>7. MergeInv'
    <2>1. ASSUME NEW q \in Procs, Merging(q)'
          PROVE  /\ Id(proc'[q].msg) \in stored'
                 /\ \A t \in proc'[q].left : merged'[Id(proc'[q].msg)][t] = 0
      <3>1. Merging(q) /\ proc'[q].msg = proc[q].msg /\ proc[q].msg \in Msgs
        BY <1>6, <2>1 DEF PInv, Shape, Merging
      <3>2. /\ Id(proc[q].msg) \in stored
            /\ \A t \in proc[q].left : merged[Id(proc[q].msg)][t] = 0
        BY <3>1 DEF PInv, MergeInv
      <3>3. proc'[q].left \subseteq proc[q].left /\ proc[q].left \subseteq Samples
        BY <1>1 DEF Others, PInv, TypeOK
      <3>4. CASE q = p  BY <1>0, <1>1, <1>2, <3>1, <3>2, <3>3, <3>4
      <3>5. CASE q # p
        <4>1. Id(proc[q].msg) # Id(m)
          <5>1. SUFFICES ASSUME Id(proc[q].msg) = Id(m) PROVE FALSE  OBVIOUS
          <5>2. Type[m] = "rollup"  BY <1>5, <3>1, <5>1 DEF Merging
          <5>3. Merging(p)  BY <1>0, <5>2 DEF Merging
          <5> QED BY <3>1, <3>5, <5>1, <5>3 DEF PInv, MergeInv
        <4>2. \A t \in Samples : merged'[Id(proc[q].msg)][t] = merged[Id(proc[q].msg)][t]
          BY <1>1, <1>5, <3>1, <4>1
        <4> QED BY <1>2, <3>1, <3>2, <3>3, <4>2
      <3> QED BY <3>4, <3>5
    <2>2. ASSUME NEW q1 \in Procs, NEW q2 \in Procs, Merging(q1)', Merging(q2)',
                 Id(proc'[q1].msg) = Id(proc'[q2].msg)
          PROVE  q1 = q2
      BY <1>6, <2>2 DEF PInv, MergeInv
    <2>3. ASSUME NEW n \in Msgs, Type[n] = "rollup", Id(n) \notin stored', NEW t \in Samples
          PROVE  merged'[Id(n)][t] = 0
      <3>1. merged[Id(n)][t] = 0  BY <1>2, <2>3 DEF PInv, MergeInv
      <3>2. Id(n) # Id(m)
        <4>1. SUFFICES ASSUME Id(n) = Id(m) PROVE FALSE  OBVIOUS
        <4>2. Merging(p)  BY <1>0, <1>5, <2>3, <4>1 DEF Merging
        <4> QED BY <1>2, <2>3, <4>1, <4>2 DEF PInv, MergeInv
      <3> QED BY <1>1, <1>5, <3>1, <3>2
    <2> QED BY <2>1, <2>2, <2>3 DEF MergeInv
  <1>8. CriticalOnce'
    <2>1. ASSUME NEW n \in Msgs, Type[n] = "rollup", NEW t \in Samples
          PROVE  merged'[Id(n)][t] <= 1
      <3>1. merged[Id(n)][t] <= 1 /\ merged[Id(n)][t] \in Nat
        BY <1>5, <2>1 DEF PInv, CriticalOnce, TypeOK
      <3>2. CASE Id(n) = Id(m) /\ t = s
        <4>1. Merging(p)  BY <1>0, <1>5, <2>1, <3>2 DEF Merging
        <4>2. merged[Id(m)][s] = 0  BY <1>0, <4>1 DEF PInv, MergeInv
        <4> QED BY <1>0, <1>1, <3>2, <4>2
      <3>3. CASE ~(Id(n) = Id(m) /\ t = s)  BY <1>1, <1>5, <3>1, <3>3
      <3> QED BY <3>2, <3>3
    <2> QED BY <2>1 DEF CriticalOnce
  <1>9. AckedIsStored'  BY <1>2, <1>4, AckedStays
  <1>10. WrittenInv'
    <2>1. ASSUME NEW q \in Procs, proc'[q].at \in {"merge", "finish"}
          PROVE  proc'[q].msg \in Msgs /\ Written(proc'[q].msg)
      <3>1. CASE q = p  BY <1>0, <1>1, <3>1 DEF PInv, WrittenInv
      <3>2. CASE q # p  BY <1>1, <2>1, <3>2 DEF Others, PInv, WrittenInv, Shape
      <3> QED BY <3>1, <3>2
    <2> QED BY <1>2, <1>4, <2>1, MemoryStays
  <1>11. RowsInv'
    <2>1. ASSUME NEW i \in Ids PROVE rows'[i] + Cardinality(Inserting(i)') <= Cardinality(Procs)
      <3>1. Inserting(i)' \subseteq Inserting(i)  BY <1>1 DEF Inserting, Others
      <3> QED BY <1>2, <3>1, FewerInserting DEF PInv
    <2> QED BY <2>1 DEF RowsInv
  <1> QED BY <1>1, <1>3, <1>7, <1>8, <1>9, <1>10, <1>11 DEF PInv

\* A message is remembered, and acknowledged, once it is written.
LEMMA FinishInv ==
  ASSUME PInv, NEW p \in Procs, Finish(p)
  PROVE  PInv'
  <1> DEFINE m == proc[p].msg
             x == <<Id(m), Payload[m]>>
  <1>0. m \in Msgs /\ Written(m)  BY DEF PInv, Shape, WrittenInv, Finish
  <1>1. /\ TypeOK' /\ Others(p) /\ proc'[p] = Idle
        /\ \A n \in Msgs : broker'[n] = "done" => broker[n] = "done" \/ n = m
        /\ \A q \in Procs : HoldsOnly(seen'[q], seen[q], m) /\ HoldsOnly(guard'[q], guard[q], x)
    BY FinishStep DEF PInv
  <1>2. UNCHANGED tables  BY DEF Finish
  <1>3. Shape'  BY <1>1 DEF Shape, PInv, Others, Idle
  <1>4. proc'[p].at = "idle"  BY <1>1 DEF Idle
  <1>5. MergeInv' /\ CriticalOnce' /\ RowsInv'  BY <1>1, <1>2, <1>4, QuietStep
  <1>6. \A n : WrittenAfter(n) = Written(n)  BY <1>2 DEF tables, Written, WrittenAfter
  <1>7. AckedIsStored'
    <2>1. stored \subseteq stored' /\ \A i \in Ids : rows'[i] \in Nat /\ rows'[i] >= rows[i]
      BY <1>2 DEF tables, PInv, TypeOK
    <2> QED BY <1>0, <1>1, <1>6, <2>1, AckedStays
  <1>8. WrittenInv'
    <2>1. ASSUME NEW q \in Procs, proc'[q].at \in {"merge", "finish"}
          PROVE  WrittenAfter(proc'[q].msg)
      BY <1>1, <1>4, <1>6, <2>1 DEF Others, PInv, WrittenInv
    <2>2. ASSUME NEW q \in Procs, NEW i \in 1..Len(seen'[q]) PROVE WrittenAfter(seen'[q][i])
      <3>1. seen'[q][i] = m \/ \E j \in 1..Len(seen[q]) : seen'[q][i] = seen[q][j]
        BY <1>1, <2>2 DEF HoldsOnly
      <3>2. Written(seen'[q][i])  BY <1>0, <3>1 DEF PInv, WrittenInv
      <3> QED BY <1>6, <3>2
    <2>3. ASSUME NEW q \in Procs, NEW i \in 1..Len(guard'[q]), NEW n \in Msgs,
                 Id(n) = guard'[q][i][1]
          PROVE  WrittenAfter(n)
      <3>1. guard'[q][i] = x \/ \E j \in 1..Len(guard[q]) : guard'[q][i] = guard[q][j]
        BY <1>1, <2>3 DEF HoldsOnly
      <3>2. CASE guard'[q][i] = x
        <4>1. Id(n) = Id(m)  BY <2>3, <3>2
        <4>2. Written(n)  BY <1>0, <4>1, WrittenById
        <4> QED BY <1>6, <4>2
      <3>3. CASE \E j \in 1..Len(guard[q]) : guard'[q][i] = guard[q][j]
        <4>1. Written(n)  BY <2>3, <3>3 DEF PInv, WrittenInv
        <4> QED BY <1>6, <4>1
      <3> QED BY <3>1, <3>2, <3>3
    <2> QED BY <2>1, <2>2, <2>3 DEF WrittenInv, Written, WrittenAfter
  <1> QED BY <1>1, <1>3, <1>5, <1>7, <1>8 DEF PInv

LEMMA FailInv ==
  ASSUME PInv, NEW p \in Procs, HandlerFails(p)
  PROVE  PInv'
  <1>1. /\ TypeOK' /\ Others(p) /\ proc'[p] = Idle
        /\ \A m \in Msgs : broker'[m] = "done" => broker[m] = "done"
    BY FailStep DEF PInv
  <1>2. Shape' /\ proc'[p].at = "idle"  BY <1>1 DEF Shape, PInv, Others, Idle
  <1>3. UNCHANGED tables /\ seen' = seen /\ guard' = guard  BY DEF HandlerFails, memory
  <1> QED BY <1>1, <1>2, <1>3, QuietInv

LEMMA CrashInv ==
  ASSUME PInv, NEW p \in Procs, Crash(p)
  PROVE  PInv'
  <1>1. /\ TypeOK' /\ Others(p) /\ proc'[p] = Idle
        /\ seen'[p] = <<>> /\ guard'[p] = <<>>
        /\ \A q \in Procs : q # p => seen'[q] = seen[q] /\ guard'[q] = guard[q]
    BY CrashStep DEF PInv
  <1>2. Shape' /\ proc'[p].at = "idle"  BY <1>1 DEF Shape, PInv, Others, Idle
  <1>3. Len(seen'[p]) = 0 /\ Len(guard'[p]) = 0  BY <1>1
  <1>4. UNCHANGED tables /\ broker' = broker  BY DEF Crash
  <1> QED BY <1>1, <1>2, <1>3, <1>4, QuietInv

-----------------------------------------------------------------------------
(* The theorems. *)

LEMMA ProjectionInit == Init => PInv
  <1> SUFFICES ASSUME Init PROVE PInv  OBVIOUS
  <1>1. TypeOK
    <2>1. proc \in [Procs -> PState]  BY IdleState DEF Init
    <2>2. seen \in [Procs -> Seq(Msgs)] /\ guard \in [Procs -> Seq(Ids \X {Payload[m] : m \in Msgs})]
      BY EmptySeq DEF Init
    <2>3. \A p \in Procs : Len(seen[p]) <= MemorySize /\ Len(guard[p]) <= MemorySize
      BY ProjectionLimits DEF Init
    <2>4. tries \in [Msgs -> 0..MaxDeliver] /\ faults \in 0..MaxFaults
      BY ProjectionLimits DEF Init
    <2>5. /\ rows \in [Ids -> Nat] /\ merged \in [Ids -> [Samples -> Nat]] /\ stored \subseteq Ids
          /\ batch \in [Procs -> SUBSET Msgs] /\ broker \in [Msgs -> {"queued", "out", "done"}]
      BY DEF Init
    <2> QED BY <2>1, <2>2, <2>3, <2>4, <2>5 DEF TypeOK, PState
  <1>2. \A p \in Procs : proc[p].at = "idle"  BY DEF Init, Idle
  <1>3. Shape  BY <1>2 DEF Shape
  <1>4. \A m \in Msgs : Id(m) \in Ids  BY DEF Ids
  <1>5. \A m \in Msgs, s \in Samples : merged[Id(m)][s] = 0  BY <1>4 DEF Init
  <1>6. MergeInv /\ CriticalOnce  BY <1>2, <1>5 DEF MergeInv, Merging, CriticalOnce
  <1>7. WrittenInv
    <2>1. \A p \in Procs : Len(seen[p]) = 0 /\ Len(guard[p]) = 0  BY DEF Init
    <2> QED BY <1>2, <2>1 DEF WrittenInv
  <1>8. AckedIsStored  BY DEF Init, AckedIsStored
  <1>9. RowsInv
    <2>1. ASSUME NEW i \in Ids PROVE rows[i] + Cardinality(Inserting(i)) <= Cardinality(Procs)
      <3>1. Inserting(i) = {}  BY <1>2 DEF Inserting
      <3>2. Cardinality(Procs) \in Nat  BY ProjectionSets, FS_CardinalityType
      <3> QED BY <3>1, <3>2, FS_EmptySet DEF Init
    <2> QED BY <2>1 DEF RowsInv
  <1> QED BY <1>1, <1>3, <1>6, <1>7, <1>8, <1>9 DEF PInv

LEMMA ProjectionStep == PInv /\ [Next]_vars => PInv'
  <1> SUFFICES ASSUME PInv, [Next]_vars PROVE PInv'  OBVIOUS
  <1>1. ASSUME NEW p \in Procs, Handle(p) PROVE PInv'
    BY <1>1, DedupeInv, AppendInv, CountInv, InsertInv, MergingInv, FinishInv DEF Handle
  <1>2. ASSUME NEW p \in Procs,
               \/ \E ms \in SUBSET Msgs : Fetch(p, ms)
               \/ \E m \in Msgs : Begin(p, m)
               \/ HandlerFails(p) \/ Crash(p)
        PROVE  PInv'
    BY <1>2, FetchInv, BeginInv, FailInv, CrashInv
  <1>3. ASSUME NEW m \in Msgs, AckWaitLapses(m) PROVE PInv'  BY <1>3, LapseInv
  <1>4. CASE UNCHANGED vars
    BY <1>4, ZenonT(40) DEF vars, PInv, TypeOK, Shape, MergeInv, Merging, CriticalOnce, WrittenInv, Written,
                AckedIsStored, RowsInv, Inserting
  <1> QED BY <1>1, <1>2, <1>3, <1>4 DEF Next

\* The inductive invariant: the writer of a row is the only one that merges its samples,
\* memories hold written messages only, and a process that is about to insert an inventory
\* row uses up one of the |Procs| that the row may have.
THEOREM ProjectionInvariant == Spec => []PInv
  BY ProjectionInit, ProjectionStep, PTL DEF Spec

\* Every reachable state of the stream, the processes, their memories and the tables has
\* its type; the memories never exceed MemorySize.
THEOREM ProjectionTypeCorrect == Spec => []TypeOK
  <1>1. PInv => TypeOK  BY DEF PInv
  <1> QED BY <1>1, ProjectionInvariant, PTL

\* A sample of a critical event is merged at most once (handleGenericMetrics), for any
\* number of processes, publications, deliveries and crashes.
THEOREM CriticalMergedOnce == Spec => []CriticalOnce
  <1>1. PInv => CriticalOnce  BY DEF PInv
  <1> QED BY <1>1, ProjectionInvariant, PTL

\* What the consumer acknowledges is stored, although it also acknowledges on the strength
\* of its memories, whatever their size.
THEOREM AcknowledgedIsStored == Spec => []AckedIsStored
  <1>1. PInv => AckedIsStored  BY DEF PInv
  <1> QED BY <1>1, ProjectionInvariant, PTL

\* Count and insert are two statements, and yet an inventory event never has more rows than
\* there are processes.
THEOREM InventoryRowsBounded == Spec => []InventoryBound
  <1>1. PInv => InventoryBound
    <2> SUFFICES ASSUME PInv, NEW i \in Ids PROVE rows[i] <= Cardinality(Procs)
      BY DEF InventoryBound
    <2>1. rows[i] \in Nat /\ Cardinality(Inserting(i)) \in Nat /\ Cardinality(Procs) \in Nat
      BY InsertingFinite, ProjectionSets, FS_CardinalityType DEF PInv, TypeOK
    <2>2. rows[i] + Cardinality(Inserting(i)) <= Cardinality(Procs)  BY DEF PInv, RowsInv
    <2> QED BY <2>1, <2>2
  <1> QED BY <1>1, ProjectionInvariant, PTL
=============================================================================
