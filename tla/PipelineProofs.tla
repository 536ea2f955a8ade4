--------------------------- MODULE PipelineProofs ---------------------------
(***************************************************************************)
(* Proofs about module TelemetryPipeline, for every number of handlers,    *)
(* workers, messages and keys and every capacity of the queue.             *)
(***************************************************************************)
EXTENDS TelemetryPipeline, SequenceTheorems, TLAPS

-----------------------------------------------------------------------------
(* The inductive invariant. *)

InQueue == {queue[i] : i \in 1..Len(queue)}
Busy(w) == worker[w].at # "free"
Holds(w, j) == Busy(w) /\ worker[w].job = j

\* A message has one handler, and its job is queued by that handler only.
HandlerInv ==
  /\ \A h \in Handlers : handler[h].at # "idle" => handler[h].msg \in 1..arrived
  /\ \A g, h \in Handlers :
       handler[g].at # "idle" /\ handler[h].at # "idle" /\ handler[g].msg = handler[h].msg => g = h
  /\ \A h \in Handlers : handler[h].at \in {"ingest", "compact", "send"} =>
       handler[h].msg \notin Waiting

\* A job is a message that arrived, and carries one.
JobInv == \A j \in Waiting : j \in 1..arrived /\ fn[j] \in Msgs

\* A worker marks its job before it unregisters it.
WorkerInv ==
  \A w \in Workers : /\ worker[w].at = "free" => worker[w] = Free
                     /\ worker[w].at # "free" => worker[w].job \in Msgs
                     /\ worker[w].at \in {"started", "run"} => worker[w].job \in started

\* The function of the job has not been fetched.
Unfetched(j) ==
  j \in InQueue \/ \E w \in Workers : worker[w].at \in {"taken", "started"} /\ worker[w].job = j

\* A job that others may be compacted into is under its key and not fetched.
CompactInv ==
  \A k \in Keys : compact[k] # None => Unfetched(compact[k]) /\ Kind[compact[k]] = k

\* The message is run, will be, or has been replaced.
Safe(m) == \/ m \in ran
           \/ \E j \in Waiting : fn[j] = m
           \/ \E r \in replaced : r[1] = m

SafeAfter(m) == \/ m \in ran'
                \/ \E j \in Waiting' : fn'[j] = m
                \/ \E r \in replaced' : r[1] = m

\* A job that its handler has yet to register waits, or a worker has marked it.
RegisterInv ==
  \A h \in Handlers : handler[h].at = "register" =>
    /\ Safe(handler[h].msg)
    /\ \/ handler[h].msg \in InQueue \/ handler[h].msg \in started
       \/ \E w \in Workers : worker[w].at = "taken" /\ worker[w].job = handler[h].msg

QInv == /\ TypeOK /\ HandlerInv /\ JobInv /\ WorkerInv /\ CompactInv /\ RegisterInv
        /\ NothingLost

-----------------------------------------------------------------------------
(* Jobs that wait. *)

HState == [at : {"idle", "ingest", "compact", "send", "register"}, msg : 0..MaxMsgs]
WState == [at : {"free", "taken", "started", "run"}, job : 0..MaxMsgs]

LEMMA IdleFree == Idle \in HState /\ Free \in WState /\ Idle.at = "idle" /\ Free.at = "free"
  BY PipelineLimits DEF Idle, Free, HState, WState, None

LEMMA MsgRange == \A m : m \in Msgs <=> m \in 0..MaxMsgs /\ m # None
  BY PipelineLimits DEF Msgs, None

LEMMA WaitingIs ==
  ASSUME WorkerInv
  PROVE  /\ Waiting = InQueue \cup {worker[w].job : w \in {v \in Workers : Busy(v)}}
         /\ \A j : j \in Waiting <=> j \in InQueue \/ \E w \in Workers : Holds(w, j)
  <1>1. \A w \in Workers : worker[w] # Free <=> Busy(w)  BY IdleFree DEF WorkerInv, Busy
  <1> QED BY <1>1 DEF Waiting, InQueue, Holds

LEMMA WaitingIsNext ==
  ASSUME WorkerInv'
  PROVE  \A j : j \in Waiting' <=> j \in InQueue' \/ \E w \in Workers : Holds(w, j)'
  <1>1. \A w \in Workers : worker'[w] # Free <=> Busy(w)'  BY IdleFree DEF WorkerInv, Busy
  <1> QED BY <1>1 DEF Waiting, InQueue, Holds

\* The queue at its ends.
LEMMA QueueAppend ==
  ASSUME TypeOK, NEW m \in Msgs, queue' = Append(queue, m)
  PROVE  /\ queue' \in Seq(Msgs) /\ Len(queue') = Len(queue) + 1
         /\ InQueue' = InQueue \cup {m}
  <1>1. queue \in Seq(Msgs) /\ Len(queue) \in Nat  BY LenProperties DEF TypeOK
  <1>2. /\ queue' \in Seq(Msgs) /\ Len(queue') = Len(queue) + 1
        /\ \A i \in 1..Len(queue) : queue'[i] = queue[i]
        /\ queue'[Len(queue) + 1] = m
    BY <1>1, AppendProperties
  <1>3. ASSUME NEW i \in 1..Len(queue') PROVE queue'[i] \in InQueue \cup {m}
    <2>1. CASE i = Len(queue) + 1  BY <1>2, <2>1
    <2>2. CASE i # Len(queue) + 1
      <3>1. i \in 1..Len(queue)  BY <1>1, <1>2, <2>2
      <3> QED BY <1>2, <3>1 DEF InQueue
    <2> QED BY <2>1, <2>2
  <1>4. ASSUME NEW i \in 1..Len(queue) PROVE queue[i] \in InQueue'
    <2>1. i \in 1..Len(queue') /\ queue'[i] = queue[i]  BY <1>1, <1>2
    <2> QED BY <2>1 DEF InQueue
  <1>5. m \in InQueue'
    <2>1. Len(queue) + 1 \in 1..Len(queue')  BY <1>1, <1>2
    <2> QED BY <1>2, <2>1 DEF InQueue
  <1>6. InQueue' \subseteq InQueue \cup {m}  BY <1>3 DEF InQueue
  <1>7. InQueue \subseteq InQueue'  BY <1>4 DEF InQueue
  <1> QED BY <1>2, <1>5, <1>6, <1>7

LEMMA QueueTail ==
  ASSUME TypeOK, queue # <<>>, queue' = Tail(queue)
  PROVE  /\ queue' \in Seq(Msgs) /\ Len(queue') <= Capacity
         /\ Head(queue) \in Msgs /\ Head(queue) \in InQueue
         /\ InQueue = InQueue' \cup {Head(queue)}
  <1>1. queue \in Seq(Msgs) /\ Len(queue) \in Nat /\ Len(queue) <= Capacity /\ Capacity \in Nat
    BY LenProperties, PipelineLimits DEF TypeOK
  <1>2. /\ queue' \in Seq(Msgs) /\ Len(queue') = Len(queue) - 1 /\ Head(queue) \in Msgs
        /\ \A i \in 1..Len(queue') : queue'[i] = queue[i + 1]
    BY <1>1, HeadTailProperties
  <1>3. Len(queue) # 0  BY <1>1, EmptySeq
  <1>4. Head(queue) = queue[1] /\ 1 \in 1..Len(queue)  BY <1>1, <1>3
  <1>5. Head(queue) \in InQueue  BY <1>4 DEF InQueue
  <1>6. ASSUME NEW i \in 1..Len(queue') PROVE queue'[i] \in InQueue
    <2>1. i + 1 \in 1..Len(queue)  BY <1>1, <1>2
    <2> QED BY <1>2, <2>1 DEF InQueue
  <1>7. ASSUME NEW i \in 1..Len(queue) PROVE queue[i] \in InQueue' \cup {Head(queue)}
    <2>1. CASE i = 1  BY <1>4, <2>1
    <2>2. CASE i # 1
      <3>1. i - 1 \in 1..Len(queue') /\ (i - 1) + 1 = i  BY <1>1, <1>2, <2>2
      <3>2. queue'[i - 1] = queue[i]  BY <1>2, <3>1
      <3> QED BY <3>1, <3>2 DEF InQueue
    <2> QED BY <2>1, <2>2
  <1>8. InQueue' \subseteq InQueue  BY <1>6 DEF InQueue
  <1>9. InQueue \subseteq InQueue' \cup {Head(queue)}  BY <1>7 DEF InQueue
  <1> QED BY <1>1, <1>2, <1>5, <1>8, <1>9

\* What is safe stays safe, if the function of a job is lost only when it was run or is
\* recorded as replaced.
LEMMA SafeStays ==
  ASSUME ran \subseteq ran', replaced \subseteq replaced',
         \A j \in Waiting : \/ j \in Waiting' /\ fn'[j] = fn[j]
                            \/ fn[j] \in ran'
                            \/ \E r \in replaced' : r[1] = fn[j],
         NEW m, Safe(m)
  PROVE  Safe(m)'
  BY DEF Safe

-----------------------------------------------------------------------------
(* Steps of a handler. *)

\* A handler that returns, or goes on with its message, and queues nothing.
LEMMA HandlerKeeps ==
  ASSUME QInv, TypeOK', CompactInv', UNCHANGED <<arrived, queue, worker, started>>,
         \A m : Safe(m) => Safe(m)',
         \A j \in Waiting : fn'[j] \in Msgs,
         \A m \in accepted' : m \in accepted \/ Safe(m)',
         NEW h \in Handlers, \A g \in Handlers : g # h => handler'[g] = handler[g],
         \/ handler'[h].at = "idle"
         \/ handler'[h] = handler[h]
         \/ /\ handler[h].at \in {"ingest", "compact"} /\ handler'[h].at \in {"compact", "send"}
            /\ handler'[h].msg = handler[h].msg
  PROVE  QInv'
  <1>1. Waiting' = Waiting /\ InQueue' = InQueue  BY DEF Waiting, InQueue
  <1>2. HandlerInv'
    <2>1. \A g \in Handlers : handler'[g].at # "idle" =>
            handler[g].at # "idle" /\ handler'[g].msg = handler[g].msg
      OBVIOUS
    <2>2. \A g \in Handlers : handler'[g].at \in {"ingest", "compact", "send"} =>
            handler[g].at \in {"ingest", "compact", "send"} /\ handler'[g].msg = handler[g].msg
      OBVIOUS
    <2>3. \A g \in Handlers : handler'[g].at # "idle" => handler'[g].msg \in 1..arrived
      BY <2>1 DEF QInv, HandlerInv
    <2>4. ASSUME NEW g1 \in Handlers, NEW g2 \in Handlers, handler'[g1].at # "idle",
                 handler'[g2].at # "idle", handler'[g1].msg = handler'[g2].msg
          PROVE  g1 = g2
      BY <2>1, <2>4 DEF QInv, HandlerInv
    <2>5. \A g \in Handlers : handler'[g].at \in {"ingest", "compact", "send"} =>
            handler'[g].msg \notin Waiting
      BY <2>2 DEF QInv, HandlerInv
    <2> QED BY <1>1, <2>3, <2>4, <2>5 DEF HandlerInv
  <1>3. JobInv'  BY <1>1 DEF QInv, JobInv
  <1>4. WorkerInv'  BY DEF QInv, WorkerInv
  <1>5. RegisterInv'
    <2> SUFFICES ASSUME NEW g \in Handlers, handler'[g].at = "register"
          PROVE  /\ Safe(handler[g].msg)' /\ handler'[g].msg = handler[g].msg
                 /\ \/ handler[g].msg \in InQueue \/ handler[g].msg \in started
                    \/ \E w \in Workers : worker[w].at = "taken" /\ worker[w].job = handler[g].msg
      BY <1>1 DEF RegisterInv
    <2>1. handler'[g] = handler[g]  OBVIOUS
    <2> QED BY <2>1 DEF QInv, RegisterInv
  <1>6. NothingLost'
    <2>1. ASSUME NEW m \in accepted' PROVE Safe(m)'
      <3>1. m \in accepted => Safe(m)  BY DEF QInv, NothingLost, Safe
      <3> QED BY <3>1
    <2> QED BY <2>1 DEF NothingLost, Safe
  <1> QED BY <1>2, <1>3, <1>4, <1>5, <1>6 DEF QInv

\* A step of handler h that leaves its place with record r.
LEMMA HandlerMoves ==
  ASSUME TypeOK, NEW h \in Handlers, NEW r \in HState, handler' = [handler EXCEPT ![h] = r]
  PROVE  /\ handler' \in [Handlers -> HState] /\ handler'[h] = r
         /\ \A g \in Handlers : g # h => handler'[g] = handler[g]
  BY DEF TypeOK, HState

LEMMA ReturnsStep ==
  ASSUME TypeOK, NEW h \in Handlers, Returns(h)
  PROVE  /\ handler' \in [Handlers -> HState] /\ handler'[h] = Idle /\ handler'[h].at = "idle"
         /\ \A g \in Handlers : g # h => handler'[g] = handler[g]
  BY IdleFree, HandlerMoves DEF Returns

LEMMA GoesStep ==
  ASSUME TypeOK, NEW h \in Handlers, NEW at \in {"compact", "send", "register"}, Goes(h, at)
  PROVE  /\ handler' \in [Handlers -> HState]
         /\ handler'[h].at = at /\ handler'[h].msg = handler[h].msg
         /\ \A g \in Handlers : g # h => handler'[g] = handler[g]
  BY DEF TypeOK, HState, Goes

\* The message of a handler at work.
LEMMA HandlerMsg ==
  ASSUME QInv, NEW h \in Handlers, handler[h].at # "idle"
  PROVE  /\ handler[h].msg \in Msgs /\ handler[h].msg \in 1..arrived
         /\ Kind[handler[h].msg] \in Keys \cup {"droppable", "critical"}
  <1>1. handler[h].msg \in 1..arrived /\ arrived \in 0..MaxMsgs
    BY DEF QInv, HandlerInv, TypeOK
  <1>2. handler[h].msg \in Msgs  BY <1>1, PipelineLimits DEF Msgs
  <1> QED BY <1>1, <1>2, PipelineKinds

LEMMA CompactStays ==
  ASSUME QInv, UNCHANGED <<queue, worker, compact>>
  PROVE  CompactInv'
  BY DEF QInv, CompactInv, Unfetched, InQueue

LEMMA DeliverInv ==
  ASSUME QInv, NEW h \in Handlers, Deliver(h), UNCHANGED DropOnBackpressure
  PROVE  QInv'
  <1> DEFINE m == arrived + 1
             r == [at |-> "ingest", msg |-> m]
  <1>0. /\ TypeOK /\ arrived \in Nat /\ MaxMsgs \in Nat /\ arrived < MaxMsgs
        /\ arrived' = arrived + 1 /\ arrived' \in 0..MaxMsgs
    BY PipelineLimits DEF QInv, TypeOK, Deliver
  <1>1. UNCHANGED <<queue, fn, replaced, compact, worker, started, ran, phase, accepted>>
    BY DEF Deliver, jobs, pool
  <1>2. /\ handler' \in [Handlers -> HState] /\ handler'[h] = r
        /\ \A g \in Handlers : g # h => handler'[g] = handler[g]
    <2>1. r \in HState  BY <1>0 DEF HState
    <2>2. handler' = [handler EXCEPT ![h] = r]  BY DEF Deliver
    <2> HIDE DEF r
    <2> QED BY <1>0, <2>1, <2>2, HandlerMoves
  <1>3. TypeOK'  BY <1>0, <1>1, <1>2 DEF TypeOK, HState
  <1>4. Waiting' = Waiting /\ InQueue' = InQueue  BY <1>1 DEF Waiting, InQueue
  <1>5. \A j \in Waiting : j \in 1..arrived  BY DEF QInv, JobInv
  <1>6. HandlerInv'
    <2>0. handler'[h].at = "ingest" /\ handler'[h].msg = m  BY <1>2
    <2>1. \A g \in Handlers : g # h /\ handler'[g].at # "idle" => handler'[g].msg \in 1..arrived
      BY <1>2 DEF QInv, HandlerInv
    <2>2. m \notin 1..arrived /\ m \in 1..arrived'  BY <1>0
    <2>3. \A i \in 1..arrived : i \in 1..arrived'  BY <1>0
    <2>4. \A g \in Handlers : handler'[g].at # "idle" => handler'[g].msg \in 1..arrived'
      BY <2>0, <2>1, <2>2, <2>3
    <2>5. ASSUME NEW g1 \in Handlers, NEW g2 \in Handlers, handler'[g1].at # "idle",
                 handler'[g2].at # "idle", handler'[g1].msg = handler'[g2].msg
          PROVE  g1 = g2
      <3>1. CASE g1 = h \/ g2 = h  BY <2>0, <2>1, <2>2, <2>5, <3>1
      <3>2. CASE g1 # h /\ g2 # h  BY <1>2, <2>5, <3>2 DEF QInv, HandlerInv
      <3> QED BY <3>1, <3>2
    <2>6. ASSUME NEW g \in Handlers, handler'[g].at \in {"ingest", "compact", "send"}
          PROVE  handler'[g].msg \notin Waiting
      <3>1. CASE g = h  BY <1>5, <2>0, <2>2, <3>1
      <3>2. CASE g # h  BY <1>2, <2>6, <3>2 DEF QInv, HandlerInv
      <3> QED BY <3>1, <3>2
    <2> QED BY <1>4, <2>4, <2>5, <2>6 DEF HandlerInv
  <1>7. JobInv'
    <2>1. \A i \in 1..arrived : i \in 1..arrived'  BY <1>0
    <2> QED BY <1>1, <1>4, <2>1 DEF QInv, JobInv
  <1>8. WorkerInv' /\ CompactInv'  BY <1>1, CompactStays DEF QInv, WorkerInv
  <1>9. \A n : Safe(n)' = Safe(n)  BY <1>1, <1>4 DEF Safe
  <1>10. RegisterInv'
    <2> SUFFICES ASSUME NEW g \in Handlers, handler'[g].at = "register"
          PROVE  /\ Safe(handler[g].msg) /\ handler'[g].msg = handler[g].msg
                 /\ \/ handler[g].msg \in InQueue \/ handler[g].msg \in started
                    \/ \E w \in Workers : worker[w].at = "taken" /\ worker[w].job = handler[g].msg
      BY <1>1, <1>4, <1>9 DEF RegisterInv
    <2>1. handler'[g] = handler[g]  BY <1>2
    <2> QED BY <2>1 DEF QInv, RegisterInv
  <1>11. NothingLost'  BY <1>1, <1>4 DEF QInv, NothingLost
  <1> QED BY <1>3, <1>6, <1>7, <1>8, <1>10, <1>11 DEF QInv

LEMMA RefusedInv ==
  ASSUME QInv, NEW h \in Handlers, Refused(h), UNCHANGED DropOnBackpressure
  PROVE  QInv'
  <1>1. UNCHANGED <<arrived, queue, fn, replaced, compact, worker, started, ran, phase, accepted>>
    BY DEF Refused, jobs, pool
  <1>2. /\ handler' \in [Handlers -> HState] /\ handler'[h].at = "idle"
        /\ \A g \in Handlers : g # h => handler'[g] = handler[g]
    BY ReturnsStep DEF Refused, QInv
  <1>3. TypeOK'  BY <1>1, <1>2 DEF QInv, TypeOK, HState
  <1>4. \A m : Safe(m) => Safe(m)'  BY <1>1 DEF Safe, Waiting
  <1>5. \A j \in Waiting : fn'[j] \in Msgs  BY <1>1 DEF QInv, JobInv
  <1>6. CompactInv'  BY <1>1, CompactStays
  <1> QED BY <1>1, <1>2, <1>3, <1>4, <1>5, <1>6, HandlerKeeps

LEMMA CriticalInv ==
  ASSUME QInv, NEW h \in Handlers, IngestCriticalSync(h), UNCHANGED DropOnBackpressure
  PROVE  QInv'
  <1> DEFINE m == handler[h].msg
  <1>0. m \in Msgs  BY HandlerMsg DEF IngestCriticalSync
  <1>1. /\ UNCHANGED <<arrived, queue, fn, replaced, compact, worker, started, phase>>
        /\ ran' = ran \cup {m} /\ accepted' = accepted \cup {m}
    BY DEF IngestCriticalSync, jobs, Accept
  <1>2. /\ handler' \in [Handlers -> HState] /\ handler'[h].at = "idle"
        /\ \A g \in Handlers : g # h => handler'[g] = handler[g]
    BY ReturnsStep DEF IngestCriticalSync, QInv
  <1>3. TypeOK'  BY <1>0, <1>1, <1>2 DEF QInv, TypeOK, HState
  <1>4. \A n : Safe(n) => Safe(n)'  BY <1>1 DEF Safe, Waiting
  <1>5. \A j \in Waiting : fn'[j] \in Msgs  BY <1>1 DEF QInv, JobInv
  <1>6. CompactInv'  BY <1>1, CompactStays
  <1>7. \A n \in accepted' : n \in accepted \/ Safe(n)'  BY <1>1 DEF Safe
  <1> QED BY <1>1, <1>2, <1>3, <1>4, <1>5, <1>6, <1>7, HandlerKeeps

LEMMA SubmitInv ==
  ASSUME QInv, NEW h \in Handlers, Submit(h), UNCHANGED DropOnBackpressure
  PROVE  QInv'
  <1>1. UNCHANGED <<arrived, queue, fn, replaced, compact, worker, started, ran, phase, accepted>>
    BY DEF Submit, jobs, pool
  <1>2. /\ handler' \in [Handlers -> HState] /\ handler[h].at = "ingest"
        /\ handler'[h].at \in {"compact", "send"} /\ handler'[h].msg = handler[h].msg
        /\ \A g \in Handlers : g # h => handler'[g] = handler[g]
    <2>1. CASE Goes(h, "compact")  BY <2>1, GoesStep DEF Submit, QInv
    <2>2. CASE Goes(h, "send")  BY <2>2, GoesStep DEF Submit, QInv
    <2> QED BY <2>1, <2>2 DEF Submit
  <1>3. TypeOK'  BY <1>1, <1>2 DEF QInv, TypeOK, HState
  <1>4. \A m : Safe(m) => Safe(m)'  BY <1>1 DEF Safe, Waiting
  <1>5. \A j \in Waiting : fn'[j] \in Msgs  BY <1>1 DEF QInv, JobInv
  <1>6. CompactInv'  BY <1>1, CompactStays
  <1> QED BY <1>1, <1>2, <1>3, <1>4, <1>5, <1>6, HandlerKeeps

\* An unfetched job waits.
LEMMA UnfetchedWaits ==
  ASSUME QInv, NEW j, Unfetched(j)
  PROVE  j \in Waiting
  BY WaitingIs DEF QInv, Unfetched, Holds, Busy

\* A message is compacted into a job whose function has not been fetched: it will run, and
\* the message it replaces is recorded.
LEMMA ReplaceStep ==
  ASSUME QInv, NEW m \in Msgs, ReplaceFn(m), UNCHANGED <<queue, worker, ran>>
  PROVE  /\ fn' \in [Msgs -> 0..MaxMsgs] /\ replaced' \subseteq Msgs \X Msgs
         /\ \A n : Safe(n) => Safe(n)'
         /\ SafeAfter(m)
         /\ \A j \in Waiting : fn'[j] \in Msgs
  <1> DEFINE i == compact[Kind[m]]
  <1>1. Kind[m] \in Keys /\ i # None /\ i \in 0..MaxMsgs
    BY DEF ReplaceFn, Compactable, QInv, TypeOK
  <1>2. i \in Msgs  BY <1>1, MsgRange
  <1>3. i \in Waiting /\ fn[i] \in Msgs  BY <1>1, UnfetchedWaits DEF QInv, CompactInv, JobInv
  <1>4. Waiting' = Waiting  BY DEF Waiting
  <1>5. fn \in [Msgs -> 0..MaxMsgs] /\ replaced \subseteq Msgs \X Msgs  BY DEF QInv, TypeOK
  <1>6. fn' = [fn EXCEPT ![i] = m] /\ replaced' = replaced \cup {<<fn[i], m>>}
    BY DEF ReplaceFn
  <1> HIDE DEF i
  <1>7. m \in 0..MaxMsgs  BY MsgRange
  <1>8. fn' \in [Msgs -> 0..MaxMsgs] /\ replaced' \subseteq Msgs \X Msgs
    <2>1. fn' \in [Msgs -> 0..MaxMsgs]  BY <1>5, <1>6, <1>7
    <2>2. <<fn[i], m>> \in Msgs \X Msgs  BY <1>3
    <2> QED BY <1>5, <1>6, <2>1, <2>2
  <1>9. SafeAfter(m)
    <2>1. fn'[i] = m /\ i \in Waiting'  BY <1>2, <1>3, <1>4, <1>5, <1>6
    <2> QED BY <2>1 DEF SafeAfter
  <1>10. ASSUME NEW j \in Waiting
         PROVE  /\ fn'[j] \in Msgs
                /\ (j \in Waiting' /\ fn'[j] = fn[j]) \/ \E r \in replaced' : r[1] = fn[j]
    <2>0. j \in Msgs /\ fn[j] \in Msgs
      <3>1. j \in 1..arrived /\ arrived \in 0..MaxMsgs /\ fn[j] \in Msgs
        BY DEF QInv, JobInv, TypeOK
      <3> QED BY <3>1, PipelineLimits DEF Msgs
    <2>1. CASE j = i
      <3>1. <<fn[i], m>> \in replaced' /\ <<fn[i], m>>[1] = fn[j]  BY <1>6, <2>1
      <3>2. fn'[j] = m  BY <1>2, <1>5, <1>6, <2>1
      <3> QED BY <3>1, <3>2
    <2>2. CASE j # i  BY <1>4, <1>5, <1>6, <2>0, <2>2
    <2> QED BY <2>1, <2>2
  <1>11. \A n : Safe(n) => Safe(n)'  BY <1>6, <1>10, SafeStays
  <1> QED BY <1>8, <1>9, <1>10, <1>11

\* A handler whose message took the place of another one.
LEMMA ReplacedInv ==
  ASSUME QInv, NEW h \in Handlers, handler[h].at # "idle", ReplaceFn(handler[h].msg),
         Accept(handler[h].msg), Returns(h),
         UNCHANGED <<arrived, queue, compact, pool, phase, DropOnBackpressure>>
  PROVE  QInv'
  <1> DEFINE m == handler[h].msg
  <1>0. m \in Msgs  BY HandlerMsg
  <1>1. /\ UNCHANGED <<arrived, queue, compact, worker, started, ran, phase>>
        /\ accepted' = accepted \cup {m}
    BY DEF pool, Accept
  <1>2. /\ handler' \in [Handlers -> HState] /\ handler'[h].at = "idle"
        /\ \A g \in Handlers : g # h => handler'[g] = handler[g]
    BY ReturnsStep DEF QInv
  <1>3. /\ fn' \in [Msgs -> 0..MaxMsgs] /\ replaced' \subseteq Msgs \X Msgs
        /\ \A n : Safe(n) => Safe(n)'
        /\ SafeAfter(m)
        /\ \A j \in Waiting : fn'[j] \in Msgs
    <2> HIDE DEF m
    <2>1. ReplaceFn(m)  BY DEF m
    <2> QED BY <1>0, <1>1, <2>1, ReplaceStep
  <1>4. TypeOK'  BY <1>0, <1>1, <1>2, <1>3 DEF QInv, TypeOK, HState
  <1>5. CompactInv'  BY <1>1, CompactStays
  <1>6. \A n \in accepted' : n \in accepted \/ Safe(n)'
    <2> HIDE DEF m
    <2> QED BY <1>1, <1>3 DEF Safe, SafeAfter
  <1> QED BY <1>1, <1>2, <1>3, <1>4, <1>5, <1>6, HandlerKeeps

LEMMA TryCompactInv ==
  ASSUME QInv, NEW h \in Handlers, TryCompact(h), UNCHANGED DropOnBackpressure
  PROVE  QInv'
  <1> DEFINE m == handler[h].msg
  <1>0. handler[h].at = "compact" /\ UNCHANGED <<arrived, queue, compact, pool, phase>>
    BY DEF TryCompact
  <1>1. CASE ReplaceFn(m) /\ Accept(m) /\ Returns(h)  BY <1>0, <1>1, ReplacedInv
  <1>2. CASE Goes(h, "send") /\ UNCHANGED <<jobs, accepted>>
    <2>1. UNCHANGED <<arrived, queue, fn, replaced, compact, worker, started, ran, phase, accepted>>
      BY <1>0, <1>2 DEF jobs, pool
    <2>2. /\ handler' \in [Handlers -> HState]
          /\ handler'[h].at = "send" /\ handler'[h].msg = handler[h].msg
          /\ \A g \in Handlers : g # h => handler'[g] = handler[g]
      BY <1>2, GoesStep DEF QInv
    <2>3. TypeOK'  BY <2>1, <2>2 DEF QInv, TypeOK, HState
    <2>4. \A n : Safe(n) => Safe(n)'  BY <2>1 DEF Safe, Waiting
    <2>5. \A j \in Waiting : fn'[j] \in Msgs  BY <2>1 DEF QInv, JobInv
    <2>6. CompactInv'  BY <2>1, CompactStays
    <2> QED BY <1>0, <2>1, <2>2, <2>3, <2>4, <2>5, <2>6, HandlerKeeps
  <1> QED BY <1>1, <1>2 DEF TryCompact

LEMMA QueueFullInv ==
  ASSUME QInv, NEW h \in Handlers, QueueFull(h), UNCHANGED DropOnBackpressure
  PROVE  QInv'
  <1> DEFINE m == handler[h].msg
  <1>0. /\ handler[h].at = "send" /\ Returns(h)
        /\ UNCHANGED <<arrived, queue, compact, pool, phase>>
    BY DEF QueueFull
  <1>1. CASE ReplaceFn(m) /\ Accept(m)  BY <1>0, <1>1, ReplacedInv
  <1>2. CASE UNCHANGED <<jobs, accepted>>
    <2>1. UNCHANGED <<arrived, queue, fn, replaced, compact, worker, started, ran, phase, accepted>>
      BY <1>0, <1>2 DEF jobs, pool
    <2>2. /\ handler' \in [Handlers -> HState] /\ handler'[h].at = "idle"
          /\ \A g \in Handlers : g # h => handler'[g] = handler[g]
      BY <1>0, ReturnsStep DEF QInv
    <2>3. TypeOK'  BY <2>1, <2>2 DEF QInv, TypeOK, HState
    <2>4. \A n : Safe(n) => Safe(n)'  BY <2>1 DEF Safe, Waiting
    <2>5. \A j \in Waiting : fn'[j] \in Msgs  BY <2>1 DEF QInv, JobInv
    <2>6. CompactInv'  BY <2>1, CompactStays
    <2> QED BY <2>1, <2>2, <2>3, <2>4, <2>5, <2>6, HandlerKeeps
  <1> QED BY <1>1, <1>2 DEF QueueFull

\* Under the mutex: a job that is not marked has not been fetched.
LEMMA RegisteringInv ==
  ASSUME QInv, NEW h \in Handlers, Register(h), UNCHANGED DropOnBackpressure
  PROVE  QInv'
  <1> DEFINE m == handler[h].msg
  <1>0. m \in Msgs /\ m \in 0..MaxMsgs /\ handler[h].at = "register"
    BY HandlerMsg, MsgRange DEF Register
  <1>1. /\ UNCHANGED <<arrived, queue, fn, replaced, worker, started, ran, phase>>
        /\ accepted' = accepted \cup {m}
        /\ compact' = IF Compactable(m) /\ m \notin started
                      THEN [compact EXCEPT ![Kind[m]] = m] ELSE compact
    BY DEF Register, jobs, pool, Accept
  <1>2. /\ handler' \in [Handlers -> HState] /\ handler'[h].at = "idle"
        /\ \A g \in Handlers : g # h => handler'[g] = handler[g]
    BY ReturnsStep DEF Register, QInv
  <1>3. compact \in [Keys -> 0..MaxMsgs] /\ compact' \in [Keys -> 0..MaxMsgs]
    BY <1>0, <1>1 DEF QInv, TypeOK
  <1>4. TypeOK'  BY <1>0, <1>1, <1>2, <1>3 DEF QInv, TypeOK, HState
  <1>5. \A n : Safe(n)' = Safe(n)  BY <1>1 DEF Safe, Waiting
  <1>6. \A j \in Waiting : fn'[j] \in Msgs  BY <1>1 DEF QInv, JobInv
  <1>7. CompactInv'
    <2>0. \A j : Unfetched(j)' = Unfetched(j)  BY <1>1 DEF Unfetched, InQueue
    <2>1. m \notin started => Unfetched(m)
      BY <1>0 DEF QInv, RegisterInv, Unfetched
    <2> SUFFICES ASSUME NEW k \in Keys, compact'[k] # None
                 PROVE  Unfetched(compact'[k]) /\ Kind[compact'[k]] = k
      BY <2>0 DEF CompactInv
    <2>2. CASE compact'[k] = compact[k]  BY <2>2 DEF QInv, CompactInv
    <2>3. CASE compact'[k] # compact[k]
      <3>1. m \notin started /\ compact' = [compact EXCEPT ![Kind[m]] = m]  BY <1>1, <2>3
      <3>2. k = Kind[m] /\ compact'[k] = m  BY <1>3, <2>3, <3>1
      <3> QED BY <2>1, <3>1, <3>2
    <2> QED BY <2>2, <2>3
  <1>8. \A n \in accepted' : n \in accepted \/ Safe(n)'
    <2>1. Safe(m)  BY <1>0 DEF QInv, RegisterInv
    <2> QED BY <1>1, <1>5, <2>1
  <1> QED BY <1>1, <1>2, <1>4, <1>5, <1>6, <1>7, <1>8, HandlerKeeps

\* The job is new: nothing waits under its message.
LEMMA SendInv ==
  ASSUME QInv, NEW h \in Handlers, Send(h), UNCHANGED DropOnBackpressure
  PROVE  QInv'
  <1> DEFINE m == handler[h].msg
  <1>0. /\ m \in Msgs /\ m \in 1..arrived /\ m \in 0..MaxMsgs /\ handler[h].at = "send"
        /\ m \notin Waiting
    BY HandlerMsg, MsgRange DEF Send, QInv, HandlerInv
  <1>1. UNCHANGED <<arrived, replaced, compact, worker, started, ran, accepted>>
    BY DEF Send, pool
  <1>2. CASE phase' = "panicked" /\ UNCHANGED <<queue, fn, handler>>
    <2>1. TypeOK'  BY <1>1, <1>2 DEF QInv, TypeOK
    <2>2. \A n : Safe(n) => Safe(n)'  BY <1>1, <1>2 DEF Safe, Waiting
    <2>3. \A j \in Waiting : fn'[j] \in Msgs  BY <1>2 DEF QInv, JobInv
    <2>4. CompactInv'  BY <1>1, <1>2, CompactStays
    <2> QED BY <1>1, <1>2, <2>1, <2>2, <2>3, <2>4, HandlerKeeps
  <1>3. CASE /\ Len(queue) < Capacity /\ queue' = Append(queue, m)
             /\ fn' = [fn EXCEPT ![m] = m] /\ Goes(h, "register") /\ UNCHANGED phase
    <2>1. /\ handler' \in [Handlers -> HState]
          /\ handler'[h].at = "register" /\ handler'[h].msg = m
          /\ \A g \in Handlers : g # h => handler'[g] = handler[g]
      BY <1>3, GoesStep DEF QInv
    <2>2. /\ queue' \in Seq(Msgs) /\ Len(queue') = Len(queue) + 1
          /\ InQueue' = InQueue \cup {m}
      <3>1. queue' = Append(queue, m)  BY <1>3
      <3> HIDE DEF m
      <3> QED BY <1>0, <3>1, QueueAppend DEF QInv
    <2>3. Len(queue') <= Capacity
      <3>1. Len(queue) \in Nat  BY LenProperties DEF QInv, TypeOK
      <3> QED BY <1>3, <2>2, <3>1, PipelineLimits
    <2>4. /\ fn' \in [Msgs -> 0..MaxMsgs] /\ fn'[m] = m
          /\ \A j \in Msgs : j # m => fn'[j] = fn[j]
      BY <1>0, <1>3 DEF QInv, TypeOK
    <2>5. TypeOK'  BY <1>1, <1>3, <2>1, <2>2, <2>3, <2>4 DEF QInv, TypeOK, HState
    <2>6. WorkerInv'  BY <1>1 DEF QInv, WorkerInv
    <2>7. \A j : j \in Waiting' <=> j \in Waiting \/ j = m
      <3>1. \A j, w : Holds(w, j)' = Holds(w, j)  BY <1>1 DEF Holds, Busy
      <3>2. WorkerInv  BY DEF QInv
      <3> HIDE DEF m
      <3> QED BY <2>2, <2>6, <3>1, <3>2, WaitingIs, WaitingIsNext
    <2>8. \A j \in Waiting : j \in Msgs /\ j # m /\ j \in 1..arrived /\ fn[j] \in Msgs
      <3>1. \A j \in Waiting : j \in 1..arrived /\ fn[j] \in Msgs  BY DEF QInv, JobInv
      <3>2. \A j \in 1..arrived : j \in Msgs  BY PipelineLimits DEF QInv, TypeOK, Msgs
      <3> QED BY <1>0, <3>1, <3>2
    <2>9. HandlerInv'
      <3>1. \A g \in Handlers : handler'[g].at # "idle" =>
              handler[g].at # "idle" /\ handler'[g].msg = handler[g].msg
        BY <1>0, <2>1
      <3>2. \A g \in Handlers : handler'[g].at # "idle" => handler'[g].msg \in 1..arrived
        BY <3>1 DEF QInv, HandlerInv
      <3>3. ASSUME NEW g1 \in Handlers, NEW g2 \in Handlers, handler'[g1].at # "idle",
                   handler'[g2].at # "idle", handler'[g1].msg = handler'[g2].msg
            PROVE  g1 = g2
        BY <3>1, <3>3 DEF QInv, HandlerInv
      <3>4. ASSUME NEW g \in Handlers, handler'[g].at \in {"ingest", "compact", "send"}
            PROVE  handler'[g].msg \notin Waiting'
        <4>1. g # h /\ handler'[g] = handler[g]  BY <2>1, <3>4
        <4>2. handler[g].msg \notin Waiting  BY <3>4, <4>1 DEF QInv, HandlerInv
        <4>3. handler[g].msg # m  BY <1>0, <3>4, <4>1 DEF QInv, HandlerInv
        <4> QED BY <2>7, <4>1, <4>2, <4>3
      <3> QED BY <1>1, <3>2, <3>3, <3>4 DEF HandlerInv
    <2>10. JobInv'
      <3> SUFFICES ASSUME NEW j \in Waiting' PROVE j \in 1..arrived /\ fn'[j] \in Msgs
        BY <1>1 DEF JobInv
      <3>1. CASE j = m  BY <1>0, <2>4, <3>1
      <3>2. CASE j # m  BY <2>4, <2>7, <2>8, <3>2
      <3> QED BY <3>1, <3>2
    <2>11. CompactInv'
      <3>1. \A j : Unfetched(j) => Unfetched(j)'  BY <1>1, <2>2 DEF Unfetched
      <3> QED BY <1>1, <3>1 DEF QInv, CompactInv
    <2>12. \A n : Safe(n) => Safe(n)'
      <3>1. \A j \in Waiting : j \in Waiting' /\ fn'[j] = fn[j]  BY <2>4, <2>7, <2>8
      <3> QED BY <1>1, <3>1, SafeStays
    <2>13. RegisterInv'
      <3> SUFFICES ASSUME NEW g \in Handlers, handler'[g].at = "register"
            PROVE  /\ SafeAfter(handler'[g].msg)
                   /\ \/ handler'[g].msg \in InQueue' \/ handler'[g].msg \in started
                      \/ \E w \in Workers :
                           worker[w].at = "taken" /\ worker[w].job = handler'[g].msg
        BY <1>1 DEF RegisterInv, Safe, SafeAfter
      <3>1. CASE g = h
        <4>1. m \in Waiting' /\ fn'[m] = m  BY <2>4, <2>7
        <4>2. SafeAfter(m)  BY <4>1 DEF SafeAfter
        <4> QED BY <2>1, <2>2, <3>1, <4>2
      <3>2. CASE g # h
        <4>1. handler'[g] = handler[g]  BY <2>1, <3>2
        <4>2. Safe(handler[g].msg)  BY <4>1 DEF QInv, RegisterInv
        <4>3. SafeAfter(handler[g].msg)
          <5> DEFINE n == handler[g].msg
          <5>1. Safe(n)  BY <4>2
          <5> HIDE DEF n
          <5>2. SafeAfter(n)  BY <2>12, <5>1 DEF Safe, SafeAfter
          <5> QED BY <5>2 DEF n
        <4> QED BY <2>2, <4>1, <4>3 DEF QInv, RegisterInv
      <3> QED BY <3>1, <3>2
    <2>14. NothingLost'
      <3>1. \A n \in accepted : Safe(n)  BY DEF QInv, NothingLost, Safe
      <3> QED BY <1>1, <2>12, <3>1 DEF NothingLost, Safe
    <2> QED BY <2>5, <2>6, <2>9, <2>10, <2>11, <2>13, <2>14 DEF QInv
  <1> QED BY <1>2, <1>3 DEF Send

-----------------------------------------------------------------------------
(* Steps of a worker. *)

LEMMA WorkerMoves ==
  ASSUME TypeOK, NEW w \in Workers, NEW r \in WState, worker' = [worker EXCEPT ![w] = r]
  PROVE  /\ worker' \in [Workers -> WState] /\ worker'[w] = r
         /\ \A v \in Workers : v # w => worker'[v] = worker[v]
  BY DEF TypeOK, WState

LEMMA WorkerGoes ==
  ASSUME TypeOK, NEW w \in Workers, NEW at \in {"started", "run"},
         worker' = [worker EXCEPT ![w].at = at]
  PROVE  /\ worker' \in [Workers -> WState]
         /\ worker'[w].at = at /\ worker'[w].job = worker[w].job
         /\ \A v \in Workers : v # w => worker'[v] = worker[v]
  BY DEF TypeOK, WState

\* The handlers' part of the invariant, if nothing safe is lost and no job is added.
LEMMA WorkerKeeps ==
  ASSUME QInv, TypeOK', WorkerInv', CompactInv', UNCHANGED <<arrived, handler, fn, accepted>>,
         Waiting' \subseteq Waiting,
         \A m : Safe(m) => Safe(m)',
         \A h \in Handlers : handler[h].at = "register" =>
           \/ handler[h].msg \in InQueue' \/ handler[h].msg \in started'
           \/ \E w \in Workers : worker'[w].at = "taken" /\ worker'[w].job = handler[h].msg
  PROVE  QInv'
  <1>1. HandlerInv'  BY DEF QInv, HandlerInv
  <1>2. JobInv'  BY DEF QInv, JobInv
  <1>3. NothingLost'
    <2>1. \A m \in accepted : Safe(m)  BY DEF QInv, NothingLost, Safe
    <2> QED BY <2>1 DEF NothingLost, Safe
  <1>4. RegisterInv'
    <2>1. \A h \in Handlers : handler[h].at = "register" => Safe(handler[h].msg)
      BY DEF QInv, RegisterInv
    <2> QED BY <2>1 DEF RegisterInv
  <1> QED BY <1>1, <1>2, <1>3, <1>4 DEF QInv

LEMMA TakeInv ==
  ASSUME QInv, NEW w \in Workers, Take(w), UNCHANGED DropOnBackpressure
  PROVE  QInv'
  <1> DEFINE j == Head(queue)
             r == [at |-> "taken", job |-> j]
  <1>0. /\ queue # <<>> /\ queue' = Tail(queue) /\ worker[w] = Free
        /\ UNCHANGED <<arrived, handler, fn, replaced, started, compact, phase, accepted, ran>>
    BY DEF Take, jobs
  <1>1. /\ queue' \in Seq(Msgs) /\ Len(queue') <= Capacity /\ j \in Msgs /\ j \in InQueue
        /\ InQueue = InQueue' \cup {j}
    BY <1>0, QueueTail DEF QInv
  <1>2. /\ worker' \in [Workers -> WState] /\ worker'[w] = r
        /\ \A v \in Workers : v # w => worker'[v] = worker[v]
    <2>1. r \in WState  BY <1>1, MsgRange DEF WState
    <2>2. worker' = [worker EXCEPT ![w] = r]  BY DEF Take
    <2> HIDE DEF r
    <2> QED BY <2>1, <2>2, WorkerMoves DEF QInv
  <1>3. worker'[w].at = "taken" /\ worker'[w].job = j /\ worker[w].at = "free"
    BY <1>0, <1>2, IdleFree
  <1> HIDE DEF j, r
  <1>4. TypeOK'  BY <1>0, <1>1, <1>2 DEF QInv, TypeOK, WState
  <1>5. WorkerInv'  BY <1>0, <1>1, <1>2, <1>3 DEF QInv, WorkerInv
  <1>6. \A i : i \in Waiting' <=> i \in Waiting
    <2>1. ~Holds(w, j) /\ \A i : Holds(w, i)' <=> i = j
      BY <1>3 DEF Holds, Busy
    <2>2. \A i : ~Holds(w, i)  BY <1>3 DEF Holds, Busy
    <2>3. \A i : \A v \in Workers : v # w => Holds(v, i)' = Holds(v, i)
      BY <1>2 DEF Holds, Busy
    <2>4. WorkerInv  BY DEF QInv
    <2> QED BY <1>1, <1>5, <2>1, <2>2, <2>3, <2>4, WaitingIs, WaitingIsNext
  <1>7. \A i : Unfetched(i) => Unfetched(i)'
    <2> SUFFICES ASSUME NEW i, Unfetched(i) PROVE Unfetched(i)'  OBVIOUS
    <2>1. CASE i \in InQueue  BY <1>1, <1>3, <2>1 DEF Unfetched
    <2>2. CASE \E v \in Workers : worker[v].at \in {"taken", "started"} /\ worker[v].job = i
      <3>1. PICK v \in Workers : worker[v].at \in {"taken", "started"} /\ worker[v].job = i
        BY <2>2
      <3>2. v # w  BY <1>3, <3>1
      <3> QED BY <1>2, <3>1, <3>2 DEF Unfetched
    <2> QED BY <2>1, <2>2 DEF Unfetched
  <1>8. CompactInv'  BY <1>0, <1>7 DEF QInv, CompactInv
  <1>9. \A m : Safe(m) => Safe(m)'  BY <1>0, <1>6 DEF Safe
  <1>10. ASSUME NEW h \in Handlers, handler[h].at = "register"
         PROVE  \/ handler[h].msg \in InQueue' \/ handler[h].msg \in started'
                \/ \E v \in Workers : worker'[v].at = "taken" /\ worker'[v].job = handler[h].msg
    <2>1. CASE handler[h].msg \in InQueue  BY <1>1, <1>3, <2>1
    <2>2. CASE handler[h].msg \in started  BY <1>0, <2>2
    <2>3. CASE \E v \in Workers : worker[v].at = "taken" /\ worker[v].job = handler[h].msg
      <3>1. PICK v \in Workers : worker[v].at = "taken" /\ worker[v].job = handler[h].msg
        BY <2>3
      <3>2. v # w  BY <1>3, <3>1
      <3> QED BY <1>2, <3>1, <3>2
    <2> QED BY <1>10, <2>1, <2>2, <2>3 DEF QInv, RegisterInv
  <1> QED BY <1>0, <1>4, <1>5, <1>6, <1>8, <1>9, <1>10, WorkerKeeps

LEMMA StartedInv ==
  ASSUME QInv, NEW w \in Workers, StoreStarted(w), UNCHANGED DropOnBackpressure
  PROVE  QInv'
  <1> DEFINE j == worker[w].job
  <1>0. /\ worker[w].at = "taken" /\ started' = started \cup {j}
        /\ worker' = [worker EXCEPT ![w].at = "started"]
        /\ UNCHANGED <<arrived, handler, queue, fn, replaced, compact, phase, accepted, ran>>
    BY DEF StoreStarted, jobs
  <1>1. j \in Msgs  BY <1>0 DEF QInv, WorkerInv
  <1>2. /\ worker' \in [Workers -> WState]
        /\ worker'[w].at = "started" /\ worker'[w].job = j
        /\ \A v \in Workers : v # w => worker'[v] = worker[v]
    BY <1>0, WorkerGoes DEF QInv
  <1>3. TypeOK'  BY <1>0, <1>1, <1>2 DEF QInv, TypeOK, WState
  <1>4. WorkerInv'  BY <1>0, <1>1, <1>2 DEF QInv, WorkerInv
  <1>5. InQueue' = InQueue  BY <1>0 DEF InQueue
  <1>6. \A i : i \in Waiting' <=> i \in Waiting
    <2>1. \A i : \A v \in Workers : Holds(v, i)' = Holds(v, i)
      BY <1>0, <1>2 DEF Holds, Busy
    <2>2. WorkerInv  BY DEF QInv
    <2> QED BY <1>4, <1>5, <2>1, <2>2, WaitingIs, WaitingIsNext
  <1>7. \A i : Unfetched(i) => Unfetched(i)'
    BY <1>0, <1>2, <1>5 DEF Unfetched
  <1>8. CompactInv'  BY <1>0, <1>7 DEF QInv, CompactInv
  <1>9. \A m : Safe(m) => Safe(m)'  BY <1>0, <1>6 DEF Safe
  <1>10. ASSUME NEW h \in Handlers, handler[h].at = "register"
         PROVE  \/ handler[h].msg \in InQueue' \/ handler[h].msg \in started'
                \/ \E v \in Workers : worker'[v].at = "taken" /\ worker'[v].job = handler[h].msg
    <2>1. CASE handler[h].msg \in InQueue \/ handler[h].msg \in started  BY <1>0, <1>5, <2>1
    <2>2. CASE \E v \in Workers : worker[v].at = "taken" /\ worker[v].job = handler[h].msg
      <3>1. PICK v \in Workers : worker[v].at = "taken" /\ worker[v].job = handler[h].msg
        BY <2>2
      <3>2. CASE v = w  BY <1>0, <3>1, <3>2
      <3>3. CASE v # w  BY <1>2, <3>1, <3>3
      <3> QED BY <3>2, <3>3
    <2> QED BY <1>10, <2>1, <2>2 DEF QInv, RegisterInv
  <1> QED BY <1>0, <1>3, <1>4, <1>6, <1>8, <1>9, <1>10, WorkerKeeps

\* After this nothing can be compacted into the job, and it is fetched.
LEMMA UnregisterInv ==
  ASSUME QInv, NEW w \in Workers, Unregister(w), UNCHANGED DropOnBackpressure
  PROVE  QInv'
  <1> DEFINE j == worker[w].job
  <1>0. /\ worker[w].at = "started"
        /\ compact' = IF Compactable(j) /\ compact[Kind[j]] = j
                      THEN [compact EXCEPT ![Kind[j]] = None] ELSE compact
        /\ worker' = [worker EXCEPT ![w].at = "run"]
        /\ UNCHANGED <<arrived, handler, queue, fn, replaced, started, phase, accepted, ran>>
    BY DEF Unregister, jobs
  <1>1. j \in Msgs /\ j \in started  BY <1>0 DEF QInv, WorkerInv
  <1>2. /\ worker' \in [Workers -> WState]
        /\ worker'[w].at = "run" /\ worker'[w].job = j
        /\ \A v \in Workers : v # w => worker'[v] = worker[v]
    BY <1>0, WorkerGoes DEF QInv
  <1>3. compact \in [Keys -> 0..MaxMsgs] /\ compact' \in [Keys -> 0..MaxMsgs]
    <2>1. None \in 0..MaxMsgs  BY PipelineLimits DEF None
    <2>2. compact \in [Keys -> 0..MaxMsgs]  BY DEF QInv, TypeOK
    <2>3. [compact EXCEPT ![Kind[j]] = None] \in [Keys -> 0..MaxMsgs]  BY <2>1, <2>2
    <2> QED BY <1>0, <2>2, <2>3
  <1>4. TypeOK'  BY <1>0, <1>2, <1>3 DEF QInv, TypeOK, WState
  <1>5. WorkerInv'  BY <1>0, <1>1, <1>2 DEF QInv, WorkerInv
  <1>6. InQueue' = InQueue  BY <1>0 DEF InQueue
  <1>7. \A i : i \in Waiting' <=> i \in Waiting
    <2>1. \A i : \A v \in Workers : Holds(v, i)' = Holds(v, i)
      BY <1>0, <1>2 DEF Holds, Busy
    <2>2. WorkerInv  BY DEF QInv
    <2> QED BY <1>5, <1>6, <2>1, <2>2, WaitingIs, WaitingIsNext
  <1>8. \A i : Unfetched(i) /\ i # j => Unfetched(i)'
    BY <1>0, <1>2, <1>6 DEF Unfetched
  <1>9. CompactInv'
    <2> SUFFICES ASSUME NEW k \in Keys, compact'[k] # None
                 PROVE  /\ \/ compact'[k] \in InQueue'
                           \/ \E v \in Workers : /\ worker'[v].at \in {"taken", "started"}
                                                 /\ worker'[v].job = compact'[k]
                        /\ Kind[compact'[k]] = k
      BY DEF CompactInv, Unfetched
    <2>1. compact'[k] = compact[k] /\ compact[k] # j
      <3>1. CASE Compactable(j) /\ compact[Kind[j]] = j
        <4>1. compact' = [compact EXCEPT ![Kind[j]] = None]  BY <1>0, <3>1
        <4>2. k # Kind[j]  BY <1>3, <4>1
        <4>3. compact[k] = j => Kind[j] = k  BY <1>1, MsgRange DEF QInv, CompactInv
        <4> QED BY <1>3, <4>1, <4>2, <4>3
      <3>2. CASE ~(Compactable(j) /\ compact[Kind[j]] = j)
        <4>1. compact' = compact  BY <1>0, <3>2
        <4>2. compact[k] = j => Kind[j] = k  BY <1>1, MsgRange DEF QInv, CompactInv
        <4> QED BY <3>2, <4>1, <4>2 DEF Compactable
      <3> QED BY <3>1, <3>2
    <2> DEFINE i == compact[k]
    <2>2. Unfetched(i) /\ Kind[i] = k  BY <2>1 DEF QInv, CompactInv
    <2>3. compact'[k] \in InQueue' \/ \E v \in Workers :
            worker'[v].at \in {"taken", "started"} /\ worker'[v].job = compact'[k]
      BY <1>0, <1>2, <1>6, <2>1, <2>2 DEF Unfetched
    <2> QED BY <2>1, <2>2, <2>3
  <1>10. \A m : Safe(m) => Safe(m)'  BY <1>0, <1>7 DEF Safe
  <1>11. ASSUME NEW h \in Handlers, handler[h].at = "register"
         PROVE  \/ handler[h].msg \in InQueue' \/ handler[h].msg \in started'
                \/ \E v \in Workers : worker'[v].at = "taken" /\ worker'[v].job = handler[h].msg
    BY <1>0, <1>2, <1>6, <1>11 DEF QInv, RegisterInv
  <1> QED BY <1>0, <1>4, <1>5, <1>7, <1>9, <1>10, <1>11, WorkerKeeps

LEMMA RunInv ==
  ASSUME QInv, NEW w \in Workers, Run(w), UNCHANGED DropOnBackpressure
  PROVE  QInv'
  <1> DEFINE j == worker[w].job
  <1>0. /\ worker[w].at = "run" /\ ran' = ran \cup {fn[j]}
        /\ worker' = [worker EXCEPT ![w] = Free]
        /\ UNCHANGED <<arrived, handler, queue, fn, replaced, started, compact, phase, accepted>>
    BY DEF Run, jobs
  <1>1. j \in Waiting /\ fn[j] \in Msgs
    <2>1. Holds(w, j)  BY <1>0 DEF Holds, Busy
    <2> QED BY <2>1, WaitingIs DEF QInv, JobInv
  <1>2. /\ worker' \in [Workers -> WState] /\ worker'[w] = Free /\ worker'[w].at = "free"
        /\ \A v \in Workers : v # w => worker'[v] = worker[v]
    BY <1>0, IdleFree, WorkerMoves DEF QInv
  <1>3. TypeOK'  BY <1>0, <1>1, <1>2 DEF QInv, TypeOK, WState
  <1>4. WorkerInv'  BY <1>0, <1>2 DEF QInv, WorkerInv
  <1>5. InQueue' = InQueue  BY <1>0 DEF InQueue
  <1>6. \A i : (i \in Waiting' => i \in Waiting) /\ (i \in Waiting => i \in Waiting' \/ i = j)
    <2>1. \A i : \A v \in Workers : v # w => Holds(v, i)' = Holds(v, i)
      BY <1>2 DEF Holds, Busy
    <2>2. \A i : ~Holds(w, i)' /\ (Holds(w, i) => i = j)  BY <1>2 DEF Holds, Busy
    <2>3. WorkerInv  BY DEF QInv
    <2> QED BY <1>4, <1>5, <2>1, <2>2, <2>3, WaitingIs, WaitingIsNext
  <1>7. \A i : Unfetched(i) => Unfetched(i)'
    BY <1>0, <1>2, <1>5 DEF Unfetched
  <1>8. CompactInv'  BY <1>0, <1>7 DEF QInv, CompactInv
  <1>9. \A m : Safe(m) => Safe(m)'
    <2>1. \A i \in Waiting : (i \in Waiting' /\ fn'[i] = fn[i]) \/ fn[i] \in ran'
      BY <1>0, <1>6
    <2> QED BY <1>0, <2>1, SafeStays
  <1>10. ASSUME NEW h \in Handlers, handler[h].at = "register"
         PROVE  \/ handler[h].msg \in InQueue' \/ handler[h].msg \in started'
                \/ \E v \in Workers : worker'[v].at = "taken" /\ worker'[v].job = handler[h].msg
    BY <1>0, <1>2, <1>5, <1>10 DEF QInv, RegisterInv
  <1> QED BY <1>0, <1>3, <1>4, <1>6, <1>8, <1>9, <1>10, WorkerKeeps

-----------------------------------------------------------------------------
(* The theorems. *)

\* Stop, Close and stuttering change the phase at most.
LEMMA PhaseInv ==
  ASSUME QInv, phase' \in {"up", "stopping", "closed", "panicked"},
         UNCHANGED <<arrived, handler, queue, jobs, compact, pool, accepted, DropOnBackpressure>>
  PROVE  QInv'
  <1>1. UNCHANGED <<arrived, handler, queue, fn, replaced, compact, worker, started, ran, accepted>>
    BY DEF jobs, pool
  <1>2. TypeOK'  BY <1>1 DEF QInv, TypeOK
  <1>3. WorkerInv'  BY <1>1 DEF QInv, WorkerInv
  <1>4. CompactInv'  BY <1>1, CompactStays
  <1>5. Waiting' = Waiting /\ InQueue' = InQueue  BY <1>1 DEF Waiting, InQueue
  <1>6. \A m : Safe(m) => Safe(m)'  BY <1>1, <1>5 DEF Safe
  <1>7. ASSUME NEW h \in Handlers, handler[h].at = "register"
        PROVE  \/ handler[h].msg \in InQueue' \/ handler[h].msg \in started'
               \/ \E v \in Workers : worker'[v].at = "taken" /\ worker'[v].job = handler[h].msg
    BY <1>1, <1>5, <1>7 DEF QInv, RegisterInv
  <1> QED BY <1>1, <1>2, <1>3, <1>4, <1>5, <1>6, <1>7, WorkerKeeps

LEMMA PipelineInit == Init => QInv
  <1> SUFFICES ASSUME Init PROVE QInv  OBVIOUS
  <1>1. /\ \A h \in Handlers : handler[h].at = "idle"
        /\ \A w \in Workers : worker[w] = Free /\ worker[w].at = "free"
    BY IdleFree DEF Init
  <1>2. TypeOK
    <2>1. handler \in [Handlers -> HState] /\ worker \in [Workers -> WState]
      BY IdleFree DEF Init
    <2>2. queue \in Seq(Msgs) /\ Len(queue) <= Capacity  BY PipelineLimits DEF Init
    <2>3. arrived \in 0..MaxMsgs /\ fn \in [Msgs -> 0..MaxMsgs] /\ compact \in [Keys -> 0..MaxMsgs]
      BY PipelineLimits DEF Init, None
    <2> QED BY <2>1, <2>2, <2>3 DEF Init, TypeOK, HState, WState
  <1>3. WorkerInv  BY <1>1 DEF WorkerInv
  <1>4. Waiting = {}
    <2>1. InQueue = {}  BY DEF Init, InQueue
    <2> QED BY <1>1, <1>3, <2>1, WaitingIs DEF Busy
  <1>5. HandlerInv /\ JobInv /\ RegisterInv  BY <1>1, <1>4 DEF HandlerInv, JobInv, RegisterInv
  <1>6. CompactInv  BY DEF Init, CompactInv
  <1>7. NothingLost  BY DEF Init, NothingLost
  <1> QED BY <1>2, <1>3, <1>5, <1>6, <1>7 DEF QInv

LEMMA PipelineStep == QInv /\ [Next]_vars => QInv'
  <1> SUFFICES ASSUME QInv, [Next]_vars PROVE QInv'  OBVIOUS
  <1>1. ASSUME NEW h \in Handlers, UNCHANGED DropOnBackpressure,
               \/ Deliver(h) \/ Refused(h) \/ IngestCriticalSync(h) \/ Submit(h)
               \/ TryCompact(h) \/ Send(h) \/ QueueFull(h) \/ Register(h)
        PROVE  QInv'
    BY <1>1, DeliverInv, RefusedInv, CriticalInv, SubmitInv, TryCompactInv, SendInv,
       QueueFullInv, RegisteringInv
  <1>2. ASSUME NEW w \in Workers, UNCHANGED DropOnBackpressure, Work(w) PROVE QInv'
    BY <1>2, TakeInv, StartedInv, UnregisterInv, RunInv DEF Work
  <1>3. CASE (Stop \/ Close) /\ UNCHANGED DropOnBackpressure  BY <1>3, PhaseInv DEF Stop, Close
  <1>4. CASE UNCHANGED vars
    <2>1. phase' \in {"up", "stopping", "closed", "panicked"}
      BY <1>4 DEF vars, QInv, TypeOK
    <2> QED BY <1>4, <2>1, PhaseInv DEF vars, jobs, pool
  <1> QED BY <1>1, <1>2, <1>3, <1>4 DEF Next

\* The inductive invariant: a job that others may be compacted into has not been fetched,
\* one that is yet to be registered waits or is marked, and no job is queued twice.
THEOREM PipelineInvariant == Spec => []QInv
  BY PipelineInit, PipelineStep, PTL DEF Spec

\* Every reachable state of handlers, queue, map and workers has its type; the queue never
\* exceeds its capacity.
THEOREM PipelineTypeCorrect == Spec => []TypeOK
  <1>1. QInv => TypeOK  BY DEF QInv
  <1> QED BY <1>1, PipelineInvariant, PTL

\* No accepted message is lost between the map and the queue, for any number of handlers and
\* workers (tryCompact, worker).
THEOREM NoMessageLost == Spec => []NothingLost
  <1>1. QInv => NothingLost  BY DEF QInv
  <1> QED BY <1>1, PipelineInvariant, PTL
=============================================================================
