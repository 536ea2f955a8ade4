-------------------------- MODULE TelemetryPipeline --------------------------
(***************************************************************************)
(* The bounded work queue between the MQTT subscriber and the telemetry    *)
(* bridge: handlers submit jobs, a pool of workers runs them, and a state  *)
(* update replaces the one that still waits for the same machine and       *)
(* event.  The map of waiting jobs and the queue are two structures: a     *)
(* handler enters its job into the map after it has queued it, a worker    *)
(* removes it after it has taken it.                                       *)
(*                                                                         *)
(* Messages are numbered in the order in which the broker delivered them;  *)
(* the client runs one handler per message, in any order.  A job is named  *)
(* by the message that created it.                                         *)
(***************************************************************************)
EXTENDS Integers, Sequences, FiniteSets

CONSTANTS Handlers,   \* MQTT handlers running at the same time
          Workers,    \* WorkerConcurrency
          Capacity,   \* GlobalMaxInflight
          MaxMsgs,    \* bound: messages delivered
          Keys,       \* machine and event of a compactable message
          Kind        \* of a message: its key, "droppable" or "critical"

Msgs == 1..MaxMsgs

ASSUME PipelineSets == IsFiniteSet(Handlers) /\ IsFiniteSet(Workers)
ASSUME PipelineLimits == Capacity \in Nat \ {0} /\ MaxMsgs \in Nat
ASSUME PipelineKinds == /\ Kind \in [Msgs -> Keys \cup {"droppable", "critical"}]
                        /\ "droppable" \notin Keys /\ "critical" \notin Keys

VARIABLES
  arrived,  \* messages the broker has delivered
  handler,  \* a handler inside Ingest*
  queue,    \* the channel
  fn,       \* the message a job carries
  started,  \* the flag of a job
  compact,  \* the waiting job of a key, or None
  worker,   \* a worker between taking a job and running it
  phase,    \* of the process: "up", "stopping", "closed", "panicked"
  accepted, \* messages whose handler returned success, but for dropped ones
  ran,      \* messages whose function was run
  DropOnBackpressure, \* setting of the process
  replaced  \* history: (message, the message that took its place in a job)

vars == <<arrived, handler, queue, fn, started, compact, worker, phase, accepted,
          ran, DropOnBackpressure, replaced>>

None == 0
Idle == [at |-> "idle", msg |-> None]
Free == [at |-> "free", job |-> None]

TypeOK ==
  /\ arrived \in 0..MaxMsgs
  /\ handler \in [Handlers -> [at : {"idle", "ingest", "compact", "send", "register"},
                               msg : 0..MaxMsgs]]
  /\ queue \in Seq(Msgs) /\ Len(queue) <= Capacity
  /\ fn \in [Msgs -> 0..MaxMsgs]
  /\ started \subseteq Msgs
  /\ compact \in [Keys -> 0..MaxMsgs]
  /\ worker \in [Workers -> [at : {"free", "taken", "started", "run"}, job : 0..MaxMsgs]]
  /\ phase \in {"up", "stopping", "closed", "panicked"}
  /\ accepted \subseteq Msgs /\ ran \subseteq Msgs
  /\ DropOnBackpressure \in BOOLEAN
  /\ replaced \subseteq Msgs \X Msgs

Init ==
  /\ arrived = 0
  /\ handler = [h \in Handlers |-> Idle]
  /\ queue = <<>>
  /\ fn = [m \in Msgs |-> None]
  /\ started = {}
  /\ compact = [k \in Keys |-> None]
  /\ worker = [w \in Workers |-> Free]
  /\ phase = "up"
  /\ accepted = {} /\ ran = {} /\ replaced = {}
  /\ DropOnBackpressure \in BOOLEAN

pool == <<worker, started, ran>>
jobs == <<fn, replaced>>

Alive == phase # "panicked"
Compactable(m) == Kind[m] \in Keys
Returns(h) == handler' = [handler EXCEPT ![h] = Idle]
Goes(h, at) == handler' = [handler EXCEPT ![h].at = at]
Accept(m) == accepted' = accepted \cup {m}

-----------------------------------------------------------------------------
(* A handler of the subscriber.                                            *)

Deliver(h) ==
  /\ phase = "up" /\ handler[h] = Idle /\ arrived < MaxMsgs
  /\ arrived' = arrived + 1
  /\ handler' = [handler EXCEPT ![h] = [at |-> "ingest", msg |-> arrived + 1]]
  /\ UNCHANGED <<queue, jobs, compact, pool, phase, accepted>>

\* Over the rate of its machine, or a critical message whose inline run fails: an
\* error that is logged, no more.
Refused(h) ==
  /\ Alive /\ handler[h].at = "ingest"
  /\ Returns(h)
  /\ UNCHANGED <<arrived, queue, jobs, compact, pool, phase, accepted>>

IngestCriticalSync(h) ==
  /\ Alive /\ handler[h].at = "ingest" /\ Kind[handler[h].msg] = "critical"
  /\ ran' = ran \cup {handler[h].msg}
  /\ Accept(handler[h].msg)
  /\ Returns(h)
  /\ UNCHANGED <<arrived, queue, jobs, compact, worker, started, phase>>

Submit(h) ==
  /\ Alive /\ handler[h].at = "ingest" /\ Kind[handler[h].msg] # "critical"
  /\ Goes(h, IF Compactable(handler[h].msg) THEN "compact" ELSE "send")
  /\ UNCHANGED <<arrived, queue, jobs, compact, pool, phase, accepted>>

\* Under compactMu: the function of the waiting job is replaced.
ReplaceFn(m) ==
  LET j == compact[Kind[m]] IN
  /\ Compactable(m) /\ j # None
  /\ fn' = [fn EXCEPT ![j] = m]
  /\ replaced' = replaced \cup {<<fn[j], m>>}

TryCompact(h) ==
  LET m == handler[h].msg IN
  /\ Alive /\ handler[h].at = "compact"
  /\ \/ ReplaceFn(m) /\ Accept(m) /\ Returns(h)
     \/ compact[Kind[m]] = None /\ Goes(h, "send") /\ UNCHANGED <<jobs, accepted>>
  /\ UNCHANGED <<arrived, queue, compact, pool, phase>>

\* Mutation: the queue without a limit.
SendUnbounded(h) ==
  LET m == handler[h].msg IN
  /\ Alive /\ handler[h].at = "send" /\ phase # "closed"
  /\ queue' = Append(queue, m)
  /\ fn' = [fn EXCEPT ![m] = m]
  /\ Goes(h, "register")
  /\ UNCHANGED <<arrived, replaced, compact, pool, phase, accepted>>

\* A send on the channel that Close has closed panics.
Send(h) ==
  LET m == handler[h].msg IN
  /\ Alive /\ handler[h].at = "send"
  /\ \/ /\ phase # "closed" /\ Len(queue) < Capacity
        /\ queue' = Append(queue, m)
        /\ fn' = [fn EXCEPT ![m] = m]
        /\ Goes(h, "register") /\ UNCHANGED phase
     \/ /\ phase = "closed"
        /\ phase' = "panicked" /\ UNCHANGED <<queue, fn, handler>>
  /\ UNCHANGED <<arrived, replaced, compact, pool, accepted>>

\* The queue is full.  With DropOnBackpressure at once: a droppable message is
\* forgotten, a compactable one tries the map again.  Otherwise after a wait, with an
\* error, which may also win over a free place.
QueueFull(h) ==
  LET m == handler[h].msg IN
  /\ Alive /\ handler[h].at = "send"
  /\ DropOnBackpressure => phase # "closed" /\ Len(queue) = Capacity
  /\ \/ DropOnBackpressure /\ ReplaceFn(m) /\ Accept(m)
     \/ /\ DropOnBackpressure /\ Compactable(m) => compact[Kind[m]] = None
        /\ UNCHANGED <<jobs, accepted>>
  /\ Returns(h)
  /\ UNCHANGED <<arrived, queue, compact, pool, phase>>

\* Mutation: without the test of the started flag.
RegisterAlways(h) ==
  LET m == handler[h].msg IN
  /\ Alive /\ handler[h].at = "register"
  /\ compact' = IF Compactable(m) THEN [compact EXCEPT ![Kind[m]] = m] ELSE compact
  /\ Accept(m) /\ Returns(h)
  /\ UNCHANGED <<arrived, queue, jobs, pool, phase>>

\* Under compactMu: a job no worker has started yet may be compacted into.
Register(h) ==
  LET m == handler[h].msg IN
  /\ Alive /\ handler[h].at = "register"
  /\ compact' = IF Compactable(m) /\ m \notin started
                THEN [compact EXCEPT ![Kind[m]] = m] ELSE compact
  /\ Accept(m) /\ Returns(h)
  /\ UNCHANGED <<arrived, queue, jobs, pool, phase>>

-----------------------------------------------------------------------------
(* A worker.                                                               *)

\* Mutation: a worker ends when the channel is closed, without draining it.
TakeWhileOpen(w) ==
  /\ Alive /\ phase # "closed" /\ worker[w] = Free /\ queue # <<>>
  /\ queue' = Tail(queue)
  /\ worker' = [worker EXCEPT ![w] = [at |-> "taken", job |-> Head(queue)]]
  /\ UNCHANGED <<arrived, handler, jobs, started, compact, phase, accepted, ran>>

Take(w) ==
  /\ Alive /\ worker[w] = Free /\ queue # <<>>
  /\ queue' = Tail(queue)
  /\ worker' = [worker EXCEPT ![w] = [at |-> "taken", job |-> Head(queue)]]
  /\ UNCHANGED <<arrived, handler, jobs, started, compact, phase, accepted, ran>>

StoreStarted(w) ==
  /\ Alive /\ worker[w].at = "taken"
  /\ started' = started \cup {worker[w].job}
  /\ worker' = [worker EXCEPT ![w].at = "started"]
  /\ UNCHANGED <<arrived, handler, queue, jobs, compact, phase, accepted, ran>>

Unregister(w) ==
  LET j == worker[w].job IN
  /\ Alive /\ worker[w].at = "started"
  /\ compact' = IF Compactable(j) /\ compact[Kind[j]] = j
                THEN [compact EXCEPT ![Kind[j]] = None] ELSE compact
  /\ worker' = [worker EXCEPT ![w].at = "run"]
  /\ UNCHANGED <<arrived, handler, queue, jobs, started, phase, accepted, ran>>

\* An error of the bridge is logged; the message is not tried again.
Run(w) ==
  LET m == fn[worker[w].job] IN
  /\ Alive /\ worker[w].at = "run"
  /\ ran' = ran \cup {m}
  /\ worker' = [worker EXCEPT ![w] = Free]
  /\ UNCHANGED <<arrived, handler, queue, jobs, started, compact, phase, accepted>>

-----------------------------------------------------------------------------
(* Shutdown: the subscriber disconnects and does not wait for its handlers.*)

Stop ==
  /\ phase = "up" /\ phase' = "stopping"
  /\ UNCHANGED <<arrived, handler, queue, jobs, compact, pool, accepted>>

Close ==
  /\ phase = "stopping" /\ phase' = "closed"
  /\ UNCHANGED <<arrived, handler, queue, jobs, compact, pool, accepted>>

-----------------------------------------------------------------------------
Work(w) == Take(w) \/ StoreStarted(w) \/ Unregister(w) \/ Run(w)

Next ==
  /\ \/ \E h \in Handlers : \/ Deliver(h) \/ Refused(h) \/ IngestCriticalSync(h)
                            \/ Submit(h) \/ TryCompact(h) \/ Send(h)
                            \/ QueueFull(h) \/ Register(h)
     \/ \E w \in Workers : Work(w)
     \/ Stop \/ Close
  /\ UNCHANGED DropOnBackpressure

Spec == Init /\ [][Next]_vars

\* Goroutines run on.
LiveSpec == Spec /\ \A w \in Workers : WF_vars(Work(w) /\ UNCHANGED DropOnBackpressure)

-----------------------------------------------------------------------------
(* Properties. *)

\* Jobs that will still be run.
Waiting == {queue[i] : i \in 1..Len(queue)}
             \cup {worker[w].job : w \in {v \in Workers : worker[v] # Free}}

\* A message whose handler returned success is run, waits in a job that will be run,
\* or gave its place in a job to another one: no message is compacted into a job whose
\* function has been fetched already (tryCompact against worker).
NothingLost ==
  \A m \in accepted :
    \/ m \in ran
    \/ \E j \in Waiting : fn[j] = m
    \/ \E r \in replaced : r[1] = m

\* What was accepted is run or replaced, also while the queue is closed and drained,
\* unless a handler that was still running made the process panic.
AcceptedSettles ==
  \A m \in Msgs : m \in accepted ~>
    (m \in ran \/ (\E r \in replaced : r[1] = m) \/ phase = "panicked")

=============================================================================
