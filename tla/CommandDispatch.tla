-------------------------- MODULE CommandDispatch --------------------------
(***************************************************************************)
(* Remote commands for one machine: the append of the ledger row, the      *)
(* transport attempts in machine_command_attempts, the asynchronous MQTT   *)
(* publishers of the API replicas, the deadline sweep, the operator and    *)
(* the device's receipts.                                                  *)
(*                                                                         *)
(* A statement or a transaction is one step, except where one is read and  *)
(* decided upon before it is written: a dispatch call reads the latest     *)
(* attempt, counts, inserts and enqueues in four steps, a publisher checks *)
(* the row, publishes and marks in three, and the receipt transaction,     *)
(* which locks the machine row but no attempt, reads in one step and       *)
(* commits in another.  Deadlines are the two facts the SQL tests: the     *)
(* ledger's timeout_at has passed, an attempt's ack_deadline_at has        *)
(* passed; clocks of different processes differ, so in any order.          *)
(***************************************************************************)
EXTENDS Integers, Sequences, FiniteSets, SequencesExt

CONSTANTS Commands,     \* commands, named by their idempotency key
          Callers,      \* concurrent dispatch calls (HTTP handlers, rollouts)
          Replicas,     \* API processes, each with one publisher and one queue
          Home,         \* the replica a call runs in
          MaxAttempts,  \* command_ledger.max_dispatch_attempts
          PublishMaxAttempts, \* tries of one publisher run, the first included
          QueueCap,     \* capacity of publishQueue
          Keys,         \* dedupe keys the device uses for its receipts
          Reports,      \* normalised receipt statuses the device sends
          MaxCalls,     \* bound: dispatch calls
          MaxFaults,    \* bound: crashes and failed statements
          MaxAdminOps   \* bound: operator interventions

ASSUME SetsAssumption == /\ IsFiniteSet(Callers) /\ IsFiniteSet(Replicas)
                         /\ \A u \in Callers : Home[u] \in Replicas
                         /\ Reports \subseteq {"acked", "nacked", "failed", "timeout"}
ASSUME CommandLimits == /\ MaxAttempts \in Nat \ {0} /\ QueueCap \in Nat \ {0}
                        /\ PublishMaxAttempts \in Nat \ {0}
                        /\ MaxCalls \in Nat /\ MaxFaults \in Nat /\ MaxAdminOps \in Nat

VARIABLES
  machine,    \* machines.status: "active", "online" or "maintenance"
  ledger,     \* commands with a command_ledger row
  ledgerDue,  \* commands whose timeout_at has passed
  attempts,   \* per command the statuses of its attempts, by attempt_no;
              \* "failed" is split by timeout_reason into "failed" (the device),
              \* "publish_failed" (mqtt_publish) and "cancelled" (admin_cancelled)
  ackDue,     \* attempts <<c, n>> whose ack_deadline_at has passed
  receipts,   \* device_command_receipts: [key, cmd, no, status]
  queue,      \* publishQueue of a replica
  inflight,   \* publishInFlight of a replica
  work,       \* the job a publisher executes and where it is
  call,       \* a dispatch call and where it is
  tx,         \* the receipt transaction holding the machine's row lock
  offered,    \* commands the machine may have got, by MQTT or by HTTP poll
  published,  \* per attempt the number of publishes the broker has taken
  calls, faults, adminOps

db == <<machine, ledger, ledgerDue, attempts, ackDue, receipts>>
publisher == <<queue, inflight, work>>
device == <<offered, published>>
budget == <<calls, faults, adminOps>>
vars == <<db, publisher, call, tx, device, budget>>

Open == {"pending", "sent"}
Final == {"completed", "nack", "failed", "publish_failed", "cancelled", "ack_timeout", "expired"}
Idle == [at |-> "idle"]
NoJob == [at |-> "idle"]
Jobs == Commands \X (1..(MaxAttempts + Cardinality(Callers)))
WorkStates == {NoJob} \cup [at : {"publish"}, job : Jobs, tries : 0..(PublishMaxAttempts - 1)]
                \cup [at : {"sent", "failed"}, job : Jobs, tries : 1..PublishMaxAttempts]
Messages == [key : Keys, cmd : Commands, status : Reports]

TypeOK ==
  /\ machine \in {"active", "online", "maintenance"}
  /\ ledger \subseteq Commands /\ ledgerDue \subseteq ledger
  /\ attempts \in [Commands -> Seq(Open \cup Final)]
  /\ ackDue \subseteq Jobs
  /\ receipts \subseteq [key : Keys, cmd : Commands, no : Nat, status : Reports]
  /\ queue \in [Replicas -> Seq(Jobs)]
  /\ inflight \in [Replicas -> SUBSET Jobs]
  /\ work \in [Replicas -> WorkStates]
  /\ call \in [Callers -> {Idle} \cup [at : {"append", "latest", "count", "insert", "enqueue"},
                                       cmd : Commands, replay : BOOLEAN, no : Nat]]
  /\ tx \in {Idle} \cup [at : {"commit"}, msg : Messages, no : Nat]
  /\ offered \subseteq Commands
  /\ published \in [Jobs -> Nat]
  /\ calls \in 0..MaxCalls /\ faults \in 0..MaxFaults /\ adminOps \in 0..MaxAdminOps

Init ==
  /\ machine = "active"
  /\ ledger = {} /\ ledgerDue = {}
  /\ attempts = [c \in Commands |-> <<>>]
  /\ ackDue = {} /\ receipts = {}
  /\ queue = [r \in Replicas |-> <<>>]
  /\ inflight = [r \in Replicas |-> {}]
  /\ work = [r \in Replicas |-> NoJob]
  /\ call = [u \in Callers |-> Idle]
  /\ tx = Idle
  /\ offered = {}
  /\ published = [j \in Jobs |-> 0]
  /\ calls = 0 /\ faults = 0 /\ adminOps = 0

Status(j) == attempts[j[1]][j[2]]
Latest(c) == IF attempts[c] = <<>> THEN "none" ELSE Last(attempts[c])
\* An attempt guarded by its current status, as every UPDATE of it is.
Moved(j, from, to) ==
  IF Status(j) \in from THEN [attempts EXCEPT ![j[1]][j[2]] = to] ELSE attempts

-----------------------------------------------------------------------------
(* The deadline sweep and the clock. *)

\* ApplyMQTTCommandAckTimeouts: the ledger's timeout first, then the deadline of each attempt.
Swept ==
  [c \in Commands |-> [n \in DOMAIN attempts[c] |->
     IF attempts[c][n] # "sent" THEN attempts[c][n]
     ELSE IF c \in ledgerDue THEN "expired"
     ELSE IF <<c, n>> \in ackDue THEN "ack_timeout" ELSE "sent"]]

ApplyMQTTCommandAckTimeouts ==
  /\ attempts' = Swept
  /\ UNCHANGED <<machine, ledger, ledgerDue, ackDue, receipts, publisher, call, tx, device, budget>>

LedgerTimeoutPasses(c) ==
  /\ attempts[c] # <<>> /\ c \notin ledgerDue
  /\ ledgerDue' = ledgerDue \cup {c}
  /\ UNCHANGED <<machine, ledger, attempts, ackDue, receipts, publisher, call, tx, device, budget>>

AckDeadlinePasses(c, n) ==
  /\ attempts[c][n] = "sent" /\ <<c, n>> \notin ackDue
  /\ ackDue' = ackDue \cup {<<c, n>>}
  /\ UNCHANGED <<machine, ledger, ledgerDue, attempts, receipts, publisher, call, tx, device, budget>>

-----------------------------------------------------------------------------
(* A dispatch call. *)

Goto(u, at) == call' = [call EXCEPT ![u].at = at]
Return(u) == call' = [call EXCEPT ![u] = Idle]

\* ensureMachineCommandable, then the sweep.
BeginDispatch(u, c) ==
  /\ call[u] = Idle /\ calls < MaxCalls
  /\ machine = "active"
  /\ attempts' = Swept
  /\ call' = [call EXCEPT ![u] = [at |-> "append", cmd |-> c, replay |-> FALSE, no |-> 0]]
  /\ calls' = calls + 1
  /\ UNCHANGED <<machine, ledger, ledgerDue, ackDue, receipts, publisher, tx, device, faults, adminOps>>

\* An operator's retry is a dispatch with the command's own key, refused for
\* a command whose latest attempt the device has answered.
AdminRetryLedgerCommand(u, c) ==
  /\ c \in ledger
  /\ Latest(c) \notin {"completed", "nack"}
  /\ BeginDispatch(u, c)

\* The ledger row is found by its key or inserted, under the machine's row lock.
AppendCommandUpdateShadow(u) ==
  /\ call[u].at = "append"
  /\ tx = Idle
  /\ ledger' = ledger \cup {call[u].cmd}
  /\ call' = [call EXCEPT ![u].at = "latest", ![u].replay = call[u].cmd \in ledger]
  /\ UNCHANGED <<machine, ledgerDue, attempts, ackDue, receipts, publisher, tx, device, budget>>

\* What a dispatch does on the latest attempt it has read.
Decision(c, replay) ==
  CASE Latest(c) = "none" -> "count"
    [] Latest(c) = "pending" -> "enqueue"
    [] Latest(c) = "sent" -> IF <<c, Len(attempts[c])>> \in ackDue THEN "count" ELSE "skip"
    [] Latest(c) \in {"ack_timeout", "expired", "publish_failed"} ->
         IF replay THEN "count" ELSE "skip"
    [] Latest(c) \in {"completed", "nack", "failed", "cancelled"} -> "skip"

GetLatestAttempt(u) ==
  /\ call[u].at = "latest"
  /\ LET c == call[u].cmd
         d == Decision(c, call[u].replay)
     IN IF d = "skip" THEN Return(u)
        ELSE call' = [call EXCEPT ![u].at = d, ![u].no = Len(attempts[c])]
  /\ UNCHANGED <<db, publisher, tx, device, budget>>

\* Mutation: the ceiling is compared with > instead of >=.
CountAttemptsOffByOne(u) ==
  /\ call[u].at = "count"
  /\ IF Len(attempts[call[u].cmd]) > MaxAttempts THEN Return(u) ELSE Goto(u, "insert")
  /\ UNCHANGED <<db, publisher, tx, device, budget>>

CountAttempts(u) ==
  /\ call[u].at = "count"
  /\ IF Len(attempts[call[u].cmd]) >= MaxAttempts THEN Return(u) ELSE Goto(u, "insert")
  /\ UNCHANGED <<db, publisher, tx, device, budget>>

\* attempt_no is the maximum plus one at the insert, and timeout_at moves on.
InsertAttempt(u) ==
  /\ call[u].at = "insert"
  /\ LET c == call[u].cmd
     IN /\ attempts' = [attempts EXCEPT ![c] = Append(@, "pending")]
        /\ ledgerDue' = ledgerDue \ {c}
        /\ call' = [call EXCEPT ![u].at = "enqueue", ![u].no = Len(attempts[c]) + 1]
  /\ UNCHANGED <<machine, ledger, ackDue, receipts, publisher, tx, device, budget>>

\* Mutation: the in-flight slot is kept when the queue is full.
EnqueueKeepsSlot(r, j) ==
  IF j \in inflight[r] THEN UNCHANGED <<queue, inflight>>
  ELSE /\ queue' = IF Len(queue[r]) < QueueCap THEN [queue EXCEPT ![r] = Append(@, j)] ELSE queue
       /\ inflight' = [inflight EXCEPT ![r] = @ \cup {j}]

\* A full queue drops the job and gives the in-flight slot back.
Enqueue(r, j) ==
  IF j \in inflight[r] \/ Len(queue[r]) >= QueueCap THEN UNCHANGED <<queue, inflight>>
  ELSE /\ queue' = [queue EXCEPT ![r] = Append(@, j)]
       /\ inflight' = [inflight EXCEPT ![r] = @ \cup {j}]

EnqueueMQTTPublish(u) ==
  /\ call[u].at = "enqueue"
  /\ Enqueue(Home[u], <<call[u].cmd, call[u].no>>)
  /\ Return(u)
  /\ UNCHANGED <<db, work, tx, device, budget>>

\* A statement of the call fails, or loses the race for attempt_no.
CallFails(u) ==
  /\ call[u] # Idle /\ faults < MaxFaults
  /\ faults' = faults + 1
  /\ Return(u)
  /\ UNCHANGED <<db, publisher, tx, device, calls, adminOps>>

-----------------------------------------------------------------------------
(* The publisher of a replica. *)

Release(r) == /\ inflight' = [inflight EXCEPT ![r] = @ \ {work[r].job}]
              /\ work' = [work EXCEPT ![r] = NoJob]

\* Mutation: a queued job is published whatever became of its attempt.
TakeJobUnchecked(r) ==
  /\ work[r] = NoJob /\ queue[r] # <<>>
  /\ queue' = [queue EXCEPT ![r] = Tail(@)]
  /\ work' = [work EXCEPT ![r] = [at |-> "publish", job |-> Head(queue[r]), tries |-> 0]]
  /\ UNCHANGED <<inflight, db, call, tx, device, budget>>

\* IsMQTTDispatchAttemptPending: a job whose attempt is no longer pending is dropped.
TakeJob(r) ==
  /\ work[r] = NoJob /\ queue[r] # <<>>
  /\ queue' = [queue EXCEPT ![r] = Tail(@)]
  /\ LET j == Head(queue[r])
     IN IF Status(j) = "pending"
        THEN work' = [work EXCEPT ![r] = [at |-> "publish", job |-> j, tries |-> 0]] /\ UNCHANGED inflight
        ELSE inflight' = [inflight EXCEPT ![r] = @ \ {j}] /\ UNCHANGED work
  /\ UNCHANGED <<db, call, tx, device, budget>>

Delivered(j) == /\ offered' = offered \cup {j[1]}
                /\ published' = [published EXCEPT ![j] = @ + 1]

\* One try more of the loop, and where it leads.
AfterTry(r, at) ==
  work' = [work EXCEPT ![r] = [at |-> at, job |-> work[r].job, tries |-> work[r].tries + 1]]

\* A try that the broker acknowledged ends the loop.
PublishDeviceDispatch(r) ==
  /\ work[r].at = "publish"
  /\ AfterTry(r, "sent")
  /\ Delivered(work[r].job)
  /\ UNCHANGED <<db, queue, inflight, call, tx, budget>>

\* A try that timed out or lost its connection, whether or not the broker took
\* it, is repeated until the tries are used up.
PublishFails(r) ==
  /\ work[r].at = "publish"
  /\ AfterTry(r, IF work[r].tries + 1 < PublishMaxAttempts THEN "publish" ELSE "failed")
  /\ Delivered(work[r].job) \/ UNCHANGED device
  /\ UNCHANGED <<db, queue, inflight, call, tx, budget>>

MarkSent(r) ==
  /\ work[r].at = "sent"
  /\ attempts' = Moved(work[r].job, {"pending"}, "sent")
  /\ Release(r)
  /\ UNCHANGED <<machine, ledger, ledgerDue, ackDue, receipts, queue, call, tx, device, budget>>

MarkPublishFailed(r) ==
  /\ work[r].at = "failed"
  /\ attempts' = Moved(work[r].job, {"pending"}, "publish_failed")
  /\ Release(r)
  /\ UNCHANGED <<machine, ledger, ledgerDue, ackDue, receipts, queue, call, tx, device, budget>>

\* The mark is lost (its error is ignored): the row stays pending.
MarkLost(r) ==
  /\ work[r].at \in {"sent", "failed"} /\ faults < MaxFaults
  /\ faults' = faults + 1
  /\ Release(r)
  /\ UNCHANGED <<db, queue, call, tx, device, calls, adminOps>>

\* Mutation: only jobs of the replica's own queue are ever looked at again.
ReclaimNothing(r, c, n) == FALSE /\ UNCHANGED vars

\* reclaimStalePendingMQTT: any replica takes up an attempt left pending.
ReclaimStalePending(r, c, n) ==
  /\ attempts[c][n] = "pending"
  /\ Enqueue(r, <<c, n>>)
  /\ UNCHANGED <<db, work, call, tx, device, budget>>

\* The process dies: queue, in-flight set and calls in progress are gone.
Crash(r) ==
  /\ faults < MaxFaults
  /\ faults' = faults + 1
  /\ queue' = [queue EXCEPT ![r] = <<>>]
  /\ inflight' = [inflight EXCEPT ![r] = {}]
  /\ work' = [work EXCEPT ![r] = NoJob]
  /\ call' = [u \in Callers |-> IF Home[u] = r THEN Idle ELSE call[u]]
  /\ UNCHANGED <<db, tx, device, calls, adminOps>>

-----------------------------------------------------------------------------
(* The device and the receipt transaction. *)

\* PollRemoteCommands: the commands whose latest attempt is open.
PollRemoteCommands ==
  /\ offered' = offered \cup {c \in Commands : Latest(c) \in Open}
  /\ UNCHANGED <<db, publisher, call, tx, published, budget>>

\* TouchMachineConnectivity
Touched == IF machine = "active" THEN "online" ELSE machine

\* The open attempt with the highest number, else the latest one.
ReceiptTarget(c) ==
  LET open == {n \in DOMAIN attempts[c] : attempts[c][n] \in Open}
  IN IF open = {} THEN Len(attempts[c]) ELSE CHOOSE n \in open : \A o \in open : o <= n

\* Mutation: a final attempt takes further receipts.
AcceptsAgain(m, n) ==
  /\ \A r \in receipts : r.key # m.key
  /\ m.status = "acked" => m.cmd \notin ledgerDue /\ attempts[m.cmd][n] \notin {"expired", "ack_timeout"}

\* What the transaction does not reject, replay or ignore as a conflict.
Accepts(m, n) ==
  /\ \A r \in receipts : r.key # m.key
  /\ m.status = "acked" =>
       /\ m.cmd \notin ledgerDue
       /\ ~(attempts[m.cmd][n] = "sent" /\ <<m.cmd, n>> \in ackDue)
       /\ attempts[m.cmd][n] \notin {"expired", "ack_timeout"}
  /\ attempts[m.cmd][n] \in Final => \A r \in receipts : r.cmd # m.cmd

\* ApplyCommandReceiptTransition up to its first write.  The machine reports on
\* any command it got, as often and with whatever outcomes it likes, and the
\* transport delays, reorders and repeats: any receipt may arrive at any time.
ReadReceipt(m) ==
  /\ tx = Idle /\ m.cmd \in offered
  /\ LET n == ReceiptTarget(m.cmd)
     IN /\ Accepts(m, n)
        /\ tx' = [at |-> "commit", msg |-> m, no |-> n]
  /\ UNCHANGED <<db, publisher, call, device, budget>>

\* Mutation: the receipt's own status is stored in the attempt.
ReceiptStatusUnmapped(s) == s

\* mapDeviceReceiptToAttemptStatus
AttemptStatus(s) == CASE s = "acked" -> "completed" [] s = "nacked" -> "nack"
                      [] s = "failed" -> "failed"   [] s = "timeout" -> "ack_timeout"

\* The receipt, the guarded UPDATE of the attempt and the connectivity touch commit together.
CommitReceipt ==
  /\ tx # Idle
  /\ receipts' = receipts \cup {[key |-> tx.msg.key, cmd |-> tx.msg.cmd, no |-> tx.no,
                                 status |-> tx.msg.status]}
  /\ attempts' = Moved(<<tx.msg.cmd, tx.no>>, Open, AttemptStatus(tx.msg.status))
  /\ machine' = Touched
  /\ tx' = Idle
  /\ UNCHANGED <<ledger, ledgerDue, ackDue, publisher, call, device, budget>>

RollBackReceipt ==
  /\ tx # Idle /\ faults < MaxFaults
  /\ faults' = faults + 1
  /\ tx' = Idle
  /\ UNCHANGED <<db, publisher, call, device, calls, adminOps>>

\* IngestTelemetry and the shadow reports: any message of the machine touches it.
IngestTelemetry ==
  /\ tx = Idle
  /\ machine' = Touched
  /\ UNCHANGED <<ledger, ledgerDue, attempts, ackDue, receipts, publisher, call, tx, device, budget>>

-----------------------------------------------------------------------------
(* The operator. *)

CancelCommand(c) ==
  /\ c \in ledger /\ adminOps < MaxAdminOps
  /\ adminOps' = adminOps + 1
  /\ attempts' = [attempts EXCEPT ![c] =
                    [n \in DOMAIN @ |-> IF @[n] \in Open THEN "cancelled" ELSE @[n]]]
  /\ UNCHANGED <<machine, ledger, ledgerDue, ackDue, receipts, publisher, call, tx, device, calls, faults>>

SetMachineStatus(s) ==
  /\ tx = Idle /\ machine # s /\ adminOps < MaxAdminOps
  /\ adminOps' = adminOps + 1
  /\ machine' = s
  /\ UNCHANGED <<ledger, ledgerDue, attempts, ackDue, receipts, publisher, call, tx, device, calls, faults>>

-----------------------------------------------------------------------------
Caller(u) == \/ \E c \in Commands : BeginDispatch(u, c) \/ AdminRetryLedgerCommand(u, c)
             \/ AppendCommandUpdateShadow(u) \/ GetLatestAttempt(u) \/ CountAttempts(u)
             \/ InsertAttempt(u) \/ EnqueueMQTTPublish(u) \/ CallFails(u)

Publisher(r) == \/ TakeJob(r) \/ PublishDeviceDispatch(r) \/ PublishFails(r)
                \/ MarkSent(r) \/ MarkPublishFailed(r)

Reclaim(r) == \E c \in Commands : \E n \in DOMAIN attempts[c] : ReclaimStalePending(r, c, n)

Clock == \E c \in Commands : \/ LedgerTimeoutPasses(c)
                             \/ \E n \in DOMAIN attempts[c] : AckDeadlinePasses(c, n)

Device == \/ PollRemoteCommands \/ IngestTelemetry
          \/ \E m \in Messages : ReadReceipt(m)
          \/ RollBackReceipt

Operator == \/ \E c \in Commands : CancelCommand(c)
            \/ \E s \in {"active", "maintenance"} : SetMachineStatus(s)

Next == \/ \E u \in Callers : Caller(u)
        \/ \E r \in Replicas : Publisher(r) \/ Reclaim(r) \/ MarkLost(r) \/ Crash(r)
        \/ Clock \/ ApplyMQTTCommandAckTimeouts
        \/ Device \/ CommitReceipt \/ Operator

Spec == Init /\ [][Next]_vars

\* Each publisher and each 750 ms reclaim tick keeps running, the sweep ticks
\* every 30 s in mqtt-ingest, time passes.  Callers, device and operator owe nothing.
FairSpec == /\ Spec
            /\ \A r \in Replicas : WF_vars(Publisher(r)) /\ WF_vars(Reclaim(r))
            /\ WF_vars(Clock) /\ WF_vars(ApplyMQTTCommandAckTimeouts) /\ WF_vars(CommitReceipt)

-----------------------------------------------------------------------------
(* Properties. *)

\* The in-flight set of a replica holds exactly the jobs of its queue and its
\* publisher, each once: a slot that leaks would keep the reclaim loop from
\* ever publishing that attempt again.
InFlightExact ==
  \A r \in Replicas :
    /\ IsInjective(queue[r])
    /\ inflight[r] = ToSet(queue[r]) \cup (IF work[r] = NoJob THEN {} ELSE {work[r].job})
    /\ work[r] # NoJob => work[r].job \notin ToSet(queue[r])

\* The attempt ceiling is checked in one statement and used in another, so
\* concurrent calls overshoot it, but by no more than one attempt each.
AttemptCeiling ==
  \A c \in Commands : Len(attempts[c]) < MaxAttempts + Cardinality(Callers)

\* The broker takes one attempt at most as often as one loop of tries per replica
\* allows, although every try that errs may have reached it, replicas reclaim
\* the same pending row and a call enqueues on an old read of it; only a crash
\* or a lost mark buys a publisher one more loop.
PublishBound ==
  \A j \in Jobs : published[j] <= PublishMaxAttempts * (Cardinality(Replicas) + faults)

\* The history a command's readers see: attempts only move forward and a final
\* status is never rewritten by a late publisher, sweep, cancel or receipt,
\* and each attempt has at most one receipt (CommandContract).
Contract == INSTANCE CommandContract WITH
              receipts <- {[cmd |-> r.cmd, no |-> r.no, status |-> r.status] : r \in receipts}
CommandHistory == Contract!CSpec

\* Every attempt is settled in the end, whichever replica crashed, whichever
\* mark was lost and however full the queue was.
AttemptsSettle ==
  \A c \in Commands, n \in 1..(MaxAttempts + Cardinality(Callers) - 1) :
    (n \in DOMAIN attempts[c]) ~> (n \in DOMAIN attempts[c] /\ attempts[c][n] \in Final)
=============================================================================
