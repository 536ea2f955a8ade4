# Verification of avf-vending-api

TLA+ models of the parts of the vending backend on which money, goods and
messages depend, TLC runs that check them on small instances, and TLAPS proofs
for every size. Paths are relative to the repository root (`src/`).

## 1. The system

The backend is a set of Go processes around one PostgreSQL database:

| process | role |
|---|---|
| `cmd/api` | HTTP for the admin UI and payment webhooks, gRPC for the machines |
| `cmd/worker` | outbox dispatch to NATS JetStream, timeout scans, retention |
| `cmd/reconciler` | periodic repair of payments and orders, reconciliation cases |
| `cmd/mqtt-ingest` | telemetry and command receipts from the machines |
| `cmd/temporal-worker` | optional long-running workflows |

Every process may run as several replicas. They interact through rows of the
database; row locks and conditional UPDATEs are the only reliable exclusion
(the Redis locks around ticks are optional and expire).

### Inventory

| component | state | operations | what is hard | what makes it correct |
|---|---|---|---|---|
| Outbox dispatch | `outbox_events`, the stream, a worker's plan | insert, lease, publish, mark, record failure, dead-letter copy, operator replay / dead letter / requeue, retention | crash between publish and mark, leases that lapse under a slow holder, three redundant columns | at-least-once, nothing marked before it is stored, no stranded row, bounded retries |
| Order money | `orders.status`, `winning_payment_id`, `payments.state`, `payments.outcome`, provider events, refunds, cases | payment session, cash, cancel, unknown, promotion, claim, webhook, provider probe, refund | check-then-write without a transaction, webhooks late, duplicated and out of order, calls that die half way | money before goods, one owner per order, refunds only of captured money |
| Vending | `vend_sessions`, inventory events | vend start, success, failure | duplicate starts, reports by line or by slot, keys reused or rotated | a dispensed line is covered by a report that took stock; an order closes with its lines |
| Reconciler | none of its own; the rows above | promotion tick, provider probe, case-opening ticks | overlapping replicas, stale candidates | a captured payment is promoted eventually |
| Machine idempotency ledger | `machine_idempotency_keys` | begin, replay, succeed, fail, stale takeover | a commit whose bookkeeping fails, a context that dies before the mark, a reused key, a client told to change keys | one effect per key, answers tell the truth, a request is answered in the end |
| Command dispatch | `command_ledger`, `machine_command_attempts`, `device_command_receipts`, the publish queue and in-flight set of each replica | dispatch, retry, cancel, publish, mark, reclaim, sweep, receipt | a full queue, two replicas on one attempt, a crash between publish and mark, late, duplicate and conflicting receipts | a final attempt stays final, one receipt per attempt, no slot leaks, every attempt is settled |
| Offline replay | `machine_offline_events`, `machine_sync_cursors`, the machine's queue | push, abandon, dispatch, mark, advance | overlapping pushes, gaps, two streams that share the machine's numbers, half-done replays | no event vanishes, cursors never move back, every event is settled |
| Cash collections | `cash_collections`, the cash rows of `payments` | start, close, confirm cash | closes that race, a sum and a closing time taken at different instants, rows that change after they were counted | no cash is left out between two closes, none is expected again without a later write of its row, answers stay true; a cutoff that spans currencies is the hard part of the first |
| Telemetry ingest | the queue and compaction map of `mqtt-ingest`; the metrics stream, the consumers' memories, `device_telemetry_events`, `inventory_events`, `telemetry_rollups` | submit, compact, drop, run, drain; fetch, skip, project, acknowledge | a map beside a queue, handlers in any order, redelivery to another process, several statements per message | nothing accepted is lost, a critical event is merged once, nothing is acknowledged before it is stored |
| Pricing, forensic cash rows, inventory admin, fleet, operators, auth, layout, OTA, Temporal, catalog, media, reporting | their tables | administrative reads and writes | mostly sequential or data-heavy | not modelled (section 13) |

## 2. Modules and plan

| module | models | state |
|---|---|---|
| `OutboxContract` | what the outbox promises its producers | done |
| `Outbox`, `MCOutbox`, `OutboxProofs` | the outbox, its instances, its proofs | done |
| `OrderMoneyContract` | what the service promises about one order's money | done |
| `Commerce`, `MCCommerce`, `CommerceProofs` | one order, its instances, its proofs | done |
| `MachineLedger`, `MCMachineLedger`, `LedgerProofs` | the idempotency ledger around a handler with an effect, its instances, its proofs | done |
| `CommandContract` | what a reader of a command's history may rely on | done |
| `CommandDispatch`, `MCCommandDispatch`, `CommandProofs` | commands of one machine, publishers, receipts | done |
| `OfflineReplay`, `MCOfflineReplay`, `OfflineProofs` | the replay of queued events | done |
| `CashCollection`, `MCCashCollection`, `CashProofs` | collections of one machine and the payments they sum up | done |
| `TelemetryPipeline`, `MCTelemetryPipeline`, `PipelineProofs` | the bounded queue of `mqtt-ingest` | done |
| `MetricsProjection`, `MCMetricsProjection`, `ProjectionProofs` | the consumers of the metrics stream | done |
| `Rollout` | campaigns on top of command dispatch | planned |
| `Reconciliation` | the ticks that open cases and enqueue refund tickets | planned |
| `Checkout` | Commerce's vend success behind the ledger: what a retrying machine can cause end to end | planned, composes both |

Order of work: the outbox (every other component hands its messages to it), the
order's money, then the components those two rely on. Every invariant, action
property and refinement that a run checks is also a theorem (section 11). Worth
proving next: action properties of the models as they stand, such as that a counted
collection is never reopened and a stored row of the replay never changes its event,
and the theorems of the planned modules.

## 3. Outbox: model and code

State: one function or set per column of `outbox_events` that a query tests
(`status`, `published`, `dead`, `attempts`, `backoff`, `lease`, `aged`), the
broker (`stored`, `dlq`), and per replica the position in `OutboxDispatchTick`
(`pc`), the decisions left (`todo`), the row in hand (`cur`) and the counts the
lease returned (`seen`).

| action | code |
|---|---|
| `InsertOutboxEvent` | `InsertOutboxEvent*` in `db/queries/reliability.sql`, in the producer's transaction |
| `PlanOutboxRepublishBatch` | the service's plan, by `LeaseOutboxForPublish` or, without leases, `ListOutboxUnpublished` and `DecideOutboxReplay` |
| `PublishAcked`, `PublishFailed` | `JetStreamOutboxPublisher.Publish`; an error does not tell whether the broker stored the message |
| `MarkOutboxPublished` | `MarkOutboxEventPublished`: not conditional on the lease or on `dead_lettered_at` |
| `RecordOutboxPublishFailure`, `PublishOutboxDeadLettered` | the failure branch of the loop in `worker.go` |
| `AbortCycle` | a crash, the cycle's timeout, or an error return of the tick |
| `ReplayDeadLetter`, `MarkManualDLQ`, `RequeuePendingByID` | the operator's statements |
| `DeletePublished` | retention |
| `ReachMinAge`, `BackoffElapses`, `LeaseLapses` | the time conditions of the lease query |

A statement is one step. A lease may lapse at any time, because nothing relates
its TTL (45 s by default) to how long a publish takes. Message ids are distinct
per row, so the broker is a set; a republish outside JetStream's deduplication
window is a duplicate for consumers, which deduplicate themselves. The Redis lock
around the tick is not assumed: it is optional and the shutdown drain skips it.

`OutboxContract` has five sets and six steps: accept, store, settle (only what is
stored), park, unpark, forget (only what is settled). The mapping reads the
columns: accepted is "the row exists", settled is `published_at`, parked is
`dead_lettered_at`, forgotten is "deleted by retention".

## 4. Commerce: model and code

One order with its payment attempts, lines and refunds, and a set of calls in
flight. A call is a record of what it has read (`status`, `winner`, `was`, the
payment it resolved) and of where it is (`at`). Reads and writes that the code
does in different statements are different steps; a database transaction's
writes are one step. That is where the difficulty is: the UPDATEs of
`orders.status`, `payments.state` (webhook) and `vend_sessions.state` have no
condition on what they overwrite, so a write is right only if what the call read
is still true enough.

| actions | code |
|---|---|
| `CreateOrder` | `Store.CreateOrderWithVendSession` |
| `ReadOrder`, `Admits` | the first read of each handler and its status check |
| `CreatePaymentSession`, `InsertPayment`, `NextAttempt` | `CreateMachinePaymentSession`, `CreatePaymentWithOutbox`, `allocatePaymentAttemptSeq` |
| `StartPaymentWithOutbox` | the HTTP payment session: the caller names the payment's first state, the order's status is not looked at |
| `ConfirmCash` | `Service.ConfirmCashPayment` up to its claim, replay by key included |
| `CancelPaymentSession` | `CancelPaymentByID`, which is conditional |
| `CheckCancel`, `CancelOrder`, `MarkOrderUnknown` | `Service.CancelOrder`, `Service.MarkOrderUnknown` |
| `ResolveForMark`, `AttemptWinningPaymentClaim`, `RecordWin`, `RecordLoss`, `MarkOrderPaid` | `MarkOrderPaidAfterPaymentCapture` and `AttemptWinningPaymentClaim`, one step per statement |
| `ApplyReconciledPaymentTransition` | the reconciler's provider probe; its UPDATE is conditional |
| `ReceiveWebhook`, `RejectWebhook`, `ApplyPaymentProviderWebhook`, `WebhookUniqueViolation`, `ReplayWebhook` | `Store.ApplyPaymentProviderWebhook` and the handler's cases |
| `CheckVend`, `AdvanceVend`, `MarkOrderVending` | `Service.AdvanceVend` |
| `ConfirmVendSuccess`, `FulfillSuccessfulVendAtomically`, `TakeStock` | the gRPC and HTTP reports and the transaction, which locks order and vend rows and takes stock |
| `FulfillFailedVendAtomically` | the failure transaction |
| `CheckRefund`, `CreateRefund` | `Service.CreateRefund` |
| `CallEnds` | an error, a cancelled context, a dead process |

Details a reader may stumble on:

- Two resolutions of "the payment of this order" exist and differ:
  `resolveAuthoritativePayment` takes the oldest settled payment,
  `resolveAuthoritativePaymentRow` (vend success) the newest.
- After a lost claim `MarkOrderPaidAfterPaymentCapture` goes on to its
  unconditional UPDATE. The model does the same.
- A late capture that cannot claim a closed order opens a case of type
  `late_capture_order_promotion_failed`. The table's CHECK does not list that type,
  so the transaction aborts although the error is ignored; the model has no such
  write, and `CallEnds` stands for the abort.
- `Arbitration` is COMMERCE_WINNER_ARBITRATION_ENABLED, off by default in
  production (`docs/runbooks/financial-correctness-rollout.md`). The run `vend`
  has it off; the theorems hold for both values.
- A start, success or failure names a line by its `line_sequence`, or, without one, a
  slot. HTTP knows slots only. A request by slot reads *one* row of the slot,
  decides on it, and writes *all* lines of the slot, whatever state they are in
  (`Addresses`, `Written`); a success takes one item from the stock. The model has
  both variants for all three operations.
- The key of a stock movement is the client's write key and a suffix. It does not
  contain the line, and is looked up over the whole machine (`Spent`): a key used for
  a second line, or by another order (`SpentKeys`), closes the line and takes
  nothing. `Reports` is any set of pairs of a key and the lines addressed.
- No code writes the order status `quoted` or the outcome `refunded`; both are
  left out.

Merged reads: the webhook transaction's reads of event, payment and order are one
step, so are the vend and payment reads of `AdvanceVend`, and the checks of
`CreateRefund`. Left out of the transactions: timeline, ledger, evidence and outbox
inserts, the verification status of a vend with the case it may open, and the
checks on amounts, currency and provider, which only refuse. Payments all have
the order's total. One provider event per payment and reported state.

`OrderMoneyContract` has four facts (captured, owner, released lines, movements of
stock) and four steps: capture; own, once, a captured payment; release lines of a slot
after a capture; move stock, once per key, from the slot of a released line. It does
not promise one movement per line, because the code does not (section 10).

## 5. Machine idempotency ledger: model and code

`internal/app/machineidempotency` wraps every mutating machine RPC. A key of the
model is the row's unique key: machine, canonical operation and idempotency key.

| actions | code |
|---|---|
| `Request`, `StrayRequest` | the machine's (re)transmissions; a stray uses a key for another payload |
| `BeginMutation` = `Claim`, `Replay`, `Mismatch`, `Busy` or `Refuse` | `Ledger.BeginMutation` and the upsert of `machine_idempotency.sql` |
| `HandlerSucceeds`, `HandlerRejects`, `HandlerUnavailable`, `HandlerTimesOut` | the four classes of outcome the interceptor tells apart |
| `MarkSucceeded`, `MarkFailed`, `FinalizeFails` | the two marks, and what the interceptor does when one fails |
| `ContextDies`, `MarkAbandoned` | the marks run with the RPC's context: once it is dead they do nothing |
| `Crash`, `IdleWindowPasses` | a dead process; `last_seen_at` falls behind the cutoff |

`BeginMutation` is one step because the upsert is: it inserts the row or returns
the existing one, locked. What follows is decided on that row (the conflict mark of
`Mismatch`, a statement of its own, is merged with it). The upsert sets
`last_seen_at = now()` *before* the stale test reads it, so that the test never
finds a stale row: `SeenAfterUpsert` is "fresh". That one line has two
consequences. No handler is ever started beside another one under
the same key, which is why `AtMostOnce` holds without exception; and a row left
in progress by a crash is never reclaimed (lemma `NothingReclaimable` of
`LedgerProofs`).

## 6. Command dispatch: model and code

| actions | code |
|---|---|
| `BeginDispatch`, `AppendCommandUpdateShadow`, `GetLatestAttempt`, `CountAttempts`, `InsertAttempt`, `EnqueueMQTTPublish` | `DispatchRemoteMQTTCommand` (`internal/app/device/mqtt_dispatch.go`), one step per statement |
| `AdminRetryLedgerCommand`, `CancelCommand`, `SetMachineStatus` | the operator |
| `TakeJob`, `PublishDeviceDispatch`, `PublishFails`, `MarkSent`, `MarkPublishFailed` | the publish worker (`mqtt_dispatch_async.go`) |
| `MarkLost`, `Crash`, `CallFails` | ignored errors of the marks, a dead replica, a failed call |
| `ReclaimStalePending` | the 750 ms reclaim loop, in every replica |
| `ApplyMQTTCommandAckTimeouts`, `LedgerTimeoutPasses`, `AckDeadlinePasses` | the sweep and the two deadlines it tests; its two UPDATEs are one step |
| `PollRemoteCommands` | the HTTP poll |
| `ReadReceipt`, `CommitReceipt`, `RollBackReceipt` | `ApplyCommandReceiptTransition`: reads without a lock on the attempt, then writes |
| `IngestTelemetry` | the connectivity touch of every message |

The device is not trusted: it may report any outcome of any command it may have
got, under any key, at any time. A receipt transaction holds the machine's row
lock (`tx`), so there is one at a time; the sweep, the publisher and the operator
do not take that lock and may change the attempt between its read and its write.
The `failed` status is split by `timeout_reason`, because the retry decision is.

A publisher tries a job up to `publishMaxAttempts` times (3 by default). Each try is a
step and a QoS 1 publish: `PublishDeviceDispatch` was acknowledged, `PublishFails`
was not and may have reached the broker all the same. Only the last failed try is
marked. The comment at `mqtt_dispatch.go:98` counts on devices that deduplicate.

`CommandContract` is what a reader of the history relies on: attempts are only
appended, each moves forward to one final status, an attempt has at most one
receipt, and a receipt that closes an attempt agrees with the status it gives it.

## 7. Offline replay: model and code

`slot` is `machine_offline_events` by sequence number (the table's unique key has
no stream), `cursor` is `machine_sync_cursors` by stream. A push is a record of the
events still to do, the cursor it read and the results so far; each statement and
each domain dispatch of `machine_contract_grpc.go` is a step.

| actions | code |
|---|---|
| `Enqueue`, `PushOfflineEvents`, `Reply` | the machine: numbers per stream, batches in order, what it does with each answer |
| `ApplyAbandoned` | `applyAbandonedOfflineSequences` |
| `StaleOccupied`, `StaleReplayed`, `OutOfOrder`, `LookUp` | the decisions before the insert |
| `InsertNew`, `InsertOccupied`, `InsertDuplicateId` | the insert and its two unique violations |
| `DispatchOfflineEvent`, `DispatchUnavailable`, `DispatchRejected`, `MarkProcessed` | the handler and the status written after it |
| `AdvanceCursor` | `shouldAdvanceOfflineStreamCursor` and the upsert |
| `StatementFails`, `PushLost` | failed statements, a dead process, a lost reply |

The machine's part (external to `src/`) follows the client contract in
`docs/api/device-offline-replay-samples.md` and the answers' codes. Handlers are
idempotent per event (module `MachineLedger` and the tables' own keys), so
`applied` is a set.

What the server takes for done is less than what is. A cash report counts as recorded
if its forensic row exists, if its key has no device id or names a recycler
observation (`Traced` are the others), or if the lookup fails (`CashMissing`, a fault);
`machine_contract_grpc.go:562` then answers REPLAYED when the number belongs to another
event, dispatched or not. `Canonical` are the events whose payload comes back from
`jsonb` as protojson wrote it: only those match their stored text, the others are
dispatched again. A push that carries given-up events only goes by the request's
unqualified stream name (`BaseStream`), and so reads and raises that stream's cursor.

Left out: batches that mix streams, the rejection of
implausible clocks, a payload that changes under one event id, `GetEventStatus`
(a read).

## 8. Cash collections: model and code

An operator opens a collection, counts the vault and closes it. The close stores
what commerce expects since the previous close: the captured cash payments whose
`updated_at` is after the last `closed_at`.

| actions | code |
|---|---|
| `ConfirmBegin`, `InsertCaptured`, `OutcomeBegin`, `UpdatePaymentOutcome`, `ConfirmEnds` | `ConfirmCashPayment` as far as it writes the payment row: the insert, then the outcome after the claim, each in its own transaction |
| `StartMachineCashCollection` | the start, in any spelling of a currency, one step: it holds the machine's row lock from its test to its insert |
| `CloseBegin`, `CashSettlementNetExpected`, `CloseCashCollection`, `CloseDies` | `CloseMachineCashCollection`: begin and read, sum, conditional update with the reconciliation row |

Time. PostgreSQL's `now()` is the beginning of the transaction, while a row is seen
from its commit on. So a close has two instants, its beginning (which becomes
`closed_at`) and its sum, and a payment write has a beginning and a commit. The
clock of the model moves only at the instants of payment writes; what a close does
between two of them has the time of the first, since no payment can tell it apart.
`writes` and `window` record those instants. `Payload` gives each client the count it
closes with. An amount is the set of payments in it, so that "twice" and "never"
can be seen. Left out: variance and review status (computed from the amount, read by
no step), and the subtraction of completed refunds, because no code completes a refund.

Currency. A payment's is upper-cased when it is inserted; a collection's is what the
client sent, "USD" if nothing. A close must name it up to case (`Named`), and the sum
takes the payments whose currency is spelled exactly so. The cutoff, however, is the
last close in *any* currency: a collection in another currency, or in lower case, sums
nothing and moves the cutoff past cash that no later close will count.

`NothingMissed` and `CountedPerWrite` state exactly what the query guarantees. Cash
that a close in its currency could see is missed only if a close passes over a write of
its row (`PassesOver`): the write began before the close and either was committed after
its sum or is in another currency than the collection. It is counted again for every
later write of its row, and for a write that falls between a close's beginning and its
sum.

## 9. Telemetry: model and code

`TelemetryPipeline` is `BoundedDeviceIngest` between the MQTT client and the bridge.

| actions | code |
|---|---|
| `Deliver`, `Refused`, `IngestCriticalSync`, `Submit` | a handler of the client (one goroutine per message, `SetOrderMatters(false)`), the rate limit, the inline path of critical messages |
| `TryCompact`, `Send`, `QueueFull`, `Register` | `submit`, one step per lock or channel operation; `Register` runs after the send, when a worker may have taken the job |
| `Take`, `StoreStarted`, `Unregister`, `Run` | the worker loop |
| `Stop`, `Close` | shutdown: the client disconnects and does not wait for its handlers; a send on the closed channel panics |

A message is its number in the order of delivery. `replaced` is a history of
compactions. The bridge's own errors are logged and change nothing, so `Run` is a
success or a failure alike.

`MetricsProjection` is the durable consumer of the metrics stream in any number of
worker processes.

| actions | code |
|---|---|
| `Fetch`, `AckWaitLapses`, `Ack`, `Nak` | the broker (external): delivery, redelivery at any time, at most `MaxDeliver` times |
| `Begin`, `MetricsDedupeAction`, `Finish`, `HandlerFails` | `pullLoop`: skip, handle, remember, acknowledge |
| `AppendDeviceTelemetryEdgeEvent`, `CountInventoryEvents`, `InsertInventoryEvent`, `MergeTelemetryRollupMinute` | the handlers, one step per statement |
| `Crash` | a process that starts again with an empty memory |

AckWait (30 s) and the time a batch takes are unrelated, so that a redelivery may
overtake its first handler. Rows are named by the message's idempotency key: the
bridge gives every critical event one, and a device may publish an event again. That a
key is used for one type only is the device's contract: its own `dedupe_key` is used as
it is (`critical_idempotency.go:31`), and the guards are keyed by it alone. The
status row that follows the edge event is merged with it; its failure is
`HandlerFails`. Malformed messages are terminated and not modelled, health snapshots
are one idempotent merge, and the other streams' handlers are single upserts.

## 10. Runs

Callers, receipt keys, pushes, closing clients, processes and samples are symmetric
(`SYMMETRY`), except in the runs with a liveness property. `CHECK_DEADLOCK FALSE`
everywhere: an order whose keys and attempts are used up, an outbox whose rows are
all settled, an answered machine and an empty queue may rest.

| run | instance | checks |
|---|---|---|
| `outbox` | 1 row with a ceiling of 2, 2 replicas, 2 crashes, 3 operator actions; 32 k states | `TypeOK`, `PublishedWasStored`, `ColumnsAgree`, `CeilingOvershoot`, `ImplementsContract`, `EventuallySettled` |
| `order` | 2 payments, 2 lines of one slot, 2 calls, both front ends: session and its cancel, cash, captured webhooks, promotion, vend start and success by slot, cancel; 1.4 M states | `MoneyFirst`, `PaidHasWinner`, `OwnedByCapture`, `ImplementsMoneyContract` |
| `vend` | 3 lines in 2 slots, 5 reports by line and by slot under 4 keys, one used twice and one spent by another order, authorized and captured webhooks, failures, 2 calls, arbitration off; 2.2 M states | `DispensedMeansMoved` |
| `live` | 2 payments, 2 calls: session and its cancel, cancel, unknown, probe, promotion and 3 refund requests, one of half the amount and two of all of it, no webhooks; 75 k states | `TypeOK`, `RefundOvershoot`, `CapturedIsPromoted` |
| `command_dispatch` | 1 command, 2 dispatch calls at a time (3 in all), ceiling 1, queue of 1, 1 try, 2 receipt keys, acked and nacked, 1 operator action; 2.7 M states | `TypeOK`, `InFlightExact`, `AttemptCeiling`, `CommandHistory` |
| `command_replicas` | 2 replicas, 3 tries per job, 2 calls one after the other, ceiling 1, 1 fault; 143 k states | `PublishBound`, `AttemptsSettle` |
| `ledger_calls` | a key and its replacement, 2 payloads, 3 calls, 2 strays, 2 faults; 76 k states | `TypeOK`, `AtMostOnce`, `OkIsCommitted`, `TwiceOnlyAfterFault`, `AnsweredWithoutFaults` |
| `offline_replay` | 3 events in 2 streams, 2 pushes, numbers up to 3, replicas of both settings, a cash report that can be looked up, 1 fault; 2.8 M states | `DoneIsApplied`, `CursorMonotone` |
| `offline_live` | as above with 1 push, numbers up to 5, gap tolerance, a cash report without a forensic row, 2 faults; 128 k states | `TypeOK`, `EventsSettle` |
| `cash` | 1 payment confirmed twice, 2 collections, the first in "VND" or "vnd", 2 clients with different counts, 1 fault; 4.9 M states | `TypeOK`, `NothingMissed`, `CountedPerWrite`, `AnswerIsStored` |
| `pipeline` | 2 handlers, 2 workers, queue of 2, 4 messages of all kinds, both settings of `DropOnBackpressure`; 111 k states | `TypeOK`, `NothingLost`, `AcceptedSettles` |
| `projection` | 2 processes, a critical event published twice and an inventory event, 2 samples, 3 deliveries, memory of 1, 2 faults; 2.4 M states | `TypeOK`, `CriticalOnce`, `AckedIsStored`, `InventoryBound` |

Why these bounds: every race in the code is between two calls or two replicas and one
object; a third adds no new pair of steps. One outbox row is enough for liveness because
no decision about a row depends on another one; that batches keep the safety properties
is proved for every size. The webhooks `refunded`, `partially_refunded` and `failed`,
`authorized` beside two payments, webhooks beside refunds, line and slot reports beside
two payments, and larger orders are likewise left to the proofs. Two payments are needed
for a contested order and two lines for a partly completed one; a third line gives a
slot of two beside a slot of one. The number of tries multiplies the states of a
publisher and changes nothing but the number of publishes, hence one try where those are
not counted. Two full refund requests checked at once reach the bound exactly, and a
third key would exceed it if the check let it through; one of half the amount lets a
request meet a payment that is refunded in part. A ceiling of two attempts is the
smallest the outbox policy accepts and lets a stale count matter; for commands, a
ceiling of one and two calls give the overshoot, and two attempts of one command give a
receipt a choice of target; attempts are published and swept one by one, so that one is
enough for their tries and their settling. A queue of one is full with one job. The
ledger needs three calls to have a retry and a stray beside a running handler. Three
events give a stream with a gap and a second stream that takes the first one's number;
five numbers leave room for every restamp. Payments do not influence each other's
counting, so one is enough, with two confirmations for a retry that follows a close; two
collections let it be counted, counted again or left out. Only the first one is
misspelt, because a close passes cash over only for a later one, and then without faults
(`OneOddity`). A queue of two with four messages is full, drained and has a job to
compact into while another one runs; two workers let a job finish before its handler has
registered it. Three deliveries give more rows than processes if the count before an
insert did not help; a memory of one entry gives its eviction. `MaxAborts`, `MaxFaults`,
`MaxStrays`, `MaxCalls` and `MaxAdminOps` bound crashes, faults, defects, calls and
operator actions; the proofs have no such limit on their values.

Fairness. Outbox: weak fairness of each replica's cycle (a ticker runs it every three
seconds) and of the clock; crashes and operator actions are not fair and are bounded.
Commerce: every call ends (weak fairness of `CallEnds`: deadlines), and strong fairness
of the promotion's four statements, because the reconciler's tick starts the promotion
again and again and not every attempt dies at the same place. This needs the reconciler
with its actions enabled. Nothing is assumed of webhooks, machines or customers; the
instance has no webhooks, so that what a partial refund reported before the promotion
does to it is not covered. Command dispatch: weak fairness of each publisher goroutine,
of each reclaim tick (750 ms), of the sweep (30 s, in `mqtt-ingest`) and of time;
callers, device and operator owe nothing. Ledger: a running RPC ends, the machine
retries a key it has no answer for, an undisturbed idle window ends. Offline replay: the
server works on what it has received, and the machine pushes everything a stream has
queued again and again (strong fairness, because a push of the other stream may be in
progress whenever it tries). Pipeline: weak fairness of the workers, nothing of handlers
or of the shutdown. Cash and projection have no liveness property.

What the passing runs show beyond the obvious: `CeilingOvershoot`, `RefundOvershoot`,
`AttemptCeiling` and `InventoryBound` are the exact price of four check-then-act races;
`PaidHasWinner` holds although the promotion falls through after a lost claim, because
only a call that saw an owner can get there; `DispensedMeansMoved` survives a reopened
line and says what is left of "a dispensed line has taken stock" when lines share
reports and reports share keys; `PublishBound` shows that the check before a publish
limits duplicates to one loop of tries per replica and fault; `TwiceOnlyAfterFault` says
exactly when "use a new idempotency key" is dangerous; `DoneIsApplied` holds although
two streams compete for the machine's numbers, except for a cash report that the server
has no way to look up or failed to (`Mistaken`); `CountedPerWrite` and `NothingMissed`
are the exact terms on which cash is counted; `NothingLost` shows that the started flag
closes the gap between the queue and the compaction map; `CriticalOnce` rests on the
unique key alone, whatever the memories forget.

### Where documents and code disagree

These were met while modelling. The models do what the code does, so that the
properties above hold with these behaviours.

Ledger:

- `docs/api/machine-grpc.md:83` promises that a stale row is reclaimed. Each retry
  refreshes `last_seen_at` before the test looks at it, so that after a crash the
  machine retries for ever and the row stays in progress.

Order money:

- `CreateRefund` sums the refunds and inserts later, without a lock: two requests both
  pass. `commerce-refund-cancel-implementation-handoff.md:112` says "bounded by captured
  minus prior refunds". `RefundOvershoot` is the bound that holds.
- `CancelOrder` reads and then updates unconditionally: a capture in between ends as a
  cancelled order. The same document, line 111: "**Cancel** only
  pre-capture."
- A captured webhook for a refunded payment moves it back to captured;
  `payment-webhook-security.md:26` says it is answered with 409.
- The dedupe key of a stock movement is the client's write key, so a second key takes
  stock again; `grpc-local-test.md:230` says "retries cannot
  double-decrement even if the client rotates its retry key".
- A vend success by slot completes an order of two lines of that slot with one item
  taken; `docs/api/examples/kiosk-implementation-payloads.md:24` says
  "no orphaned 'paid but inventory missing' splits", and
  `scripts/ops/repair_order_01a0f8db_duplicate_slot.sql` repairs an order closed so.
- A capture on a cancelled order opens no case; `...-handoff.md:73` says late webhooks
  after a terminal order create one.
- A retry of `ConfirmCashPayment` finds the winner set, by this very payment, and marks
  it `refund_required`; `grpc-local-test.md:228` calls it idempotent.
- `AdvanceVend` checks and then writes, so a slow duplicate vend start moves a closed
  line back to `in_progress`; `DispensedMeansMoved` is what survives this.

Outbox:

- `EffectiveOutboxMaxAttempts` prefers the row's `max_publish_attempts`, NOT NULL with
  default 24 and never written, so the configured `OutboxMaxPublishAttempts` does not
  bound retries as its comment says. The model's `RowMax` and `PolicyMax` are both.
- The worker sends the dead-letter copy from the count it leased, also when
  `RecordOutboxPublishFailure` changed no row because another worker had published it.

Commands:

- A cancel does not stop a publisher that has already checked the attempt; the device
  may get a command that `docs/api/admin-operations.md:63` calls cancelled.
- `TouchMachineConnectivity` turns `active` into `online`, and dispatch then refuses the
  machine, since it wants `active` (`docs/api/mqtt-contract.md:115`).
- The ceiling of dispatch attempts may be overshot
  (`docs/runbooks/mqtt-command-stuck.md:17`).
- An operator's retry of a cancelled or device-failed command is admitted and then does
  nothing, because dispatch skips such a command (`docs/runbooks/fleet-rollout.md:68`).

Offline replay:

- Gap tolerance is on by default; `docs/api/device-offline-replay-samples.md:66` describes
  the strict order.
- Without gap tolerance two streams that share the machine's numbers can hold each
  other up for ever; `offline_live` is therefore about the default.
- A failed lookup of a stale event is answered "already synced". The model's machine
  does not take that as an answer; one that did would lose the event.
- A restamped event whose earlier row failed is accepted, and the row keeps its failure.
- A cash report in a number of the other stream is answered REPLAYED and never dispatched
  if its forensic row cannot be looked up or has no key to look it up by;
  `docs/api/machine-grpc.md:91` speaks of REPLAYED for a repeated event id.

Cash:

- A payment that a close has counted is counted again by the next one, because writing
  its outcome moves `updated_at`; `docs/api/cash-settlement.md:3` speaks of the cash
  since the last closed row. `CountedPerWrite` is the bound that holds.
- A close in another currency or in lower case (`admin_cash_http.go:166` takes any text)
  moves the cutoff past cash it did not sum, which no later close counts. The
  document takes no account of currencies.
- The loser of two identical closes is answered "not found" (404) by its update;
  `docs/api/cash-settlement.md` calls the close idempotent. Its next try is.
- The key of a start is looked up among open collections only: a start that is
  retried after the close opens a second collection.

Telemetry:

- Handlers of one machine run in any order (`subscriber.go:60`) and the last to reach
  the lock wins (`bounded_pipeline.go:129`), so that an older state may replace a newer
  one; `docs/api/mqtt-contract.md:428` says the newest useful state is preserved.
- The comment at `telemetry_store.go:995` calls the insert of an inventory event
  idempotent. It is a count and an insert: two processes may both insert
  (`InventoryBound`).
- The guards that `docs/runbooks/multi-region-dr-readiness.md:76` relies on to suppress
  duplicates are the memory of one process, filled after the merges: keyed metrics that
  are not critical and are delivered to a second process are merged twice.
- Failures of a handler are logged and the client acknowledges the message all the
  same, so a "retryable" error is retried only by a device that waits for more than
  the transport's acknowledgement.
- A critical event whose merge fails after its row was stored is a duplicate when it
  comes back: its samples are never merged.
- The unique key of `device_telemetry_events` does not contain the machine, and a
  device-supplied `dedupe_key` is used as it is.

## 11. Proofs

Assumptions are the `ASSUME`s of the modelled components. They give constants their
types and no more: finite sets of rows, replicas, callers, payments, keys, events,
processes and workers; ceilings and capacities as positive numbers, the other bounds
as naturals; a policy ceiling of at least two, a payload for each ledger key and
each close, a stream for each event, no event with the empty id, a key for each
critical telemetry message (`bridge.go` sets it) and one type per key (the device's
contract), reports that address a line or a slot. TLC
evaluates them in every run. Bounds on faults, calls and operator actions are
arbitrary naturals in the proofs.

Each module has one inductive invariant, a conjunction of named parts, checked by
TLC on the instances of the runs before it was proved, and one lemma per action (or
per group of actions that write the same). What differs is why the property alone is
not inductive.

`OutboxProofs`. Types need `CurInPlan` (the row in hand is in the plan).
`PublishBeforeMark` adds `MarkAfterStore`: a replica about to mark has seen the
acknowledgement. `ColumnsAgree` is inductive as it stands. The refinement also
needs `PlannedExist`. `BoundedOvershoot` counts, for each row, the replicas that
could still record a failure without quarantining it (`Lenient`): attempts plus the
number of those replicas stays within the ceiling plus the number of replicas; a
failure that does not quarantine raises the one and lowers the other.

`CommerceProofs`. The properties are not inductive, because a step acts on an old
read. `CallOK` says, for each place in a call, what is still true of what it read:
a payment resolved as settled was captured, an owner seen is an owner still, a
status `paid` seen under arbitration means that there is an owner. It survives the
steps of other calls because `captured` only grows, an owner is never removed and
an order never disappears (lemma `OtherCalls`). `IInv` is the type invariant, the
state properties and `CallOK` of every call; one lemma per writing action shows
that it is kept, and one lemma (`ReadStep`) treats all actions that only read. From
it follow the four safety theorems and the refinement of `OrderMoneyContract`. A
success closes the lines it addresses, one or a whole slot, and takes stock only when
its key is new: `DispensedMeansMoved` therefore speaks of the movements made under a
report's key from a report's slot, and needs `MovesReported`, that there are no others.
The contract releases and dispenses slots, and a key makes one movement at most.
`RefundsBounded` needs one invariant more, `RefundRoom`: for each payment, the refunds
made plus the amounts of the requests between check and insert stay within the total
times the number of calls. A check passes only while the refunds and its amount fit
the total, and the other calls can hold no more than the total each; an insert moves
an amount from the one sum to the other. A sum of amounts is written as the number of
its minor units (`Units`), which turns it into the cardinality of a disjoint union and
needs no induction.

`LedgerProofs`. `AtMostOnce` is a statement about effects, and what prevents a
second one is that a handler runs only under the call that inserted the row. The
inductive invariant `LInv` says so: at most one call is inside the interceptor per
key and only while the row exists with its payload (`OneCallPerKey`), a row that is
absent or whose handler still runs has no effect yet (`NoEarlyEffect`), there is one
effect at most and only of the row's payload (`OneEffect`), and a stored or returned
response was committed (`ResponseCommitted`). `Reclaimable` is false in every state,
which is the first lemma. `NewKeyIsSafe` needs a second invariant `CInv`, of
behaviours without faults and reused keys: the row's status follows its call, a key
known to be spent has no effect, and a replacement key is used only after that.

`CommandProofs`. `DInv`: jobs in a replica's hands name attempts that exist
(`JobsExist`), the in-flight set is exact, and three counts. `CeilingInv`: a call that
has counted the attempts and not inserted its own stands for one to come, so attempts
plus such calls stay below the ceiling plus the number of calls; an insert lowers one
and raises the other, and a call that counts finds fewer attempts than the ceiling.
`PublishInv` counts tries, pairs of a replica and a round of its publish loop: while an
attempt is pending, each of its publishes was a try of a loop that still owes the mark
(`Tried`) or of one that a fault ended (`Lost`); once it is not, no replica takes it up,
and the loops already under way may use the tries they have left (`ToTry`).
`ReceiptInv`: receipts are of closed attempts, and the transaction in progress writes
the first one of its target, which is what the refinement of `CommandContract` needs (an
attempt is answered once). The refinement is proved step by step from `DInv`: every
action that writes attempts moves them `Forward`.

`OfflineProofs`. `DoneIsApplied` speaks of the machine, and what it rests on is that a
push carries only true answers. `OInv` says so for every push in flight
(`AnswersTrue`), and for what answers are derived from: a row that counts as a proven
replay is of an applied event (`RowsApplied`), a row without id is a tombstone
(`NamelessIsTomb`), numbers of a stream go to one event only and those of an event grow
(`NumbersUnique`), and the row that a push is about to mark is of its own event, which
has been applied, or a tombstone (`RowAhead`) although other pushes write the same
table. An answer is true of an event that was applied or that the code can mistake for
recorded (`Settled`); by `NumbersUnique` an event is mistaken only in the slot of another
stream's event, at its own number or an earlier one. `Kept` is what every step respects:
rows keep their event, and nothing applied or given up is undone; it carries the claims
of one push over the steps of the others. `CursorNeverMovesBack` is an action property:
two actions write a cursor, both through `Raise`. A batch is any sequence of the queued
events in the order in which the server handles them (`Batches`).

`CashProofs`. A close sums up, and stores later under the machine's row lock. `CInv`
says that collections close in the order they were opened (`Prefix`), that no time is
later than the clock and a stored close has the times of its transaction (`Times`,
`Seen`), that `updated_at` is the time of some write (`Rows`), and the two halves of the
argument: a sum that is not stored yet misses only what a stored one may miss
(`SumMisses`, of the payments in its currency), and every payment a close counts has a
write, seen by its sum, that began after every earlier closing time (`Accounts`). A
payment may be missing only if a close passed over one of its writes (`Covered`): the
write began before the closing time and was seen only after the sum, or the close is in
another currency. `CountedPerWrite` follows by mapping the collections that count a
payment to those writes.

`PipelineProofs`. `NothingLost` needs to know that a job others may be compacted into
has not had its function fetched (`CompactInv`), and that a job which its handler has
yet to register in the map is still queued, or marked as started by its worker
(`RegisterInv`), so that it is never registered after it was fetched; the rest says
who holds which message (`HandlerInv`, `JobInv`, `WorkerInv`).

`ProjectionProofs`. `MergeInv`: only the process that wrote the row of a critical event
merges its samples, a sample it has left is not merged, and nothing is merged before
the row. `WrittenInv`: what a handler is done with, and what a memory holds, is written,
so that skipping on the strength of a memory acknowledges nothing that is not stored.
`RowsInv`: an inventory event's rows plus the processes between count and insert stay
within the number of processes.

Only model-checked: the liveness properties `EventuallySettled`, `CapturedIsPromoted`,
`AttemptsSettle`, `AnsweredWithoutFaults`, `EventsSettle` and `AcceptedSettles`, because
fairness and `ENABLED` are out of the prover's reach. No recursive definition is left
in a module that is proved about: what a batch or a sum is, is said by a set of
functions or a cardinality.

## 12. Hazards

`PROJECT.json` lists each place in the code where an order of events that no test
reaches could break it, with the properties that cover it. Uncovered, with the reason
there: a capture that meets a cancel or a cancelled order, the order of one machine's
telemetry handlers, which the code does not keep, and the samples of a critical event
that a failed merge leaves behind.

## 13. Not modelled

Refund execution and later refund states (operator and provider). Pricing and
quotes (arithmetic before an order exists). Timeline and evidence rows
(append-only, read by no decision); forensic cash rows only as the lookup of offline
replay reads them (section 7). Stock counts (only the movement of a sale
and the events a device reports are). Fleet (but for the machine status that
dispatch reads), activation, operators, authentication, layout, catalog, media,
reporting, alerts (administration and input/output). Temporal workflows (optional,
ordered by their engine). Generated code (`internal/gen`) is the binding of the
queries that are modelled from their SQL; transport types, configuration and the
OpenAPI description, most of the repository's lines, have no state.
