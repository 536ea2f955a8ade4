------------------------------ MODULE Commerce ------------------------------
(***************************************************************************)
(* One order of the commerce service: its payments, the vend sessions of   *)
(* its lines, the inventory movements and the refunds, under concurrent    *)
(* API calls, provider webhooks and the reconciler.                        *)
(*                                                                         *)
(* A call is several steps.  It reads the order, then checks the payment   *)
(* or the vend session, then writes with what it read: the UPDATEs of      *)
(* orders, payments.state and vend_sessions carry no condition on the      *)
(* state they overwrite.  A transaction's writes are one step; the         *)
(* statements outside a transaction are one step each.                     *)
(***************************************************************************)
EXTENDS Integers, FiniteSets

CONSTANTS Payments,     \* payment attempts, numbered in creation order (attempt_seq)
          Lines,        \* line_sequence of the order's vend sessions
          Slot,         \* slot_index of each line; two lines may share one
          Keys,         \* client write keys of vend-success reports
          Reports,      \* vend-success reports: a key and the lines addressed
          SpentKeys,    \* keys of the machine's inventory events of other orders
          RefundKeys,   \* idempotency keys of refund requests
          RefundAmount, \* amount_minor of each of those requests
          Total,        \* total_minor of the order and of each payment
          Callers,      \* concurrent calls in flight
          Calls,        \* operations an instance exercises
          Targets,      \* payment states the provider reports
          Arbitration,  \* COMMERCE_WINNER_ARBITRATION_ENABLED
          Surfaces      \* front ends that report vend success

Operations == {"session", "cash", "cancelSession", "cancel", "unknown", "mark",
               "advance", "confirm", "fail", "webhook", "probe", "refund"}

\* A request names a line by its line_sequence, or all lines of a slot at once.
Addresses == {{l} : l \in Lines}
               \cup {{m \in Lines : Slot[m] = Slot[l]} : l \in Lines}

PaymentStates == {"created", "authorized", "captured", "failed", "refunded",
                  "expired", "canceled", "partially_refunded"}

ASSUME PaymentsAssumption == Payments \subseteq Nat \ {0} /\ IsFiniteSet(Payments)
ASSUME LinesAssumption == /\ Lines \subseteq Nat \ {0} /\ IsFiniteSet(Lines)
                          /\ Lines # {}
                          /\ Slot \in [Lines -> Nat]
                          /\ Keys \subseteq Nat \ {0}
                          /\ Reports \subseteq [key : Keys, lines : Addresses]
                          /\ SpentKeys \subseteq Keys
ASSUME RefundsAssumption == /\ RefundKeys \subseteq Nat \ {0}
                            /\ IsFiniteSet(RefundKeys)
                            /\ Total \in Nat
                            /\ RefundAmount \in [RefundKeys -> 1..Total]
ASSUME CallsAssumption == /\ Calls \subseteq Operations
                          /\ Targets \subseteq PaymentStates
                          /\ Arbitration \in BOOLEAN
                          /\ Surfaces \subseteq {"grpc", "http"}
                          /\ IsFiniteSet(Callers)

VARIABLES
  order,     \* orders.status
  winner,    \* orders.winning_payment_id
  pay,       \* payments.state; "none" before the insert
  outcome,   \* payments.outcome
  cash,      \* payments whose provider is cash
  vend,      \* vend_sessions.state
  moves,     \* the inventory events of this order's sales: key and slot
  refunds,   \* the payment each refund row is charged to
  applied,   \* payment_provider_events: <<payment, reported state>>
  cases,     \* commerce_reconciliation_cases: <<case type, payment>>
  call,      \* what a call in flight has read
  captured   \* history: payments whose money was captured

money == <<winner, pay, outcome, cash, applied, captured>>
goods == <<vend, moves>>
vars == <<order, money, goods, refunds, cases, call>>

None == 0
Terminal == {"completed", "partially_completed", "failed", "cancelled", "unknown"}
OrderStatuses == Terminal \cup {"none", "created", "paid", "vending"}
Outcomes == {"none", "pending", "winner", "refund_required", "superseded"}
VendStates == {"none", "pending", "in_progress", "success", "failed"}
CaseTypes == {"late_capture_refund_required", "webhook_after_terminal_order",
              "duplicate_provider_event"}
Settled == {"captured", "partially_refunded"}
At == {"idle", "session", "cash", "cash.claim", "captured", "cancelSession",
       "cancel", "cancel.write", "unknown", "mark", "mark.claim", "mark.lost",
       "mark.paid", "won", "lost", "advance", "advance.vend", "advance.order",
       "confirm", "webhook", "replay", "refund"}

CallRecords == [at : At, status : OrderStatuses,
                winner : Payments \cup {None}, pay : Payments \cup {None},
                was : PaymentStates \cup {"none"}, to : PaymentStates \cup {"none"},
                lines : SUBSET Lines, key : Keys \cup RefundKeys \cup {None}]

Idle == [at |-> "idle", status |-> "none", winner |-> None, pay |-> None,
         was |-> "none", to |-> "none", lines |-> {}, key |-> None]

TypeOK ==
  /\ order \in OrderStatuses
  /\ winner \in Payments \cup {None}
  /\ pay \in [Payments -> PaymentStates \cup {"none"}]
  /\ outcome \in [Payments -> Outcomes]
  /\ cash \in SUBSET Payments
  /\ vend \in [Lines -> VendStates]
  /\ moves \in SUBSET [key : Keys, slot : {Slot[l] : l \in Lines}]
  /\ refunds \in [RefundKeys -> Payments \cup {None}]
  /\ applied \in SUBSET (Payments \X PaymentStates)
  /\ cases \in SUBSET (CaseTypes \X Payments)
  /\ call \in [Callers -> CallRecords]
  /\ captured \in SUBSET Payments

Init ==
  /\ order = "none"
  /\ winner = None
  /\ pay = [p \in Payments |-> "none"]
  /\ outcome = [p \in Payments |-> "none"]
  /\ cash = {}
  /\ vend = [l \in Lines |-> "none"]
  /\ moves = {}
  /\ refunds = [k \in RefundKeys |-> None]
  /\ applied = {}
  /\ cases = {}
  /\ call = [c \in Callers |-> Idle]
  /\ captured = {}

-----------------------------------------------------------------------------
(* What a call reads. *)

Exists(p) == pay[p] # "none"

\* Mutation: a payment session opened after the capture hides it.
AuthoritativeLatest(p) ==
  IF winner # None THEN p = winner
  ELSE Exists(p) /\ \A q \in Payments : Exists(q) => q <= p

\* resolveAuthoritativePayment: the winner, else the OLDEST settled payment,
\* else the latest.
Authoritative(p) ==
  IF winner # None THEN p = winner
  ELSE IF \E q \in Payments : pay[q] \in Settled
       THEN pay[p] \in Settled /\ \A q \in Payments : pay[q] \in Settled => p <= q
       ELSE Exists(p) /\ \A q \in Payments : Exists(q) => q <= p

\* resolveAuthoritativePaymentRow, used when a vend succeeds: the winner, else
\* the NEWEST settled payment, else the latest.
AuthoritativeRow(p) ==
  IF winner # None THEN p = winner
  ELSE IF \E q \in Payments : pay[q] \in Settled
       THEN pay[p] \in Settled /\ \A q \in Payments : pay[q] \in Settled => q <= p
       ELSE Exists(p) /\ \A q \in Payments : Exists(q) => q <= p

Moves(c, step) == call' = [call EXCEPT ![c].at = step]
Returns(c) == call' = [call EXCEPT ![c] = Idle]

\* The handler reads the order and refuses what its status does not allow.
Admits(op) ==
  CASE op \in {"session", "cash", "cancelSession", "unknown"} -> order \notin Terminal
    [] op \in {"cancel", "mark"} -> order = "created"
    [] OTHER -> TRUE

\* The call keeps what its later steps use.  MarkOrderPaidAfterPaymentCapture is
\* called by the reconciler and by a status poll, and follows a capture the same
\* call made.
ReadOrder(c, op) ==
  /\ \/ call[c].at = "idle" /\ op \in Calls
     \/ call[c].at = "captured" /\ op = "mark"
  /\ order # "none"
  /\ Admits(op)
  /\ call' = [call EXCEPT ![c] = [Idle EXCEPT
                 !.at = op,
                 !.status = IF op = "advance" THEN order ELSE "none",
                 !.winner = IF op = "mark" THEN winner ELSE None]]
  /\ UNCHANGED <<order, money, goods, refunds, cases>>

\* The call returns an error, is cancelled, or its process dies.
CallEnds(c) ==
  /\ call[c].at # "idle"
  /\ Returns(c)
  /\ UNCHANGED <<order, money, goods, refunds, cases>>

-----------------------------------------------------------------------------
(* Orders and payment attempts. *)

CreateOrder ==
  /\ order = "none"
  /\ order' = "created"
  /\ vend' = [l \in Lines |-> "pending"]
  /\ UNCHANGED <<money, moves, refunds, cases, call>>

\* allocatePaymentAttemptSeq numbers attempts under a lock on the order row.
NextAttempt(p) == ~Exists(p) /\ \A q \in Payments : q < p => Exists(q)

InsertPayment(p, state) ==
  /\ NextAttempt(p)
  /\ pay' = [pay EXCEPT ![p] = state]
  /\ outcome' = [outcome EXCEPT ![p] = "pending"]

CreatePaymentSession(c, p) ==
  /\ call[c].at = "session"
  /\ InsertPayment(p, "created")
  /\ Returns(c)
  /\ UNCHANGED <<order, winner, cash, applied, captured, goods, refunds, cases>>

\* The HTTP handler looks at nothing but the order's existence, and the caller
\* says in which state the payment begins.
StartPaymentWithOutbox(p, state) ==
  /\ "session" \in Calls /\ "http" \in Surfaces
  /\ order # "none"
  /\ state \in Targets \cup {"created"}
  /\ InsertPayment(p, state)
  /\ captured' = IF state \in Settled THEN captured \cup {p} ELSE captured
  /\ UNCHANGED <<order, winner, cash, applied, goods, refunds, cases, call>>

\* A new cash payment, or the replay of one by its idempotency key.
ConfirmCash(c, p) ==
  /\ call[c].at = "cash"
  /\ \/ InsertPayment(p, "captured")
     \/ p \in cash /\ pay[p] = "captured" /\ UNCHANGED <<pay, outcome>>
  /\ cash' = cash \cup {p}
  /\ captured' = captured \cup {p}
  /\ call' = [call EXCEPT ![c] = [Idle EXCEPT !.pay = p,
                 !.at = IF Arbitration THEN "cash.claim" ELSE "captured"]]
  /\ UNCHANGED <<order, winner, applied, goods, refunds, cases>>

\* Mutation: the orders' spelling of the state, which payments do not know.
CancelPaymentMisspelt(c, p) ==
  /\ call[c].at = "cancelSession"
  /\ pay[p] \in {"created", "authorized"}
  /\ pay' = [pay EXCEPT ![p] = "cancelled"]
  /\ outcome' = [outcome EXCEPT ![p] = IF @ = "pending" THEN "superseded" ELSE @]
  /\ Returns(c)
  /\ UNCHANGED <<order, winner, cash, applied, captured, goods, refunds, cases>>

\* CancelPaymentByID is conditional on the state it overwrites.
CancelPaymentSession(c, p) ==
  /\ call[c].at = "cancelSession"
  /\ pay[p] \in {"created", "authorized"}
  /\ pay' = [pay EXCEPT ![p] = "canceled"]
  /\ outcome' = [outcome EXCEPT ![p] = IF @ = "pending" THEN "superseded" ELSE @]
  /\ Returns(c)
  /\ UNCHANGED <<order, winner, cash, applied, captured, goods, refunds, cases>>

CheckCancel(c) ==
  /\ call[c].at = "cancel"
  /\ ~\E p \in Payments : Authoritative(p) /\ pay[p] \in Settled
  /\ Moves(c, "cancel.write")
  /\ UNCHANGED <<order, money, goods, refunds, cases>>

CancelOrder(c) ==
  /\ call[c].at = "cancel.write"
  /\ order' = "cancelled"
  /\ Returns(c)
  /\ UNCHANGED <<money, goods, refunds, cases>>

MarkOrderUnknown(c) ==
  /\ call[c].at = "unknown"
  /\ order' = "unknown"
  /\ Returns(c)
  /\ UNCHANGED <<money, goods, refunds, cases>>

-----------------------------------------------------------------------------
(* Promotion to paid, and the claim of the order by one payment. *)

\* UPDATE orders SET winning_payment_id ... WHERE winning_payment_id IS NULL
ClaimWinningPayment(p) ==
  /\ winner = None
  /\ winner' = p
  /\ order' = IF order = "created" THEN "paid" ELSE order

SetOutcome(p, o) == outcome' = [outcome EXCEPT ![p] = o]

\* An upsert whose error the caller ignores.
MayOpenCase(type, p) == cases' \in {cases, cases \cup {<<type, p>>}}

\* Mutation: promotion without arbitration, as before the feature flag.
ResolveWithoutClaim(c, p) ==
  /\ call[c].at = "mark"
  /\ Authoritative(p) /\ pay[p] = "captured"
  /\ call' = [call EXCEPT ![c].pay = p, ![c].at = "mark.paid"]
  /\ UNCHANGED <<order, money, goods, refunds, cases>>

\* Second half of MarkOrderPaidAfterPaymentCapture's checks.
ResolveForMark(c, p) ==
  /\ call[c].at = "mark"
  /\ Authoritative(p) /\ pay[p] = "captured"
  /\ call' = [call EXCEPT ![c].pay = p,
                          ![c].at = IF Arbitration /\ call[c].winner = None
                                    THEN "mark.claim" ELSE "mark.paid"]
  /\ UNCHANGED <<order, money, goods, refunds, cases>>

\* AttemptWinningPaymentClaim: the claim, then the outcome, no transaction.
AttemptWinningPaymentClaim(c) ==
  /\ call[c].at \in {"cash.claim", "mark.claim"}
  /\ \/ ClaimWinningPayment(call[c].pay) /\ Moves(c, "won")
     \/ /\ winner # None
        /\ Moves(c, IF call[c].at = "mark.claim" THEN "mark.lost" ELSE "lost")
        /\ UNCHANGED <<order, winner>>
  /\ UNCHANGED <<pay, outcome, cash, applied, captured, goods, refunds, cases>>

\* Mutation: a win puts every other payment of the order down for a refund.
RecordWinOverRivals(c) ==
  /\ call[c].at = "won"
  /\ outcome' = [p \in Payments |-> IF p = call[c].pay THEN "winner" ELSE "refund_required"]
  /\ Returns(c)
  /\ UNCHANGED <<order, winner, pay, cash, applied, captured, goods, refunds, cases>>

RecordWin(c) ==
  /\ call[c].at = "won"
  /\ SetOutcome(call[c].pay, "winner")
  /\ Returns(c)
  /\ UNCHANGED <<order, winner, pay, cash, applied, captured, goods, refunds, cases>>

\* A lost claim returns an error from ConfirmCash; MarkOrderPaid goes on.
RecordLoss(c) ==
  /\ call[c].at \in {"lost", "mark.lost"}
  /\ SetOutcome(call[c].pay, "refund_required")
  /\ MayOpenCase("late_capture_refund_required", call[c].pay)
  /\ IF call[c].at = "lost" THEN Returns(c) ELSE Moves(c, "mark.paid")
  /\ UNCHANGED <<order, winner, pay, cash, applied, captured, goods, refunds>>

MarkOrderPaid(c) ==
  /\ call[c].at = "mark.paid"
  /\ order' = "paid"
  /\ Returns(c)
  /\ UNCHANGED <<money, goods, refunds, cases>>

\* The reconciler asks the provider; the UPDATE is conditional on the state.
ApplyReconciledPaymentTransition(c, p, to) ==
  /\ "probe" \in Calls /\ call[c].at = "idle"
  /\ to \in Targets \cap {"captured", "failed", "expired", "canceled"}
  /\ pay[p] \in {"created", "authorized"}
  /\ pay' = [pay EXCEPT ![p] = to]
  /\ captured' = IF to = "captured" THEN captured \cup {p} ELSE captured
  /\ IF to = "captured" THEN Moves(c, "captured") ELSE UNCHANGED call
  /\ UNCHANGED <<order, winner, outcome, cash, applied, goods, refunds, cases>>

-----------------------------------------------------------------------------
(* Provider webhooks. *)

PaymentTransitionAllowed(from, to) ==
  \/ from = to
  \/ from \in {"created", "authorized"} /\ to \in {"captured", "failed", "expired", "canceled"}
  \/ from = "created" /\ to = "authorized"
  \/ from = "captured" /\ to \in {"failed", "refunded", "partially_refunded"}
  \/ from = "partially_refunded" /\ to = "refunded"

\* webhookLateDeliveryAgainstTerminalState
LateDelivery(status, was) ==
  status \in Terminal \/ was \in {"refunded", "failed", "expired", "canceled"}

\* The transaction reads the recorded event, the payment and the order.  The
\* provider of the webhook must be the payment's, hence no cash payment.
ReceiveWebhook(c, p, to) ==
  /\ "webhook" \in Calls /\ call[c].at = "idle"
  /\ to \in Targets
  /\ Exists(p) /\ p \notin cash
  /\ call' = [call EXCEPT ![c] = [Idle EXCEPT
                 !.at = IF <<p, to>> \in applied THEN "replay" ELSE "webhook",
                 !.pay = p, !.to = to, !.was = pay[p],
                 !.status = order, !.winner = winner]]
  /\ UNCHANGED <<order, money, goods, refunds, cases>>

\* ErrWebhookAfterTerminalOrder; the handler then opens a case.
RejectWebhook(c) ==
  /\ call[c].at = "webhook"
  /\ call[c].to # "captured"
  /\ ~PaymentTransitionAllowed(call[c].was, call[c].to)
  /\ LateDelivery(call[c].status, call[c].was)
  /\ MayOpenCase("webhook_after_terminal_order", call[c].pay)
  /\ Returns(c)
  /\ UNCHANGED <<order, money, goods, refunds>>

LateCapture(c) ==
  /\ call[c].to = "captured"
  /\ ~PaymentTransitionAllowed(call[c].was, "captured")
  /\ LateDelivery(call[c].status, call[c].was)

OnTimeCapture(c) ==
  /\ call[c].to = "captured"
  /\ PaymentTransitionAllowed(call[c].was, "captured")
  /\ call[c].status = "created"

\* What a webhook does to the order: first two, a capture in time; the next three,
\* a late capture, decided by the winner the transaction read.  A late capture
\* that loses the claim of a closed order opens a case of a type the CHECK on
\* case_type does not list: the transaction aborts, which CallEnds covers.
WebhookOrderEffect(c, p) ==
  \/ /\ OnTimeCapture(c)
     /\ ClaimWinningPayment(p) /\ SetOutcome(p, "winner") /\ UNCHANGED cases
  \/ /\ OnTimeCapture(c) /\ winner # None
     /\ order' = "paid" /\ UNCHANGED <<winner, outcome, cases>>
  \/ /\ LateCapture(c) /\ call[c].winner \notin {None, p}
     /\ SetOutcome(p, "refund_required")
     /\ cases' = cases \cup {<<"late_capture_refund_required", p>>}
     /\ UNCHANGED <<order, winner>>
  \/ /\ LateCapture(c) /\ call[c].winner = None
     /\ ClaimWinningPayment(p) /\ SetOutcome(p, "winner") /\ UNCHANGED cases
  \/ /\ LateCapture(c) /\ call[c].winner = None /\ winner # None
     /\ call[c].status = "created"
     /\ order' = "paid" /\ SetOutcome(p, "winner") /\ UNCHANGED <<winner, cases>>
  \/ /\ ~OnTimeCapture(c)
     /\ LateCapture(c) => call[c].winner = p
     /\ UNCHANGED <<order, winner, outcome, cases>>

ApplyPaymentProviderWebhook(c) ==
  LET p == call[c].pay
      to == call[c].to
  IN  /\ call[c].at = "webhook"
      /\ <<p, to>> \notin applied
      /\ PaymentTransitionAllowed(call[c].was, to) \/ LateCapture(c)
      /\ pay' = [pay EXCEPT ![p] = IF call[c].was = to THEN @ ELSE to]
      /\ captured' = IF to = "captured" THEN captured \cup {p} ELSE captured
      /\ applied' = applied \cup {<<p, to>>}
      /\ WebhookOrderEffect(c, p)
      /\ Returns(c)
      /\ UNCHANGED <<cash, goods, refunds>>

\* The unique index refused the event: roll back, and read again.
WebhookUniqueViolation(c) ==
  /\ call[c].at = "webhook"
  /\ <<call[c].pay, call[c].to>> \in applied
  /\ call' = [call EXCEPT ![c].at = "replay", ![c].was = pay[call[c].pay], ![c].status = order]
  /\ UNCHANGED <<order, money, goods, refunds, cases>>

\* webhookReplayResultFromEvent and promoteCapturedOrderIfNeeded.
ReplayWebhook(c) ==
  LET p == call[c].pay
      promote == call[c].was = "captured" /\ call[c].status = "created"
  IN  /\ call[c].at = "replay"
      /\ \/ promote /\ ClaimWinningPayment(p) /\ SetOutcome(p, "winner")
         \/ /\ promote /\ winner # None
            /\ order' = "paid" /\ SetOutcome(p, "winner") /\ UNCHANGED winner
         \/ ~promote /\ UNCHANGED <<order, winner, outcome>>
      /\ MayOpenCase("duplicate_provider_event", p)
      /\ Returns(c)
      /\ UNCHANGED <<pay, cash, applied, captured, goods, refunds>>

-----------------------------------------------------------------------------
(* Vending. *)

\* Mutation: vend start without the payment check.
CheckVendOnly(c, S) ==
  /\ call[c].at = "advance"
  /\ \E l \in S : vend[l] = "pending"
  /\ call' = [call EXCEPT ![c].at = "advance.vend", ![c].lines = S]
  /\ UNCHANGED <<order, money, goods, refunds, cases>>

\* The look-up by slot returns one row of the slot, whichever comes first.
CheckVend(c, S) ==
  /\ call[c].at = "advance"
  /\ \E l \in S : vend[l] = "pending"
  /\ \E p \in Payments : Authoritative(p) /\ pay[p] \in Settled
  /\ call' = [call EXCEPT ![c].at = "advance.vend", ![c].lines = S]
  /\ UNCHANGED <<order, money, goods, refunds, cases>>

\* UpdateVendSessionStateByOrderSlot and ...ByOrderLineSequence: every line the
\* request addresses, whatever its state was.
Written(S, state) == [l \in Lines |-> IF l \in S THEN state ELSE vend[l]]

AdvanceVend(c) ==
  /\ call[c].at = "advance.vend"
  /\ vend' = Written(call[c].lines, "in_progress")
  /\ IF call[c].status = "paid" THEN Moves(c, "advance.order") ELSE Returns(c)
  /\ UNCHANGED <<order, money, moves, refunds, cases>>

MarkOrderVending(c) ==
  /\ call[c].at = "advance.order"
  /\ order' = "vending"
  /\ Returns(c)
  /\ UNCHANGED <<money, goods, refunds, cases>>

OpenLines(v) == \E l \in Lines : v[l] \in {"none", "pending", "in_progress"}

\* Mutation: one dispensed line completes the order.
ResolvedByAnySuccess(v) ==
  IF \E l \in Lines : v[l] = "success" THEN "completed" ELSE "failed"

\* resolveMultiLineTerminalOrderStatus, for lines that are all closed.
ResolvedStatus(v) ==
  IF \A l \in Lines : v[l] = "success" THEN "completed"
  ELSE IF \E l \in Lines : v[l] = "success" THEN "partially_completed" ELSE "failed"

WholeSlot(S) == \A l \in S, m \in Lines : Slot[m] = Slot[l] => m \in S

\* The gRPC handler looks at the vend session first; the HTTP handlers do not,
\* and know no line_sequence.
ConfirmVendSuccess(c, r) ==
  /\ "confirm" \in Calls /\ call[c].at = "idle"
  /\ order # "none"
  /\ \/ \E l \in r.lines : vend[l] = "in_progress"
     \/ "http" \in Surfaces /\ WholeSlot(r.lines)
  /\ call' = [call EXCEPT ![c] = [Idle EXCEPT !.at = "confirm", !.key = r.key, !.lines = r.lines]]
  /\ UNCHANGED <<order, money, goods, refunds, cases>>

\* InventoryAdminCountInventoryEventsByIdempotencyKey, over the whole machine:
\* the key does not say which line it is for.
Spent(k) == k \in SpentKeys \/ \E m \in moves : m.key = k

\* applyCommerceVendSuccessInventoryTx: one movement, for the slot of the row
\* the transaction locked, unless the key has one.
TakeStock(k, l) ==
  moves' = IF Spent(k) THEN moves ELSE moves \cup {[key |-> k, slot |-> Slot[l]]}

\* Mutation: a line that was never started can be reported as dispensed.
FulfillEvenPending(c) ==
  \E l \in call[c].lines :
    LET v == Written(call[c].lines, "success")
    IN  /\ call[c].at = "confirm"
        /\ order # "cancelled" /\ vend[l] # "failed"
        /\ \E p \in Payments : AuthoritativeRow(p) /\ pay[p] = "captured"
        /\ vend' = v
        /\ order' = IF OpenLines(v) THEN order ELSE ResolvedStatus(v)
        /\ TakeStock(call[c].key, l)
        /\ Returns(c)
        /\ UNCHANGED <<money, refunds, cases>>

\* One transaction that locks the order row and the vend rows and decides from
\* the first row it reads.  An empty slot, or a sibling that is not dispensed,
\* aborts it, which CallEnds covers.
FulfillSuccessfulVendAtomically(c) ==
  \E l \in call[c].lines :
    LET v == IF vend[l] = "in_progress" THEN Written(call[c].lines, "success") ELSE vend
        closed == vend[l] = "success" /\ order \in Terminal
    IN  /\ call[c].at = "confirm"
        /\ order # "cancelled"
        /\ vend[l] \in {"in_progress", "success"}
        /\ \E p \in Payments : AuthoritativeRow(p) /\ (closed \/ pay[p] = "captured")
        /\ vend' = v
        /\ order' = IF closed \/ OpenLines(v) THEN order ELSE ResolvedStatus(v)
        /\ TakeStock(call[c].key, l)
        /\ Returns(c)
        /\ UNCHANGED <<money, refunds, cases>>

\* One transaction; a single-line order fails whatever its status was.
FulfillFailedVendAtomically(S) ==
  LET v == Written(S, "failed")
  IN  /\ "fail" \in Calls
      /\ \E l \in S : vend[l] = "in_progress"
      /\ vend' = v
      /\ order' = IF OpenLines(v) THEN order ELSE ResolvedStatus(v)
      /\ UNCHANGED <<money, moves, refunds, cases, call>>

-----------------------------------------------------------------------------
(* Refunds. *)

\* The minor units of some requests, amount[x] of them for request x.
Units(S, amount) == UNION {{x} \X (1..amount[x]) : x \in S}

\* SumNonFailedRefundAmountForPayment: the sum of the amounts is the number of units.
Charged(p) == {k \in RefundKeys : refunds[k] = p}
Refunded(p) == Cardinality(Units(Charged(p), RefundAmount))

\* Mutation: each request is compared with the payment, not with what is left.
CheckRefundAlone(c, k, p) ==
  /\ "refund" \in Calls /\ call[c].at = "idle"
  /\ Authoritative(p) /\ pay[p] \in Settled
  /\ refunds[k] = None
  /\ RefundAmount[k] <= Total
  /\ call' = [call EXCEPT ![c] = [Idle EXCEPT !.at = "refund", !.key = k, !.pay = p]]
  /\ UNCHANGED <<order, money, goods, refunds, cases>>

CheckRefund(c, k, p) ==
  /\ "refund" \in Calls /\ call[c].at = "idle"
  /\ Authoritative(p) /\ pay[p] \in Settled
  /\ refunds[k] = None
  /\ Refunded(p) + RefundAmount[k] <= Total
  /\ call' = [call EXCEPT ![c] = [Idle EXCEPT !.at = "refund", !.key = k, !.pay = p]]
  /\ UNCHANGED <<order, money, goods, refunds, cases>>

\* A second insert under the same key returns the row there is.
CreateRefund(c) ==
  /\ call[c].at = "refund"
  /\ refunds[call[c].key] = None
  /\ refunds' = [refunds EXCEPT ![call[c].key] = call[c].pay]
  /\ Returns(c)
  /\ UNCHANGED <<order, money, goods, cases>>

-----------------------------------------------------------------------------

ReadOperations == {"session", "cash", "cancelSession", "cancel", "unknown", "mark", "advance"}

PaymentCall(c) ==
  \/ \E p \in Payments : \/ CreatePaymentSession(c, p) \/ ConfirmCash(c, p)
                         \/ CancelPaymentSession(c, p)
                         \/ ResolveForMark(c, p)
  \/ \E p \in Payments, to \in Targets : ApplyReconciledPaymentTransition(c, p, to)
  \/ AttemptWinningPaymentClaim(c) \/ RecordWin(c) \/ RecordLoss(c) \/ MarkOrderPaid(c)
  \/ CheckCancel(c) \/ CancelOrder(c) \/ MarkOrderUnknown(c)

Webhook(c) ==
  \/ \E p \in Payments, to \in Targets : ReceiveWebhook(c, p, to)
  \/ RejectWebhook(c) \/ ApplyPaymentProviderWebhook(c)
  \/ WebhookUniqueViolation(c) \/ ReplayWebhook(c)

VendCall(c) ==
  \/ \E S \in Addresses : CheckVend(c, S)
  \/ AdvanceVend(c) \/ MarkOrderVending(c)
  \/ \E r \in Reports : ConfirmVendSuccess(c, r)
  \/ FulfillSuccessfulVendAtomically(c)

RefundCall(c) ==
  \/ \E k \in RefundKeys, p \in Payments : CheckRefund(c, k, p)
  \/ CreateRefund(c)

Next ==
  \/ CreateOrder
  \/ \E p \in Payments, state \in PaymentStates : StartPaymentWithOutbox(p, state)
  \/ \E S \in Addresses : FulfillFailedVendAtomically(S)
  \/ \E c \in Callers : \/ \E op \in ReadOperations : ReadOrder(c, op)
                        \/ CallEnds(c)
                        \/ PaymentCall(c) \/ Webhook(c) \/ VendCall(c) \/ RefundCall(c)

\* Every call returns within its deadline.  The reconciler's ticker repeats the
\* promotion, and not every attempt dies between the same two statements.
Fairness ==
  \A c \in Callers :
    /\ WF_vars(CallEnds(c))
    /\ SF_vars(ReadOrder(c, "mark"))
    /\ SF_vars(\E p \in Payments : ResolveForMark(c, p))
    /\ SF_vars(AttemptWinningPaymentClaim(c))
    /\ SF_vars(MarkOrderPaid(c))

Spec == Init /\ [][Next]_vars
FairSpec == Spec /\ Fairness

-----------------------------------------------------------------------------
(* Properties. *)

\* The machine is told to dispense, and the order is regarded as paid, only after
\* some money was captured, however stale the reads of AdvanceVend,
\* MarkOrderPaid and the webhooks are.
MoneyFirst ==
  \/ order \in {"paid", "vending", "completed", "partially_completed", "failed"}
  \/ \E l \in Lines : vend[l] \notin {"none", "pending"}
  => captured # {}

\* A payment owns the order, counts as its winner, or is due a refund, or is
\* charged with one, only if its money was captured (ClaimWinningPayment,
\* UpdatePaymentOutcome, CreateRefund all act on an earlier read).
OwnedByCapture ==
  /\ winner # None => winner \in captured
  /\ \A p \in Payments : outcome[p] \in {"winner", "refund_required"} => p \in captured
  /\ \A k \in RefundKeys : refunds[k] # None => refunds[k] \in captured

\* With arbitration on, an order is paid or vending only once some payment owns
\* it, although MarkOrderPaid falls through to its unconditional UPDATE after a
\* lost claim and AdvanceVend acts on a status it read earlier; and an owned
\* order has left "created", so CancelOrder refuses it.
PaidHasWinner ==
  /\ Arbitration /\ order \in {"paid", "vending"} => winner # None
  /\ winner # None => order \notin {"none", "created"}

\* The key of a report is its own: no other report of this order, and no other
\* order of the machine, carries it.
OwnKey(r) == r.key \notin SpentKeys /\ \A q \in Reports : q.key = r.key => q = r

\* A report that covers the line has been charged to the stock, to the line's own
\* slot unless the client had used its key before.
TookStock(l) ==
  \E r \in Reports :
    /\ l \in r.lines /\ Spent(r.key)
    /\ OwnKey(r) => [key |-> r.key, slot |-> Slot[l]] \in moves

\* A line that counts as dispensed, and every line of a completed order, is covered
\* by a report that took stock (FulfillSuccessfulVendAtomically), even when a
\* stale AdvanceVend reopens a closed line or a whole slot.  Lines that are
\* closed together by their slot share one movement.
DispensedMeansMoved ==
  \A l \in Lines : vend[l] = "success" \/ order = "completed" => TookStock(l)

\* CreateRefund checks the sum and inserts later, so concurrent requests refund
\* more than was captured; by at most one payment per further call in flight.
RefundOvershoot ==
  \A p \in Payments : Refunded(p) <= Total * Cardinality(Callers)

\* A captured payment does not leave its order unpaid for ever: the reconciler
\* promotes it, whatever call died in between, without any help of a webhook.
CapturedIsPromoted ==
  (order = "created" /\ \E p \in Payments : pay[p] = "captured")
    ~> (order # "created" \/ \A p \in Payments : pay[p] # "captured")

\* The order's money as the service promises it.
Money == INSTANCE OrderMoneyContract WITH
  owner     <- winner,
  released  <- {l \in Lines : vend[l] \notin {"none", "pending"}},
  taken     <- moves

\* Every step of every interleaving is a step of the contract, or none.
ImplementsMoneyContract == Money!MSpec

=============================================================================
