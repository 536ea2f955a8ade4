--------------------------- MODULE CommerceProofs ---------------------------
(***************************************************************************)
(* Proofs about Commerce for every number of payments, lines, callers and  *)
(* keys.  The properties are not inductive by themselves: a step acts on   *)
(* what the call read earlier.  CallOK records what is still true of an    *)
(* old read.                                                               *)
(***************************************************************************)
EXTENDS Commerce, FiniteSetTheorems, TLAPS

\* What a call in flight may rely on although its reads are old: captures are
\* never undone, an owner is never removed, an order never disappears.
CallOK(k) ==
  /\ k.at # "idle" => order # "none"
  /\ k.at \in {"cash.claim", "mark.claim", "won", "lost", "mark.lost",
               "mark.paid", "refund"} => k.pay \in captured
  /\ k.at \in {"webhook", "replay"} =>
       /\ k.pay \in Payments /\ k.to \in PaymentStates
       /\ k.was \in Settled => k.pay \in captured
  /\ k.at \in {"advance.vend", "advance.order"} => captured # {}
  /\ k.at = "advance.vend" => k.lines \in Addresses
  /\ k.at = "confirm" => [key |-> k.key, lines |-> k.lines] \in Reports
  /\ k.at = "refund" => k.key \in RefundKeys
  /\ k.at \in {"won", "lost", "mark.lost"} \/ k.winner # None => winner # None
  /\ Arbitration /\ (k.at \in {"mark.paid", "advance.order"} \/ k.status = "paid")
       => winner # None

\* What the calls will find.
SettledIsCaptured == \A p \in Payments : pay[p] \in Settled => p \in captured
NothingBeforeOrder ==
  order = "none" => /\ \A l \in Lines : vend[l] = "none"
                    /\ \A p \in Payments : pay[p] = "none"

\* Every movement was made for a report: under its key, from the slot it addresses.
MovesReported ==
  \A m \in moves : \E r \in Reports : m.key = r.key /\ \E l \in r.lines : m.slot = Slot[l]

GoodsOK == DispensedMeansMoved /\ MovesReported

StateOK == /\ SettledIsCaptured /\ NothingBeforeOrder
           /\ OwnedByCapture /\ MoneyFirst /\ PaidHasWinner /\ GoodsOK

IInv == TypeOK /\ StateOK /\ \A c \in Callers : CallOK(call[c])

-----------------------------------------------------------------------------
(* Calls. *)

\* A call that has not started relies on nothing.
LEMMA IdleIsCall == Idle \in CallRecords /\ CallOK(Idle)
  BY CallsAssumption DEF Idle, CallOK, CallRecords, At, OrderStatuses, None, Terminal, PaymentStates

\* A step of one call leaves what the others rely on.
LEMMA OtherCalls ==
  ASSUME NEW c \in Callers,
         \A d \in Callers : CallOK(call[d]),
         \A d \in Callers : d # c => call'[d] = call[d],
         CallOK(call[c])',
         captured \subseteq captured',
         winner # None => winner' # None,
         order # "none" => order' # "none"
  PROVE  \A d \in Callers : CallOK(call[d])'
  <1> SUFFICES ASSUME NEW d \in Callers, d # c PROVE CallOK(call[d])'
    OBVIOUS
  <1>1. CallOK(call[d]) /\ call'[d] = call[d]
    OBVIOUS
  <1> QED BY <1>1 DEF CallOK

\* A step that closes no line and completes no order needs no new movement.
LEMMA GoodsKept ==
  ASSUME GoodsOK, moves' = moves,
         \A l \in Lines : vend'[l] = "success" => vend[l] = "success",
         order' = "completed" => order = "completed"
  PROVE  GoodsOK'
  BY DEF GoodsOK, DispensedMeansMoved, MovesReported, TookStock, Spent

\* The lines a request addresses lie in one slot.
LEMMA AddressSlot ==
  ASSUME NEW S \in Addresses
  PROVE  S \subseteq Lines /\ \A l, m \in S : Slot[m] = Slot[l]
  BY DEF Addresses

\* A report's record, as the handler passes it on.
LEMMA ReportType ==
  ASSUME NEW r \in Reports
  PROVE  /\ r.key \in Keys /\ r.lines \in Addresses
         /\ r = [key |-> r.key, lines |-> r.lines]
  BY LinesAssumption

\* Steps that only read.
Reads(c) ==
  \/ \E op \in ReadOperations : ReadOrder(c, op)
  \/ CallEnds(c) \/ CheckCancel(c) \/ WebhookUniqueViolation(c)
  \/ \E p \in Payments : ResolveForMark(c, p)
  \/ \E p \in Payments, to \in Targets : ReceiveWebhook(c, p, to)
  \/ \E S \in Addresses : CheckVend(c, S)
  \/ \E r \in Reports : ConfirmVendSuccess(c, r)
  \/ \E k \in RefundKeys, p \in Payments : CheckRefund(c, k, p)

\* They leave a call record that is right about the present.
LEMMA ReadStep ==
  ASSUME IInv, NEW c \in Callers, Reads(c)
  PROVE  /\ call' \in [Callers -> CallRecords]
         /\ CallOK(call'[c])
         /\ \A d \in Callers : d # c => call'[d] = call[d]
         /\ UNCHANGED <<order, money, goods, refunds, cases>>
  <1> DEFINE Good(r) == r \in CallRecords /\ CallOK(r)
             Goal == /\ call' \in [Callers -> CallRecords]
                     /\ CallOK(call'[c])
                     /\ \A d \in Callers : d # c => call'[d] = call[d]
                     /\ UNCHANGED <<order, money, goods, refunds, cases>>
  <1>a. Good(call[c]) /\ Good(Idle) /\ call \in [Callers -> CallRecords]
    BY IdleIsCall DEF IInv, TypeOK
  <1>b. ASSUME NEW r, Good(r), call' = [call EXCEPT ![c] = r],
               UNCHANGED <<order, money, goods, refunds, cases>>
        PROVE  Goal
    BY <1>a, <1>b
  <1> HIDE DEF Goal
  <1>1. ASSUME NEW op \in ReadOperations, ReadOrder(c, op) PROVE Goal
    <2> DEFINE r == [Idle EXCEPT !.at = op,
                 !.status = IF op = "advance" THEN order ELSE "none",
                 !.winner = IF op = "mark" THEN winner ELSE None]
    <2>1. r \in CallRecords
      BY ZenonT(40) DEF Idle, None, PaymentStates, IInv, TypeOK, CallRecords, ReadOperations, At, OrderStatuses
    <2>2. CallOK(r)
      BY <1>1 DEF ReadOrder, IInv, StateOK, PaidHasWinner, CallOK, ReadOperations, Idle, None
    <2> QED BY <1>1, <1>b, <2>1, <2>2 DEF ReadOrder
  <1>2. ASSUME CallEnds(c) PROVE Goal
    BY <1>2, <1>a, <1>b DEF CallEnds, Returns
  <1>3. ASSUME CheckCancel(c) PROVE Goal
    <2> DEFINE r == [call[c] EXCEPT !.at = "cancel.write"]
    <2>1. r \in CallRecords
      BY <1>a DEF CallRecords, At
    <2>2. CallOK(r)
      BY <1>a, <1>3 DEF CheckCancel, CallRecords, CallOK
    <2> QED BY <1>3, <1>b, <2>1, <2>2 DEF CheckCancel, Moves
  <1>4. ASSUME WebhookUniqueViolation(c) PROVE Goal
    <2> DEFINE r == [call[c] EXCEPT !.at = "replay", !.was = pay[call[c].pay], !.status = order]
    <2>1. call[c].pay \in Payments /\ order # "none"
      BY <1>a, <1>4 DEF WebhookUniqueViolation, CallOK
    <2>2. r \in CallRecords
      BY <1>a, <2>1 DEF IInv, TypeOK, CallRecords, At
    <2>3. CallOK(r)
      BY <1>a, <1>4, <2>1 DEF WebhookUniqueViolation, IInv, TypeOK, StateOK, SettledIsCaptured,
         PaidHasWinner, CallRecords, CallOK
    <2> QED BY <1>4, <1>b, <2>2, <2>3 DEF WebhookUniqueViolation
  <1>5. ASSUME NEW p \in Payments, ResolveForMark(c, p) PROVE Goal
    <2> DEFINE step == IF Arbitration /\ call[c].winner = None
                       THEN "mark.claim" ELSE "mark.paid"
               r == [call[c] EXCEPT !.pay = p, !.at = step]
    <2>0. step \in At
      BY DEF At
    <2>1. r \in CallRecords
      <3> HIDE DEF step
      <3> QED BY <1>a, <2>0 DEF CallRecords
    <2>2. p \in captured
      BY <1>5 DEF ResolveForMark, IInv, StateOK, SettledIsCaptured, Settled
    <2>3. CallOK(r)
      BY <1>a, <1>5, <2>2 DEF ResolveForMark, CallRecords, CallOK
    <2> QED BY <1>5, <1>b, <2>1, <2>3 DEF ResolveForMark
  <1>6. ASSUME NEW p \in Payments, NEW to \in Targets, ReceiveWebhook(c, p, to) PROVE Goal
    <2> DEFINE r == [Idle EXCEPT
                       !.at = IF <<p, to>> \in applied THEN "replay" ELSE "webhook",
                       !.pay = p, !.to = to, !.was = pay[p],
                       !.status = order, !.winner = winner]
    <2>0. /\ order \in OrderStatuses /\ winner \in Payments \cup {None}
          /\ pay[p] \in PaymentStates \cup {"none"} /\ to \in PaymentStates
      BY CallsAssumption DEF IInv, TypeOK
    <2>1. r \in CallRecords
      BY <2>0 DEF Idle, CallRecords, At
    <2>2. order # "none" /\ (pay[p] \in Settled => p \in captured) /\ to \in PaymentStates
      BY <1>6, CallsAssumption DEF ReceiveWebhook, Exists, IInv, StateOK, NothingBeforeOrder, SettledIsCaptured
    <2>3. CallOK(r)
      BY <2>2 DEF IInv, StateOK, PaidHasWinner, Idle, CallOK
    <2> QED BY <1>6, <1>b, <2>1, <2>3 DEF ReceiveWebhook
  <1>7. ASSUME NEW S \in Addresses, CheckVend(c, S) PROVE Goal
    <2> DEFINE r == [call[c] EXCEPT !.at = "advance.vend", !.lines = S]
    <2>0. S \in SUBSET Lines
      BY AddressSlot
    <2>1. r \in CallRecords
      BY <1>a, <2>0 DEF CallRecords, At
    <2>2. captured # {}
      BY <1>7 DEF CheckVend, IInv, StateOK, SettledIsCaptured
    <2>3. CallOK(r)
      BY <1>a, <1>7, <2>2 DEF CheckVend, CallRecords, CallOK
    <2> QED BY <1>7, <1>b, <2>1, <2>3 DEF CheckVend
  <1>8. ASSUME NEW q \in Reports, ConfirmVendSuccess(c, q) PROVE Goal
    <2> DEFINE r == [Idle EXCEPT !.at = "confirm", !.key = q.key, !.lines = q.lines]
    <2>0. q.key \in Keys /\ q.lines \in SUBSET Lines
      BY ReportType, AddressSlot
    <2>1. r \in CallRecords
      BY <2>0 DEF Idle, None, CallRecords, At, OrderStatuses, PaymentStates
    <2>2. [key |-> q.key, lines |-> q.lines] \in Reports
      BY ReportType
    <2>3. CallOK(r)
      BY <1>8, <2>2 DEF ConfirmVendSuccess, Idle, CallOK
    <2> QED BY <1>8, <1>b, <2>1, <2>3 DEF ConfirmVendSuccess
  <1>9. ASSUME NEW k \in RefundKeys, NEW p \in Payments, CheckRefund(c, k, p) PROVE Goal
    <2> DEFINE r == [Idle EXCEPT !.at = "refund", !.key = k, !.pay = p]
    <2>1. r \in CallRecords
      BY DEF Idle, None, CallRecords, At, OrderStatuses, PaymentStates
    <2>2. p \in captured /\ order # "none"
      BY <1>9 DEF CheckRefund, Settled, IInv, StateOK, SettledIsCaptured, NothingBeforeOrder
    <2>3. CallOK(r)
      BY <2>2 DEF Idle, CallOK
    <2> QED BY <1>9, <1>b, <2>1, <2>3 DEF CheckRefund
  <1>10. Goal
    BY <1>1, <1>2, <1>3, <1>4, <1>5, <1>6, <1>7, <1>8, <1>9 DEF Reads
  <1> QED BY <1>10 DEF Goal

\* A step that only reads keeps the invariant.
LEMMA ReadsKeep ==
  ASSUME IInv, NEW c \in Callers, Reads(c)
  PROVE  IInv'
  <1>1. /\ call' \in [Callers -> CallRecords]
        /\ CallOK(call'[c])
        /\ \A d \in Callers : d # c => call'[d] = call[d]
        /\ UNCHANGED <<order, money, goods, refunds, cases>>
    BY ReadStep
  <1>2. TypeOK'
    BY <1>1 DEF IInv, TypeOK, money, goods
  <1>3. StateOK'
    BY <1>1, GoodsKept DEF IInv, StateOK, SettledIsCaptured, NothingBeforeOrder, OwnedByCapture, MoneyFirst,
       PaidHasWinner, money, goods
  <1>4. CallOK(call[c])'
    BY <1>1 DEF CallOK, money
  <1>5. \A d \in Callers : CallOK(call[d])'
    BY <1>1, <1>4, OtherCalls DEF IInv, money
  <1> QED BY <1>2, <1>3, <1>5 DEF IInv

-----------------------------------------------------------------------------
(* Orders and payment attempts. *)

\* A call that returns relies on nothing any more.
LEMMA AfterReturn ==
  ASSUME IInv, NEW c \in Callers, Returns(c),
         captured \subseteq captured',
         winner # None => winner' # None,
         order # "none" => order' # "none"
  PROVE  /\ call' \in [Callers -> CallRecords]
         /\ \A d \in Callers : CallOK(call[d])'
  <1>1. /\ call \in [Callers -> CallRecords] /\ \A d \in Callers : CallOK(call[d])
        /\ call' = [call EXCEPT ![c] = Idle]
    BY DEF IInv, TypeOK, Returns
  <1>2. call' \in [Callers -> CallRecords]
    BY <1>1, IdleIsCall
  <1>3. CallOK(call[c])'
    BY <1>1 DEF Idle, CallOK
  <1> QED BY <1>1, <1>2, <1>3, OtherCalls

\* One lemma per action that writes: it keeps the inductive invariant.
LEMMA CreateOrderKeeps ==
  ASSUME IInv, CreateOrder
  PROVE  IInv'
  <1>1. TypeOK'
    BY DEF CreateOrder, IInv, TypeOK, OrderStatuses, VendStates, money
  <1>2. StateOK'
    <2>1. GoodsOK'
      BY GoodsKept DEF CreateOrder, IInv, StateOK
    <2> QED BY <2>1 DEF CreateOrder, IInv, StateOK, SettledIsCaptured, NothingBeforeOrder,
            OwnedByCapture, MoneyFirst, PaidHasWinner, money
  <1>3. \A d \in Callers : CallOK(call[d])'
    BY DEF CreateOrder, IInv, CallOK, money
  <1> QED BY <1>1, <1>2, <1>3 DEF IInv

\* A new attempt is not settled, so nothing new counts as captured.
LEMMA CreatePaymentSessionKeeps ==
  ASSUME IInv, NEW c \in Callers, NEW p \in Payments, CreatePaymentSession(c, p)
  PROVE  IInv'
  <1>1. /\ call' \in [Callers -> CallRecords] /\ \A d \in Callers : CallOK(call[d])'
    BY AfterReturn DEF CreatePaymentSession
  <1>2. TypeOK'
    BY <1>1 DEF CreatePaymentSession, InsertPayment, IInv, TypeOK, PaymentStates, Outcomes, goods
  <1>3. StateOK'
    <2>1. order # "none"
      BY DEF CreatePaymentSession, IInv, CallOK
    <2>2. SettledIsCaptured' /\ NothingBeforeOrder'
      BY <2>1 DEF CreatePaymentSession, InsertPayment, IInv, TypeOK, StateOK, SettledIsCaptured,
         NothingBeforeOrder, Settled
    <2>3. OwnedByCapture'
      BY DEF CreatePaymentSession, InsertPayment, IInv, TypeOK, StateOK, OwnedByCapture
    <2>4. MoneyFirst' /\ PaidHasWinner' /\ GoodsOK'
      BY GoodsKept DEF CreatePaymentSession, IInv, StateOK, MoneyFirst, PaidHasWinner, goods
    <2> QED BY <2>2, <2>3, <2>4 DEF StateOK
  <1> QED BY <1>1, <1>2, <1>3 DEF IInv

\* A session opened in a settled state counts as a capture.
LEMMA StartPaymentWithOutboxKeeps ==
  ASSUME IInv, NEW p \in Payments, NEW state \in PaymentStates, StartPaymentWithOutbox(p, state)
  PROVE  IInv'
  <1>1. /\ order # "none" /\ captured' \in {captured, captured \cup {p}}
        /\ state \in Settled => p \in captured'
        /\ pay' = [pay EXCEPT ![p] = state] /\ outcome' = [outcome EXCEPT ![p] = "pending"]
        /\ UNCHANGED <<order, winner, cash, applied, goods, refunds, cases, call>>
    BY DEF StartPaymentWithOutbox, InsertPayment
  <1>2. captured \subseteq captured' /\ captured' \in SUBSET Payments
    BY <1>1 DEF IInv, TypeOK
  <1>3. TypeOK'
    BY <1>1, <1>2 DEF IInv, TypeOK, Outcomes, goods
  <1>4. SettledIsCaptured' /\ NothingBeforeOrder'
    BY <1>1, <1>2 DEF IInv, TypeOK, StateOK, SettledIsCaptured, NothingBeforeOrder
  <1>5. OwnedByCapture'
    BY <1>1, <1>2 DEF IInv, TypeOK, StateOK, OwnedByCapture
  <1>6. MoneyFirst' /\ PaidHasWinner' /\ GoodsOK'
    BY <1>1, <1>2, GoodsKept DEF IInv, StateOK, MoneyFirst, PaidHasWinner, goods
  <1>7. \A d \in Callers : CallOK(call[d])'
    BY <1>1, <1>2 DEF IInv, CallOK
  <1> QED BY <1>3, <1>4, <1>5, <1>6, <1>7 DEF IInv, StateOK

\* CancelPaymentByID leaves no payment settled that was not.
LEMMA CancelPaymentSessionKeeps ==
  ASSUME IInv, NEW c \in Callers, NEW p \in Payments, CancelPaymentSession(c, p)
  PROVE  IInv'
  <1>1. /\ call' \in [Callers -> CallRecords] /\ \A d \in Callers : CallOK(call[d])'
    BY AfterReturn DEF CancelPaymentSession
  <1>2. TypeOK'
    BY <1>1 DEF CancelPaymentSession, IInv, TypeOK, PaymentStates, Outcomes, goods
  <1>3. StateOK'
    <2>1. order # "none"
      BY DEF CancelPaymentSession, IInv, CallOK
    <2>2. SettledIsCaptured' /\ NothingBeforeOrder'
      BY <2>1 DEF CancelPaymentSession, IInv, TypeOK, StateOK, SettledIsCaptured,
         NothingBeforeOrder, Settled
    <2>3. OwnedByCapture'
      BY DEF CancelPaymentSession, IInv, TypeOK, StateOK, OwnedByCapture
    <2>4. MoneyFirst' /\ PaidHasWinner' /\ GoodsOK'
      BY GoodsKept DEF CancelPaymentSession, IInv, StateOK, MoneyFirst, PaidHasWinner, goods
    <2> QED BY <2>2, <2>3, <2>4 DEF StateOK
  <1> QED BY <1>1, <1>2, <1>3 DEF IInv

\* The cash payment is captured as it is inserted, so the call may claim with it.
LEMMA ConfirmCashKeeps ==
  ASSUME IInv, NEW c \in Callers, NEW p \in Payments, ConfirmCash(c, p)
  PROVE  IInv'
  <1> DEFINE step == IF Arbitration THEN "cash.claim" ELSE "captured"
             r == [Idle EXCEPT !.pay = p, !.at = step]
  <1>0. step \in {"cash.claim", "captured"} /\ order # "none"
    BY DEF ConfirmCash, IInv, CallOK
  <1>1. /\ call' = [call EXCEPT ![c] = r] /\ captured' = captured \cup {p}
        /\ UNCHANGED <<order, winner, applied, goods, refunds, cases>>
    BY DEF ConfirmCash
  <1> HIDE DEF step
  <1>2. r \in CallRecords
    BY <1>0 DEF Idle, None, CallRecords, At, OrderStatuses, PaymentStates
  <1>3. CallOK(r)'
    BY <1>0, <1>1 DEF Idle, CallOK
  <1>4. call' \in [Callers -> CallRecords] /\ \A d \in Callers : CallOK(call[d])'
    <2> HIDE DEF r
    <2>1. call \in [Callers -> CallRecords] /\ \A d \in Callers : CallOK(call[d])
      BY DEF IInv, TypeOK
    <2>2. call' \in [Callers -> CallRecords] /\ call'[c] = r'
      BY <1>1, <1>2, <2>1 DEF r
    <2> QED BY <1>1, <1>3, <2>1, <2>2, OtherCalls
  <1>5. p \in captured' /\ captured \subseteq captured'
    BY <1>1
  <1>6. TypeOK'
    <2>1. /\ pay' \in [Payments -> PaymentStates \cup {"none"}]
          /\ outcome' \in [Payments -> Outcomes]
      BY DEF ConfirmCash, InsertPayment, IInv, TypeOK, PaymentStates, Outcomes
    <2>2. cash' \in SUBSET Payments /\ captured' \in SUBSET Payments
      BY DEF ConfirmCash, IInv, TypeOK
    <2> QED BY <1>1, <1>4, <2>1, <2>2 DEF IInv, TypeOK, goods
  <1>7. SettledIsCaptured' /\ NothingBeforeOrder'
    <2>1. \A q \in Payments : q # p => pay'[q] = pay[q]
      BY DEF ConfirmCash, InsertPayment, IInv, TypeOK
    <2> QED BY <1>0, <1>1, <1>5, <2>1 DEF IInv, StateOK, SettledIsCaptured, NothingBeforeOrder
  <1>8. OwnedByCapture'
    <2>1. \A q \in Payments : q # p => outcome'[q] = outcome[q]
      BY DEF ConfirmCash, InsertPayment, IInv, TypeOK
    <2> QED BY <1>1, <1>5, <2>1 DEF IInv, StateOK, OwnedByCapture
  <1>9. MoneyFirst' /\ PaidHasWinner' /\ GoodsOK'
    BY <1>1, <1>5, GoodsKept DEF IInv, StateOK, MoneyFirst, PaidHasWinner, goods
  <1> QED BY <1>4, <1>6, <1>7, <1>8, <1>9 DEF IInv, StateOK

-----------------------------------------------------------------------------
(* The order's status. *)

\* The unconditional UPDATEs of orders.status.
WritesStatus(c) == CancelOrder(c) \/ MarkOrderUnknown(c) \/ MarkOrderPaid(c) \/ MarkOrderVending(c)

\* CancelOrder, MarkOrderUnknown, MarkOrderPaid and MarkOrderVending overwrite the
\* status; what their call relies on makes the new one right.
LEMMA WritesStatusKeeps ==
  ASSUME IInv, NEW c \in Callers, WritesStatus(c)
  PROVE  IInv'
  <1>0. CallOK(call[c])
    BY DEF IInv
  <1>1. /\ order' \in {"cancelled", "unknown", "paid", "vending"}
        /\ order' \in {"paid", "vending"} => captured # {} /\ (Arbitration => winner # None)
        /\ order # "none" /\ Returns(c) /\ UNCHANGED <<money, goods, refunds, cases>>
    BY <1>0 DEF WritesStatus, CancelOrder, MarkOrderUnknown, MarkOrderPaid, MarkOrderVending, CallOK
  <1>2. call' \in [Callers -> CallRecords] /\ \A d \in Callers : CallOK(call[d])'
    BY <1>1, AfterReturn DEF money
  <1>3. TypeOK'
    BY <1>1, <1>2 DEF IInv, TypeOK, OrderStatuses, Terminal, money, goods
  <1>4. StateOK'
    <2>1. SettledIsCaptured' /\ NothingBeforeOrder' /\ OwnedByCapture'
      BY <1>1 DEF IInv, StateOK, SettledIsCaptured, NothingBeforeOrder, OwnedByCapture, money
    <2>2. MoneyFirst' /\ PaidHasWinner' /\ GoodsOK'
      BY <1>1, GoodsKept DEF IInv, StateOK, MoneyFirst, PaidHasWinner, money, goods
    <2> QED BY <2>1, <2>2 DEF StateOK
  <1> QED BY <1>2, <1>3, <1>4 DEF IInv

-----------------------------------------------------------------------------
(* Promotion. *)

\* A claim by a captured payment, for an order that exists.
LEMMA ClaimKeeps ==
  ASSUME IInv, NEW p \in captured', captured \subseteq captured', order # "none",
         \/ ClaimWinningPayment(p)
         \/ winner # None /\ order' = "paid" /\ UNCHANGED winner
         \/ UNCHANGED <<order, winner>>,
         captured' \subseteq Payments
  PROVE  /\ order' \in OrderStatuses /\ winner' \in Payments \cup {None}
         /\ order' # "none"
         /\ winner # None => winner' = winner
         /\ winner' # None => winner' \in captured'
         /\ order' = "completed" => order = "completed"
         /\ order' \in {"paid", "vending", "completed", "partially_completed", "failed"}
              => captured' # {}
         /\ PaidHasWinner'
  <1>1. /\ order \in OrderStatuses /\ winner \in Payments \cup {None}
        /\ winner # None => winner \in captured
        /\ PaidHasWinner
        /\ order \in {"paid", "vending", "completed", "partially_completed", "failed"}
             => captured # {}
    BY DEF IInv, TypeOK, StateOK, OwnedByCapture, MoneyFirst
  <1>2. p # None
    BY PaymentsAssumption DEF None
  <1> QED BY <1>1, <1>2 DEF ClaimWinningPayment, PaidHasWinner, OrderStatuses, Terminal

\* The claim gives the order to a captured payment, or finds an owner.
LEMMA AttemptWinningPaymentClaimKeeps ==
  ASSUME IInv, NEW c \in Callers, AttemptWinningPaymentClaim(c)
  PROVE  IInv'
  <1> DEFINE p == call[c].pay
  <1>0. /\ CallOK(call[c]) /\ call[c] \in CallRecords
        /\ call \in [Callers -> CallRecords] /\ \A d \in Callers : CallOK(call[d])
    BY DEF IInv, TypeOK
  <1>1. /\ p \in captured /\ order # "none"
        /\ UNCHANGED <<pay, outcome, cash, applied, captured, goods, refunds, cases>>
    BY <1>0 DEF AttemptWinningPaymentClaim, CallOK
  <1>2. captured' = captured /\ captured \subseteq Payments
    BY <1>1 DEF IInv, TypeOK
  <1>3. \/ ClaimWinningPayment(p)
        \/ UNCHANGED <<order, winner>>
    BY DEF AttemptWinningPaymentClaim
  <1>4. /\ order' \in OrderStatuses /\ winner' \in Payments \cup {None}
        /\ order' # "none"
        /\ winner # None => winner' = winner
        /\ winner' # None => winner' \in captured'
        /\ order' = "completed" => order = "completed"
        /\ order' \in {"paid", "vending", "completed", "partially_completed", "failed"}
             => captured' # {}
        /\ PaidHasWinner'
    <2> HIDE DEF p
    <2> QED BY <1>1, <1>2, <1>3, ClaimKeeps
  <1>5. \E step \in {"won", "lost", "mark.lost"} : Moves(c, step) /\ winner' # None
    <2>1. p # None
      BY <1>1, <1>2, PaymentsAssumption DEF None
    <2> QED BY <2>1 DEF AttemptWinningPaymentClaim, ClaimWinningPayment
  <1>6. call' \in [Callers -> CallRecords] /\ CallOK(call[c])'
    BY <1>0, <1>1, <1>4, <1>5 DEF Moves, CallRecords, At, CallOK
  <1>7. \A d \in Callers : CallOK(call[d])'
    BY <1>0, <1>2, <1>4, <1>5, <1>6, OtherCalls DEF Moves
  <1>8. TypeOK'
    BY <1>1, <1>4, <1>6 DEF IInv, TypeOK, goods
  <1>9. StateOK'
    <2>1. SettledIsCaptured' /\ NothingBeforeOrder' /\ OwnedByCapture'
      BY <1>1, <1>4 DEF IInv, StateOK, SettledIsCaptured, NothingBeforeOrder, OwnedByCapture
    <2>2. MoneyFirst' /\ GoodsOK'
      BY <1>1, <1>4, GoodsKept DEF IInv, StateOK, MoneyFirst, goods
    <2> QED BY <1>4, <2>1, <2>2 DEF StateOK
  <1> QED BY <1>7, <1>8, <1>9 DEF IInv

\* The outcome is written for the payment that claimed or lost.
LEMMA RecordOutcomeKeeps ==
  ASSUME IInv, NEW c \in Callers, RecordWin(c) \/ RecordLoss(c)
  PROVE  IInv'
  <1> DEFINE p == call[c].pay
  <1>0. /\ CallOK(call[c]) /\ call[c] \in CallRecords
        /\ call \in [Callers -> CallRecords] /\ \A d \in Callers : CallOK(call[d])
    BY DEF IInv, TypeOK
  <1>1. /\ p \in captured /\ p \in Payments /\ winner # None /\ order # "none"
        /\ outcome' = [outcome EXCEPT ![p] = outcome'[p]]
        /\ outcome'[p] \in Outcomes
        /\ UNCHANGED <<order, winner, pay, cash, applied, captured, goods, refunds>>
    BY <1>0 DEF RecordWin, RecordLoss, SetOutcome, CallOK, IInv, TypeOK, Outcomes
  <1>2. cases' \in SUBSET (CaseTypes \X Payments)
    BY <1>1 DEF RecordWin, RecordLoss, MayOpenCase, CaseTypes, IInv, TypeOK
  <1>3. Returns(c) \/ (call[c].at = "mark.lost" /\ Moves(c, "mark.paid"))
    BY DEF RecordWin, RecordLoss
  <1>4. call' \in [Callers -> CallRecords] /\ \A d \in Callers : CallOK(call[d])'
    <2>1. CASE Returns(c)
      BY <1>1, <2>1, AfterReturn
    <2>2. CASE call[c].at = "mark.lost" /\ Moves(c, "mark.paid")
      <3>1. call' \in [Callers -> CallRecords] /\ CallOK(call[c])'
        BY <1>0, <1>1, <2>2 DEF Moves, CallRecords, At, CallOK
      <3> QED BY <1>0, <1>1, <2>2, <3>1, OtherCalls DEF Moves
    <2> QED BY <1>3, <2>1, <2>2
  <1>5. TypeOK'
    BY <1>1, <1>2, <1>4 DEF IInv, TypeOK, goods
  <1>6. StateOK'
    <2>1. OwnedByCapture'
      BY <1>1 DEF IInv, TypeOK, StateOK, OwnedByCapture
    <2>2. SettledIsCaptured' /\ NothingBeforeOrder' /\ MoneyFirst' /\ PaidHasWinner' /\ GoodsOK'
      BY <1>1, GoodsKept DEF IInv, StateOK, SettledIsCaptured, NothingBeforeOrder, MoneyFirst, PaidHasWinner, goods
    <2> QED BY <2>1, <2>2 DEF StateOK
  <1> QED BY <1>4, <1>5, <1>6 DEF IInv

\* The provider probe captures before it promotes.
LEMMA ReconciledKeeps ==
  ASSUME IInv, NEW c \in Callers, NEW p \in Payments, NEW to \in Targets,
         ApplyReconciledPaymentTransition(c, p, to)
  PROVE  IInv'
  <1>0. /\ CallOK(call[c]) /\ call[c] \in CallRecords
        /\ call \in [Callers -> CallRecords] /\ \A d \in Callers : CallOK(call[d])
    BY DEF IInv, TypeOK
  <1>1. /\ pay' = [pay EXCEPT ![p] = to]
        /\ to \in PaymentStates /\ order # "none"
        /\ to \in Settled => p \in captured'
        /\ captured' \in {captured, captured \cup {p}}
        /\ call[c].at = "idle"
        /\ Moves(c, "captured") \/ UNCHANGED call
        /\ UNCHANGED <<order, winner, outcome, cash, applied, goods, refunds, cases>>
    BY CallsAssumption DEF ApplyReconciledPaymentTransition, IInv, StateOK, NothingBeforeOrder, Settled
  <1>2. captured \subseteq captured' /\ captured' \in SUBSET Payments
    BY <1>1 DEF IInv, TypeOK
  <1>3. call' \in [Callers -> CallRecords] /\ \A d \in Callers : CallOK(call[d])'
    <2>1. call' \in [Callers -> CallRecords] /\ CallOK(call[c])'
      BY <1>0, <1>1, <1>2 DEF Moves, CallRecords, At, CallOK
    <2> QED BY <1>0, <1>1, <1>2, <2>1, OtherCalls DEF Moves
  <1>4. TypeOK'
    BY <1>1, <1>2, <1>3 DEF IInv, TypeOK, goods
  <1>5. StateOK'
    <2>1. SettledIsCaptured' /\ NothingBeforeOrder'
      BY <1>1, <1>2 DEF IInv, TypeOK, StateOK, SettledIsCaptured, NothingBeforeOrder
    <2>2. OwnedByCapture' /\ PaidHasWinner'
      BY <1>1, <1>2 DEF IInv, StateOK, OwnedByCapture, PaidHasWinner
    <2>3. MoneyFirst' /\ GoodsOK'
      BY <1>1, <1>2, GoodsKept DEF IInv, StateOK, MoneyFirst, goods
    <2> QED BY <2>1, <2>2, <2>3 DEF StateOK
  <1> QED BY <1>3, <1>4, <1>5 DEF IInv

-----------------------------------------------------------------------------
(* Provider webhooks. *)

\* What the three endings of a webhook have in common.
WebhookEnds(c, p) ==
  /\ p \in Payments /\ order # "none"
  /\ captured' \in {captured, captured \cup {p}}
  /\ \/ UNCHANGED <<order, winner>>
     \/ p \in captured' /\ ClaimWinningPayment(p)
     \/ p \in captured' /\ winner # None /\ order' = "paid" /\ UNCHANGED winner
  /\ \/ UNCHANGED outcome
     \/ p \in captured' /\ \E o \in Outcomes : SetOutcome(p, o)
  /\ pay' \in [Payments -> PaymentStates \cup {"none"}]
  /\ \A q \in Payments : pay'[q] \in Settled => pay[q] \in Settled \/ q \in captured'
  /\ applied' \in SUBSET (Payments \X PaymentStates)
  /\ cases' \in SUBSET (CaseTypes \X Payments)
  /\ Returns(c)
  /\ UNCHANGED <<cash, goods, refunds>>

\* What the webhook transaction does to ownership, in all six of its cases.
LEMMA WebhookStep ==
  ASSUME IInv, NEW c \in Callers,
         RejectWebhook(c) \/ ApplyPaymentProviderWebhook(c) \/ ReplayWebhook(c)
  PROVE  WebhookEnds(c, call[c].pay)
  <1> DEFINE p == call[c].pay
             to == call[c].to
  <1>0. CallOK(call[c])
    BY DEF IInv
  <1>1. /\ p \in Payments /\ to \in PaymentStates /\ order # "none"
        /\ call[c].was \in Settled => p \in captured
    BY <1>0 DEF RejectWebhook, ApplyPaymentProviderWebhook, ReplayWebhook, CallOK
  <1>2. applied \in SUBSET (Payments \X PaymentStates) /\ cases \in SUBSET (CaseTypes \X Payments)
        /\ pay \in [Payments -> PaymentStates \cup {"none"}]
    BY DEF IInv, TypeOK
  <1>3. CASE RejectWebhook(c)
    BY <1>1, <1>2, <1>3 DEF RejectWebhook, MayOpenCase, CaseTypes, money, WebhookEnds
  <1>4. CASE ReplayWebhook(c)
    <2>1. /\ captured' = captured /\ applied' = applied /\ pay' = pay
          /\ Returns(c) /\ UNCHANGED <<cash, goods, refunds>>
          /\ cases' \in SUBSET (CaseTypes \X Payments)
      BY <1>1, <1>2, <1>4 DEF ReplayWebhook, MayOpenCase, CaseTypes
    <2>2. \/ UNCHANGED <<order, winner, outcome>>
          \/ p \in captured /\ ClaimWinningPayment(p) /\ SetOutcome(p, "winner")
          \/ /\ p \in captured /\ winner # None
             /\ order' = "paid" /\ SetOutcome(p, "winner") /\ UNCHANGED winner
      BY <1>1, <1>4 DEF ReplayWebhook, Settled
    <2>3. "winner" \in Outcomes
      BY DEF Outcomes
    <2> QED BY <1>1, <1>2, <2>1, <2>2, <2>3 DEF WebhookEnds
  <1>5. CASE ApplyPaymentProviderWebhook(c)
    <2>1. /\ pay' = [pay EXCEPT ![p] = IF call[c].was = to THEN @ ELSE to]
          /\ captured' = IF to = "captured" THEN captured \cup {p} ELSE captured
          /\ applied' = applied \cup {<<p, to>>}
          /\ WebhookOrderEffect(c, p)
          /\ PaymentTransitionAllowed(call[c].was, to) \/ LateCapture(c)
          /\ Returns(c) /\ UNCHANGED <<cash, goods, refunds>>
      BY <1>5 DEF ApplyPaymentProviderWebhook
    <2>2. captured' \in {captured, captured \cup {p}} /\ (to = "captured" => p \in captured')
      BY <2>1
    <2>3. to \in Settled => p \in captured'
      BY <1>1, <2>1, <2>2 DEF PaymentTransitionAllowed, LateCapture, Settled
    <2>4. /\ pay' \in [Payments -> PaymentStates \cup {"none"}]
          /\ \A q \in Payments : pay'[q] \in Settled => pay[q] \in Settled \/ q \in captured'
      <3>1. CASE call[c].was = to
        BY <1>1, <1>2, <2>1, <3>1
      <3>2. CASE call[c].was # to
        BY <1>1, <1>2, <2>1, <2>3, <3>2
      <3> QED BY <3>1, <3>2
    <2>5. applied' \in SUBSET (Payments \X PaymentStates)
      BY <1>1, <1>2, <2>1
    <2>6. /\ \/ UNCHANGED <<order, winner>>
             \/ p \in captured' /\ ClaimWinningPayment(p)
             \/ p \in captured' /\ winner # None /\ order' = "paid" /\ UNCHANGED winner
          /\ \/ UNCHANGED outcome
             \/ p \in captured' /\ \E o \in Outcomes : SetOutcome(p, o)
      <3>1. "winner" \in Outcomes /\ "refund_required" \in Outcomes
        BY DEF Outcomes
      <3>2. OnTimeCapture(c) \/ LateCapture(c) => p \in captured'
        BY <2>2 DEF OnTimeCapture, LateCapture
      <3> QED BY <2>1, <3>1, <3>2 DEF WebhookOrderEffect
    <2>7. cases' \in SUBSET (CaseTypes \X Payments)
      BY <1>1, <1>2, <2>1 DEF WebhookOrderEffect, CaseTypes
    <2> QED BY <1>1, <2>1, <2>2, <2>4, <2>5, <2>6, <2>7 DEF WebhookEnds
  <1> QED BY <1>3, <1>4, <1>5

\* The webhook transaction keeps the invariant.
LEMMA WebhookKeeps ==
  ASSUME IInv, NEW c \in Callers,
         RejectWebhook(c) \/ ApplyPaymentProviderWebhook(c) \/ ReplayWebhook(c)
  PROVE  IInv'
  <1>0. PICK p \in Payments : WebhookEnds(c, p)
    BY WebhookStep DEF WebhookEnds
  <1>1. /\ order # "none" /\ captured \subseteq captured' /\ captured' \in SUBSET Payments
        /\ cash' = cash /\ vend' = vend /\ moves' = moves /\ refunds' = refunds /\ Returns(c)
    BY <1>0 DEF WebhookEnds, IInv, TypeOK, goods
  <1>2. /\ order' \in OrderStatuses /\ winner' \in Payments \cup {None}
        /\ order' # "none"
        /\ winner # None => winner' = winner
        /\ winner' # None => winner' \in captured'
        /\ order' = "completed" => order = "completed"
        /\ order' \in {"paid", "vending", "completed", "partially_completed", "failed"}
             => captured' # {}
        /\ PaidHasWinner'
    <2>1. CASE p \in captured'
      BY <1>0, <1>1, <2>1, ClaimKeeps DEF WebhookEnds
    <2>2. CASE UNCHANGED <<order, winner>>
      BY <1>1, <2>2 DEF IInv, TypeOK, StateOK, OwnedByCapture, MoneyFirst, PaidHasWinner
    <2> QED BY <1>0, <2>1, <2>2 DEF WebhookEnds
  <1>3. call' \in [Callers -> CallRecords] /\ \A d \in Callers : CallOK(call[d])'
    BY <1>1, <1>2, AfterReturn
  <1>4. TypeOK'
    <2>0. pay' \in [Payments -> PaymentStates \cup {"none"}]
      BY <1>0 DEF WebhookEnds
    <2>1. outcome' \in [Payments -> Outcomes]
      BY <1>0 DEF WebhookEnds, SetOutcome, IInv, TypeOK
    <2>2. applied' \in SUBSET (Payments \X PaymentStates) /\ cases' \in SUBSET (CaseTypes \X Payments)
      BY <1>0 DEF WebhookEnds
    <2> QED BY <1>1, <1>2, <1>3, <2>0, <2>1, <2>2 DEF IInv, TypeOK
  <1>5. SettledIsCaptured' /\ NothingBeforeOrder'
    <2>1. \A q \in Payments : pay'[q] \in Settled => pay[q] \in Settled \/ q \in captured'
      BY <1>0 DEF WebhookEnds
    <2> QED BY <1>1, <1>2, <2>1 DEF IInv, StateOK, SettledIsCaptured, NothingBeforeOrder
  <1>6. OwnedByCapture'
    BY <1>0, <1>1, <1>2 DEF WebhookEnds, SetOutcome, IInv, TypeOK, StateOK, OwnedByCapture
  <1>7. MoneyFirst' /\ GoodsOK'
    BY <1>1, <1>2, GoodsKept DEF IInv, StateOK, MoneyFirst
  <1> QED BY <1>2, <1>3, <1>4, <1>5, <1>6, <1>7 DEF IInv, StateOK
-----------------------------------------------------------------------------
(* Vending and refunds. *)

\* A vend start, however late, follows a capture.
LEMMA AdvanceVendKeeps ==
  ASSUME IInv, NEW c \in Callers, AdvanceVend(c)
  PROVE  IInv'
  <1>0. /\ CallOK(call[c]) /\ call[c] \in CallRecords
        /\ call \in [Callers -> CallRecords] /\ \A d \in Callers : CallOK(call[d])
    BY DEF IInv, TypeOK
  <1>1. /\ captured # {} /\ order # "none"
        /\ call[c].at = "advance.vend"
        /\ vend' = Written(call[c].lines, "in_progress")
        /\ Returns(c) \/ (call[c].status = "paid" /\ Moves(c, "advance.order"))
        /\ UNCHANGED <<order, money, moves, refunds, cases>>
    BY <1>0 DEF AdvanceVend, CallOK
  <1>2. call' \in [Callers -> CallRecords] /\ \A d \in Callers : CallOK(call[d])'
    <2>1. CASE Returns(c)
      BY <1>1, <2>1, AfterReturn DEF money
    <2>2. CASE call[c].status = "paid" /\ Moves(c, "advance.order")
      <3>1. call' \in [Callers -> CallRecords] /\ CallOK(call[c])'
        BY <1>0, <1>1, <2>2 DEF Moves, CallRecords, At, CallOK, money
      <3> QED BY <1>0, <1>1, <2>2, <3>1, OtherCalls DEF Moves, money
    <2> QED BY <1>1, <2>1, <2>2
  <1>3. TypeOK'
    BY <1>1, <1>2 DEF IInv, TypeOK, VendStates, Written, money
  <1>4. StateOK'
    <2>1. SettledIsCaptured' /\ NothingBeforeOrder' /\ OwnedByCapture' /\ MoneyFirst' /\ PaidHasWinner'
      BY <1>1 DEF IInv, StateOK, SettledIsCaptured, NothingBeforeOrder, OwnedByCapture, MoneyFirst,
         PaidHasWinner, money
    <2>2. GoodsOK'
      BY <1>1, GoodsKept DEF IInv, StateOK, Written
    <2> QED BY <2>1, <2>2 DEF StateOK
  <1> QED BY <1>2, <1>3, <1>4 DEF IInv

\* What a report that addresses the lines S leaves; the row it locked is l's.
Closes(S, l, s) ==
  /\ S \in Addresses /\ l \in S /\ vend[l] \in {"in_progress", "success"}
  /\ vend' \in {vend, Written(S, s)}
  /\ order' \in {order, ResolvedStatus(vend')}

\* Money was captured before the line was released; stock has moved if all
\* lines were dispensed.
LEMMA ReportKeeps ==
  ASSUME IInv, NEW S, NEW l, NEW s \in {"success", "failed"}, Closes(S, l, s),
         moves \subseteq moves', MovesReported',
         s = "success" => \A m \in S : TookStock(m)',
         UNCHANGED <<money, refunds>>
  PROVE  /\ StateOK' /\ order' \in OrderStatuses /\ vend' \in [Lines -> VendStates]
         /\ order # "none" /\ order' # "none"
  <1>0. vend \in [Lines -> VendStates] /\ order \in OrderStatuses /\ l \in Lines
    BY AddressSlot DEF IInv, TypeOK, Closes
  <1>1. vend' \in [Lines -> VendStates]
    BY <1>0 DEF Closes, Written, VendStates
  <1>2. captured # {} /\ order # "none"
    BY <1>0 DEF Closes, IInv, StateOK, MoneyFirst, NothingBeforeOrder
  <1>3. order' = order \/ order' \in {"completed", "partially_completed", "failed"}
    BY DEF Closes, ResolvedStatus
  <1>4. \A m \in Lines : TookStock(m) => TookStock(m)'
    BY DEF TookStock, Spent
  <1>5. \A m \in Lines : vend'[m] = "success" => TookStock(m)'
    <2> SUFFICES ASSUME NEW m \in Lines, vend'[m] = "success" PROVE TookStock(m)'
      OBVIOUS
    <2>1. CASE vend[m] = "success"
      BY <1>4, <2>1 DEF IInv, StateOK, GoodsOK, DispensedMeansMoved
    <2>2. CASE vend[m] # "success"
      BY <1>0, <2>2 DEF Closes, Written
    <2> QED BY <2>1, <2>2
  <1>6. GoodsOK'
    <2>1. ASSUME order' = "completed", order # "completed"
          PROVE  \A m \in Lines : vend'[m] = "success"
      BY <2>1 DEF Closes, ResolvedStatus
    <2>2. ASSUME order = "completed" PROVE \A m \in Lines : TookStock(m)'
      BY <1>4, <2>2 DEF IInv, StateOK, GoodsOK, DispensedMeansMoved
    <2> QED BY <1>5, <2>1, <2>2 DEF GoodsOK, DispensedMeansMoved
  <1>7. SettledIsCaptured' /\ NothingBeforeOrder' /\ OwnedByCapture' /\ MoneyFirst' /\ PaidHasWinner'
    BY <1>2, <1>3 DEF IInv, StateOK, SettledIsCaptured, NothingBeforeOrder, OwnedByCapture, MoneyFirst,
       PaidHasWinner, money
  <1>8. order' \in OrderStatuses /\ order' # "none"
    BY <1>0, <1>2, <1>3 DEF OrderStatuses, Terminal
  <1> QED BY <1>1, <1>2, <1>6, <1>7, <1>8 DEF StateOK

\* What a vend success does to lines and stock, for the report r and the row l it locked.
Succeeds(c, r, l) ==
  /\ Closes(r.lines, l, "success") /\ TakeStock(r.key, l)
  /\ Returns(c) /\ UNCHANGED <<money, refunds, cases>>

\* The transaction works on the report its call carries.
LEMMA SuccessStep ==
  ASSUME IInv, NEW c \in Callers, FulfillSuccessfulVendAtomically(c)
  PROVE  \E r \in Reports, l \in Lines : Succeeds(c, r, l)
  <1>1. [key |-> call[c].key, lines |-> call[c].lines] \in Reports
    BY DEF FulfillSuccessfulVendAtomically, IInv, CallOK
  <1>2. PICK r \in Reports : r.key = call[c].key /\ r.lines = call[c].lines
    BY <1>1
  <1>3. r.lines \in Addresses
    BY ReportType
  <1>4. \E l \in r.lines : Succeeds(c, r, l)
    BY <1>2, <1>3 DEF FulfillSuccessfulVendAtomically, Closes, Succeeds
  <1> QED BY <1>3, <1>4, AddressSlot

\* Every line of the report is charged, whether its key was new or spent.
LEMMA SuccessTakesStock ==
  ASSUME IInv, NEW c \in Callers, NEW r \in Reports, NEW l \in Lines, Succeeds(c, r, l)
  PROVE  /\ moves \subseteq moves' /\ MovesReported'
         /\ moves' \in SUBSET [key : Keys, slot : {Slot[m] : m \in Lines}]
         /\ \A m \in r.lines : TookStock(m)'
  <1>1. /\ moves' = IF Spent(r.key) THEN moves ELSE moves \cup {[key |-> r.key, slot |-> Slot[l]]}
        /\ l \in r.lines /\ r.lines \in Addresses /\ r.key \in Keys
    BY ReportType DEF Succeeds, TakeStock, Closes
  <1>2. moves \subseteq moves'
    BY <1>1
  <1>3. moves' \in SUBSET [key : Keys, slot : {Slot[m] : m \in Lines}]
    BY <1>1 DEF IInv, TypeOK
  <1>4. MovesReported'
    BY <1>1 DEF IInv, StateOK, GoodsOK, MovesReported
  <1>5. r.key \in SpentKeys \/ \E mv \in moves' : mv.key = r.key
    <2>1. CASE Spent(r.key)
      BY <1>2, <2>1 DEF Spent
    <2>2. CASE ~Spent(r.key)
      <3>1. [key |-> r.key, slot |-> Slot[l]] \in moves' /\ [key |-> r.key, slot |-> Slot[l]].key = r.key
        BY <1>1, <2>2
      <3> QED BY <3>1
    <2> QED BY <2>1, <2>2
  <1>6. ASSUME NEW m \in r.lines PROVE TookStock(m)'
    <2>1. ASSUME OwnKey(r) PROVE [key |-> r.key, slot |-> Slot[m]] \in moves'
      <3>1. PICK mv \in moves' : mv.key = r.key
        BY <1>5, <2>1 DEF OwnKey
      <3>2. PICK q \in Reports : mv.key = q.key /\ \E n \in q.lines : mv.slot = Slot[n]
        BY <1>4 DEF MovesReported
      <3>3. q = r
        BY <2>1, <3>1, <3>2 DEF OwnKey
      <3>4. mv.slot = Slot[m]
        BY <1>1, <3>2, <3>3, AddressSlot
      <3>5. mv = [key |-> mv.key, slot |-> mv.slot]
        BY <1>3
      <3> QED BY <3>1, <3>4, <3>5
    <2>2. Spent(r.key)'
      BY <1>5 DEF Spent
    <2>3. OwnKey(r)' = OwnKey(r)
      BY DEF OwnKey
    <2> QED BY <2>1, <2>2, <2>3 DEF TookStock
  <1> QED BY <1>2, <1>3, <1>4, <1>6

\* A vend success takes stock for the lines it closes.
LEMMA SuccessKeeps ==
  ASSUME IInv, NEW c \in Callers, FulfillSuccessfulVendAtomically(c)
  PROVE  IInv'
  <1>r. PICK r \in Reports, l \in Lines : Succeeds(c, r, l)
    BY SuccessStep
  <1>1. /\ Closes(r.lines, l, "success") /\ Returns(c) /\ UNCHANGED <<money, refunds, cases>>
    BY <1>r DEF Succeeds
  <1>2. /\ moves \subseteq moves' /\ MovesReported'
        /\ moves' \in SUBSET [key : Keys, slot : {Slot[m] : m \in Lines}]
        /\ \A m \in r.lines : TookStock(m)'
    BY <1>r, SuccessTakesStock
  <1>3. /\ StateOK' /\ order' \in OrderStatuses /\ vend' \in [Lines -> VendStates]
        /\ order # "none" /\ order' # "none"
    <2> DEFINE S == r.lines
    <2>1. Closes(S, l, "success") /\ \A m \in S : TookStock(m)'
      BY <1>1, <1>2
    <2> HIDE DEF S
    <2> QED BY <1>1, <1>2, <2>1, ReportKeeps
  <1>4. call' \in [Callers -> CallRecords] /\ \A d \in Callers : CallOK(call[d])'
    BY <1>1, <1>3, AfterReturn DEF money
  <1>5. TypeOK'
    BY <1>1, <1>2, <1>3, <1>4 DEF IInv, TypeOK, money
  <1> QED BY <1>3, <1>4, <1>5 DEF IInv

\* A vend failure follows a vend start, hence a capture.
LEMMA FailureKeeps ==
  ASSUME IInv, NEW S \in Addresses, FulfillFailedVendAtomically(S)
  PROVE  IInv'
  <1>1. /\ \E l \in S : Closes(S, l, "failed")
        /\ moves' = moves /\ call' = call /\ UNCHANGED <<money, refunds, cases>>
    BY DEF FulfillFailedVendAtomically, Closes
  <1>2. MovesReported'
    BY <1>1 DEF IInv, StateOK, GoodsOK, MovesReported
  <1>3. /\ StateOK' /\ order' \in OrderStatuses /\ vend' \in [Lines -> VendStates]
        /\ order # "none" /\ order' # "none"
    BY <1>1, <1>2, ReportKeeps
  <1>4. TypeOK'
    BY <1>1, <1>3 DEF IInv, TypeOK, money
  <1>5. \A d \in Callers : CallOK(call[d])'
    BY <1>1, <1>3 DEF IInv, CallOK, money
  <1> QED BY <1>3, <1>4, <1>5 DEF IInv

\* A refund row is charged to the captured payment the call resolved.
LEMMA CreateRefundKeeps ==
  ASSUME IInv, NEW c \in Callers, CreateRefund(c)
  PROVE  IInv'
  <1>1. call' \in [Callers -> CallRecords] /\ \A d \in Callers : CallOK(call[d])'
    BY AfterReturn DEF CreateRefund, money
  <1>2. call[c].key \in RefundKeys /\ call[c].pay \in captured
    BY DEF CreateRefund, IInv, CallOK
  <1>3. TypeOK'
    BY <1>1, <1>2 DEF CreateRefund, IInv, TypeOK, money, goods
  <1>4. OwnedByCapture'
    BY <1>2 DEF CreateRefund, IInv, TypeOK, StateOK, OwnedByCapture, money
  <1>5. SettledIsCaptured' /\ NothingBeforeOrder' /\ MoneyFirst' /\ PaidHasWinner' /\ GoodsOK'
    BY GoodsKept DEF CreateRefund, IInv, StateOK, SettledIsCaptured, NothingBeforeOrder, MoneyFirst, PaidHasWinner, money, goods
  <1> QED BY <1>1, <1>3, <1>4, <1>5 DEF IInv, StateOK

-----------------------------------------------------------------------------
(* The invariant. *)

\* Before the order exists no call runs and no money moved.
LEMMA InitOK == Init => IInv
  <1> SUFFICES ASSUME Init PROVE IInv
    OBVIOUS
  <1>1. TypeOK
    BY IdleIsCall DEF Init, TypeOK, OrderStatuses, Outcomes, VendStates
  <1>2. StateOK
    BY DEF Init, StateOK, SettledIsCaptured, NothingBeforeOrder, OwnedByCapture, MoneyFirst,
       PaidHasWinner, GoodsOK, DispensedMeansMoved, MovesReported, Settled
  <1>3. \A c \in Callers : CallOK(call[c])
    BY IdleIsCall DEF Init
  <1> QED BY <1>1, <1>2, <1>3 DEF IInv

\* The steps of Next, by what they write.
LEMMA Steps ==
  ASSUME Next
  PROVE  \/ CreateOrder \/ \E S \in Addresses : FulfillFailedVendAtomically(S)
         \/ \E p \in Payments, state \in PaymentStates : StartPaymentWithOutbox(p, state)
         \/ \E c \in Callers :
              \/ Reads(c) \/ WritesStatus(c)
              \/ \E p \in Payments : \/ CreatePaymentSession(c, p) \/ ConfirmCash(c, p)
                                     \/ CancelPaymentSession(c, p)
              \/ \E p \in Payments, to \in Targets : ApplyReconciledPaymentTransition(c, p, to)
              \/ AttemptWinningPaymentClaim(c) \/ RecordWin(c) \/ RecordLoss(c)
              \/ RejectWebhook(c) \/ ApplyPaymentProviderWebhook(c) \/ ReplayWebhook(c)
              \/ AdvanceVend(c) \/ FulfillSuccessfulVendAtomically(c) \/ CreateRefund(c)
  BY Zenon DEF Next, PaymentCall, Webhook, VendCall, RefundCall, Reads, WritesStatus

\* Every step keeps the inductive invariant.
LEMMA StepOK == IInv /\ [Next]_vars => IInv'
  <1> SUFFICES ASSUME IInv, [Next]_vars PROVE IInv'
    OBVIOUS
  <1>1. CASE UNCHANGED vars
    <2>1. TypeOK'
      BY <1>1 DEF IInv, TypeOK, vars, money, goods
    <2>2. StateOK'
      BY <1>1, GoodsKept DEF IInv, StateOK, SettledIsCaptured, NothingBeforeOrder, OwnedByCapture, MoneyFirst,
         PaidHasWinner, vars, money, goods
    <2>3. \A c \in Callers : CallOK(call[c])'
      BY <1>1 DEF IInv, CallOK, vars, money
    <2> QED BY <2>1, <2>2, <2>3 DEF IInv
  <1>2. CASE CreateOrder
    BY <1>2, CreateOrderKeeps
  <1>3. ASSUME NEW S \in Addresses, FulfillFailedVendAtomically(S) PROVE IInv'
    BY <1>3, FailureKeeps
  <1>o. ASSUME NEW p \in Payments, NEW state \in PaymentStates, StartPaymentWithOutbox(p, state)
        PROVE  IInv'
    BY <1>o, StartPaymentWithOutboxKeeps
  <1>4. ASSUME NEW c \in Callers, NEW p \in Payments,
               CreatePaymentSession(c, p) \/ ConfirmCash(c, p) \/ CancelPaymentSession(c, p)
        PROVE  IInv'
    BY <1>4, CreatePaymentSessionKeeps, ConfirmCashKeeps, CancelPaymentSessionKeeps
  <1>5. ASSUME NEW c \in Callers, NEW p \in Payments, NEW to \in Targets,
               ApplyReconciledPaymentTransition(c, p, to)
        PROVE  IInv'
    BY <1>5, ReconciledKeeps
  <1>6. ASSUME NEW c \in Callers,
               \/ Reads(c) \/ WritesStatus(c)
               \/ AttemptWinningPaymentClaim(c) \/ RecordWin(c) \/ RecordLoss(c)
        PROVE  IInv'
    BY <1>6, ReadsKeep, WritesStatusKeeps, AttemptWinningPaymentClaimKeeps, RecordOutcomeKeeps
  <1>7. ASSUME NEW c \in Callers,
               \/ RejectWebhook(c) \/ ApplyPaymentProviderWebhook(c) \/ ReplayWebhook(c)
               \/ AdvanceVend(c) \/ FulfillSuccessfulVendAtomically(c) \/ CreateRefund(c)
        PROVE  IInv'
    BY <1>7, WebhookKeeps, AdvanceVendKeeps, SuccessKeeps, CreateRefundKeeps
  <1> QED BY <1>1, <1>2, <1>3, <1>o, <1>4, <1>5, <1>6, <1>7, Steps, Zenon

\* The inductive invariant of the commerce service: the properties of the state,
\* and for every call in flight what is still true of its earlier reads.
THEOREM Invariant == Spec => []IInv
  BY InitOK, StepOK, PTL DEF Spec

\* Every column and every call in flight keeps its type: no handler writes a
\* status, a state or an outcome the schema does not know.
THEOREM TypeCorrect == Spec => []TypeOK
  <1>1. IInv => TypeOK
    BY DEF IInv
  <1> QED BY <1>1, Invariant, PTL

\* Nothing is dispensed or regarded as paid before money was captured, for any
\* number of concurrent calls and however old their reads are.
THEOREM PaidBeforeDispense == Spec => []MoneyFirst
  <1>1. IInv => MoneyFirst
    BY DEF IInv, StateOK
  <1> QED BY <1>1, Invariant, PTL

\* Whatever owns the order, wins it, or is due or charged with a refund was
\* captured.
THEOREM OwnershipNeedsCapture == Spec => []OwnedByCapture
  <1>1. IInv => OwnedByCapture
    BY DEF IInv, StateOK
  <1> QED BY <1>1, Invariant, PTL

\* With arbitration on, MarkOrderPaid and AdvanceVend never leave a paid order
\* without an owner; and a CancelOrder that reads an owned order refuses it.
THEOREM PaidOrderIsOwned == Spec => []PaidHasWinner
  <1>1. IInv => PaidHasWinner
    BY DEF IInv, StateOK
  <1> QED BY <1>1, Invariant, PTL

\* Every dispensed line, and every line of a completed order, is covered by a
\* report that took stock (FulfillSuccessfulVendAtomically), from the line's own slot
\* unless the client had used the report's key before; for any slots, reports and
\* keys, and lines that are closed together by their slot share the movement.
THEOREM CompletedTookStock == Spec => []DispensedMeansMoved
  <1>1. IInv => DispensedMeansMoved
    BY DEF IInv, StateOK, GoodsOK
  <1> QED BY <1>1, Invariant, PTL
-----------------------------------------------------------------------------
(* The contract. *)

\* The lines a machine was told to dispense.
Released == {l \in Lines : vend[l] \notin {"none", "pending"}}

\* Steps that touch neither captures, nor the owner, nor the goods.
LEMMA Stutter ==
  ASSUME UNCHANGED <<captured, winner, vend, moves>>
  PROVE  UNCHANGED Money!mvars
  BY DEF Money!mvars

\* Ways a step can be one of the contract: it captures,
LEMMA CaptureStep ==
  ASSUME NEW p \in Payments, captured' \in {captured, captured \cup {p}},
         UNCHANGED <<winner, vend, moves>>
  PROVE  [Money!MNext]_(Money!mvars)
  BY DEF Money!MNext, Money!Capture, Money!mvars

\* or it gives ownership,
LEMMA OwnStep ==
  ASSUME NEW p \in Payments, p \in captured', captured' \in {captured, captured \cup {p}},
         ClaimWinningPayment(p), UNCHANGED <<vend, moves>>
  PROVE  [Money!MNext]_(Money!mvars)
  BY DEF Money!MNext, Money!Own, ClaimWinningPayment

\* or it changes nothing the contract sees.
LEMMA CreateOrderStutters ==
  ASSUME IInv, CreateOrder
  PROVE  UNCHANGED Money!mvars
  <1>1. Released = {} /\ Released' = {}
    BY DEF CreateOrder, IInv, StateOK, NothingBeforeOrder, Released
  <1> QED BY <1>1 DEF CreateOrder, money, Released, Money!mvars

\* A write of lines that one request addresses is a release, if money was captured.
LEMMA ReleaseStep ==
  ASSUME NEW S \in Addresses, S # {}, captured # {}, NEW s \in {"in_progress", "success", "failed"},
         vend' \in {vend, Written(S, s)}, UNCHANGED <<captured, winner, moves>>
  PROVE  [Money!MNext]_(Money!mvars)
  <1>1. PICK l \in Lines : S \in SUBSET Money!OfSlot(Slot[l])
    BY AddressSlot DEF Money!OfSlot
  <1>2. CASE vend' = vend
    BY <1>2, Stutter
  <1>3. CASE vend' = Written(S, s)
    <2>1. Released' = Released \cup S
      BY <1>3, AddressSlot DEF Released, Written
    <2>2. Money!Release(Slot[l])
      BY <1>1, <2>1 DEF Released, Money!Release
    <2> QED BY <2>2 DEF Money!MNext
  <1> QED BY <1>2, <1>3

\* AdvanceVend releases the lines it addresses.
LEMMA AdvanceVendReleases ==
  ASSUME IInv, NEW c \in Callers, AdvanceVend(c)
  PROVE  [Money!MNext]_(Money!mvars)
  <1>1. captured # {} /\ call[c].lines \in Addresses
    BY DEF AdvanceVend, IInv, CallOK
  <1>2. call[c].lines # {}
    BY <1>1 DEF Addresses
  <1>3. vend' = Written(call[c].lines, "in_progress") /\ UNCHANGED <<captured, winner, moves>>
    BY DEF AdvanceVend, money
  <1> DEFINE S == call[c].lines
  <1>4. S \in Addresses /\ S # {} /\ vend' = Written(S, "in_progress")
    BY <1>1, <1>2, <1>3
  <1> HIDE DEF S
  <1> QED BY <1>1, <1>3, <1>4, ReleaseStep

\* A vend success dispenses from a slot with a released line, or takes no stock again.
LEMMA SuccessDispenses ==
  ASSUME IInv, NEW c \in Callers, FulfillSuccessfulVendAtomically(c)
  PROVE  [Money!MNext]_(Money!mvars)
  <1>r. PICK r \in Reports, l \in Lines : Succeeds(c, r, l)
    BY SuccessStep
  <1>s. PICK S \in Addresses : S = r.lines
    BY ReportType
  <1>1. /\ vend[l] \in {"in_progress", "success"} /\ l \in S
        /\ vend' \in {vend, Written(S, "success")}
        /\ UNCHANGED <<captured, winner>> /\ r.key \in Keys
        /\ moves' = IF Spent(r.key) THEN moves ELSE moves \cup {[key |-> r.key, slot |-> Slot[l]]}
    BY <1>r, <1>s, ReportType DEF Succeeds, Closes, TakeStock, money
  <1>2. captured # {}
    BY <1>1 DEF IInv, StateOK, MoneyFirst
  <1>3. CASE Spent(r.key)
    BY <1>1, <1>2, <1>3, ReleaseStep
  <1>4. CASE ~Spent(r.key)
    <2>1. l \in Released \cap Money!OfSlot(Slot[l])
      BY <1>1 DEF Released, Money!OfSlot
    <2>2. \E T \in SUBSET Money!OfSlot(Slot[l]) : Released' = Released \cup T
      <3>1. CASE vend' = vend
        <4>1. {} \in SUBSET Money!OfSlot(Slot[l]) /\ Released' = Released \cup {}
          BY <3>1 DEF Released
        <4> QED BY <4>1
      <3>2. CASE vend' = Written(S, "success")
        <4>1. S \in SUBSET Money!OfSlot(Slot[l])
          BY <1>1, AddressSlot DEF Money!OfSlot
        <4>2. Released' = Released \cup S
          BY <3>2, AddressSlot DEF Released, Written
        <4> QED BY <4>1, <4>2
      <3> QED BY <1>1, <3>1, <3>2
    <2>3. \A m \in moves : m.key # r.key
      BY <1>4 DEF Spent
    <2>4. Money!Dispense(r.key, Slot[l])
      BY <1>1, <1>4, <2>1, <2>2, <2>3 DEF Released, Money!Dispense
    <2> QED BY <1>1, <2>4 DEF Money!MNext
  <1> QED BY <1>3, <1>4

\* A vend failure may close lines of the slot that were never started.
LEMMA FailureReleases ==
  ASSUME IInv, NEW S \in Addresses, FulfillFailedVendAtomically(S)
  PROVE  [Money!MNext]_(Money!mvars)
  <1>1. /\ vend' = Written(S, "failed") /\ UNCHANGED <<captured, winner, moves>>
        /\ \E l \in S : vend[l] = "in_progress"
    BY DEF FulfillFailedVendAtomically, money
  <1>2. captured # {}
    BY <1>1, AddressSlot DEF IInv, StateOK, MoneyFirst
  <1> QED BY <1>1, <1>2, ReleaseStep

\* A webhook captures, or captures and gives ownership, or neither.
LEMMA WebhookMoney ==
  ASSUME IInv, NEW c \in Callers,
         RejectWebhook(c) \/ ApplyPaymentProviderWebhook(c) \/ ReplayWebhook(c)
  PROVE  [Money!MNext]_(Money!mvars)
  <1>0. PICK p \in Payments : WebhookEnds(c, p)
    BY WebhookStep DEF WebhookEnds
  <1>1. /\ captured' \in {captured, captured \cup {p}}
        /\ UNCHANGED winner \/ (p \in captured' /\ ClaimWinningPayment(p))
        /\ UNCHANGED <<vend, moves>>
    BY <1>0 DEF WebhookEnds, goods
  <1> QED BY <1>1, CaptureStep, OwnStep

\* Every step of the service is a step of the contract, or none.
LEMMA MoneyStep ==
  ASSUME IInv, [Next]_vars
  PROVE  [Money!MNext]_(Money!mvars)
  <1>1. CASE UNCHANGED vars
    BY <1>1, Stutter DEF vars, money, goods
  <1>2. CASE CreateOrder
    BY <1>2, CreateOrderStutters
  <1>3. ASSUME NEW S \in Addresses, FulfillFailedVendAtomically(S) PROVE [Money!MNext]_(Money!mvars)
    BY <1>3, FailureReleases
  <1>o. ASSUME NEW p \in Payments, NEW state \in PaymentStates, StartPaymentWithOutbox(p, state)
        PROVE  [Money!MNext]_(Money!mvars)
    <2>1. captured' \in {captured, captured \cup {p}} /\ UNCHANGED <<winner, vend, moves>>
      BY <1>o DEF StartPaymentWithOutbox, goods
    <2> QED BY <2>1, CaptureStep
  <1>4. ASSUME NEW c \in Callers, NEW p \in Payments,
               CreatePaymentSession(c, p) \/ ConfirmCash(c, p) \/ CancelPaymentSession(c, p)
        PROVE  [Money!MNext]_(Money!mvars)
    <2>1. captured' \in {captured, captured \cup {p}} /\ UNCHANGED <<winner, vend, moves>>
      BY <1>4 DEF CreatePaymentSession, ConfirmCash, CancelPaymentSession, goods
    <2> QED BY <2>1, CaptureStep
  <1>5. ASSUME NEW c \in Callers, NEW p \in Payments, NEW to \in Targets,
               ApplyReconciledPaymentTransition(c, p, to)
        PROVE  [Money!MNext]_(Money!mvars)
    <2>1. captured' \in {captured, captured \cup {p}} /\ UNCHANGED <<winner, vend, moves>>
      BY <1>5 DEF ApplyReconciledPaymentTransition, goods
    <2> QED BY <2>1, CaptureStep
  <1>6. ASSUME NEW c \in Callers, AttemptWinningPaymentClaim(c) PROVE [Money!MNext]_(Money!mvars)
    <2> DEFINE p == call[c].pay
    <2>1. p \in captured /\ p \in Payments
      BY <1>6 DEF AttemptWinningPaymentClaim, IInv, TypeOK, CallOK
    <2>2. ClaimWinningPayment(p) \/ UNCHANGED winner
      BY <1>6 DEF AttemptWinningPaymentClaim
    <2>3. captured' = captured /\ UNCHANGED <<vend, moves>>
      BY <1>6 DEF AttemptWinningPaymentClaim, goods
    <2> HIDE DEF p
    <2> QED BY <2>1, <2>2, <2>3, OwnStep, CaptureStep
  <1>7. ASSUME NEW c \in Callers,
               Reads(c) \/ WritesStatus(c) \/ RecordWin(c) \/ RecordLoss(c) \/ CreateRefund(c)
        PROVE  [Money!MNext]_(Money!mvars)
    <2>1. UNCHANGED <<captured, winner, vend, moves>>
      <3>1. CASE Reads(c)
        BY <3>1, ReadStep DEF money, goods
      <3>2. CASE WritesStatus(c) \/ RecordWin(c) \/ RecordLoss(c) \/ CreateRefund(c)
        BY <3>2 DEF WritesStatus, CancelOrder, MarkOrderUnknown, MarkOrderPaid, MarkOrderVending,
           RecordWin, RecordLoss, CreateRefund, money, goods
      <3> QED BY <1>7, <3>1, <3>2
    <2> QED BY <2>1, Stutter
  <1>8. ASSUME NEW c \in Callers,
               \/ RejectWebhook(c) \/ ApplyPaymentProviderWebhook(c) \/ ReplayWebhook(c)
               \/ AdvanceVend(c) \/ FulfillSuccessfulVendAtomically(c)
        PROVE  [Money!MNext]_(Money!mvars)
    BY <1>8, WebhookMoney, AdvanceVendReleases, SuccessDispenses
  <1> QED BY <1>1, <1>2, <1>3, <1>o, <1>4, <1>5, <1>6, <1>7, <1>8, Steps, Zenon

\* The service keeps its promise about the order's money: one owner, given once
\* and only after its capture, release after capture, stock once per key and only
\* from the slot of a released line, in every interleaving of every number of calls.
THEOREM CommerceImplementsMoneyContract == Spec => ImplementsMoneyContract
  <1>1. Init => Money!MInit
    BY DEF Init, Money!MInit
  <1>2. IInv /\ [Next]_vars => [Money!MNext]_(Money!mvars)
    BY MoneyStep
  <1> QED BY <1>1, <1>2, Invariant, PTL DEF Spec, ImplementsMoneyContract, Money!MSpec
-----------------------------------------------------------------------------
(* Refunds: the amounts of the requests between check and insert count too. *)

\* The refund requests of a payment that were checked and not yet inserted.
Checked(p) == {c \in Callers : call[c].at = "refund" /\ call[c].pay = p}
Asked == [c \in Callers |-> RefundAmount[call[c].key]]

RefundRoom ==
  \A p \in Payments : Refunded(p) + Cardinality(Units(Checked(p), Asked)) <= Total * Cardinality(Callers)

\* The units of a set of requests number at most Total for each.
LEMMA UnitsBound ==
  ASSUME NEW S, IsFiniteSet(S), NEW f, \A x \in S : f[x] \in 0..Total
  PROVE  /\ IsFiniteSet(Units(S, f)) /\ Cardinality(Units(S, f)) \in Nat
         /\ Cardinality(Units(S, f)) <= Total * Cardinality(S)
  <1>1. IsFiniteSet(1..Total) /\ Cardinality(1..Total) = Total
    BY RefundsAssumption, FS_Interval
  <1>2. IsFiniteSet(S \X (1..Total)) /\ Cardinality(S \X (1..Total)) = Cardinality(S) * Total
    BY <1>1, FS_Product
  <1>3. Units(S, f) \subseteq S \X (1..Total)
    BY RefundsAssumption DEF Units
  <1>4. Cardinality(S) \in Nat
    BY FS_CardinalityType
  <1>5. IsFiniteSet(Units(S, f)) /\ Cardinality(Units(S, f)) <= Cardinality(S) * Total
    BY <1>2, <1>3, FS_Subset
  <1>6. Cardinality(Units(S, f)) \in Nat
    BY <1>5, FS_CardinalityType
  <1> QED BY <1>4, <1>5, <1>6, RefundsAssumption

\* One more request adds its amount.
LEMMA UnitsAdd ==
  ASSUME NEW S, IsFiniteSet(S), NEW f, NEW x, x \notin S, \A y \in S \cup {x} : f[y] \in 0..Total
  PROVE  Cardinality(Units(S \cup {x}, f)) = Cardinality(Units(S, f)) + f[x]
  <1> DEFINE A == Units(S, f)
             B == {x} \X (1..f[x])
  <1>1. Units(S \cup {x}, f) = A \cup B
    BY DEF Units
  <1>2. A \cap B = {}
    BY DEF Units
  <1>3. IsFiniteSet(A) /\ Cardinality(A) \in Nat
    BY UnitsBound
  <1>4. f[x] \in Nat /\ IsFiniteSet(1..f[x]) /\ Cardinality(1..f[x]) = f[x]
    BY RefundsAssumption, FS_Interval
  <1>5. IsFiniteSet(B) /\ Cardinality(B) = f[x]
    <2>1. IsFiniteSet({x}) /\ Cardinality({x}) = 1
      BY FS_Singleton
    <2> DEFINE X == {x}
               I == 1..f[x]
    <2>2. IsFiniteSet(X) /\ IsFiniteSet(I) /\ Cardinality(X) = 1 /\ Cardinality(I) = f[x] /\ B = X \X I
      BY <1>4, <2>1
    <2> HIDE DEF X, I, B
    <2>3. IsFiniteSet(X \X I) /\ Cardinality(X \X I) = Cardinality(X) * Cardinality(I)
      BY <2>2, FS_Product
    <2> QED BY <1>4, <2>2, <2>3
  <1> HIDE DEF A, B
  <1>6. Cardinality(A \cup B) = Cardinality(A) + Cardinality(B) - Cardinality(A \cap B)
    BY <1>3, <1>5, FS_Union
  <1>7. Cardinality(A \cap B) = 0
    BY <1>2, FS_EmptySet
  <1>8. Cardinality(A \cup B) = Cardinality(A) + f[x]
    BY <1>3, <1>4, <1>5, <1>6, <1>7
  <1> QED BY <1>1, <1>8 DEF A

\* Only the amounts of the requests counted matter.
LEMMA UnitsSame ==
  ASSUME NEW S, NEW f, NEW g, \A x \in S : f[x] = g[x]
  PROVE  Units(S, f) = Units(S, g)
  BY DEF Units

\* The requests in flight and the rows of a payment are finitely many.
LEMMA RefundTypes ==
  ASSUME IInv, NEW p \in Payments
  PROVE  /\ IsFiniteSet(Charged(p)) /\ IsFiniteSet(Checked(p)) /\ Refunded(p) \in Nat
         /\ \A k \in Charged(p) : RefundAmount[k] \in 0..Total
         /\ \A c \in Checked(p) : Asked[c] \in 0..Total
         /\ Cardinality(Units(Checked(p), Asked)) \in Nat /\ IsFiniteSet(Units(Checked(p), Asked))
  <1>1. IsFiniteSet(Charged(p)) /\ IsFiniteSet(Checked(p))
    BY RefundsAssumption, CallsAssumption, FS_Subset DEF Charged, Checked
  <1>2. \A k \in Charged(p) : RefundAmount[k] \in 0..Total
    BY RefundsAssumption DEF Charged
  <1>3. \A c \in Checked(p) : Asked[c] \in 0..Total
    <2> SUFFICES ASSUME NEW c \in Checked(p) PROVE Asked[c] \in 0..Total
      OBVIOUS
    <2>1. c \in Callers /\ call[c].at = "refund" /\ CallOK(call[c])
      BY DEF Checked, IInv
    <2>2. call[c].key \in RefundKeys
      BY <2>1 DEF CallOK
    <2>3. \A k \in RefundKeys : RefundAmount[k] \in 0..Total
      BY RefundsAssumption
    <2> QED BY <2>1, <2>2, <2>3 DEF Asked
  <1>4. Refunded(p) \in Nat
    BY <1>1, <1>2, UnitsBound DEF Refunded
  <1> QED BY <1>1, <1>2, <1>3, <1>4, UnitsBound

\* A step other than the refund's own starts no request and changes none.
LEMMA NoRefundStep ==
  ASSUME IInv, RefundRoom, refunds' = refunds,
         \A c \in Callers : call'[c].at = "refund" => call'[c] = call[c]
  PROVE  RefundRoom'
  <1> SUFFICES ASSUME NEW p \in Payments
               PROVE  (Refunded(p) + Cardinality(Units(Checked(p), Asked)) <= Total * Cardinality(Callers))'
    BY DEF RefundRoom
  <1>1. Refunded(p)' = Refunded(p)
    BY DEF Refunded, Charged
  <1>2. Checked(p)' \subseteq Checked(p)
    BY DEF Checked
  <1>3. \A c \in Checked(p)' : Asked'[c] = Asked[c]
    BY DEF Checked, Asked
  <1>4. Units(Checked(p), Asked)' \subseteq Units(Checked(p), Asked)
    BY <1>2, <1>3 DEF Units
  <1>5. Cardinality(Units(Checked(p), Asked)') <= Cardinality(Units(Checked(p), Asked))
    BY <1>4, RefundTypes, FS_Subset
  <1>6. IsFiniteSet(Units(Checked(p), Asked)') /\ Cardinality(Units(Checked(p), Asked)') \in Nat
    BY <1>4, RefundTypes, FS_Subset, FS_CardinalityType
  <1>7. Total * Cardinality(Callers) \in Int
    BY RefundsAssumption, CallsAssumption, FS_CardinalityType
  <1> QED BY <1>1, <1>5, <1>6, <1>7, RefundTypes DEF RefundRoom

\* A check leaves the sum within one payment and what the other calls may add.
LEMMA CheckRefundRoom ==
  ASSUME IInv, RefundRoom, NEW c \in Callers, NEW k \in RefundKeys, NEW p \in Payments, CheckRefund(c, k, p)
  PROVE  RefundRoom'
  <1> DEFINE r == [Idle EXCEPT !.at = "refund", !.key = k, !.pay = p]
  <1>1. /\ call \in [Callers -> CallRecords] /\ call[c].at = "idle" /\ refunds' = refunds
        /\ Refunded(p) + RefundAmount[k] <= Total /\ call' = [call EXCEPT ![c] = r]
    BY DEF IInv, TypeOK, CheckRefund
  <1>2. r.at = "refund" /\ r.key = k /\ r.pay = p
    BY DEF Idle
  <1> HIDE DEF r
  <1>3. call'[c] = r /\ \A d \in Callers : d # c => call'[d] = call[d]
    BY <1>1
  <1>4. RefundAmount[k] \in 0..Total /\ Total \in Nat
    BY RefundsAssumption
  <1>5. Asked'[c] = RefundAmount[k] /\ \A d \in Callers : d # c => Asked'[d] = Asked[d]
    BY <1>2, <1>3 DEF Asked
  <1>6. Cardinality(Callers) \in Nat /\ IsFiniteSet(Callers \ {c})
        /\ Cardinality(Callers \ {c}) = Cardinality(Callers) - 1
    BY CallsAssumption, FS_CardinalityType, FS_RemoveElement
  <1> SUFFICES ASSUME NEW q \in Payments
               PROVE  (Refunded(q) + Cardinality(Units(Checked(q), Asked)) <= Total * Cardinality(Callers))'
    BY DEF RefundRoom
  <1>7. Refunded(q)' = Refunded(q)
    BY <1>1 DEF Refunded, Charged
  <1>8. c \notin Checked(q)
    BY <1>1 DEF Checked
  <1>9. CASE q # p
    <2>1. Checked(q)' = Checked(q)
      BY <1>1, <1>2, <1>3, <1>9 DEF Checked
    <2>2. Units(Checked(q), Asked)' = Units(Checked(q), Asked)
      <3>1. \A d \in Checked(q) : Asked'[d] = Asked[d]
        BY <1>5, <1>8 DEF Checked
      <3> QED BY <2>1, <3>1, UnitsSame
    <2> QED BY <1>7, <2>2 DEF RefundRoom
  <1>10. CASE q = p
    <2>1. Checked(p)' = Checked(p) \cup {c}
      BY <1>1, <1>2, <1>3 DEF Checked
    <2>2. \A d \in Checked(p) : Asked'[d] = Asked[d]
      BY <1>5, <1>8, <1>10 DEF Checked
    <2>3. Units(Checked(p), Asked') = Units(Checked(p), Asked)
      BY <2>2, UnitsSame
    <2>4. /\ IsFiniteSet(Checked(p)) /\ \A d \in Checked(p) \cup {c} : Asked'[d] \in 0..Total
      BY <1>4, <1>5, <2>2, RefundTypes
    <2>5. Cardinality(Units(Checked(p) \cup {c}, Asked')) = Cardinality(Units(Checked(p), Asked')) + Asked'[c]
      BY <1>8, <1>10, <2>4, UnitsAdd
    <2>6. Cardinality(Units(Checked(p), Asked)) <= Total * Cardinality(Callers \ {c})
      <3>1. Checked(p) \subseteq Callers \ {c}
        BY <1>8, <1>10 DEF Checked
      <3>2. Units(Checked(p), Asked) \subseteq (Callers \ {c}) \X (1..Total)
        <4>1. \A d \in Checked(p) : Asked[d] \in 0..Total
          BY RefundTypes
        <4> QED BY <1>4, <3>1, <4>1 DEF Units
      <3>3. IsFiniteSet(1..Total) /\ Cardinality(1..Total) = Total
        BY <1>4, FS_Interval
      <3>4. /\ IsFiniteSet((Callers \ {c}) \X (1..Total))
            /\ Cardinality((Callers \ {c}) \X (1..Total)) = Cardinality(Callers \ {c}) * Total
        BY <1>6, <3>3, FS_Product
      <3>5. Cardinality(Units(Checked(p), Asked)) <= Cardinality(Callers \ {c}) * Total
        BY <3>2, <3>4, FS_Subset
      <3> QED BY <1>4, <1>6, <3>5
    <2>7. Total * (Cardinality(Callers) - 1) = Total * Cardinality(Callers) - Total
      BY <1>4, <1>6
    <2>8. Total * Cardinality(Callers) \in Int
      BY <1>4, <1>6
    <2> DEFINE n == Total * Cardinality(Callers)
               u == Cardinality(Units(Checked(p), Asked))
    <2>9. /\ n \in Int /\ u \in Nat /\ u <= n - Total
          /\ Cardinality(Units(Checked(p) \cup {c}, Asked')) = u + RefundAmount[k]
      BY <1>5, <1>6, <2>3, <2>5, <2>6, <2>7, <2>8, RefundTypes
    <2> HIDE DEF n, u
    <2>10. Refunded(p) + (u + RefundAmount[k]) <= n
      BY <1>1, <1>4, <2>9, RefundTypes
    <2> QED BY <1>7, <1>10, <2>1, <2>9, <2>10 DEF n
  <1> QED BY <1>9, <1>10

\* An insert turns a checked request into a row.
LEMMA CreateRefundRoom ==
  ASSUME IInv, RefundRoom, NEW c \in Callers, CreateRefund(c)
  PROVE  RefundRoom'
  <1>0. call[c].key \in RefundKeys /\ call[c].pay \in Payments
    BY DEF CreateRefund, IInv, TypeOK, CallOK
  <1>k. PICK k \in RefundKeys, p \in Payments : k = call[c].key /\ p = call[c].pay
    BY <1>0
  <1>1. /\ call \in [Callers -> CallRecords] /\ call[c].at = "refund" /\ refunds[k] = None
        /\ refunds' = [refunds EXCEPT ![k] = p] /\ call' = [call EXCEPT ![c] = Idle]
        /\ refunds \in [RefundKeys -> Payments \cup {None}] /\ p # None
    BY <1>k, PaymentsAssumption DEF IInv, TypeOK, CreateRefund, Returns, None
  <1>2. call'[c].at = "idle" /\ \A d \in Callers : d # c => call'[d] = call[d]
    BY <1>1 DEF Idle
  <1>3. RefundAmount[k] \in 0..Total /\ Total \in Nat
    BY RefundsAssumption
  <1>4. Asked[c] = RefundAmount[k] /\ \A d \in Callers : d # c => Asked'[d] = Asked[d]
    BY <1>k, <1>2 DEF Asked
  <1> SUFFICES ASSUME NEW q \in Payments
               PROVE  (Refunded(q) + Cardinality(Units(Checked(q), Asked)) <= Total * Cardinality(Callers))'
    BY DEF RefundRoom
  <1>5. c \notin Checked(q)'
    BY <1>2 DEF Checked
  <1>6. Units(Checked(q), Asked)' = Units(Checked(q)', Asked)
    BY <1>4, <1>5, UnitsSame DEF Checked
  <1>7. CASE q # p
    <2>1. Checked(q)' = Checked(q) /\ Charged(q)' = Charged(q)
      <3>1. call[c].pay # q
        BY <1>k, <1>7
      <3>2. Checked(q)' = Checked(q)
        BY <1>2, <3>1 DEF Checked
      <3>3. Charged(q)' = Charged(q)
        BY <1>1, <1>7, PaymentsAssumption DEF Charged, None
      <3> QED BY <3>2, <3>3
    <2> QED BY <1>6, <2>1 DEF RefundRoom, Refunded
  <1>8. CASE q = p
    <2>1. Charged(p)' = Charged(p) \cup {k} /\ k \notin Charged(p)
      BY <1>1 DEF Charged
    <2>2. Checked(p) = Checked(p)' \cup {c}
      BY <1>k, <1>1, <1>2 DEF Checked
    <2>3. Refunded(p)' = Refunded(p) + RefundAmount[k]
      BY <1>3, <2>1, RefundTypes, UnitsAdd DEF Refunded
    <2>4. IsFiniteSet(Checked(p)')
      BY <2>2, RefundTypes, FS_Subset
    <2>5. Cardinality(Units(Checked(p), Asked)) = Cardinality(Units(Checked(p)', Asked)) + RefundAmount[k]
      <3>1. \A d \in Checked(p)' \cup {c} : Asked[d] \in 0..Total
        BY <2>2, RefundTypes
      <3>2. c \notin Checked(p)'
        BY <1>5, <1>8
      <3> QED BY <1>4, <2>2, <2>4, <3>1, <3>2, UnitsAdd, SMTT(40)
    <2>6. Cardinality(Units(Checked(p)', Asked)) \in Nat
      BY <2>2, <2>4, RefundTypes, UnitsBound
    <2> QED BY <1>3, <1>6, <1>8, <2>3, <2>5, <2>6, RefundTypes DEF RefundRoom
  <1> QED BY <1>7, <1>8

\* Every step but a refund's own writes no refund, and leaves its call where it inserts
\* none.
LEMMA OtherStep ==
  ASSUME IInv, Next, ~\E c \in Callers : RefundCall(c)
  PROVE  /\ refunds' = refunds
         /\ \A d \in Callers : call'[d].at = "refund" => call'[d] = call[d]
  <1> DEFINE Goal == /\ refunds' = refunds
                     /\ \A d \in Callers : call'[d].at = "refund" => call'[d] = call[d]
  <1>0. call \in [Callers -> CallRecords]
    BY DEF IInv, TypeOK
  <1>1. ASSUME NEW c \in Callers, NEW r, r.at # "refund", call' = [call EXCEPT ![c] = r], refunds' = refunds
        PROVE  Goal
    BY <1>0, <1>1
  <1>2. ASSUME NEW c \in Callers, Returns(c), refunds' = refunds
        PROVE  Goal
    BY <1>1, <1>2 DEF Returns, Idle
  <1>3. ASSUME NEW c \in Callers, NEW step \in At \ {"refund"}, Moves(c, step), refunds' = refunds
        PROVE  Goal
    <2>1. [call[c] EXCEPT !.at = step].at # "refund"
      BY <1>0 DEF CallRecords
    <2>2. call' = [call EXCEPT ![c] = [call[c] EXCEPT !.at = step]]
      BY <1>0, <1>3 DEF Moves
    <2> QED BY <1>1, <1>3, <2>1, <2>2
  <1>4. ASSUME call' = call, refunds' = refunds
        PROVE  Goal
    BY <1>4
  <1> HIDE DEF Goal
  <1>5. ASSUME \/ CreateOrder \/ \E S \in Addresses : FulfillFailedVendAtomically(S)
               \/ \E p \in Payments, state \in PaymentStates : StartPaymentWithOutbox(p, state)
        PROVE  Goal
    BY <1>4, <1>5 DEF CreateOrder, FulfillFailedVendAtomically, StartPaymentWithOutbox
  <1>6. ASSUME NEW c \in Callers, NEW op \in ReadOperations, ReadOrder(c, op)
        PROVE  Goal
    <2> DEFINE r == [Idle EXCEPT !.at = op,
                       !.status = IF op = "advance" THEN order ELSE "none",
                       !.winner = IF op = "mark" THEN winner ELSE None]
    <2>1. r.at # "refund"
      BY DEF Idle, ReadOperations
    <2>2. call' = [call EXCEPT ![c] = r] /\ refunds' = refunds
      BY <1>6 DEF ReadOrder
    <2> HIDE DEF r
    <2> QED BY <1>1, <2>1, <2>2
  <1>7. ASSUME NEW c \in Callers,
               \/ CallEnds(c) \/ RejectWebhook(c) \/ ApplyPaymentProviderWebhook(c) \/ ReplayWebhook(c)
               \/ RecordWin(c) \/ WritesStatus(c) \/ FulfillSuccessfulVendAtomically(c)
               \/ \E p \in Payments : CreatePaymentSession(c, p) \/ CancelPaymentSession(c, p)
        PROVE  Goal
    BY <1>2, <1>7 DEF CallEnds, RejectWebhook, ApplyPaymentProviderWebhook, ReplayWebhook, RecordWin,
       WritesStatus, CancelOrder, MarkOrderUnknown, MarkOrderPaid, MarkOrderVending,
       FulfillSuccessfulVendAtomically, CreatePaymentSession, CancelPaymentSession
  <1>8. ASSUME NEW c \in Callers,
               \/ CheckCancel(c) \/ AttemptWinningPaymentClaim(c) \/ RecordLoss(c) \/ AdvanceVend(c)
               \/ \E p \in Payments, to \in Targets : ApplyReconciledPaymentTransition(c, p, to)
        PROVE  Goal
    <2>1. refunds' = refunds
      BY <1>8 DEF CheckCancel, AttemptWinningPaymentClaim, RecordLoss, AdvanceVend,
         ApplyReconciledPaymentTransition
    <2>2. \/ Returns(c) \/ call' = call
          \/ \E step \in At \ {"refund"} : Moves(c, step)
      BY <1>8 DEF CheckCancel, AttemptWinningPaymentClaim, RecordLoss, AdvanceVend,
         ApplyReconciledPaymentTransition, At
    <2> QED BY <1>2, <1>3, <1>4, <2>1, <2>2
  <1>9. ASSUME NEW c \in Callers, NEW p \in Payments, ConfirmCash(c, p) \/ ResolveForMark(c, p)
        PROVE  Goal
    <2>1. CASE ConfirmCash(c, p)
      <3> DEFINE r == [Idle EXCEPT !.pay = p, !.at = IF Arbitration THEN "cash.claim" ELSE "captured"]
      <3>1. r.at # "refund" /\ call' = [call EXCEPT ![c] = r] /\ refunds' = refunds
        BY <2>1 DEF ConfirmCash, Idle
      <3> HIDE DEF r
      <3> QED BY <1>1, <3>1
    <2>2. CASE ResolveForMark(c, p)
      <3> DEFINE r == [call[c] EXCEPT !.pay = p, !.at = IF Arbitration /\ call[c].winner = None
                                                        THEN "mark.claim" ELSE "mark.paid"]
      <3>1. r.at # "refund"
        BY <1>0 DEF CallRecords
      <3>2. call' = [call EXCEPT ![c] = r] /\ refunds' = refunds
        BY <1>0, <2>2 DEF ResolveForMark
      <3> HIDE DEF r
      <3> QED BY <1>1, <3>1, <3>2
    <2> QED BY <1>9, <2>1, <2>2
  <1>10. ASSUME NEW c \in Callers, NEW p \in Payments, NEW to \in Targets, ReceiveWebhook(c, p, to)
        PROVE  Goal
    <2> DEFINE r == [Idle EXCEPT
                       !.at = IF <<p, to>> \in applied THEN "replay" ELSE "webhook",
                       !.pay = p, !.to = to, !.was = pay[p],
                       !.status = order, !.winner = winner]
    <2>1. r.at # "refund" /\ call' = [call EXCEPT ![c] = r] /\ refunds' = refunds
      BY <1>10 DEF ReceiveWebhook, Idle
    <2> HIDE DEF r
    <2> QED BY <1>1, <2>1
  <1>11. ASSUME NEW c \in Callers, WebhookUniqueViolation(c)
        PROVE  Goal
    <2> DEFINE r == [call[c] EXCEPT !.at = "replay", !.was = pay[call[c].pay], !.status = order]
    <2>1. r.at # "refund"
      BY <1>0 DEF CallRecords
    <2>2. call' = [call EXCEPT ![c] = r] /\ refunds' = refunds
      BY <1>0, <1>11 DEF WebhookUniqueViolation
    <2> HIDE DEF r
    <2> QED BY <1>1, <2>1, <2>2
  <1>12. ASSUME NEW c \in Callers, NEW S \in Addresses, CheckVend(c, S)
        PROVE  Goal
    <2> DEFINE r == [call[c] EXCEPT !.at = "advance.vend", !.lines = S]
    <2>1. r.at # "refund"
      BY <1>0 DEF CallRecords
    <2>2. call' = [call EXCEPT ![c] = r] /\ refunds' = refunds
      BY <1>0, <1>12 DEF CheckVend
    <2> HIDE DEF r
    <2> QED BY <1>1, <2>1, <2>2
  <1>13. ASSUME NEW c \in Callers, NEW q \in Reports, ConfirmVendSuccess(c, q)
        PROVE  Goal
    <2> DEFINE r == [Idle EXCEPT !.at = "confirm", !.key = q.key, !.lines = q.lines]
    <2>1. r.at # "refund" /\ call' = [call EXCEPT ![c] = r] /\ refunds' = refunds
      BY <1>13 DEF ConfirmVendSuccess, Idle
    <2> HIDE DEF r
    <2> QED BY <1>1, <2>1
  <1>14. ASSUME NEW c \in Callers, PaymentCall(c) \/ Webhook(c) \/ VendCall(c)
        PROVE  Goal
    <2>1. CASE PaymentCall(c)
      BY <1>7, <1>8, <1>9, <2>1 DEF PaymentCall, WritesStatus
    <2>2. CASE Webhook(c)
      BY <1>7, <1>10, <1>11, <2>2 DEF Webhook
    <2>3. CASE VendCall(c)
      BY <1>7, <1>8, <1>12, <1>13, <2>3 DEF VendCall, WritesStatus
    <2> QED BY <1>14, <2>1, <2>2, <2>3
  <1>15. Goal
    <2>1. ASSUME NEW c \in Callers,
                 (\E op \in ReadOperations : ReadOrder(c, op)) \/ CallEnds(c)
          PROVE  Goal
      BY <1>6, <1>7, <2>1
    <2>2. \/ CreateOrder \/ \E S \in Addresses : FulfillFailedVendAtomically(S)
          \/ \E p \in Payments, state \in PaymentStates : StartPaymentWithOutbox(p, state)
          \/ \E c \in Callers : \/ (\E op \in ReadOperations : ReadOrder(c, op)) \/ CallEnds(c)
                                \/ PaymentCall(c) \/ Webhook(c) \/ VendCall(c)
      BY Zenon DEF Next
    <2> QED BY <1>5, <1>14, <2>1, <2>2
  <1> QED BY <1>15 DEF Goal

\* Refunds of a payment, and those about to be made, stay within its amount once per
\* call that can be in flight: the check does not lock, so each call may overshoot once.
THEOREM RefundsBounded == Spec => []RefundOvershoot
  <1>1. Init => RefundRoom
    <2> SUFFICES ASSUME Init, NEW p \in Payments
                 PROVE  Refunded(p) + Cardinality(Units(Checked(p), Asked)) <= Total * Cardinality(Callers)
      BY DEF RefundRoom
    <2>1. Charged(p) = {} /\ Checked(p) = {}
      BY PaymentsAssumption DEF Init, Charged, Checked, Idle, None
    <2>2. Units({}, RefundAmount) = {} /\ Units({}, Asked) = {}
      BY DEF Units
    <2>3. Refunded(p) = 0 /\ Cardinality(Units(Checked(p), Asked)) = 0
      BY <2>1, <2>2, FS_EmptySet DEF Refunded
    <2>4. Total * Cardinality(Callers) \in Nat
      BY RefundsAssumption, CallsAssumption, FS_CardinalityType
    <2> QED BY <2>3, <2>4
  <1>2. IInv /\ RefundRoom /\ [Next]_vars => RefundRoom'
    <2> SUFFICES ASSUME IInv, RefundRoom, [Next]_vars PROVE RefundRoom'
      OBVIOUS
    <2>1. CASE UNCHANGED vars
      BY <2>1, NoRefundStep DEF vars
    <2>2. CASE \E c \in Callers : RefundCall(c)
      BY <2>2, CheckRefundRoom, CreateRefundRoom DEF RefundCall
    <2>3. CASE Next /\ ~\E c \in Callers : RefundCall(c)
      BY <2>3, OtherStep, NoRefundStep
    <2> QED BY <2>1, <2>2, <2>3
  <1>3. IInv /\ RefundRoom => RefundOvershoot
    <2> SUFFICES ASSUME IInv, RefundRoom, NEW p \in Payments
                 PROVE  Refunded(p) <= Total * Cardinality(Callers)
      BY DEF RefundOvershoot
    <2>1. Total * Cardinality(Callers) \in Nat
      BY RefundsAssumption, CallsAssumption, FS_CardinalityType
    <2> QED BY <2>1, RefundTypes DEF RefundRoom
  <1> QED BY <1>1, <1>2, <1>3, Invariant, PTL DEF Spec

=============================================================================
