--------------------------- MODULE CashCollection ---------------------------
(***************************************************************************)
(* Field cash collections of one machine: an operator opens a collection,  *)
(* counts the vault and closes it; the close stores what commerce expects  *)
(* in the vault since the previous close.  The cash payments it sums up    *)
(* are written meanwhile by ConfirmCashPayment.                            *)
(*                                                                         *)
(* closed_at and updated_at are now(), the instant a transaction began,    *)
(* while a row is seen from its commit on.  The clock moves when a         *)
(* transaction on a payment begins and when it commits; what a close does  *)
(* between two such instants has the time of the first, since no payment   *)
(* can tell it apart.  An amount is the set of payments it sums up.        *)
(* Currencies are compared as they are spelled: a payment's is upper-cased *)
(* when it is inserted, a collection's is what the operator's client sent. *)
(* Completed refunds would be subtracted, but no code completes one.       *)
(***************************************************************************)
EXTENDS Integers, FiniteSets

CONSTANTS Payments,    \* cash payments of the machine's orders
          Confirms,    \* ConfirmCashPayment calls in progress at the same time
          Closes,      \* close requests in progress at the same time
          Currencies,  \* spellings of currencies
          CurrencyOf,  \* payments.currency
          Hashes,      \* canonical hashes of close payloads
          Named,       \* the spellings that are EqualFold to the currency in a payload
          Payload,     \* the hash of the payload of a close request
          MaxOpened,   \* bound: collections opened
          MaxConfirms, \* bound: confirmations per payment, retries included
          MaxFaults    \* bound: closes that die, and answers that are lost

ASSUME CashSets == IsFiniteSet(Payments) /\ IsFiniteSet(Confirms) /\ IsFiniteSet(Closes)
ASSUME CashPayloads == Payload \in [Closes -> Hashes] /\ Named \in [Hashes -> SUBSET Currencies]
ASSUME CashCurrencies == CurrencyOf \in [Payments -> Currencies]
ASSUME CashLimits == /\ MaxOpened \in Nat \ {0}
                     /\ MaxConfirms \in Nat \ {0}
                     /\ MaxFaults \in Nat

VARIABLES
  clock,
  updated,   \* payments.updated_at, 0 before the captured row exists
  confirm,   \* a confirmation in progress
  confirms,  \* confirmations begun
  coll,      \* cash_collections, in the order they were opened
  close,     \* a close in progress
  answer,    \* the definitive answer to (collection, hash)
  faults,
  writes,    \* history: begin and commit of every write of a payment row
  window     \* history: begin and sum of the close of a collection

vars == <<clock, updated, confirm, confirms, coll, close, answer, faults,
          writes, window>>

Collections == 1..MaxOpened
Requests == Collections \X Hashes
None == "none"
Idle == [at |-> "idle"]

Absent == [status |-> "absent", currency |-> None, closedAt |-> 0, hash |-> None, counted |-> {}]

\* "insert": inside CreatePaymentWithOutbox; "claim": the winner claim, which writes
\* no payment; "outcome": inside UpdatePaymentOutcome.
InConfirm == [at : {"insert", "claim", "outcome"}, pay : Payments, begun : Nat]
InClose == [at : {"sum", "update"}, req : Requests, begun : Nat, summed : Nat,
            expected : SUBSET Payments]

TypeOK ==
  /\ clock \in Nat
  /\ updated \in [Payments -> Nat]
  /\ confirm \in [Confirms -> {Idle} \cup InConfirm]
  /\ confirms \in [Payments -> 0..MaxConfirms]
  /\ coll \in [Collections -> [status : {"absent", "open", "closed"}, currency : Currencies \cup {None},
                               closedAt : Nat, hash : Hashes \cup {None}, counted : SUBSET Payments]]
  /\ close \in [Closes -> {Idle} \cup InClose]
  /\ answer \in [Requests -> {None, "ok", "conflict"}]
  /\ faults \in 0..MaxFaults
  /\ writes \in [Payments -> SUBSET (Nat \X Nat)]
  /\ window \in [Collections -> Nat \X Nat]

Init ==
  /\ clock = 1
  /\ updated = [p \in Payments |-> 0]
  /\ confirm = [f \in Confirms |-> Idle]
  /\ confirms = [p \in Payments |-> 0]
  /\ coll = [c \in Collections |-> Absent]
  /\ close = [x \in Closes |-> Idle]
  /\ answer = [r \in Requests |-> None]
  /\ faults = 0
  /\ writes = [p \in Payments |-> {}]
  /\ window = [c \in Collections |-> <<0, 0>>]

cashier == <<coll, close, answer, window>>
seller == <<updated, confirm, confirms, writes>>

Tick == clock' = clock + 1
Fault == faults < MaxFaults /\ faults' = faults + 1

-----------------------------------------------------------------------------
(* ConfirmCashPayment: the captured payment, the claim, then the outcome.  *)

\* A sale, or a machine's retry of one.
ConfirmBegin(f, p) ==
  /\ confirm[f] = Idle
  /\ confirms[p] < MaxConfirms
  /\ confirms' = [confirms EXCEPT ![p] = @ + 1]
  /\ confirm' = [confirm EXCEPT ![f] = [at |-> "insert", pay |-> p, begun |-> clock + 1]]
  /\ Tick
  /\ UNCHANGED <<updated, writes, cashier, faults>>

\* The commit of a write to payment row p that began at instant b.
Writes(p, b) ==
  /\ updated' = [updated EXCEPT ![p] = b]
  /\ Tick
  /\ writes' = [writes EXCEPT ![p] = @ \cup {<<b, clock + 1>>}]

\* A payment with the same idempotency key is returned as it is.
InsertCaptured(f) ==
  LET p == confirm[f].pay IN
  /\ confirm[f].at = "insert"
  /\ \/ updated[p] = 0 /\ Writes(p, confirm[f].begun)
     \/ updated[p] # 0 /\ UNCHANGED <<clock, updated, writes>>
  /\ confirm' = [confirm EXCEPT ![f].at = "claim", ![f].begun = 0]
  /\ UNCHANGED <<confirms, cashier, faults>>

\* Won or lost, the outcome column is written in a transaction of its own.
OutcomeBegin(f) ==
  /\ confirm[f].at = "claim"
  /\ confirm' = [confirm EXCEPT ![f].at = "outcome", ![f].begun = clock + 1]
  /\ Tick
  /\ UNCHANGED <<updated, confirms, writes, cashier, faults>>

UpdatePaymentOutcome(f) ==
  /\ confirm[f].at = "outcome"
  /\ Writes(confirm[f].pay, confirm[f].begun)
  /\ confirm' = [confirm EXCEPT ![f] = Idle]
  /\ UNCHANGED <<confirms, cashier, faults>>

\* The order is terminal, the insert loses to another one of the same key, the outcome
\* is not written (no arbitration), or the call dies and its transaction rolls back.
ConfirmEnds(f) ==
  /\ confirm[f] # Idle
  /\ confirm' = [confirm EXCEPT ![f] = Idle]
  /\ UNCHANGED <<clock, updated, confirms, writes, cashier, faults>>

-----------------------------------------------------------------------------
(* Collections.                                                            *)

\* Mutation: a start cancels the collection that is open.
StartCancelsOpen(c, u) ==
  /\ coll[c].status = "absent"
  /\ \A d \in Collections : d < c => coll[d].status # "absent"
  /\ coll' = [d \in Collections |->
       IF d = c THEN [coll[d] EXCEPT !.status = "open", !.currency = u]
       ELSE IF coll[d].status = "open" THEN [coll[d] EXCEPT !.status = "cancelled"]
       ELSE coll[d]]
  /\ UNCHANGED <<clock, seller, close, answer, faults, window>>

\* The request's currency is taken as it is (USD if there is none).
\* Starts of a machine exclude each other by its row lock, so that the test for an
\* open collection still holds at the insert.  A start whose key is that of the open
\* collection is answered with it and changes nothing.
StartMachineCashCollection(c, u) ==
  /\ coll[c].status = "absent"
  /\ \A d \in Collections : /\ coll[d].status # "open"
                            /\ d < c => coll[d].status # "absent"
  /\ coll' = [coll EXCEPT ![c].status = "open", ![c].currency = u]
  /\ UNCHANGED <<clock, seller, close, answer, faults, window>>

\* Mutation: any close of a closed collection is taken for a replay.
AnswerUnchecked(r) == answer' = [answer EXCEPT ![r] = "ok"]

Answer(r) == answer' = [answer EXCEPT
  ![r] = IF coll[r[1]].hash = r[2] THEN "ok" ELSE "conflict"]

\* A client asks until it is told that its close, or another one, was stored.  A close
\* that names another currency than the open collection's is refused.
CloseBegin(x, c) ==
  LET r == <<c, Payload[x]>> IN
  /\ close[x] = Idle
  /\ coll[c].status # "absent" /\ answer[r] = None
  /\ \/ coll[c].status = "closed" /\ Answer(r) /\ UNCHANGED close
     \/ /\ coll[c].status = "open" /\ coll[c].currency \in Named[Payload[x]]
        /\ close' = [close EXCEPT ![x] = [at |-> "sum", req |-> r, begun |-> clock,
                                          summed |-> 0, expected |-> {}]]
        /\ UNCHANGED answer
  /\ UNCHANGED <<clock, seller, coll, faults, window>>

Closed == {c \in Collections : coll[c].status = "closed"}

\* Mutation: without the condition on updated_at.
NetExpectedEver(u) == {p \in Payments : updated[p] # 0 /\ CurrencyOf[p] = u}

\* Captured cash payments in currency u with updated_at after the last closed_at, which
\* is that of the last collection closed in any currency.
NetExpected(u) == {p \in Payments : /\ updated[p] # 0 /\ CurrencyOf[p] = u
                                    /\ \A c \in Closed : coll[c].closedAt < updated[p]}

CashSettlementNetExpected(x) ==
  /\ close[x].at = "sum"
  /\ close' = [close EXCEPT ![x].at = "update", ![x].summed = clock,
                            ![x].expected = NetExpected(coll[close[x].req[1]].currency)]
  /\ UNCHANGED <<clock, seller, coll, answer, faults, window>>

\* The row and its reconciliation, in one commit.
StoreClose(x, at) ==
  LET c == close[x].req[1] IN
  /\ coll' = [coll EXCEPT ![c] = [status |-> "closed", currency |-> coll[c].currency,
                 closedAt |-> at, hash |-> close[x].req[2], counted |-> close[x].expected]]
  /\ window' = [window EXCEPT ![c] = <<close[x].begun, close[x].summed>>]

\* Mutation: closed_at is the instant of the update, not of the transaction.
CloseStampedLate(x) ==
  LET c == close[x].req[1] IN
  /\ close[x].at = "update"
  /\ \/ /\ coll[c].status = "open"
        /\ StoreClose(x, clock)
        /\ \/ answer' = [answer EXCEPT ![close[x].req] = "ok"] /\ UNCHANGED faults
           \/ Fault /\ UNCHANGED answer
     \/ coll[c].status # "open" /\ UNCHANGED <<coll, window, answer, faults>>
  /\ close' = [close EXCEPT ![x] = Idle]
  /\ UNCHANGED <<clock, seller>>

\* An update that finds no open row answers "not found", which the client does not
\* take for definitive.  An update waits for the commit of another one.
CloseCashCollection(x) ==
  LET c == close[x].req[1] IN
  /\ close[x].at = "update"
  /\ \/ /\ coll[c].status = "open"
        /\ StoreClose(x, close[x].begun)
        /\ \/ answer' = [answer EXCEPT ![close[x].req] = "ok"] /\ UNCHANGED faults
           \/ Fault /\ UNCHANGED answer
     \/ coll[c].status # "open" /\ UNCHANGED <<coll, window, answer, faults>>
  /\ close' = [close EXCEPT ![x] = Idle]
  /\ UNCHANGED <<clock, seller>>

\* An error of a later insert, or the end of the process: the transaction rolls back.
CloseDies(x) ==
  /\ close[x] # Idle
  /\ Fault
  /\ close' = [close EXCEPT ![x] = Idle]
  /\ UNCHANGED <<clock, seller, coll, answer, window>>

-----------------------------------------------------------------------------
Next ==
  \/ \E f \in Confirms :
       \/ \E p \in Payments : ConfirmBegin(f, p)
       \/ InsertCaptured(f) \/ OutcomeBegin(f)
       \/ UpdatePaymentOutcome(f) \/ ConfirmEnds(f)
  \/ \E c \in Collections, u \in Currencies : StartMachineCashCollection(c, u)
  \/ \E x \in Closes :
       \/ \E c \in Collections : CloseBegin(x, c)
       \/ CashSettlementNetExpected(x) \/ CloseCashCollection(x) \/ CloseDies(x)

Spec == Init /\ [][Next]_vars

-----------------------------------------------------------------------------
(* Properties. *)

\* A write w of a payment row lies inside the close of c: begun after the close
\* began and committed before its sum, it is counted there and again in the next.
Inside(w, c) == window[c][1] < w[1] /\ w[2] <= window[c][2]

\* The close of c passes over a write w of payment p: w began before it, so that no later
\* close counts p on account of w, but is seen only after its sum, or the collection is
\* in another currency.
PassesOver(c, p, w) ==
  /\ w[1] <= window[c][1]
  /\ window[c][2] < w[2] \/ coll[c].currency # CurrencyOf[p]

\* Every captured cash payment that a close in its currency could see is in the expected
\* amount of a closed collection, unless a close passed over a write of its row.  The
\* sum and the closing time are taken at different instants of one transaction, and
\* the closing time holds for sums in every currency; this says that nothing else is
\* lost between two collections (CashSettlementNetExpectedMinor).
NothingMissed ==
  \A p \in Payments, c \in Closed : coll[c].currency = CurrencyOf[p] =>
    \/ \A w \in writes[p] : window[c][2] < w[2]
    \/ \E d \in Closed : p \in coll[d].counted
    \/ \E w \in writes[p], d \in Closed : PassesOver(d, p, w)

\* A payment is expected in at most as many collections as its row was written, and
\* once more for each write that lies inside a close.
CountedPerWrite ==
  \A p \in Payments :
    Cardinality({c \in Closed : p \in coll[c].counted}) <=
      Cardinality(writes[p])
        + Cardinality({wc \in writes[p] \X Closed : Inside(wc[1], wc[2])})

\* What a client was told stays true: an accepted close is the stored one and a
\* conflict is with another payload, whoever closed in between (CloseCashCollection's
\* guard against the unlocked read of the row).
AnswerIsStored ==
  \A r \in Requests :
    /\ answer[r] = "ok" => coll[r[1]].status = "closed" /\ coll[r[1]].hash = r[2]
    /\ answer[r] = "conflict" => coll[r[1]].status = "closed" /\ coll[r[1]].hash # r[2]
=============================================================================
