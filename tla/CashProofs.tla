----------------------------- MODULE CashProofs -----------------------------
(***************************************************************************)
(* Proofs about module CashCollection, for every set of payments, of       *)
(* confirmations and of close requests in progress, any number of          *)
(* collections, of retries and of faults.                                  *)
(***************************************************************************)
EXTENDS CashCollection, FiniteSetTheorems, TLAPS

-----------------------------------------------------------------------------
(* The inductive invariant. *)

\* Collections are closed in the order they were opened: the machine row lock.  A close
\* request is for a collection that was opened.
Prefix ==
  /\ \A c, d \in Collections : d < c /\ coll[c].status # "absent" => coll[d].status = "closed"
  /\ \A x \in Closes : close[x].at # "idle" => coll[close[x].req[1]].status # "absent"

\* A stored close has the times of its transaction, and nothing is later than the clock.
Times ==
  /\ \A c \in Closed : coll[c].closedAt = window[c][1] /\ window[c][2] <= clock
  /\ \A x \in Closes : close[x].at = "update" => close[x].summed <= clock
  /\ \A f \in Confirms : confirm[f].at \in {"insert", "outcome"} => confirm[f].begun > 0

\* updated_at is the beginning of a write of the row.
Rows ==
  \A p \in Payments :
    /\ IsFiniteSet(writes[p])
    /\ updated[p] = 0 => writes[p] = {}
    /\ updated[p] # 0 => \E w \in writes[p] : w[1] = updated[p]

\* A closed collection has p, or a close passed over a write of it.
Covered(p) ==
  \/ \E d \in Closed : p \in coll[d].counted
  \/ \E w \in writes[p], d \in Closed : PassesOver(d, p, w)

\* A sum that is not stored yet misses what a stored one may miss.
SumMisses ==
  \A x \in Closes : close[x].at = "update" =>
    \A p \in Payments : coll[close[x].req[1]].currency = CurrencyOf[p] =>
      \/ \A w \in writes[p] : close[x].summed < w[2]
      \/ p \in close[x].expected
      \/ Covered(p)

\* The write on whose account a close counts p: seen at the sum, and later than the closing
\* time of every collection before it.
Account(p, c, w) == /\ w[2] <= window[c][2]
                    /\ \A d \in Closed : d < c => window[d][1] < w[1]

Accounts ==
  /\ \A c \in Closed : \A p \in coll[c].counted : \E w \in writes[p] : Account(p, c, w)
  /\ \A x \in Closes :
       close[x].at = "update" /\ coll[close[x].req[1]].status = "open" =>
         \A p \in close[x].expected : \E w \in writes[p] :
           w[2] <= close[x].summed /\ \A d \in Closed : window[d][1] < w[1]

\* Every write of a payment is seen no later than the clock.
Seen == \A p \in Payments : \A w \in writes[p] : w[2] <= clock

CInv == TypeOK /\ Prefix /\ Times /\ Rows /\ Seen /\ NothingMissed /\ SumMisses /\ Accounts
        /\ AnswerIsStored

-----------------------------------------------------------------------------
(* Types. *)

CollRow == [status : {"absent", "open", "closed"}, currency : Currencies \cup {None}, closedAt : Nat,
            hash : Hashes \cup {None}, counted : SUBSET Payments]

LEMMA ConfirmShape ==
  ASSUME TypeOK, NEW f \in Confirms, confirm[f].at # "idle"
  PROVE  /\ confirm[f] \in InConfirm
         /\ confirm[f].pay \in Payments /\ confirm[f].begun \in Nat
  BY DEF TypeOK, Idle, InConfirm

LEMMA ActiveConfirm ==
  ASSUME TypeOK, NEW f \in Confirms
  PROVE  confirm[f] = Idle <=> confirm[f].at = "idle"
  BY DEF TypeOK, Idle, InConfirm

LEMMA CloseShape ==
  ASSUME TypeOK, NEW x \in Closes, close[x].at # "idle"
  PROVE  /\ close[x] \in InClose
         /\ close[x].req \in Requests /\ close[x].req[1] \in Collections
         /\ close[x].req[2] \in Hashes
         /\ close[x].req = <<close[x].req[1], close[x].req[2]>>
         /\ close[x].begun \in Nat /\ close[x].summed \in Nat
         /\ close[x].expected \in SUBSET Payments
  <1>1. close[x] \in InClose  BY DEF TypeOK, Idle
  <1>2. /\ close[x].req \in Requests /\ close[x].begun \in Nat /\ close[x].summed \in Nat
        /\ close[x].expected \in SUBSET Payments
    BY <1>1 DEF InClose
  <1> QED BY <1>1, <1>2 DEF Requests

\* Call f is put into state r, and the others stay where they are.
LEMMA ConfirmMoves ==
  ASSUME TypeOK, NEW f \in Confirms, NEW r \in {Idle} \cup InConfirm,
         confirm' = [confirm EXCEPT ![f] = r]
  PROVE  /\ confirm' \in [Confirms -> {Idle} \cup InConfirm]
         /\ confirm'[f] = r /\ \A g \in Confirms : g # f => confirm'[g] = confirm[g]
  BY DEF TypeOK

LEMMA CloseMoves ==
  ASSUME TypeOK, NEW x \in Closes, NEW r \in {Idle} \cup InClose,
         close' = [close EXCEPT ![x] = r]
  PROVE  /\ close' \in [Closes -> {Idle} \cup InClose]
         /\ close'[x] = r /\ \A y \in Closes : y # x => close'[y] = close[y]
  BY DEF TypeOK

\* The commit of a write.
LEMMA WritesStep ==
  ASSUME TypeOK, NEW p \in Payments, NEW b \in Nat, Writes(p, b)
  PROVE  /\ updated' \in [Payments -> Nat] /\ clock' \in Nat /\ clock' = clock + 1
         /\ writes' \in [Payments -> SUBSET (Nat \X Nat)]
         /\ updated'[p] = b /\ writes'[p] = writes[p] \cup {<<b, clock + 1>>}
         /\ \A q \in Payments : q # p => updated'[q] = updated[q] /\ writes'[q] = writes[q]
  BY DEF TypeOK, Writes, Tick

-----------------------------------------------------------------------------
(* Steps of the seller. *)

\* The cashier's part of the invariant: a write is seen after every sum that was taken.
LEMMA SellerKeeps ==
  ASSUME CInv, TypeOK', UNCHANGED cashier,
         clock' = clock \/ clock' = clock + 1,
         \A p \in Payments :
           /\ writes[p] \subseteq writes'[p]
           /\ \A w \in writes'[p] : w \in writes[p] \/ (w[2] = clock' /\ clock' = clock + 1)
  PROVE  /\ Prefix' /\ Seen' /\ NothingMissed' /\ SumMisses' /\ Accounts' /\ AnswerIsStored'
         /\ (\A c \in Closed : coll[c].closedAt = window[c][1] /\ window[c][2] <= clock)'
         /\ (\A x \in Closes : close[x].at = "update" => close[x].summed <= clock)'
  <1>0. /\ clock \in Nat /\ clock' \in Nat /\ clock' >= clock
        /\ coll' = coll /\ close' = close /\ answer' = answer /\ window' = window
    BY DEF CInv, TypeOK, cashier
  <1>1. Closed' = Closed /\ Closed \subseteq Collections  BY <1>0 DEF Closed
  <1>2. \A c \in Closed : window[c][1] \in Nat /\ window[c][2] \in Nat /\ window[c][2] <= clock
    BY <1>1 DEF CInv, TypeOK, Times
  <1>3. \A p \in Payments : \A w \in writes[p] : w[1] \in Nat /\ w[2] \in Nat /\ w[2] <= clock
    BY DEF CInv, TypeOK, Seen
  <1>4. \A x \in Closes : close[x].at = "update" =>
          close[x].summed \in Nat /\ close[x].summed <= clock
    BY CloseShape DEF CInv, Times
  <1>5. Prefix' /\ AnswerIsStored'  BY <1>0 DEF CInv, Prefix, AnswerIsStored
  <1>6. Seen'
    <2> SUFFICES ASSUME NEW p \in Payments, NEW w \in writes'[p] PROVE w[2] <= clock'
      BY DEF Seen
    <2> QED BY <1>0, <1>3
  <1>7. \A p \in Payments : Covered(p) => Covered(p)'
    BY <1>0, <1>1 DEF Covered, PassesOver
  <1>8. NothingMissed'
    <2> SUFFICES ASSUME NEW p \in Payments, NEW c \in Closed, coll[c].currency = CurrencyOf[p]
                 PROVE  (\A w \in writes'[p] : window[c][2] < w[2]) \/ Covered(p)'
      BY <1>0, <1>1 DEF NothingMissed, Covered
    <2>1. (\A w \in writes[p] : window[c][2] < w[2]) \/ Covered(p)
      BY DEF CInv, NothingMissed, Covered
    <2>2. CASE \A w \in writes[p] : window[c][2] < w[2]
      <3> SUFFICES ASSUME NEW w \in writes'[p] PROVE window[c][2] < w[2]  OBVIOUS
      <3> QED BY <1>0, <1>2, <2>2
    <2> QED BY <1>7, <2>1, <2>2
  <1>9. SumMisses'
    <2> SUFFICES ASSUME NEW x \in Closes, close[x].at = "update", NEW p \in Payments,
                        coll[close[x].req[1]].currency = CurrencyOf[p]
                 PROVE  \/ \A w \in writes'[p] : close[x].summed < w[2]
                        \/ p \in close[x].expected \/ Covered(p)'
      BY <1>0 DEF SumMisses
    <2>1. CASE \A w \in writes[p] : close[x].summed < w[2]
      <3> SUFFICES ASSUME NEW w \in writes'[p] PROVE close[x].summed < w[2]  OBVIOUS
      <3> QED BY <1>0, <1>4, <2>1
    <2>2. CASE p \in close[x].expected \/ Covered(p)  BY <1>7, <2>2
    <2> QED BY <2>1, <2>2 DEF CInv, SumMisses
  <1>10. Accounts'
    <2>1. ASSUME NEW c \in Closed, NEW p \in coll[c].counted
          PROVE  \E w \in writes'[p] : Account(p, c, w)'
      <3>1. p \in Payments  BY <1>1 DEF CInv, TypeOK
      <3>2. PICK w \in writes[p] : Account(p, c, w)  BY DEF CInv, Accounts
      <3>3. Account(p, c, w)'  BY <1>0, <1>1, <3>2 DEF Account
      <3> QED BY <3>1, <3>3
    <2>2. ASSUME NEW x \in Closes, close[x].at = "update",
                 coll[close[x].req[1]].status = "open", NEW p \in close[x].expected
          PROVE  \E w \in writes'[p] :
                   w[2] <= close[x].summed /\ \A d \in Closed : window[d][1] < w[1]
      <3>1. p \in Payments  BY <2>2, CloseShape DEF CInv
      <3>2. PICK w \in writes[p] :
              w[2] <= close[x].summed /\ \A d \in Closed : window[d][1] < w[1]
        BY <2>2 DEF CInv, Accounts
      <3> QED BY <3>1, <3>2
    <2> QED BY <1>0, <1>1, <2>1, <2>2 DEF Accounts
  <1>11. (\A c \in Closed : coll[c].closedAt = window[c][1] /\ window[c][2] <= clock)'
    BY <1>0, <1>1, <1>2 DEF CInv, Times
  <1>12. (\A x \in Closes : close[x].at = "update" => close[x].summed <= clock)'
    BY <1>0, <1>4
  <1> QED BY <1>5, <1>6, <1>8, <1>9, <1>10, <1>11, <1>12

\* A step of the seller that writes no payment row.
LEMMA NoWriteInv ==
  ASSUME CInv, TypeOK', UNCHANGED <<updated, writes, cashier>>,
         clock' = clock \/ clock' = clock + 1,
         \A f \in Confirms : confirm'[f].at \in {"insert", "outcome"} => confirm'[f].begun > 0
  PROVE  CInv'
  <1>1. Rows'  BY DEF CInv, Rows
  <1>2. \A p \in Payments : writes'[p] = writes[p]  OBVIOUS
  <1>3. /\ Prefix' /\ Seen' /\ NothingMissed' /\ SumMisses' /\ Accounts' /\ AnswerIsStored'
        /\ (\A c \in Closed : coll[c].closedAt = window[c][1] /\ window[c][2] <= clock)'
        /\ (\A x \in Closes : close[x].at = "update" => close[x].summed <= clock)'
    BY <1>2, SellerKeeps
  <1>4. Times'  BY <1>3 DEF Times
  <1> QED BY <1>1, <1>3, <1>4 DEF CInv

\* A step of the seller that commits a write of row p that began at instant b.
LEMMA WriteInv ==
  ASSUME CInv, TypeOK', UNCHANGED cashier, NEW p \in Payments, NEW b \in Nat \ {0}, Writes(p, b),
         \A f \in Confirms : confirm'[f].at \in {"insert", "outcome"} => confirm'[f].begun > 0
  PROVE  CInv'
  <1>0. /\ clock \in Nat /\ clock' = clock + 1
        /\ updated'[p] = b /\ writes'[p] = writes[p] \cup {<<b, clock + 1>>}
        /\ \A q \in Payments : q # p => updated'[q] = updated[q] /\ writes'[q] = writes[q]
    BY WritesStep DEF CInv, TypeOK
  <1>1. Rows'
    <2> SUFFICES ASSUME NEW q \in Payments
                 PROVE  /\ IsFiniteSet(writes'[q])
                        /\ updated'[q] = 0 => writes'[q] = {}
                        /\ updated'[q] # 0 => \E w \in writes'[q] : w[1] = updated'[q]
      BY DEF Rows
    <2>1. CASE q # p  BY <1>0, <2>1 DEF CInv, Rows
    <2>2. CASE q = p
      <3>1. IsFiniteSet(writes'[p])
        <4>1. IsFiniteSet(writes[p])  BY DEF CInv, Rows
        <4>2. IsFiniteSet(writes[p] \cup {<<b, clock + 1>>})  BY <4>1, FS_AddElement
        <4> QED BY <1>0, <4>2
      <3>2. <<b, clock + 1>> \in writes'[p] /\ <<b, clock + 1>>[1] = updated'[p]  BY <1>0
      <3> QED BY <1>0, <2>2, <3>1, <3>2
    <2> QED BY <2>1, <2>2
  <1>2. ASSUME NEW q \in Payments
        PROVE  /\ writes[q] \subseteq writes'[q]
               /\ \A w \in writes'[q] : w \in writes[q] \/ (w[2] = clock' /\ clock' = clock + 1)
    <2>1. CASE q # p  BY <1>0, <2>1
    <2>2. CASE q = p  BY <1>0, <2>2
    <2> QED BY <2>1, <2>2
  <1>3. /\ Prefix' /\ Seen' /\ NothingMissed' /\ SumMisses' /\ Accounts' /\ AnswerIsStored'
        /\ (\A c \in Closed : coll[c].closedAt = window[c][1] /\ window[c][2] <= clock)'
        /\ (\A x \in Closes : close[x].at = "update" => close[x].summed <= clock)'
    BY <1>0, <1>2, SellerKeeps
  <1>4. Times'  BY <1>3 DEF Times
  <1> QED BY <1>1, <1>3, <1>4 DEF CInv

LEMMA ConfirmBeginInv ==
  ASSUME CInv, NEW f \in Confirms, NEW p \in Payments, ConfirmBegin(f, p)
  PROVE  CInv'
  <1> DEFINE r == [at |-> "insert", pay |-> p, begun |-> clock + 1]
  <1>0. TypeOK /\ clock \in Nat  BY DEF CInv, TypeOK
  <1>1. r \in InConfirm  BY <1>0 DEF InConfirm
  <1>2. /\ confirm' \in [Confirms -> {Idle} \cup InConfirm]
        /\ confirm'[f] = r /\ \A g \in Confirms : g # f => confirm'[g] = confirm[g]
    <2>1. confirm' = [confirm EXCEPT ![f] = r]  BY DEF ConfirmBegin
    <2> HIDE DEF r
    <2> QED BY <1>0, <1>1, <2>1, ConfirmMoves
  <1>3. confirms' \in [Payments -> 0..MaxConfirms]
    BY <1>0, CashLimits DEF TypeOK, ConfirmBegin
  <1>4. clock' = clock + 1 /\ UNCHANGED <<updated, writes, cashier>>  BY DEF ConfirmBegin, Tick
  <1>5. TypeOK'  BY <1>0, <1>2, <1>3, <1>4 DEF TypeOK, ConfirmBegin, cashier
  <1>6. \A g \in Confirms : confirm'[g].at \in {"insert", "outcome"} => confirm'[g].begun > 0
    BY <1>0, <1>2 DEF CInv, Times
  <1> QED BY <1>4, <1>5, <1>6, NoWriteInv

LEMMA InsertInv ==
  ASSUME CInv, NEW f \in Confirms, InsertCaptured(f)
  PROVE  CInv'
  <1> DEFINE p == confirm[f].pay
             r == [at |-> "claim", pay |-> p, begun |-> 0]
  <1>0. /\ TypeOK /\ confirm[f].at = "insert" /\ confirm[f] \in InConfirm
        /\ p \in Payments /\ confirm[f].begun \in Nat \ {0}
    BY ConfirmShape DEF CInv, InsertCaptured, Times
  <1>1. r \in InConfirm  BY <1>0 DEF InConfirm
  <1>2. /\ confirm' \in [Confirms -> {Idle} \cup InConfirm]
        /\ confirm'[f] = r /\ \A g \in Confirms : g # f => confirm'[g] = confirm[g]
    BY <1>0, <1>1 DEF InsertCaptured, InConfirm, TypeOK
  <1>3. \A g \in Confirms : confirm'[g].at \in {"insert", "outcome"} => confirm'[g].begun > 0
    BY <1>2 DEF CInv, Times
  <1>4. UNCHANGED cashier /\ confirms' = confirms /\ faults' = faults  BY DEF InsertCaptured
  <1>5. CASE Writes(p, confirm[f].begun)
    <2>1. TypeOK'
      BY <1>0, <1>2, <1>4, <1>5, WritesStep DEF TypeOK, cashier
    <2> QED BY <1>0, <1>3, <1>4, <1>5, <2>1, WriteInv
  <1>6. CASE UNCHANGED <<clock, updated, writes>>
    <2>1. TypeOK'  BY <1>0, <1>2, <1>4, <1>6 DEF TypeOK, cashier
    <2> QED BY <1>3, <1>4, <1>6, <2>1, NoWriteInv
  <1> QED BY <1>5, <1>6 DEF InsertCaptured

LEMMA OutcomeBeginInv ==
  ASSUME CInv, NEW f \in Confirms, OutcomeBegin(f)
  PROVE  CInv'
  <1> DEFINE r == [at |-> "outcome", pay |-> confirm[f].pay, begun |-> clock + 1]
  <1>0. /\ TypeOK /\ clock \in Nat /\ confirm[f].at = "claim" /\ confirm[f] \in InConfirm
        /\ confirm[f].pay \in Payments
    BY ConfirmShape DEF CInv, OutcomeBegin, TypeOK
  <1>1. r \in InConfirm  BY <1>0 DEF InConfirm
  <1>2. /\ confirm' \in [Confirms -> {Idle} \cup InConfirm]
        /\ confirm'[f] = r /\ \A g \in Confirms : g # f => confirm'[g] = confirm[g]
    BY <1>0, <1>1 DEF OutcomeBegin, InConfirm, TypeOK
  <1>3. \A g \in Confirms : confirm'[g].at \in {"insert", "outcome"} => confirm'[g].begun > 0
    BY <1>0, <1>2 DEF CInv, Times
  <1>4. clock' = clock + 1 /\ UNCHANGED <<updated, writes, cashier, confirms, faults>>
    BY DEF OutcomeBegin, Tick
  <1>5. TypeOK'  BY <1>0, <1>2, <1>4 DEF TypeOK, cashier
  <1> QED BY <1>3, <1>4, <1>5, NoWriteInv

LEMMA OutcomeInv ==
  ASSUME CInv, NEW f \in Confirms, UpdatePaymentOutcome(f)
  PROVE  CInv'
  <1> DEFINE p == confirm[f].pay
  <1>0. /\ TypeOK /\ p \in Payments /\ confirm[f].begun \in Nat \ {0}
    BY ConfirmShape DEF CInv, UpdatePaymentOutcome, Times
  <1>1. /\ confirm' \in [Confirms -> {Idle} \cup InConfirm]
        /\ confirm'[f] = Idle /\ \A g \in Confirms : g # f => confirm'[g] = confirm[g]
    BY <1>0, ConfirmMoves DEF UpdatePaymentOutcome
  <1>2. \A g \in Confirms : confirm'[g].at \in {"insert", "outcome"} => confirm'[g].begun > 0
    BY <1>1 DEF CInv, Times, Idle
  <1>3. UNCHANGED <<cashier, confirms, faults>> /\ Writes(p, confirm[f].begun)
    BY DEF UpdatePaymentOutcome
  <1>4. TypeOK'  BY <1>0, <1>1, <1>3, WritesStep DEF TypeOK, cashier
  <1> QED BY <1>0, <1>2, <1>3, <1>4, WriteInv

LEMMA ConfirmEndsInv ==
  ASSUME CInv, NEW f \in Confirms, ConfirmEnds(f)
  PROVE  CInv'
  <1>1. /\ confirm' \in [Confirms -> {Idle} \cup InConfirm]
        /\ confirm'[f] = Idle /\ \A g \in Confirms : g # f => confirm'[g] = confirm[g]
    BY ConfirmMoves DEF ConfirmEnds, CInv
  <1>2. \A g \in Confirms : confirm'[g].at \in {"insert", "outcome"} => confirm'[g].begun > 0
    BY <1>1 DEF CInv, Times, Idle
  <1>3. UNCHANGED <<clock, updated, confirms, writes, cashier, faults>>  BY DEF ConfirmEnds
  <1>4. TypeOK'  BY <1>1, <1>3 DEF CInv, TypeOK, cashier
  <1> QED BY <1>2, <1>3, <1>4, NoWriteInv

-----------------------------------------------------------------------------
(* Steps of the cashier. *)

\* What the seller's part of the invariant says stays as it is.
LEMMA CashierKeeps ==
  ASSUME CInv, UNCHANGED <<clock, seller>>
  PROVE  /\ Rows' /\ Seen'
         /\ (\A f \in Confirms : confirm[f].at \in {"insert", "outcome"} => confirm[f].begun > 0)'
  BY DEF CInv, Rows, Seen, Times, seller

\* A collection that is closed stays as it was closed.
StaysClosed == \A c \in Closed : c \in Closed' /\ coll'[c] = coll[c] /\ window'[c] = window[c]

LEMMA CoveredStays ==
  ASSUME StaysClosed, writes' = writes, NEW p, Covered(p)
  PROVE  Covered(p)'
  BY DEF StaysClosed, Covered, PassesOver

LEMMA AnswerStays ==
  ASSUME CInv, StaysClosed, NEW r \in Requests, answer'[r] = answer[r]
  PROVE  /\ answer'[r] = "ok" => coll'[r[1]].status = "closed" /\ coll'[r[1]].hash = r[2]
         /\ answer'[r] = "conflict" => coll'[r[1]].status = "closed" /\ coll'[r[1]].hash # r[2]
  <1>1. r[1] \in Collections  BY DEF Requests
  <1>2. r[1] \in Closed => coll'[r[1]] = coll[r[1]]  BY DEF StaysClosed
  <1> QED BY <1>1, <1>2 DEF CInv, AnswerIsStored, Closed

LEMMA StartInv ==
  ASSUME CInv, NEW c \in Collections, NEW u \in Currencies, StartMachineCashCollection(c, u)
  PROVE  CInv'
  <1> DEFINE r == [status |-> "open", currency |-> u, closedAt |-> coll[c].closedAt, hash |-> coll[c].hash,
                   counted |-> coll[c].counted]
  <1>0. TypeOK /\ coll \in [Collections -> CollRow]  BY DEF CInv, TypeOK, CollRow
  <1>1. r \in CollRow  BY <1>0 DEF CollRow
  <1>2. /\ coll' \in [Collections -> CollRow] /\ coll'[c] = r
        /\ \A d \in Collections : d # c => coll'[d] = coll[d]
    BY <1>0, <1>1 DEF StartMachineCashCollection, CollRow
  <1>3. UNCHANGED <<clock, seller, close, answer, faults, window>>
    BY DEF StartMachineCashCollection
  <1>4. TypeOK'  BY <1>0, <1>2, <1>3 DEF TypeOK, CollRow, seller
  <1>5. /\ coll[c].status = "absent"
        /\ \A d \in Collections : coll[d].status # "open" /\ (d < c => coll[d].status # "absent")
    BY DEF StartMachineCashCollection
  <1>6. Closed' = Closed /\ c \notin Closed /\ StaysClosed
    BY <1>2, <1>3, <1>5 DEF Closed, StaysClosed
  <1>7. Prefix'
    <2>0. \A d \in Collections : coll[d].status \in {"absent", "open", "closed"}
      BY <1>0 DEF CollRow
    <2>1. ASSUME NEW a \in Collections, NEW d \in Collections, d < a, coll'[a].status # "absent"
          PROVE  coll'[d].status = "closed"
      <3>1. CASE a = c
        <4>1. d # c /\ coll[d].status # "absent" /\ coll[d].status # "open"
          BY <1>5, <2>1, <3>1 DEF Collections
        <4> QED BY <1>2, <2>0, <4>1
      <3>2. CASE a # c
        <4>1. coll[d].status = "closed"  BY <1>2, <2>1, <3>2 DEF CInv, Prefix
        <4>2. d # c  BY <1>5, <4>1
        <4> QED BY <1>2, <4>1, <4>2
      <3> QED BY <3>1, <3>2
    <2>2. ASSUME NEW x \in Closes, close[x].at # "idle"
          PROVE  coll'[close[x].req[1]].status # "absent"
      <3>1. close[x].req[1] \in Collections  BY <1>0, <2>2, CloseShape
      <3>2. coll[close[x].req[1]].status # "absent"  BY <2>2 DEF CInv, Prefix
      <3> QED BY <1>2, <1>5, <3>1, <3>2
    <2> QED BY <1>3, <2>1, <2>2 DEF Prefix
  <1>8. Times'  BY <1>3, <1>6, CashierKeeps DEF CInv, Times, StaysClosed, Closed
  <1>9. \A p : Covered(p) => Covered(p)'  BY <1>3, <1>6, CoveredStays DEF seller
  <1>10. NothingMissed'
    <2> SUFFICES ASSUME NEW p \in Payments, NEW d \in Closed, coll[d].currency = CurrencyOf[p]
                 PROVE  (\A w \in writes[p] : window[d][2] < w[2]) \/ Covered(p)'
      BY <1>3, <1>6 DEF NothingMissed, Covered, StaysClosed, seller
    <2> QED BY <1>9 DEF CInv, NothingMissed, Covered
  <1>11. SumMisses'
    <2>1. ASSUME NEW x \in Closes, close[x].at = "update"
          PROVE  coll'[close[x].req[1]] = coll[close[x].req[1]]
      <3>1. close[x].req[1] \in Collections /\ coll[close[x].req[1]].status # "absent"
        BY <1>0, <2>1, CloseShape DEF CInv, Prefix
      <3> QED BY <1>2, <1>5, <3>1
    <2> QED BY <1>3, <1>9, <2>1 DEF CInv, SumMisses, seller
  <1>12. Accounts'
    <2>1. ASSUME NEW d \in Closed, NEW p \in coll'[d].counted
          PROVE  \E w \in writes'[p] : Account(p, d, w)'
      BY <1>3, <1>6 DEF CInv, Accounts, Account, StaysClosed, seller
    <2>2. ASSUME NEW x \in Closes, close[x].at = "update",
                 coll'[close[x].req[1]].status = "open", NEW p \in close[x].expected
          PROVE  \E w \in writes[p] :
                   w[2] <= close[x].summed /\ \A d \in Closed : window[d][1] < w[1]
      <3>1. close[x].req[1] \in Collections /\ coll[close[x].req[1]].status # "absent"
        BY <1>0, <2>2, CloseShape DEF CInv, Prefix
      <3>2. coll[close[x].req[1]].status = "open"  BY <1>2, <1>5, <2>2, <3>1
      <3> QED BY <2>2, <3>2 DEF CInv, Accounts
    <2> QED BY <1>3, <1>6, <2>1, <2>2 DEF Accounts, seller
  <1>13. AnswerIsStored'  BY <1>3, <1>6, AnswerStays DEF AnswerIsStored
  <1> QED BY <1>3, <1>4, <1>7, <1>8, <1>10, <1>11, <1>12, <1>13, CashierKeeps DEF CInv

\* A step of close request x that stores nothing.
LEMMA CloseOnly ==
  ASSUME CInv, TypeOK', UNCHANGED <<clock, seller, coll, window>>, AnswerIsStored',
         NEW x \in Closes, \A y \in Closes : y # x => close'[y] = close[y],
         close'[x].at # "idle" => coll[close'[x].req[1]].status # "absent",
         close'[x].at = "update" =>
           /\ close'[x].summed <= clock
           /\ \A p \in Payments : coll[close'[x].req[1]].currency = CurrencyOf[p] =>
                \/ \A w \in writes[p] : close'[x].summed < w[2]
                \/ p \in close'[x].expected
                \/ Covered(p)
           /\ coll[close'[x].req[1]].status = "open" =>
                \A p \in close'[x].expected : \E w \in writes[p] :
                  w[2] <= close'[x].summed /\ \A d \in Closed : window[d][1] < w[1]
  PROVE  CInv'
  <1>1. Closed' = Closed /\ StaysClosed  BY DEF Closed, StaysClosed
  <1>2. \A p : Covered(p)' = Covered(p)  BY <1>1 DEF Covered, PassesOver, seller
  <1>3. Prefix'
    <2>1. ASSUME NEW y \in Closes, close'[y].at # "idle"
          PROVE  coll[close'[y].req[1]].status # "absent"
      BY <2>1 DEF CInv, Prefix
    <2> QED BY <2>1 DEF CInv, Prefix
  <1>4. Times'
    <2>1. ASSUME NEW y \in Closes, close'[y].at = "update" PROVE close'[y].summed <= clock
      BY <2>1 DEF CInv, Times
    <2> QED BY <1>1, <2>1, CashierKeeps DEF CInv, Times
  <1>5. NothingMissed'  BY <1>1 DEF CInv, NothingMissed, PassesOver, seller
  <1>6. SumMisses'
    <2> SUFFICES ASSUME NEW y \in Closes, close'[y].at = "update", NEW p \in Payments,
                        coll[close'[y].req[1]].currency = CurrencyOf[p]
                 PROVE  \/ \A w \in writes[p] : close'[y].summed < w[2]
                        \/ p \in close'[y].expected \/ Covered(p)
      BY <1>2 DEF SumMisses, seller
    <2>1. CASE y = x  BY <2>1
    <2>2. CASE y # x  BY <2>2 DEF CInv, SumMisses
    <2> QED BY <2>1, <2>2
  <1>7. Accounts'
    <2>1. ASSUME NEW d \in Closed, NEW p \in coll'[d].counted
          PROVE  \E w \in writes'[p] : Account(p, d, w)'
      BY <1>1 DEF CInv, Accounts, Account, seller
    <2>2. ASSUME NEW y \in Closes, close'[y].at = "update",
                 coll[close'[y].req[1]].status = "open", NEW p \in close'[y].expected
          PROVE  \E w \in writes[p] :
                   w[2] <= close'[y].summed /\ \A d \in Closed : window[d][1] < w[1]
      <3>1. CASE y = x  BY <2>2, <3>1
      <3>2. CASE y # x  BY <2>2, <3>2 DEF CInv, Accounts
      <3> QED BY <3>1, <3>2
    <2> QED BY <1>1, <2>1, <2>2 DEF Accounts, seller
  <1> QED BY <1>3, <1>4, <1>5, <1>6, <1>7, CashierKeeps DEF CInv

LEMMA CloseBeginInv ==
  ASSUME CInv, NEW x \in Closes, NEW c \in Collections, CloseBegin(x, c)
  PROVE  CInv'
  <1> DEFINE r == <<c, Payload[x]>>
             n == [at |-> "sum", req |-> r, begun |-> clock, summed |-> 0, expected |-> {}]
  <1>0. TypeOK /\ clock \in Nat /\ r \in Requests /\ coll[c].status # "absent"
    BY CashPayloads DEF CInv, TypeOK, Requests, CloseBegin
  <1>1. UNCHANGED <<clock, seller, coll, faults, window>>  BY DEF CloseBegin
  <1>2. StaysClosed  BY <1>1 DEF StaysClosed, Closed
  <1>3. CASE coll[c].status = "closed" /\ Answer(r) /\ UNCHANGED close
    <2>1. TypeOK'  BY <1>0, <1>1, <1>3 DEF TypeOK, Answer, seller
    <2>2. AnswerIsStored'
      <3> SUFFICES ASSUME NEW q \in Requests
            PROVE  /\ answer'[q] = "ok" => coll'[q[1]].status = "closed" /\ coll'[q[1]].hash = q[2]
                   /\ answer'[q] = "conflict" =>
                        coll'[q[1]].status = "closed" /\ coll'[q[1]].hash # q[2]
        BY DEF AnswerIsStored
      <3>1. CASE q = r
        <4>1. q[1] = c /\ answer'[q] = IF coll[c].hash = q[2] THEN "ok" ELSE "conflict"
          BY <1>0, <1>3, <3>1 DEF Answer, TypeOK
        <4> QED BY <1>1, <1>3, <4>1
      <3>2. CASE q # r
        <4>1. answer'[q] = answer[q]  BY <1>0, <1>3, <3>2 DEF Answer, TypeOK
        <4> QED BY <1>2, <4>1, AnswerStays
      <3> QED BY <3>1, <3>2
    <2>3. close[x].at = "idle"  BY DEF CloseBegin, Idle
    <2> QED BY <1>1, <1>3, <2>1, <2>2, <2>3, CloseOnly
  <1>4. CASE close' = [close EXCEPT ![x] = n] /\ UNCHANGED answer
    <2>1. n \in InClose  BY <1>0 DEF InClose
    <2>2. n.at = "sum" /\ n.req[1] = c  OBVIOUS
    <2> HIDE DEF n
    <2>3. /\ close' \in [Closes -> {Idle} \cup InClose]
          /\ close'[x] = n /\ \A y \in Closes : y # x => close'[y] = close[y]
      BY <1>0, <1>4, <2>1, CloseMoves
    <2>4. TypeOK'  BY <1>0, <1>1, <1>4, <2>3 DEF TypeOK, seller
    <2>5. AnswerIsStored'  BY <1>2, <1>4, AnswerStays DEF AnswerIsStored
    <2> QED BY <1>0, <1>1, <2>2, <2>3, <2>4, <2>5, CloseOnly
  <1> QED BY <1>3, <1>4 DEF CloseBegin

\* A payment that has a row is expected, or its last write is before a closing time: that
\* close has it, or passed over the write.
LEMMA ExpectedOrCovered ==
  ASSUME CInv, NEW p \in Payments, writes[p] # {}, p \notin NetExpected(CurrencyOf[p])
  PROVE  Covered(p)
  <1>1. updated[p] # 0 /\ updated[p] \in Nat  BY DEF CInv, Rows, TypeOK
  <1>2. PICK d \in Closed : ~(coll[d].closedAt < updated[p])  BY <1>1 DEF NetExpected
  <1>3. PICK w \in writes[p] : w[1] = updated[p]  BY <1>1 DEF CInv, Rows
  <1>4. /\ d \in Collections /\ coll[d].closedAt = window[d][1]
        /\ window[d][1] \in Nat /\ window[d][2] \in Nat /\ w[1] \in Nat /\ w[2] \in Nat
    BY <1>2 DEF CInv, Times, TypeOK, Closed
  <1>5. CASE window[d][2] < w[2] \/ coll[d].currency # CurrencyOf[p]
    <2>1. PassesOver(d, p, w)  BY <1>1, <1>2, <1>3, <1>4, <1>5 DEF PassesOver
    <2> QED BY <2>1 DEF Covered
  <1>6. CASE ~(window[d][2] < w[2]) /\ coll[d].currency = CurrencyOf[p]
    BY <1>6 DEF CInv, NothingMissed, Covered
  <1> QED BY <1>5, <1>6

LEMMA SumInv ==
  ASSUME CInv, NEW x \in Closes, CashSettlementNetExpected(x)
  PROVE  CInv'
  <1> DEFINE u == coll[close[x].req[1]].currency
             n == [at |-> "update", req |-> close[x].req, begun |-> close[x].begun,
                   summed |-> clock, expected |-> NetExpected(u)]
  <1>0. /\ TypeOK /\ clock \in Nat /\ close[x] \in InClose /\ close[x].at = "sum"
        /\ close[x].req[1] \in Collections
    BY CloseShape DEF CInv, CashSettlementNetExpected, TypeOK
  <1>1. UNCHANGED <<clock, seller, coll, answer, faults, window>>
    BY DEF CashSettlementNetExpected
  <1>2. n \in InClose  BY <1>0 DEF InClose, NetExpected
  <1>3. /\ close' \in [Closes -> {Idle} \cup InClose]
        /\ close'[x] = n /\ \A y \in Closes : y # x => close'[y] = close[y]
    BY <1>0, <1>2 DEF CashSettlementNetExpected, InClose, TypeOK
  <1>4. TypeOK'  BY <1>0, <1>1, <1>3 DEF TypeOK, seller
  <1>5. AnswerIsStored'
    <2>1. StaysClosed  BY <1>1 DEF StaysClosed, Closed
    <2> QED BY <1>1, <2>1, AnswerStays DEF AnswerIsStored
  <1>6. ASSUME NEW p \in Payments, u = CurrencyOf[p]
        PROVE  (\A w \in writes[p] : clock < w[2]) \/ p \in NetExpected(u) \/ Covered(p)
    BY <1>6, ExpectedOrCovered
  <1>7. ASSUME NEW p \in NetExpected(u)
        PROVE  \E w \in writes[p] : w[2] <= clock /\ \A d \in Closed : window[d][1] < w[1]
    <2>1. p \in Payments /\ updated[p] # 0 /\ \A d \in Closed : coll[d].closedAt < updated[p]
      BY DEF NetExpected
    <2>2. PICK w \in writes[p] : w[1] = updated[p]  BY <2>1 DEF CInv, Rows
    <2>3. w[2] <= clock  BY <2>1 DEF CInv, Seen
    <2>4. \A d \in Closed : window[d][1] < w[1]  BY <2>1, <2>2 DEF CInv, Times
    <2> QED BY <2>3, <2>4
  <1>8. coll[close[x].req[1]].status # "absent"  BY <1>0 DEF CInv, Prefix
  <1>9. /\ close'[x].req = close[x].req /\ close'[x].summed = clock
        /\ close'[x].expected = NetExpected(u)
    BY <1>3
  <1> QED BY <1>0, <1>1, <1>3, <1>4, <1>5, <1>6, <1>7, <1>8, <1>9, CloseOnly

LEMMA DiesInv ==
  ASSUME CInv, NEW x \in Closes, CloseDies(x)
  PROVE  CInv'
  <1>1. UNCHANGED <<clock, seller, coll, answer, window>>  BY DEF CloseDies
  <1>2. /\ close' \in [Closes -> {Idle} \cup InClose]
        /\ close'[x] = Idle /\ \A y \in Closes : y # x => close'[y] = close[y]
    BY CloseMoves DEF CloseDies, CInv
  <1>3. faults' \in 0..MaxFaults  BY CashLimits DEF CloseDies, Fault, CInv, TypeOK
  <1>4. TypeOK'  BY <1>1, <1>2, <1>3 DEF CInv, TypeOK, seller
  <1>5. AnswerIsStored'
    <2>1. StaysClosed  BY <1>1 DEF StaysClosed, Closed
    <2> QED BY <1>1, <2>1, AnswerStays DEF AnswerIsStored
  <1>6. close'[x].at = "idle"  BY <1>2 DEF Idle
  <1> QED BY <1>1, <1>2, <1>4, <1>5, <1>6, CloseOnly

\* The open collection is the last one: what its close stores is after every other close.
LEMMA StoreInv ==
  ASSUME CInv, NEW x \in Closes, close[x].at = "update",
         coll[close[x].req[1]].status = "open", StoreClose(x, close[x].begun),
         \/ answer' = [answer EXCEPT ![close[x].req] = "ok"] /\ UNCHANGED faults
         \/ Fault /\ UNCHANGED answer,
         close' = [close EXCEPT ![x] = Idle], UNCHANGED <<clock, seller>>
  PROVE  CInv'
  <1> DEFINE q == close[x].req
             c == close[x].req[1]
             r == [status |-> "closed", currency |-> coll[c].currency, closedAt |-> close[x].begun,
                   hash |-> close[x].req[2], counted |-> close[x].expected]
  <1>0. /\ TypeOK /\ coll \in [Collections -> CollRow] /\ window \in [Collections -> Nat \X Nat]
        /\ q \in Requests /\ c \in Collections /\ close[x].req[2] \in Hashes
        /\ q = <<c, close[x].req[2]>>
        /\ close[x].begun \in Nat /\ close[x].summed \in Nat /\ close[x].expected \in SUBSET Payments
        /\ clock \in Nat /\ close[x].summed <= clock
    BY CloseShape DEF CInv, TypeOK, CollRow, Times
  <1>1. /\ coll' \in [Collections -> CollRow] /\ coll'[c] = r
        /\ \A d \in Collections : d # c => coll'[d] = coll[d]
    <2>1. r \in CollRow  BY <1>0 DEF CollRow
    <2>2. coll' = [coll EXCEPT ![c] = r]  BY DEF StoreClose
    <2> HIDE DEF r, c
    <2> QED BY <1>0, <2>1, <2>2
  <1>2. /\ window' \in [Collections -> Nat \X Nat]
        /\ window'[c][1] = close[x].begun /\ window'[c][2] = close[x].summed
        /\ \A d \in Collections : d # c => window'[d] = window[d]
    BY <1>0 DEF StoreClose
  <1>3. /\ close' \in [Closes -> {Idle} \cup InClose]
        /\ close'[x].at = "idle" /\ \A y \in Closes : y # x => close'[y] = close[y]
    BY <1>0, CloseMoves DEF Idle
  <1>4. answer' \in [Requests -> {None, "ok", "conflict"}] /\ faults' \in 0..MaxFaults
    BY <1>0, CashLimits DEF TypeOK, Fault
  <1>5. TypeOK'  BY <1>0, <1>1, <1>2, <1>3, <1>4 DEF TypeOK, CollRow, seller
  <1>6. Closed' = Closed \cup {c} /\ c \notin Closed /\ Closed \subseteq Collections
    BY <1>0, <1>1 DEF Closed
  <1>7. StaysClosed  BY <1>1, <1>2, <1>6 DEF StaysClosed
  <1>8. \A d \in Closed : d < c /\ ~(c < d)
    <2> SUFFICES ASSUME NEW d \in Closed PROVE d < c /\ ~(c < d)  OBVIOUS
    <2>1. d \in Collections /\ d # c /\ coll[d].status = "closed"  BY <1>6 DEF Closed
    <2>2. ~(c < d)  BY <1>0, <2>1 DEF CInv, Prefix
    <2> QED BY <1>0, <2>1, <2>2 DEF Collections
  <1>9. Prefix'
    <2>1. ASSUME NEW a \in Collections, NEW d \in Collections, d < a, coll'[a].status # "absent"
          PROVE  coll'[d].status = "closed"
      <3>1. coll[a].status # "absent"  BY <1>0, <1>1, <2>1
      <3>2. coll[d].status = "closed"  BY <2>1, <3>1 DEF CInv, Prefix
      <3> QED BY <1>1, <3>2
    <2>2. ASSUME NEW y \in Closes, close'[y].at # "idle"
          PROVE  coll'[close'[y].req[1]].status # "absent"
      <3>1. y # x /\ close'[y] = close[y]  BY <1>3, <2>2
      <3>2. close[y].req[1] \in Collections /\ coll[close[y].req[1]].status # "absent"
        BY <1>0, <2>2, <3>1, CloseShape DEF CInv, Prefix
      <3> QED BY <1>1, <3>1, <3>2
    <2> QED BY <2>1, <2>2 DEF Prefix
  <1>10. Times'
    <2>1. ASSUME NEW d \in Closed' PROVE coll'[d].closedAt = window'[d][1] /\ window'[d][2] <= clock
      <3>1. CASE d = c  BY <1>0, <1>1, <1>2, <3>1
      <3>2. CASE d # c  BY <1>6, <1>7, <3>2 DEF CInv, Times, StaysClosed
      <3> QED BY <3>1, <3>2
    <2>2. ASSUME NEW y \in Closes, close'[y].at = "update" PROVE close'[y].summed <= clock
      BY <1>3, <2>2 DEF CInv, Times
    <2> QED BY <2>1, <2>2, CashierKeeps DEF Times
  <1>11. \A p : Covered(p) => Covered(p)'  BY <1>7, CoveredStays DEF seller
  <1>12. NothingMissed'
    <2> SUFFICES ASSUME NEW p \in Payments, NEW d \in Closed', coll'[d].currency = CurrencyOf[p]
                 PROVE  (\A w \in writes[p] : window'[d][2] < w[2]) \/ Covered(p)'
      BY DEF NothingMissed, Covered, seller
    <2>1. CASE d # c
      <3>1. d \in Closed /\ window'[d] = window[d] /\ coll'[d] = coll[d]
        BY <1>6, <1>7, <2>1 DEF StaysClosed
      <3>2. (\A w \in writes[p] : window[d][2] < w[2]) \/ Covered(p)
        BY <3>1 DEF CInv, NothingMissed, Covered
      <3> QED BY <1>11, <3>1, <3>2
    <2>2. CASE d = c
      <3>1. \/ \A w \in writes[p] : close[x].summed < w[2]
            \/ p \in close[x].expected
            \/ Covered(p)
        BY <1>1, <2>2 DEF CInv, SumMisses
      <3>2. CASE p \in close[x].expected
        <4>1. c \in Closed' /\ p \in coll'[c].counted  BY <1>1, <1>6, <3>2
        <4> QED BY <4>1 DEF Covered
      <3> QED BY <1>2, <1>11, <2>2, <3>1, <3>2
    <2> QED BY <2>1, <2>2
  <1>13. SumMisses'
    <2> SUFFICES ASSUME NEW y \in Closes, close'[y].at = "update", NEW p \in Payments,
                        coll'[close'[y].req[1]].currency = CurrencyOf[p]
                 PROVE  \/ \A w \in writes[p] : close'[y].summed < w[2]
                        \/ p \in close'[y].expected \/ Covered(p)'
      BY DEF SumMisses, seller
    <2>1. close'[y] = close[y] /\ close[y].req[1] \in Collections  BY <1>0, <1>3, CloseShape
    <2>2. coll[close[y].req[1]].currency = CurrencyOf[p]  BY <1>1, <2>1
    <2> QED BY <1>11, <2>1, <2>2 DEF CInv, SumMisses
  <1>14. Accounts'
    <2>1. ASSUME NEW d \in Closed', NEW p \in coll'[d].counted
          PROVE  \E w \in writes'[p] : Account(p, d, w)'
      <3>1. CASE d = c
        <4>1. p \in close[x].expected  BY <1>1, <2>1, <3>1
        <4>2. PICK w \in writes[p] :
                w[2] <= close[x].summed /\ \A e \in Closed : window[e][1] < w[1]
          BY <4>1 DEF CInv, Accounts
        <4>3. \A e \in Closed' : e < c => window'[e][1] < w[1]
          <5> SUFFICES ASSUME NEW e \in Closed', e < c PROVE window'[e][1] < w[1]  OBVIOUS
          <5>1. e # c  BY <1>0 DEF Collections
          <5> QED BY <1>6, <1>7, <4>2, <5>1 DEF StaysClosed
        <4>4. Account(p, d, w)'  BY <1>2, <3>1, <4>2, <4>3 DEF Account
        <4> QED BY <4>4 DEF seller
      <3>2. CASE d # c
        <4>1. d \in Closed /\ coll'[d] = coll[d] /\ window'[d] = window[d]
          BY <1>6, <1>7, <3>2 DEF StaysClosed
        <4>2. PICK w \in writes[p] : Account(p, d, w)  BY <2>1, <4>1 DEF CInv, Accounts
        <4>3. \A e \in Closed' : e < d => window'[e][1] < w[1]
          <5> SUFFICES ASSUME NEW e \in Closed', e < d PROVE window'[e][1] < w[1]  OBVIOUS
          <5>1. e # c  BY <1>8, <4>1
          <5> QED BY <1>6, <1>7, <4>2, <5>1 DEF StaysClosed, Account
        <4>4. Account(p, d, w)'  BY <4>1, <4>2, <4>3 DEF Account
        <4> QED BY <4>4 DEF seller
      <3> QED BY <3>1, <3>2
    <2>2. ASSUME NEW y \in Closes, close'[y].at = "update",
                 coll'[close'[y].req[1]].status = "open"
          PROVE  FALSE
      <3>1. close'[y] = close[y] /\ close[y].at = "update"  BY <1>3, <2>2
      <3>2. close[y].req[1] \in Collections  BY <1>0, <3>1, CloseShape
      <3>3. close[y].req[1] # c /\ coll[close[y].req[1]].status = "open"
        BY <1>1, <2>2, <3>1, <3>2
      <3>4. close[y].req[1] < c \/ c < close[y].req[1]  BY <1>0, <3>2, <3>3 DEF Collections
      <3> QED BY <1>0, <3>2, <3>3, <3>4 DEF CInv, Prefix
    <2> QED BY <2>1, <2>2 DEF Accounts
  <1>15. AnswerIsStored'
    <2> SUFFICES ASSUME NEW u \in Requests
          PROVE  /\ answer'[u] = "ok" => coll'[u[1]].status = "closed" /\ coll'[u[1]].hash = u[2]
                 /\ answer'[u] = "conflict" =>
                      coll'[u[1]].status = "closed" /\ coll'[u[1]].hash # u[2]
      BY DEF AnswerIsStored
    <2>1. CASE answer'[u] = answer[u]  BY <1>7, <2>1, AnswerStays
    <2>2. CASE answer'[u] # answer[u]
      <3>1. u = q /\ answer'[u] = "ok"  BY <1>0, <2>2 DEF TypeOK
      <3>2. u[1] = c /\ u[2] = close[x].req[2]  BY <1>0, <3>1
      <3> QED BY <1>1, <3>1, <3>2
    <2> QED BY <2>1, <2>2
  <1> QED BY <1>5, <1>9, <1>10, <1>12, <1>13, <1>14, <1>15, CashierKeeps DEF CInv

LEMMA CloseInv ==
  ASSUME CInv, NEW x \in Closes, CloseCashCollection(x)
  PROVE  CInv'
  <1> DEFINE c == close[x].req[1]
  <1>1. CASE coll[c].status = "open"  BY <1>1, StoreInv DEF CloseCashCollection
  <1>2. CASE coll[c].status # "open"
    <2>1. UNCHANGED <<clock, seller, coll, answer, window, faults>>
      BY <1>2 DEF CloseCashCollection
    <2>2. /\ close' \in [Closes -> {Idle} \cup InClose]
          /\ close'[x] = Idle /\ \A y \in Closes : y # x => close'[y] = close[y]
      BY CloseMoves DEF CloseCashCollection, CInv
    <2>3. TypeOK'  BY <2>1, <2>2 DEF CInv, TypeOK, seller
    <2>4. AnswerIsStored'
      <3>1. StaysClosed  BY <2>1 DEF StaysClosed, Closed
      <3> QED BY <2>1, <3>1, AnswerStays DEF AnswerIsStored
    <2>5. close'[x].at = "idle"  BY <2>2 DEF Idle
    <2> QED BY <2>1, <2>2, <2>3, <2>4, <2>5, CloseOnly
  <1> QED BY <1>1, <1>2

-----------------------------------------------------------------------------
(* Counting. *)

\* A set that is mapped into another one without a collision is not larger.
LEMMA NoCollision ==
  ASSUME NEW S, IsFiniteSet(S), NEW T, IsFiniteSet(T), NEW f \in [S -> T],
         \A a, b \in S : f[a] = f[b] => a = b
  PROVE  Cardinality(S) <= Cardinality(T)
  <1>1. Cardinality(S) \in Nat /\ Cardinality(T) \in Nat  BY FS_CardinalityType
  <1>2. CASE Cardinality(T) < Cardinality(S)
    <2>1. \E a, b \in S : a # b /\ f[a] = f[b]  BY <1>2, FS_PigeonHole
    <2> QED BY <2>1
  <1> QED BY <1>1, <1>2

\* Two closes that count p on account of one write: the write lies inside the earlier.
LEMMA CountedBound ==
  ASSUME CInv, NEW p \in Payments
  PROVE  Cardinality({c \in Closed : p \in coll[c].counted}) <=
           Cardinality(writes[p])
             + Cardinality({wc \in writes[p] \X Closed : Inside(wc[1], wc[2])})
  <1> DEFINE C == {c \in Closed : p \in coll[c].counted}
             W == writes[p]
             I == {wc \in W \X Closed : Inside(wc[1], wc[2])}
             g == [c \in C |-> CHOOSE w \in W : Account(p, c, w)]
             A == {c \in C : Inside(g[c], c)}
             B == C \ A
  <1>0. Closed \subseteq Collections /\ C \subseteq Closed  BY DEF Closed
  <1>1. IsFiniteSet(Closed) /\ IsFiniteSet(C) /\ IsFiniteSet(A) /\ IsFiniteSet(B)
    <2>1. IsFiniteSet(Collections)  BY CashLimits, FS_Interval DEF Collections
    <2>2. A \subseteq Collections /\ B \subseteq Collections /\ C \subseteq Collections  BY <1>0
    <2> QED BY <1>0, <2>1, <2>2, FS_Subset
  <1>2. IsFiniteSet(W) /\ W \subseteq Nat \X Nat  BY DEF CInv, Rows, TypeOK
  <1>3. IsFiniteSet(I)
    <2>1. IsFiniteSet(W \X Closed)  BY <1>1, <1>2, FS_Product
    <2>2. I \subseteq W \X Closed  OBVIOUS
    <2> QED BY <2>1, <2>2, FS_Subset
  <1>4. \A c \in C : g[c] \in W /\ Account(p, c, g[c])
    <2> SUFFICES ASSUME NEW c \in C PROVE g[c] \in W /\ Account(p, c, g[c])  OBVIOUS
    <2>1. \E w \in W : Account(p, c, w)  BY DEF CInv, Accounts
    <2> QED BY <2>1
  <1>5. Cardinality(A) <= Cardinality(I)
    <2> DEFINE f == [c \in A |-> <<g[c], c>>]
    <2>1. ASSUME NEW c \in A PROVE f[c] \in I
      <3>1. g[c] \in W /\ c \in Closed /\ Inside(g[c], c)  BY <1>0, <1>4
      <3> HIDE DEF g, W
      <3> QED BY <3>1
    <2>2. f \in [A -> I]  BY <2>1
    <2>3. \A a, b \in A : f[a] = f[b] => a = b
      <3> HIDE DEF g, A
      <3> QED OBVIOUS
    <2> HIDE DEF f, A, I
    <2> QED BY <1>1, <1>3, <2>2, <2>3, NoCollision
  <1>6. Cardinality(B) <= Cardinality(W)
    <2> DEFINE f == [c \in B |-> g[c]]
    <2>1. f \in [B -> W]  BY <1>4
    <2>2. ASSUME NEW a \in B, NEW b \in B, a < b, g[a] = g[b] PROVE FALSE
      <3>1. a \in Closed /\ b \in Closed  BY <1>0
      <3>2. window[a][1] < g[a][1]  BY <1>4, <2>2, <3>1 DEF Account
      <3>3. g[a][2] <= window[a][2]  BY <1>4 DEF Account
      <3>4. Inside(g[a], a)  BY <3>2, <3>3 DEF Inside
      <3> QED BY <3>4
    <2>3. \A a, b \in B : f[a] = f[b] => a = b
      <3> SUFFICES ASSUME NEW a \in B, NEW b \in B, f[a] = f[b], a # b PROVE FALSE  OBVIOUS
      <3>1. g[a] = g[b]  OBVIOUS
      <3>2. a < b \/ b < a  BY <1>0 DEF Collections
      <3> QED BY <2>2, <3>1, <3>2
    <2> HIDE DEF f, B, W
    <2> QED BY <1>1, <1>2, <2>1, <2>3, NoCollision
  <1>7. Cardinality(C) <= Cardinality(A) + Cardinality(B)
    <2>1. C = A \cup B /\ A \cap B = {}  OBVIOUS
    <2> HIDE DEF A, B, C
    <2>2. Cardinality(A \cup B) = Cardinality(A) + Cardinality(B) - Cardinality(A \cap B)
      BY <1>1, FS_Union
    <2>3. Cardinality(A \cap B) = 0  BY <2>1, FS_EmptySet
    <2>4. Cardinality(A) \in Nat /\ Cardinality(B) \in Nat  BY <1>1, FS_CardinalityType
    <2> QED BY <2>1, <2>2, <2>3, <2>4
  <1>8. /\ Cardinality(A) \in Nat /\ Cardinality(B) \in Nat /\ Cardinality(C) \in Nat
        /\ Cardinality(I) \in Nat /\ Cardinality(W) \in Nat
    BY <1>1, <1>2, <1>3, FS_CardinalityType
  <1> HIDE DEF A, B
  <1>9. Cardinality(C) <= Cardinality(W) + Cardinality(I)
    <2> HIDE DEF C, W, I
    <2> QED BY <1>5, <1>6, <1>7, <1>8
  <1> QED BY <1>9

-----------------------------------------------------------------------------
(* The theorems. *)

LEMMA CashInit == Init => CInv
  <1> SUFFICES ASSUME Init PROVE CInv  OBVIOUS
  <1>1. Absent \in CollRow  BY DEF Absent, CollRow
  <1>2. TypeOK
    <2>1. coll \in [Collections -> CollRow]  BY <1>1 DEF Init
    <2>2. confirm \in [Confirms -> {Idle} \cup InConfirm] /\ close \in [Closes -> {Idle} \cup InClose]
      BY DEF Init
    <2>3. /\ clock \in Nat /\ updated \in [Payments -> Nat]
          /\ confirms \in [Payments -> 0..MaxConfirms] /\ faults \in 0..MaxFaults
      BY CashLimits DEF Init
    <2>4. /\ answer \in [Requests -> {None, "ok", "conflict"}]
          /\ writes \in [Payments -> SUBSET (Nat \X Nat)]
          /\ window \in [Collections -> Nat \X Nat]
      BY DEF Init
    <2> QED BY <2>1, <2>2, <2>3, <2>4 DEF TypeOK, CollRow
  <1>3. \A c \in Collections : coll[c].status = "absent"  BY DEF Init, Absent
  <1>4. Closed = {}  BY <1>3 DEF Closed
  <1>5. /\ \A x \in Closes : close[x].at = "idle"
        /\ \A f \in Confirms : confirm[f].at = "idle"
    BY DEF Init, Idle
  <1>6. Prefix /\ Times /\ NothingMissed /\ SumMisses /\ Accounts
    BY <1>3, <1>4, <1>5 DEF Prefix, Times, NothingMissed, SumMisses, Accounts
  <1>7. Rows /\ Seen  BY FS_EmptySet DEF Init, Rows, Seen
  <1>8. AnswerIsStored  BY DEF Init, AnswerIsStored, None
  <1> QED BY <1>2, <1>6, <1>7, <1>8 DEF CInv

LEMMA CashStep == CInv /\ [Next]_vars => CInv'
  <1> SUFFICES ASSUME CInv, [Next]_vars PROVE CInv'  OBVIOUS
  <1>1. ASSUME NEW f \in Confirms,
               \/ \E p \in Payments : ConfirmBegin(f, p)
               \/ InsertCaptured(f) \/ OutcomeBegin(f)
               \/ UpdatePaymentOutcome(f) \/ ConfirmEnds(f)
        PROVE  CInv'
    BY <1>1, ConfirmBeginInv, InsertInv, OutcomeBeginInv, OutcomeInv, ConfirmEndsInv
  <1>2. ASSUME NEW c \in Collections, NEW u \in Currencies, StartMachineCashCollection(c, u)
        PROVE  CInv'
    BY <1>2, StartInv
  <1>3. ASSUME NEW x \in Closes,
               \/ \E c \in Collections : CloseBegin(x, c)
               \/ CashSettlementNetExpected(x) \/ CloseCashCollection(x) \/ CloseDies(x)
        PROVE  CInv'
    BY <1>3, CloseBeginInv, SumInv, CloseInv, DiesInv
  <1>4. CASE UNCHANGED vars
    <2>1. \A f \in Confirms : confirm'[f].at \in {"insert", "outcome"} => confirm'[f].begun > 0
      BY <1>4 DEF vars, CInv, Times
    <2>2. TypeOK'  BY <1>4 DEF vars, CInv, TypeOK
    <2> QED BY <1>4, <2>1, <2>2, NoWriteInv DEF vars, cashier
  <1> QED BY <1>1, <1>2, <1>3, <1>4 DEF Next

\* The inductive invariant: collections close in the order they were opened, no time lies
\* after the clock, a sum that is not stored misses what a stored one may miss, and every
\* payment a close counts is counted on account of a write after the closes before it.
THEOREM CashInvariant == Spec => []CInv
  BY CashInit, CashStep, PTL DEF Spec

\* Every reachable state of payments, confirmations, collections and closes has its type.
THEOREM CashTypeCorrect == Spec => []TypeOK
  <1>1. CInv => TypeOK  BY DEF CInv
  <1> QED BY <1>1, CashInvariant, PTL

\* A cash payment that a close in its currency could see is in the expected amount of a
\* closed collection, unless a close passed over a write of its row: one that was under
\* way during its sum, or one in a collection of another currency, whose closing time
\* is the beginning of every later sum all the same (CashSettlementNetExpectedMinor).
THEOREM NoPaymentMissed == Spec => []NothingMissed
  <1>1. CInv => NothingMissed  BY DEF CInv
  <1> QED BY <1>1, CashInvariant, PTL

\* A payment is expected in no more collections than its row has writes, and once more for
\* each write inside a close: the time of a close is that of its begin, not of its sum.
THEOREM PaymentCountedPerWrite == Spec => []CountedPerWrite
  <1>1. CInv => CountedPerWrite  BY CountedBound DEF CountedPerWrite
  <1> QED BY <1>1, CashInvariant, PTL

\* What a client was told of its close stays true (CloseCashCollection).
THEOREM CloseAnswerIsStored == Spec => []AnswerIsStored
  <1>1. CInv => AnswerIsStored  BY DEF CInv
  <1> QED BY <1>1, CashInvariant, PTL
=============================================================================
