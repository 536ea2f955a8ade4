-------------------------- MODULE MCCashCollection --------------------------
(* A small instance of CashCollection: one payment, confirmed and retried    *)
(* while two clients race to close its collections with different payloads.  *)
(* The first collection is opened in the payment's currency or in another    *)
(* spelling of it, which both clients name.                                  *)
EXTENDS CashCollection, TLC

CONSTANTS x1, x2, h1, h2

MCPayload == (x1 :> h1) @@ (x2 :> h2)
MCCurrencyOf == [p \in Payments |-> "VND"]
MCNamed == [h \in {h1, h2} |-> Currencies]
\* A misspelt collection matters when another one follows; faults are for the others.
OneOddity == /\ coll[MaxOpened].currency # "vnd"
             /\ coll[1].currency = "vnd" => faults = 0
\* The clients are alike, each with its payload.
Alike == {[v \in {x1, x2, h1, h2} |-> v],
          (x1 :> x2) @@ (x2 :> x1) @@ (h1 :> h2) @@ (h2 :> h1)}
=============================================================================
