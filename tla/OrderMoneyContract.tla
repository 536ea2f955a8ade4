------------------------- MODULE OrderMoneyContract -------------------------
(***************************************************************************)
(* What the commerce service promises about one order: a payment owns the  *)
(* order only after its money was captured, ownership is given once and    *)
(* never moves, a line leaves the waiting state only after some money was  *)
(* captured, and stock is taken at most once per key and only from the     *)
(* slot of a line that had left it.  It does not promise one movement per  *)
(* line: lines of a slot may be closed together.  The detailed             *)
(* specification is module Commerce.                                       *)
(***************************************************************************)

CONSTANTS Payments, Lines, Slot, Keys, None

VARIABLES captured,   \* payments that were captured at least once
          owner,      \* the payment that owns the order
          released,   \* lines that were started or closed
          taken       \* movements of stock: key and slot

mvars == <<captured, owner, released, taken>>

MInit == /\ captured = {}
         /\ owner = None
         /\ released = {}
         /\ taken = {}

Capture(p) == /\ captured' = captured \cup {p}
              /\ UNCHANGED <<owner, released, taken>>

\* A webhook captures and claims in one transaction, other callers in two.
Own(p) == /\ owner = None
          /\ captured' \in {captured, captured \cup {p}}
          /\ p \in captured'
          /\ owner' = p
          /\ UNCHANGED <<released, taken>>

\* Lines of one slot may be started, or closed without stock, together.
OfSlot(s) == {l \in Lines : Slot[l] = s}

Release(s) == /\ captured # {}
              /\ \E S \in SUBSET OfSlot(s) : released' = released \cup S
              /\ UNCHANGED <<captured, owner, taken>>

Dispense(k, s) == /\ released \cap OfSlot(s) # {}
                  /\ \A m \in taken : m.key # k
                  /\ taken' = taken \cup {[key |-> k, slot |-> s]}
                  /\ \E S \in SUBSET OfSlot(s) : released' = released \cup S
                  /\ UNCHANGED <<captured, owner>>

MNext == \/ \E p \in Payments : Capture(p) \/ Own(p)
         \/ \E l \in Lines : Release(Slot[l]) \/ \E k \in Keys : Dispense(k, Slot[l])

MSpec == MInit /\ [][MNext]_mvars
=============================================================================
