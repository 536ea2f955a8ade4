--------------------------- MODULE OutboxContract ---------------------------
(***************************************************************************)
(* What the transactional outbox promises its producers: an accepted event *)
(* is settled only after the broker has stored it, it is never forgotten   *)
(* before that, and an operator can always bring a parked event back.      *)
(* The detailed specification is module Outbox.                            *)
(***************************************************************************)

CONSTANT Events

VARIABLES accepted,  \* events whose insert committed with the aggregate
          stored,    \* events the broker has stored at least once
          settled,   \* events the producer side regards as delivered
          parked,    \* events set aside after repeated failure
          forgotten  \* settled events removed by retention

cvars == <<accepted, stored, settled, parked, forgotten>>

CInit == /\ accepted = {}
         /\ stored = {}
         /\ settled = {}
         /\ parked = {}
         /\ forgotten = {}

Accept(e) == /\ e \notin accepted
             /\ accepted' = accepted \cup {e}
             /\ UNCHANGED <<stored, settled, parked, forgotten>>

Store(e) == /\ e \in accepted
            /\ stored' = stored \cup {e}
            /\ UNCHANGED <<accepted, settled, parked, forgotten>>

\* A late confirmation may settle an event that has been parked meanwhile.
Settle(e) == /\ e \in stored \ settled
             /\ settled' = settled \cup {e}
             /\ UNCHANGED <<accepted, stored, parked, forgotten>>

Park(e) == /\ e \in accepted \ (settled \cup parked)
           /\ parked' = parked \cup {e}
           /\ UNCHANGED <<accepted, stored, settled, forgotten>>

Unpark(e) == /\ e \in parked \ settled
             /\ parked' = parked \ {e}
             /\ UNCHANGED <<accepted, stored, settled, forgotten>>

Forget(e) == /\ e \in settled \ forgotten
             /\ forgotten' = forgotten \cup {e}
             /\ UNCHANGED <<accepted, stored, settled, parked>>

CNext == \E e \in Events : \/ Accept(e) \/ Store(e) \/ Settle(e)
                           \/ Park(e) \/ Unpark(e) \/ Forget(e)

CSpec == CInit /\ [][CNext]_cvars
=============================================================================
