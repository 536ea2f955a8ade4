---------------------------- MODULE OutboxProofs ----------------------------
(***************************************************************************)
(* Proofs about module Outbox, for every set of rows and replicas, every   *)
(* batch limit and ceiling, with and without leases.                       *)
(***************************************************************************)
EXTENDS Outbox, FiniteSetTheorems, TLAPS

USE DEF rows, broker, work, budget

-----------------------------------------------------------------------------
(* Types. *)

\* The batch of a plan is drawn from the claimable rows.
LEMMA OldestFirstSubset == ASSUME NEW S PROVE OldestFirst(S) \subseteq S
  BY DEF OldestFirst

\* What PlanOutboxRepublishBatch does, for a batch B of rows that exist and are open.
LEMMA PlanStep ==
  ASSUME NEW w \in Workers, PlanOutboxRepublishBatch(w)
  PROVE  \E B \in SUBSET Events :
           /\ \A e \in B : Claimable(e)
           /\ pc[w] = "ready" /\ todo[w] = {}
           /\ todo' = [todo EXCEPT ![w] = B]
           /\ seen' = [seen EXCEPT ![w] = [e \in Events |-> IF e \in B THEN attempts[e] ELSE 0]]
           /\ \/ /\ status' = [e \in Events |-> IF e \in B THEN "publishing" ELSE status[e]]
                 /\ lease' = [e \in Events |-> IF e \in B THEN "live" ELSE lease[e]]
              \/ UNCHANGED <<status, lease>>
           /\ UNCHANGED <<published, dead, attempts, backoff, aged, stored, dlq, pc, cur, aborts, adminOps>>
  <1> DEFINE B == OldestFirst({e \in Events : Claimable(e)})
  <1>1. B \in SUBSET Events /\ \A e \in B : Claimable(e)
    BY OldestFirstSubset
  <1> HIDE DEF B
  <1> QED BY <1>1 DEF PlanOutboxRepublishBatch, B

\* A worker that has left the top of OutboxDispatchTick's loop handles a row of its plan.
CurInPlan == \A w \in Workers : pc[w] # "ready" => cur[w] \in todo[w]

\* The inductive form of the type invariant.
TypeInv == TypeOK /\ CurInPlan

\* After Handled, the worker's bookkeeping is well typed.
LEMMA HandledType ==
  ASSUME TypeInv, NEW w \in Workers, cur[w] \in Events, Handled(w)
  PROVE  /\ pc' \in [Workers -> Pcs]
         /\ todo' \in [Workers -> SUBSET Events]
         /\ cur' \in [Workers -> Events \cup {None}]
         /\ seen' \in [Workers -> [Events -> Nat]]
         /\ CurInPlan'
  <1> USE DEF TypeInv, TypeOK
  <1>1. pc' \in [Workers -> Pcs]             BY DEF Handled, Pcs
  <1>2. todo' \in [Workers -> SUBSET Events] BY DEF Handled
  <1>3. cur' \in [Workers -> Events \cup {None}]  BY DEF Handled
  <1>4. seen' \in [Workers -> [Events -> Nat]]    BY DEF Handled
  <1>5. CurInPlan'  BY DEF Handled, CurInPlan
  <1> QED BY <1>1, <1>2, <1>3, <1>4, <1>5

\* Inserts, the clock, operators and retention keep the types.
LEMMA TypeRows ==
  ASSUME TypeInv, NEW e \in Events,
         \/ InsertOutboxEvent(e) \/ Clock(e) \/ Admin(e) \/ DeletePublished(e)
  PROVE  TypeInv'
  <1> USE LimitsAssumption DEF TypeInv, TypeOK, Statuses
  <1>1. UNCHANGED <<pc, todo, cur, seen>>
    BY DEF InsertOutboxEvent, Clock, Admin, ReachMinAge, BackoffElapses, LeaseLapses,
       ReplayDeadLetter, MarkManualDLQ, RequeuePendingByID, DeletePublished
  <1>2. CurInPlan'  BY <1>1 DEF CurInPlan
  <1>3. TypeOK'
    <2>1. CASE InsertOutboxEvent(e)  BY <2>1 DEF InsertOutboxEvent
    <2>2. CASE ReachMinAge(e)        BY <2>2 DEF ReachMinAge
    <2>3. CASE BackoffElapses(e)     BY <2>3 DEF BackoffElapses
    <2>4. CASE LeaseLapses(e)        BY <2>4 DEF LeaseLapses
    <2>5. CASE ReplayDeadLetter(e)   BY <2>5 DEF ReplayDeadLetter, Intervene
    <2>6. CASE MarkManualDLQ(e)      BY <2>6 DEF MarkManualDLQ, Intervene
    <2>7. CASE RequeuePendingByID(e) BY <2>7 DEF RequeuePendingByID, Intervene
    <2>8. CASE DeletePublished(e)    BY <2>8 DEF DeletePublished
    <2> QED BY <2>1, <2>2, <2>3, <2>4, <2>5, <2>6, <2>7, <2>8 DEF Clock, Admin
  <1> QED BY <1>2, <1>3

\* The steps of a worker's cycle keep the types.
LEMMA TypeWorker ==
  ASSUME TypeInv, NEW w \in Workers, Dispatch(w) \/ AbortCycle(w)
  PROVE  TypeInv'
  <1> USE LimitsAssumption DEF TypeInv, TypeOK
  <1>1. CASE PlanOutboxRepublishBatch(w)
    <2>1. PICK B \in SUBSET Events :
            /\ pc[w] = "ready"
            /\ todo' = [todo EXCEPT ![w] = B]
            /\ seen' = [seen EXCEPT ![w] = [e \in Events |-> IF e \in B THEN attempts[e] ELSE 0]]
            /\ \/ /\ status' = [e \in Events |-> IF e \in B THEN "publishing" ELSE status[e]]
                  /\ lease' = [e \in Events |-> IF e \in B THEN "live" ELSE lease[e]]
               \/ UNCHANGED <<status, lease>>
            /\ UNCHANGED <<published, dead, attempts, backoff, aged, stored, dlq, pc, cur, aborts, adminOps>>
      BY <1>1, PlanStep
    <2>2. TypeOK'  BY <2>1 DEF Statuses
    <2>3. CurInPlan'  BY <2>1 DEF CurInPlan
    <2> QED BY <2>2, <2>3
  <1>2. ASSUME NEW e \in Events, Publish(w, e) PROVE TypeInv'
    <2>1. TypeOK'
      <3>1. CASE PublishAcked(w, e)   BY <3>1 DEF PublishAcked, Pcs
      <3>2. CASE PublishFailed(w, e)  BY <3>2 DEF PublishFailed, Pcs
      <3> QED BY <1>2, <3>1, <3>2 DEF Publish
    <2>2. CurInPlan'
      BY <1>2 DEF CurInPlan, Publish, PublishAcked, PublishFailed
    <2> QED BY <2>1, <2>2
  <1>3. CASE MarkOutboxPublished(w)
    <2>1. cur[w] \in Events /\ Handled(w)
      BY <1>3 DEF MarkOutboxPublished, CurInPlan
    <2>2. published' \in SUBSET Events /\ status' \in [Events -> Statuses]
          /\ lease' \in [Events -> {"none", "live", "lapsed"}]
      <3>1. \/ /\ published' = published \cup {cur[w]}
               /\ status' = [status EXCEPT ![cur[w]] = "published"]
               /\ lease' = [lease EXCEPT ![cur[w]] = "none"]
            \/ UNCHANGED <<published, status, lease>>
        BY <1>3 DEF MarkOutboxPublished
      <3>2. CASE UNCHANGED <<published, status, lease>>  BY <3>2
      <3>3. CASE /\ published' = published \cup {cur[w]}
                 /\ status' = [status EXCEPT ![cur[w]] = "published"]
                 /\ lease' = [lease EXCEPT ![cur[w]] = "none"]
        BY <2>1, <3>3 DEF Statuses
      <3> QED BY <3>1, <3>2, <3>3
    <2>3. UNCHANGED <<dead, attempts, backoff, aged, stored, dlq, aborts, adminOps>>
      BY <1>3 DEF MarkOutboxPublished
    <2> QED BY <2>1, <2>2, <2>3, HandledType
  <1>4. CASE RecordOutboxPublishFailure(w)
    <2>1. cur[w] \in Events /\ pc[w] = "record"
      BY <1>4 DEF RecordOutboxPublishFailure, CurInPlan
    <2>2. /\ pc' \in [Workers -> Pcs] /\ todo' \in [Workers -> SUBSET Events]
          /\ cur' \in [Workers -> Events \cup {None}] /\ seen' \in [Workers -> [Events -> Nat]]
          /\ CurInPlan'
      <3>1. CASE Handled(w)  BY <2>1, <3>1, HandledType
      <3>2. CASE pc' = [pc EXCEPT ![w] = "dlq"] /\ UNCHANGED <<todo, seen, cur>>
        BY <2>1, <3>2 DEF CurInPlan, Pcs
      <3> QED BY <1>4, <3>1, <3>2 DEF RecordOutboxPublishFailure
    <2>3. /\ status' \in [Events -> Statuses] /\ dead' \in SUBSET Events
          /\ attempts' \in [Events -> Nat] /\ backoff' \in SUBSET Events
          /\ lease' \in [Events -> {"none", "live", "lapsed"}]
      <3>1. CASE ~Open(cur[w])  BY <1>4, <3>1 DEF RecordOutboxPublishFailure
      <3>2. CASE Open(cur[w])
        <4>1. /\ attempts' = [attempts EXCEPT ![cur[w]] = attempts[cur[w]] + 1]
              /\ backoff' \subseteq backoff \cup {cur[w]}
              /\ dead' \subseteq dead \cup {cur[w]}
              /\ \E s \in {"dead_letter", "failed"} : status' = [status EXCEPT ![cur[w]] = s]
              /\ lease' = [lease EXCEPT ![cur[w]] = "none"]
          BY <1>4, <3>2 DEF RecordOutboxPublishFailure
        <4> QED BY <2>1, <4>1 DEF Statuses
      <3> QED BY <3>1, <3>2
    <2>4. UNCHANGED <<published, aged, stored, dlq, aborts, adminOps>>
      BY <1>4 DEF RecordOutboxPublishFailure
    <2> QED BY <2>2, <2>3, <2>4
  <1>5. CASE PublishOutboxDeadLettered(w)
    <2>1. cur[w] \in Events /\ Handled(w)
      BY <1>5 DEF PublishOutboxDeadLettered, CurInPlan
    <2>2. dlq' \in SUBSET Events
          /\ UNCHANGED <<status, published, dead, attempts, backoff, lease, aged, stored, aborts, adminOps>>
      BY <1>5, <2>1 DEF PublishOutboxDeadLettered
    <2> QED BY <2>1, <2>2, HandledType
  <1>6. CASE AbortCycle(w)
    <2>1. TypeOK'     BY <1>6 DEF AbortCycle, Pcs
    <2>2. CurInPlan'  BY <1>6 DEF AbortCycle, CurInPlan
    <2> QED BY <2>1, <2>2
  <1> QED BY <1>1, <1>2, <1>3, <1>4, <1>5, <1>6 DEF Dispatch

\* The inductive type invariant holds in every reachable state.
THEOREM TypeInvariant == Spec => []TypeInv
  <1>1. Init => TypeInv
    BY LimitsAssumption DEF Init, TypeInv, TypeOK, CurInPlan, Statuses, Pcs
  <1>2. TypeInv /\ [Next]_vars => TypeInv'
    <2> SUFFICES ASSUME TypeInv, [Next]_vars PROVE TypeInv'
      OBVIOUS
    <2>1. CASE UNCHANGED vars  BY <2>1 DEF TypeInv, TypeOK, CurInPlan, vars
    <2>2. CASE Next  BY <2>2, TypeRows, TypeWorker DEF Next
    <2> QED BY <2>1, <2>2
  <1> QED BY <1>1, <1>2, PTL DEF Spec

\* Every column and every worker's bookkeeping keeps its type.
THEOREM TypeCorrect == Spec => []TypeOK
  <1>1. TypeInv => TypeOK  BY DEF TypeInv
  <1> QED BY <1>1, TypeInvariant, PTL

-----------------------------------------------------------------------------
(* Publish before mark. *)

\* A worker about to mark its row has seen the broker store it.
MarkAfterStore == \A w \in Workers : pc[w] = "mark" => cur[w] \in stored

\* The inductive invariant behind the publish-before-mark ordering.
DeliveryInv == MarkAfterStore /\ PublishedWasStored

\* Every step keeps the delivery invariant.
LEMMA DeliveryNext == TypeInv /\ DeliveryInv /\ [Next]_vars => DeliveryInv'
  <1> SUFFICES ASSUME TypeInv, DeliveryInv, [Next]_vars PROVE DeliveryInv'
    OBVIOUS
  <1> USE DEF DeliveryInv, MarkAfterStore, PublishedWasStored
  <1>0. pc \in [Workers -> Pcs] /\ cur \in [Workers -> Events \cup {None}]
    BY DEF TypeInv, TypeOK
  <1>1. ASSUME NEW e \in Events,
               \/ InsertOutboxEvent(e) \/ Clock(e) \/ Admin(e) \/ DeletePublished(e)
        PROVE  DeliveryInv'
    <2>1. UNCHANGED <<pc, cur, stored, published>>
      BY <1>1 DEF InsertOutboxEvent, Clock, Admin, ReachMinAge, BackoffElapses, LeaseLapses,
         ReplayDeadLetter, MarkManualDLQ, RequeuePendingByID, DeletePublished
    <2> QED BY <2>1
  <1>2. ASSUME NEW w \in Workers, Dispatch(w) \/ AbortCycle(w) PROVE DeliveryInv'
    <2>1. CASE PlanOutboxRepublishBatch(w)
      <3>1. UNCHANGED <<pc, cur, stored, published>>  BY <2>1 DEF PlanOutboxRepublishBatch
      <3> QED BY <3>1
    <2>2. ASSUME NEW e \in Events, Publish(w, e) PROVE DeliveryInv'
      BY <1>0, <2>2 DEF Publish, PublishAcked, PublishFailed
    <2>3. CASE MarkOutboxPublished(w)
      BY <1>0, <2>3 DEF MarkOutboxPublished, Handled
    <2>4. CASE RecordOutboxPublishFailure(w)
      BY <1>0, <2>4 DEF RecordOutboxPublishFailure, Handled
    <2>5. CASE PublishOutboxDeadLettered(w)
      BY <1>0, <2>5 DEF PublishOutboxDeadLettered, Handled
    <2>6. CASE AbortCycle(w)
      BY <1>0, <2>6 DEF AbortCycle
    <2> QED BY <1>2, <2>1, <2>2, <2>3, <2>4, <2>5, <2>6 DEF Dispatch
  <1>3. CASE UNCHANGED vars  BY <1>3 DEF vars
  <1> QED BY <1>1, <1>2, <1>3 DEF Next

\* A row is marked published only after the broker has stored its event.
THEOREM PublishBeforeMark == Spec => []PublishedWasStored
  <1>1. Init => DeliveryInv  BY DEF Init, DeliveryInv, MarkAfterStore, PublishedWasStored
  <1>2. DeliveryInv => PublishedWasStored  BY DEF DeliveryInv
  <1> QED BY <1>1, <1>2, DeliveryNext, TypeInvariant, PTL DEF Spec

-----------------------------------------------------------------------------
(* The redundant columns agree. *)

\* Every step keeps the columns of every row in step with one another.
LEMMA ColumnsNext == TypeInv /\ ColumnsAgree /\ [Next]_vars => ColumnsAgree'
  <1> SUFFICES ASSUME TypeInv, ColumnsAgree, [Next]_vars PROVE ColumnsAgree'
    OBVIOUS
  <1> USE DEF ColumnsAgree
  <1>0. /\ status \in [Events -> Statuses]
        /\ lease \in [Events -> {"none", "live", "lapsed"}]
    BY DEF TypeInv, TypeOK
  <1>1. ASSUME NEW e \in Events,
               \/ InsertOutboxEvent(e) \/ Clock(e) \/ Admin(e) \/ DeletePublished(e)
        PROVE  ColumnsAgree'
    <2>1. CASE InsertOutboxEvent(e)  BY <1>0, <2>1 DEF InsertOutboxEvent
    <2>2. CASE ReachMinAge(e)        BY <1>0, <2>2 DEF ReachMinAge
    <2>3. CASE BackoffElapses(e)     BY <1>0, <2>3 DEF BackoffElapses
    <2>4. CASE LeaseLapses(e)        BY <1>0, <2>4 DEF LeaseLapses
    <2>5. CASE ReplayDeadLetter(e)   BY <1>0, <2>5 DEF ReplayDeadLetter
    <2>6. CASE MarkManualDLQ(e)      BY <1>0, <2>6 DEF MarkManualDLQ, Open
    <2>7. CASE RequeuePendingByID(e) BY <1>0, <2>7 DEF RequeuePendingByID, Open
    <2>8. CASE DeletePublished(e)    BY <1>0, <2>8 DEF DeletePublished
    <2> QED BY <1>1, <2>1, <2>2, <2>3, <2>4, <2>5, <2>6, <2>7, <2>8 DEF Clock, Admin
  <1>2. ASSUME NEW w \in Workers, Dispatch(w) \/ AbortCycle(w) PROVE ColumnsAgree'
    <2>1. CASE PlanOutboxRepublishBatch(w)
      <3>1. PICK B \in SUBSET Events :
              /\ \A e \in B : Claimable(e)
              /\ \/ /\ status' = [e \in Events |-> IF e \in B THEN "publishing" ELSE status[e]]
                    /\ lease' = [e \in Events |-> IF e \in B THEN "live" ELSE lease[e]]
                 \/ UNCHANGED <<status, lease>>
              /\ UNCHANGED <<published, dead, backoff>>
        BY <2>1, PlanStep
      <3> QED BY <1>0, <3>1 DEF Claimable, Open
    <2>2. CASE \E e \in Events : Publish(w, e)
      <3>1. UNCHANGED <<status, published, dead, lease, backoff>>
        BY <2>2 DEF Publish, PublishAcked, PublishFailed
      <3> QED BY <3>1
    <2>3. CASE MarkOutboxPublished(w)
      <3>1. cur[w] \in Events  BY <2>3 DEF MarkOutboxPublished, TypeInv, TypeOK, CurInPlan
      <3> QED BY <1>0, <2>3, <3>1 DEF MarkOutboxPublished
    <2>4. CASE RecordOutboxPublishFailure(w)
      <3>1. cur[w] \in Events  BY <2>4 DEF RecordOutboxPublishFailure, TypeInv, TypeOK, CurInPlan
      <3>2. CASE ~Open(cur[w])
        <4>1. UNCHANGED <<status, published, dead, lease, backoff>>
          BY <2>4, <3>2 DEF RecordOutboxPublishFailure
        <4> QED BY <4>1
      <3>3. CASE Open(cur[w]) /\ WillDeadLetter(w)
        BY <1>0, <2>4, <3>1, <3>3 DEF RecordOutboxPublishFailure, Open
      <3>4. CASE Open(cur[w]) /\ ~WillDeadLetter(w)
        BY <1>0, <2>4, <3>1, <3>4 DEF RecordOutboxPublishFailure, Open
      <3> QED BY <3>2, <3>3, <3>4
    <2>5. CASE PublishOutboxDeadLettered(w) \/ AbortCycle(w)
      <3>1. UNCHANGED <<status, published, dead, lease, backoff>>
        BY <2>5 DEF PublishOutboxDeadLettered, AbortCycle
      <3> QED BY <3>1
    <2> QED BY <1>2, <2>1, <2>2, <2>3, <2>4, <2>5 DEF Dispatch
  <1>3. CASE UNCHANGED vars  BY <1>3 DEF vars
  <1> QED BY <1>1, <1>2, <1>3 DEF Next

\* No row is ever stranded between the queries that could pick it up.
THEOREM NoRowStranded == Spec => []ColumnsAgree
  <1>1. Init => ColumnsAgree  BY DEF Init, ColumnsAgree
  <1> QED BY <1>1, ColumnsNext, TypeInvariant, PTL DEF Spec

-----------------------------------------------------------------------------
(* The outbox implements its contract. *)

\* Rows in a plan exist.
PlannedExist == \A w \in Workers : \A e \in todo[w] : status[e] # "absent"

\* Every step keeps it: no row becomes absent again.
LEMMA PlannedNext == TypeInv /\ PlannedExist /\ [Next]_vars => PlannedExist'
  <1> SUFFICES ASSUME TypeInv, PlannedExist, [Next]_vars PROVE PlannedExist'
    OBVIOUS
  <1> USE DEF PlannedExist
  <1>0. status \in [Events -> Statuses] /\ todo \in [Workers -> SUBSET Events]
    BY DEF TypeInv, TypeOK
  <1>1. ASSUME NEW e \in Events,
               \/ InsertOutboxEvent(e) \/ Clock(e) \/ Admin(e) \/ DeletePublished(e)
        PROVE  PlannedExist'
    <2>1. todo' = todo /\ \A f \in Events : status[f] # "absent" => status'[f] # "absent"
      BY <1>0, <1>1 DEF InsertOutboxEvent, Clock, Admin, ReachMinAge, BackoffElapses, LeaseLapses,
         ReplayDeadLetter, MarkManualDLQ, RequeuePendingByID, DeletePublished
    <2> QED BY <1>0, <2>1
  <1>2. ASSUME NEW w \in Workers, Dispatch(w) \/ AbortCycle(w) PROVE PlannedExist'
    <2>1. CASE PlanOutboxRepublishBatch(w)
      <3>1. PICK B \in SUBSET Events :
              /\ \A e \in B : Claimable(e)
              /\ todo' = [todo EXCEPT ![w] = B]
              /\ \/ status' = [e \in Events |-> IF e \in B THEN "publishing" ELSE status[e]]
                 \/ UNCHANGED status
        BY <2>1, PlanStep
      <3>2. \A f \in Events : status[f] # "absent" => status'[f] # "absent"
        BY <1>0, <3>1
      <3>3. \A f \in B : status[f] # "absent"  BY <3>1 DEF Claimable, Open
      <3> QED BY <1>0, <3>1, <3>2, <3>3
    <2>2. CASE \E e \in Events : Publish(w, e)
      <3>1. UNCHANGED <<status, todo>>  BY <2>2 DEF Publish, PublishAcked, PublishFailed
      <3> QED BY <3>1
    <2>3. CASE \/ MarkOutboxPublished(w) \/ RecordOutboxPublishFailure(w)
               \/ PublishOutboxDeadLettered(w) \/ AbortCycle(w)
      <3>1. \A v \in Workers : todo'[v] \subseteq todo[v]
        BY <1>0, <2>3 DEF MarkOutboxPublished, RecordOutboxPublishFailure,
           PublishOutboxDeadLettered, AbortCycle, Handled
      <3>2. \A f \in Events : status[f] # "absent" => status'[f] # "absent"
        BY <1>0, <2>3 DEF MarkOutboxPublished, RecordOutboxPublishFailure,
           PublishOutboxDeadLettered, AbortCycle
      <3> QED BY <1>0, <3>1, <3>2
    <2> QED BY <1>2, <2>1, <2>2, <2>3 DEF Dispatch
  <1>3. CASE UNCHANGED vars  BY <1>3 DEF vars
  <1> QED BY <1>1, <1>2, <1>3 DEF Next

\* Everything the refinement needs to know of a reachable state.
RefinementInv == TypeInv /\ DeliveryInv /\ ColumnsAgree /\ PlannedExist

\* The events the contract calls accepted and forgotten.
Accepted == {e \in Events : status[e] # "absent"}
Forgotten == {e \in Events : status[e] = "deleted"}

\* Steps of the table are steps of the contract.
LEMMA ContractRows ==
  ASSUME RefinementInv, NEW e \in Events,
         \/ InsertOutboxEvent(e) \/ Clock(e) \/ Admin(e) \/ DeletePublished(e)
  PROVE  [Contract!CNext]_(Contract!cvars)
  <1> USE DEF RefinementInv
  <1>0. status \in [Events -> Statuses] /\ published \in SUBSET Events /\ dead \in SUBSET Events
    BY DEF TypeInv, TypeOK
  <1>1. CASE InsertOutboxEvent(e)
    <2>1. Contract!Accept(e)  BY <1>0, <1>1 DEF InsertOutboxEvent, Contract!Accept
    <2> QED BY <2>1 DEF Contract!CNext
  <1>2. CASE Clock(e)
    <2>1. UNCHANGED <<status, stored, published, dead>>
      BY <1>2 DEF Clock, ReachMinAge, BackoffElapses, LeaseLapses
    <2> QED BY <2>1 DEF Contract!cvars
  <1>3. CASE ReplayDeadLetter(e)
    <2>1. e \in dead /\ e \notin published  BY <1>3 DEF ReplayDeadLetter, ColumnsAgree
    <2>2. /\ status[e] \notin {"absent", "deleted"}
      BY <1>0, <1>3, <2>1 DEF ReplayDeadLetter, ColumnsAgree
    <2>3. Contract!Unpark(e)  BY <1>0, <1>3, <2>1, <2>2 DEF ReplayDeadLetter, Contract!Unpark
    <2> QED BY <2>3 DEF Contract!CNext
  <1>4. CASE MarkManualDLQ(e)
    <2>1. Contract!Park(e)  BY <1>0, <1>4 DEF MarkManualDLQ, Open, Contract!Park
    <2> QED BY <2>1 DEF Contract!CNext
  <1>5. CASE RequeuePendingByID(e)
    <2>1. UNCHANGED <<Accepted, Forgotten, stored, published, dead>>
      BY <1>0, <1>5 DEF RequeuePendingByID, Open, Accepted, Forgotten
    <2> QED BY <2>1 DEF Contract!cvars, Accepted, Forgotten
  <1>6. CASE DeletePublished(e)
    <2>1. Contract!Forget(e)  BY <1>0, <1>6 DEF DeletePublished, Contract!Forget
    <2> QED BY <2>1 DEF Contract!CNext
  <1> QED BY <1>1, <1>2, <1>3, <1>4, <1>5, <1>6 DEF Admin

\* Steps of a worker are steps of the contract, or change nothing it sees.
LEMMA ContractWorker ==
  ASSUME RefinementInv, NEW w \in Workers, Dispatch(w) \/ AbortCycle(w)
  PROVE  [Contract!CNext]_(Contract!cvars)
  <1> USE DEF RefinementInv
  <1>0. status \in [Events -> Statuses] /\ published \in SUBSET Events /\ dead \in SUBSET Events
    BY DEF TypeInv, TypeOK
  <1>1. CASE PlanOutboxRepublishBatch(w)
    <2>1. PICK B \in SUBSET Events :
            /\ \A e \in B : Claimable(e)
            /\ \/ status' = [e \in Events |-> IF e \in B THEN "publishing" ELSE status[e]]
               \/ UNCHANGED status
            /\ UNCHANGED <<published, dead, stored>>
      BY <1>1, PlanStep
    <2>2. UNCHANGED <<Accepted, Forgotten>>
      BY <1>0, <2>1 DEF Accepted, Forgotten, Claimable, Open
    <2> QED BY <2>1, <2>2 DEF Contract!cvars, Accepted, Forgotten
  <1>2. ASSUME NEW e \in Events, Publish(w, e) PROVE [Contract!CNext]_(Contract!cvars)
    <2>1. status[e] # "absent"
      BY <1>2 DEF Publish, PublishAcked, PublishFailed, PlannedExist
    <2>2. UNCHANGED <<status, published, dead>> /\ (stored' = stored \cup {e} \/ stored' = stored)
      BY <1>2 DEF Publish, PublishAcked, PublishFailed
    <2>3. CASE stored' = stored  BY <2>2, <2>3 DEF Contract!cvars
    <2>4. CASE stored' = stored \cup {e}
      <3>1. Contract!Store(e)  BY <2>1, <2>2, <2>4 DEF Contract!Store
      <3> QED BY <3>1 DEF Contract!CNext
    <2> QED BY <2>2, <2>3, <2>4
  <1>3. CASE MarkOutboxPublished(w)
    <2>1. cur[w] \in Events /\ cur[w] \in stored /\ status[cur[w]] # "absent"
      BY <1>3 DEF MarkOutboxPublished, TypeInv, TypeOK, CurInPlan, DeliveryInv,
         MarkAfterStore, PlannedExist
    <2>2. CASE status[cur[w]] # "deleted" /\ cur[w] \notin published
      <3>1. Contract!Settle(cur[w])
        BY <1>0, <1>3, <2>1, <2>2 DEF MarkOutboxPublished, Contract!Settle
      <3> QED BY <2>1, <3>1 DEF Contract!CNext
    <2>3. CASE ~(status[cur[w]] # "deleted" /\ cur[w] \notin published)
      <3>1. UNCHANGED <<status, stored, published, dead>>  BY <1>3, <2>3 DEF MarkOutboxPublished
      <3> QED BY <3>1 DEF Contract!cvars
    <2> QED BY <2>2, <2>3
  <1>4. CASE RecordOutboxPublishFailure(w)
    <2>1. cur[w] \in Events
      BY <1>4 DEF RecordOutboxPublishFailure, TypeInv, TypeOK, CurInPlan
    <2>2. CASE ~Open(cur[w])
      <3>1. UNCHANGED <<status, stored, published, dead>>
        BY <1>4, <2>2 DEF RecordOutboxPublishFailure
      <3> QED BY <3>1 DEF Contract!cvars
    <2>3. CASE Open(cur[w]) /\ WillDeadLetter(w)
      <3>1. Contract!Park(cur[w])
        BY <1>0, <1>4, <2>1, <2>3 DEF RecordOutboxPublishFailure, Open, Contract!Park
      <3> QED BY <2>1, <3>1 DEF Contract!CNext
    <2>4. CASE Open(cur[w]) /\ ~WillDeadLetter(w)
      <3>1. UNCHANGED <<Accepted, Forgotten, stored, published, dead>>
        BY <1>0, <1>4, <2>1, <2>4 DEF RecordOutboxPublishFailure, Open, Accepted, Forgotten
      <3> QED BY <3>1 DEF Contract!cvars, Accepted, Forgotten
    <2> QED BY <2>2, <2>3, <2>4
  <1>5. CASE PublishOutboxDeadLettered(w) \/ AbortCycle(w)
    <2>1. UNCHANGED <<status, stored, published, dead>>
      BY <1>5 DEF PublishOutboxDeadLettered, AbortCycle
    <2> QED BY <2>1 DEF Contract!cvars
  <1> QED BY <1>1, <1>2, <1>3, <1>4, <1>5 DEF Dispatch

\* The outbox implements the contract: an accepted event is settled only once
\* the broker has stored it, and only a settled one is forgotten.
THEOREM OutboxImplementsContract == Spec => ImplementsContract
  <1>1. Init => Contract!CInit  BY DEF Init, Contract!CInit
  <1>2. RefinementInv /\ [Next]_vars => [Contract!CNext]_(Contract!cvars)
    <2> SUFFICES ASSUME RefinementInv, [Next]_vars PROVE [Contract!CNext]_(Contract!cvars)
      OBVIOUS
    <2>1. CASE UNCHANGED vars  BY <2>1 DEF vars, Contract!cvars
    <2>2. CASE Next  BY <2>2, ContractRows, ContractWorker DEF Next
    <2> QED BY <2>1, <2>2
  <1>3. Init => DeliveryInv /\ ColumnsAgree /\ PlannedExist
    BY DEF Init, DeliveryInv, MarkAfterStore, PublishedWasStored, ColumnsAgree, PlannedExist
  <1>4. Spec => []RefinementInv
    BY <1>3, TypeInvariant, DeliveryNext, ColumnsNext, PlannedNext, PTL DEF Spec, RefinementInv
  <1> QED BY <1>1, <1>2, <1>4, PTL DEF Spec, ImplementsContract, Contract!CSpec

-----------------------------------------------------------------------------
(* How far stale leases push a row past its ceiling. *)

\* The replicas that hold row e with a count too low to quarantine it.
Lenient(e) == {w \in Workers :
                 e \in todo[w] /\ seen[w][e] + 1 < EffectiveOutboxMaxAttempts(e)}

\* Every lenient holder may add one attempt, and no replica becomes one once the
\* row's count is within one of the ceiling; a quarantined row's count is final.
WithinOvershoot(e) ==
  IF e \in dead
  THEN attempts[e] < EffectiveOutboxMaxAttempts(e) + Cardinality(Workers)
  ELSE attempts[e] + Cardinality(Lenient(e))
         <= EffectiveOutboxMaxAttempts(e) - 2 + Cardinality(Workers)

\* The effective ceiling is a positive number.
LEMMA CeilingPositive ==
  ASSUME NEW e \in Events
  PROVE  EffectiveOutboxMaxAttempts(e) \in Nat /\ EffectiveOutboxMaxAttempts(e) >= 1
  BY CeilingAssumption DEF EffectiveOutboxMaxAttempts

\* Sizes of the sets of holders, and there is at least one replica.
LEMMA LenientSize ==
  ASSUME NEW e \in Events
  PROVE  /\ IsFiniteSet(Lenient(e))
         /\ Cardinality(Lenient(e)) \in Nat
         /\ Cardinality(Lenient(e)) <= Cardinality(Workers)
         /\ Cardinality(Workers) \in Nat /\ Cardinality(Workers) >= 1
  <1>1. Lenient(e) \in SUBSET Workers  BY DEF Lenient
  <1>2. Cardinality(Workers) \in Nat /\ Cardinality(Workers) # 0
    BY WorkersAssumption, FS_CardinalityType, FS_EmptySet
  <1> QED BY <1>1, <1>2, WorkersAssumption, FS_Subset, FS_CardinalityType

\* The same for the successor state's set.
LEMMA LenientSizeNext ==
  ASSUME NEW e \in Events
  PROVE  /\ Cardinality(Lenient(e)') \in Nat
         /\ Cardinality(Lenient(e)') <= Cardinality(Workers)
  <1>1. Lenient(e)' \in SUBSET Workers  BY DEF Lenient
  <1> QED BY <1>1, WorkersAssumption, FS_Subset, FS_CardinalityType

\* Fewer lenient holders, no attempt recorded: the bound stands.
LEMMA OvershootQuiet ==
  ASSUME NEW e \in Events, WithinOvershoot(e), TypeInv,
         attempts'[e] = attempts[e],
         e \in dead => e \in dead',
         Lenient(e)' \subseteq Lenient(e)
  PROVE  WithinOvershoot(e)'
  <1> DEFINE max == EffectiveOutboxMaxAttempts(e)
             n == Cardinality(Workers)
             l == Cardinality(Lenient(e))
             m == Cardinality(Lenient(e)')
  <1>1. m \in Nat /\ m <= l
    BY LenientSize, LenientSizeNext, FS_Subset
  <1>2. attempts[e] \in Nat  BY DEF TypeInv, TypeOK
  <1>3. max \in Nat /\ n \in Nat /\ l \in Nat
    BY CeilingPositive, LenientSize
  <1>4. IF e \in dead THEN attempts[e] < max + n ELSE attempts[e] + l <= max - 2 + n
    BY DEF WithinOvershoot
  <1> HIDE DEF max, n, l, m
  <1>5. IF e \in dead' THEN attempts'[e] < max + n ELSE attempts'[e] + m <= max - 2 + n
    BY <1>1, <1>2, <1>3, <1>4
  <1> QED BY <1>5 DEF max, n, m, WithinOvershoot, EffectiveOutboxMaxAttempts

\* A replica that leaves its plan, or the row alone, is no new lenient holder.
LEMMA LenientShrinks ==
  ASSUME NEW e \in Events,
         \A v \in Workers : e \in todo'[v] => e \in todo[v] /\ seen'[v][e] = seen[v][e]
  PROVE  Lenient(e)' \subseteq Lenient(e)
  BY DEF Lenient, EffectiveOutboxMaxAttempts

\* Handled touches no other row of the plan.
LEMMA HandledShrinks ==
  ASSUME TypeInv, NEW w \in Workers, cur[w] \in Events, Handled(w), NEW e \in Events
  PROVE  \A v \in Workers : e \in todo'[v] => e \in todo[v] /\ seen'[v][e] = seen[v][e]
  BY DEF Handled, TypeInv, TypeOK

\* Inserts, the clock, operators and retention keep the bound.
LEMMA OvershootRows ==
  ASSUME TypeInv, NEW e \in Events, WithinOvershoot(e), NEW f \in Events,
         \/ InsertOutboxEvent(f) \/ Clock(f) \/ Admin(f) \/ DeletePublished(f)
  PROVE  WithinOvershoot(e)'
  <1>0. attempts \in [Events -> Nat]  BY DEF TypeInv, TypeOK
  <1>1. todo' = todo /\ seen' = seen
    BY DEF InsertOutboxEvent, Clock, Admin, ReachMinAge, BackoffElapses, LeaseLapses,
       ReplayDeadLetter, MarkManualDLQ, RequeuePendingByID, DeletePublished
  <1>2. Lenient(e)' = Lenient(e)  BY <1>1 DEF Lenient, EffectiveOutboxMaxAttempts
  <1>3. CASE ReplayDeadLetter(f) /\ f = e
    <2>1. attempts'[e] = 0 /\ e \notin dead'  BY <1>0, <1>3 DEF ReplayDeadLetter
    <2> DEFINE max == EffectiveOutboxMaxAttempts(e)
               l == Cardinality(Lenient(e))
               n == Cardinality(Workers)
    <2>2. max \in Nat /\ max >= 1 /\ l \in Nat /\ l <= n /\ n \in Nat /\ n >= 1
      BY CeilingPositive, LenientSize
    <2>3. max = 1 => l = 0
      <3> SUFFICES ASSUME max = 1 PROVE Lenient(e) = {}
        BY FS_EmptySet
      <3> QED BY DEF Lenient, TypeInv, TypeOK
    <2> HIDE DEF max, l, n
    <2>4. 0 + l <= max - 2 + n  BY <2>2, <2>3
    <2> QED BY <1>2, <2>1, <2>4 DEF WithinOvershoot, max, l, n, EffectiveOutboxMaxAttempts
  <1>4. CASE ~(ReplayDeadLetter(f) /\ f = e)
    <2>1. attempts'[e] = attempts[e] /\ (e \in dead => e \in dead')
      BY <1>0, <1>4 DEF InsertOutboxEvent, Clock, Admin, ReachMinAge, BackoffElapses, LeaseLapses,
         ReplayDeadLetter, MarkManualDLQ, RequeuePendingByID, DeletePublished
    <2> QED BY <1>2, <2>1, OvershootQuiet
  <1> QED BY <1>3, <1>4

\* The steps of a worker's cycle keep the bound.
LEMMA OvershootWorker ==
  ASSUME TypeInv, NEW e \in Events, WithinOvershoot(e), NEW w \in Workers,
         Dispatch(w) \/ AbortCycle(w)
  PROVE  WithinOvershoot(e)'
  <1>0. /\ attempts \in [Events -> Nat] /\ todo \in [Workers -> SUBSET Events]
        /\ seen \in [Workers -> [Events -> Nat]] /\ dead \in SUBSET Events
    BY DEF TypeInv, TypeOK
  <1> DEFINE max == EffectiveOutboxMaxAttempts(e)
             n == Cardinality(Workers)
             l == Cardinality(Lenient(e))
             m == Cardinality(Lenient(e)')
  <1>n. /\ max \in Nat /\ n \in Nat /\ l \in Nat /\ m \in Nat
        /\ l <= n /\ m <= n
    BY CeilingPositive, LenientSize, LenientSizeNext
  <1>1. CASE PlanOutboxRepublishBatch(w)
    <2>1. PICK B \in SUBSET Events :
            /\ \A g \in B : Claimable(g)
            /\ todo' = [todo EXCEPT ![w] = B]
            /\ seen' = [seen EXCEPT ![w] = [g \in Events |-> IF g \in B THEN attempts[g] ELSE 0]]
            /\ UNCHANGED <<dead, attempts>>
      BY <1>1, PlanStep
    <2>2. CASE e \in B /\ attempts[e] + 1 < max
      <3>1. e \notin dead'  BY <2>1, <2>2 DEF Claimable, Open
      <3> HIDE DEF max, n, m
      <3>2. attempts'[e] + m <= max - 2 + n  BY <1>0, <1>n, <2>1, <2>2
      <3> QED BY <3>1, <3>2 DEF WithinOvershoot, max, m, n, EffectiveOutboxMaxAttempts
    <2>3. CASE ~(e \in B /\ attempts[e] + 1 < max)
      <3>1. Lenient(e)' \subseteq Lenient(e)
        <4> SUFFICES ASSUME NEW v \in Workers, e \in todo'[v], seen'[v][e] + 1 < max
                     PROVE  e \in todo[v] /\ seen[v][e] + 1 < max
          BY DEF Lenient, EffectiveOutboxMaxAttempts
        <4>1. v # w  BY <1>0, <2>1, <2>3
        <4> QED BY <1>0, <2>1, <4>1
      <3> QED BY <2>1, <3>1, OvershootQuiet
    <2> QED BY <2>2, <2>3
  <1>2. CASE \E g \in Events : Publish(w, g)
    <2>1. UNCHANGED <<attempts, dead, todo, seen>>
      BY <1>2 DEF Publish, PublishAcked, PublishFailed
    <2> QED BY <2>1, LenientShrinks, OvershootQuiet
  <1>3. CASE MarkOutboxPublished(w)
    <2>1. cur[w] \in Events  BY <1>3 DEF MarkOutboxPublished, TypeInv, TypeOK, CurInPlan
    <2>2. UNCHANGED <<attempts, dead>> /\ Handled(w)  BY <1>3 DEF MarkOutboxPublished
    <2> QED BY <2>1, <2>2, HandledShrinks, LenientShrinks, OvershootQuiet
  <1>4. CASE RecordOutboxPublishFailure(w)
    <2>1. cur[w] \in Events /\ cur[w] \in todo[w]
      BY <1>4 DEF RecordOutboxPublishFailure, TypeInv, TypeOK, CurInPlan
    <2>2. \A v \in Workers : e \in todo'[v] => e \in todo[v] /\ seen'[v][e] = seen[v][e]
      <3>1. CASE Handled(w)  BY <2>1, <3>1, HandledShrinks
      <3>2. CASE UNCHANGED <<todo, seen, cur>>  BY <3>2
      <3> QED BY <1>4, <3>1, <3>2 DEF RecordOutboxPublishFailure
    <2>3. Lenient(e)' \subseteq Lenient(e)  BY <2>2, LenientShrinks
    <2>4. CASE ~(Open(cur[w]) /\ e = cur[w])
      <3>1. attempts'[e] = attempts[e] /\ (e \in dead => e \in dead')
        BY <1>0, <1>4, <2>1, <2>4 DEF RecordOutboxPublishFailure
      <3> QED BY <2>3, <3>1, OvershootQuiet
    <2>5. CASE Open(cur[w]) /\ e = cur[w]
      <3>1. attempts'[e] = attempts[e] + 1 /\ e \notin dead
        BY <1>0, <1>4, <2>5 DEF RecordOutboxPublishFailure, Open
      <3>2. attempts[e] + l <= max - 2 + n  BY <3>1 DEF WithinOvershoot
      <3>3. CASE WillDeadLetter(w)
        <4>1. e \in dead'  BY <1>4, <2>5, <3>3 DEF RecordOutboxPublishFailure
        <4> HIDE DEF max, n, l
        <4>2. attempts'[e] < max + n  BY <1>0, <1>n, <3>1, <3>2
        <4> QED BY <4>1, <4>2 DEF WithinOvershoot, max, n, EffectiveOutboxMaxAttempts
      <3>4. CASE ~WillDeadLetter(w)
        <4>1. e \notin dead' /\ Handled(w)
          BY <1>4, <2>5, <3>1, <3>4 DEF RecordOutboxPublishFailure
        <4>2. w \in Lenient(e)
          BY <1>0, <1>n, <2>1, <2>5, <3>4 DEF Lenient, WillDeadLetter
        <4>3. w \notin Lenient(e)'
          BY <1>0, <2>5, <4>1 DEF Lenient, Handled
        <4>4. m <= l - 1
          <5>1. Lenient(e)' \in SUBSET (Lenient(e) \ {w})  BY <2>3, <4>3
          <5>2. IsFiniteSet(Lenient(e) \ {w}) /\ Cardinality(Lenient(e) \ {w}) = l - 1
            BY <4>2, LenientSize, FS_RemoveElement
          <5> QED BY <5>1, <5>2, FS_Subset
        <4> HIDE DEF max, n, l, m
        <4>5. attempts'[e] + m <= max - 2 + n  BY <1>0, <1>n, <3>1, <3>2, <4>4
        <4> QED BY <4>1, <4>5 DEF WithinOvershoot, max, n, m, EffectiveOutboxMaxAttempts
      <3> QED BY <3>3, <3>4
    <2> QED BY <2>4, <2>5
  <1>5. CASE PublishOutboxDeadLettered(w)
    <2>1. cur[w] \in Events  BY <1>5 DEF PublishOutboxDeadLettered, TypeInv, TypeOK, CurInPlan
    <2>2. UNCHANGED <<attempts, dead>> /\ Handled(w)  BY <1>5 DEF PublishOutboxDeadLettered
    <2> QED BY <2>1, <2>2, HandledShrinks, LenientShrinks, OvershootQuiet
  <1>6. CASE AbortCycle(w)
    <2>1. UNCHANGED <<attempts, dead>>  BY <1>6 DEF AbortCycle
    <2>2. \A v \in Workers : e \in todo'[v] => e \in todo[v] /\ seen'[v][e] = seen[v][e]
      BY <1>0, <1>6 DEF AbortCycle
    <2> QED BY <2>1, <2>2, LenientShrinks, OvershootQuiet
  <1> QED BY <1>1, <1>2, <1>3, <1>4, <1>5, <1>6 DEF Dispatch

\* The inductive form of the bound, for every row.
OvershootInv == \A e \in Events : WithinOvershoot(e)

\* However many replicas record failures with stale leases, a row's count
\* exceeds its ceiling by less than the number of replicas.
THEOREM BoundedOvershoot == Spec => []CeilingOvershoot
  <1>1. Init => OvershootInv
    <2> SUFFICES ASSUME Init, NEW e \in Events PROVE WithinOvershoot(e)
      BY DEF OvershootInv
    <2>1. Lenient(e) = {} /\ e \notin dead /\ attempts[e] = 0  BY DEF Init, Lenient
    <2>2. Cardinality(Lenient(e)) = 0  BY <2>1, FS_EmptySet
    <2> DEFINE max == EffectiveOutboxMaxAttempts(e)
               n == Cardinality(Workers)
    <2>3. max \in Nat /\ max >= 1 /\ n \in Nat /\ n >= 1  BY CeilingPositive, LenientSize
    <2> HIDE DEF max, n
    <2>4. 0 + 0 <= max - 2 + n  BY <2>3
    <2> QED BY <2>1, <2>2, <2>4 DEF WithinOvershoot, max, n
  <1>2. TypeInv /\ OvershootInv /\ [Next]_vars => OvershootInv'
    <2> SUFFICES ASSUME TypeInv, OvershootInv, [Next]_vars, NEW e \in Events
                 PROVE  WithinOvershoot(e)'
      BY DEF OvershootInv
    <2>0. WithinOvershoot(e)  BY DEF OvershootInv
    <2>1. CASE UNCHANGED vars
      <3>1. UNCHANGED <<attempts, dead, todo, seen>>  BY <2>1 DEF vars
      <3> QED BY <2>0, <3>1, LenientShrinks, OvershootQuiet
    <2>2. CASE Next  BY <2>0, <2>2, OvershootRows, OvershootWorker DEF Next
    <2> QED BY <2>1, <2>2
  <1>3. TypeInv /\ OvershootInv => CeilingOvershoot
    <2> SUFFICES ASSUME TypeInv, NEW e \in Events, WithinOvershoot(e)
                 PROVE  attempts[e] < EffectiveOutboxMaxAttempts(e) + Cardinality(Workers)
      BY DEF OvershootInv, CeilingOvershoot
    <2> DEFINE max == EffectiveOutboxMaxAttempts(e)
               n == Cardinality(Workers)
               l == Cardinality(Lenient(e))
    <2>1. max \in Nat /\ n \in Nat /\ l \in Nat /\ attempts[e] \in Nat
      BY CeilingPositive, LenientSize DEF TypeInv, TypeOK
    <2>2. attempts[e] < max + n \/ attempts[e] + l <= max - 2 + n  BY DEF WithinOvershoot
    <2> HIDE DEF max, n, l
    <2>3. attempts[e] < max + n  BY <2>1, <2>2
    <2> QED BY <2>3 DEF max, n
  <1> QED BY <1>1, <1>2, <1>3, TypeInvariant, PTL DEF Spec
=============================================================================
