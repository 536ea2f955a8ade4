------------------------------- MODULE Outbox -------------------------------
(***************************************************************************)
(* The transactional outbox: the rows of table outbox_events, the worker   *)
(* replicas that lease, publish and mark them (OutboxDispatchTick), the    *)
(* operator's interventions and the retention job.                         *)
(*                                                                         *)
(* A database statement is one step; a worker's cycle is several: the      *)
(* lease, the publish, and then the mark or the failure record, each with  *)
(* the row as the lease returned it.  Clocks are abstracted to the three   *)
(* facts the SQL tests: the row has reached its minimum age, its backoff   *)
(* has elapsed, its lease has lapsed.  The advisory Redis lock around a    *)
(* cycle is optional and skipped by the shutdown drain, so it is not       *)
(* assumed.                                                                *)
(***************************************************************************)
EXTENDS Integers, FiniteSets

CONSTANTS Events,      \* outbox row ids, in creation order
          Workers,     \* worker replicas
          BatchLimit,  \* rows planned per cycle
          UseLease,    \* FALSE: WORKER_OUTBOX_DISABLE_LEASE
          RowMax,      \* column max_publish_attempts of each row
          PolicyMax,   \* RecoveryPolicy.OutboxMaxPublishAttempts
          MaxAborts,   \* bound: cycles cut short by a crash or an error
          MaxAdminOps  \* bound: operator interventions

ASSUME EventsAssumption == Events \subseteq Nat /\ IsFiniteSet(Events)
ASSUME WorkersAssumption == IsFiniteSet(Workers) /\ Workers # {}
ASSUME LimitsAssumption == /\ BatchLimit \in Nat \ {0}
                           /\ UseLease \in BOOLEAN
                           /\ MaxAborts \in Nat
                           /\ MaxAdminOps \in Nat
\* ValidateRecoveryPolicy refuses a ceiling below 2.
ASSUME CeilingAssumption == /\ RowMax \in [Events -> Nat]
                            /\ PolicyMax \in Nat
                            /\ PolicyMax >= 2

VARIABLES
  status,     \* status column; "absent" before the insert, "deleted" after retention
  published,  \* rows with published_at IS NOT NULL
  dead,       \* rows with dead_lettered_at IS NOT NULL
  attempts,   \* publish_attempt_count
  backoff,    \* rows whose next_publish_after lies in the future
  lease,      \* locked_until: "none", "live" or "lapsed"
  aged,       \* rows created at least min_age ago
  stored,     \* events the broker holds (JetStream deduplicates by message id)
  dlq,        \* events with a copy on the dead-letter stream
  pc,         \* where a worker is in its cycle
  todo,       \* decisions of the plan a worker has not handled yet
  cur,        \* the row a worker handles
  seen,       \* publish_attempt_count as the plan returned it
  aborts, adminOps

rows == <<status, published, dead, attempts, backoff, lease, aged>>
broker == <<stored, dlq>>
work == <<pc, todo, cur, seen>>
budget == <<aborts, adminOps>>
vars == <<rows, broker, work, budget>>

Statuses == {"absent", "pending", "publishing", "published", "failed",
             "dead_letter", "deleted"}
Pcs == {"ready", "mark", "record", "dlq"}
None == -1

TypeOK ==
  /\ status \in [Events -> Statuses]
  /\ published \in SUBSET Events
  /\ dead \in SUBSET Events
  /\ attempts \in [Events -> Nat]
  /\ backoff \in SUBSET Events
  /\ lease \in [Events -> {"none", "live", "lapsed"}]
  /\ aged \in SUBSET Events
  /\ stored \in SUBSET Events
  /\ dlq \in SUBSET Events
  /\ pc \in [Workers -> Pcs]
  /\ todo \in [Workers -> SUBSET Events]
  /\ cur \in [Workers -> Events \cup {None}]
  /\ seen \in [Workers -> [Events -> Nat]]
  /\ aborts \in 0..MaxAborts
  /\ adminOps \in 0..MaxAdminOps

Init ==
  /\ status = [e \in Events |-> "absent"]
  /\ published = {}
  /\ dead = {}
  /\ attempts = [e \in Events |-> 0]
  /\ backoff = {}
  /\ lease = [e \in Events |-> "none"]
  /\ aged = {}
  /\ stored = {}
  /\ dlq = {}
  /\ pc = [w \in Workers |-> "ready"]
  /\ todo = [w \in Workers |-> {}]
  /\ cur = [w \in Workers |-> None]
  /\ seen = [w \in Workers |-> [e \in Events |-> 0]]
  /\ aborts = 0
  /\ adminOps = 0

-----------------------------------------------------------------------------
(* Producers and the clock. *)

\* The row is inserted in the transaction of the change it announces.
InsertOutboxEvent(e) ==
  /\ status[e] = "absent"
  /\ status' = [status EXCEPT ![e] = "pending"]
  /\ UNCHANGED <<published, dead, attempts, backoff, lease, aged, broker, work, budget>>

ReachMinAge(e) ==
  /\ status[e] # "absent" /\ e \notin aged
  /\ aged' = aged \cup {e}
  /\ UNCHANGED <<status, published, dead, attempts, backoff, lease, broker, work, budget>>

BackoffElapses(e) ==
  /\ e \in backoff
  /\ backoff' = backoff \ {e}
  /\ UNCHANGED <<status, published, dead, attempts, lease, aged, broker, work, budget>>

\* Nothing ties the lease TTL to the cycle timeout: a holder may be slower.
LeaseLapses(e) ==
  /\ lease[e] = "live"
  /\ lease' = [lease EXCEPT ![e] = "lapsed"]
  /\ UNCHANGED <<status, published, dead, attempts, backoff, aged, broker, work, budget>>

-----------------------------------------------------------------------------
(* The worker. *)

\* The row exists, is unpublished and is not quarantined.
Open(e) == /\ status[e] \notin {"absent", "deleted"}
           /\ e \notin published
           /\ e \notin dead

\* Mutation: a leased row is never offered again, even when its lease lapses.
ClaimableNotLeased(e) == Open(e) /\ status[e] \in {"pending", "failed"} /\ e \notin backoff /\ e \in aged

\* WHERE clause of LeaseOutboxForPublish; in list mode the same conditions are
\* split between ListOutboxUnpublished and DecideOutboxReplay.
Claimable(e) ==
  /\ Open(e)
  /\ status[e] \notin {"published", "dead_letter"}
  /\ e \notin backoff
  /\ \/ status[e] \in {"pending", "failed"}
     \/ status[e] = "publishing" /\ lease[e] # "live"
  /\ e \in aged

\* ORDER BY created_at, id LIMIT batch_limit.
OldestFirst(S) == {e \in S : Cardinality({f \in S : f < e}) < BatchLimit}

PlanOutboxRepublishBatch(w) ==
  LET B == OldestFirst({e \in Events : Claimable(e)})
  IN  /\ pc[w] = "ready" /\ todo[w] = {}
      /\ B # {}
      /\ todo' = [todo EXCEPT ![w] = B]
      /\ seen' = [seen EXCEPT ![w] = [e \in Events |-> IF e \in B THEN attempts[e] ELSE 0]]
      /\ IF UseLease
         THEN /\ status' = [e \in Events |-> IF e \in B THEN "publishing" ELSE status[e]]
              /\ lease' = [e \in Events |-> IF e \in B THEN "live" ELSE lease[e]]
         ELSE UNCHANGED <<status, lease>>
      /\ UNCHANGED <<published, dead, attempts, backoff, aged, broker, pc, cur, budget>>

\* The row leaves the plan; its remembered count is of no further use.
Handled(w) == /\ pc' = [pc EXCEPT ![w] = "ready"]
              /\ todo' = [todo EXCEPT ![w] = @ \ {cur[w]}]
              /\ seen' = [seen EXCEPT ![w][cur[w]] = 0]
              /\ cur' = [cur EXCEPT ![w] = None]

\* External: JetStream stores the message, or recognises its message id, and
\* the acknowledgement reaches the worker.
PublishAcked(w, e) ==
  /\ pc[w] = "ready" /\ e \in todo[w]
  /\ stored' = stored \cup {e}
  /\ pc' = [pc EXCEPT ![w] = "mark"]
  /\ cur' = [cur EXCEPT ![w] = e]
  /\ UNCHANGED <<rows, dlq, todo, seen, budget>>

\* Mutation: the error of the publish call is swallowed.
PublishErrorIgnored(w, e) ==
  /\ pc[w] = "ready" /\ e \in todo[w]
  /\ UNCHANGED stored
  /\ pc' = [pc EXCEPT ![w] = "mark"]
  /\ cur' = [cur EXCEPT ![w] = e]
  /\ UNCHANGED <<rows, dlq, todo, seen, budget>>

\* External: the publish call fails; the message may have been stored all the same.
PublishFailed(w, e) ==
  /\ pc[w] = "ready" /\ e \in todo[w]
  /\ \/ UNCHANGED stored
     \/ stored' = stored \cup {e}
  /\ pc' = [pc EXCEPT ![w] = "record"]
  /\ cur' = [cur EXCEPT ![w] = e]
  /\ UNCHANGED <<rows, dlq, todo, seen, budget>>

\* Clears the lease whoever holds it, and does not look at dead_lettered_at.
MarkOutboxPublished(w) ==
  /\ pc[w] = "mark"
  /\ IF status[cur[w]] # "deleted" /\ cur[w] \notin published
     THEN /\ published' = published \cup {cur[w]}
          /\ status' = [status EXCEPT ![cur[w]] = "published"]
          /\ lease' = [lease EXCEPT ![cur[w]] = "none"]
     ELSE UNCHANGED <<published, status, lease>>
  /\ Handled(w)
  /\ UNCHANGED <<dead, attempts, backoff, aged, broker, budget>>

EffectiveOutboxMaxAttempts(e) == IF RowMax[e] > 0 THEN RowMax[e] ELSE PolicyMax

\* Mutation: off by one at the ceiling.
WillDeadLetterLate(w) == seen[w][cur[w]] + 1 > EffectiveOutboxMaxAttempts(cur[w])

\* Decided from the count the plan returned, not from the row's present one.
WillDeadLetter(w) == seen[w][cur[w]] + 1 >= EffectiveOutboxMaxAttempts(cur[w])

RecordOutboxPublishFailure(w) ==
  /\ pc[w] = "record"
  /\ IF Open(cur[w])
     THEN /\ attempts' = [attempts EXCEPT ![cur[w]] = @ + 1]
          /\ backoff' = IF WillDeadLetter(w) THEN backoff \ {cur[w]} ELSE backoff \cup {cur[w]}
          /\ dead' = IF WillDeadLetter(w) THEN dead \cup {cur[w]} ELSE dead
          /\ status' = [status EXCEPT ![cur[w]] =
                          IF WillDeadLetter(w) THEN "dead_letter" ELSE "failed"]
          /\ lease' = [lease EXCEPT ![cur[w]] = "none"]
     ELSE UNCHANGED <<attempts, backoff, dead, status, lease>>
  /\ IF WillDeadLetter(w)
     THEN /\ pc' = [pc EXCEPT ![w] = "dlq"]
          /\ UNCHANGED <<todo, seen, cur>>
     ELSE Handled(w)
  /\ UNCHANGED <<published, aged, broker, budget>>

\* The copy is attempted once; a failure to publish it is only logged.
PublishOutboxDeadLettered(w) ==
  /\ pc[w] = "dlq"
  /\ \/ dlq' = dlq \cup {cur[w]}
     \/ UNCHANGED dlq
  /\ Handled(w)
  /\ UNCHANGED <<rows, stored, budget>>

\* The process crashes, the cycle's deadline passes, or a database call of the
\* cycle fails and the tick returns its error: the plan is lost, rows stay leased.
AbortCycle(w) ==
  /\ aborts < MaxAborts
  /\ todo[w] # {}
  /\ aborts' = aborts + 1
  /\ pc' = [pc EXCEPT ![w] = "ready"]
  /\ todo' = [todo EXCEPT ![w] = {}]
  /\ seen' = [seen EXCEPT ![w] = [e \in Events |-> 0]]
  /\ cur' = [cur EXCEPT ![w] = None]
  /\ UNCHANGED <<rows, broker, adminOps>>

-----------------------------------------------------------------------------
(* Operators and retention. *)

Intervene == adminOps < MaxAdminOps /\ adminOps' = adminOps + 1

\* Mutation: replay of a quarantined row that a late mark has published.
ReplayEvenPublished(e) ==
  /\ status[e] # "deleted" /\ e \in dead
  /\ Intervene
  /\ status' = [status EXCEPT ![e] = "pending"]
  /\ dead' = dead \ {e}
  /\ backoff' = backoff \ {e}
  /\ lease' = [lease EXCEPT ![e] = "none"]
  /\ attempts' = [attempts EXCEPT ![e] = 0]
  /\ UNCHANGED <<published, aged, broker, work, aborts>>

\* AdminRetryOutboxDeadLetter
ReplayDeadLetter(e) ==
  /\ status[e] # "deleted"
  /\ status[e] = "dead_letter" \/ e \in dead
  /\ e \notin published
  /\ Intervene
  /\ status' = [status EXCEPT ![e] = "pending"]
  /\ dead' = dead \ {e}
  /\ backoff' = backoff \ {e}
  /\ lease' = [lease EXCEPT ![e] = "none"]
  /\ attempts' = [attempts EXCEPT ![e] = 0]
  /\ UNCHANGED <<published, aged, broker, work, aborts>>

\* Mutation: dead_lettered_at is not set with the status.
ManualDLQStatusOnly(e) ==
  /\ Open(e) /\ status[e] \notin {"published", "dead_letter"}
  /\ Intervene
  /\ status' = [status EXCEPT ![e] = "dead_letter"]
  /\ backoff' = backoff \ {e}
  /\ lease' = [lease EXCEPT ![e] = "none"]
  /\ UNCHANGED <<published, dead, attempts, aged, broker, work, aborts>>

MarkManualDLQ(e) ==
  /\ Open(e) /\ status[e] \notin {"published", "dead_letter"}
  /\ Intervene
  /\ status' = [status EXCEPT ![e] = "dead_letter"]
  /\ dead' = dead \cup {e}
  /\ backoff' = backoff \ {e}
  /\ lease' = [lease EXCEPT ![e] = "none"]
  /\ UNCHANGED <<published, attempts, aged, broker, work, aborts>>

\* Mutation: a status the table's CHECK constraint does not know.
RequeueUnknownStatus(e) ==
  /\ Open(e) /\ status[e] \notin {"published", "dead_letter"}
  /\ Intervene
  /\ status' = [status EXCEPT ![e] = "requeued"]
  /\ backoff' = backoff \ {e}
  /\ lease' = [lease EXCEPT ![e] = "none"]
  /\ UNCHANGED <<published, dead, attempts, aged, broker, work, aborts>>

\* Takes the lease away from a worker that may still be publishing.
RequeuePendingByID(e) ==
  /\ Open(e) /\ status[e] \notin {"published", "dead_letter"}
  /\ Intervene
  /\ status' = [status EXCEPT ![e] = "pending"]
  /\ backoff' = backoff \ {e}
  /\ lease' = [lease EXCEPT ![e] = "none"]
  /\ UNCHANGED <<published, dead, attempts, aged, broker, work, aborts>>

\* Enterprise retention removes rows published before the cutoff.
DeletePublished(e) ==
  /\ status[e] = "published" /\ e \in published
  /\ status' = [status EXCEPT ![e] = "deleted"]
  /\ UNCHANGED <<published, dead, attempts, backoff, lease, aged, broker, work, budget>>

-----------------------------------------------------------------------------

Clock(e) == ReachMinAge(e) \/ BackoffElapses(e) \/ LeaseLapses(e)

Admin(e) == ReplayDeadLetter(e) \/ MarkManualDLQ(e) \/ RequeuePendingByID(e)

Publish(w, e) == PublishAcked(w, e) \/ PublishFailed(w, e)

\* One more step of the replica's dispatch cycle.
Dispatch(w) ==
  \/ PlanOutboxRepublishBatch(w)
  \/ \E e \in Events : Publish(w, e)
  \/ MarkOutboxPublished(w)
  \/ RecordOutboxPublishFailure(w)
  \/ PublishOutboxDeadLettered(w)

Next ==
  \/ \E e \in Events : \/ InsertOutboxEvent(e) \/ Clock(e)
                       \/ Admin(e) \/ DeletePublished(e)
  \/ \E w \in Workers : Dispatch(w) \/ AbortCycle(w)

\* Tickers run every replica's cycle again and again, and time passes.
Fairness == /\ \A w \in Workers : WF_vars(Dispatch(w))
            /\ \A e \in Events : WF_vars(Clock(e))

Spec == Init /\ [][Next]_vars
FairSpec == Spec /\ Fairness

-----------------------------------------------------------------------------
(* Properties. *)

\* A row is marked published only after the broker has stored its event,
\* whatever crashes, stale leases and operator actions happen between the
\* publish and MarkOutboxPublished (the ordering OutboxDispatchTick promises).
PublishedWasStored == published \subseteq stored

\* The queries test three redundant columns (status, published_at,
\* dead_lettered_at) and two timestamps.  Every statement keeps them in step, so
\* that an unpublished row is always either open to LeaseOutboxForPublish, now or
\* once a lease or a backoff has run out, or open to ReplayDeadLetter: no row is stranded.
ColumnsAgree ==
  \A e \in Events :
    /\ e \in published <=> status[e] \in {"published", "deleted"}
    /\ (e \in dead /\ e \notin published) <=> status[e] = "dead_letter"
    /\ lease[e] # "none" <=> status[e] = "publishing"
    /\ e \in backoff => status[e] \in {"failed", "published", "deleted"}

\* RecordOutboxPublishFailure decides quarantine from the count its worker leased,
\* so several workers with stale leases push a row past its ceiling: by less
\* than one attempt per replica, and never further.
CeilingOvershoot ==
  \A e \in Events :
    attempts[e] < EffectiveOutboxMaxAttempts(e) + Cardinality(Workers)

\* Every inserted event is eventually published or quarantined, and stays so
\* unless an operator replays it, once crashes and operator actions stop.
EventuallySettled ==
  \A e \in Events :
    (status[e] # "absent") ~> [](status[e] \in {"published", "deleted", "dead_letter"})

\* The outbox implements what it promises its producers.
Contract == INSTANCE OutboxContract WITH
  accepted  <- {e \in Events : status[e] # "absent"},
  settled   <- published,
  parked    <- dead,
  forgotten <- {e \in Events : status[e] = "deleted"}

\* Every step of the outbox is a step of the contract, or none: at-least-once
\* delivery, nothing forgotten early, and only a replay lifts a quarantine.
ImplementsContract == Contract!CSpec
=============================================================================
