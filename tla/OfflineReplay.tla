--------------------------- MODULE OfflineReplay ---------------------------
(***************************************************************************)
(* The replay of events a machine queued while it was offline              *)
(* (PushOfflineEvents): the rows of machine_offline_events, one per        *)
(* sequence number of the machine; the cursors of machine_sync_cursors,    *)
(* one per stream; pushes that overlap, fail and lose their replies; and   *)
(* the machine's queue.                                                    *)
(*                                                                         *)
(* Each statement and each domain dispatch is a step.  A dispatch is any   *)
(* handler of the online API: it is idempotent per event, so its effect is *)
(* recorded as a set.  The machine sends one payload per client event id.  *)
(***************************************************************************)
EXTENDS Integers, Sequences, FiniteSets

CONSTANTS Events,       \* offline events, named by their client_event_id
          Streams,      \* stream names (:cash and :commerce, or install epochs)
          StreamOf,     \* the stream of an event
          BaseStream,   \* the stream name without its :cash or :commerce
          Cash,         \* events of type commerce.report_cash_movements
          Traced,       \* cash reports whose key leads to a forensic row
          Canonical,    \* events whose payload jsonb keeps as protojson writes it
          GapTolerant,  \* the replicas' settings of MACHINE_OFFLINE_SEQUENCE_GAP_TOLERANT
          Pushes,       \* pushes in progress at the same time
          MaxSeq,       \* bound: offline_sequence
          MaxFaults     \* bound: failed statements and dispatches, crashes, lost replies

NoId == "none"  \* client_event_id = ''

ASSUME OfflineSets == /\ IsFiniteSet(Events) /\ NoId \notin Events
                      /\ StreamOf \in [Events -> Streams] /\ BaseStream \in Streams
                      /\ Cash \subseteq Events /\ Traced \subseteq Cash
ASSUME OfflineLimits == GapTolerant \subseteq BOOLEAN /\ MaxSeq \in Nat /\ MaxFaults \in Nat

VARIABLES
  slot,     \* machine_offline_events by offline_sequence: Free or a row
  cursor,   \* last_sequence of each stream
  applied,  \* events whose domain effect has committed
  push,     \* a push and where it is
  stamp,    \* the machine: offline_sequence of a queued event, 0 before
  next,     \* the machine: next sequence number of each stream
  done,     \* the machine: events it removed from its queue after an answer
  dropped,  \* the machine: events given up after a definitive rejection
  faults

server == <<slot, cursor, applied>>
machine == <<stamp, next, done, dropped>>
vars == <<server, push, machine, faults>>

Seqs == 1..MaxSeq
Free == [ev |-> "free"]
Rows == [ev : Events \cup {NoId}, status : {"processing", "processed", "failed_retryable", "rejected"},
         tomb : BOOLEAN]
Items == [ev : Events, seq : Seqs, tomb : BOOLEAN]
Verdicts == {"accepted", "replayed", "synced", "occupied", "abandoned", "retry", "rejected"}
Idle == [at |-> "idle"]

TypeOK ==
  /\ slot \in [Seqs -> {Free} \cup Rows]
  /\ cursor \in [Streams -> 0..MaxSeq]
  /\ applied \subseteq Events
  /\ \A p \in Pushes : push[p] = Idle \/
       /\ push[p].at \in {"next", "insert", "dispatch", "redispatch", "mark", "advance"}
       /\ push[p].stream \in Streams /\ push[p].last \in 0..MaxSeq
       /\ push[p].todo \in Seq(Items)
       /\ push[p].out \subseteq [ev : Events, seq : Seqs, verdict : Verdicts]
  /\ stamp \in [Events -> 0..MaxSeq]
  /\ next \in [Streams -> 1..(MaxSeq + 1)]
  /\ done \subseteq Events /\ dropped \subseteq Events
  /\ faults \in 0..MaxFaults

Init ==
  /\ slot = [n \in Seqs |-> Free]
  /\ cursor = [s \in Streams |-> 0]
  /\ applied = {}
  /\ push = [p \in Pushes |-> Idle]
  /\ stamp = [e \in Events |-> 0]
  /\ next = [s \in Streams |-> 1]
  /\ done = {} /\ dropped = {}
  /\ faults = 0

-----------------------------------------------------------------------------
(* The machine. *)

Enqueue(e) ==
  /\ stamp[e] = 0 /\ next[StreamOf[e]] <= MaxSeq
  /\ stamp' = [stamp EXCEPT ![e] = next[StreamOf[e]]]
  /\ next' = [next EXCEPT ![StreamOf[e]] = @ + 1]
  /\ UNCHANGED <<server, push, done, dropped, faults>>

Queued(s) == {e \in Events : StreamOf[e] = s /\ stamp[e] > 0 /\ e \notin done}
Entries(es) == {[ev |-> e, seq |-> stamp[e], tomb |-> e \in dropped] : e \in es}

\* The entries of a batch in the order in which the server handles them: given-up ones,
\* which come in the abandoned list, before the others, each list by sequence number.
Before(a, b) == IF a.tomb = b.tomb THEN a.seq < b.seq ELSE a.tomb
Batches(es) == {q \in [1..Cardinality(es) -> Entries(es)] :
                  \A i, j \in DOMAIN q : i < j => Before(q[i], q[j])}

\* resolveOfflineStreamName: a push without events goes by the request's own name.
PushStream(es, s) == IF es \subseteq dropped THEN BaseStream ELSE s

\* A push carries queued events of a stream.
PushOfflineEvents(p, s) ==
  /\ push[p] = Idle
  /\ \E es \in SUBSET Queued(s) : \E q \in Batches(es) :
       /\ es # {}
       /\ push' = [push EXCEPT ![p] =
            [at |-> "next", stream |-> PushStream(es, s), last |-> cursor[PushStream(es, s)],
             out |-> {}, todo |-> q]]
  /\ UNCHANGED <<server, machine, faults>>

\* The machine acts on a reply that arrives: an accepted or replayed event leaves
\* the queue, one whose slot belongs to another gets a new number, a rejected one
\* is given up; "already synced" may speak of another event and settles nothing.
Answered(out, verdicts) == {e \in Events : \E r \in out : r.ev = e /\ r.verdict \in verdicts}
Reply(p) ==
  /\ push[p] # Idle /\ push[p].at = "next" /\ push[p].todo = <<>>
  /\ LET out == push[p].out
         s == push[p].stream
         restamp == {r \in out : r.verdict = "occupied" /\ stamp[r.ev] = r.seq /\ r.ev \notin done}
         moved == IF restamp = {} THEN {} ELSE {CHOOSE r \in restamp : \A o \in restamp : r.seq <= o.seq}
     IN /\ done' = done \cup Answered(out, {"accepted", "replayed", "abandoned"})
        /\ dropped' = dropped \cup (Answered(out, {"rejected"}) \ done)
        /\ IF next[s] <= MaxSeq
           THEN /\ stamp' = [e \in Events |-> IF \E r \in moved : r.ev = e THEN next[s] ELSE stamp[e]]
                /\ next' = [next EXCEPT ![s] = @ + Cardinality(moved)]
           ELSE UNCHANGED <<stamp, next>>
  /\ push' = [push EXCEPT ![p] = Idle]
  /\ UNCHANGED <<server, faults>>

-----------------------------------------------------------------------------
(* The server: one event of a push after the other. *)

Item(p) == Head(push[p].todo)
SlotOf(e) == {n \in Seqs : slot[n] # Free /\ slot[n].ev = e}

\* Mutation: a row counts as a proven replay whatever became of it.
ProvenAlways(r, e) == r.ev = e

\* offlineProvenReplay: processed, and the stored text is the one just received.
Proven(r, e) == r.ev = e /\ r.status = "processed" /\ ~r.tomb /\ e \in Canonical

\* CashMovementForensicRowExists: a key without a device id and a recycler
\* observation have no row to look for and count as recorded.
Unrecorded == Traced \ applied

\* cashForensicMissing: so does a report whose lookup fails.
CashMissing(e, missing) ==
  \/ missing = (e \in Unrecorded) /\ UNCHANGED faults
  \/ /\ e \in Unrecorded /\ ~missing
     /\ faults < MaxFaults /\ faults' = faults + 1

Goto(p, at) == push' = [push EXCEPT ![p].at = at]
\* The result of the current event; the next one follows.
Skip(p, v) == push' = [push EXCEPT ![p].todo = Tail(@), ![p].at = "next",
                 ![p].out = @ \cup {[ev |-> Item(p).ev, seq |-> Item(p).seq, verdict |-> v]}]
\* As Skip; a number beyond the stream's goes by way of the cursor
\* (shouldAdvanceOfflineStreamCursor).
Conclude(p, v) ==
  IF Item(p).seq > push[p].last /\ v \in {"accepted", "replayed"}
  THEN push' = [push EXCEPT ![p].at = "advance",
                  ![p].out = @ \cup {[ev |-> Item(p).ev, seq |-> Item(p).seq, verdict |-> v]}]
  ELSE Skip(p, v)
\* A rejected event ends the batch.
Break(p, v) == push' = [push EXCEPT ![p].todo = <<>>, ![p].at = "next",
                  ![p].out = @ \cup {[ev |-> Item(p).ev, seq |-> Item(p).seq, verdict |-> v]}]

\* Mutation: the cursor is overwritten with what this push has reached.
SetCursor(s, n) == cursor' = [cursor EXCEPT ![s] = n]

\* UpsertMachineSyncCursor keeps the greater number.
Raise(s, n) == cursor' = [cursor EXCEPT ![s] = IF n > @ THEN n ELSE @]

Pending(p, at) == push[p] # Idle /\ push[p].at = at /\ push[p].todo # <<>>

\* applyAbandonedOfflineSequences: the tombstone takes the slot, without the
\* event's id if another row has it, and moves a contiguous cursor on.
ApplyAbandoned(p) ==
  /\ Pending(p, "next") /\ Item(p).tomb
  /\ LET n == Item(p).seq
         s == push[p].stream
         row == [ev |-> IF SlotOf(Item(p).ev) = {} THEN Item(p).ev ELSE NoId,
                 status |-> "rejected", tomb |-> TRUE]
     IN IF n <= push[p].last
        THEN Skip(p, "abandoned") /\ UNCHANGED <<slot, cursor>>
        ELSE /\ slot' = IF slot[n] = Free THEN [slot EXCEPT ![n] = row] ELSE slot
             /\ IF n = push[p].last + 1
                THEN Raise(s, n) /\ push' = [push EXCEPT ![p].todo = Tail(@), ![p].last = n,
                       ![p].out = @ \cup {[ev |-> Item(p).ev, seq |-> n, verdict |-> "abandoned"]}]
                ELSE Skip(p, "abandoned") /\ UNCHANGED cursor
  /\ UNCHANGED <<applied, machine, faults>>

\* staleOfflineSequenceDecision: a number at or below the cursor is skipped
\* unless its event is known and unproven, or its cash report is missing.
Stale(p) == Item(p).seq <= push[p].last /\ CashMissing(Item(p).ev, FALSE)

\* Mutation: the answer of an unknown event says no more than "already synced".
StaleOccupiedSynced(p) ==
  /\ Pending(p, "next") /\ ~Item(p).tomb /\ Stale(p)
  /\ SlotOf(Item(p).ev) = {}
  /\ Skip(p, "synced")
  /\ UNCHANGED <<server, machine>>

StaleOccupied(p) ==
  /\ Pending(p, "next") /\ ~Item(p).tomb /\ Stale(p)
  /\ SlotOf(Item(p).ev) = {}
  /\ Skip(p, "occupied")
  /\ UNCHANGED <<server, machine>>

StaleReplayed(p) ==
  /\ Pending(p, "next") /\ ~Item(p).tomb /\ Stale(p)
  /\ \E n \in SlotOf(Item(p).ev) : Proven(slot[n], Item(p).ev)
  /\ Skip(p, "replayed")
  /\ UNCHANGED <<server, machine>>

\* Without gap tolerance a number beyond the next fails the whole RPC.
OutOfOrder(p) ==
  /\ Pending(p, "next") /\ ~Item(p).tomb
  /\ Item(p).seq > push[p].last + 1 /\ FALSE \in GapTolerant
  /\ push' = [push EXCEPT ![p] = Idle]
  /\ UNCHANGED <<server, machine, faults>>

\* The part of processOfflineEvent before its insert.
LookUp(p) ==
  /\ Pending(p, "next") /\ ~Item(p).tomb
  /\ Item(p).seq <= push[p].last + 1 \/ TRUE \in GapTolerant
  /\ LET e == Item(p).ev
         prior == SlotOf(e)
     IN \E missing \in BOOLEAN :
          /\ CashMissing(e, missing)
          /\ Item(p).seq <= push[p].last /\ ~missing =>
               prior # {} /\ \A n \in prior : ~Proven(slot[n], e)
          /\ \/ /\ prior = {} \/ (prior = {Item(p).seq} /\ ~Proven(slot[Item(p).seq], e))
                /\ Goto(p, "insert")
             \/ /\ \E n \in prior : Proven(slot[n], e)
                /\ IF missing THEN Goto(p, "redispatch") ELSE Conclude(p, "replayed")
             \/ /\ \E n \in prior : n # Item(p).seq /\ ~Proven(slot[n], e)
                /\ Goto(p, "redispatch")
  /\ UNCHANGED <<server, machine>>

\* The insert finds the slot free, but not the event's id: a push that overlaps
\* has recorded it under another number.
InsertDuplicateId(p) ==
  /\ Pending(p, "insert") /\ slot[Item(p).seq] = Free /\ SlotOf(Item(p).ev) # {}
  /\ \E missing \in BOOLEAN :
       /\ CashMissing(Item(p).ev, missing)
       /\ IF missing THEN Goto(p, "redispatch") ELSE Break(p, "rejected")
  /\ UNCHANGED <<server, machine>>

InsertNew(p) ==
  /\ Pending(p, "insert") /\ slot[Item(p).seq] = Free /\ SlotOf(Item(p).ev) = {}
  /\ slot' = [slot EXCEPT ![Item(p).seq] =
                [ev |-> Item(p).ev, status |-> "processing", tomb |-> FALSE]]
  /\ Goto(p, "dispatch")
  /\ UNCHANGED <<cursor, applied, machine, faults>>

\* The slot holds a row: of another event, or of this one from an earlier push.
\* Another's row makes a second lookup, which may succeed where the first failed.
InsertOccupied(p) ==
  /\ Pending(p, "insert") /\ slot[Item(p).seq] # Free
  /\ LET e == Item(p).ev
         r == slot[Item(p).seq]
     IN \E missing \in BOOLEAN :
          /\ CashMissing(e, missing)
          /\ \/ missing /\ Goto(p, "redispatch")
             \/ /\ ~missing /\ r.ev \notin {e, NoId}
                /\ \/ e \in Cash /\ Conclude(p, "replayed")
                   \/ e \notin Cash \ Unrecorded /\ Conclude(p, "occupied")
             \/ ~missing /\ r.ev \in {e, NoId} /\ Proven(r, e) /\ Conclude(p, "replayed")
             \/ ~missing /\ r.ev \in {e, NoId} /\ ~Proven(r, e) /\ Goto(p, "dispatch")
  /\ UNCHANGED <<server, machine>>

\* The domain handler succeeds; a redispatch leaves the event's row as it is.
DispatchOfflineEvent(p) ==
  /\ Pending(p, "dispatch") \/ Pending(p, "redispatch")
  /\ applied' = applied \cup {Item(p).ev}
  /\ IF push[p].at = "dispatch" THEN Goto(p, "mark") ELSE Conclude(p, "accepted")
  /\ UNCHANGED <<slot, cursor, machine, faults>>

\* Mutation: an error code without a case leaves the status empty.
FailureStatusUnmapped(retryable) == IF retryable THEN "failed_retryable" ELSE ""

\* offlineDispatchFailureProcessingStatus; "rejected" stands for failed_terminal too.
FailureStatus(retryable) == IF retryable THEN "failed_retryable" ELSE "rejected"

\* The handler fails: the row keeps the outcome (the update's error is ignored).
DispatchFails(p, retryable) ==
  /\ Pending(p, "dispatch") \/ Pending(p, "redispatch")
  /\ slot' = IF push[p].at = "dispatch"
             THEN [slot EXCEPT ![Item(p).seq].status = FailureStatus(retryable)] ELSE slot
  /\ Break(p, IF retryable THEN "retry" ELSE "rejected")
  /\ UNCHANGED <<cursor, applied, machine>>

DispatchUnavailable(p) ==
  /\ faults < MaxFaults /\ faults' = faults + 1
  /\ DispatchFails(p, TRUE)

\* A definitive rejection; an event that has been applied is accepted again.
DispatchRejected(p) ==
  /\ push[p] # Idle /\ push[p].todo # <<>> /\ Item(p).ev \notin applied
  /\ DispatchFails(p, FALSE)
  /\ UNCHANGED faults

\* UpdateMachineOfflineEventStatus, by sequence number; its error is ignored.
MarkProcessed(p) ==
  /\ Pending(p, "mark")
  /\ \/ slot' = [slot EXCEPT ![Item(p).seq].status = "processed"] /\ UNCHANGED faults
     \/ faults < MaxFaults /\ faults' = faults + 1 /\ UNCHANGED slot
  /\ Conclude(p, "accepted")
  /\ UNCHANGED <<cursor, applied, machine>>

AdvanceCursor(p) ==
  /\ Pending(p, "advance")
  /\ Raise(push[p].stream, Item(p).seq)
  /\ push' = [push EXCEPT ![p].at = "next", ![p].todo = Tail(@), ![p].last = Item(p).seq]
  /\ UNCHANGED <<slot, applied, machine, faults>>

\* A lookup or an insert fails: a stale event is answered "already synced", the
\* others are rejected, and not as retryable; a tombstone is left for later.
StatementFails(p) ==
  /\ faults < MaxFaults /\ faults' = faults + 1
  /\ \/ Pending(p, "next") /\ Item(p).tomb /\ Item(p).seq > push[p].last /\ Skip(p, "retry")
     \/ /\ Pending(p, "next") /\ ~Item(p).tomb
        /\ IF Item(p).seq <= push[p].last /\ Item(p).ev \notin Unrecorded
           THEN Skip(p, "synced") ELSE Break(p, "rejected")
     \/ Pending(p, "insert") /\ Break(p, "rejected")
  /\ UNCHANGED <<server, machine>>

\* The process dies, a statement fails the RPC, or the reply is lost.
PushLost(p) ==
  /\ push[p] # Idle /\ faults < MaxFaults
  /\ faults' = faults + 1
  /\ push' = [push EXCEPT ![p] = Idle]
  /\ UNCHANGED <<server, machine>>

-----------------------------------------------------------------------------
Handle(p) == \/ ApplyAbandoned(p) \/ StaleOccupied(p) \/ StaleReplayed(p) \/ OutOfOrder(p)
             \/ LookUp(p) \/ InsertDuplicateId(p) \/ InsertNew(p) \/ InsertOccupied(p)
             \/ DispatchOfflineEvent(p) \/ DispatchRejected(p)
             \/ MarkProcessed(p) \/ AdvanceCursor(p) \/ Reply(p)

Next == \/ \E e \in Events : Enqueue(e)
        \/ \E p \in Pushes : \/ \E s \in Streams : PushOfflineEvents(p, s)
                             \/ Handle(p) \/ DispatchUnavailable(p)
                             \/ StatementFails(p) \/ PushLost(p)

Spec == Init /\ [][Next]_vars

\* A push of everything a stream has queued.
PushAll(p, s) == PushOfflineEvents(p, s) /\ Len(push'[p].todo) = Cardinality(Queued(s))

\* The machine pushes the streams it has events for again and again, and again
\* and again all of a stream; the server works on what it has received.
FairSpec == /\ Spec
            /\ \A p \in Pushes : WF_vars(Handle(p))
            /\ \A s \in Streams : SF_vars(\E p \in Pushes : PushAll(p, s))

-----------------------------------------------------------------------------
(* Properties. *)

\* Cash reports that were taken for recorded in the slot of another stream's event, under
\* the number they have or an earlier one: the server has nothing to tell by, or
\* failed to look.
Mistaken(e) ==
  /\ e \in Cash /\ (e \in Traced => faults > 0)
  /\ \E n \in Seqs : /\ n <= stamp[e]
                     /\ slot[n] # Free /\ slot[n].ev \in Events
                     /\ StreamOf[slot[n].ev] # StreamOf[e]

\* An event leaves the machine's queue only when it has been applied or the
\* machine itself gave it up: no overlap of pushes, lost reply or half-done
\* replay lets a sale vanish, and nothing but a number that another stream's
\* event holds a cash report, if its row could not be looked up.
DoneIsApplied == \A e \in done : e \in applied \cup dropped \/ Mistaken(e)

\* A stream's cursor never moves back, although overlapping pushes write it
\* from copies they read at different times.
CursorMonotone == [][\A s \in Streams : cursor'[s] >= cursor[s]]_vars

\* Every event the machine queued is settled in the end, applied or given up:
\* neither a rejected event at the head of its stream nor a number taken by the
\* other stream holds the events behind it back for ever.
EventsSettle == \A e \in Events : stamp[e] > 0 ~> e \in done
=============================================================================
