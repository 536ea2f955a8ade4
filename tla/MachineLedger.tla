--------------------------- MODULE MachineLedger ---------------------------
(***************************************************************************)
(* The idempotency ledger in front of every mutating machine RPC: the rows *)
(* of machine_idempotency_keys, the unary interceptor around the handlers, *)
(* and a machine that retries a request until it has an answer.            *)
(*                                                                         *)
(* Time is the one fact the code tests: last_seen_at lies more than the    *)
(* stale window in the past.  API and database clocks are taken to agree   *)
(* to within that window (two minutes).  A handler is any domain           *)
(* transaction: it commits once or not at all.                             *)
(***************************************************************************)
EXTENDS Integers, FiniteSets

CONSTANTS Keys,      \* (machine, canonical operation, idempotency key)
          Payloads,  \* request hashes
          Calls,     \* RPCs in progress at the same time
          Intended,  \* the payload a machine means by a key
          After,     \* the spent key a key replaces for the same purchase, or None
          MaxStrays, \* bound: requests that reuse a key for another payload
          MaxFaults  \* bound: crashes, expired contexts and failed marks

ASSUME LedgerSets == IsFiniteSet(Calls) /\ Intended \in [Keys -> Payloads]
ASSUME ReplacementKeys == After \in [Keys -> Keys \cup {"none"}]
ASSUME LedgerLimits == MaxStrays \in Nat /\ MaxFaults \in Nat

VARIABLES
  row,      \* status column, or "absent"
  hash,     \* request_hash
  lastSeen, \* last_seen_at: "fresh", or "stale" after the idle window
  call,     \* an RPC inside the interceptor
  dead,     \* RPCs whose context is cancelled or past its deadline
  effects,  \* per key the payloads whose handler committed, with repetitions
  answer,   \* what the machine has learnt about a key
  strays, faults

vars == <<row, hash, lastSeen, call, dead, effects, answer, strays, faults>>

Statuses == {"absent", "in_progress", "succeeded", "failed", "conflict"}
None == "none"
Idle == [at |-> "idle"]
\* "handler": the domain handler runs; "done": it has returned a response;
\* "definitive": it has returned an error that marks the row failed.
InCall == [at : {"handler", "done", "definitive"}, key : Keys, payload : Payloads]

TypeOK ==
  /\ row \in [Keys -> Statuses]
  /\ hash \in [Keys -> Payloads \cup {None}]
  /\ lastSeen \in [Keys -> {"fresh", "stale"}]
  /\ call \in [Calls -> {Idle} \cup InCall]
  /\ dead \subseteq Calls
  /\ effects \in [Keys -> [Payloads -> Nat]]
  /\ answer \in [Keys -> {"none", "ok", "final"}]
  /\ strays \in 0..MaxStrays /\ faults \in 0..MaxFaults

Init ==
  /\ row = [k \in Keys |-> "absent"]
  /\ hash = [k \in Keys |-> None]
  /\ lastSeen = [k \in Keys |-> "fresh"]
  /\ call = [c \in Calls |-> Idle]
  /\ dead = {}
  /\ effects = [k \in Keys |-> [p \in Payloads |-> 0]]
  /\ answer = [k \in Keys |-> "none"]
  /\ strays = 0 /\ faults = 0

\* What the client that means payload Intended[k] takes from a reply.
Told(k, p, what) == answer' = IF p = Intended[k] THEN [answer EXCEPT ![k] = what] ELSE answer

-----------------------------------------------------------------------------
(* BeginMutation. *)

\* Mutation: the upsert leaves last_seen_at of an existing row alone.
SeenKept(k) == lastSeen[k]

\* last_seen_at in the row the upsert returns: DO UPDATE SET last_seen_at = now().
SeenAfterUpsert(k) == "fresh"

\* The row the upsert returned is another request's, idle since before the cutoff.
Reclaimable(k) == row[k] = "in_progress" /\ SeenAfterUpsert(k) = "stale"

\* A new row, or one reclaimed: DeleteStaleMachineIdempotencyInProgress and the
\* second round of the loop insert it again.  The handler runs.
Claim(c, k, p) ==
  /\ row[k] = "absent" \/ Reclaimable(k)
  /\ row' = [row EXCEPT ![k] = "in_progress"]
  /\ hash' = [hash EXCEPT ![k] = p]
  /\ call' = [call EXCEPT ![c] = [at |-> "handler", key |-> k, payload |-> p]]
  /\ UNCHANGED answer

\* Mutation: the stored response is replayed whatever the payload is.
ReplayAnyPayload(c, k, p) ==
  /\ row[k] = "succeeded"
  /\ Told(k, p, "ok")
  /\ UNCHANGED <<row, hash, call>>

\* The stored response is returned again.
Replay(c, k, p) ==
  /\ row[k] = "succeeded" /\ hash[k] = p
  /\ Told(k, p, "ok")
  /\ UNCHANGED <<row, hash, call>>

\* A different payload under the key marks the row, whatever its status was.
Mismatch(c, k, p) ==
  /\ row[k] # "absent" /\ ~Reclaimable(k) /\ hash[k] # p
  /\ row' = [row EXCEPT ![k] = "conflict"]
  /\ Told(k, p, "final")
  /\ UNCHANGED <<hash, call>>

\* Mutation: a request that finds its key busy is told the key is spent.
BusyIsFinal(c, k, p) ==
  /\ row[k] = "in_progress" /\ ~Reclaimable(k) /\ hash[k] = p
  /\ Told(k, p, "final")
  /\ UNCHANGED <<row, hash, call>>

\* Aborted: "idempotent operation already in progress".
Busy(c, k, p) ==
  /\ row[k] = "in_progress" /\ ~Reclaimable(k) /\ hash[k] = p
  /\ UNCHANGED <<row, hash, call, answer>>

\* FailedPrecondition: the client is told to use a new key.
Refuse(c, k, p) ==
  /\ row[k] \in {"failed", "conflict"} /\ hash[k] = p
  /\ Told(k, p, "final")
  /\ UNCHANGED <<row, hash, call>>

BeginMutation(c, k, p) ==
  /\ call[c] = Idle
  /\ \/ Claim(c, k, p) \/ Replay(c, k, p) \/ Mismatch(c, k, p)
     \/ Busy(c, k, p) \/ Refuse(c, k, p)
  /\ lastSeen' = [lastSeen EXCEPT ![k] =
                    IF row[k] = "absent" \/ Reclaimable(k) THEN "fresh" ELSE SeenAfterUpsert(k)]
  /\ dead' = dead \ {c}
  /\ UNCHANGED <<effects, faults>>

\* The machine sends, and sends again until it has an answer; told that a key
\* is spent, it goes on with a new one.
Request(c, k) == /\ answer[k] = "none"
                 /\ After[k] # None => answer[After[k]] = "final"
                 /\ BeginMutation(c, k, Intended[k])
                 /\ UNCHANGED strays

\* A reused key: a defect of the client.
StrayRequest(c, k, p) == /\ p # Intended[k] /\ strays < MaxStrays
                         /\ strays' = strays + 1
                         /\ BeginMutation(c, k, p)

-----------------------------------------------------------------------------
(* The handler and the two marks, with the context of the RPC. *)

Commit(c) == effects' = [effects EXCEPT ![call[c].key][call[c].payload] = @ + 1]

HandlerSucceeds(c) ==
  /\ call[c].at = "handler"
  /\ Commit(c)
  /\ call' = [call EXCEPT ![c].at = "done"]
  /\ UNCHANGED <<row, hash, lastSeen, dead, answer, strays, faults>>

\* Mutation: a definitive error is classified as one to retry.
HandlerRejectsUnmarked(c) ==
  /\ call[c].at = "handler"
  /\ call' = [call EXCEPT ![c] = Idle]
  /\ UNCHANGED <<row, hash, lastSeen, dead, effects, answer, strays, faults>>

\* A definitive error: nothing was committed.
HandlerRejects(c) ==
  /\ call[c].at = "handler"
  /\ call' = [call EXCEPT ![c].at = "definitive"]
  /\ UNCHANGED <<row, hash, lastSeen, dead, effects, answer, strays, faults>>

\* Unknown, Aborted, ResourceExhausted, Internal, Unavailable: the row is left
\* in progress for a retry.  The domain transaction may have committed.
HandlerUnavailable(c) ==
  /\ call[c].at = "handler" /\ faults < MaxFaults
  /\ faults' = faults + 1
  /\ Commit(c) \/ UNCHANGED effects
  /\ call' = [call EXCEPT ![c] = Idle]
  /\ UNCHANGED <<row, hash, lastSeen, dead, answer, strays>>

\* A DeadlineExceeded of the handler's own making counts as definitive, whether
\* or not the domain transaction has committed.
HandlerTimesOut(c) ==
  /\ call[c].at = "handler" /\ faults < MaxFaults
  /\ faults' = faults + 1
  /\ Commit(c) \/ UNCHANGED effects
  /\ call' = [call EXCEPT ![c].at = "definitive"]
  /\ UNCHANGED <<row, hash, lastSeen, dead, answer, strays>>

\* The UPDATE is not guarded by the status.
MarkSucceeded(c) ==
  /\ call[c].at = "done" /\ c \notin dead
  /\ row' = [row EXCEPT ![call[c].key] = "succeeded"]
  /\ lastSeen' = [lastSeen EXCEPT ![call[c].key] = "fresh"]
  /\ Told(call[c].key, call[c].payload, "ok")
  /\ call' = [call EXCEPT ![c] = Idle]
  /\ UNCHANGED <<hash, dead, effects, strays, faults>>

\* Mutation: the row gets the status the client is told of.
FailedFinal(k) == [row EXCEPT ![k] = "failed_final"]

Failed(k) == IF row[k] = "in_progress" THEN [row EXCEPT ![k] = "failed"] ELSE row

MarkFailed(c) ==
  /\ call[c].at = "definitive" /\ c \notin dead
  /\ row' = Failed(call[c].key)
  /\ lastSeen' = IF row' = row THEN lastSeen ELSE [lastSeen EXCEPT ![call[c].key] = "fresh"]
  /\ Told(call[c].key, call[c].payload, "final")
  /\ call' = [call EXCEPT ![c] = Idle]
  /\ UNCHANGED <<hash, dead, effects, strays, faults>>

\* The success could not be stored although the handler has committed, or a
\* failure could not: the error of MarkFailed is ignored, so the row may stay
\* in progress, and the machine is told all the same that the key is spent.
FinalizeFails(c) ==
  /\ call[c].at \in {"done", "definitive"} /\ c \notin dead /\ faults < MaxFaults
  /\ faults' = faults + 1
  /\ row' \in {row, Failed(call[c].key)}
  /\ lastSeen' = IF row' = row THEN lastSeen ELSE [lastSeen EXCEPT ![call[c].key] = "fresh"]
  /\ Told(call[c].key, call[c].payload, "final")
  /\ call' = [call EXCEPT ![c] = Idle]
  /\ UNCHANGED <<hash, dead, effects, strays>>

\* The caller hangs up or its deadline passes.
ContextDies(c) ==
  /\ call[c] # Idle /\ c \notin dead /\ faults < MaxFaults
  /\ faults' = faults + 1
  /\ dead' = dead \cup {c}
  /\ UNCHANGED <<row, hash, lastSeen, call, effects, answer, strays>>

\* The marks run with the RPC's own context: once it is dead neither reaches
\* the database, and the reply reaches nobody.
MarkAbandoned(c) ==
  /\ c \in dead /\ call[c].at \in {"done", "definitive"}
  /\ call' = [call EXCEPT ![c] = Idle]
  /\ UNCHANGED <<row, hash, lastSeen, dead, effects, answer, strays, faults>>

\* The process dies inside the interceptor.
Crash(c) ==
  /\ call[c] # Idle /\ faults < MaxFaults
  /\ faults' = faults + 1
  /\ call' = [call EXCEPT ![c] = Idle]
  /\ UNCHANGED <<row, hash, lastSeen, dead, effects, answer, strays>>

IdleWindowPasses(k) ==
  /\ row[k] # "absent" /\ lastSeen[k] = "fresh"
  /\ lastSeen' = [lastSeen EXCEPT ![k] = "stale"]
  /\ UNCHANGED <<row, hash, call, dead, effects, answer, strays, faults>>

-----------------------------------------------------------------------------
Serve(c) == \/ HandlerSucceeds(c) \/ HandlerRejects(c)
            \/ MarkSucceeded(c) \/ MarkFailed(c) \/ MarkAbandoned(c)

Next == \/ \E c \in Calls, k \in Keys : Request(c, k)
        \/ \E c \in Calls, k \in Keys, p \in Payloads : StrayRequest(c, k, p)
        \/ \E c \in Calls : \/ Serve(c) \/ HandlerUnavailable(c) \/ HandlerTimesOut(c)
                            \/ FinalizeFails(c) \/ ContextDies(c) \/ Crash(c)
        \/ \E k \in Keys : IdleWindowPasses(k)

Spec == Init /\ [][Next]_vars

\* A running RPC ends, the machine keeps retrying a key without an answer, and
\* an idle window that is not interrupted ends.
FairSpec == /\ Spec
            /\ \A c \in Calls : WF_vars(Serve(c))
            /\ \A k \in Keys : /\ WF_vars(\E c \in Calls : Request(c, k))
                               /\ WF_vars(IdleWindowPasses(k))

-----------------------------------------------------------------------------
(* Properties. *)

\* Under one key at most one handler ever commits, for one payload, however
\* the machine retries, whatever crashes and whoever reuses the key.
AtMostOnce ==
  \A k \in Keys : /\ \A p \in Payloads : effects[k][p] <= 1
                  /\ Cardinality({p \in Payloads : effects[k][p] > 0}) <= 1

\* A machine that was answered "ok" had its own payload committed, also when
\* the answer is the replay of a response stored for an earlier request.
OkIsCommitted ==
  \A k \in Keys : answer[k] = "ok" => effects[k][Intended[k]] = 1

\* A purchase is carried out under two keys only if a fault or a reused key
\* hid the first outcome: "use a new idempotency key" is otherwise harmless.
TwiceOnlyAfterFault ==
  \A k \in Keys :
    (After[k] # None /\ effects[k][Intended[k]] > 0 /\ effects[After[k]][Intended[k]] > 0)
      => faults > 0 \/ strays > 0

\* Without faults every request is answered in the end.
AnsweredWithoutFaults ==
  \A k \in Keys : (After[k] = None /\ answer[k] = "none") ~> (answer[k] # "none" \/ faults > 0)
=============================================================================
