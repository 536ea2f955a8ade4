---------------------------- MODULE LedgerProofs ----------------------------
(***************************************************************************)
(* Proofs about module MachineLedger, for every set of keys, payloads and  *)
(* concurrent calls, and any number of faults and reused keys.             *)
(***************************************************************************)
EXTENDS MachineLedger, FiniteSetTheorems, TLAPS

-----------------------------------------------------------------------------
(* What a step does to the calls and the effects. *)

Active(c) == call[c] # Idle

\* The upsert refreshes last_seen_at before it is compared with the cutoff, so
\* BeginMutation never takes a row over.
LEMMA NothingReclaimable == \A k \in Keys : ~Reclaimable(k)
  BY DEF Reclaimable, SeenAfterUpsert

LEMMA CallTypes ==
  ASSUME TypeOK, NEW c \in Calls
  PROVE  /\ ~Active(c) => call[c].at = "idle"
         /\ Active(c) => /\ call[c] \in InCall
                         /\ call[c].key \in Keys /\ call[c].payload \in Payloads
                         /\ call[c].at \in {"handler", "done", "definitive"}
  BY DEF TypeOK, Active, Idle, InCall

\* A call that leaves the interceptor.
LEMMA CallLeaves ==
  ASSUME TypeOK, NEW c \in Calls, call' = [call EXCEPT ![c] = Idle]
  PROVE  /\ call' \in [Calls -> {Idle} \cup InCall]
         /\ \A d \in Calls : Active(d)' => Active(d) /\ d # c /\ call'[d] = call[d]
  BY DEF TypeOK, Active

\* A call that moves on inside the interceptor.
LEMMA CallMoves ==
  ASSUME TypeOK, NEW c \in Calls, Active(c), NEW at \in {"done", "definitive"},
         call' = [call EXCEPT ![c].at = at]
  PROVE  /\ call' \in [Calls -> {Idle} \cup InCall]
         /\ call'[c] = [at |-> at, key |-> call[c].key, payload |-> call[c].payload]
         /\ \A d \in Calls : Active(d)' => Active(d) /\ (d # c => call'[d] = call[d])
  <1>1. call[c] \in InCall BY CallTypes
  <1>2. [call[c] EXCEPT !.at = at] = [at |-> at, key |-> call[c].key, payload |-> call[c].payload]
    BY <1>1 DEF InCall
  <1>3. [at |-> at, key |-> call[c].key, payload |-> call[c].payload] \in InCall
    BY <1>1 DEF InCall
  <1>4. call' = [call EXCEPT ![c] = [call[c] EXCEPT !.at = at]]
    BY DEF TypeOK
  <1> QED BY <1>2, <1>3, <1>4 DEF TypeOK, Active

LEMMA CommitType ==
  ASSUME TypeOK, NEW c \in Calls, Active(c), Commit(c)
  PROVE  /\ effects' \in [Keys -> [Payloads -> Nat]]
         /\ \A k \in Keys, p \in Payloads :
              effects'[k][p] = IF k = call[c].key /\ p = call[c].payload
                               THEN effects[k][p] + 1 ELSE effects[k][p]
  <1>1. call[c].key \in Keys /\ call[c].payload \in Payloads  BY CallTypes
  <1> QED BY <1>1 DEF TypeOK, Commit

-----------------------------------------------------------------------------
(* Types. *)

LEMMA ToldType ==
  ASSUME TypeOK, NEW k \in Keys, NEW p, NEW what \in {"ok", "final"}, Told(k, p, what)
  PROVE  answer' \in [Keys -> {"none", "ok", "final"}]
  BY DEF TypeOK, Told

LEMMA BeginType ==
  ASSUME TypeOK, NEW c \in Calls, NEW k \in Keys, NEW p \in Payloads, BeginMutation(c, k, p),
         strays' \in 0..MaxStrays
  PROVE  TypeOK'
  <1>1. /\ lastSeen' \in [Keys -> {"fresh", "stale"}] /\ dead' \subseteq Calls
        /\ effects' = effects /\ faults' = faults
    BY DEF BeginMutation, TypeOK, SeenAfterUpsert
  <1>2. /\ row' \in [Keys -> Statuses] /\ hash' \in [Keys -> Payloads \cup {None}]
        /\ call' \in [Calls -> {Idle} \cup InCall]
    <2>1. [at |-> "handler", key |-> k, payload |-> p] \in InCall  BY DEF InCall
    <2>2. CASE Claim(c, k, p)  BY <2>1, <2>2 DEF Claim, TypeOK, Statuses
    <2>3. CASE Mismatch(c, k, p)  BY <2>3 DEF Mismatch, TypeOK, Statuses
    <2>4. CASE Replay(c, k, p) \/ Busy(c, k, p) \/ Refuse(c, k, p)
      BY <2>4 DEF Replay, Busy, Refuse, TypeOK
    <2> QED BY <2>2, <2>3, <2>4 DEF BeginMutation
  <1>3. answer' \in [Keys -> {"none", "ok", "final"}]
    BY ToldType DEF BeginMutation, Claim, Replay, Mismatch, Busy, Refuse, TypeOK
  <1> QED BY <1>1, <1>2, <1>3 DEF TypeOK

LEMMA FailedType ==
  ASSUME TypeOK, NEW k \in Keys
  PROVE  Failed(k) \in [Keys -> Statuses]
  BY DEF TypeOK, Failed, Statuses

LEMMA ServeType ==
  ASSUME TypeOK, NEW c \in Calls,
         \/ Serve(c) \/ HandlerUnavailable(c) \/ HandlerTimesOut(c)
         \/ FinalizeFails(c) \/ ContextDies(c) \/ Crash(c)
  PROVE  TypeOK'
  <1> USE LedgerLimits
  <1>0. Active(c) => call[c].key \in Keys /\ call[c].payload \in Payloads  BY CallTypes
  <1>1. Active(c)
    BY CallTypes DEF Serve, HandlerSucceeds, HandlerRejects, MarkSucceeded, MarkFailed,
       MarkAbandoned, HandlerUnavailable, HandlerTimesOut, FinalizeFails, ContextDies, Crash, Active
  <1>2. CASE HandlerSucceeds(c)
    <2>1. effects' \in [Keys -> [Payloads -> Nat]]  BY <1>1, <1>2, CommitType DEF HandlerSucceeds
    <2>2. call' \in [Calls -> {Idle} \cup InCall]   BY <1>1, <1>2, CallMoves DEF HandlerSucceeds
    <2> QED BY <1>2, <2>1, <2>2 DEF HandlerSucceeds, TypeOK
  <1>3. CASE HandlerRejects(c)
    <2>1. call' \in [Calls -> {Idle} \cup InCall]   BY <1>1, <1>3, CallMoves DEF HandlerRejects
    <2> QED BY <1>3, <2>1 DEF HandlerRejects, TypeOK
  <1>4. CASE HandlerUnavailable(c) \/ HandlerTimesOut(c)
    <2>1. effects' \in [Keys -> [Payloads -> Nat]]
      BY <1>1, <1>4, CommitType DEF HandlerUnavailable, HandlerTimesOut, TypeOK
    <2>2. call' \in [Calls -> {Idle} \cup InCall]
      BY <1>1, <1>4, CallMoves, CallLeaves DEF HandlerUnavailable, HandlerTimesOut
    <2> QED BY <1>4, <2>1, <2>2 DEF HandlerUnavailable, HandlerTimesOut, TypeOK
  <1>5. CASE MarkSucceeded(c)
    <2>1. row' \in [Keys -> Statuses] /\ lastSeen' \in [Keys -> {"fresh", "stale"}]
      BY <1>0, <1>1, <1>5 DEF MarkSucceeded, TypeOK, Statuses
    <2> QED BY <1>0, <1>1, <1>5, <2>1, ToldType, CallLeaves DEF MarkSucceeded, TypeOK
  <1>6. CASE MarkFailed(c)
    <2>1. row' \in [Keys -> Statuses] /\ lastSeen' \in [Keys -> {"fresh", "stale"}]
      BY <1>0, <1>1, <1>6, FailedType DEF MarkFailed, TypeOK
    <2> QED BY <1>0, <1>1, <1>6, <2>1, ToldType, CallLeaves DEF MarkFailed, TypeOK
  <1>7. CASE FinalizeFails(c)
    <2>1. row' \in [Keys -> Statuses] /\ lastSeen' \in [Keys -> {"fresh", "stale"}]
      BY <1>0, <1>1, <1>7, FailedType DEF FinalizeFails, TypeOK
    <2> QED BY <1>0, <1>1, <1>7, <2>1, ToldType, CallLeaves DEF FinalizeFails, TypeOK
  <1>8. CASE ContextDies(c)  BY <1>8 DEF ContextDies, TypeOK
  <1>9. CASE MarkAbandoned(c) \/ Crash(c)
    BY <1>9, CallLeaves DEF MarkAbandoned, Crash, TypeOK
  <1> QED BY <1>2, <1>3, <1>4, <1>5, <1>6, <1>7, <1>8, <1>9 DEF Serve

LEMMA TypeStep == TypeOK /\ [Next]_vars => TypeOK'
  <1> SUFFICES ASSUME TypeOK, [Next]_vars PROVE TypeOK'
    OBVIOUS
  <1>1. ASSUME NEW c \in Calls, NEW k \in Keys, Request(c, k) PROVE TypeOK'
    BY <1>1, BeginType, LedgerSets DEF Request, TypeOK
  <1>2. ASSUME NEW c \in Calls, NEW k \in Keys, NEW p \in Payloads, StrayRequest(c, k, p) PROVE TypeOK'
    <2>1. strays' \in 0..MaxStrays  BY <1>2, LedgerLimits DEF StrayRequest, TypeOK
    <2> QED BY <1>2, <2>1, BeginType DEF StrayRequest
  <1>3. ASSUME NEW k \in Keys, IdleWindowPasses(k) PROVE TypeOK'
    BY <1>3 DEF IdleWindowPasses, TypeOK
  <1>4. CASE UNCHANGED vars  BY <1>4 DEF vars, TypeOK
  <1> QED BY <1>1, <1>2, <1>3, <1>4, ServeType DEF Next

\* Every reachable state of the ledger is well typed: rows only carry statuses
\* the table's CHECK admits, and a call holds a key and a payload.
THEOREM TypeCorrect == Spec => []TypeOK
  <1>1. Init => TypeOK
    BY LedgerLimits DEF Init, TypeOK, Statuses
  <1> QED BY <1>1, TypeStep, PTL DEF Spec

-----------------------------------------------------------------------------
(* One effect per key. *)

\* A key is held by one call, which the row still remembers.
OneCallPerKey ==
  /\ \A c, d \in Calls : Active(c) /\ Active(d) /\ call[c].key = call[d].key => c = d
  /\ \A c \in Calls : Active(c) => /\ row[call[c].key] # "absent"
                                   /\ hash[call[c].key] = call[c].payload

\* Nothing is committed under a key without a row, or while its handler runs.
NoEarlyEffect ==
  /\ \A k \in Keys : row[k] = "absent" => \A p \in Payloads : effects[k][p] = 0
  /\ \A c \in Calls : call[c].at = "handler" =>
       \A p \in Payloads : effects[call[c].key][p] = 0

\* What is committed under a key is the row's payload, once.
OneEffect == \A k \in Keys, p \in Payloads :
               effects[k][p] <= 1 /\ (effects[k][p] > 0 => p = hash[k])

\* A returned response, a stored one and a success the machine heard of stand
\* for a commit.
ResponseCommitted ==
  /\ \A c \in Calls : call[c].at = "done" => effects[call[c].key][call[c].payload] = 1
  /\ \A k \in Keys : row[k] = "succeeded" => /\ hash[k] \in Payloads
                                             /\ effects[k][hash[k]] = 1
  /\ OkIsCommitted

\* The inductive invariant.
LInv == TypeOK /\ OneCallPerKey /\ NoEarlyEffect /\ OneEffect /\ ResponseCommitted

\* BeginMutation claims a key nobody has, or leaves the calls alone.
LEMMA BeginKeeps ==
  ASSUME LInv, NEW c \in Calls, NEW k \in Keys, NEW p \in Payloads, BeginMutation(c, k, p), TypeOK'
  PROVE  LInv'
  <1> USE DEF LInv, TypeOK
  <1>0. ~Reclaimable(k) /\ effects' = effects /\ ~Active(c)
    BY NothingReclaimable DEF BeginMutation, Active
  <1>1. CASE Claim(c, k, p)
    <2>1. /\ row[k] = "absent" /\ row' = [row EXCEPT ![k] = "in_progress"]
          /\ hash' = [hash EXCEPT ![k] = p] /\ answer' = answer
          /\ call' = [call EXCEPT ![c] = [at |-> "handler", key |-> k, payload |-> p]]
      BY <1>0, <1>1 DEF Claim
    <2>2. \A d \in Calls : Active(d) => d # c /\ call'[d] = call[d] /\ call[d].key # k
      BY <1>0, <2>1 DEF OneCallPerKey
    <2>3. \A d \in Calls : Active(d)' => d = c \/ Active(d)
      BY <2>1 DEF Active
    <2>4. OneCallPerKey'
      <3>1. \A d \in Calls : Active(d)' /\ call'[d].key = k => d = c
        BY <2>1, <2>2, <2>3
      <3>2. \A d \in Calls : Active(d)' => row'[call'[d].key] # "absent" /\ hash'[call'[d].key] = call'[d].payload
        BY <2>1, <2>2, <2>3, CallTypes DEF OneCallPerKey
      <3> QED BY <2>1, <2>2, <2>3, <3>1, <3>2 DEF OneCallPerKey
    <2>5. NoEarlyEffect'
      BY <1>0, <2>1, <2>2, <2>3, CallTypes DEF NoEarlyEffect
    <2>6. OneEffect'  BY <1>0, <2>1 DEF OneEffect, NoEarlyEffect
    <2>7. ResponseCommitted'
      BY <1>0, <2>1, <2>2, <2>3 DEF ResponseCommitted, OkIsCommitted
    <2> QED BY <2>4, <2>5, <2>6, <2>7
  <1>2. CASE Replay(c, k, p)
    <2>1. UNCHANGED <<row, hash, call>>  BY <1>2 DEF Replay
    <2>2. OkIsCommitted'
      BY <1>0, <1>2, LedgerSets DEF Replay, Told, ResponseCommitted, OkIsCommitted
    <2> QED BY <1>0, <2>1, <2>2
      DEF OneCallPerKey, NoEarlyEffect, OneEffect, ResponseCommitted, Active
  <1>3. CASE Mismatch(c, k, p) \/ Busy(c, k, p) \/ Refuse(c, k, p)
    <2>1. UNCHANGED <<hash, call>>  BY <1>3 DEF Mismatch, Busy, Refuse
    <2>2. row[k] # "absent"  BY <1>3 DEF Mismatch, Busy, Refuse
    <2>3. row' = row \/ row' = [row EXCEPT ![k] = "conflict"]
      BY <1>3 DEF Mismatch, Busy, Refuse
    <2>4. OkIsCommitted'
      BY <1>0, <1>3 DEF Mismatch, Busy, Refuse, Told, ResponseCommitted, OkIsCommitted
    <2> QED BY <1>0, <2>1, <2>2, <2>3, <2>4, CallTypes
      DEF OneCallPerKey, NoEarlyEffect, OneEffect, ResponseCommitted, Active
  <1> QED BY <1>1, <1>2, <1>3 DEF BeginMutation

\* A call that ends without writing the row takes no fact with it.
LEMMA LeavingKeeps ==
  ASSUME LInv, NEW c \in Calls, call' = [call EXCEPT ![c] = Idle], TypeOK',
         UNCHANGED <<row, hash, effects>>, OkIsCommitted'
  PROVE  LInv'
  BY CallLeaves, CallTypes
    DEF LInv, OneCallPerKey, NoEarlyEffect, OneEffect, ResponseCommitted, Active, Idle

\* The handler commits, or fails without: its key had no effect before.
LEMMA HandlerKeeps ==
  ASSUME LInv, NEW c \in Calls, TypeOK',
         \/ HandlerSucceeds(c) \/ HandlerRejects(c) \/ HandlerUnavailable(c) \/ HandlerTimesOut(c)
  PROVE  LInv'
  <1> DEFINE k == call[c].key
             p == call[c].payload
  <1>0. /\ Active(c) /\ call[c].at = "handler" /\ k \in Keys /\ p \in Payloads
        /\ UNCHANGED <<row, hash, answer>>
    BY CallTypes DEF LInv, HandlerSucceeds, HandlerRejects, HandlerUnavailable, HandlerTimesOut
  <1>1. /\ row[k] # "absent" /\ hash[k] = p
        /\ \A q \in Payloads : effects[k][q] = 0
        /\ \A d \in Calls : Active(d) /\ d # c => call[d].key # k
    BY <1>0 DEF LInv, OneCallPerKey, NoEarlyEffect
  <1>2. \A d \in Calls : /\ Active(d)' => Active(d) /\ (d # c => call'[d] = call[d])
                         /\ Active(d)' /\ d = c =>
                              /\ call'[c].key = k /\ call'[c].payload = p
                              /\ call'[c].at \in {"done", "definitive"}
                              /\ call'[c].at = "done" => Commit(c)
    <2>1. ASSUME NEW at \in {"done", "definitive"}, call' = [call EXCEPT ![c].at = at]
          PROVE  /\ call'[c].at = at /\ call'[c].key = k /\ call'[c].payload = p
                 /\ \A d \in Calls : Active(d)' => Active(d) /\ (d # c => call'[d] = call[d])
      <3>1. TypeOK  BY DEF LInv
      <3>2. /\ call'[c] = [at |-> at, key |-> call[c].key, payload |-> call[c].payload]
            /\ \A d \in Calls : Active(d)' => Active(d) /\ (d # c => call'[d] = call[d])
        BY <1>0, <2>1, <3>1, CallMoves
      <3> QED BY <3>2
    <2>2. CASE HandlerSucceeds(c)
      <3>1. call' = [call EXCEPT ![c].at = "done"] /\ Commit(c)  BY <2>2 DEF HandlerSucceeds
      <3> HIDE DEF k, p
      <3> QED BY <2>1, <3>1
    <2>3. CASE HandlerRejects(c) \/ HandlerTimesOut(c)
      <3>1. call' = [call EXCEPT ![c].at = "definitive"]  BY <2>3 DEF HandlerRejects, HandlerTimesOut
      <3> HIDE DEF k, p
      <3> QED BY <2>1, <3>1
    <2>4. CASE HandlerUnavailable(c)  BY <2>4, CallLeaves DEF LInv, HandlerUnavailable
    <2> QED BY <2>2, <2>3, <2>4
  <1>3. /\ \A j \in Keys, q \in Payloads :
              effects'[j][q] = effects[j][q] \/ (j = k /\ q = p /\ effects'[j][q] = 1)
        /\ Commit(c) => effects'[k][p] = 1
    <2>1. Commit(c) \/ effects' = effects
      BY DEF HandlerSucceeds, HandlerRejects, HandlerUnavailable, HandlerTimesOut
    <2> QED BY <1>0, <1>1, <2>1, CommitType DEF LInv
  <1> HIDE DEF k, p
  <1>4. OneCallPerKey'
    BY <1>0, <1>1, <1>2 DEF LInv, OneCallPerKey, k, p
  <1>5. NoEarlyEffect'
    <2>1. \A j \in Keys : row'[j] = "absent" => \A q \in Payloads : effects'[j][q] = 0
      BY <1>0, <1>1, <1>3 DEF LInv, NoEarlyEffect
    <2>2. ASSUME NEW d \in Calls, call'[d].at = "handler", NEW q \in Payloads
          PROVE  effects'[call'[d].key][q] = 0
      <3>1. Active(d)' /\ d # c
        BY <1>2, <2>2 DEF Active, Idle
      <3>2. call'[d] = call[d] /\ call[d].key # k /\ call[d].key \in Keys
        BY <1>1, <1>2, <3>1, CallTypes DEF LInv
      <3> QED BY <1>3, <2>2, <3>2 DEF LInv, NoEarlyEffect
    <2> QED BY <2>1, <2>2 DEF NoEarlyEffect
  <1>6. OneEffect'
    BY <1>0, <1>1, <1>3 DEF LInv, OneEffect
  <1>7. ResponseCommitted'
    <2>1. ASSUME NEW d \in Calls, call'[d].at = "done"
          PROVE  effects'[call'[d].key][call'[d].payload] = 1
      <3>1. Active(d)'  BY <2>1 DEF Active, Idle
      <3>2. CASE d = c  BY <1>2, <1>3, <2>1, <3>1, <3>2
      <3>3. CASE d # c
        <4>1. /\ call'[d] = call[d] /\ call[d].key # k
              /\ call[d].key \in Keys /\ call[d].payload \in Payloads
          BY <1>1, <1>2, <3>1, <3>3, CallTypes DEF LInv
        <4> QED BY <1>3, <2>1, <4>1 DEF LInv, ResponseCommitted
      <3> QED BY <3>2, <3>3
    <2>2. \A j \in Keys : row'[j] = "succeeded" => hash'[j] \in Payloads /\ effects'[j][hash'[j]] = 1
      BY <1>0, <1>1, <1>3 DEF LInv, ResponseCommitted
    <2>3. OkIsCommitted'
      BY <1>0, <1>3, LedgerSets DEF LInv, ResponseCommitted, OkIsCommitted
    <2> QED BY <2>1, <2>2, <2>3 DEF ResponseCommitted
  <1> QED BY <1>4, <1>5, <1>6, <1>7 DEF LInv

\* The marks: the row gets the status of the one call that holds its key.
LEMMA MarkKeeps ==
  ASSUME LInv, NEW c \in Calls, TypeOK',
         MarkSucceeded(c) \/ MarkFailed(c) \/ FinalizeFails(c)
  PROVE  LInv'
  <1> DEFINE k == call[c].key
             p == call[c].payload
  <1>0. /\ Active(c) /\ k \in Keys /\ p \in Payloads
        /\ call' = [call EXCEPT ![c] = Idle] /\ UNCHANGED <<hash, effects>>
    BY CallTypes DEF LInv, MarkSucceeded, MarkFailed, FinalizeFails
  <1>1. row[k] # "absent" /\ hash[k] = p
    BY <1>0 DEF LInv, OneCallPerKey
  <1>2. \/ /\ row' = [row EXCEPT ![k] = "succeeded"] /\ Told(k, p, "ok")
           /\ effects[k][p] = 1
        \/ /\ row' = row \/ row' = [row EXCEPT ![k] = "failed"]
           /\ Told(k, p, "final")
    BY DEF LInv, ResponseCommitted, MarkSucceeded, MarkFailed, FinalizeFails, Failed
  <1> HIDE DEF k, p
  <1>3. \A d \in Calls : Active(d)' => Active(d) /\ d # c /\ call'[d] = call[d]
    BY <1>0, CallLeaves DEF LInv
  <1>4. OneCallPerKey'
    BY <1>0, <1>2, <1>3, CallTypes DEF LInv, TypeOK, OneCallPerKey
  <1>5. NoEarlyEffect'
    <2>1. \A j \in Keys : row'[j] = "absent" => row[j] = "absent"
      BY <1>0, <1>2 DEF LInv, TypeOK
    <2>2. \A d \in Calls : call'[d].at = "handler" => call'[d] = call[d]
      BY <1>3 DEF Active, Idle
    <2> QED BY <1>0, <2>1, <2>2 DEF LInv, NoEarlyEffect
  <1>6. OneEffect'
    BY <1>0 DEF LInv, OneEffect
  <1>7. ResponseCommitted'
    <2>1. OkIsCommitted'
      BY <1>0, <1>2 DEF LInv, TypeOK, Told, ResponseCommitted, OkIsCommitted
    <2>2. \A j \in Keys : row'[j] = "succeeded" => hash'[j] \in Payloads /\ effects'[j][hash'[j]] = 1
      BY <1>0, <1>1, <1>2 DEF LInv, TypeOK, ResponseCommitted
    <2> QED BY <1>0, <1>3, <2>1, <2>2 DEF LInv, ResponseCommitted, Active, Idle
  <1> QED BY <1>4, <1>5, <1>6, <1>7 DEF LInv

LEMMA LInvStep == LInv /\ [Next]_vars => LInv'
  <1> SUFFICES ASSUME LInv, [Next]_vars PROVE LInv'
    OBVIOUS
  <1>0. TypeOK'  BY TypeStep DEF LInv
  <1>1. ASSUME NEW c \in Calls, NEW k \in Keys, Request(c, k) PROVE LInv'
    BY <1>0, <1>1, BeginKeeps, LedgerSets DEF Request
  <1>2. ASSUME NEW c \in Calls, NEW k \in Keys, NEW p \in Payloads, StrayRequest(c, k, p) PROVE LInv'
    BY <1>0, <1>2, BeginKeeps DEF StrayRequest
  <1>3. ASSUME NEW c \in Calls, MarkAbandoned(c) \/ Crash(c) PROVE LInv'
    <2>1. /\ call' = [call EXCEPT ![c] = Idle] /\ UNCHANGED <<row, hash, effects, answer>>
      BY <1>3 DEF MarkAbandoned, Crash
    <2>2. OkIsCommitted'  BY <2>1 DEF LInv, ResponseCommitted, OkIsCommitted
    <2> QED BY <1>0, <2>1, <2>2, LeavingKeeps
  <1>4. ASSUME UNCHANGED <<row, hash, call, effects, answer>> PROVE LInv'
    BY <1>0, <1>4 DEF LInv, OneCallPerKey, NoEarlyEffect, OneEffect, ResponseCommitted,
       OkIsCommitted, Active
  <1>5. ASSUME NEW c \in Calls, ContextDies(c) PROVE LInv'  BY <1>4, <1>5 DEF ContextDies
  <1>6. ASSUME NEW k \in Keys, IdleWindowPasses(k) PROVE LInv'  BY <1>4, <1>6 DEF IdleWindowPasses
  <1>7. CASE UNCHANGED vars  BY <1>4, <1>7 DEF vars
  <1> QED BY <1>0, <1>1, <1>2, <1>3, <1>5, <1>6, <1>7, HandlerKeeps, MarkKeeps DEF Next, Serve

LEMMA LInvAlways == Spec => []LInv
  <1>1. Init => LInv
    BY LedgerLimits DEF Init, LInv, TypeOK, Statuses, OneCallPerKey, NoEarlyEffect, OneEffect,
       ResponseCommitted, OkIsCommitted, Active, Idle
  <1> QED BY <1>1, LInvStep, PTL DEF Spec

\* Under one idempotency key the ledger lets at most one handler commit, for one
\* payload, for any number of concurrent retries, crashes and reused keys.
THEOREM OneEffectPerKey == Spec => []AtMostOnce
  <1>1. LInv => AtMostOnce
    <2> SUFFICES ASSUME LInv, NEW k \in Keys
                 PROVE  /\ \A p \in Payloads : effects[k][p] <= 1
                        /\ Cardinality({p \in Payloads : effects[k][p] > 0}) <= 1
      BY DEF AtMostOnce
    <2> DEFINE S == {p \in Payloads : effects[k][p] > 0}
    <2>1. S \subseteq {hash[k]}  BY DEF LInv, OneEffect
    <2>2. IsFiniteSet({hash[k]}) /\ Cardinality({hash[k]}) = 1  BY FS_Singleton
    <2>3. Cardinality(S) <= 1  BY <2>1, <2>2, FS_Subset
    <2> QED BY <2>3 DEF LInv, OneEffect
  <1> QED BY <1>1, LInvAlways, PTL

\* A machine told that its request succeeded had its own payload committed,
\* also when BeginMutation replayed the response of an earlier call.
THEOREM AnswersAreTrue == Spec => []OkIsCommitted
  <1>1. LInv => OkIsCommitted  BY DEF LInv, ResponseCommitted
  <1> QED BY <1>1, LInvAlways, PTL

-----------------------------------------------------------------------------
(* A spent key has done nothing, as long as no fault and no reused key interferes. *)

Clean == faults = 0 /\ strays = 0

\* The row of a key is the one request's that owns it: its payload is the
\* intended one and it stays in progress while a call holds the key.
RowFollowsCall ==
  /\ \A k \in Keys : row[k] # "absent" => hash[k] = Intended[k]
  /\ \A c \in Calls : Active(c) => row[call[c].key] = "in_progress"

\* A definitive error, a failed row and a key reported as spent have no effect.
SpentWithoutEffect ==
  /\ \A c \in Calls : call[c].at = "definitive" =>
       \A p \in Payloads : effects[call[c].key][p] = 0
  /\ \A k \in Keys : row[k] = "failed" => \A p \in Payloads : effects[k][p] = 0
  /\ \A k \in Keys : row[k] # "conflict"
  /\ \A k \in Keys : answer[k] = "final" => row[k] = "failed"

\* The replacement of a key is used only after the key is spent.
InTurn == \A k \in Keys : row[k] # "absent" /\ After[k] # None => answer[After[k]] = "final"

CInv == Clean => RowFollowsCall /\ SpentWithoutEffect /\ InTurn

LEMMA CleanBefore ==
  ASSUME LInv, [Next]_vars, Clean'
  PROVE  /\ Clean
         /\ \/ \E c \in Calls, k \in Keys : Request(c, k)
            \/ \E c \in Calls : Serve(c)
            \/ UNCHANGED <<row, hash, call, effects, answer>>
  <1> USE DEF LInv, TypeOK, Clean
  <1>1. ASSUME NEW c \in Calls, NEW k \in Keys, Request(c, k) PROVE Clean
    BY <1>1 DEF Request, BeginMutation
  <1>2. ASSUME NEW c \in Calls, NEW k \in Keys, NEW p \in Payloads PROVE ~StrayRequest(c, k, p)
    BY <1>2, LedgerLimits DEF StrayRequest
  <1>3. ASSUME NEW c \in Calls, Serve(c) PROVE Clean
    BY <1>3 DEF Serve, HandlerSucceeds, HandlerRejects, MarkSucceeded, MarkFailed, MarkAbandoned
  <1>4. ASSUME NEW c \in Calls
        PROVE  ~(\/ HandlerUnavailable(c) \/ HandlerTimesOut(c) \/ FinalizeFails(c)
                 \/ ContextDies(c) \/ Crash(c))
    BY <1>4, LedgerLimits
      DEF HandlerUnavailable, HandlerTimesOut, FinalizeFails, ContextDies, Crash
  <1>5. ASSUME NEW k \in Keys, IdleWindowPasses(k)
        PROVE  Clean /\ UNCHANGED <<row, hash, call, effects, answer>>
    BY <1>5 DEF IdleWindowPasses
  <1>6. CASE UNCHANGED vars  BY <1>6 DEF vars
  <1> QED BY <1>1, <1>2, <1>3, <1>4, <1>5, <1>6 DEF Next

LEMMA CleanRequest ==
  ASSUME LInv, RowFollowsCall, SpentWithoutEffect, InTurn, NEW c \in Calls, NEW k \in Keys, Request(c, k)
  PROVE  RowFollowsCall' /\ SpentWithoutEffect' /\ InTurn'
  <1> DEFINE p == Intended[k]
  <1>0. /\ ~Reclaimable(k) /\ effects' = effects /\ ~Active(c) /\ p \in Payloads
        /\ answer[k] = "none" /\ BeginMutation(c, k, p)
        /\ After[k] # None => answer[After[k]] = "final"
    BY NothingReclaimable, LedgerSets DEF Request, BeginMutation, Active
  <1> HIDE DEF p
  <1>1. CASE Claim(c, k, p)
    <2>1. /\ row[k] = "absent" /\ row' = [row EXCEPT ![k] = "in_progress"]
          /\ hash' = [hash EXCEPT ![k] = p] /\ answer' = answer
          /\ call' = [call EXCEPT ![c] = [at |-> "handler", key |-> k, payload |-> p]]
      BY <1>0, <1>1 DEF Claim
    <2>2. \A d \in Calls : d # c => call'[d] = call[d] /\ (Active(d) => call[d].key \in Keys /\ call[d].key # k)
      BY <2>1, CallTypes DEF LInv, TypeOK, RowFollowsCall
    <2>3. call'[c].at = "handler" /\ call'[c].key = k
      BY <2>1 DEF LInv, TypeOK
    <2>4. RowFollowsCall'
      BY <2>1, <2>2, <2>3 DEF LInv, TypeOK, RowFollowsCall, Active, p
    <2>5. SpentWithoutEffect'
      BY <1>0, <2>1, <2>2, <2>3 DEF LInv, TypeOK, SpentWithoutEffect
    <2>6. InTurn'
      BY <1>0, <2>1 DEF LInv, TypeOK, InTurn
    <2> QED BY <2>4, <2>5, <2>6
  <1>2. CASE Replay(c, k, p) \/ Busy(c, k, p)
    <2>1. UNCHANGED <<row, hash, call>> /\ (answer' = answer \/ answer' = [answer EXCEPT ![k] = "ok"])
      BY <1>2 DEF Replay, Busy, Told
    <2>2. RowFollowsCall' /\ SpentWithoutEffect'
      BY <1>0, <2>1 DEF LInv, TypeOK, RowFollowsCall, SpentWithoutEffect, Active
    <2>3. InTurn'
      BY <1>0, <2>1, ReplacementKeys DEF LInv, TypeOK, InTurn, None
    <2> QED BY <2>2, <2>3
  <1>3. ~Mismatch(c, k, p)
    BY DEF Mismatch, RowFollowsCall, p
  <1>4. CASE Refuse(c, k, p)
    <2>1. UNCHANGED <<row, hash, call>> /\ answer' = [answer EXCEPT ![k] = "final"] /\ row[k] = "failed"
      BY <1>4 DEF Refuse, Told, SpentWithoutEffect, p
    <2>2. RowFollowsCall' /\ SpentWithoutEffect'
      BY <1>0, <2>1 DEF LInv, TypeOK, RowFollowsCall, SpentWithoutEffect, Active
    <2>3. InTurn'
      BY <1>0, <2>1, ReplacementKeys DEF LInv, TypeOK, InTurn, None
    <2> QED BY <2>2, <2>3
  <1> QED BY <1>0, <1>1, <1>2, <1>3, <1>4 DEF BeginMutation

LEMMA CleanServe ==
  ASSUME LInv, LInv', RowFollowsCall, SpentWithoutEffect, InTurn, NEW c \in Calls, Serve(c)
  PROVE  RowFollowsCall' /\ SpentWithoutEffect' /\ InTurn'
  <1> DEFINE k == call[c].key
  <1>0. Active(c) /\ k \in Keys /\ call[c].payload \in Payloads
    BY CallTypes DEF LInv, Serve, HandlerSucceeds, HandlerRejects, MarkSucceeded, MarkFailed, MarkAbandoned
  <1>1. /\ row[k] = "in_progress" /\ hash[k] = call[c].payload /\ call[c].payload = Intended[k]
        /\ answer[k] # "final"
        /\ \A d \in Calls : Active(d) /\ d # c => call[d].key # k
    BY <1>0 DEF LInv, OneCallPerKey, RowFollowsCall, SpentWithoutEffect
  <1>2. ASSUME NEW at \in {"done", "definitive"},
               call'[c] = [at |-> at, key |-> k, payload |-> call[c].payload],
               \A d \in Calls : Active(d)' => Active(d) /\ (d # c => call'[d] = call[d]),
               call[c].at = "handler", row' = row, hash' = hash, answer' = answer,
               \A j \in Keys, q \in Payloads : j # k => effects'[j][q] = effects[j][q],
               at = "definitive" => effects' = effects
        PROVE  RowFollowsCall' /\ SpentWithoutEffect' /\ InTurn'
    <2>1. TypeOK  BY DEF LInv
    <2> HIDE DEF k
    <2>2. RowFollowsCall'
      BY <1>1, <1>2 DEF RowFollowsCall, k
    <2>3. SpentWithoutEffect'
      <3>1. ASSUME NEW d \in Calls, call'[d].at = "definitive", NEW q \in Payloads
            PROVE  effects'[call'[d].key][q] = 0
        <4>1. Active(d)'  BY <3>1 DEF Active, Idle
        <4>2. CASE d = c
          <5>1. effects' = effects /\ call'[d].key = k  BY <1>2, <3>1, <4>2
          <5> QED BY <1>2, <5>1 DEF LInv, NoEarlyEffect, k
        <4>3. CASE d # c
          <5>1. call'[d] = call[d] /\ call[d].key # k /\ call[d].key \in Keys
            BY <1>1, <1>2, <2>1, <4>1, <4>3, CallTypes
          <5> QED BY <1>2, <3>1, <5>1 DEF SpentWithoutEffect
        <4> QED BY <4>2, <4>3
      <3>2. \A j \in Keys : row'[j] = "failed" => j # k
        BY <1>1, <1>2 DEF k
      <3> QED BY <1>2, <3>1, <3>2 DEF SpentWithoutEffect
    <2>4. InTurn'  BY <1>2 DEF InTurn
    <2> QED BY <2>2, <2>3, <2>4
  <1>3. CASE MarkSucceeded(c) \/ MarkFailed(c) \/ MarkAbandoned(c)
    <2>1. call' = [call EXCEPT ![c] = Idle] /\ UNCHANGED <<hash, effects>>
      BY <1>3 DEF MarkSucceeded, MarkFailed, MarkAbandoned
    <2>2. \/ UNCHANGED <<row, answer>>
          \/ row' = [row EXCEPT ![k] = "succeeded"] /\ answer' = [answer EXCEPT ![k] = "ok"]
          \/ /\ row' = [row EXCEPT ![k] = "failed"] /\ answer' = [answer EXCEPT ![k] = "final"]
             /\ \A q \in Payloads : effects[k][q] = 0
      BY <1>1, <1>3 DEF MarkSucceeded, MarkFailed, MarkAbandoned, Told, Failed, SpentWithoutEffect
    <2>3. \A d \in Calls : Active(d)' => Active(d) /\ d # c /\ call'[d] = call[d]
      BY <2>1, CallLeaves DEF LInv
    <2> HIDE DEF k
    <2>4. RowFollowsCall'
      <3>1. \A j \in Keys : j # k => row'[j] = row[j]  BY <1>0, <2>2 DEF LInv, TypeOK
      <3>2. \A d \in Calls : Active(d)' => call'[d] = call[d] /\ call[d].key \in Keys /\ call[d].key # k
        BY <1>1, <2>3, CallTypes DEF LInv
      <3> QED BY <1>1, <2>1, <2>3, <3>1, <3>2 DEF RowFollowsCall
    <2>5. SpentWithoutEffect'
      <3>1. \A d \in Calls : call'[d].at = "definitive" => call'[d] = call[d]
        BY <2>3 DEF Active, Idle
      <3>2. \A j \in Keys : /\ row'[j] = "failed" => \A q \in Payloads : effects'[j][q] = 0
                            /\ row'[j] # "conflict"
                            /\ answer'[j] = "final" => row'[j] = "failed"
        BY <1>0, <2>1, <2>2 DEF LInv, TypeOK, SpentWithoutEffect
      <3> QED BY <2>1, <3>1, <3>2 DEF SpentWithoutEffect
    <2>6. InTurn'
      BY <1>0, <1>1, <2>2, ReplacementKeys DEF LInv, TypeOK, InTurn, None
    <2> QED BY <2>4, <2>5, <2>6
  <1>4. CASE HandlerSucceeds(c)
    <2>1. /\ call'[c] = [at |-> "done", key |-> k, payload |-> call[c].payload]
          /\ \A d \in Calls : Active(d)' => Active(d) /\ (d # c => call'[d] = call[d])
      BY <1>0, <1>4, CallMoves DEF HandlerSucceeds, LInv
    <2>2. \A j \in Keys, q \in Payloads : j # k => effects'[j][q] = effects[j][q]
      BY <1>0, <1>4, CommitType DEF HandlerSucceeds, LInv
    <2> QED BY <1>2, <1>4, <2>1, <2>2 DEF HandlerSucceeds
  <1>5. CASE HandlerRejects(c)
    <2>1. /\ call'[c] = [at |-> "definitive", key |-> k, payload |-> call[c].payload]
          /\ \A d \in Calls : Active(d)' => Active(d) /\ (d # c => call'[d] = call[d])
      BY <1>0, <1>5, CallMoves DEF HandlerRejects, LInv
    <2> QED BY <1>2, <1>5, <2>1 DEF HandlerRejects
  <1> QED BY <1>3, <1>4, <1>5 DEF Serve

\* Told to use a new idempotency key, a machine that does so repeats a purchase
\* only after a fault, or a key reused for another payload, hid the first outcome.
THEOREM NewKeyIsSafe == Spec => []TwiceOnlyAfterFault
  <1>1. Init => CInv
    BY DEF Init, CInv, RowFollowsCall, SpentWithoutEffect, InTurn, Active, Idle
  <1>2. LInv /\ LInv' /\ CInv /\ [Next]_vars => CInv'
    <2> SUFFICES ASSUME LInv, LInv', CInv, [Next]_vars, Clean'
                 PROVE  RowFollowsCall' /\ SpentWithoutEffect' /\ InTurn'
      BY DEF CInv
    <2>1. Clean /\ RowFollowsCall /\ SpentWithoutEffect /\ InTurn  BY CleanBefore DEF CInv
    <2>2. CASE UNCHANGED <<row, hash, call, effects, answer>>
      BY <2>1, <2>2 DEF RowFollowsCall, SpentWithoutEffect, InTurn, Active
    <2> QED BY <2>1, <2>2, CleanBefore, CleanRequest, CleanServe
  <1>3. LInv /\ CInv => TwiceOnlyAfterFault
    <2> SUFFICES ASSUME LInv, CInv, NEW k \in Keys, After[k] # None, faults = 0, strays = 0,
                        effects[k][Intended[k]] > 0, effects[After[k]][Intended[k]] > 0
                 PROVE  FALSE
      BY DEF TwiceOnlyAfterFault, LInv, TypeOK
    <2>1. After[k] \in Keys /\ Intended[k] \in Payloads
      BY ReplacementKeys, LedgerSets DEF None
    <2>2. row[k] # "absent"  BY <2>1 DEF LInv, NoEarlyEffect
    <2>3. RowFollowsCall /\ SpentWithoutEffect /\ InTurn  BY DEF CInv, Clean
    <2>4. answer[After[k]] = "final"  BY <2>2, <2>3 DEF InTurn
    <2> QED BY <2>1, <2>3, <2>4 DEF SpentWithoutEffect
  <1> QED BY <1>1, <1>2, <1>3, LInvAlways, PTL DEF Spec
=============================================================================
