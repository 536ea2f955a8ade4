---------------------------- MODULE CommandProofs ----------------------------
(***************************************************************************)
(* Proofs about module CommandDispatch, for every number of commands,      *)
(* dispatch calls, replicas and receipt keys, every attempt ceiling and    *)
(* every capacity of the publish queue.                                    *)
(***************************************************************************)
EXTENDS CommandDispatch, SequenceTheorems, FiniteSetTheorems, TLAPS

-----------------------------------------------------------------------------
(* The inductive invariant. *)

Statuses == Open \cup Final
Ceiling == MaxAttempts + Cardinality(Callers)

\* The attempt of a job is in the ledger.
Exists(j) == j[2] \in 1..Len(attempts[j[1]])

\* A job is in a replica's hands only after its attempt was inserted.
JobsExist ==
  /\ \A r \in Replicas : \A j \in inflight[r] : Exists(j)
  /\ \A u \in Callers : call[u].at = "enqueue" => Exists(<<call[u].cmd, call[u].no>>)
  /\ \A j \in Jobs : ~Exists(j) => published[j] = 0
  /\ \A c \in offered : Len(attempts[c]) > 0

\* Calls that have counted the attempts of a command and not inserted theirs yet.
Inserting(c) == {u \in Callers : call[u].at = "insert" /\ call[u].cmd = c}

\* Such a call stands for an attempt to come.
CeilingInv ==
  \A c \in Commands : Len(attempts[c]) + Cardinality(Inserting(c)) < Ceiling

\* The tries of one loop of every replica; those that publishers of a job have made,
\* and those they may still make.
Tries == Replicas \X (1..PublishMaxAttempts)
Tried(j) == {t \in Tries : /\ work[t[1]].at # "idle" /\ work[t[1]].job = j
                           /\ t[2] <= work[t[1]].tries}
ToTry(j) == {t \in Tries : /\ work[t[1]].at = "publish" /\ work[t[1]].job = j
                           /\ ~(t[2] <= work[t[1]].tries)}

\* The tries of loops that were cut short, or whose mark was lost.
Lost == PublishMaxAttempts * faults

IsPending(j) == Exists(j) /\ Status(j) = "pending"

\* While an attempt is pending, each publish of it is a try of a loop that still owes
\* its mark, or that a fault has ended.  Afterwards nobody takes it up again.
PublishInv ==
  \A j \in Jobs :
    IF IsPending(j) THEN published[j] <= Cardinality(Tried(j)) + Lost
    ELSE published[j] + Cardinality(ToTry(j)) <= Cardinality(Tries) + Lost

\* A receipt is of a closed attempt, and the transaction writes the first of its attempt.
ReceiptInv ==
  /\ \A q \in receipts : /\ q.no \in 1..Len(attempts[q.cmd])
                         /\ attempts[q.cmd][q.no] \in Final
  /\ tx # Idle => /\ tx.no \in 1..Len(attempts[tx.msg.cmd])
                  /\ \A q \in receipts : ~(q.cmd = tx.msg.cmd /\ q.no = tx.no)

\* A call that is past the append, and an attempt, are of a command in the ledger.
LedgerInv ==
  /\ \A c \in Commands : Len(attempts[c]) > 0 => c \in ledger
  /\ \A u \in Callers : call[u].at \notin {"idle", "append"} => call[u].cmd \in ledger

DInv == /\ TypeOK /\ JobsExist /\ InFlightExact /\ LedgerInv /\ CeilingInv /\ PublishInv
        /\ ReceiptInv

-----------------------------------------------------------------------------
(* How the attempts of a command change. *)

\* Attempts are added at the end, a final one stays final and none is pending again.
Forward ==
  /\ attempts' \in [Commands -> Seq(Statuses)]
  /\ \A c \in Commands :
       /\ Len(attempts'[c]) >= Len(attempts[c])
       /\ \A n \in 1..Len(attempts[c]) :
            /\ attempts[c][n] \in Final => attempts'[c][n] \in Final
            /\ attempts'[c][n] = "pending" => attempts[c][n] = "pending"

SameLength == \A c \in Commands : Len(attempts'[c]) = Len(attempts[c])

LEMMA AttemptsType ==
  ASSUME TypeOK
  PROVE  /\ attempts \in [Commands -> Seq(Statuses)]
         /\ \A c \in Commands : /\ attempts[c] \in Seq(Statuses)
                                /\ Len(attempts[c]) \in Nat
                                /\ DOMAIN attempts[c] = 1..Len(attempts[c])
                                /\ \A n \in 1..Len(attempts[c]) : attempts[c][n] \in Statuses
  <1>1. attempts \in [Commands -> Seq(Statuses)]  BY DEF TypeOK, Statuses
  <1> QED BY <1>1, LenProperties, ElementOfSeq

LEMMA StatusFacts == /\ \A s \in Statuses : s \in Open <=> s \notin Final
                     /\ "pending" \notin Final /\ "sent" \notin Final
                     /\ Open \subseteq Statuses /\ Final \subseteq Statuses
  BY DEF Statuses, Open, Final

LEMMA CallersCount == Cardinality(Callers) \in Nat /\ Cardinality(Replicas) \in Nat /\ Ceiling \in Nat
  BY SetsAssumption, CommandLimits, FS_CardinalityType DEF Ceiling

LEMMA SameForward ==
  ASSUME TypeOK, attempts' = attempts
  PROVE  Forward /\ SameLength
  BY AttemptsType DEF Forward, SameLength

\* A command's attempts are rewritten one by one.
LEMMA RewriteForward ==
  ASSUME TypeOK, NEW f, attempts' = [c \in Commands |-> f[c]],
         \A c \in Commands :
           /\ f[c] \in Seq(Statuses) /\ Len(f[c]) = Len(attempts[c])
           /\ \A n \in 1..Len(attempts[c]) :
                f[c][n] = attempts[c][n] \/ (attempts[c][n] \in Open /\ f[c][n] \in Statuses \ {"pending"})
  PROVE  Forward /\ SameLength
  <1>1. attempts' \in [Commands -> Seq(Statuses)] /\ \A c \in Commands : attempts'[c] = f[c]
    OBVIOUS
  <1>2. SameLength  BY <1>1 DEF SameLength
  <1>3. ASSUME NEW c \in Commands, NEW n \in 1..Len(attempts[c])
        PROVE  /\ attempts[c][n] \in Final => attempts'[c][n] \in Final
               /\ attempts'[c][n] = "pending" => attempts[c][n] = "pending"
    BY <1>1, StatusFacts DEF Open, Final
  <1>4. \A c \in Commands : Len(attempts'[c]) >= Len(attempts[c])
    BY <1>2, AttemptsType DEF SameLength
  <1> QED BY <1>1, <1>2, <1>3, <1>4 DEF Forward

LEMMA SweptForward ==
  ASSUME TypeOK, attempts' = Swept
  PROVE  /\ Forward /\ SameLength
         /\ \A c \in Commands : \A n \in 1..Len(attempts[c]) :
              \/ attempts'[c][n] = attempts[c][n]
              \/ attempts[c][n] = "sent" /\ attempts'[c][n] \in {"expired", "ack_timeout"}
  <1>1. /\ DOMAIN Swept = Commands
        /\ \A c \in Commands : /\ DOMAIN Swept[c] = 1..Len(attempts[c])
                               /\ Swept[c] = [n \in 1..Len(attempts[c]) |-> Swept[c][n]]
    BY AttemptsType DEF Swept
  <1>2. ASSUME NEW c \in Commands, NEW n \in 1..Len(attempts[c])
        PROVE  /\ \/ Swept[c][n] = attempts[c][n]
                  \/ attempts[c][n] = "sent" /\ Swept[c][n] \in {"expired", "ack_timeout"}
               /\ Swept[c][n] \in Statuses
    <2>1. n \in DOMAIN attempts[c] /\ attempts[c][n] \in Statuses  BY AttemptsType
    <2>2. Swept[c][n] = IF attempts[c][n] # "sent" THEN attempts[c][n]
                        ELSE IF c \in ledgerDue THEN "expired"
                        ELSE IF <<c, n>> \in ackDue THEN "ack_timeout" ELSE "sent"
      BY <2>1 DEF Swept
    <2> QED BY <2>1, <2>2 DEF Statuses, Open, Final
  <1>3. ASSUME NEW c \in Commands
        PROVE  Swept[c] \in Seq(Statuses) /\ Len(Swept[c]) = Len(attempts[c])
    <2>1. Swept[c] \in [1..Len(attempts[c]) -> Statuses]  BY <1>1, <1>2
    <2>2. Len(attempts[c]) \in Nat  BY AttemptsType
    <2> QED BY <2>1, <2>2
  <1>4. \A c \in Commands : \A n \in 1..Len(attempts[c]) :
          Swept[c][n] = attempts[c][n] \/ (attempts[c][n] \in Open /\ Swept[c][n] \in Statuses \ {"pending"})
    BY <1>2 DEF Open
  <1>5. attempts' = [c \in Commands |-> Swept[c]]  BY <1>1 DEF Swept
  <1>6. Forward /\ SameLength  BY <1>1, <1>3, <1>4, <1>5, RewriteForward
  <1> QED BY <1>2, <1>6

\* Moved rewrites one attempt, if at all.
LEMMA MovedForward ==
  ASSUME TypeOK, NEW c \in Commands, NEW n \in 1..Len(attempts[c]),
         NEW from \in SUBSET Open, NEW to \in Statuses \ {"pending"},
         attempts' = Moved(<<c, n>>, from, to)
  PROVE  /\ Forward /\ SameLength
         /\ attempts' = IF attempts[c][n] \in from THEN [attempts EXCEPT ![c][n] = to] ELSE attempts
         /\ attempts'[c][n] = IF attempts[c][n] \in from THEN to ELSE attempts[c][n]
  <1>1. attempts' = IF attempts[c][n] \in from THEN [attempts EXCEPT ![c][n] = to] ELSE attempts
    BY DEF Moved, Status
  <1>2. CASE attempts[c][n] \notin from  BY <1>1, <1>2, SameForward
  <1>3. CASE attempts[c][n] \in from
    <2> DEFINE g == [attempts[c] EXCEPT ![n] = to]
    <2>1. attempts' = [attempts EXCEPT ![c] = g]  BY <1>1, <1>3, AttemptsType
    <2>2. /\ g \in Seq(Statuses) /\ Len(g) = Len(attempts[c])
          /\ \A i \in 1..Len(attempts[c]) : g[i] = IF i = n THEN to ELSE attempts[c][i]
      BY AttemptsType, ExceptSeq
    <2>3. /\ attempts'[c] = g /\ \A d \in Commands : d # c => attempts'[d] = attempts[d]
          /\ attempts' = [d \in Commands |-> attempts'[d]]
      BY <2>1, AttemptsType
    <2> HIDE DEF g
    <2>4. attempts' = [d \in Commands |-> IF d = c THEN g ELSE attempts[d]]  BY <2>3
    <2> DEFINE f == [d \in Commands |-> IF d = c THEN g ELSE attempts[d]]
    <2>5. ASSUME NEW d \in Commands
          PROVE  /\ f[d] \in Seq(Statuses) /\ Len(f[d]) = Len(attempts[d])
                 /\ \A i \in 1..Len(attempts[d]) :
                      f[d][i] = attempts[d][i] \/ (attempts[d][i] \in Open /\ f[d][i] \in Statuses \ {"pending"})
      <3>1. CASE d = c  BY <1>3, <2>2, <3>1
      <3>2. CASE d # c  BY <3>2, AttemptsType
      <3> QED BY <3>1, <3>2
    <2>6. attempts' = [d \in Commands |-> f[d]]  BY <2>4
    <2> HIDE DEF f
    <2>7. Forward /\ SameLength  BY <2>5, <2>6, RewriteForward
    <2> QED BY <1>1, <1>3, <2>2, <2>3, <2>7
  <1> QED BY <1>2, <1>3

LEMMA CancelForward ==
  ASSUME TypeOK, NEW c \in Commands,
         attempts' = [attempts EXCEPT ![c] =
                        [n \in DOMAIN @ |-> IF @[n] \in Open THEN "cancelled" ELSE @[n]]]
  PROVE  Forward /\ SameLength
  <1> DEFINE g == [n \in 1..Len(attempts[c]) |->
                     IF attempts[c][n] \in Open THEN "cancelled" ELSE attempts[c][n]]
             f == [d \in Commands |-> IF d = c THEN g ELSE attempts[d]]
  <1>1. attempts' = [d \in Commands |-> f[d]]  BY AttemptsType
  <1>2. /\ g \in Seq(Statuses) /\ Len(g) = Len(attempts[c])
        /\ \A i \in 1..Len(attempts[c]) :
             g[i] = attempts[c][i] \/ (attempts[c][i] \in Open /\ g[i] \in Statuses \ {"pending"})
    <2>1. \A i \in 1..Len(attempts[c]) : g[i] \in Statuses  BY AttemptsType DEF Statuses, Final
    <2>2. g \in [1..Len(attempts[c]) -> Statuses]  BY <2>1
    <2>3. Len(attempts[c]) \in Nat  BY AttemptsType
    <2> QED BY <2>1, <2>2, <2>3
  <1> HIDE DEF g
  <1>3. ASSUME NEW d \in Commands
        PROVE  /\ f[d] \in Seq(Statuses) /\ Len(f[d]) = Len(attempts[d])
               /\ \A i \in 1..Len(attempts[d]) :
                    f[d][i] = attempts[d][i] \/ (attempts[d][i] \in Open /\ f[d][i] \in Statuses \ {"pending"})
    <2>1. CASE d = c  BY <1>2, <2>1
    <2>2. CASE d # c  BY <2>2, AttemptsType
    <2> QED BY <2>1, <2>2
  <1> HIDE DEF f
  <1> QED BY <1>1, <1>3, RewriteForward

LEMMA InsertForward ==
  ASSUME TypeOK, NEW c \in Commands,
         attempts' = [attempts EXCEPT ![c] = Append(@, "pending")]
  PROVE  /\ Forward
         /\ Len(attempts'[c]) = Len(attempts[c]) + 1
         /\ \A d \in Commands : d # c => attempts'[d] = attempts[d]
  <1>1. "pending" \in Statuses  BY DEF Statuses, Open
  <1>2. attempts[c] \in Seq(Statuses) /\ Len(attempts[c]) \in Nat  BY AttemptsType
  <1>3. /\ attempts'[c] = Append(attempts[c], "pending")
        /\ \A d \in Commands : d # c => attempts'[d] = attempts[d]
    BY AttemptsType
  <1>4. /\ attempts'[c] \in Seq(Statuses) /\ Len(attempts'[c]) = Len(attempts[c]) + 1
        /\ \A i \in 1..Len(attempts[c]) : attempts'[c][i] = attempts[c][i]
    BY <1>1, <1>2, <1>3, AppendProperties
  <1>5. attempts' \in [Commands -> Seq(Statuses)]  BY <1>1, <1>2, AttemptsType, AppendProperties
  <1>6. ASSUME NEW d \in Commands
        PROVE  /\ Len(attempts'[d]) >= Len(attempts[d])
               /\ \A i \in 1..Len(attempts[d]) : attempts'[d][i] = attempts[d][i]
    <2>1. CASE d = c  BY <1>2, <1>4, <2>1
    <2>2. CASE d # c  BY <1>3, <2>2, AttemptsType
    <2> QED BY <2>1, <2>2
  <1> QED BY <1>3, <1>4, <1>5, <1>6 DEF Forward

\* An attempt that exists stays, and so does its end.
LEMMA ForwardExists ==
  ASSUME TypeOK, Forward
  PROVE  /\ \A j \in Commands \X Nat : Exists(j) => j[2] \in 1..Len(attempts'[j[1]])
         /\ \A c \in Commands : Len(attempts'[c]) \in Nat /\ Len(attempts'[c]) >= Len(attempts[c])
  <1>1. \A c \in Commands : Len(attempts'[c]) \in Nat  BY LenProperties DEF Forward
  <1>2. \A c \in Commands : Len(attempts[c]) \in Nat  BY AttemptsType
  <1> QED BY <1>1, <1>2 DEF Forward, Exists

-----------------------------------------------------------------------------
(* What each part of the invariant rests on. *)

CallStates == {Idle} \cup [at : {"append", "latest", "count", "insert", "enqueue"},
                           cmd : Commands, replay : BOOLEAN, no : Nat]

LEMMA JobIs == \A j \in Jobs : /\ j = <<j[1], j[2]>> /\ j[1] \in Commands /\ j[2] \in Nat
                               /\ j \in Commands \X Nat
  BY CallersCount, CommandLimits DEF Jobs

LEMMA InsertingCount ==
  \A c : /\ IsFiniteSet(Inserting(c)) /\ Cardinality(Inserting(c)) \in Nat
         /\ Cardinality(Inserting(c)) <= Cardinality(Callers)
  <1> SUFFICES ASSUME NEW c PROVE /\ IsFiniteSet(Inserting(c)) /\ Cardinality(Inserting(c)) \in Nat
                                  /\ Cardinality(Inserting(c)) <= Cardinality(Callers)
    OBVIOUS
  <1>1. Inserting(c) \subseteq Callers  BY DEF Inserting
  <1> QED BY <1>1, SetsAssumption, FS_Subset, FS_CardinalityType

LEMMA ExistingIsJob ==
  ASSUME TypeOK, CeilingInv
  PROVE  \A c \in Commands : /\ Len(attempts[c]) < Ceiling
                             /\ \A n \in 1..Len(attempts[c]) : <<c, n>> \in Jobs
  <1>1. \A c \in Commands : Len(attempts[c]) < Ceiling
    BY InsertingCount, CallersCount, AttemptsType DEF CeilingInv
  <1> QED BY <1>1, CallersCount, AttemptsType DEF Jobs, Ceiling

LEMMA JobsKeep ==
  ASSUME TypeOK, JobsExist, Forward, inflight' \in [Replicas -> SUBSET Jobs],
         \A r \in Replicas : \A j \in inflight'[r] : j \in inflight[r] \/ Exists(j),
         \A u \in Callers : call'[u].at = "enqueue" =>
           \/ call'[u] = call[u] /\ call[u].cmd \in Commands /\ call[u].no \in Nat
           \/ call'[u].no \in 1..Len(attempts'[call'[u].cmd]),
         \A j \in Jobs : published'[j] = published[j] \/ Exists(j),
         \A c \in offered' : c \in Commands /\ (c \in offered \/ Len(attempts[c]) > 0)
  PROVE  JobsExist'
  <1>1. ASSUME NEW r \in Replicas, NEW j \in inflight'[r] PROVE j[2] \in 1..Len(attempts'[j[1]])
    <2>1. j \in Commands \X Nat  BY <1>1, JobIs
    <2>2. Exists(j)  BY <1>1 DEF JobsExist
    <2> QED BY <2>1, <2>2, ForwardExists
  <1>2. ASSUME NEW u \in Callers, call'[u].at = "enqueue"
        PROVE  call'[u].no \in 1..Len(attempts'[call'[u].cmd])
    <2>1. CASE call'[u] = call[u] /\ call[u].cmd \in Commands /\ call[u].no \in Nat
      <3>1. Exists(<<call[u].cmd, call[u].no>>)  BY <1>2, <2>1 DEF JobsExist
      <3>2. <<call[u].cmd, call[u].no>> \in Commands \X Nat  BY <2>1
      <3> QED BY <2>1, <3>1, <3>2, ForwardExists
    <2> QED BY <1>2, <2>1
  <1>3. ASSUME NEW j \in Jobs, ~(j[2] \in 1..Len(attempts'[j[1]])) PROVE published'[j] = 0
    <2>1. ~Exists(j)  BY <1>3, JobIs, ForwardExists
    <2> QED BY <2>1 DEF JobsExist
  <1>4. ASSUME NEW c \in offered' PROVE Len(attempts'[c]) > 0
    <2>1. c \in Commands /\ Len(attempts[c]) > 0  BY DEF JobsExist
    <2>2. Len(attempts[c]) \in Nat  BY <2>1, AttemptsType
    <2>3. Len(attempts'[c]) \in Nat /\ Len(attempts'[c]) >= Len(attempts[c])  BY <2>1, ForwardExists
    <2> QED BY <2>1, <2>2, <2>3
  <1> QED BY <1>1, <1>2, <1>3, <1>4 DEF JobsExist, Exists

LEMMA CeilingKeeps ==
  ASSUME TypeOK, CeilingInv, SameLength,
         \A u \in Callers : call'[u].at = "insert" => call'[u] = call[u]
  PROVE  CeilingInv'
  <1> SUFFICES ASSUME NEW c \in Commands
               PROVE  Len(attempts'[c]) + Cardinality(Inserting(c)') < Ceiling
    BY DEF CeilingInv, Ceiling
  <1>1. Inserting(c)' \subseteq Inserting(c)  BY DEF Inserting
  <1>2. Cardinality(Inserting(c)') <= Cardinality(Inserting(c)) /\ Cardinality(Inserting(c)') \in Nat
    BY <1>1, InsertingCount, FS_Subset, FS_CardinalityType
  <1>3. Len(attempts'[c]) = Len(attempts[c]) /\ Len(attempts[c]) \in Nat
    BY AttemptsType DEF SameLength
  <1> QED BY <1>2, <1>3, InsertingCount, CallersCount DEF CeilingInv

\* The tries of one loop.
LEMMA LoopCount ==
  /\ IsFiniteSet(1..PublishMaxAttempts) /\ Cardinality(1..PublishMaxAttempts) = PublishMaxAttempts
  /\ PublishMaxAttempts \in Nat
  <1>1. /\ 1 \in Int /\ PublishMaxAttempts \in Int /\ PublishMaxAttempts \in Nat
        /\ ~(1 > PublishMaxAttempts) /\ PublishMaxAttempts - 1 + 1 = PublishMaxAttempts
    BY CommandLimits
  <1>2. /\ IsFiniteSet(1..PublishMaxAttempts)
        /\ Cardinality(1..PublishMaxAttempts)
             = IF 1 > PublishMaxAttempts THEN 0 ELSE PublishMaxAttempts - 1 + 1
    BY <1>1, FS_Interval
  <1> QED BY <1>1, <1>2

LEMMA TriesCount ==
  IsFiniteSet(Tries) /\ Cardinality(Tries) = PublishMaxAttempts * Cardinality(Replicas)
  <1> DEFINE I == 1..PublishMaxAttempts
  <1>1. IsFiniteSet(I) /\ Cardinality(I) = PublishMaxAttempts  BY LoopCount
  <1> HIDE DEF I
  <1>2. IsFiniteSet(Replicas \X I) /\ Cardinality(Replicas \X I) = Cardinality(Replicas) * Cardinality(I)
    BY <1>1, SetsAssumption, FS_Product
  <1>3. Cardinality(Replicas) \in Nat  BY SetsAssumption, FS_CardinalityType
  <1> QED BY <1>1, <1>2, <1>3, CommandLimits DEF Tries, I

\* A fault is worth one loop of tries.
LEMMA LostGrows ==
  ASSUME faults \in Nat, faults' \in Nat, faults' >= faults
  PROVE  /\ Lost \in Nat /\ Lost' \in Nat /\ Lost' >= Lost
         /\ faults' >= faults + 1 => Lost' >= Lost + PublishMaxAttempts
  <1>1. ASSUME NEW a \in Nat, NEW b \in Nat, NEW m \in Nat
        PROVE  /\ m * a \in Nat /\ m * (a + b) = m * a + m * b
               /\ b >= 1 => m * b >= m
    OBVIOUS
  <1>2. PICK d \in Nat : faults' = faults + d
    <2>1. ASSUME NEW a \in Nat, NEW b \in Nat, b >= a PROVE \E d \in Nat : b = a + d
      <3>1. b - a \in Nat /\ b = a + (b - a)  BY <2>1
      <3> QED BY <3>1
    <2> QED BY <2>1
  <1>3. PublishMaxAttempts \in Nat  BY CommandLimits
  <1>4. /\ Lost \in Nat /\ PublishMaxAttempts * d \in Nat /\ Lost' = Lost + PublishMaxAttempts * d
        /\ d >= 1 => PublishMaxAttempts * d >= PublishMaxAttempts
    BY <1>1, <1>2, <1>3 DEF Lost
  <1>5. faults' >= faults + 1 => d >= 1  BY <1>2
  <1> QED BY <1>3, <1>4, <1>5

LEMMA PublisherCount ==
  \A j : /\ IsFiniteSet(Tried(j)) /\ Cardinality(Tried(j)) \in Nat
         /\ IsFiniteSet(ToTry(j)) /\ Cardinality(ToTry(j)) \in Nat
         /\ Cardinality(Tried(j)) + Cardinality(ToTry(j)) <= Cardinality(Tries)
         /\ Cardinality(Tries) \in Nat
  <1> SUFFICES ASSUME NEW j
               PROVE  /\ IsFiniteSet(Tried(j)) /\ Cardinality(Tried(j)) \in Nat
                      /\ IsFiniteSet(ToTry(j)) /\ Cardinality(ToTry(j)) \in Nat
                      /\ Cardinality(Tried(j)) + Cardinality(ToTry(j)) <= Cardinality(Tries)
                      /\ Cardinality(Tries) \in Nat
    OBVIOUS
  <1>0. IsFiniteSet(Tries) /\ Cardinality(Tries) \in Nat
    BY TriesCount, FS_CardinalityType
  <1>1. Tried(j) \subseteq Tries /\ ToTry(j) \subseteq Tries  BY DEF Tried, ToTry
  <1>2. Tried(j) \cap ToTry(j) = {}
    <2>1. ASSUME NEW t \in Tried(j), t \in ToTry(j) PROVE FALSE
      BY <2>1 DEF Tried, ToTry
    <2> QED BY <2>1
  <1>3. IsFiniteSet(Tried(j)) /\ IsFiniteSet(ToTry(j))  BY <1>0, <1>1, FS_Subset
  <1>4. /\ IsFiniteSet(Tried(j) \cup ToTry(j))
        /\ Cardinality(Tried(j) \cup ToTry(j)) =
             Cardinality(Tried(j)) + Cardinality(ToTry(j)) - Cardinality(Tried(j) \cap ToTry(j))
    BY <1>3, FS_Union
  <1>5. Cardinality(Tried(j) \cap ToTry(j)) = 0  BY <1>2, FS_EmptySet
  <1>6. Cardinality(Tried(j) \cup ToTry(j)) <= Cardinality(Tries)
    BY <1>0, <1>1, FS_Subset
  <1>7. Cardinality(Tried(j)) \in Nat /\ Cardinality(ToTry(j)) \in Nat
    BY <1>3, FS_CardinalityType
  <1> QED BY <1>0, <1>3, <1>4, <1>5, <1>6, <1>7

\* An attempt is pending in the next state only if it was, or did not exist.
LEMMA PendingBefore ==
  ASSUME TypeOK, JobsExist, Forward, NEW j \in Jobs,
         j[2] \in 1..Len(attempts'[j[1]]) /\ attempts'[j[1]][j[2]] = "pending"
  PROVE  IsPending(j) \/ (~Exists(j) /\ published[j] = 0)
  <1>1. CASE Exists(j)  BY <1>1, JobIs DEF Forward, Exists, IsPending, Status
  <1>2. CASE ~Exists(j)  BY <1>2 DEF JobsExist
  <1> QED BY <1>1, <1>2

LEMMA PublishKeeps ==
  ASSUME TypeOK, JobsExist, PublishInv, Forward, work' = work, published' = published,
         faults' \in Nat, faults' >= faults
  PROVE  PublishInv'
  <1>0. published \in [Jobs -> Nat] /\ faults \in Nat  BY CommandLimits DEF TypeOK
  <1>l. Lost \in Nat /\ Lost' \in Nat /\ Lost' >= Lost  BY <1>0, LostGrows
  <1> SUFFICES ASSUME NEW j \in Jobs
               PROVE  IF j[2] \in 1..Len(attempts'[j[1]]) /\ attempts'[j[1]][j[2]] = "pending"
                      THEN published[j] <= Cardinality(Tried(j)) + Lost'
                      ELSE published[j] + Cardinality(ToTry(j)) <= Cardinality(Tries) + Lost'
    BY DEF PublishInv, IsPending, Exists, Status, Tried, ToTry, Tries
  <1>1. CASE j[2] \in 1..Len(attempts'[j[1]]) /\ attempts'[j[1]][j[2]] = "pending"
    <2>1. IsPending(j) \/ published[j] = 0  BY <1>1, PendingBefore
    <2> QED BY <1>0, <1>l, <1>1, <2>1, PublisherCount DEF PublishInv
  <1>2. CASE ~(j[2] \in 1..Len(attempts'[j[1]]) /\ attempts'[j[1]][j[2]] = "pending")
    <2>1. published[j] + Cardinality(ToTry(j)) <= Cardinality(Tries) + Lost
      BY <1>0, <1>l, PublisherCount DEF PublishInv
    <2> QED BY <1>0, <1>l, <1>2, <2>1, PublisherCount
  <1> QED BY <1>1, <1>2

LEMMA ReceiptKeeps ==
  ASSUME TypeOK, ReceiptInv, Forward, receipts' = receipts, tx' \in {tx, Idle}
  PROVE  ReceiptInv'
  <1>1. ASSUME NEW q \in receipts
        PROVE  q.no \in 1..Len(attempts'[q.cmd]) /\ attempts'[q.cmd][q.no] \in Final
    <2>1. q.cmd \in Commands /\ q.no \in Nat  BY DEF TypeOK
    <2>2. Len(attempts'[q.cmd]) \in Nat /\ Len(attempts'[q.cmd]) >= Len(attempts[q.cmd])
      BY <2>1, ForwardExists
    <2>3. Len(attempts[q.cmd]) \in Nat  BY <2>1, AttemptsType
    <2> QED BY <2>1, <2>2, <2>3 DEF ReceiptInv, Forward
  <1>2. ASSUME tx' # Idle
        PROVE  /\ tx'.no \in 1..Len(attempts'[tx'.msg.cmd])
               /\ \A q \in receipts : ~(q.cmd = tx'.msg.cmd /\ q.no = tx'.no)
    <2>1. tx' = tx /\ tx # Idle  BY <1>2
    <2>2. tx.msg.cmd \in Commands /\ tx.no \in Nat  BY <2>1 DEF TypeOK, Messages
    <2>3. Len(attempts'[tx.msg.cmd]) \in Nat /\ Len(attempts'[tx.msg.cmd]) >= Len(attempts[tx.msg.cmd])
      BY <2>2, ForwardExists
    <2>4. Len(attempts[tx.msg.cmd]) \in Nat  BY <2>2, AttemptsType
    <2> QED BY <2>1, <2>2, <2>3, <2>4 DEF ReceiptInv
  <1> QED BY <1>1, <1>2 DEF ReceiptInv

-----------------------------------------------------------------------------
(* The clock, the sweep, the operator and what the machine sends beside receipts. *)

LEMMA CallType ==
  ASSUME TypeOK
  PROVE  \A u \in Callers : /\ call[u] \in CallStates
                            /\ call[u].at # "idle" =>
                                 /\ call[u].cmd \in Commands /\ call[u].no \in Nat
                                 /\ call[u] \in CallStates \ {Idle}
  BY DEF TypeOK, CallStates, Idle

\* A step that leaves the publishers alone.
LEMMA QuietInv ==
  ASSUME DInv, Forward, TypeOK', LedgerInv', CeilingInv', ReceiptInv', UNCHANGED publisher,
         published' = published, faults' >= faults,
         \A c \in offered' : c \in offered \/ Len(attempts[c]) > 0,
         \A u \in Callers : call'[u].at = "enqueue" =>
           call'[u] = call[u] \/ call'[u].no \in 1..Len(attempts'[call'[u].cmd])
  PROVE  DInv'
  <1>1. queue' = queue /\ inflight' = inflight /\ work' = work  BY DEF publisher
  <1>2. InFlightExact'  BY <1>1 DEF DInv, InFlightExact
  <1>3. faults' \in Nat  BY CommandLimits DEF TypeOK
  <1>4. PublishInv'  BY <1>1, <1>3, PublishKeeps DEF DInv
  <1>6. \A c \in offered' : c \in Commands  BY DEF TypeOK
  <1>7. inflight' \in [Replicas -> SUBSET Jobs]  BY DEF TypeOK
  <1>8. \A u \in Callers : call'[u].at = "enqueue" =>
           \/ call'[u] = call[u] /\ call[u].cmd \in Commands /\ call[u].no \in Nat
           \/ call'[u].no \in 1..Len(attempts'[call'[u].cmd])
    BY CallType DEF DInv
  <1>9. JobsExist'  BY <1>1, <1>6, <1>7, <1>8, JobsKeep DEF DInv
  <1> QED BY <1>2, <1>4, <1>9 DEF DInv

LEMMA LedgerKeeps ==
  ASSUME TypeOK, LedgerInv, SameLength, ledger \subseteq ledger',
         \A u \in Callers : call'[u].at \notin {"idle", "append"} =>
           call'[u].cmd \in ledger' \/ (call[u].at \notin {"idle", "append"} /\ call'[u].cmd = call[u].cmd)
  PROVE  LedgerInv'
  BY DEF LedgerInv, SameLength

\* A step of the database that neither adds an attempt nor writes a receipt.
LEMMA DatabaseInv ==
  ASSUME DInv, Forward, SameLength, TypeOK', UNCHANGED <<publisher, call, published, ledger>>,
         receipts' = receipts, tx' \in {tx, Idle}, faults' >= faults,
         \A c \in offered' : c \in offered \/ Len(attempts[c]) > 0
  PROVE  DInv'
  <1>1. CeilingInv'  BY CeilingKeeps DEF DInv
  <1>2. LedgerInv'  BY LedgerKeeps DEF DInv
  <1>3. ReceiptInv'  BY ReceiptKeeps DEF DInv
  <1> QED BY <1>1, <1>2, <1>3, QuietInv

LEMMA FaultsType == DInv => /\ faults \in 0..MaxFaults /\ faults \in Nat /\ faults >= faults
                            /\ (faults < MaxFaults => faults + 1 \in 0..MaxFaults /\ faults + 1 >= faults)
  BY CommandLimits DEF DInv, TypeOK

LEMMA SweepInv == ASSUME DInv, ApplyMQTTCommandAckTimeouts PROVE DInv'
  <1>1. Forward /\ SameLength  BY SweptForward DEF DInv, ApplyMQTTCommandAckTimeouts
  <1>2. TypeOK'  BY <1>1 DEF DInv, TypeOK, ApplyMQTTCommandAckTimeouts, Forward, Statuses,
                             publisher, device, budget
  <1> QED BY <1>1, <1>2, FaultsType, DatabaseInv
        DEF ApplyMQTTCommandAckTimeouts, device, budget

LEMMA ClockInv == ASSUME DInv, Clock PROVE DInv'
  <1>1. Forward /\ SameLength
    BY SameForward DEF DInv, Clock, LedgerTimeoutPasses, AckDeadlinePasses
  <1>2. ASSUME NEW c \in Commands, LedgerTimeoutPasses(c) PROVE TypeOK'
    <2>1. Len(attempts[c]) # 0  BY <1>2, AttemptsType, EmptySeq DEF DInv, LedgerTimeoutPasses
    <2>2. c \in ledger  BY <2>1, AttemptsType DEF DInv, LedgerInv
    <2> QED BY <1>2, <2>2 DEF DInv, TypeOK, LedgerTimeoutPasses, publisher, device, budget
  <1>3. ASSUME NEW c \in Commands, NEW n \in DOMAIN attempts[c], AckDeadlinePasses(c, n) PROVE TypeOK'
    <2>1. <<c, n>> \in Jobs  BY <1>3, AttemptsType, ExistingIsJob DEF DInv
    <2> QED BY <1>3, <2>1 DEF DInv, TypeOK, AckDeadlinePasses, publisher, device, budget
  <1>4. TypeOK'  BY <1>2, <1>3 DEF Clock
  <1> QED BY <1>1, <1>4, FaultsType, DatabaseInv
        DEF Clock, LedgerTimeoutPasses, AckDeadlinePasses, device, budget

LEMMA OperatorInv == ASSUME DInv, Operator PROVE DInv'
  <1>0. TypeOK  BY DEF DInv
  <1>1. ASSUME NEW c \in Commands, CancelCommand(c) PROVE DInv'
    <2>1. Forward /\ SameLength  BY <1>0, <1>1, CancelForward DEF CancelCommand
    <2>2. TypeOK'  BY <1>0, <1>1, <2>1, CommandLimits, SMTT(40)
            DEF TypeOK, CancelCommand, Forward, Statuses, publisher, device
    <2> QED BY <1>1, <2>1, <2>2, FaultsType, DatabaseInv DEF CancelCommand, device
  <1>2. ASSUME NEW s \in {"active", "maintenance"}, SetMachineStatus(s) PROVE DInv'
    <2>1. Forward /\ SameLength  BY <1>0, <1>2, SameForward DEF SetMachineStatus
    <2>2. TypeOK'  BY <1>0, <1>2, CommandLimits DEF TypeOK, SetMachineStatus, publisher, device
    <2> QED BY <1>2, <2>1, <2>2, FaultsType, DatabaseInv DEF SetMachineStatus, device
  <1> QED BY <1>1, <1>2 DEF Operator

LEMMA PollInv == ASSUME DInv, PollRemoteCommands PROVE DInv'
  <1>0. TypeOK  BY DEF DInv
  <1>1. Forward /\ SameLength  BY <1>0, SameForward DEF PollRemoteCommands, db
  <1>2. TypeOK'  BY <1>0 DEF TypeOK, PollRemoteCommands, db, publisher, budget
  <1>3. ASSUME NEW c \in offered' PROVE c \in offered \/ Len(attempts[c]) > 0
    <2>1. c \in offered \/ (c \in Commands /\ Latest(c) \in Open)  BY DEF PollRemoteCommands
    <2>2. ASSUME c \in Commands, Latest(c) \in Open PROVE Len(attempts[c]) > 0
      <3>1. attempts[c] # <<>>  BY <2>2 DEF Latest, Open
      <3> QED BY <1>0, <2>2, <3>1, AttemptsType, EmptySeq
    <2> QED BY <2>1, <2>2
  <1> QED BY <1>1, <1>2, <1>3, FaultsType, DatabaseInv DEF PollRemoteCommands, db, budget

LEMMA IngestInv == ASSUME DInv, IngestTelemetry PROVE DInv'
  <1>0. TypeOK  BY DEF DInv
  <1>1. Forward /\ SameLength  BY <1>0, SameForward DEF IngestTelemetry
  <1>2. TypeOK'  BY <1>0 DEF TypeOK, IngestTelemetry, Touched, publisher, device, budget
  <1> QED BY <1>1, <1>2, FaultsType, DatabaseInv DEF IngestTelemetry, device, budget

-----------------------------------------------------------------------------
(* The receipt transaction. *)

LEMMA RollBackInv == ASSUME DInv, RollBackReceipt PROVE DInv'
  <1>0. TypeOK  BY DEF DInv
  <1>1. Forward /\ SameLength  BY <1>0, SameForward DEF RollBackReceipt, db
  <1>2. TypeOK'  BY <1>0, FaultsType DEF TypeOK, RollBackReceipt, db, publisher, device
  <1>3. faults' >= faults  BY FaultsType DEF RollBackReceipt
  <1> QED BY <1>1, <1>2, <1>3, DatabaseInv DEF RollBackReceipt, db, device

\* A set of numbers up to n has a greatest one.
LEMMA GreatestExists ==
  ASSUME NEW n \in Nat, NEW S \in SUBSET (1..n), S # {}
  PROVE  \E a \in S : \A b \in S : b <= a
  <1> DEFINE R == {p \in Nat \X Nat : p[1] < p[2]}
             T == {n - a : a \in S}
  <1>1. IsWellFoundedOn(R, Nat)  BY NatLessThanWellFounded DEF OpToRel
  <1>2. T \subseteq Nat /\ T # {}
    <2>1. PICK a \in S : TRUE  OBVIOUS
    <2>2. n - a \in T  BY <2>1
    <2>3. \A b \in S : n - b \in Nat  OBVIOUS
    <2> QED BY <2>2, <2>3
  <1> HIDE DEF R
  <1>3. PICK x \in T : \A y \in T : <<y, x>> \notin R  BY <1>1, <1>2, WFMin
  <1>4. PICK a \in S : x = n - a  BY <1>3
  <1>5. ASSUME NEW b \in S PROVE b <= a
    <2>1. n - b \in T /\ n - b \in Nat /\ n - a \in Nat  OBVIOUS
    <2>2. <<n - b, x>> \notin R  BY <1>3, <2>1
    <2>3. ~(n - b < n - a)  BY <1>4, <2>1, <2>2 DEF R
    <2> QED BY <2>3
  <1> QED BY <1>4, <1>5

\* The target of a receipt is an attempt that has none.
LEMMA TargetIsNew ==
  ASSUME DInv, NEW m \in Messages, m.cmd \in offered, Accepts(m, ReceiptTarget(m.cmd))
  PROVE  /\ ReceiptTarget(m.cmd) \in 1..Len(attempts[m.cmd])
         /\ \A q \in receipts : ~(q.cmd = m.cmd /\ q.no = ReceiptTarget(m.cmd))
  <1> DEFINE c == m.cmd
             open == {n \in DOMAIN attempts[c] : attempts[c][n] \in Open}
             t == ReceiptTarget(c)
  <1>0. c \in Commands /\ TypeOK  BY DEF Messages, DInv
  <1>1. Len(attempts[c]) > 0 /\ Len(attempts[c]) \in Nat /\ DOMAIN attempts[c] = 1..Len(attempts[c])
    BY <1>0, AttemptsType DEF DInv, JobsExist
  <1>2. t = IF open = {} THEN Len(attempts[c]) ELSE CHOOSE n \in open : \A o \in open : o <= n
    BY DEF ReceiptTarget
  <1>3. t \in 1..Len(attempts[c]) /\ (open # {} => t \in open)
    <2>1. CASE open = {}  BY <1>1, <1>2, <2>1
    <2>2. CASE open # {}
      <3>1. \E n \in open : \A o \in open : o <= n
        <4>1. open \in SUBSET (1..Len(attempts[c]))  BY <1>1
        <4> HIDE DEF open
        <4> QED BY <1>1, <2>2, <4>1, GreatestExists
      <3>2. t \in open  BY <1>2, <2>2, <3>1
      <3> QED BY <1>1, <3>2
    <2> QED BY <2>1, <2>2
  <1>4. ASSUME NEW q \in receipts, q.cmd = c, q.no = t PROVE FALSE
    <2>1. attempts[c][t] \in Final  BY <1>4 DEF DInv, ReceiptInv
    <2> QED BY <1>4, <2>1 DEF Accepts
  <1> QED BY <1>3, <1>4

LEMMA ReadReceiptInv ==
  ASSUME DInv, NEW m \in Messages, ReadReceipt(m)
  PROVE  DInv'
  <1> DEFINE t == ReceiptTarget(m.cmd)
  <1>0. TypeOK /\ m.cmd \in Commands  BY DEF DInv, Messages
  <1>1. /\ tx = Idle /\ m.cmd \in offered /\ Accepts(m, t)
        /\ tx' = [at |-> "commit", msg |-> m, no |-> t]
        /\ UNCHANGED <<db, publisher, call, device, budget>>
    BY DEF ReadReceipt
  <1>2. /\ t \in 1..Len(attempts[m.cmd])
        /\ \A q \in receipts : ~(q.cmd = m.cmd /\ q.no = t)
    BY <1>1, TargetIsNew
  <1> HIDE DEF t
  <1>3. Forward /\ SameLength  BY <1>0, <1>1, SameForward DEF db
  <1>4. t \in Nat  BY <1>0, <1>2, AttemptsType
  <1>5. TypeOK'  BY <1>0, <1>1, <1>4 DEF TypeOK, db, publisher, device, budget
  <1>6. CeilingInv'  BY <1>1, <1>3, CeilingKeeps DEF DInv
  <1>7. LedgerInv'  BY <1>1, <1>3, LedgerKeeps DEF DInv, db
  <1>8. ReceiptInv'  BY <1>1, <1>2 DEF DInv, ReceiptInv, db
  <1> QED BY <1>1, <1>3, <1>5, <1>6, <1>7, <1>8, QuietInv, FaultsType DEF device, budget

LEMMA OutcomeFinal == \A s \in Reports : AttemptStatus(s) \in Final /\ AttemptStatus(s) # "pending"
  BY SetsAssumption DEF AttemptStatus, Final

LEMMA CommitInv == ASSUME DInv, CommitReceipt PROVE DInv'
  <1> DEFINE c == tx.msg.cmd
             n == tx.no
             to == AttemptStatus(tx.msg.status)
             q == [key |-> tx.msg.key, cmd |-> c, no |-> n, status |-> tx.msg.status]
  <1>0. TypeOK  BY DEF DInv
  <1>1. tx.msg \in Messages /\ n \in Nat  BY <1>0 DEF TypeOK, CommitReceipt
  <1>2. /\ c \in Commands /\ n \in 1..Len(attempts[c])
        /\ tx.msg.status \in Reports /\ tx.msg.key \in Keys
    BY <1>1 DEF Messages, DInv, ReceiptInv, CommitReceipt
  <1>3. /\ receipts' = receipts \cup {q} /\ attempts' = Moved(<<c, n>>, Open, to)
        /\ machine' = Touched /\ tx' = Idle
        /\ UNCHANGED <<ledger, ledgerDue, ackDue, publisher, call, device, budget>>
    BY DEF CommitReceipt
  <1>4. to \in Final /\ to \in Statuses \ {"pending"}  BY <1>2, OutcomeFinal, StatusFacts
  <1>5. /\ q.cmd = c /\ q.no = n
        /\ q \in [key : Keys, cmd : Commands, no : Nat, status : Reports]
    BY <1>1, <1>2
  <1> HIDE DEF to, q, n, c
  <1>6. /\ Forward /\ SameLength
        /\ attempts'[c][n] = IF attempts[c][n] \in Open THEN to ELSE attempts[c][n]
    BY <1>0, <1>2, <1>3, <1>4, MovedForward
  <1>7. attempts'[c][n] \in Final  BY <1>0, <1>2, <1>4, <1>6, AttemptsType, StatusFacts
  <1>8. TypeOK'  BY <1>0, <1>3, <1>5, <1>6
          DEF TypeOK, Forward, Statuses, Touched, publisher, device, budget
  <1>9. CeilingInv'  BY <1>3, <1>6, CeilingKeeps DEF DInv
  <1>10. LedgerInv'  BY <1>3, <1>6, LedgerKeeps DEF DInv
  <1>11. ReceiptInv'
    <2>1. ASSUME NEW p \in receipts
          PROVE  p.no \in 1..Len(attempts'[p.cmd]) /\ attempts'[p.cmd][p.no] \in Final
      BY <1>0, <1>6 DEF DInv, ReceiptInv, Forward, SameLength, TypeOK
    <2>2. q.no \in 1..Len(attempts'[q.cmd]) /\ attempts'[q.cmd][q.no] \in Final
      BY <1>2, <1>5, <1>6, <1>7 DEF SameLength
    <2> QED BY <1>3, <2>1, <2>2 DEF ReceiptInv
  <1> QED BY <1>3, <1>6, <1>8, <1>9, <1>10, <1>11, QuietInv, FaultsType DEF device, budget

-----------------------------------------------------------------------------
(* A dispatch call. *)

\* One call is at v, the others stay.
CallGoes(u, v) == /\ call' \in [Callers -> CallStates] /\ call'[u] = v
                  /\ \A w \in Callers : w # u => call'[w] = call[w]

LEMMA CallMoves ==
  ASSUME TypeOK, NEW u \in Callers, NEW v \in CallStates, call' = [call EXCEPT ![u] = v]
  PROVE  CallGoes(u, v)
  BY DEF TypeOK, CallStates, CallGoes

LEMMA IdleCall == Idle \in CallStates /\ Idle.at = "idle"
  BY DEF CallStates, Idle

LEMMA CallReturns ==
  ASSUME TypeOK, NEW u \in Callers, Return(u)
  PROVE  CallGoes(u, Idle)
  BY IdleCall, CallMoves DEF Return

\* A step of a call that adds no attempt.
LEMMA CallKeeps ==
  ASSUME DInv, Forward, SameLength, NEW u \in Callers, NEW v \in CallStates, CallGoes(u, v),
         UNCHANGED <<machine, ledgerDue, ackDue, receipts, publisher, tx, device, adminOps>>,
         ledger \subseteq ledger', ledger' \subseteq Commands, calls' \in 0..MaxCalls,
         faults' \in 0..MaxFaults, faults' >= faults,
         v.at \notin {"idle", "append"} => v.cmd \in ledger',
         v.at = "enqueue" => v.no \in 1..Len(attempts[v.cmd]) /\ v.cmd \in Commands,
         v.at = "insert" => Len(attempts[v.cmd]) < MaxAttempts
  PROVE  DInv'
  <1>0. TypeOK  BY DEF DInv
  <1>1. TypeOK'
    <2>1. attempts' \in [Commands -> Seq(Open \cup Final)]  BY DEF Forward, Statuses
    <2>2. call' \in [Callers -> {Idle} \cup [at : {"append", "latest", "count", "insert", "enqueue"},
                                             cmd : Commands, replay : BOOLEAN, no : Nat]]
      BY DEF CallGoes, CallStates
    <2>3. ledgerDue' \subseteq ledger'  BY <1>0 DEF TypeOK
    <2> QED BY <1>0, <2>1, <2>2, <2>3 DEF TypeOK, publisher, device
  <1>2. LedgerInv'
    <2>1. \A w \in Callers : call'[w].at \notin {"idle", "append"} =>
            call'[w].cmd \in ledger' \/ (call[w].at \notin {"idle", "append"} /\ call'[w].cmd = call[w].cmd)
      BY DEF CallGoes
    <2> QED BY <1>0, <2>1, LedgerKeeps DEF DInv
  <1>3. ReceiptInv'  BY <1>0, ReceiptKeeps DEF DInv
  <1>4. CeilingInv'
    <2>1. CASE v.at # "insert"
      <3>1. \A w \in Callers : call'[w].at = "insert" => call'[w] = call[w]  BY <2>1 DEF CallGoes
      <3> QED BY <1>0, <3>1, CeilingKeeps DEF DInv
    <2>2. CASE v.at = "insert"
      <3> SUFFICES ASSUME NEW c \in Commands
                   PROVE  Len(attempts'[c]) + Cardinality(Inserting(c)') < Ceiling
        BY DEF CeilingInv, Ceiling
      <3>1. Len(attempts'[c]) = Len(attempts[c]) /\ Len(attempts[c]) \in Nat
        BY <1>0, AttemptsType DEF SameLength
      <3>2. CASE c = v.cmd
        <4>1. Inserting(c)' \subseteq Callers  BY DEF Inserting
        <4>2. /\ Cardinality(Inserting(c)') <= Cardinality(Callers)
              /\ Cardinality(Inserting(c)') \in Nat
          BY <4>1, SetsAssumption, FS_Subset, FS_CardinalityType
        <4> QED BY <2>2, <3>1, <3>2, <4>2, CallersCount, CommandLimits DEF Ceiling
      <3>3. CASE c # v.cmd
        <4>1. Inserting(c)' \subseteq Inserting(c)  BY <3>3 DEF Inserting, CallGoes
        <4>2. /\ Cardinality(Inserting(c)') <= Cardinality(Inserting(c))
              /\ Cardinality(Inserting(c)') \in Nat
          BY <4>1, InsertingCount, FS_Subset, FS_CardinalityType
        <4> QED BY <3>1, <4>2, InsertingCount, CallersCount DEF DInv, CeilingInv
      <3> QED BY <3>2, <3>3
    <2> QED BY <2>1, <2>2
  <1>5. \A w \in Callers : call'[w].at = "enqueue" =>
          call'[w] = call[w] \/ call'[w].no \in 1..Len(attempts'[call'[w].cmd])
    BY DEF CallGoes, SameLength
  <1> QED BY <1>1, <1>2, <1>3, <1>4, <1>5, QuietInv DEF device

LEMMA BudgetType == DInv => /\ calls \in 0..MaxCalls /\ adminOps \in 0..MaxAdminOps
                            /\ (calls < MaxCalls => calls + 1 \in 0..MaxCalls)
                            /\ ledger \subseteq Commands
  BY CommandLimits DEF DInv, TypeOK

LEMMA BeginInv ==
  ASSUME DInv, NEW u \in Callers, NEW c \in Commands, BeginDispatch(u, c)
  PROVE  DInv'
  <1> DEFINE v == [at |-> "append", cmd |-> c, replay |-> FALSE, no |-> 0]
  <1>0. TypeOK  BY DEF DInv
  <1>1. v \in CallStates /\ v.at = "append"  BY DEF CallStates
  <1>2. CallGoes(u, v)  BY <1>0, <1>1, CallMoves DEF BeginDispatch
  <1> HIDE DEF v
  <1>3. Forward /\ SameLength  BY <1>0, SweptForward DEF BeginDispatch
  <1> QED BY <1>1, <1>2, <1>3, CallKeeps, FaultsType, BudgetType DEF BeginDispatch

LEMMA AppendInv ==
  ASSUME DInv, NEW u \in Callers, AppendCommandUpdateShadow(u)
  PROVE  DInv'
  <1> DEFINE b == call[u].cmd \in ledger
             v == [call[u] EXCEPT !.at = "latest", !.replay = b]
  <1>0. TypeOK /\ b \in BOOLEAN  BY DEF DInv
  <1>1. /\ call[u].at = "append" /\ ledger' = ledger \cup {call[u].cmd}
        /\ call' = [call EXCEPT ![u].at = "latest", ![u].replay = b]
        /\ UNCHANGED <<machine, ledgerDue, attempts, ackDue, receipts, publisher, tx, device, budget>>
    BY DEF AppendCommandUpdateShadow
  <1> HIDE DEF b
  <1>2. call[u].cmd \in Commands /\ call[u] \in CallStates \ {Idle}  BY <1>0, <1>1, CallType
  <1>3. v \in CallStates /\ v.at = "latest" /\ v.cmd = call[u].cmd  BY <1>0, <1>2 DEF CallStates
  <1>4. call' = [call EXCEPT ![u] = v]  BY <1>0, <1>1 DEF TypeOK
  <1> HIDE DEF v
  <1>5. CallGoes(u, v)  BY <1>0, <1>3, <1>4, CallMoves
  <1>6. Forward /\ SameLength  BY <1>0, <1>1, SameForward
  <1> QED BY <1>1, <1>2, <1>3, <1>5, <1>6, CallKeeps, FaultsType, BudgetType DEF budget

LEMMA DecisionIs ==
  ASSUME TypeOK, NEW c \in Commands, NEW replay \in BOOLEAN
  PROVE  /\ Decision(c, replay) \in {"count", "enqueue", "skip"}
         /\ Decision(c, replay) = "enqueue" => Len(attempts[c]) \in 1..Len(attempts[c])
  <1>1. attempts[c] \in Seq(Statuses) /\ Len(attempts[c]) \in Nat  BY AttemptsType
  <1>2. CASE attempts[c] = <<>>
    <2>1. Latest(c) = "none"  BY <1>2 DEF Latest
    <2> QED BY <2>1 DEF Decision
  <1>3. CASE attempts[c] # <<>>
    <2>1. Len(attempts[c]) \in 1..Len(attempts[c])  BY <1>1, <1>3, EmptySeq
    <2>2. Latest(c) \in Statuses  BY <1>1, <1>3, <2>1, AttemptsType DEF Latest, Last
    <2> QED BY <2>1, <2>2 DEF Decision, Statuses, Open, Final
  <1> QED BY <1>2, <1>3

LEMMA LatestInv ==
  ASSUME DInv, NEW u \in Callers, GetLatestAttempt(u)
  PROVE  DInv'
  <1> DEFINE c == call[u].cmd
             d == Decision(c, call[u].replay)
  <1>0. TypeOK  BY DEF DInv
  <1>1. /\ call[u].at = "latest" /\ UNCHANGED <<db, publisher, tx, device, budget>>
        /\ IF d = "skip" THEN Return(u)
           ELSE call' = [call EXCEPT ![u].at = d, ![u].no = Len(attempts[c])]
    BY DEF GetLatestAttempt
  <1>2. c \in Commands /\ call[u] \in CallStates \ {Idle} /\ call[u].replay \in BOOLEAN
    BY <1>0, <1>1, CallType DEF CallStates
  <1>3. /\ d \in {"count", "enqueue", "skip"}
        /\ d = "enqueue" => Len(attempts[c]) \in 1..Len(attempts[c])
    BY <1>0, <1>2, DecisionIs
  <1>4. Forward /\ SameLength  BY <1>0, <1>1, SameForward DEF db
  <1>5. c \in ledger  BY <1>1 DEF DInv, LedgerInv
  <1>6. Len(attempts[c]) \in Nat  BY <1>0, <1>2, AttemptsType
  <1> HIDE DEF d
  <1>7. CASE d = "skip"
    <2>1. CallGoes(u, Idle)  BY <1>0, <1>1, <1>7, CallReturns
    <2> QED BY <1>1, <1>4, <2>1, IdleCall, CallKeeps, FaultsType, BudgetType DEF db, budget
  <1>8. CASE d # "skip"
    <2> DEFINE v == [call[u] EXCEPT !.at = d, !.no = Len(attempts[c])]
    <2>1. v \in CallStates /\ v.at = d /\ v.cmd = c /\ v.no = Len(attempts[c])
      BY <1>2, <1>3, <1>6, <1>8 DEF CallStates
    <2>2. call' = [call EXCEPT ![u] = v]  BY <1>0, <1>1, <1>8 DEF TypeOK
    <2> HIDE DEF v
    <2>3. CallGoes(u, v)  BY <1>0, <2>1, <2>2, CallMoves
    <2> QED BY <1>1, <1>2, <1>3, <1>4, <1>5, <1>8, <2>1, <2>3, CallKeeps, FaultsType, BudgetType
          DEF db, budget
  <1> QED BY <1>7, <1>8

LEMMA CountInv ==
  ASSUME DInv, NEW u \in Callers, CountAttempts(u)
  PROVE  DInv'
  <1> DEFINE c == call[u].cmd
             v == [call[u] EXCEPT !.at = "insert"]
  <1>0. TypeOK  BY DEF DInv
  <1>1. /\ call[u].at = "count" /\ UNCHANGED <<db, publisher, tx, device, budget>>
        /\ IF Len(attempts[c]) >= MaxAttempts THEN Return(u) ELSE call' = [call EXCEPT ![u].at = "insert"]
    BY DEF CountAttempts, Goto
  <1>2. c \in Commands /\ call[u] \in CallStates \ {Idle}  BY <1>0, <1>1, CallType
  <1>3. Len(attempts[c]) \in Nat  BY <1>0, <1>2, AttemptsType
  <1>4. Forward /\ SameLength  BY <1>0, <1>1, SameForward DEF db
  <1>5. c \in ledger  BY <1>1 DEF DInv, LedgerInv
  <1>6. v \in CallStates /\ v.at = "insert" /\ v.cmd = c  BY <1>2 DEF CallStates
  <1>7. CASE Len(attempts[c]) >= MaxAttempts
    <2>1. CallGoes(u, Idle)  BY <1>0, <1>1, <1>7, CallReturns
    <2> QED BY <1>1, <1>4, <2>1, IdleCall, CallKeeps, FaultsType, BudgetType DEF db, budget
  <1>8. CASE ~(Len(attempts[c]) >= MaxAttempts)
    <2>1. call' = [call EXCEPT ![u] = v]  BY <1>0, <1>1, <1>8 DEF TypeOK
    <2> HIDE DEF v
    <2>2. CallGoes(u, v)  BY <1>0, <1>6, <2>1, CallMoves
    <2>3. Len(attempts[v.cmd]) < MaxAttempts  BY <1>3, <1>6, <1>8, CommandLimits
    <2> QED BY <1>1, <1>4, <1>5, <1>6, <2>2, <2>3, CallKeeps, FaultsType, BudgetType DEF db, budget
  <1> QED BY <1>7, <1>8

\* The attempt that was to come is there.
LEMMA InsertInv ==
  ASSUME DInv, NEW u \in Callers, InsertAttempt(u)
  PROVE  DInv'
  <1> DEFINE c == call[u].cmd
             n == Len(attempts[c]) + 1
             v == [call[u] EXCEPT !.at = "enqueue", !.no = n]
  <1>0. TypeOK  BY DEF DInv
  <1>1. /\ call[u].at = "insert"
        /\ attempts' = [attempts EXCEPT ![c] = Append(@, "pending")]
        /\ ledgerDue' = ledgerDue \ {c}
        /\ call' = [call EXCEPT ![u].at = "enqueue", ![u].no = n]
        /\ UNCHANGED <<machine, ledger, ackDue, receipts, publisher, tx, device, budget>>
    BY DEF InsertAttempt
  <1>2. c \in Commands /\ call[u] \in CallStates \ {Idle}  BY <1>0, <1>1, CallType
  <1>3. Len(attempts[c]) \in Nat  BY <1>0, <1>2, AttemptsType
  <1>4. /\ Forward /\ Len(attempts'[c]) = Len(attempts[c]) + 1
        /\ \A d \in Commands : d # c => attempts'[d] = attempts[d]
    BY <1>0, <1>1, <1>2, InsertForward
  <1>5. c \in ledger  BY <1>1 DEF DInv, LedgerInv
  <1>6. n \in Nat  BY <1>3
  <1> HIDE DEF n
  <1>7. v \in CallStates /\ v.at = "enqueue" /\ v.cmd = c /\ v.no = n
    BY <1>2, <1>6 DEF CallStates
  <1>8. call' = [call EXCEPT ![u] = v]  BY <1>0, <1>1 DEF TypeOK
  <1> HIDE DEF v
  <1>9. CallGoes(u, v)  BY <1>0, <1>7, <1>8, CallMoves
  <1>10. TypeOK'
    <2>1. attempts' \in [Commands -> Seq(Open \cup Final)]  BY <1>4 DEF Forward, Statuses
    <2>2. call' \in [Callers -> {Idle} \cup [at : {"append", "latest", "count", "insert", "enqueue"},
                                             cmd : Commands, replay : BOOLEAN, no : Nat]]
      BY <1>9 DEF CallGoes, CallStates
    <2> QED BY <1>0, <1>1, <2>1, <2>2 DEF TypeOK, publisher, device, budget
  <1>11. LedgerInv'
    <2>1. \A d \in Commands : Len(attempts'[d]) > 0 => d \in ledger
      BY <1>4, <1>5 DEF DInv, LedgerInv
    <2>2. \A w \in Callers : call'[w].at \notin {"idle", "append"} => call'[w].cmd \in ledger
      BY <1>5, <1>7, <1>9 DEF DInv, LedgerInv, CallGoes
    <2> QED BY <1>1, <2>1, <2>2 DEF LedgerInv
  <1>12. ReceiptInv'  BY <1>0, <1>1, <1>4, ReceiptKeeps DEF DInv
  <1>13. CeilingInv'
    <2> SUFFICES ASSUME NEW d \in Commands
                 PROVE  Len(attempts'[d]) + Cardinality(Inserting(d)') < Ceiling
      BY DEF CeilingInv, Ceiling
    <2>1. Inserting(d)' = Inserting(d) \ {u}  BY <1>7, <1>9 DEF Inserting, CallGoes
    <2>2. CASE d = c
      <3>1. u \in Inserting(c)  BY <1>1 DEF Inserting
      <3>2. Cardinality(Inserting(d)') = Cardinality(Inserting(d)) - 1
        BY <2>1, <2>2, <3>1, InsertingCount, FS_RemoveElement
      <3> QED BY <1>3, <1>4, <2>2, <3>2, InsertingCount, CallersCount DEF DInv, CeilingInv
    <2>3. CASE d # c
      <3>1. Inserting(d)' \subseteq Inserting(d)  BY <2>1
      <3>2. /\ Cardinality(Inserting(d)') <= Cardinality(Inserting(d))
            /\ Cardinality(Inserting(d)') \in Nat
        BY <3>1, InsertingCount, FS_Subset, FS_CardinalityType
      <3>3. Len(attempts'[d]) = Len(attempts[d]) /\ Len(attempts[d]) \in Nat
        BY <1>0, <1>4, <2>3, AttemptsType
      <3> QED BY <3>2, <3>3, InsertingCount, CallersCount DEF DInv, CeilingInv
    <2> QED BY <2>2, <2>3
  <1>14. v.no \in 1..Len(attempts'[v.cmd])  BY <1>3, <1>4, <1>7 DEF n
  <1>15. \A w \in Callers : call'[w].at = "enqueue" =>
          call'[w] = call[w] \/ call'[w].no \in 1..Len(attempts'[call'[w].cmd])
    BY <1>9, <1>14 DEF CallGoes
  <1> QED BY <1>1, <1>4, <1>10, <1>11, <1>12, <1>13, <1>15, QuietInv, FaultsType DEF device, budget

LEMMA CallFailsInv ==
  ASSUME DInv, NEW u \in Callers, CallFails(u)
  PROVE  DInv'
  <1>0. TypeOK  BY DEF DInv
  <1>1. CallGoes(u, Idle)  BY <1>0, CallReturns DEF CallFails
  <1>2. Forward /\ SameLength  BY <1>0, SameForward DEF CallFails, db
  <1> QED BY <1>1, <1>2, IdleCall, CallKeeps, FaultsType, BudgetType DEF CallFails, db

-----------------------------------------------------------------------------
(* The publisher's queue and its in-flight set. *)

LEMMA QueueType ==
  ASSUME TypeOK, NEW r \in Replicas
  PROVE  /\ queue[r] \in Seq(Jobs) /\ Len(queue[r]) \in Nat
         /\ DOMAIN queue[r] = 1..Len(queue[r])
         /\ \A i \in 1..Len(queue[r]) : queue[r][i] \in Jobs
         /\ inflight[r] \subseteq Jobs /\ work[r] \in WorkStates
  <1>1. queue[r] \in Seq(Jobs) /\ inflight[r] \subseteq Jobs /\ work[r] \in WorkStates
    BY DEF TypeOK, WorkStates
  <1> QED BY <1>1, LenProperties, ElementOfSeq

LEMMA EnqueueKeeps ==
  ASSUME DInv, NEW r \in Replicas, NEW j \in Jobs, Exists(j), Enqueue(r, j), work' = work
  PROVE  /\ queue' \in [Replicas -> Seq(Jobs)] /\ inflight' \in [Replicas -> SUBSET Jobs]
         /\ InFlightExact'
         /\ \A s \in Replicas : \A i \in inflight'[s] : i \in inflight[s] \/ Exists(i)
  <1>0. TypeOK /\ queue \in [Replicas -> Seq(Jobs)] /\ inflight \in [Replicas -> SUBSET Jobs]
    BY DEF DInv, TypeOK
  <1>1. CASE j \in inflight[r] \/ Len(queue[r]) >= QueueCap
    <2>1. queue' = queue /\ inflight' = inflight  BY <1>1 DEF Enqueue
    <2> QED BY <1>0, <2>1 DEF DInv, InFlightExact
  <1>2. CASE ~(j \in inflight[r] \/ Len(queue[r]) >= QueueCap)
    <2> DEFINE q == Append(queue[r], j)
    <2>1. queue' = [queue EXCEPT ![r] = q] /\ inflight' = [inflight EXCEPT ![r] = @ \cup {j}]
      BY <1>2 DEF Enqueue
    <2>2. /\ q \in Seq(Jobs) /\ Len(q) = Len(queue[r]) + 1 /\ DOMAIN q = 1..Len(q)
          /\ \A i \in 1..Len(queue[r]) : q[i] = queue[r][i]
          /\ q[Len(queue[r]) + 1] = j
      BY <1>0, QueueType, AppendProperties, LenProperties
    <2> HIDE DEF q
    <2>3. /\ queue'[r] = q /\ inflight'[r] = inflight[r] \cup {j}
          /\ \A s \in Replicas : s # r => queue'[s] = queue[s] /\ inflight'[s] = inflight[s]
      BY <1>0, <2>1
    <2>4. queue' \in [Replicas -> Seq(Jobs)] /\ inflight' \in [Replicas -> SUBSET Jobs]
      BY <1>0, <2>1, <2>2
    <2>5. /\ IsInjective(queue[r])
          /\ inflight[r] = ToSet(queue[r]) \cup (IF work[r] = NoJob THEN {} ELSE {work[r].job})
          /\ work[r] # NoJob => work[r].job \notin ToSet(queue[r])
      BY DEF DInv, InFlightExact
    <2>6. ToSet(q) = ToSet(queue[r]) \cup {j}
      <3>1. ASSUME NEW x \in ToSet(q) PROVE x \in ToSet(queue[r]) \cup {j}
        <4>1. PICK i \in 1..(Len(queue[r]) + 1) : x = q[i]  BY <2>2 DEF ToSet
        <4>2. CASE i = Len(queue[r]) + 1  BY <2>2, <4>1, <4>2
        <4>3. CASE i # Len(queue[r]) + 1
          <5>1. i \in 1..Len(queue[r])  BY <1>0, <4>3, QueueType
          <5> QED BY <1>0, <2>2, <4>1, <5>1, QueueType DEF ToSet
        <4> QED BY <4>2, <4>3
      <3>2. ASSUME NEW x \in ToSet(queue[r]) PROVE x \in ToSet(q)
        <4>1. PICK i \in 1..Len(queue[r]) : x = queue[r][i]  BY <1>0, QueueType DEF ToSet
        <4>2. i \in 1..Len(q) /\ q[i] = x  BY <1>0, <2>2, <4>1, QueueType
        <4> QED BY <2>2, <4>2 DEF ToSet
      <3>3. j \in ToSet(q)
        <4>1. Len(queue[r]) + 1 \in 1..Len(q)  BY <1>0, <2>2, QueueType
        <4> QED BY <2>2, <4>1 DEF ToSet
      <3> QED BY <3>1, <3>2, <3>3
    <2>7. j \notin ToSet(queue[r])  BY <1>2, <2>5
    <2>8. IsInjective(q)
      <3> SUFFICES ASSUME NEW a \in 1..Len(q), NEW b \in 1..Len(q), q[a] = q[b] PROVE a = b
        BY <2>2 DEF IsInjective
      <3>1. \A i \in 1..Len(queue[r]) : q[i] \in ToSet(queue[r])
        BY <1>0, <2>2, QueueType DEF ToSet
      <3>2. \A i \in 1..Len(q) : i = Len(queue[r]) + 1 \/ i \in 1..Len(queue[r])
        BY <1>0, <2>2, QueueType
      <3>3. CASE a = Len(queue[r]) + 1 \/ b = Len(queue[r]) + 1
        BY <2>2, <2>7, <3>1, <3>2, <3>3
      <3>4. CASE a \in 1..Len(queue[r]) /\ b \in 1..Len(queue[r])
        BY <1>0, <2>2, <2>5, <3>4, QueueType DEF IsInjective
      <3> QED BY <3>2, <3>3, <3>4
    <2>9. InFlightExact'
      <3> SUFFICES ASSUME NEW s \in Replicas
                   PROVE  /\ IsInjective(queue'[s])
                          /\ inflight'[s] = ToSet(queue'[s]) \cup (IF work[s] = NoJob THEN {} ELSE {work[s].job})
                          /\ work[s] # NoJob => work[s].job \notin ToSet(queue'[s])
        BY DEF InFlightExact, NoJob
      <3>1. CASE s = r
        <4>1. work[r] # NoJob => work[r].job # j  BY <1>2, <2>5
        <4> QED BY <2>3, <2>5, <2>6, <2>8, <3>1, <4>1
      <3>2. CASE s # r  BY <2>3, <3>2 DEF DInv, InFlightExact
      <3> QED BY <3>1, <3>2
    <2> QED BY <2>3, <2>4, <2>9
  <1> QED BY <1>1, <1>2

\* A job is queued, and calls may end.
LEMMA EnqueueStep ==
  ASSUME DInv, NEW r \in Replicas, NEW j \in Jobs, Exists(j), Enqueue(r, j),
         UNCHANGED <<db, work, tx, device, budget>>, call' \in [Callers -> CallStates],
         \A u \in Callers : call'[u] \in {call[u], Idle}
  PROVE  DInv'
  <1>0. TypeOK  BY DEF DInv
  <1>1. Forward /\ SameLength  BY <1>0, SameForward DEF db
  <1>2. /\ queue' \in [Replicas -> Seq(Jobs)] /\ inflight' \in [Replicas -> SUBSET Jobs]
        /\ InFlightExact'
        /\ \A s \in Replicas : \A i \in inflight'[s] : i \in inflight[s] \/ Exists(i)
    BY EnqueueKeeps
  <1>3. TypeOK'  BY <1>0, <1>2 DEF TypeOK, CallStates, db, device, budget
  <1>4. \A u \in Callers : call'[u].at # "idle" => call'[u] = call[u]  BY IdleCall
  <1>5. LedgerInv'
    <2>1. \A u \in Callers : call'[u].at \notin {"idle", "append"} => call'[u] = call[u]  BY <1>4
    <2> QED BY <1>0, <1>1, <2>1, LedgerKeeps DEF DInv, db
  <1>6. CeilingInv'  BY <1>0, <1>1, <1>4, CeilingKeeps DEF DInv
  <1>7. PublishInv'  BY <1>0, <1>1, FaultsType, PublishKeeps DEF DInv, device, budget
  <1>8. ReceiptInv'  BY <1>0, <1>1, ReceiptKeeps DEF DInv, db
  <1>9. JobsExist'
    <2>1. \A u \in Callers : call'[u].at = "enqueue" =>
            \/ call'[u] = call[u] /\ call[u].cmd \in Commands /\ call[u].no \in Nat
            \/ call'[u].no \in 1..Len(attempts'[call'[u].cmd])
      BY <1>0, <1>4, CallType
    <2>2. \A c \in offered' : c \in Commands /\ c \in offered  BY <1>0 DEF TypeOK, device
    <2>3. published' = published  BY DEF device
    <2> QED BY <1>0, <1>1, <1>2, <2>1, <2>2, <2>3, JobsKeep DEF DInv
  <1> QED BY <1>2, <1>3, <1>5, <1>6, <1>7, <1>8, <1>9 DEF DInv

LEMMA EnqueuePublishInv ==
  ASSUME DInv, NEW u \in Callers, EnqueueMQTTPublish(u)
  PROVE  DInv'
  <1> DEFINE j == <<call[u].cmd, call[u].no>>
  <1>0. TypeOK  BY DEF DInv
  <1>1. /\ call[u].at = "enqueue" /\ Enqueue(Home[u], j)
        /\ UNCHANGED <<db, work, tx, device, budget>>
    BY DEF EnqueueMQTTPublish
  <1>2. CallGoes(u, Idle)  BY <1>0, CallReturns DEF EnqueueMQTTPublish
  <1>3. Home[u] \in Replicas  BY SetsAssumption
  <1>4. Exists(j)  BY <1>1 DEF DInv, JobsExist
  <1>5. j \in Jobs  BY <1>0, <1>1, <1>4, CallType, ExistingIsJob DEF DInv, Exists
  <1> HIDE DEF j
  <1> QED BY <1>1, <1>2, <1>3, <1>4, <1>5, EnqueueStep DEF CallGoes

LEMMA ReclaimInv ==
  ASSUME DInv, NEW r \in Replicas, Reclaim(r)
  PROVE  DInv'
  <1>0. TypeOK  BY DEF DInv
  <1>1. PICK c \in Commands : \E n \in DOMAIN attempts[c] : ReclaimStalePending(r, c, n)
    BY DEF Reclaim
  <1>2. PICK n \in 1..Len(attempts[c]) : ReclaimStalePending(r, c, n)
    BY <1>0, <1>1, AttemptsType
  <1> DEFINE j == <<c, n>>
  <1>3. Exists(j) /\ j \in Jobs  BY <1>0, <1>2, ExistingIsJob DEF DInv, Exists
  <1>4. Enqueue(r, j) /\ UNCHANGED <<db, work, call, tx, device, budget>>
    BY <1>2 DEF ReclaimStalePending
  <1> HIDE DEF j
  <1>5. call \in [Callers -> CallStates]  BY <1>0 DEF TypeOK, CallStates
  <1> QED BY <1>3, <1>4, <1>5, EnqueueStep

-----------------------------------------------------------------------------
(* The publisher of a replica. *)

WorkGoes(r, x) == /\ work' \in [Replicas -> WorkStates] /\ work'[r] = x
                  /\ \A s \in Replicas : s # r => work'[s] = work[s]

LEMMA WorkMoves ==
  ASSUME TypeOK, NEW r \in Replicas, NEW x \in WorkStates, work' = [work EXCEPT ![r] = x]
  PROVE  WorkGoes(r, x)
  BY DEF TypeOK, WorkStates, WorkGoes

LEMMA IdleWork == NoJob \in WorkStates /\ NoJob.at = "idle"
  BY DEF WorkStates, NoJob

LEMMA WorkType ==
  ASSUME DInv, NEW r \in Replicas
  PROVE  /\ work[r] = NoJob <=> work[r].at = "idle"
         /\ work[r].at # "idle" =>
              /\ work[r].tries \in 0..PublishMaxAttempts
              /\ work[r].at = "publish" => work[r].tries < PublishMaxAttempts
              /\ work[r].job \in Jobs /\ work[r].job \in inflight[r] /\ Exists(work[r].job)
  <1>1. work[r] \in WorkStates  BY QueueType DEF DInv
  <1>2. work[r] = NoJob <=> work[r].at = "idle"  BY <1>1 DEF WorkStates, NoJob
  <1>3. ASSUME work[r].at # "idle"
        PROVE  /\ work[r].tries \in 0..PublishMaxAttempts
               /\ work[r].at = "publish" => work[r].tries < PublishMaxAttempts
               /\ work[r].job \in Jobs
    BY <1>1, <1>3, CommandLimits DEF WorkStates, NoJob
  <1>4. work[r] # NoJob => work[r].job \in inflight[r]  BY DEF DInv, InFlightExact
  <1>5. work[r] # NoJob => Exists(work[r].job)  BY <1>4 DEF DInv, JobsExist
  <1> QED BY <1>2, <1>3, <1>4, <1>5

\* A step of a publisher.
LEMMA WorkKeeps ==
  ASSUME DInv, Forward, SameLength, UNCHANGED <<machine, ledger, ledgerDue, ackDue, receipts, tx, calls, adminOps>>,
         queue' \in [Replicas -> Seq(Jobs)], inflight' \in [Replicas -> SUBSET Jobs],
         work' \in [Replicas -> WorkStates], InFlightExact', PublishInv',
         \A r \in Replicas : inflight'[r] \subseteq inflight[r],
         call' \in [Callers -> CallStates], \A u \in Callers : call'[u] \in {call[u], Idle},
         faults' \in 0..MaxFaults,
         published' \in [Jobs -> Nat], \A j \in Jobs : published'[j] = published[j] \/ Exists(j),
         \A c \in offered' : c \in Commands /\ (c \in offered \/ Len(attempts[c]) > 0)
  PROVE  DInv'
  <1>0. TypeOK  BY DEF DInv
  <1>1. TypeOK'
    <2>1. attempts' \in [Commands -> Seq(Open \cup Final)]  BY DEF Forward, Statuses
    <2>2. call' \in [Callers -> {Idle} \cup [at : {"append", "latest", "count", "insert", "enqueue"},
                                             cmd : Commands, replay : BOOLEAN, no : Nat]]
      BY DEF CallStates
    <2>3. offered' \subseteq Commands  OBVIOUS
    <2> QED BY <1>0, <2>1, <2>2, <2>3 DEF TypeOK
  <1>2. \A u \in Callers : call'[u].at # "idle" => call'[u] = call[u]  BY IdleCall
  <1>3. LedgerInv'
    <2>1. \A u \in Callers : call'[u].at \notin {"idle", "append"} => call'[u] = call[u]  BY <1>2
    <2> QED BY <1>0, <2>1, LedgerKeeps DEF DInv
  <1>4. CeilingInv'  BY <1>0, <1>2, CeilingKeeps DEF DInv
  <1>5. ReceiptInv'  BY <1>0, ReceiptKeeps DEF DInv
  <1>6. JobsExist'
    <2>1. \A u \in Callers : call'[u].at = "enqueue" =>
            \/ call'[u] = call[u] /\ call[u].cmd \in Commands /\ call[u].no \in Nat
            \/ call'[u].no \in 1..Len(attempts'[call'[u].cmd])
      BY <1>0, <1>2, CallType
    <2> QED BY <1>0, <2>1, JobsKeep DEF DInv
  <1> QED BY <1>1, <1>3, <1>4, <1>5, <1>6 DEF DInv

LEMMA FrameTypes ==
  DInv => /\ queue \in [Replicas -> Seq(Jobs)] /\ inflight \in [Replicas -> SUBSET Jobs]
          /\ work \in [Replicas -> WorkStates] /\ call \in [Callers -> CallStates]
          /\ published \in [Jobs -> Nat] /\ offered \subseteq Commands
  BY DEF DInv, TypeOK, WorkStates, CallStates

\* The first job of an injective queue is not in the rest of it.
LEMMA QueueHead ==
  ASSUME TypeOK, NEW r \in Replicas, queue[r] # <<>>, IsInjective(queue[r])
  PROVE  /\ Head(queue[r]) \in Jobs /\ Tail(queue[r]) \in Seq(Jobs)
         /\ IsInjective(Tail(queue[r]))
         /\ Head(queue[r]) \notin ToSet(Tail(queue[r]))
         /\ ToSet(queue[r]) = ToSet(Tail(queue[r])) \cup {Head(queue[r])}
  <1> DEFINE q == queue[r]
             t == Tail(queue[r])
  <1>1. q \in Seq(Jobs) /\ Len(q) \in Nat /\ DOMAIN q = 1..Len(q)  BY QueueType
  <1>2. Len(q) # 0  BY <1>1, EmptySeq
  <1>3. /\ t \in Seq(Jobs) /\ Len(t) = Len(q) - 1 /\ Head(q) \in Jobs
        /\ \A i \in 1..Len(t) : t[i] = q[i + 1]
    BY <1>1, HeadTailProperties
  <1>4. DOMAIN t = 1..Len(t) /\ Head(q) = q[1]  BY <1>1, <1>2, <1>3
  <1> HIDE DEF t, q
  <1>5. \A i \in 1..Len(t) : i + 1 \in 1..Len(q) /\ i + 1 # 1  BY <1>1, <1>3
  <1>6. IsInjective(q)  BY DEF q
  <1>7. IsInjective(t)
    <2> SUFFICES ASSUME NEW a \in 1..Len(t), NEW b \in 1..Len(t), t[a] = t[b] PROVE a = b
      BY <1>4 DEF IsInjective
    <2>1. a + 1 = b + 1  BY <1>1, <1>3, <1>5, <1>6, SMTT(40) DEF IsInjective
    <2> QED BY <2>1
  <1>8. Head(q) \notin ToSet(t)
    <2>1. 1 \in 1..Len(q)  BY <1>1, <1>2
    <2> QED BY <1>1, <1>3, <1>4, <1>5, <1>6, <2>1 DEF ToSet, IsInjective
  <1>9. ToSet(q) = ToSet(t) \cup {Head(q)}
    <2>1. ASSUME NEW i \in 1..Len(q) PROVE q[i] \in ToSet(t) \cup {Head(q)}
      <3>1. CASE i = 1  BY <1>4, <3>1
      <3>2. CASE i # 1
        <4>1. i - 1 \in 1..Len(t) /\ (i - 1) + 1 = i  BY <1>1, <1>3, <3>2
        <4>2. t[i - 1] = q[i]  BY <1>3, <4>1
        <4> QED BY <1>4, <4>1, <4>2 DEF ToSet
      <3> QED BY <3>1, <3>2
    <2>2. \A i \in 1..Len(t) : t[i] \in ToSet(q)  BY <1>1, <1>3, <1>5 DEF ToSet
    <2>3. Head(q) \in ToSet(q)
      <3>1. 1 \in 1..Len(q)  BY <1>1, <1>2
      <3> QED BY <1>1, <1>4, <3>1 DEF ToSet
    <2>4. ToSet(q) \subseteq ToSet(t) \cup {Head(q)}  BY <1>1, <2>1 DEF ToSet
    <2>5. ToSet(t) \subseteq ToSet(q)  BY <1>4, <2>2 DEF ToSet
    <2> QED BY <2>3, <2>4, <2>5
  <1> QED BY <1>3, <1>7, <1>8, <1>9 DEF t, q

\* Only a pending job is taken, so it does not matter who else is about to publish it.
LEMMA TakeJobInv ==
  ASSUME DInv, NEW r \in Replicas, TakeJob(r)
  PROVE  DInv'
  <1> DEFINE j == Head(queue[r])
             x == [at |-> "publish", job |-> j, tries |-> 0]
  <1>0. TypeOK  BY DEF DInv
  <1>1. /\ work[r] = NoJob /\ queue[r] # <<>>
        /\ queue' = [queue EXCEPT ![r] = Tail(@)]
        /\ IF Status(j) = "pending"
           THEN work' = [work EXCEPT ![r] = x] /\ UNCHANGED inflight
           ELSE inflight' = [inflight EXCEPT ![r] = @ \ {j}] /\ UNCHANGED work
        /\ UNCHANGED <<db, call, tx, device, budget>>
    BY DEF TakeJob
  <1>2. /\ IsInjective(queue[r]) /\ inflight[r] = ToSet(queue[r])  BY <1>1 DEF DInv, InFlightExact
  <1>3. /\ j \in Jobs /\ Tail(queue[r]) \in Seq(Jobs) /\ IsInjective(Tail(queue[r]))
        /\ j \notin ToSet(Tail(queue[r])) /\ ToSet(queue[r]) = ToSet(Tail(queue[r])) \cup {j}
    BY <1>0, <1>1, <1>2, QueueHead
  <1>4. Exists(j)  BY <1>2, <1>3 DEF DInv, JobsExist
  <1>5. /\ queue' \in [Replicas -> Seq(Jobs)] /\ queue'[r] = Tail(queue[r])
        /\ \A s \in Replicas : s # r => queue'[s] = queue[s]
    BY <1>1, <1>3, FrameTypes
  <1>6. Forward /\ SameLength  BY <1>0, <1>1, SameForward DEF db
  <1>7. x \in WorkStates /\ x.at = "publish" /\ x.job = j /\ x.tries = 0 /\ x # NoJob
    BY <1>3, CommandLimits DEF WorkStates, NoJob
  <1> HIDE DEF j, x
  <1>8. CASE Status(j) = "pending"
    <2>1. WorkGoes(r, x) /\ inflight' = inflight  BY <1>0, <1>1, <1>7, <1>8, WorkMoves
    <2>2. InFlightExact'
      <3> SUFFICES ASSUME NEW s \in Replicas
                   PROVE  /\ IsInjective(queue'[s])
                          /\ inflight'[s] = ToSet(queue'[s]) \cup (IF work'[s] = NoJob THEN {} ELSE {work'[s].job})
                          /\ work'[s] # NoJob => work'[s].job \notin ToSet(queue'[s])
        BY DEF InFlightExact, NoJob
      <3>1. CASE s = r  BY <1>2, <1>3, <1>5, <1>7, <2>1, <3>1 DEF WorkGoes
      <3>2. CASE s # r  BY <1>5, <2>1, <3>2 DEF WorkGoes, DInv, InFlightExact
      <3> QED BY <3>1, <3>2
    <2>3. PublishInv'
      <3>1. attempts' = attempts /\ published' = published /\ faults' = faults
        BY <1>1 DEF db, device, budget
      <3> SUFFICES ASSUME NEW i \in Jobs
                   PROVE  IF IsPending(i) THEN published[i] <= Cardinality(Tried(i)') + Lost
                          ELSE published[i] + Cardinality(ToTry(i)') <= Cardinality(Tries) + Lost
        BY <3>1 DEF PublishInv, IsPending, Exists, Status, Lost, Tries
      <3>2. Tried(i)' = Tried(i)
        <4>1. ASSUME NEW t \in Tries PROVE t \in Tried(i)' <=> t \in Tried(i)
          <5>1. t[1] \in Replicas /\ t[2] \in Nat /\ t[2] >= 1  BY <4>1, CommandLimits DEF Tries
          <5>2. CASE t[1] = r  BY <1>1, <1>7, <2>1, <5>1, <5>2, IdleWork DEF Tried, WorkGoes, Tries
          <5>3. CASE t[1] # r  BY <2>1, <5>1, <5>3 DEF Tried, WorkGoes, Tries
          <5> QED BY <5>2, <5>3
        <4> QED BY <4>1 DEF Tried, Tries
      <3>3. i # j => ToTry(i)' = ToTry(i)
        <4>1. ASSUME i # j, NEW t \in Tries PROVE t \in ToTry(i)' <=> t \in ToTry(i)
          <5>1. t[1] \in Replicas  BY <4>1 DEF Tries
          <5> QED BY <1>1, <1>7, <2>1, <4>1, <5>1, IdleWork DEF ToTry, WorkGoes, Tries
        <4> QED BY <4>1 DEF ToTry, Tries
      <3>4. IsPending(j)  BY <1>4, <1>8 DEF IsPending
      <3> QED BY <3>2, <3>3, <3>4 DEF DInv, PublishInv
    <2>4. \A c \in offered' : c \in Commands /\ c \in offered  BY <1>1, FrameTypes DEF device
    <2>5. faults' \in 0..MaxFaults /\ published' = published /\ call' = call
      BY <1>1, FaultsType DEF device, budget
    <2> QED BY <1>1, <1>5, <1>6, <2>1, <2>2, <2>3, <2>4, <2>5, FrameTypes, WorkKeeps
          DEF db, budget, WorkGoes
  <1>9. CASE Status(j) # "pending"
    <2>1. inflight' = [inflight EXCEPT ![r] = @ \ {j}] /\ work' = work  BY <1>1, <1>9
    <2>2. /\ inflight' \in [Replicas -> SUBSET Jobs] /\ inflight'[r] = inflight[r] \ {j}
          /\ \A s \in Replicas : s # r => inflight'[s] = inflight[s]
      BY <2>1, FrameTypes
    <2>3. InFlightExact'
      <3> SUFFICES ASSUME NEW s \in Replicas
                   PROVE  /\ IsInjective(queue'[s])
                          /\ inflight'[s] = ToSet(queue'[s]) \cup (IF work[s] = NoJob THEN {} ELSE {work[s].job})
                          /\ work[s] # NoJob => work[s].job \notin ToSet(queue'[s])
        BY <2>1 DEF InFlightExact, NoJob
      <3>1. CASE s = r  BY <1>1, <1>2, <1>3, <1>5, <2>2, <3>1
      <3>2. CASE s # r  BY <1>5, <2>2, <3>2 DEF DInv, InFlightExact
      <3> QED BY <3>1, <3>2
    <2>4. PublishInv'  BY <1>0, <1>1, <1>6, <2>1, FaultsType, PublishKeeps DEF DInv, device, budget
    <2>5. \A c \in offered' : c \in Commands /\ c \in offered  BY <1>1, FrameTypes DEF device
    <2>6. faults' \in 0..MaxFaults /\ published' = published /\ call' = call
      BY <1>1, FaultsType DEF device, budget
    <2>7. \A s \in Replicas : inflight'[s] \subseteq inflight[s]  BY <2>2
    <2> QED BY <1>1, <1>5, <1>6, <2>1, <2>2, <2>3, <2>4, <2>5, <2>6, <2>7, FrameTypes, WorkKeeps
          DEF db, budget
  <1> QED BY <1>8, <1>9

\* One try more, and at most one publish more.
LEMMA PublishStep ==
  ASSUME DInv, NEW r \in Replicas, work[r].at = "publish",
         NEW x \in WorkStates, x.at # "idle", x.job = work[r].job, x.tries = work[r].tries + 1,
         work' = [work EXCEPT ![r] = x],
         Delivered(work[r].job) \/ UNCHANGED device,
         UNCHANGED <<db, queue, inflight, call, tx, budget>>
  PROVE  DInv'
  <1> DEFINE j == work[r].job
  <1>0. TypeOK  BY DEF DInv
  <1>1. /\ j \in Jobs /\ Exists(j) /\ work[r] # NoJob
        /\ work[r].tries \in Nat /\ work[r].tries < PublishMaxAttempts
    BY WorkType, CommandLimits
  <1>2. x # NoJob  BY DEF NoJob
  <1>4. WorkGoes(r, x)  BY <1>0, WorkMoves
  <1>5. /\ published' \in [Jobs -> Nat] /\ published'[j] <= published[j] + 1
        /\ \A i \in Jobs : i # j => published'[i] = published[i]
    <2>1. CASE Delivered(j)
      <3>1. published' = [published EXCEPT ![j] = published[j] + 1]  BY <2>1 DEF Delivered
      <3> HIDE DEF j
      <3> QED BY <1>1, <3>1, FrameTypes
    <2>2. CASE UNCHANGED device
      <3>1. published' = published  BY <2>2 DEF device
      <3> HIDE DEF j
      <3> QED BY <1>1, <3>1, FrameTypes
    <2> QED BY <2>1, <2>2
  <1>6. Forward /\ SameLength  BY <1>0, SameForward DEF db
  <1>7. InFlightExact'
    <2> SUFFICES ASSUME NEW s \in Replicas
                 PROVE  /\ IsInjective(queue[s])
                        /\ inflight[s] = ToSet(queue[s]) \cup (IF work'[s] = NoJob THEN {} ELSE {work'[s].job})
                        /\ work'[s] # NoJob => work'[s].job \notin ToSet(queue[s])
      BY DEF InFlightExact, NoJob
    <2>1. CASE s = r  BY <1>1, <1>2, <1>4, <2>1 DEF WorkGoes, DInv, InFlightExact
    <2>2. CASE s # r  BY <1>4, <2>2 DEF WorkGoes, DInv, InFlightExact
    <2> QED BY <2>1, <2>2
  <1>8. PublishInv'
    <2>1. attempts' = attempts /\ faults' = faults /\ faults \in Nat  BY FaultsType DEF db, budget
    <2>l. Lost \in Nat  BY <2>1, LostGrows
    <2> SUFFICES ASSUME NEW i \in Jobs
                 PROVE  IF IsPending(i) THEN published'[i] <= Cardinality(Tried(i)') + Lost
                        ELSE published'[i] + Cardinality(ToTry(i)') <= Cardinality(Tries) + Lost
      BY <2>1 DEF PublishInv, IsPending, Exists, Status, Lost, Tries
    <2> DEFINE n == <<r, work[r].tries + 1>>
    <2>2. n \in Tries /\ n[1] = r /\ n[2] = work[r].tries + 1  BY <1>1, CommandLimits DEF Tries
    <2> HIDE DEF n
    <2>3. \A t \in Tries : t[1] \in Replicas /\ t[2] \in Nat /\ t = <<t[1], t[2]>>
      BY CommandLimits DEF Tries
    <2>4. CASE i # j
      <3>1. \A t \in Tries : (t \in Tried(i)' <=> t \in Tried(i)) /\ (t \in ToTry(i)' <=> t \in ToTry(i))
        BY <1>4, <2>3, <2>4 DEF Tried, ToTry, WorkGoes, Tries
      <3>2. Tried(i)' = Tried(i) /\ ToTry(i)' = ToTry(i)  BY <3>1 DEF Tried, ToTry, Tries
      <3> QED BY <1>5, <2>4, <3>2 DEF DInv, PublishInv
    <2>5. CASE i = j
      <3>1. Tried(i)' = Tried(i) \cup {n} /\ n \notin Tried(i)
        <4>1. ASSUME NEW t \in Tries PROVE t \in Tried(i)' <=> (t \in Tried(i) \/ t = n)
          <5>1. CASE t[1] # r  BY <1>4, <2>2, <2>3, <5>1 DEF Tried, WorkGoes, Tries
          <5>2. CASE t[1] = r
            <6>1. t \in Tried(i)' <=> t[2] <= work[r].tries + 1
              BY <1>4, <2>3, <2>5, <5>2 DEF Tried, WorkGoes, Tries
            <6>2. t \in Tried(i) <=> t[2] <= work[r].tries  BY <2>3, <2>5, <5>2 DEF Tried
            <6>3. t = n <=> t[2] = work[r].tries + 1  BY <2>2, <2>3, <5>2 DEF n
            <6>4. t[2] <= work[r].tries + 1 <=> t[2] <= work[r].tries \/ t[2] = work[r].tries + 1
              BY <1>1, <2>3
            <6> QED BY <6>1, <6>2, <6>3, <6>4
          <5> QED BY <5>1, <5>2
        <4>2. n \notin Tried(i)  BY <1>1, <2>2 DEF Tried
        <4> QED BY <2>2, <4>1, <4>2 DEF Tried, Tries
      <3>2. ToTry(i)' \subseteq ToTry(i) \ {n} /\ n \in ToTry(i)
        <4>1. ASSUME NEW t \in Tries, t \in ToTry(i)' PROVE t \in ToTry(i) /\ t # n
          <5>1. CASE t[1] # r  BY <1>4, <2>2, <2>3, <4>1, <5>1 DEF ToTry, WorkGoes, Tries
          <5>2. CASE t[1] = r
            <6>0. ~(t[2] <= x.tries)  BY <1>4, <2>3, <4>1, <5>2 DEF ToTry, WorkGoes, Tries
            <6>1. t[2] > work[r].tries + 1  BY <1>1, <2>3, <6>0
            <6> QED BY <1>1, <2>2, <2>3, <2>5, <5>2, <6>1 DEF ToTry
          <5> QED BY <5>1, <5>2
        <4>2. n \in ToTry(i)  BY <1>1, <2>2, <2>5 DEF ToTry
        <4> QED BY <4>1, <4>2 DEF ToTry, Tries
      <3>3. Cardinality(Tried(i)') = Cardinality(Tried(i)) + 1
        BY <3>1, PublisherCount, FS_AddElement
      <3>4. /\ Cardinality(ToTry(i)') <= Cardinality(ToTry(i)) - 1
            /\ Cardinality(ToTry(i)') \in Nat
        <4>1. /\ IsFiniteSet(ToTry(i) \ {n})
              /\ Cardinality(ToTry(i) \ {n}) = Cardinality(ToTry(i)) - 1
          BY <3>2, PublisherCount, FS_RemoveElement
        <4> QED BY <3>2, <4>1, FS_Subset, FS_CardinalityType
      <3>5. published[i] \in Nat /\ published'[i] \in Nat /\ published'[i] <= published[i] + 1
        BY <1>5, <2>5, FrameTypes, SMTT(40)
      <3> QED BY <2>l, <3>3, <3>4, <3>5, PublisherCount DEF DInv, PublishInv
    <2> QED BY <2>4, <2>5
  <1>9. ASSUME NEW c \in offered' PROVE c \in Commands /\ (c \in offered \/ Len(attempts[c]) > 0)
    <2>1. CASE c \in offered  BY <2>1, FrameTypes
    <2>2. CASE c = j[1]
      <3>1. c \in Commands  BY <1>1, <2>2, JobIs
      <3>2. Len(attempts[c]) \in Nat  BY <1>0, <3>1, AttemptsType
      <3> QED BY <1>1, <2>2, <3>1, <3>2 DEF Exists
    <2> QED BY <2>1, <2>2 DEF Delivered, device
  <1>10. \A i \in Jobs : published'[i] = published[i] \/ Exists(i)  BY <1>1, <1>5
  <1>11. faults' \in 0..MaxFaults  BY FaultsType DEF budget
  <1> QED BY <1>4, <1>5, <1>6, <1>7, <1>8, <1>9, <1>10, <1>11, FrameTypes, WorkKeeps
        DEF db, budget, WorkGoes

\* A try, whatever its outcome, is such a step.
LEMMA TryInv ==
  ASSUME DInv, NEW r \in Replicas, PublishDeviceDispatch(r) \/ PublishFails(r)
  PROVE  DInv'
  <1>1. /\ work[r].at = "publish" /\ work[r].job \in Jobs
        /\ work[r].tries \in Nat /\ work[r].tries < PublishMaxAttempts
    <2>1. work[r].at = "publish"  BY DEF PublishDeviceDispatch, PublishFails
    <2> QED BY <2>1, WorkType, CommandLimits
  <1>3. PICK to \in {"publish", "sent", "failed"} :
           AfterTry(r, to) /\ (to = "publish" => work[r].tries + 1 < PublishMaxAttempts)
    <2>1. CASE PublishDeviceDispatch(r)  BY <2>1 DEF PublishDeviceDispatch
    <2>2. CASE PublishFails(r)
      <3>1. CASE work[r].tries + 1 < PublishMaxAttempts
        <4>1. AfterTry(r, "publish")  BY <2>2, <3>1 DEF PublishFails
        <4> QED BY <3>1, <4>1
      <3>2. CASE ~(work[r].tries + 1 < PublishMaxAttempts)
        <4>1. AfterTry(r, "failed")  BY <2>2, <3>2 DEF PublishFails
        <4> QED BY <4>1
      <3> QED BY <3>1, <3>2
    <2> QED BY <2>1, <2>2
  <1> DEFINE x == [at |-> to, job |-> work[r].job, tries |-> work[r].tries + 1]
  <1>4. x \in WorkStates
    <2>1. work[r].tries + 1 \in 1..PublishMaxAttempts  BY <1>1, CommandLimits
    <2>2. to = "publish" => work[r].tries + 1 \in 0..(PublishMaxAttempts - 1)
      BY <1>1, <1>3, CommandLimits
    <2> QED BY <1>1, <2>1, <2>2 DEF WorkStates
  <1>5. work' = [work EXCEPT ![r] = x]  BY <1>3 DEF AfterTry
  <1>6. x.at # "idle" /\ x.job = work[r].job /\ x.tries = work[r].tries + 1  OBVIOUS
  <1> HIDE DEF x
  <1>7. /\ Delivered(work[r].job) \/ UNCHANGED device
        /\ UNCHANGED <<db, queue, inflight, call, tx, budget>>
    BY DEF PublishDeviceDispatch, PublishFails
  <1> QED BY <1>1, <1>4, <1>5, <1>6, <1>7, PublishStep

\* A replica that lets its job go has marked it, or a fault is on the books.
LEMMA PublishRelease ==
  ASSUME DInv, Forward, NEW r \in Replicas, WorkGoes(r, NoJob), published' = published,
         faults' \in Nat, faults' >= faults,
         work[r].at # "idle" =>
           faults' >= faults + 1 \/ attempts'[work[r].job[1]][work[r].job[2]] # "pending"
  PROVE  PublishInv'
  <1>0. TypeOK /\ JobsExist /\ faults \in Nat  BY FaultsType DEF DInv
  <1>l. /\ Lost \in Nat /\ Lost' \in Nat /\ Lost' >= Lost
        /\ faults' >= faults + 1 => Lost' >= Lost + PublishMaxAttempts
    BY <1>0, LostGrows
  <1> SUFFICES ASSUME NEW j \in Jobs
               PROVE  IF j[2] \in 1..Len(attempts'[j[1]]) /\ attempts'[j[1]][j[2]] = "pending"
                      THEN published[j] <= Cardinality(Tried(j)') + Lost'
                      ELSE published[j] + Cardinality(ToTry(j)') <= Cardinality(Tries) + Lost'
    BY DEF PublishInv, IsPending, Exists, Status, Tries
  <1>1. published[j] \in Nat  BY FrameTypes
  <1> DEFINE L == {r} \X (1..PublishMaxAttempts)
             Mine == work[r].at # "idle" /\ work[r].job = j
  <1>2. /\ Tried(j)' \subseteq Tried(j) /\ Tried(j) \subseteq Tried(j)' \cup L
        /\ ~Mine => Tried(j)' = Tried(j) /\ ToTry(j)' \subseteq ToTry(j)
        /\ ToTry(j)' \subseteq ToTry(j)
    <2>1. ASSUME NEW t \in Tries
          PROVE  /\ t \in Tried(j)' => t \in Tried(j)
                 /\ t \in Tried(j) => t \in Tried(j)' \/ t \in L
                 /\ ~Mine /\ t \in Tried(j) => t \in Tried(j)'
                 /\ t \in ToTry(j)' => t \in ToTry(j)
      <3>1. t[1] \in Replicas /\ t[2] \in 1..PublishMaxAttempts /\ t = <<t[1], t[2]>>
        BY <2>1 DEF Tries
      <3>2. CASE t[1] = r
        <4>1. t \notin Tried(j)' /\ t \notin ToTry(j)'
          BY <3>1, <3>2, IdleWork DEF Tried, ToTry, WorkGoes, Tries
        <4>2. t \in L  BY <3>1, <3>2
        <4>3. ~Mine => t \notin Tried(j)  BY <3>2 DEF Tried
        <4> QED BY <4>1, <4>2, <4>3
      <3>3. CASE t[1] # r  BY <3>1, <3>3 DEF Tried, ToTry, WorkGoes, Tries
      <3> QED BY <3>2, <3>3
    <2>2. /\ Tried(j)' \subseteq Tries /\ ToTry(j)' \subseteq Tries
          /\ Tried(j) \subseteq Tries
      BY DEF Tried, ToTry, Tries
    <2> QED BY <2>1, <2>2
  <1>3. IsFiniteSet(L) /\ Cardinality(L) = PublishMaxAttempts
    <2> DEFINE X == {r}
               I == 1..PublishMaxAttempts
    <2>1. /\ IsFiniteSet(X) /\ Cardinality(X) = 1 /\ IsFiniteSet(I)
          /\ Cardinality(I) = PublishMaxAttempts /\ PublishMaxAttempts \in Nat
      BY FS_Singleton, LoopCount
    <2> HIDE DEF X, I
    <2>2. IsFiniteSet(X \X I) /\ Cardinality(X \X I) = Cardinality(X) * Cardinality(I)
      BY <2>1, FS_Product
    <2> QED BY <2>1, <2>2 DEF X, I
  <1> HIDE DEF L, Mine
  <1>c. /\ Cardinality(Tried(j)') \in Nat /\ Cardinality(ToTry(j)') \in Nat
        /\ Cardinality(Tried(j)) <= Cardinality(Tried(j)') + PublishMaxAttempts
        /\ Cardinality(ToTry(j)') <= Cardinality(ToTry(j))
    <2>1. IsFiniteSet(Tried(j)') /\ IsFiniteSet(ToTry(j)')
      BY <1>2, PublisherCount, FS_Subset
    <2> DEFINE A == Tried(j)'
    <2>2. IsFiniteSet(A) /\ A = Tried(j)'  BY <2>1
    <2> HIDE DEF A
    <2>3. /\ IsFiniteSet(A \cup L) /\ IsFiniteSet(A \cap L)
          /\ Cardinality(A \cup L) = Cardinality(A) + Cardinality(L) - Cardinality(A \cap L)
      BY <1>3, <2>2, FS_Union, FS_Intersection
    <2>4. Cardinality(A \cap L) \in Nat /\ Cardinality(A) \in Nat  BY <2>2, <2>3, FS_CardinalityType
    <2>5. Cardinality(Tried(j)) <= Cardinality(A \cup L)  BY <1>2, <2>2, <2>3, FS_Subset
    <2>6. Cardinality(ToTry(j)') <= Cardinality(ToTry(j)) /\ Cardinality(ToTry(j)') \in Nat
      BY <1>2, <2>1, PublisherCount, FS_Subset, FS_CardinalityType
    <2> QED BY <1>3, <2>2, <2>3, <2>4, <2>5, <2>6, PublisherCount, CommandLimits
  <1>4. CASE j[2] \in 1..Len(attempts'[j[1]]) /\ attempts'[j[1]][j[2]] = "pending"
    <2>1. IsPending(j) \/ published[j] = 0  BY <1>0, <1>4, PendingBefore
    <2>2. Mine => faults' >= faults + 1  BY <1>4 DEF Mine
    <2>4. CASE published[j] = 0  BY <1>l, <1>c, <1>4, <2>4
    <2>5. CASE IsPending(j)
      <3>1. published[j] <= Cardinality(Tried(j)) + Lost  BY <2>5 DEF DInv, PublishInv
      <3>2. CASE Mine
        <4>1. /\ Cardinality(Tried(j)) \in Nat /\ PublishMaxAttempts \in Nat
              /\ Lost' >= Lost + PublishMaxAttempts
          BY <1>l, <2>2, <3>2, PublisherCount, CommandLimits
        <4>2. published[j] <= Cardinality(Tried(j)') + Lost'  BY <1>1, <1>l, <1>c, <3>1, <4>1
        <4> QED BY <1>4, <4>2
      <3>3. CASE ~Mine
        <4>1. Cardinality(Tried(j)') = Cardinality(Tried(j))  BY <1>2, <3>3
        <4> QED BY <1>1, <1>l, <1>c, <1>4, <3>1, <4>1, PublisherCount
      <3> QED BY <3>2, <3>3
    <2> QED BY <2>1, <2>4, <2>5
  <1>5. CASE ~(j[2] \in 1..Len(attempts'[j[1]]) /\ attempts'[j[1]][j[2]] = "pending")
    <2>1. published[j] + Cardinality(ToTry(j)) <= Cardinality(Tries) + Lost
      BY <1>1, <1>l, PublisherCount DEF DInv, PublishInv
    <2> QED BY <1>1, <1>l, <1>c, <1>5, <2>1, PublisherCount
  <1> QED BY <1>4, <1>5

LEMMA ReleaseInv ==
  ASSUME DInv, Forward, SameLength, NEW r \in Replicas, work[r].at \in {"sent", "failed"}, Release(r),
         UNCHANGED <<machine, ledger, ledgerDue, ackDue, receipts, queue, call, tx, device, calls, adminOps>>,
         faults' \in 0..MaxFaults, faults' >= faults,
         faults' >= faults + 1 \/ attempts'[work[r].job[1]][work[r].job[2]] # "pending"
  PROVE  DInv'
  <1> DEFINE j == work[r].job
  <1>0. TypeOK  BY DEF DInv
  <1>1. WorkGoes(r, NoJob)  BY <1>0, IdleWork, WorkMoves DEF Release
  <1>2. /\ inflight' \in [Replicas -> SUBSET Jobs] /\ inflight'[r] = inflight[r] \ {j}
        /\ \A s \in Replicas : s # r => inflight'[s] = inflight[s]
    BY FrameTypes DEF Release
  <1>3. work[r] # NoJob  BY WorkType
  <1>4. InFlightExact'
    <2> SUFFICES ASSUME NEW s \in Replicas
                 PROVE  /\ IsInjective(queue[s])
                        /\ inflight'[s] = ToSet(queue[s]) \cup (IF work'[s] = NoJob THEN {} ELSE {work'[s].job})
                        /\ work'[s] # NoJob => work'[s].job \notin ToSet(queue[s])
      BY DEF InFlightExact, NoJob
    <2>1. CASE s = r  BY <1>1, <1>2, <1>3, <2>1 DEF WorkGoes, DInv, InFlightExact
    <2>2. CASE s # r  BY <1>1, <1>2, <2>2 DEF WorkGoes, DInv, InFlightExact
    <2> QED BY <2>1, <2>2
  <1>5. published' = published /\ offered' = offered  BY DEF device
  <1>6. faults' \in Nat  BY CommandLimits
  <1>7. PublishInv'  BY <1>1, <1>5, <1>6, PublishRelease
  <1>8. \A c \in offered' : c \in Commands /\ c \in offered  BY <1>5, FrameTypes
  <1>9. \A s \in Replicas : inflight'[s] \subseteq inflight[s]  BY <1>2
  <1> QED BY <1>1, <1>2, <1>4, <1>5, <1>7, <1>8, <1>9, FrameTypes, WorkKeeps DEF WorkGoes

LEMMA MarkInv ==
  ASSUME DInv, NEW r \in Replicas, MarkSent(r) \/ MarkPublishFailed(r)
  PROVE  DInv'
  <1> DEFINE j == work[r].job
  <1>0. TypeOK  BY DEF DInv
  <1>1. PICK to \in {"sent", "publish_failed"} : attempts' = Moved(j, {"pending"}, to)
    BY DEF MarkSent, MarkPublishFailed
  <1>2. /\ work[r].at \in {"sent", "failed"} /\ Release(r)
        /\ UNCHANGED <<machine, ledger, ledgerDue, ackDue, receipts, queue, call, tx, device, budget>>
    BY DEF MarkSent, MarkPublishFailed
  <1>3. j \in Jobs /\ Exists(j)  BY <1>2, WorkType
  <1>4. /\ j = <<j[1], j[2]>> /\ j[1] \in Commands /\ j[2] \in 1..Len(attempts[j[1]])
    BY <1>3, JobIs DEF Exists
  <1>5. to \in Statuses \ {"pending"} /\ {"pending"} \in SUBSET Open  BY DEF Statuses, Open, Final
  <1> HIDE DEF j
  <1>6. /\ Forward /\ SameLength
        /\ attempts'[j[1]][j[2]] = IF attempts[j[1]][j[2]] \in {"pending"} THEN to ELSE attempts[j[1]][j[2]]
    BY <1>0, <1>1, <1>4, <1>5, MovedForward
  <1>7. attempts'[work[r].job[1]][work[r].job[2]] # "pending"  BY <1>5, <1>6, SMTT(40) DEF j
  <1> QED BY <1>2, <1>6, <1>7, FaultsType, ReleaseInv DEF budget

LEMMA MarkLostInv == ASSUME DInv, NEW r \in Replicas, MarkLost(r) PROVE DInv'
  <1>0. TypeOK  BY DEF DInv
  <1>1. Forward /\ SameLength  BY <1>0, SameForward DEF MarkLost, db
  <1>2. faults' \in 0..MaxFaults /\ faults' >= faults /\ faults' >= faults + 1
    BY FaultsType DEF MarkLost
  <1> QED BY <1>1, <1>2, ReleaseInv DEF MarkLost, db

LEMMA CrashInv == ASSUME DInv, NEW r \in Replicas, Crash(r) PROVE DInv'
  <1>0. TypeOK  BY DEF DInv
  <1>1. Forward /\ SameLength  BY <1>0, SameForward DEF Crash, db
  <1>2. faults' \in 0..MaxFaults /\ faults' \in Nat /\ faults' >= faults /\ faults' >= faults + 1
    BY FaultsType, CommandLimits DEF Crash
  <1>3. WorkGoes(r, NoJob)  BY <1>0, IdleWork, WorkMoves DEF Crash
  <1>4. published' = published /\ offered' = offered  BY DEF Crash, device
  <1>5. PublishInv'  BY <1>1, <1>2, <1>3, <1>4, PublishRelease
  <1>6. /\ queue' \in [Replicas -> Seq(Jobs)] /\ queue'[r] = <<>>
        /\ \A s \in Replicas : s # r => queue'[s] = queue[s]
    <2>1. <<>> \in Seq(Jobs)  BY EmptySeq
    <2> QED BY <2>1, FrameTypes DEF Crash
  <1>7. /\ inflight' \in [Replicas -> SUBSET Jobs] /\ inflight'[r] = {}
        /\ \A s \in Replicas : s # r => inflight'[s] = inflight[s]
    BY FrameTypes DEF Crash
  <1>8. InFlightExact'
    <2> SUFFICES ASSUME NEW s \in Replicas
                 PROVE  /\ IsInjective(queue'[s])
                        /\ inflight'[s] = ToSet(queue'[s]) \cup (IF work'[s] = NoJob THEN {} ELSE {work'[s].job})
                        /\ work'[s] # NoJob => work'[s].job \notin ToSet(queue'[s])
      BY DEF InFlightExact, NoJob
    <2>1. CASE s = r  BY <1>3, <1>6, <1>7, <2>1 DEF WorkGoes, IsInjective, ToSet
    <2>2. CASE s # r  BY <1>3, <1>6, <1>7, <2>2 DEF WorkGoes, DInv, InFlightExact
    <2> QED BY <2>1, <2>2
  <1>9. call' \in [Callers -> CallStates] /\ \A u \in Callers : call'[u] \in {call[u], Idle}
    <2>1. call' = [u \in Callers |-> IF Home[u] = r THEN Idle ELSE call[u]]  BY DEF Crash
    <2> QED BY <2>1, IdleCall, FrameTypes
  <1>10. \A c \in offered' : c \in Commands /\ c \in offered  BY <1>4, FrameTypes
  <1>11. \A s \in Replicas : inflight'[s] \subseteq inflight[s]  BY <1>7
  <1> QED BY <1>1, <1>2, <1>3, <1>4, <1>5, <1>6, <1>7, <1>8, <1>9, <1>10, <1>11, FrameTypes, WorkKeeps
        DEF Crash, db, WorkGoes

-----------------------------------------------------------------------------
(* The theorems. *)

LEMMA CommandInit == Init => DInv
  <1> SUFFICES ASSUME Init PROVE DInv  OBVIOUS
  <1> USE DEF Init
  <1>1. TypeOK
    <2>1. <<>> \in Seq(Open \cup Final) /\ <<>> \in Seq(Jobs)  BY EmptySeq
    <2> QED BY <2>1, IdleWork, CommandLimits DEF TypeOK
  <1>2. \A c \in Commands : attempts[c] = <<>> /\ Len(attempts[c]) = 0  BY EmptySeq
  <1>3. \A u \in Callers : call[u] = Idle /\ call[u].at = "idle"  BY IdleCall
  <1>4. \A r \in Replicas : work[r] = NoJob /\ work[r].at = "idle"  BY IdleWork
  <1>5. JobsExist  BY <1>3 DEF JobsExist
  <1>6. InFlightExact  BY <1>4 DEF InFlightExact, IsInjective, ToSet
  <1>7. LedgerInv  BY <1>2, <1>3 DEF LedgerInv
  <1>8. CeilingInv
    <2>1. \A c \in Commands : Inserting(c) = {}  BY <1>3 DEF Inserting
    <2>2. \A c \in Commands : Cardinality(Inserting(c)) = 0  BY <2>1, FS_EmptySet
    <2>3. Ceiling > 0  BY CallersCount, CommandLimits DEF Ceiling
    <2> QED BY <1>2, <2>2, <2>3 DEF CeilingInv
  <1>9. PublishInv
    <2>1. \A j \in Jobs : published[j] = 0  OBVIOUS
    <2>2. Lost = 0  BY CommandLimits DEF Lost
    <2> QED BY <2>1, <2>2, PublisherCount DEF PublishInv
  <1>10. ReceiptInv  BY DEF ReceiptInv
  <1> QED BY <1>1, <1>5, <1>6, <1>7, <1>8, <1>9, <1>10 DEF DInv

LEMMA CommandStutter == ASSUME DInv, UNCHANGED vars PROVE DInv'
  BY ZenonT(60) DEF vars, db, publisher, device, budget, DInv, TypeOK, JobsExist, Exists, InFlightExact,
         LedgerInv, CeilingInv, Inserting, PublishInv, IsPending, Status, Tried, ToTry, Tries, Lost, ReceiptInv

LEMMA CommandStep == DInv /\ [Next]_vars => DInv'
  <1> SUFFICES ASSUME DInv, [Next]_vars PROVE DInv'  OBVIOUS
  <1>1. ASSUME NEW u \in Callers, Caller(u) PROVE DInv'
    <2>1. CASE \E c \in Commands : BeginDispatch(u, c) \/ AdminRetryLedgerCommand(u, c)
      BY <2>1, BeginInv DEF AdminRetryLedgerCommand
    <2> QED BY <1>1, <2>1, AppendInv, LatestInv, CountInv, InsertInv, EnqueuePublishInv, CallFailsInv
          DEF Caller
  <1>2. ASSUME NEW r \in Replicas, Publisher(r) PROVE DInv'
    <2>1. CASE PublishDeviceDispatch(r) \/ PublishFails(r)  BY <2>1, TryInv
    <2> QED BY <1>2, <2>1, TakeJobInv, MarkInv DEF Publisher
  <1>3. ASSUME Device PROVE DInv'
    BY <1>3, PollInv, IngestInv, ReadReceiptInv, RollBackInv DEF Device
  <1>4. CASE UNCHANGED vars  BY <1>4, CommandStutter
  <1> QED BY <1>1, <1>2, <1>3, <1>4, ReclaimInv, MarkLostInv, CrashInv, ClockInv, SweepInv,
             CommitInv, OperatorInv DEF Next

\* The invariant all results below rest on: whatever the calls, publishers, sweeps,
\* receipts and crashes of any number of replicas do, jobs in flight name attempts that
\* exist, a call past its count stands for one attempt to come, a pending attempt has
\* been published only by replicas that owe its mark or lost it, and a receipt is of a
\* closed attempt.
THEOREM CommandInvariant == Spec => []DInv
  BY CommandInit, CommandStep, PTL DEF Spec

\* TypeOK: among the rest, a job handed to a publisher is always one of the attempts
\* the ceiling allows.
THEOREM CommandTypeCorrect == Spec => []TypeOK
  <1>1. DInv => TypeOK  BY DEF DInv
  <1> QED BY <1>1, CommandInvariant, PTL

\* InFlightExact: publishInFlight is the publisher's job and the queue, with no slot
\* leaked on a full queue, a dropped job, a lost mark or a crash.
THEOREM InFlightSlotsExact == Spec => []InFlightExact
  <1>1. DInv => InFlightExact  BY DEF DInv
  <1> QED BY <1>1, CommandInvariant, PTL

\* AttemptCeiling: dispatch calls that count before others have inserted exceed
\* max_dispatch_attempts by less than their number.
THEOREM AttemptsBounded == Spec => []AttemptCeiling
  <1>1. DInv => AttemptCeiling  BY ExistingIsJob DEF DInv, AttemptCeiling, Ceiling
  <1> QED BY <1>1, CommandInvariant, PTL

\* PublishBound: an attempt is published at most as often as one loop of
\* PublishMaxAttempts tries per replica allows, and one loop more for each crash or
\* lost mark, for every number of tries, replicas, calls and faults.
THEOREM PublishesBounded == Spec => []PublishBound
  <1>1. ASSUME DInv, NEW j \in Jobs
        PROVE  published[j] <= PublishMaxAttempts * (Cardinality(Replicas) + faults)
    <2>1. published[j] \in Nat /\ faults \in Nat  BY <1>1, FrameTypes, FaultsType
    <2>2. Lost \in Nat
      <3>1. PublishMaxAttempts \in Nat  BY CommandLimits
      <3> QED BY <2>1, <3>1 DEF Lost
    <2>3. published[j] <= Cardinality(Tries) + Lost
      BY <1>1, <2>1, <2>2, PublisherCount DEF DInv, PublishInv
    <2>4. Cardinality(Replicas) \in Nat /\ PublishMaxAttempts \in Nat
      BY CallersCount, CommandLimits
    <2>5. PublishMaxAttempts * (Cardinality(Replicas) + faults)
            = PublishMaxAttempts * Cardinality(Replicas) + PublishMaxAttempts * faults
      BY <2>1, <2>4
    <2> QED BY <2>3, <2>5, TriesCount DEF Lost
  <1>2. DInv => PublishBound  BY <1>1 DEF PublishBound
  <1> QED BY <1>2, CommandInvariant, PTL

-----------------------------------------------------------------------------
(* The history a command's readers see. *)

\* The receipts as the contract sees them.
Outcomes == {[cmd |-> r.cmd, no |-> r.no, status |-> r.status] : r \in receipts}

LEMMA HistoryStutters ==
  ASSUME attempts' = attempts, receipts' = receipts
  PROVE  [Contract!CNext]_(Contract!cvars)
  BY DEF Contract!cvars

LEMMA SweepTimesOut ==
  ASSUME DInv, attempts' = Swept, receipts' = receipts
  PROVE  [Contract!CNext]_(Contract!cvars)
  <1>0. TypeOK  BY DEF DInv
  <1>1. ASSUME NEW c \in Commands
        PROVE  /\ Len(attempts'[c]) = Len(attempts[c])
               /\ \A n \in DOMAIN attempts[c] :
                    \/ attempts'[c][n] = attempts[c][n]
                    \/ attempts[c][n] = "sent" /\ attempts'[c][n] \in {"expired", "ack_timeout"}
    BY <1>0, SweptForward, AttemptsType DEF SameLength
  <1>2. Contract!TimeOut  BY <1>1 DEF Contract!TimeOut
  <1> QED BY <1>2 DEF Contract!CNext

LEMMA CallHistory ==
  ASSUME DInv, NEW u \in Callers, Caller(u)
  PROVE  [Contract!CNext]_(Contract!cvars)
  <1>0. TypeOK  BY DEF DInv
  <1>1. CASE \E c \in Commands : BeginDispatch(u, c) \/ AdminRetryLedgerCommand(u, c)
    BY <1>1, SweepTimesOut DEF BeginDispatch, AdminRetryLedgerCommand
  <1>2. CASE InsertAttempt(u)
    <2>1. call[u].cmd \in Commands  BY <1>0, <1>2, CallType DEF InsertAttempt
    <2>2. Contract!Begin(call[u].cmd)  BY <1>2 DEF InsertAttempt, Contract!Begin
    <2> QED BY <2>1, <2>2 DEF Contract!CNext
  <1>3. CASE \/ AppendCommandUpdateShadow(u) \/ GetLatestAttempt(u) \/ CountAttempts(u)
             \/ EnqueueMQTTPublish(u) \/ CallFails(u)
    BY <1>3, HistoryStutters DEF AppendCommandUpdateShadow, GetLatestAttempt, CountAttempts,
         EnqueueMQTTPublish, CallFails, db
  <1> QED BY <1>1, <1>2, <1>3 DEF Caller

LEMMA PublisherHistory ==
  ASSUME DInv, NEW r \in Replicas, Publisher(r)
  PROVE  [Contract!CNext]_(Contract!cvars)
  <1> DEFINE c == work[r].job[1]
             n == work[r].job[2]
  <1>0. TypeOK  BY DEF DInv
  <1>1. CASE TakeJob(r) \/ PublishDeviceDispatch(r) \/ PublishFails(r)
    BY <1>1, HistoryStutters DEF TakeJob, PublishDeviceDispatch, PublishFails, db
  <1>2. ASSUME NEW to \in {"sent", "publish_failed"}, work[r].at # "idle",
               attempts' = Moved(work[r].job, {"pending"}, to), receipts' = receipts
        PROVE  [Contract!CNext]_(Contract!cvars)
    <2>1. work[r].job \in Jobs /\ Exists(work[r].job)  BY <1>2, WorkType
    <2>2. c \in Commands /\ n \in DOMAIN attempts[c]
      BY <1>0, <2>1, JobIs, AttemptsType DEF Exists
    <2>3. CASE attempts[c][n] = "pending"
      <3>1. attempts' = [attempts EXCEPT ![c][n] = to]  BY <1>2, <2>3 DEF Moved, Status
      <3>2. CASE to = "sent"
        <4>1. Contract!Send(c, n)  BY <1>2, <2>3, <3>1, <3>2 DEF Contract!Send
        <4> QED BY <2>2, <4>1 DEF Contract!CNext
      <3>3. CASE to = "publish_failed"
        <4>1. Contract!GiveUp(c, n)  BY <1>2, <2>3, <3>1, <3>3 DEF Contract!GiveUp
        <4> QED BY <2>2, <4>1 DEF Contract!CNext
      <3> QED BY <3>2, <3>3
    <2>4. CASE attempts[c][n] # "pending"
      <3>1. attempts' = attempts  BY <1>2, <2>4 DEF Moved, Status
      <3> QED BY <1>2, <3>1, HistoryStutters
    <2> QED BY <2>3, <2>4
  <1>3. CASE MarkSent(r)  BY <1>2, <1>3 DEF MarkSent
  <1>4. CASE MarkPublishFailed(r)  BY <1>2, <1>4 DEF MarkPublishFailed
  <1> QED BY <1>1, <1>3, <1>4 DEF Publisher

\* The first receipt of an attempt closes it or is noted beside its end.
LEMMA CommitAnswers ==
  ASSUME DInv, CommitReceipt
  PROVE  [Contract!CNext]_(Contract!cvars)
  <1>0. TypeOK /\ tx # Idle  BY DEF DInv, CommitReceipt
  <1>1. tx.msg \in Messages /\ tx.no \in 1..Len(attempts[tx.msg.cmd])
    BY <1>0 DEF DInv, ReceiptInv, TypeOK
  <1>2. PICK c \in Commands : c = tx.msg.cmd  BY <1>1 DEF Messages
  <1>3. PICK n \in DOMAIN attempts[c] : n = tx.no  BY <1>0, <1>1, <1>2, AttemptsType
  <1>4. PICK s \in Reports : s = tx.msg.status  BY <1>1 DEF Messages
  <1> DEFINE q == [key |-> tx.msg.key, cmd |-> c, no |-> n, status |-> s]
  <1>5. \A p \in receipts : ~(p.cmd = c /\ p.no = n)
    BY <1>0, <1>2, <1>3 DEF DInv, ReceiptInv
  <1>6. receipts' = receipts \cup {q} /\ attempts' = Moved(<<c, n>>, Open, AttemptStatus(s))
    BY <1>2, <1>3, <1>4 DEF CommitReceipt
  <1>7. q.cmd = c /\ q.no = n /\ q.status = s  OBVIOUS
  <1> HIDE DEF q
  <1>8. Outcomes' = Outcomes \cup {[cmd |-> c, no |-> n, status |-> s]}
    BY <1>6, <1>7 DEF Outcomes
  <1>9. ~\E p \in Outcomes : p.cmd = c /\ p.no = n  BY <1>5 DEF Outcomes
  <1>10. s \in DOMAIN Contract!Outcome /\ AttemptStatus(s) = Contract!Outcome[s]
    BY <1>4, SetsAssumption DEF Contract!Outcome, AttemptStatus
  <1>11. attempts' = IF attempts[c][n] \in Open THEN [attempts EXCEPT ![c][n] = AttemptStatus(s)]
                     ELSE attempts
    BY <1>6 DEF Moved, Status
  <1>12. Contract!Answer(c, n, s)
    BY <1>8, <1>9, <1>10, <1>11 DEF Contract!Answer, Contract!Answered, Contract!Open, Open, Outcomes
  <1> QED BY <1>3, <1>10, <1>12 DEF Contract!CNext

\* CommandHistory: what calls, publishers, sweeps, receipts, operators and crashes do to a
\* command's attempts and receipts are steps of the contract: no final status is
\* rewritten, no attempt is answered twice.
THEOREM DispatchImplementsContract == Spec => CommandHistory
  <1>1. Init => Contract!CInit  BY DEF Init, Contract!CInit
  <1>2. DInv /\ [Next]_vars => [Contract!CNext]_(Contract!cvars)
    <2> SUFFICES ASSUME DInv, [Next]_vars PROVE [Contract!CNext]_(Contract!cvars)  OBVIOUS
    <2>1. ASSUME NEW r \in Replicas, Reclaim(r) \/ MarkLost(r) \/ Crash(r)
          PROVE  [Contract!CNext]_(Contract!cvars)
      BY <2>1, HistoryStutters DEF Reclaim, ReclaimStalePending, MarkLost, Crash, db
    <2>2. CASE Clock \/ Device
      BY <2>2, HistoryStutters DEF Clock, LedgerTimeoutPasses, AckDeadlinePasses, Device,
           PollRemoteCommands, IngestTelemetry, ReadReceipt, RollBackReceipt, db
    <2>3. CASE ApplyMQTTCommandAckTimeouts
      BY <2>3, SweepTimesOut DEF ApplyMQTTCommandAckTimeouts
    <2>4. CASE Operator
      <3>1. ASSUME NEW c \in Commands, CancelCommand(c) PROVE [Contract!CNext]_(Contract!cvars)
        <4>1. Contract!Cancel(c)  BY <3>1 DEF CancelCommand, Contract!Cancel, Contract!Open, Open
        <4> QED BY <4>1 DEF Contract!CNext
      <3>2. ASSUME NEW s \in {"active", "maintenance"}, SetMachineStatus(s)
            PROVE  [Contract!CNext]_(Contract!cvars)
        BY <3>2, HistoryStutters DEF SetMachineStatus
      <3> QED BY <2>4, <3>1, <3>2 DEF Operator
    <2>5. CASE UNCHANGED vars  BY <2>5, HistoryStutters DEF vars, db
    <2> QED BY <2>1, <2>2, <2>3, <2>4, <2>5, CallHistory, PublisherHistory, CommitAnswers DEF Next
  <1> QED BY <1>1, <1>2, CommandInvariant, PTL DEF Spec, CommandHistory, Contract!CSpec

=============================================================================
