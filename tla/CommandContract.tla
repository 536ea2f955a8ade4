-------------------------- MODULE CommandContract --------------------------
(***************************************************************************)
(* What remote command dispatch promises whoever reads the history of a    *)
(* command: its transport attempts are only ever added at the end, each    *)
(* one moves forward to a single final status, and a device outcome is     *)
(* final only together with the one receipt that explains it.              *)
(* The detailed specification is module CommandDispatch.                   *)
(***************************************************************************)
EXTENDS Naturals, Sequences

CONSTANT Commands

VARIABLES attempts,  \* per command the statuses of its attempts, oldest first
          receipts   \* accepted device outcomes: [cmd, no, status]

cvars == <<attempts, receipts>>

Open == {"pending", "sent"}
Answered(c, n) == \E r \in receipts : r.cmd = c /\ r.no = n

\* mapDeviceReceiptToAttemptStatus
Outcome == [acked |-> "completed", nacked |-> "nack", failed |-> "failed",
            timeout |-> "ack_timeout"]

CInit == /\ attempts = [c \in Commands |-> <<>>]
         /\ receipts = {}

Begin(c) == /\ attempts' = [attempts EXCEPT ![c] = Append(@, "pending")]
            /\ UNCHANGED receipts

Send(c, n) == /\ attempts[c][n] = "pending"
              /\ attempts' = [attempts EXCEPT ![c][n] = "sent"]
              /\ UNCHANGED receipts

GiveUp(c, n) == /\ attempts[c][n] = "pending"
                /\ attempts' = [attempts EXCEPT ![c][n] = "publish_failed"]
                /\ UNCHANGED receipts

\* An operator closes all open attempts of a command.
Cancel(c) == /\ attempts' = [attempts EXCEPT ![c] =
                   [n \in DOMAIN @ |-> IF @[n] \in Open THEN "cancelled" ELSE @[n]]]
             /\ UNCHANGED receipts

\* Deadlines close sent attempts, of any number of commands at once.
TimeOut == /\ \A c \in Commands :
                /\ Len(attempts'[c]) = Len(attempts[c])
                /\ \A n \in DOMAIN attempts[c] :
                     \/ attempts'[c][n] = attempts[c][n]
                     \/ attempts[c][n] = "sent" /\ attempts'[c][n] \in {"expired", "ack_timeout"}
           /\ UNCHANGED receipts

\* The first receipt of an attempt closes it, or is noted beside the status
\* that closed it before.
Answer(c, n, s) == /\ ~Answered(c, n)
                   /\ receipts' = receipts \cup {[cmd |-> c, no |-> n, status |-> s]}
                   /\ attempts' = IF attempts[c][n] \in Open
                                  THEN [attempts EXCEPT ![c][n] = Outcome[s]]
                                  ELSE attempts

CNext == \/ TimeOut
         \/ \E c \in Commands :
              \/ Begin(c) \/ Cancel(c)
              \/ \E n \in DOMAIN attempts[c] :
                   \/ Send(c, n) \/ GiveUp(c, n)
                   \/ \E s \in DOMAIN Outcome : Answer(c, n, s)

CSpec == CInit /\ [][CNext]_cvars
=============================================================================
